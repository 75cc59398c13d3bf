SPECIFICATION Spec
INVARIANT TypeOK
INVARIANT PageUsage
INVARIANT PlanFits
INVARIANT SlotsCount
INVARIANT RunBehind
INVARIANT SplitFits
CONSTANTS
  PAGE_NEW_SUPREMUM_END = 1
  PAGE_DIR_SLOT_SIZE = 1
  PAGE_DIR_SLOT_MIN_N_OWNED = 2
  PAGE_DIR_SLOT_MAX_N_OWNED = 3
  pageEmptyFree = 13
  btrPageReorganizeLimit = 2
  spaceReserve = 3
  Clustered = TRUE
  Sizes = {2, 3}
