SPECIFICATION Spec
INVARIANT TypeOK
INVARIANT VersionsWereTheRow
INVARIANT ChainIsWhole
INVARIANT ChainEnds
INVARIANT MarksFollowView
INVARIANT ReadsTheSnapshot
CONSTANTS
  c1 = c1
  v1 = v1
  v2 = v2
  s1 = s1
  s2 = s2
  Col = {c1}
  Val = {v1, v2}
  Slot = {s1, s2}
  Zero = Zero
  None = None
  maxVersions = 2
  Foreign <- MCForeign
  MaxTrx = 2
  Views = {None, 1}
  MaxVersion = 3
SYMMETRY MCSymmetry
