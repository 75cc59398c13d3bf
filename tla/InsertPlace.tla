------------------------------ MODULE InsertPlace ------------------------------
(***************************************************************************)
(* What an insert does to the leaf page it lands on (place, run and split  *)
(* of internal/innodb/insert.go), over every page the server makes when it *)
(* inserts as planned, frees records, reorganizes and splits.              *)
(*                                                                         *)
(* A record is where its first byte is and how many it takes; keys are     *)
(* left out, the order of recs is theirs.  A place to insert at is the     *)
(* number of records before it: 0 is after the infimum.                    *)
(***************************************************************************)
EXTENDS Integers, SequencesExt

CONSTANTS
  PAGE_NEW_SUPREMUM_END,  \* where the heap starts
  PAGE_DIR_SLOT_SIZE,
  PAGE_DIR_SLOT_MIN_N_OWNED, PAGE_DIR_SLOT_MAX_N_OWNED,
  pageEmptyFree, btrPageReorganizeLimit, spaceReserve,
  Clustered,
  Sizes                   \* the bytes a record may take

PAGE_LEFT         == 1
PAGE_RIGHT        == 2
PAGE_NO_DIRECTION == 5

\* The directory slots n records need at the minimum of records per slot.
dirReserved(n) ==
  (PAGE_DIR_SLOT_SIZE * n + PAGE_DIR_SLOT_MIN_N_OWNED - 1) \div PAGE_DIR_SLOT_MIN_N_OWNED

\* The server takes no record that two of do not fit on a page.
ASSUME InsertPlaceAssumption ==
  /\ PAGE_NEW_SUPREMUM_END \in Nat \ {0} /\ PAGE_DIR_SLOT_SIZE \in Nat \ {0}
  /\ PAGE_DIR_SLOT_MIN_N_OWNED \in Nat \ {0} /\ PAGE_DIR_SLOT_MAX_N_OWNED \in Nat
  /\ 2 * PAGE_DIR_SLOT_MIN_N_OWNED <= PAGE_DIR_SLOT_MAX_N_OWNED + 1
  /\ pageEmptyFree \in Nat /\ btrPageReorganizeLimit \in Nat /\ spaceReserve \in Nat
  /\ Clustered \in BOOLEAN
  /\ Sizes \subseteq Nat \ {0}
  /\ \A s \in Sizes : 2 * s + dirReserved(2) <= pageEmptyFree

VARIABLES
  recs,       \* the user records in list order
  owned,      \* n_owned of each, and of the supremum last
  free,       \* the PAGE_FREE list
  HeapTop, NHeap, Garbage, \* of the page header, as are
  LastInsert, Direction, NDirection

vars == <<recs, owned, free, HeapTop, NHeap, Garbage, LastInsert, Direction, NDirection>>

Rec   == [off : Nat, size : Sizes]
NRecs == Len(recs)

\* Infimum and supremum have a slot each, another every record that owns some.
NDirSlots == 2 + Cardinality({i \in 1 .. NRecs : owned[i] > 0})

bytes(r)   == r.off .. r.off + r.size - 1
bytesOf(s) == UNION {bytes(s[i]) : i \in DOMAIN s}

-----------------------------------------------------------------------------
(* The plan.                                                               *)

\* What n new records can take from the heap as it stands, and once the garbage is
\* compacted away.
maxInsertSize_free(n) ==                                              \* Mutant
  LET occupied == HeapTop - PAGE_NEW_SUPREMUM_END
  IN  Max({pageEmptyFree - occupied, 0})
maxInsertSize(n) ==
  LET occupied == HeapTop - PAGE_NEW_SUPREMUM_END + dirReserved(n + NHeap - 2)
  IN  Max({pageEmptyFree - occupied, 0})
maxInsertSizeAfterReorganize(n) ==
  LET occupied == HeapTop - PAGE_NEW_SUPREMUM_END - Garbage + dirReserved(n + NRecs)
  IN  Max({pageEmptyFree - occupied, 0})

\* The insert pattern: the record inserted last is a neighbour of the new one.
run(p) ==
  IF LastInsert = 0                                   THEN 0
  ELSE IF p > 0 /\ LastInsert = recs[p].off           THEN PAGE_RIGHT
  ELSE IF p < NRecs /\ LastInsert = recs[p + 1].off   THEN PAGE_LEFT
  ELSE 0

\* SimulateInsert takes the record to be as long as its neighbour.
sizeOf(p) == IF p > 0 THEN recs[p].size ELSE recs[1].size

\* A compacted page could not take the record, or compacting would gain too
\* little, or a run of inserts comes to the space kept for updates.
splits_garbage(p, size) ==                                            \* Mutant
  /\ Garbage > 0 /\ NRecs > 1 /\ maxInsertSize(1) < size
  /\ maxInsertSizeAfterReorganize(1) < size
splits(p, size) ==
  LET FreeNow == maxInsertSize(1)
      FreeReorganized == maxInsertSizeAfterReorganize(1)
  IN  \/ /\ Garbage > 0 /\ NRecs > 1 /\ FreeNow < size
         /\ FreeReorganized < size \/ FreeReorganized < btrPageReorganizeLimit
      \/ Garbage = 0 /\ FreeReorganized < size
      \/ /\ Clustered /\ NRecs >= 2 /\ run(p) # 0
         /\ spaceReserve + size > FreeReorganized

place_head(p, size) ==                                                \* Mutant
  IF splits(p, size) THEN "split" ELSE IF free # <<>> THEN "free list"
  ELSE IF maxInsertSize(1) >= size THEN "heap" ELSE "reorganize"
place(p, size) ==
  IF splits(p, size)                                   THEN "split"
  ELSE IF free # <<>> /\ Head(free).size >= size       THEN "free list"
  ELSE IF maxInsertSize(1) >= size                     THEN "heap"
  ELSE "reorganize"

\* The record whose slot the new one falls under: the next that owns one.  The new
\* record is not counted: it goes before the record that is now at p + 1.
owner(p) == Min({i \in p + 1 .. NRecs + 1 : owned[i] > 0})

slotSplit_late(p) == owned[owner(p)] > PAGE_DIR_SLOT_MAX_N_OWNED         \* Mutant
slotSplit(p) == owned[owner(p)] + 1 > PAGE_DIR_SLOT_MAX_N_OWNED

\* Direction and NDirection afterwards.
pattern_turn(p) ==                                                    \* Mutant
  IF LastInsert # 0 /\ run(p) # 0 THEN <<run(p), NDirection + 1>> ELSE <<PAGE_NO_DIRECTION, 0>>
pattern(p) ==
  IF \/ run(p) = PAGE_RIGHT /\ Direction # PAGE_LEFT
     \/ run(p) = PAGE_LEFT /\ Direction # PAGE_RIGHT
  THEN <<run(p), NDirection + 1>>
  ELSE <<PAGE_NO_DIRECTION, 0>>

\* SplitPlan for a run r.  At is the first record of the upper half, 0 when that
\* is the new one.  The middle counts the infimum as one of the lower half.
splitRight(r) == r # PAGE_LEFT
splitAt_middle(p, r) ==                                               \* Mutant
  IF r = PAGE_LEFT THEN p + 1 ELSE (NRecs + 1) \div 2
splitAt(p, r) ==
  CASE r = PAGE_RIGHT          -> IF p + 2 < NRecs + 1 THEN p + 2 ELSE 0
    [] r = PAGE_LEFT           -> IF p > 1 THEN p ELSE p + 1
    [] r = 0 /\ NRecs > 1      -> (NRecs + 2) \div 2
    [] r = 0 /\ NRecs <= 1     -> IF p < NRecs THEN p + 1 ELSE 0
splitMoved(p, r) ==
  CASE splitAt(p, r) = 0                     -> NRecs - p
    [] splitAt(p, r) # 0 /\ splitRight(r)    -> NRecs + 1 - splitAt(p, r)
    [] OTHER                                 -> splitAt(p, r) - 1
insertLeft(p, r) == splitAt(p, r) >= p + 1

-----------------------------------------------------------------------------
(* The server: external.  It does what the plan says.                      *)

\* The ways the n records of a page may be divided among slots.
groupings(n) ==
  LET last(G, i) == Max({g \in G : g < i} \cup {0})
      own(G)     == [i \in 1 .. n + 1 |-> IF i \in G \cup {n + 1} THEN i - last(G, i) ELSE 0]
  IN  {o \in {own(G) : G \in SUBSET (1 .. n)} :
         /\ \A i \in 1 .. n : o[i] = 0 \/ o[i] >= PAGE_DIR_SLOT_MIN_N_OWNED
         /\ \A i \in 1 .. n + 1 : o[i] <= PAGE_DIR_SLOT_MAX_N_OWNED}

\* A slot that got one too many is split in two.
joinSlot(p) ==
  LET o      == owner(p) + 1
      n      == owned[owner(p)] + 1
      lower  == n \div 2
      joined == [InsertAt(owned, p + 1, 0) EXCEPT ![o] = n]
      upper  == [joined EXCEPT ![o] = n - lower]
  IN  IF slotSplit(p) THEN [upper EXCEPT ![o - (n - lower)] = lower] ELSE joined

\* The records of a sequence one after the other from the start of the heap.
compacted(s) ==
  [i \in DOMAIN s |->
     [s[i] EXCEPT !.off = PAGE_NEW_SUPREMUM_END + Cardinality(UNION {bytes(s[j]) : j \in 1 .. i - 1})]]

inserted(p, r) ==
  /\ recs' = InsertAt(recs, p + 1, r)
  /\ owned' = joinSlot(p)
  /\ LastInsert' = r.off /\ Direction' = pattern(p)[1] /\ NDirection' = pattern(p)[2]

\* What is left of a freed record the new one does not fill stays garbage.
InsertFreeList(p, size) ==
  /\ place(p, size) = "free list"
  /\ inserted(p, [off |-> Head(free).off, size |-> size])
  /\ free' = Tail(free) /\ Garbage' = Garbage - size
  /\ UNCHANGED <<HeapTop, NHeap>>

InsertHeap(p, size) ==
  /\ place(p, size) = "heap"
  /\ inserted(p, [off |-> HeapTop, size |-> size])
  /\ HeapTop' = HeapTop + size /\ NHeap' = NHeap + 1
  /\ UNCHANGED <<free, Garbage>>

\* The directory and the insert pattern are rebuilt before the record goes in.
InsertReorganize(p, size) ==
  /\ place(p, size) = "reorganize"
  /\ LET top == HeapTop - Garbage
     IN  /\ recs' = InsertAt(compacted(recs), p + 1, [off |-> top, size |-> size])
         /\ HeapTop' = top + size
         /\ LastInsert' = top
  /\ owned' \in groupings(NRecs + 1)
  /\ free' = <<>> /\ Garbage' = 0 /\ NHeap' = NRecs + 3
  /\ Direction' = PAGE_NO_DIRECTION /\ NDirection' = 0

\* The half that stays on the page, which is a fresh copy of it when it was the
\* root.  What goes to the new page is freed here; the insert comes after.
Split(p, size, root) ==
  /\ place(p, size) = "split"
  /\ LET r     == IF root THEN 0 ELSE run(p)
         s     == IF root THEN compacted(recs) ELSE recs
         moved == splitMoved(p, r)
         gone  == IF splitRight(r) THEN SubSeq(s, NRecs - moved + 1, NRecs) ELSE SubSeq(s, 1, moved)
     IN  /\ recs' = IF splitRight(r) THEN SubSeq(s, 1, NRecs - moved) ELSE SubSeq(s, moved + 1, NRecs)
         /\ owned' \in groupings(NRecs - moved)
         /\ free' = gone \o (IF root THEN <<>> ELSE free)
         /\ Garbage' = Cardinality(bytesOf(gone)) + (IF root THEN 0 ELSE Garbage)
         /\ HeapTop' = IF root THEN HeapTop - Garbage ELSE HeapTop
         /\ NHeap' = IF root THEN NRecs + 2 ELSE NHeap
  /\ LastInsert' = 0
  /\ UNCHANGED <<Direction, NDirection>>

emptyPage ==
  /\ recs' = <<>> /\ owned' = <<1>> /\ free' = <<>>
  /\ HeapTop' = PAGE_NEW_SUPREMUM_END /\ NHeap' = 2 /\ Garbage' = 0
  /\ LastInsert' = 0 /\ Direction' = PAGE_NO_DIRECTION /\ NDirection' = 0

\* Purge, or an insert rolled back.
Free(i) ==
  \/ NRecs = 1 /\ emptyPage
  \/ /\ NRecs > 1
     /\ recs' = RemoveAt(recs, i)
     /\ owned' \in groupings(NRecs - 1)
     /\ free' = <<recs[i]>> \o free /\ Garbage' = Garbage + recs[i].size
     /\ LastInsert' = 0
     /\ UNCHANGED <<HeapTop, NHeap, Direction, NDirection>>

-----------------------------------------------------------------------------

Init ==
  /\ recs = <<>> /\ owned = <<1>> /\ free = <<>>
  /\ HeapTop = PAGE_NEW_SUPREMUM_END /\ NHeap = 2 /\ Garbage = 0
  /\ LastInsert = 0 /\ Direction = PAGE_NO_DIRECTION /\ NDirection = 0

Insert(p, size) ==
  \/ InsertFreeList(p, size) \/ InsertHeap(p, size) \/ InsertReorganize(p, size)
  \/ \E root \in BOOLEAN : Split(p, size, root)

Next ==
  \/ \E p \in 0 .. NRecs, size \in Sizes : Insert(p, size)
  \/ \E i \in 1 .. NRecs : Free(i)

Spec == Init /\ [][Next]_vars

-----------------------------------------------------------------------------
(* Properties.                                                             *)

\* Every variable keeps its type.
TypeOK ==
  /\ recs \in Seq(Rec) /\ owned \in [1 .. NRecs + 1 -> 0 .. PAGE_DIR_SLOT_MAX_N_OWNED]
  /\ free \in Seq(Rec)
  /\ HeapTop \in Nat /\ NHeap \in Nat /\ Garbage \in Nat
  /\ LastInsert \in Nat /\ Direction \in {PAGE_LEFT, PAGE_RIGHT, PAGE_NO_DIRECTION}
  /\ NDirection \in Nat

\* "The parts add up" (usage, index.go): everything in the heap is a record of one
\* of the lists or garbage, no two share a byte, the bytes not garbage are those
\* of records, and the heap ends before the page directory, which is charged
\* only what a slot of few records needs.
disjoint(s, t) == \A i \in DOMAIN s, j \in DOMAIN t : bytes(s[i]) \cap bytes(t[j]) = {}
alone(s)       == \A i, j \in DOMAIN s : i # j => bytes(s[i]) \cap bytes(s[j]) = {}

PageUsage ==
  /\ bytesOf(recs) \cup bytesOf(free) \subseteq PAGE_NEW_SUPREMUM_END .. HeapTop - 1
  /\ alone(recs) /\ alone(free) /\ disjoint(recs, free)
  /\ Cardinality(bytesOf(recs)) = HeapTop - PAGE_NEW_SUPREMUM_END - Garbage
  /\ HeapTop - PAGE_NEW_SUPREMUM_END + PAGE_DIR_SLOT_SIZE * (NDirSlots - 2) <= pageEmptyFree

\* Wherever the plan puts a record of its neighbour's size, there is room for it:
\* a page that is reorganized can take it afterwards.
PlanFits ==
  NRecs > 0 =>
    \A p \in 0 .. NRecs :
      CASE place(p, sizeOf(p)) = "free list"  -> sizeOf(p) <= Garbage
        [] place(p, sizeOf(p)) = "heap"       -> HeapTop - PAGE_NEW_SUPREMUM_END + sizeOf(p)
                                                   + dirReserved(NHeap - 1) <= pageEmptyFree
        [] place(p, sizeOf(p)) = "reorganize" -> Cardinality(bytesOf(recs)) + sizeOf(p)
                                                   + dirReserved(NRecs + 1) <= pageEmptyFree
        [] OTHER                              -> TRUE

\* The slots take the records in turn: each record that owns some owns itself and
\* those since the last that does, no fewer than the least and no more than the
\* most, whichever slot the plan adds to and splits.
slotsCount(o, n) ==
  /\ o[n + 1] > 0
  /\ \A i \in 1 .. n + 1 : o[i] > 0 =>
       LET before == i - o[i]
       IN  /\ before = 0 \/ (before > 0 /\ o[before] > 0)
           /\ \A j \in before + 1 .. i - 1 : o[j] = 0
           /\ o[i] <= PAGE_DIR_SLOT_MAX_N_OWNED
           /\ i <= n => o[i] >= PAGE_DIR_SLOT_MIN_N_OWNED

SlotsCount == slotsCount(owned, NRecs)

\* A run counted in one direction is there: PAGE_LAST_INSERT is a record of the page,
\* and it has as many records behind it as the run has inserts before.
RunBehind ==
  LastInsert # 0 =>
    \E i \in 1 .. NRecs :
      /\ recs[i].off = LastInsert
      /\ Direction = PAGE_RIGHT => NDirection < i
      /\ Direction = PAGE_LEFT => NDirection <= NRecs - i

\* When all records are of a size, the half the new one goes to has room for it,
\* and neither page is left without a record, whatever the run.
SplitFits ==
  \A p \in 0 .. NRecs, r \in {0, PAGE_LEFT, PAGE_RIGHT} :
    NRecs > 0 /\ (\A i \in 1 .. NRecs : recs[i].size = recs[1].size)
      /\ splits(p, recs[1].size) /\ r \in {0, run(p)} =>
    LET moved == splitMoved(p, r)
        onNew == insertLeft(p, r) # splitRight(r)
        new   == moved + (IF onNew THEN 1 ELSE 0)
        kept  == NRecs + 1 - new
    IN  /\ moved \in 0 .. NRecs /\ new > 0 /\ kept > 0
        /\ \A n \in {new, kept} : n * recs[1].size + dirReserved(n) <= pageEmptyFree
=============================================================================
