------------------------------ MODULE LockScan ------------------------------
(***************************************************************************)
(* The lock simulation (internal/innodb/lock.go): SimulateLocks walks the  *)
(* leaves of an index the way row_search_mvcc does and lists the record    *)
(* locks a statement takes: a Descend for each page of the way down, then  *)
(* a Read or a RunOff for each turn of the scan.                           *)
(* What an INSERT would then wait for (insert.go) is checked on the locks  *)
(* it leaves.                                                              *)
(*                                                                         *)
(* A record is its page and its place on it, the supremum the place past   *)
(* the last.  update and delete lock as FOR UPDATE does and are not told   *)
(* apart from it.                                                          *)
(***************************************************************************)
EXTENDS InsertPlan

CONSTANTS
  Case,     \* the indexes scanned: [def, tree, clust]
  order(_), \* the order of the leaves of a tree, where there is one
  LockStmt, \* the statements run
  PkHead,   \* the first column of a primary key
  NPages,   \* pages of the tablespace
  None      \* Go's nil

\* innodb.IndexDef: whether it is Table.Indexes[0], and what it is declared on.
IndexDef == [clustered : BOOLEAN, Unique : BOOLEAN, NKey : {1, 2}]
Tree     == [PageNo -> Leaf \cup Node \cup {Bad}]
Bound    == Key \cup {Open}

ASSUME LockScanAssumption ==
  /\ Case \subseteq [def : IndexDef, tree : Tree, clust : Tree]
  /\ LockStmt \subseteq [S : BOOLEAN, RC : BOOLEAN, Lo : Bound, Hi : Bound,
                         LoIncl : BOOLEAN, HiIncl : BOOLEAN, Eq : BOOLEAN]
  /\ \A c \in Case : c.def.clustered => c.def.Unique
  /\ PkHead \in [Pk -> Key]
  /\ NPages \in Nat /\ Cardinality(PageNo) <= NPages
  /\ None \notin Rec \cup NodePtr

\* What the picker (lockValue) and ParseLockStmt make of a predicate: = is a range
\* of one key, and a range of two ends includes both.  The picker also takes ends
\* that are the wrong way round, and after a step back a bound that is not there
\* may be included.
ASSUME LockStmtAssumption ==
  \A s \in LockStmt :
    /\ s.Eq => s.Lo = s.Hi /\ s.Lo # Open
    /\ s.Lo # Open /\ s.Hi # Open => s.LoIncl /\ s.HiIncl

VARIABLES
  idx, tree, clust,      \* the index scanned and the clustered one behind it
  st,                    \* lockSim.st
  status,                \* "descend", "scan", "row", then "done" or "error"
  depth,                 \* descend: the pages it has left
  leaf, pos, prev,       \* the cursor and the last record read
  first, stopFound, hops,
  cl, rowHops,           \* lockSim.row: its leaf, and the leaves it has left
  out                    \* lockSim.out

index  == <<idx, tree, clust, st>>
cursor == <<leaf, pos, prev, first, stopFound, hops>>
inRow  == <<cl, rowHops>>
vars   == <<index, status, depth, cursor, inRow, out>>

recs == tree[leaf].recs
r    == recs[pos]

\* lockSim.base and add.
base == IF st.S THEN "S" ELSE "X"
add(page, at, kind) == {lock("idx", page, at, base, kind)}

\* An exact match on all columns of a unique key.
uniqueSearch == st.Eq /\ idx.Unique /\ idx.NKey = 1

pastHi(rec) == st.Hi < rec.key \/ (st.Hi = rec.key /\ ~st.HiIncl)
inRange ==  st.Hi = Open \/ ~pastHi(r)

ge == st.Lo # Open /\ st.LoIncl

-----------------------------------------------------------------------------
\* Mutant: the place counts from 0.
openPast_zero(page, at) == at - 1

\* PAGE_CUR_G: the cursor opens past every record of the page equal to the bound.
openPast(page, at) ==
  IF st.Lo # Open /\ ~st.LoIncl
  THEN Min({i \in at..Len(page.recs) : page.recs[i].key # st.Lo} \cup {Len(page.recs) + 1})
  ELSE at

\* Mutant: the pages left are not counted.
deeper_stuck == depth
deeper == depth + 1

\* A turn of descend: a leaf is the end of it and the scan opens on it, a node
\* page is left for a child, and there is no way on from any other page.
Descend ==
  /\ status = "descend"
  /\ \/ /\ tree[leaf].level = 0
        /\ pos' = openPast(tree[leaf], lowerBound(recs, st.Lo))
        /\ status' = "scan" /\ UNCHANGED <<depth, leaf>>
     \/ /\ tree[leaf].level # 0 /\ recs # <<>> /\ deeper < maxTreeHeight
        /\ leaf' = follow(tree, st.Lo, st.LoIncl)[leaf]
        /\ depth' = deeper /\ UNCHANGED <<pos, status>>
     \/ /\ tree[leaf].level # 0 /\ (recs = <<>> \/ deeper >= maxTreeHeight)
        /\ status' = "error" /\ UNCHANGED <<depth, leaf, pos>>
  /\ UNCHANGED <<index, prev, first, stopFound, hops, inRow, out>>

\* Mutant: the leaves passed are not counted.
hop_stuck == hops
hop == hops + 1

\* Mutant: the record past the bound is not remembered.
readPast_forgot == FALSE
readPast == prev # None /\ st.Hi # Open /\ pastHi(prev)

\* The leaf is read to its end: its supremum is locked, unless the last record
\* read is past the bound, and the scan moves on to the page it names, whatever
\* its level.
RunOff ==
  /\ status = "scan" /\ pos > Len(recs)
  /\ IF ~st.RC /\ readPast
     THEN status' = "done" /\ UNCHANGED <<leaf, pos, hops, out>>
     ELSE /\ out' = IF st.RC THEN out
                    ELSE out \cup add(leaf, Len(recs) + 1, "ordinary")
          /\ \/ /\ tree[leaf].next = Nil
                /\ status' = "done" /\ UNCHANGED <<leaf, pos, hops>>
             \/ /\ tree[leaf].next # Nil
                /\ hop >= NPages \/ ~readable(tree, tree[leaf].next)
                /\ status' = "error" /\ hops' = hop /\ UNCHANGED <<leaf, pos>>
             \/ /\ tree[leaf].next # Nil
                /\ hop < NPages /\ readable(tree, tree[leaf].next)
                /\ leaf' = tree[leaf].next /\ pos' = 1 /\ hops' = hop
                /\ UNCHANGED status
  /\ UNCHANGED <<index, depth, prev, first, stopFound, inRow>>

-----------------------------------------------------------------------------
(* lockSim.row: the clustered record behind a secondary index record.      *)

\* The leaf the descent by the first primary key column ends on.
rowLeaf(pk) == descend(clust, PkHead[pk], FALSE)

\* Where the record of this primary key is on a page, among those that share its
\* first column.
samePK(page, pk) ==
  {i \in lowerBound(page.recs, PkHead[pk])..Len(page.recs) :
     /\ \A j \in lowerBound(page.recs, PkHead[pk])..i : page.recs[j].key = PkHead[pk]
     /\ page.recs[i].pk = pk}

\* Where it is on that leaf.
rowAt(pk) ==
  UNION {samePK(page, pk) : page \in {p \in {clust[rowLeaf(pk)]} : p.level = 0}}

rowFailed(rec) == ~idx.clustered /\ rowAt(rec.pk) = {}

\* The records that share the column run on into the next page.
rowRunsOn(pk) ==
  LET page == clust[rowLeaf(pk)] IN
  /\ page.level = 0 /\ page.next # Nil
  /\ \A j \in lowerBound(page.recs, PkHead[pk])..Len(page.recs) : page.recs[j].key = PkHead[pk]

\* Mutant: the leaves passed are not counted.
rowHop_stuck == rowHops
rowHop == rowHops + 1

\* A later leaf is read with the definition of the index scanned.  What that makes
\* of its records may be an error, another key, or the same key to the end of the
\* page; it is not the row.
RowRunOn ==
  /\ status = "row" /\ rowHops' = rowHop
  /\ \/ status' = "error" /\ UNCHANGED cl
     \/ /\ rowHop < NPages /\ readable(clust, clust[cl].next)
        /\ clust[clust[cl].next].next # Nil
        /\ cl' = clust[cl].next /\ UNCHANGED status
  /\ UNCHANGED <<index, depth, cursor, out>>

\* Mutant: a secondary index scan leaves the row unlocked.
rowLocks_none(rec) == {}

rowLocks(rec) ==
  IF idx.clustered THEN {}
  ELSE {lock("clust", rowLeaf(rec.pk), i, base, "rec") : i \in rowAt(rec.pk)}

\* The record at the cursor is returned as a row.  The statement ends with it,
\* or the scan goes on to the next record.
returned(locks, ends) ==
  /\ out' = out \cup locks \cup rowLocks(r)
  /\ \/ /\ rowFailed(r) /\ rowRunsOn(r.pk)
        /\ status' = "row" /\ cl' = rowLeaf(r.pk) /\ UNCHANGED pos
     \/ /\ rowFailed(r) /\ ~rowRunsOn(r.pk)
        /\ status' = "error" /\ UNCHANGED <<pos, cl>>
     \/ /\ ~rowFailed(r) /\ ends
        /\ status' = "done" /\ UNCHANGED <<pos, cl>>
     \/ /\ ~rowFailed(r) /\ ~ends
        /\ pos' = pos + 1 /\ UNCHANGED <<status, cl>>

stop(locks) == out' = out \cup locks /\ status' = "done" /\ UNCHANGED <<pos, cl>>
skip(locks) == out' = out \cup locks /\ pos' = pos + 1 /\ UNCHANGED <<status, cl>>

-----------------------------------------------------------------------------
reading == status = "scan" /\ pos <= Len(recs)
miss    == st.Eq /\ r.key # st.Lo

\* ROW_SEL_EXACT: the first record that is not the key ends the search.
ReadMiss ==
  /\ reading /\ miss
  /\ stop(IF st.RC THEN {} ELSE add(leaf, pos, "gap"))
  /\ UNCHANGED <<index, depth, leaf, prev, first, stopFound, hops, rowHops>>

\* No gap locks, and none on a record that is not a row of the result.
ReadCommitted ==
  /\ reading /\ ~miss /\ st.RC
  /\ \/ ~inRange /\ stop({})
     \/ inRange /\ ~r.del /\ returned(add(leaf, pos, "rec"), uniqueSearch)
     \/ inRange /\ r.del /\ uniqueSearch /\ idx.clustered /\ stop({})
     \/ inRange /\ r.del /\ ~(uniqueSearch /\ idx.clustered) /\ skip({})
  /\ prev' = r
  /\ UNCHANGED <<index, depth, leaf, first, stopFound, hops, rowHops>>

\* No other row can have the key, or nothing in range fits in the gap before it.
alone ==
  \/ uniqueSearch /\ ~r.del
  \/ idx.clustered /\ ge /\ first /\ idx.NKey = 1 /\ st.Lo = r.key

\* Mutant: an excluded bound is not known.
bounded_incl == idx.clustered /\ st.Hi # Open /\ st.HiIncl /\ ~alone

\* The clustered index knows the upper bound.
bounded == idx.clustered /\ st.Hi # Open /\ ~alone

\* The record past the bound: the gap before it, unless the bound was seen.
ReadPast ==
  /\ reading /\ ~miss /\ ~st.RC /\ bounded /\ st.Hi < r.key
  /\ stop(IF stopFound THEN {} ELSE add(leaf, pos, "gap"))
  /\ UNCHANGED <<index, depth, leaf, prev, first, stopFound, hops, rowHops>>

lockKind ==
  IF alone THEN "rec"
  ELSE IF bounded /\ st.Hi = r.key /\ ~st.HiIncl THEN "gap"
  ELSE "ordinary"

\* Mutant: the bound ends the range on a composite key too.
seesStop_any == bounded /\ st.Hi = r.key

\* Only a whole key can be the last record in range.
seesStop == bounded /\ st.Hi = r.key /\ (st.HiIncl => idx.NKey = 1)

\* Every other record read: locked, then skipped when it is delete-marked, the
\* last one when it is past the range, and a row otherwise.
ReadNext ==
  /\ reading /\ ~miss /\ ~st.RC /\ ~(bounded /\ st.Hi < r.key)
  /\ LET locks == add(leaf, pos, lockKind) IN
     \/ r.del /\ idx.clustered /\ uniqueSearch /\ stop(locks)
     \/ r.del /\ ~(idx.clustered /\ uniqueSearch) /\ skip(locks)
     \/ ~r.del /\ ~inRange /\ stop(locks)
     \/ ~r.del /\ inRange /\ returned(locks, uniqueSearch)
  /\ first' = FALSE /\ prev' = r
  /\ stopFound' = IF bounded /\ st.Hi = r.key THEN seesStop ELSE stopFound
  /\ UNCHANGED <<index, depth, leaf, hops, rowHops>>

-----------------------------------------------------------------------------
Init ==
  /\ \E c \in Case : idx = c.def /\ tree = c.tree /\ clust = c.clust
  /\ st \in LockStmt
  /\ status = "descend" /\ depth = 0 /\ leaf = Root /\ pos = 1 /\ prev = None
  /\ first = TRUE /\ stopFound = FALSE /\ hops = 0
  /\ cl = Root /\ rowHops = 0 /\ out = {}

Terminated == status \in {"done", "error"} /\ UNCHANGED vars

Next ==
  \/ Descend \/ RunOff \/ RowRunOn
  \/ ReadMiss \/ ReadCommitted \/ ReadPast \/ ReadNext
  \/ Terminated

Spec == Init /\ [][Next]_vars

\* SimulateLocks is one call: nothing keeps its loops from their next turn.
FairSpec == Spec /\ WF_vars(Next)

-----------------------------------------------------------------------------
(* Properties.                                                             *)

TypeOK ==
  /\ idx \in IndexDef /\ st \in LockStmt
  /\ status \in {"descend", "scan", "row", "done", "error"}
  /\ depth \in 0..maxTreeHeight - 1
  /\ leaf \in PageNo /\ pos \in Nat \ {0} /\ prev \in Rec \cup NodePtr \cup {None}
  /\ first \in BOOLEAN /\ stopFound \in BOOLEAN
  /\ hops \in 0..NPages /\ cl \in PageNo /\ rowHops \in 0..NPages
  /\ out \subseteq [ix : {"idx", "clust"}, page : PageNo, at : Nat \ {0},
                    mode : {"S", "X"}, kind : {"ordinary", "gap", "rec"}]

\* A row has one entry of its key in a unique index; an entry of another row may
\* be left behind it in a secondary one, delete-marked, and is on the same leaf.
wholeKeys(def, t) ==
  /\ apart(t, order(t))
  /\ \A p \in leaves(t) : \A i, j \in 1..Len(t[p].recs) :
       i # j /\ t[p].recs[i].key = t[p].recs[j].key
         => ~def.clustered /\ (t[p].recs[i].del \/ t[p].recs[j].del)

\* The clustered index has the row behind every entry that is not delete-marked.
rowsThere(t, rows) ==
  \A p \in leaves(t) : \A i \in 1..Len(t[p].recs) : ~t[p].recs[i].del =>
    \E q \in leaves(rows) : \E j \in 1..Len(rows[q].recs) :
      /\ rows[q].recs[j].pk = t[p].recs[i].pk
      /\ rows[q].recs[j].key = PkHead[t[p].recs[i].pk]

\* The indexes as InnoDB writes them.
written(def, t, rows) ==
  /\ ordered(t, order(t))
  /\ def.Unique /\ def.NKey = 1 => wholeKeys(def, t)
  /\ ~def.clustered => ordered(rows, order(rows)) /\ rowsThere(t, rows)

intact == written(idx, tree, clust)

\* The records the statement's predicate is true of.
matches(key) ==
  /\ st.Lo # Open => st.Lo < key \/ (st.Lo = key /\ st.LoIncl)
  /\ st.Hi # Open => key < st.Hi \/ (st.Hi = key /\ st.HiIncl)

locksOn(page, at) == {l \in out : l.ix = "idx" /\ l.page = page /\ l.at = at}

\* A row another transaction could add to what the statement read: an insert of
\* the key neither fails on a duplicate nor waits.
gains(key) ==
  matches(key) /\ ~duplicate(tree, idx, key) /\ blockedBy(tree, idx, key, out) = {}

\* "Gap and next-key locks: what is read cannot gain rows either" (lockStep):
\* once a REPEATABLE READ statement is done SimulateInsert shows every insert
\* in its range waiting, across page boundaries and delete-marked records.  A
\* share mode statement is left out: the insert that rewrites a delete-marked
\* clustered record is shown waiting for X locks only.
NoPhantom == status = "done" /\ intact /\ ~st.RC /\ ~st.S => ~\E k \in Key : gains(k)

\* Every row the predicate is true of is locked itself, in the index scanned and
\* behind a secondary index in the clustered one, whatever the isolation level:
\* no record is passed over where the search opens, at a page boundary or among
\* delete-marked entries of its key (lockSim.scan).
RowsHeld ==
  status = "done" /\ intact =>
    \A p \in leaves(tree) : \A i \in 1..Len(tree[p].recs) :
      LET rec == tree[p].recs[i] IN
      ~rec.del /\ matches(rec.key) =>
        /\ \E l \in locksOn(p, i) : l.kind # "gap"
        /\ ~idx.clustered =>
             \E l \in out : l.ix = "clust" /\ clust[l.page].recs[l.at].pk = rec.pk

\* "READ COMMITTED locks the matching records alone" (SimulateLocks): no gap, no
\* supremum, no delete-marked record and none out of range.
CommittedAlone ==
  st.RC => \A l \in out : l.ix = "idx" =>
    /\ l.kind = "rec" /\ l.at <= Len(tree[l.page].recs)
    /\ ~tree[l.page].recs[l.at].del /\ matches(tree[l.page].recs[l.at].key)

\* No key is in the range.
emptyRange == st.Lo # Open /\ st.Hi # Open /\ st.Hi < st.Lo

\* "A clustered index range bounded above locks the record past the bound only
\* as far as the gap before it" (SimulateLocks), and nothing beyond it.  A range
\* whose ends are the wrong way round locks the record at its lower bound.
GapPastBound ==
  idx.clustered /\ st.Hi # Open /\ ~st.RC /\ ~emptyRange =>
    \A l \in out : l.at <= Len(tree[l.page].recs) /\ st.Hi < tree[l.page].recs[l.at].key
      => /\ l.kind = "gap"
         /\ \A m \in out : m.at <= Len(tree[m.page].recs)
                             => tree[m.page].recs[m.at].key <= tree[l.page].recs[l.at].key

\* "Once the last record read is past the bound InnoDB knows there is nothing more
\* to lock" (lockSim.scan): no supremum above a record past it.
SupremumInRange ==
  st.Hi # Open /\ ~emptyRange =>
    \A l \in out : l.ix = "idx" /\ l.at > Len(tree[l.page].recs) =>
      \A i \in 1..Len(tree[l.page].recs) : ~pastHi(tree[l.page].recs[i])

\* A statement takes no lock its isolation level spares the others: what keeps
\* NoPhantom and RowsHeld from being met by locking too much.
NothingMore ==
  status = "done" /\ intact => CommittedAlone /\ GapPastBound /\ SupremumInRange

\* On a tree InnoDB wrote the scan reads to its end: no entry of a secondary
\* index is taken for one that points at no row (lockSim.row).
ScanSucceeds == status = "error" => ~intact

\* Every statement is answered, wherever the node pointers and the next pointers
\* lead, to a page of any level or to none of the index's: neither the way down, nor
\* the scan, nor the search for a row can hang the browser on a file that loops.
ScanEnds == <>(status \in {"done", "error"})

=============================================================================
