------------------------------ MODULE InsertPlan ------------------------------
(***************************************************************************)
(* SimulateInsert (internal/innodb/insert.go) down to where the record     *)
(* would go and which of the locks another statement holds it would wait   *)
(* for.  What the insert does to the page is left out.                     *)
(***************************************************************************)
EXTENDS BTree

\* A record lock: the index and the page, the place of the record on it (one
\* past the last for the supremum), S or X, and what of it is locked.
lock(ix, page, at, mode, kind) ==
  [ix |-> ix, page |-> page, at |-> at, mode |-> mode, kind |-> kind]

insertLeaf(tree, key) == descend(tree, key, FALSE)

equalFrom(recs, key) == {i \in lowerBound(recs, key)..Len(recs) : recs[i].key = key}

\* The first record past those equal to the key: equal keys on a non-unique
\* index are told apart by the primary key, and the new one goes after them.
insertNext(recs, key) ==
  Min({i \in lowerBound(recs, key)..Len(recs) : recs[i].key # key} \cup {Len(recs) + 1})

\* The record that already has the key: only a whole key can be a duplicate.  A
\* delete-marked entry of a secondary index belongs to some other row; on the
\* clustered index the insert rewrites it in place.
dupOf(def, recs, key) ==
  LET held == {i \in equalFrom(recs, key) : def.clustered \/ ~recs[i].del}
  IN IF def.Unique /\ def.NKey = 1 /\ held # {} THEN Min(held) ELSE 0

\* The S lock of the duplicate check waits for an X lock on the record, the
\* insert intention lock for any lock on the gap before it.
waitsForRecord(l) == l.mode = "X" /\ l.kind # "gap"
waitsForGap(l)    == l.kind # "rec"

\* InsertPlan.Blocked, as the set of locks it is the first of.
blockedBy(tree, def, key, locks) ==
  LET page == insertLeaf(tree, key)
      recs == tree[page].recs
      dup  == dupOf(def, recs, key)
  IN IF dup # 0
     THEN {l \in locks : l.ix = "idx" /\ l.page = page /\ l.at = dup /\ waitsForRecord(l)}
     ELSE {l \in locks : l.ix = "idx" /\ l.page = page /\ l.at = insertNext(recs, key)
                         /\ waitsForGap(l)}

\* The insert fails at once: the key is taken by a row.
duplicate(tree, def, key) ==
  LET recs == tree[insertLeaf(tree, key)].recs
      dup  == dupOf(def, recs, key)
  IN dup # 0 /\ ~recs[dup].del

=============================================================================
