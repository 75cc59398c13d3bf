----------------------------- MODULE MCLockScan -----------------------------
(* Small indexes for LockScan: every way to lay a few records out on leaves. *)
EXTENDS LockScan

CONSTANTS MaxRecs, Kinds

MCKey == 1..3
MCPk == {11, 12, 21, 22}
MCPkHead == [pk \in MCPk |-> pk \div 10]
MCPageNo == 1..4

blank == [level |-> 0, recs |-> <<>>, next |-> Nil]

\* The tree of the leaves ls, with the first keys seps its root was given.
treeOf(ls, seps) ==
  [p \in PageNo |->
     IF Len(ls) = 1
     THEN IF p = Root THEN [level |-> 0, recs |-> ls[1], next |-> Nil] ELSE blank
     ELSE IF p = Root
     THEN [level |-> 1, next |-> Nil,
           recs |-> [i \in 1..Len(ls) |-> [key |-> seps[i], pk |-> 11, del |-> FALSE,
                                        child |-> i + 1]]]
     ELSE IF p - 1 <= Len(ls)
     THEN [level |-> 0, recs |-> ls[p - 1], next |-> IF p - 1 = Len(ls) THEN Nil ELSE p + 1]
     ELSE blank]

\* Every way to cut s in leaves, and every first key each may be known by: the
\* one it was split at, which a purge of its first records leaves behind.
treesOf(s, whole) ==
  UNION {
    LET n  == Cardinality(cuts) + 1
        at == SetToSortSeq(cuts, <)
        lo(i) == IF i = 1 THEN 1 ELSE at[i - 1] + 1
        hi(i) == IF i = n THEN Len(s) ELSE at[i]
        ls == [i \in 1..n |-> SubSeq(s, lo(i), hi(i))]
    IN {treeOf(ls, seps) :
          seps \in {f \in [1..n -> Key] :
                      \A i \in 1..n :
                        IF i = 1 THEN f[i] = 1
                        ELSE /\ f[i] <= s[lo(i)].key
                             /\ s[lo(i) - 1].key < f[i] \/ (~whole /\ s[lo(i) - 1].key = f[i])}}
    : cuts \in SUBSET (1..Len(s) - 1)}

sorted(S) == SetToSortSeq(S, LAMBDA a, b : a.key < b.key \/ (a.key = b.key /\ a.pk < b.pk))

\* Sets of records with distinct keys and primary keys.
recSets(candidates) ==
  {S \in UNION {kSubset(n, candidates) : n \in 0..MaxRecs} :
     \A a, b \in S : a # b => <<a.key, a.pk>> # <<b.key, b.pk>>}

Marks == BOOLEAN
pkRecs(pks) == [key : Key, pk : pks, del : Marks]

\* The clustered index of a whole key, and of the first column of a composite one.
clustered ==
  [def |-> [clustered |-> TRUE, Unique |-> TRUE, NKey |-> 1],
   sets |-> recSets(pkRecs({11}))]
composite ==
  [def |-> [clustered |-> TRUE, Unique |-> TRUE, NKey |-> 2],
   sets |-> recSets({x \in pkRecs(MCPk) : x.key = MCPkHead[x.pk]})]

\* A secondary index: a row has one entry that is not delete-marked, and in a
\* unique one so has a key.
oneLive(S, f(_)) == \A a, b \in S : ~a.del /\ ~b.del /\ f(a) = f(b) => a = b
secondary(pks, unique) ==
  [def |-> [clustered |-> FALSE, Unique |-> unique, NKey |-> 1],
   sets |-> {S \in recSets(pkRecs(pks)) :
               /\ oneLive(S, LAMBDA x : x.pk)
               /\ unique => oneLive(S, LAMBDA x : x.key)}]

rowsOf(pks) == sorted({[key |-> MCPkHead[pk], pk |-> pk, del |-> FALSE] : pk \in pks})

\* The rows of two primary keys, one on each leaf.  In "sharedRows" the primary
\* keys of two rows share their first column, and the rows are on one leaf; in
\* "compositeRows" they may be on two.
rowsApart == treeOf(<<SubSeq(rowsOf({11, 21}), 1, 1), SubSeq(rowsOf({11, 21}), 2, 2)>>, <<1, 2>>)

casesOf(k, whole, cut) ==
  {[def |-> k.def, tree |-> t, clust |-> c] :
     t \in UNION {treesOf(sorted(S), whole) : S \in k.sets},
     c \in cut}

\* Two leaves whose next pointers may lead anywhere: to a leaf, to the root, or to
\* a page that is none of the index's.  So may the node pointers of the root.
damaged ==
  LET whole == [treeOf(<<<<[key |-> 1, pk |-> 11, del |-> FALSE]>>,
                         <<[key |-> 3, pk |-> 11, del |-> TRUE]>>>>, <<1, 3>>) EXCEPT ![4] = Bad]
      linked(a, b, to) ==
        [whole EXCEPT ![2].next = a, ![3].next = b,
                      ![1].recs = [i \in 1..2 |-> [@[i] EXCEPT !.child = to[i]]]]
      anywhere == PageNo \cup {Nil}
  IN {linked(a, b, <<2, 3>>) : a \in anywhere, b \in anywhere}
     \cup {linked(3, b, to) : b \in {2, Nil}, to \in [1..2 -> PageNo]}

\* The leaves in the order the root points at them, and the first keys it gives.
MCOrder(t) ==
  LET ptrs == t[Root].recs
      at(p) == {i \in 1..Len(ptrs) : ptrs[i].child = p}
      key(i) == IF i = 1 \/ i > Len(ptrs) THEN Open ELSE ptrs[i].key
  IN IF t[Root].level = 0
     THEN [leaves |-> <<Root>>, low |-> [p \in PageNo |-> Open], high |-> [p \in PageNo |-> Open]]
     ELSE [leaves |-> [i \in 1..Len(ptrs) |-> ptrs[i].child],
           low  |-> [p \in PageNo |-> IF at(p) = {} THEN Open ELSE key(Min(at(p)))],
           high |-> [p \in PageNo |-> IF at(p) = {} THEN Open ELSE key(Min(at(p)) + 1)]]

MCCase ==
  UNION {
    CASE k = "clustered" -> casesOf(clustered, TRUE, {[p \in PageNo |-> blank]})
      [] k = "composite" -> casesOf(composite, FALSE, {[p \in PageNo |-> blank]})
      [] k = "damaged"   -> {[def |-> clustered.def, tree |-> t, clust |-> t] : t \in damaged}
                              \cup {[def |-> secondary({}, FALSE).def, tree |-> rowsApart, clust |-> t] :
                                      t \in damaged}
      [] k = "unique"    -> casesOf(secondary({11, 21}, TRUE), TRUE, {rowsApart})
      [] k = "secondary" -> casesOf(secondary({11, 21}, FALSE), FALSE, {rowsApart})
      [] k = "sharedRows" ->
           casesOf([secondary({11, 12}, FALSE) EXCEPT
                      !.sets = {S \in @ : Cardinality(S) = 2 /\ \A x \in S : ~x.del}],
                   FALSE, treesOf(rowsOf({11, 12, 21}), TRUE))
      [] k = "compositeRows" ->
           casesOf(secondary({11, 12}, FALSE), FALSE, treesOf(rowsOf({11, 12}), FALSE))
    : k \in Kinds}

stmt(rc, lo, hi, loIncl, hiIncl, eq) ==
  [S |-> FALSE, RC |-> rc, Lo |-> lo, Hi |-> hi, LoIncl |-> loIncl, HiIncl |-> hiIncl, Eq |-> eq]

\* What the picker and ParseLockStmt make of = < <= > >= and BETWEEN.
MCExact == {stmt(rc, k, k, TRUE, TRUE, TRUE) : rc \in BOOLEAN, k \in MCKey}
MCRange ==
  {stmt(rc, Open, k, FALSE, incl, FALSE) : rc \in BOOLEAN, k \in MCKey, incl \in BOOLEAN}
  \cup {stmt(rc, k, Open, incl, FALSE, FALSE) : rc \in BOOLEAN, k \in MCKey, incl \in BOOLEAN}
MCBetween ==
  {stmt(rc, a, b, TRUE, TRUE, FALSE) : rc \in BOOLEAN, a \in MCKey, b \in MCKey}

\* A BETWEEN taken back for a < or <=.
MCStale == {stmt(FALSE, Open, 2, TRUE, incl, FALSE) : incl \in BOOLEAN}

MCLockStmt == MCExact \cup MCRange \cup MCBetween \cup MCStale

\* Only the trees damaged on purpose are not as InnoDB writes them.
ASSUME MCWritten ==
  \A c \in MCCase : {c.tree, c.clust} \cap damaged = {} => written(c.def, c.tree, c.clust)

=============================================================================
