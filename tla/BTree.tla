-------------------------------- MODULE BTree --------------------------------
(***************************************************************************)
(* The B+tree pages of an index as a snapshot of the file has them, and    *)
(* the descent every search starts with (internal/innodb/search.go).       *)
(*                                                                         *)
(* A tree is a function from page numbers to pages.  A record is its first *)
(* key column, the primary key that tells records of equal keys apart, and *)
(* its delete mark; a node pointer has them too, and a child.  Any page of *)
(* the file may be none of the index's: it cannot be read, or not parsed.  *)
(* Keys are numbers: how text, numbers and NULL compare is compareKey's,   *)
(* and is a total order on the columns a search supports.                  *)
(***************************************************************************)
EXTENDS Integers, Sequences, FiniteSets, SequencesExt

CONSTANTS
  PageNo,         \* page numbers of the tablespace
  Root,           \* the root page
  Nil,            \* FIL_NULL
  Key,            \* values of the first key column
  Pk,             \* primary keys
  maxTreeHeight   \* bounds the descent

ASSUME BTreeAssumption ==
  /\ Root \in PageNo /\ Nil \notin PageNo /\ IsFiniteSet(PageNo)
  /\ Key \subseteq Nat \ {0} /\ Pk \subseteq Nat
  /\ maxTreeHeight \in Nat \ {0}

\* "": it sorts before every key, and leaves a side of a range open.
Open == 0

Rec     == [key : Key, pk : Pk, del : BOOLEAN]
NodePtr == [key : Key, pk : Pk, del : {FALSE}, child : PageNo]
Leaf    == [level : {0}, recs : Seq(Rec), next : PageNo \cup {Nil}]
Node    == [level : Nat \ {0}, recs : Seq(NodePtr), next : PageNo \cup {Nil}]

\* What Space.Page and ParseIndex make an error of: a page past the end of the
\* file, or one that is not an index page.
Bad == [level |-> -1, recs |-> <<>>, next |-> Nil]
readable(tree, p) == tree[p].level >= 0

-----------------------------------------------------------------------------
(* search.go                                                               *)

\* Mutant: every search is strict.
leftThrough_strict(recs, key, ge) ==
  {i \in 1..Len(recs) : \A j \in 2..i : recs[j].key < key}

\* A node page is left through the last child whose key sorts before the key,
\* or for a PAGE_CUR_LE or G search (~ge) not after it.  The first record is
\* the min_rec: it stands for every key below the second.
leftThrough(recs, key, ge) ==
  {i \in 1..Len(recs) :
     \A j \in 2..i : recs[j].key < key \/ (recs[j].key = key /\ ~ge)}

childSlot(recs, key, ge) == Max(leftThrough(recs, key, ge))

\* The first record that does not sort before the key; past the last when
\* every record does.
lowerBound(recs, key) ==
  Min({i \in 1..Len(recs) : key <= recs[i].key} \cup {Len(recs) + 1})

\* The page a page is left for, itself where the walk ends: a leaf, a page with no
\* node pointer to follow, or one that is bad.
follow(tree, key, ge) ==
  [p \in PageNo |->
     LET recs == tree[p].recs IN
     IF tree[p].level = 0 \/ recs = <<>> THEN p
     ELSE recs[childSlot(recs, key, ge)].child]

\* The pages of the way down from the root, maxTreeHeight of them at most.
walk(tree, key, ge) ==
  LET next == follow(tree, key, ge)
      page[n \in 0..maxTreeHeight - 1] == IF n = 0 THEN Root ELSE next[page[n - 1]]
  IN page

\* Where it ends.  Only a leaf is a success.
descend(tree, key, ge) == walk(tree, key, ge)[maxTreeHeight - 1]

leaves(tree) == {p \in DOMAIN tree : tree[p].level = 0}

-----------------------------------------------------------------------------
(* A tree as InnoDB keeps it, for the properties.  o names its leaves in   *)
(* the order of their keys and, for each page, the keys it was given: from *)
(* o.low[p] on and below o.high[p], either of them open.                   *)

\* A node page hands what it was given to its children, cut at its separators;
\* a stale separator may be below every key of its child.
nodesOrdered(tree, o) ==
  /\ tree[Root].level \in 0..maxTreeHeight - 1
  /\ o.low[Root] = Open /\ o.high[Root] = Open
  /\ \A p \in {q \in DOMAIN tree : tree[q].level > 0} :
       LET recs == tree[p].recs IN
       /\ recs # <<>>
       /\ \A i \in 1..Len(recs) :
            LET child == recs[i].child IN
            /\ tree[child].level = tree[p].level - 1
            /\ tree[child].level = 0 => \E m \in 1..Len(o.leaves) : o.leaves[m] = child
            /\ o.low[child]  = IF i = 1 THEN o.low[p] ELSE recs[i].key
            /\ o.high[child] = IF i = Len(recs) THEN o.high[p] ELSE recs[i + 1].key

\* The leaves are linked in the order of their keys, and so are their records.
leavesOrdered(tree, o) ==
  LET n == Len(o.leaves) IN
  /\ o.leaves \in Seq(leaves(tree))
  /\ tree[Root].level = 0 => \E m \in 1..n : o.leaves[m] = Root
  /\ \A p \in leaves(tree) : tree[p].recs # <<>> => \E m \in 1..n : o.leaves[m] = p
  /\ \A m \in 1..n :
       LET p    == o.leaves[m]
           recs == tree[p].recs
       IN /\ tree[p].next = IF m = n THEN Nil ELSE o.leaves[m + 1]
          /\ o.high[p]    = IF m = n THEN Open ELSE o.low[o.leaves[m + 1]]
          /\ \A i, j \in 1..Len(recs) : i < j => recs[i].key <= recs[j].key
          /\ \A i \in 1..Len(recs) : o.low[p] <= recs[i].key
          /\ \A l \in m + 1..n :
               LET q == o.leaves[l] IN
               /\ q # p /\ o.low[q] # Open /\ o.low[p] <= o.low[q]
               /\ \A i \in 1..Len(recs) : recs[i].key <= o.low[q]

ordered(tree, o) ==
  /\ o.low \in [PageNo -> Key \cup {Open}] /\ o.high \in [PageNo -> Key \cup {Open}]
  /\ nodesOrdered(tree, o) /\ leavesOrdered(tree, o)

\* No two leaves have records of one key.
apart(tree, o) ==
  \A m \in 1..Len(o.leaves) : \A l \in m + 1..Len(o.leaves) :
    \A i \in 1..Len(tree[o.leaves[m]].recs) :
      tree[o.leaves[m]].recs[i].key < o.low[o.leaves[l]]

=============================================================================
