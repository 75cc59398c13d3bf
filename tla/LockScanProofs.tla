---------------------------- MODULE LockScanProofs ----------------------------
(***************************************************************************)
(* Proofs about LockScan, and about the descent of BTree and the place     *)
(* InsertPlan finds, which it rests on.                                    *)
(***************************************************************************)
EXTENDS LockScan, NatSets, SequenceTheorems, TLAPS

-----------------------------------------------------------------------------
(* The descent.                                                            *)

\* A node page is left through a child; the key is not before what that child was
\* given, and is before what the next one was.
LEMMA ChildSlot ==
  ASSUME NEW recs_ \in Seq(NodePtr), recs_ # <<>>, NEW key \in Nat, NEW ge_ \in BOOLEAN
  PROVE  LET i == childSlot(recs_, key, ge_) IN
         /\ i \in 1..Len(recs_)
         /\ i > 1 => recs_[i].key < key \/ (recs_[i].key = key /\ ~ge_)
         /\ i < Len(recs_) => key < recs_[i + 1].key \/ (recs_[i + 1].key = key /\ ge_)
<1> DEFINE T == leftThrough(recs_, key, ge_)
           i == childSlot(recs_, key, ge_)
<1>1. Len(recs_) \in Nat /\ 1 \in 1..Len(recs_) BY EmptySeq, SMT
<1>2. T \in SUBSET (0..Len(recs_)) /\ 1 \in T BY <1>1 DEF leftThrough
<1>3. i \in T /\ \A y \in T : y <= i
  <2> HIDE DEF T
  <2> QED BY <1>1, <1>2, GreatestOf DEF childSlot, T
<1> HIDE DEF i
<1>4. i \in 1..Len(recs_) /\ \A j \in 2..i : recs_[j].key < key \/ (recs_[j].key = key /\ ~ge_)
  BY <1>3 DEF leftThrough
<1>5. ASSUME i < Len(recs_)
      PROVE  key < recs_[i + 1].key \/ (recs_[i + 1].key = key /\ ge_)
  <2>1. i + 1 \in 1..Len(recs_) /\ ~ (i + 1 <= i) BY <1>4, <1>5
  <2>2. i + 1 \notin T BY <1>3, <2>1
  <2>3. PICK j \in 2..(i + 1) : ~ (recs_[j].key < key \/ (recs_[j].key = key /\ ~ge_))
    BY <2>1, <2>2 DEF leftThrough
  <2>4. j = i + 1 BY <1>4, <2>3
  <2>5. recs_[i + 1] \in NodePtr BY <2>1, ElementOfSeq
  <2>6. recs_[i + 1].key \in Nat BY <2>5, BTreeAssumption DEF NodePtr
  <2> QED BY <2>3, <2>4, <2>6
<1> QED BY <1>4, <1>5 DEF i

\* A page is a leaf, or has node pointers, if it has any records.
LEMMA PageKinds ==
  ASSUME NEW t \in Tree, NEW p \in PageNo
  PROVE  /\ t[p] \in Leaf \cup Node \cup {Bad}
         /\ t[p].level \in Int
         /\ t[p].level = 0 => t[p] \in Leaf /\ t[p].recs \in Seq(Rec)
         /\ t[p].level # 0 => t[p].recs \in Seq(NodePtr)
         /\ t[p].recs # <<>> => t[p].level \in Nat
         /\ t[p].next \in PageNo \cup {Nil}
         /\ p \in DOMAIN t
         /\ p \in leaves(t) <=> t[p].level = 0
<1>1. t[p] \in Leaf \cup Node \cup {Bad} /\ p \in DOMAIN t /\ DOMAIN t = PageNo BY DEF Tree
<1>2. CASE t[p] \in Leaf BY <1>1, <1>2 DEF Leaf, leaves
<1>3. CASE t[p] \in Node BY <1>1, <1>3 DEF Node, leaves
<1>4. CASE t[p] = Bad
  <2>1. t[p].level = -1 /\ t[p].recs = <<>> /\ t[p].next = Nil BY <1>4 DEF Bad
  <2>2. <<>> \in Seq(NodePtr) /\ -1 \in Int /\ -1 # 0 OBVIOUS
  <2> QED BY <1>1, <2>1, <2>2 DEF leaves
<1> QED BY <1>1, <1>2, <1>3, <1>4

LEMMA FollowType ==
  ASSUME NEW t \in Tree, NEW key \in Nat, NEW ge_ \in BOOLEAN
  PROVE  follow(t, key, ge_) \in [PageNo -> PageNo]
<1> SUFFICES ASSUME NEW p \in PageNo, t[p].level # 0, t[p].recs # <<>>
             PROVE  t[p].recs[childSlot(t[p].recs, key, ge_)].child \in PageNo
  BY DEF follow
<1>1. t[p].recs \in Seq(NodePtr) BY PageKinds
<1>2. childSlot(t[p].recs, key, ge_) \in 1..Len(t[p].recs) BY <1>1, ChildSlot
<1>3. t[p].recs[childSlot(t[p].recs, key, ge_)] \in NodePtr BY <1>1, <1>2, ElementOfSeq
<1> QED BY <1>3 DEF NodePtr

\* The walk exists, so that what is shown of its steps is true of its end.
LEMMA Walk ==
  ASSUME NEW t \in Tree, NEW key \in Nat, NEW ge_ \in BOOLEAN
  PROVE  /\ maxTreeHeight - 1 \in Nat /\ descend(t, key, ge_) = walk(t, key, ge_)[maxTreeHeight - 1]
         /\ \A n \in 0..maxTreeHeight - 1 :
              walk(t, key, ge_)[n] =
                IF n = 0 THEN Root ELSE follow(t, key, ge_)[walk(t, key, ge_)[n - 1]]
<1>0. PICK F : F = follow(t, key, ge_) OBVIOUS
<1> DEFINE M == maxTreeHeight - 1
           W(w) == w = [n \in 0..M |-> IF n = 0 THEN Root ELSE F[w[n - 1]]]
<1>1. F \in [PageNo -> PageNo] BY <1>0, FollowType
<1>2. M \in Nat /\ Root \in PageNo BY BTreeAssumption
<1>3. \E w : W(w)
  <2> HIDE DEF M
  <2> QED BY <1>1, <1>2, IterateExists, SMT
<1>4. W(CHOOSE w : W(w)) BY <1>3, Zenon
<1>5. walk(t, key, ge_) = (CHOOSE w : W(w)) BY <1>0 DEF walk
<1> HIDE DEF M
<1> DEFINE v == CHOOSE w : W(w)
<1>6. v = [n \in 0..M |-> IF n = 0 THEN Root ELSE F[v[n - 1]]] BY <1>4, Zenon
<1>8. walk(t, key, ge_) = v BY <1>5, Zenon DEF v
<1> HIDE DEF v
<1>7. \A n \in 0..M : v[n] = IF n = 0 THEN Root ELSE F[v[n - 1]] BY <1>6
<1>9. descend(t, key, ge_) = v[M] BY <1>8 DEF descend, M
<1> QED BY <1>0, <1>2, <1>7, <1>8, <1>9 DEF M

\* Wherever the node pointers lead the walk stays on pages of the tablespace.
LEMMA WalkType ==
  ASSUME NEW t \in Tree, NEW key \in Nat, NEW ge_ \in BOOLEAN
  PROVE  \A n \in 0..maxTreeHeight - 1 : walk(t, key, ge_)[n] \in PageNo
<1>0. PICK F, w : F = follow(t, key, ge_) /\ w = walk(t, key, ge_) OBVIOUS
<1> DEFINE M == maxTreeHeight - 1
           J == [n \in 0..M |-> PageNo]
<1>1. \A n \in 0..M : w[n] = IF n = 0 THEN Root ELSE F[w[n - 1]] BY <1>0, Walk
<1>2. F \in [PageNo -> PageNo] BY <1>0, FollowType
<1>3. M \in Nat /\ Root \in PageNo BY BTreeAssumption
<1> HIDE DEF M
<1>4. Root \in J[0] BY <1>3
<1>5. \A n \in 0..M : \A y \in J[n] : n < M => F[y] \in J[n + 1] BY <1>2, <1>3
<1>6. \A n \in 0..M : w[n] \in J[n]
  <2> HIDE DEF J
  <2> QED BY <1>1, <1>3, <1>4, <1>5, IterateStays, Zenon
<1> QED BY <1>0, <1>6 DEF M

LEMMA DescendType ==
  ASSUME NEW t \in Tree, NEW key \in Nat, NEW ge_ \in BOOLEAN
  PROVE  descend(t, key, ge_) \in PageNo
<1>1. maxTreeHeight - 1 \in 0..maxTreeHeight - 1 BY Walk
<1> QED BY <1>1, Walk, WalkType

\* Where there is no way on the descent ends.
LEMMA WalkEnds ==
  ASSUME NEW t \in Tree, NEW key \in Nat, NEW ge_ \in BOOLEAN, NEW d \in 0..maxTreeHeight - 1,
         LET p == walk(t, key, ge_)[d] IN
           t[p].level = 0 \/ t[p].recs = <<>> \/ d = maxTreeHeight - 1
  PROVE  descend(t, key, ge_) = walk(t, key, ge_)[d]
<1>0. PICK F, w, M : F = follow(t, key, ge_) /\ w = walk(t, key, ge_) /\ M = maxTreeHeight - 1
  OBVIOUS
<1>1. M \in Nat /\ d \in 0..M /\ descend(t, key, ge_) = w[M] BY <1>0, Walk
<1>2. \A n \in 0..M : w[n] = IF n = 0 THEN Root ELSE F[w[n - 1]] BY <1>0, Walk
<1>3. CASE d = M BY <1>0, <1>1, <1>3
<1>4. CASE d # M
  <2>1. w[d] \in PageNo BY <1>0, WalkType
  <2>2. F[w[d]] = w[d] BY <1>0, <1>4, <2>1 DEF follow
  <2> DEFINE left == {n \in d..M : w[n] # w[d]}
  <2>3. left = {}
    <3> SUFFICES ASSUME left # {} PROVE FALSE OBVIOUS
    <3>1. left \in SUBSET Nat BY <1>1
    <3>2. PICK m : m \in left /\ \A y \in left : m <= y
      <4> HIDE DEF left
      <4> QED BY <3>1, LeastOf
    <3>3. m \in d..M /\ w[m] # w[d] /\ m # d BY <3>2
    <3>4. m - 1 \in d..M /\ m \in 0..M /\ m # 0 /\ ~(m <= m - 1) BY <1>1, <3>3
    <3>5. w[m - 1] = w[d] BY <3>2, <3>4
    <3>6. w[m] = F[w[m - 1]] BY <1>2, <3>4
    <3> QED BY <2>2, <3>3, <3>5, <3>6
  <2>4. M \in d..M BY <1>1
  <2> QED BY <1>0, <1>1, <2>3, <2>4
<1> QED BY <1>3, <1>4

\* The key is one the page was given.
given(o, p, key, ge_) ==
  /\ o.low[p] # Open => o.low[p] < key \/ (o.low[p] = key /\ ~ge_)
  /\ o.high[p] # Open => key < o.high[p] \/ (o.high[p] = key /\ ge_)

listed(o, p) == \E m \in 1..Len(o.leaves) : o.leaves[m] = p

\* On a tree in order the descent ends on the leaf that was given the key.
LEMMA Descended ==
  ASSUME NEW t \in Tree, NEW o, ordered(t, o), NEW key \in Nat, NEW ge_ \in BOOLEAN
  PROVE  LET p == descend(t, key, ge_) IN
         p \in PageNo /\ t[p].level = 0 /\ listed(o, p) /\ given(o, p, key, ge_)
<1>0. PICK F, w : F = follow(t, key, ge_) /\ w = walk(t, key, ge_) OBVIOUS
<1> DEFINE M == maxTreeHeight - 1
           at(n, p) == /\ t[p].level \in Nat
                       /\ t[p].level = 0 \/ t[p].level + n = t[Root].level
                       /\ t[p].level = 0 => listed(o, p)
                       /\ given(o, p, key, ge_)
           J == [n \in 0..M |-> {p \in PageNo : at(n, p)}]
<1>1. (\A n \in 0..M : w[n] = IF n = 0 THEN Root ELSE F[w[n - 1]])
      /\ descend(t, key, ge_) = w[M]
  BY <1>0, Walk
<1>2. F \in [PageNo -> PageNo] BY <1>0, FollowType
<1>3. M \in Nat /\ Root \in PageNo BY BTreeAssumption
<1>4. nodesOrdered(t, o) /\ leavesOrdered(t, o) BY DEF ordered
<1>5. at(0, Root)
  <2>1. t[Root].level \in Nat
    <3>1. maxTreeHeight - 1 \in Nat /\ t[Root].level \in 0..maxTreeHeight - 1
      BY <1>3, <1>4 DEF nodesOrdered
    <3> QED BY <3>1
  <2>2. t[Root].level = 0 => listed(o, Root) BY <1>4 DEF leavesOrdered, listed
  <2>3. o.low[Root] = Open /\ o.high[Root] = Open BY <1>4 DEF nodesOrdered
  <2>4. given(o, Root, key, ge_) BY <2>3 DEF given
  <2> QED BY <2>1, <2>2, <2>4
<1>6. ASSUME NEW n \in 0..M, NEW p \in PageNo, at(n, p), n < M
      PROVE  at(n + 1, F[p])
  <2>1. t[p].level \in Nat BY <1>6
  <2>2. CASE t[p].level = 0 BY <1>0, <1>6, <2>2 DEF follow
  <2>3. CASE t[p].level # 0
    <3> DEFINE r_ == t[p].recs
               i == childSlot(r_, key, ge_)
               child == r_[i].child
    <3>1. r_ \in Seq(NodePtr) /\ p \in {q \in DOMAIN t : t[q].level > 0} /\ t[p].level \in Nat
      BY <2>1, <2>3, PageKinds
    <3>2. r_ # <<>> BY <1>4, <3>1 DEF nodesOrdered
    <3>3. F[p] = child BY <1>0, <2>3, <3>2 DEF follow
    <3>4. /\ i \in 1..Len(r_)
          /\ i > 1 => r_[i].key < key \/ (r_[i].key = key /\ ~ge_)
          /\ i < Len(r_) => key < r_[i + 1].key \/ (r_[i + 1].key = key /\ ge_)
      BY <3>1, <3>2, ChildSlot
    <3> HIDE DEF i
    <3>5. /\ t[child].level = t[p].level - 1
          /\ t[child].level = 0 => listed(o, child)
          /\ o.low[child]  = IF i = 1 THEN o.low[p] ELSE r_[i].key
          /\ o.high[child] = IF i = Len(r_) THEN o.high[p] ELSE r_[i + 1].key
      BY <1>4, <3>1, <3>4 DEF nodesOrdered, listed
    <3>6. child \in PageNo /\ Len(r_) \in Nat
      <4>1. r_[i] \in NodePtr BY <3>1, <3>4, ElementOfSeq
      <4>2. r_[i].child \in PageNo BY <4>1 DEF NodePtr
      <4> QED BY <3>1, <4>2
    <3>7. t[child].level \in Nat /\ t[Root].level \in Nat
      <4>1. t[p].level - 1 \in Nat BY <2>1, <2>3
      <4> HIDE DEF child
      <4> QED BY <1>5, <3>5, <4>1
    <3>8. t[child].level = 0 \/ t[child].level + (n + 1) = t[Root].level
      <4> HIDE DEF child, r_
      <4> QED BY <1>6, <2>3, <3>1, <3>5, <3>7
    <3>9. given(o, child, key, ge_)
      <4>1. i > 1 \/ i = 1 BY <3>4
      <4>2. i < Len(r_) \/ i = Len(r_) BY <3>4, <3>6
      <4>3. given(o, p, key, ge_) BY <1>6
      <4> HIDE DEF child, r_
      <4> QED BY <4>1, <4>2, <4>3, <3>4, <3>5 DEF given
    <3> HIDE DEF child
    <3> QED BY <3>3, <3>5, <3>7, <3>8, <3>9
  <2> QED BY <2>2, <2>3
<1>7. \A n \in 0..M : w[n] \in J[n]
  <2>1. Root \in J[0]
    <3> HIDE DEF at
    <3> QED BY <1>3, <1>5
  <2>2. \A n \in 0..M : \A y \in J[n] : n < M => F[y] \in J[n + 1]
    <3> SUFFICES ASSUME NEW n \in 0..M, NEW y \in J[n], n < M PROVE F[y] \in J[n + 1] OBVIOUS
    <3>1. y \in PageNo /\ at(n, y) OBVIOUS
    <3>2. n + 1 \in 0..M BY <1>3
    <3> HIDE DEF at
    <3>3. at(n + 1, F[y]) BY <1>6, <3>1
    <3> QED BY <1>2, <3>1, <3>2, <3>3
  <2> HIDE DEF J, M
  <2> QED BY <1>1, <1>3, <2>1, <2>2, IterateStays, Zenon
<1>8. w[M] \in PageNo /\ at(M, w[M])
  <2>1. M \in 0..M BY <1>3
  <2> HIDE DEF at
  <2> QED BY <1>7, <2>1
<1>9. t[w[M]].level = 0
  <2>1. t[w[M]].level \in Nat /\ t[Root].level \in Nat BY <1>5, <1>8
  <2>2. t[Root].level \in 0..M BY <1>4 DEF nodesOrdered
  <2>3. M \in Nat BY <1>3
  <2> QED BY <1>8, <2>1, <2>2, <2>3
<1> QED BY <1>1, <1>8, <1>9

-----------------------------------------------------------------------------
(* Places on a leaf.                                                       *)

sorted_(rs) == \A i, j \in 1..Len(rs) : i < j => rs[i].key <= rs[j].key

LEMMA RecKeys ==
  ASSUME NEW rs \in Seq(Rec), NEW i \in 1..Len(rs)
  PROVE  rs[i] \in Rec /\ rs[i].key \in Nat /\ rs[i].key # Open
<1>1. rs[i] \in Rec BY ElementOfSeq
<1>2. rs[i].key \in Key BY <1>1 DEF Rec
<1> QED BY <1>1, <1>2, BTreeAssumption DEF Open

\* The place of a key among the records of a page.
LEMMA LowerBound ==
  ASSUME NEW rs \in Seq(Rec), NEW key \in Nat
  PROVE  LET b == lowerBound(rs, key) IN
         /\ b \in 1..Len(rs) + 1
         /\ \A i \in 1..Len(rs) : i < b => rs[i].key < key
         /\ b <= Len(rs) => key <= rs[b].key
<1> DEFINE T == {i \in 1..Len(rs) : key <= rs[i].key} \cup {Len(rs) + 1}
           b == lowerBound(rs, key)
<1>1. Len(rs) \in Nat OBVIOUS
<1>2. T \in SUBSET Nat /\ T # {} BY <1>1
<1>3. b \in T /\ \A y \in T : b <= y
  <2> HIDE DEF T
  <2> QED BY <1>2, LeastOf DEF lowerBound, T
<1> HIDE DEF b
<1>4. ASSUME NEW i \in 1..Len(rs), i < b PROVE rs[i].key < key
  <2>2. rs[i].key \in Nat BY RecKeys
  <2>3. i \notin T BY <1>1, <1>3, <1>4
  <2> QED BY <2>2, <2>3
<1> QED BY <1>1, <1>3, <1>4 DEF b

\* A new record of a key goes before the first record that sorts after it.
LEMMA InsertNext ==
  ASSUME NEW rs \in Seq(Rec), NEW key \in Nat, sorted_(rs)
  PROVE  LET n == insertNext(rs, key) IN
         /\ n \in 1..Len(rs) + 1
         /\ n <= Len(rs) => key < rs[n].key
         /\ \A i \in 1..Len(rs) : key < rs[i].key => n <= i
<1> DEFINE b == lowerBound(rs, key)
           T == {i \in b..Len(rs) : rs[i].key # key} \cup {Len(rs) + 1}
           n == insertNext(rs, key)
<1>1. Len(rs) \in Nat OBVIOUS
<1>2. /\ b \in 1..Len(rs) + 1
      /\ \A i \in 1..Len(rs) : i < b => rs[i].key < key
      /\ b <= Len(rs) => key <= rs[b].key
  BY LowerBound
<1>3. n = Min(T) BY DEF insertNext
<1> HIDE DEF b, n
<1>4. T \in SUBSET Nat /\ T # {} BY <1>1, <1>2
<1>5. n \in T /\ \A y \in T : n <= y
  <2> HIDE DEF T
  <2> QED BY <1>3, <1>4, LeastOf
<1>6. \A i \in 1..Len(rs) : rs[i].key \in Nat BY RecKeys
<1>7. n \in 1..Len(rs) + 1 BY <1>1, <1>2, <1>5
<1>8. ASSUME n <= Len(rs) PROVE key < rs[n].key
  <2>1. n \in b..Len(rs) /\ rs[n].key # key BY <1>1, <1>5, <1>8
  <2>2. b \in 1..Len(rs) /\ n \in 1..Len(rs) BY <1>1, <1>2, <2>1
  <2>3. rs[b].key <= rs[n].key BY <2>1, <2>2, <1>6 DEF sorted_
  <2> QED BY <1>2, <1>6, <2>1, <2>2, <2>3
<1>9. ASSUME NEW i \in 1..Len(rs), key < rs[i].key PROVE n <= i
  <2>1. ~ (i < b) BY <1>2, <1>6, <1>9
  <2>2. i \in T BY <1>1, <1>2, <1>6, <1>9, <2>1
  <2> QED BY <1>5, <2>2
<1> QED BY <1>7, <1>8, <1>9 DEF n

-----------------------------------------------------------------------------
(* Type correctness, on any tree.                                          *)

\* What a case and a statement are, which no step changes.
Indexes ==
  /\ idx \in IndexDef /\ tree \in Tree /\ clust \in Tree /\ st \in LockStmt
  /\ idx.clustered => idx.Unique

\* Where the cursor is, and that there are leaves left to go to.
CursorInv ==
  /\ status = "descend" => leaf = walk(tree, st.Lo, st.LoIncl)[depth]
  /\ status = "scan" => readable(tree, leaf)
  /\ status = "row" => clust[cl].next \in PageNo
  /\ status # "error" => hops < NPages /\ rowHops < NPages

TInv == Indexes /\ TypeOK /\ CursorInv

LEMMA StmtType ==
  ASSUME st \in LockStmt
  PROVE  /\ st.S \in BOOLEAN /\ st.RC \in BOOLEAN /\ st.Eq \in BOOLEAN
         /\ st.LoIncl \in BOOLEAN /\ st.HiIncl \in BOOLEAN
         /\ st.Lo \in Nat /\ st.Hi \in Nat
         /\ base \in {"S", "X"}
         /\ st.Eq => st.Lo = st.Hi /\ st.Lo # Open
         /\ st.Lo # Open /\ st.Hi # Open => st.LoIncl /\ st.HiIncl
<1>1. st \in [S : BOOLEAN, RC : BOOLEAN, Lo : Bound, Hi : Bound,
              LoIncl : BOOLEAN, HiIncl : BOOLEAN, Eq : BOOLEAN]
  BY LockScanAssumption
<1>2. Bound \subseteq Nat BY BTreeAssumption DEF Bound, Open
<1>3. /\ st.Eq => st.Lo = st.Hi /\ st.Lo # Open
      /\ st.Lo # Open /\ st.Hi # Open => st.LoIncl /\ st.HiIncl
  BY LockStmtAssumption
<1> QED BY <1>1, <1>2, <1>3 DEF base

\* The record under the cursor, which on a node page is a node pointer.
LEMMA CursorRec ==
  ASSUME TInv, reading
  PROVE  /\ recs \in Seq(Rec) \cup Seq(NodePtr) /\ pos \in 1..Len(recs)
         /\ r \in Rec \cup NodePtr
         /\ r.key \in Nat /\ r.key # Open /\ r.del \in BOOLEAN /\ r.pk \in Pk
<1>1. leaf \in PageNo /\ tree \in Tree /\ pos \in Nat \ {0}
  BY DEF TInv, TypeOK, Indexes
<1>2. recs \in Seq(Rec) \cup Seq(NodePtr) BY <1>1, PageKinds DEF recs
<1>3. pos \in 1..Len(recs)
  <2>1. pos <= Len(recs) BY DEF reading
  <2> HIDE DEF recs
  <2> QED BY <1>1, <1>2, <2>1
<1>4. recs[pos] \in Rec \cup NodePtr
  <2> HIDE DEF recs
  <2>1. CASE recs \in Seq(Rec) BY <1>3, <2>1, ElementOfSeq
  <2>2. CASE recs \in Seq(NodePtr) BY <1>3, <2>2, ElementOfSeq
  <2> QED BY <1>2, <2>1, <2>2
<1>5. r \in Rec \cup NodePtr BY <1>4 DEF r
<1>6. r.key \in Key /\ r.del \in BOOLEAN /\ r.pk \in Pk BY <1>5 DEF Rec, NodePtr
<1> QED BY <1>2, <1>3, <1>5, <1>6, BTreeAssumption DEF Open

\* The lock on a row is on a record of the clustered index.
LEMMA RowLocksType ==
  ASSUME TInv, NEW pk \in Pk
  PROVE  /\ rowLeaf(pk) \in PageNo
         /\ rowAt(pk) \subseteq Nat \ {0}
         /\ \A i \in rowAt(pk) : /\ clust[rowLeaf(pk)].level = 0
                                 /\ i \in 1..Len(clust[rowLeaf(pk)].recs)
                                 /\ clust[rowLeaf(pk)].recs[i].pk = pk
<1>1. PkHead[pk] \in Nat BY LockScanAssumption, BTreeAssumption
<1>2. clust \in Tree BY DEF TInv, Indexes
<1>3. rowLeaf(pk) \in PageNo BY <1>1, <1>2, DescendType DEF rowLeaf
<1>4. ASSUME NEW i \in rowAt(pk)
      PROVE  /\ clust[rowLeaf(pk)].level = 0
             /\ i \in 1..Len(clust[rowLeaf(pk)].recs)
             /\ clust[rowLeaf(pk)].recs[i].pk = pk
  <2> DEFINE rs == clust[rowLeaf(pk)].recs
  <2>1. clust[rowLeaf(pk)].level = 0 /\ i \in lowerBound(rs, PkHead[pk])..Len(rs) /\ rs[i].pk = pk
    BY DEF rowAt, samePK
  <2>2. rs \in Seq(Rec) BY <1>2, <1>3, <2>1, PageKinds
  <2>3. lowerBound(rs, PkHead[pk]) \in 1..Len(rs) + 1 BY <1>1, <2>2, LowerBound
  <2> HIDE DEF rs
  <2>4. i \in 1..Len(rs) BY <2>1, <2>2, <2>3
  <2> QED BY <2>1, <2>4 DEF rs
<1>5. ASSUME NEW i \in rowAt(pk) PROVE i \in Nat \ {0}
  BY <1>4
<1> QED BY <1>3, <1>4, <1>5

LockType == [ix : {"idx", "clust"}, page : PageNo, at : Nat \ {0},
             mode : {"S", "X"}, kind : {"ordinary", "gap", "rec"}]

LEMMA AddType ==
  ASSUME TInv, NEW page \in PageNo, NEW at \in Nat \ {0}, NEW kind \in {"ordinary", "gap", "rec"}
  PROVE  add(page, at, kind) \subseteq LockType
<1>1. base \in {"S", "X"} BY StmtType DEF TInv, Indexes
<1> QED BY <1>1 DEF add, lock, LockType

LEMMA RowType ==
  ASSUME TInv, NEW rec, rec.pk \in Pk
  PROVE  rowLocks(rec) \subseteq LockType
<1>1. base \in {"S", "X"} BY StmtType DEF TInv, Indexes
<1>2. rowLeaf(rec.pk) \in PageNo /\ rowAt(rec.pk) \subseteq Nat \ {0} BY RowLocksType
<1> QED BY <1>1, <1>2 DEF rowLocks, lock, LockType

\* What every way to read the record under the cursor has in common: locks on it,
\* and on its row, and the scan at its end, at the next place, or with the row to
\* be searched for on a later leaf.
kinds == {"ordinary", "gap", "rec"}

goesOn ==
  \/ status' = "done" /\ pos' = pos /\ cl' = cl
  \/ status' = "scan" /\ pos' = pos + 1 /\ cl' = cl
  \/ status' = "error" /\ pos' = pos /\ cl' = cl
  \/ status' = "row" /\ pos' = pos /\ cl' = rowLeaf(r.pk) /\ rowRunsOn(r.pk)

ReadsRec ==
  /\ reading /\ UNCHANGED <<index, depth, leaf, hops, rowHops>>
  /\ \E K \in SUBSET kinds : \E R \in {{}, rowLocks(r)} :
       out' = out \cup {lock("idx", leaf, pos, base, k) : k \in K} \cup R
  /\ goesOn
  /\ prev' \in {prev, r} /\ (status' = "scan" => prev' = r)
  /\ first' \in {first, FALSE} /\ stopFound' \in {stopFound, seesStop}

LEMMA AddOne ==
  ASSUME NEW K, NEW k
  PROVE  /\ add(leaf, pos, k) = {lock("idx", leaf, pos, base, x) : x \in {k}}
         /\ {} = {lock("idx", leaf, pos, base, x) : x \in {}}
  BY DEF add

LEMMA Stops ==
  ASSUME NEW k \in kinds, NEW L \in {{}, add(leaf, pos, k)}
  PROVE  /\ stop(L) =>
              /\ status' = "done" /\ pos' = pos /\ cl' = cl
              /\ \E K \in SUBSET kinds : \E R \in {{}, rowLocks(r)} :
                   out' = out \cup {lock("idx", leaf, pos, base, x) : x \in K} \cup R
         /\ skip(L) =>
              /\ status' = status /\ pos' = pos + 1 /\ cl' = cl
              /\ \E K \in SUBSET kinds : \E R \in {{}, rowLocks(r)} :
                   out' = out \cup {lock("idx", leaf, pos, base, x) : x \in K} \cup R
<1>1. PICK K \in SUBSET kinds : L = {lock("idx", leaf, pos, base, x) : x \in K}
  <2>1. CASE L = {} BY <2>1, AddOne
  <2>2. CASE L = add(leaf, pos, k)
    <3>1. {k} \in SUBSET kinds OBVIOUS
    <3> QED BY <2>2, <3>1, AddOne
  <2> QED BY <2>1, <2>2
<1>2. out \cup L = out \cup {lock("idx", leaf, pos, base, x) : x \in K} \cup {} BY <1>1
<1> QED BY <1>2 DEF stop, skip

LEMMA Returns ==
  ASSUME NEW k \in kinds, NEW ends, returned(add(leaf, pos, k), ends)
  PROVE  /\ out' = out \cup add(leaf, pos, k) \cup rowLocks(r)
         /\ \/ status' = "done" /\ pos' = pos /\ cl' = cl /\ ~rowFailed(r)
            \/ status' = status /\ pos' = pos + 1 /\ cl' = cl /\ ~rowFailed(r)
            \/ status' = "error" /\ pos' = pos /\ cl' = cl /\ rowFailed(r)
            \/ status' = "row" /\ pos' = pos /\ cl' = rowLeaf(r.pk) /\ rowRunsOn(r.pk) /\ rowFailed(r)
         /\ \E K \in SUBSET kinds : \E R \in {{}, rowLocks(r)} :
              out' = out \cup {lock("idx", leaf, pos, base, x) : x \in K} \cup R
<1>1. {k} \in SUBSET kinds /\ add(leaf, pos, k) = {lock("idx", leaf, pos, base, x) : x \in {k}}
  BY AddOne
<1>2. out' = out \cup {lock("idx", leaf, pos, base, x) : x \in {k}} \cup rowLocks(r)
  BY <1>1 DEF returned
<1> QED BY <1>1, <1>2 DEF returned

LEMMA ReadStep ==
  ASSUME TInv, ReadMiss \/ ReadCommitted \/ ReadPast \/ ReadNext
  PROVE  ReadsRec
<1>0. first \in BOOLEAN /\ stopFound \in BOOLEAN BY DEF TInv, TypeOK
<1>1. CASE ReadMiss
  <2>1. stop(IF st.RC THEN {} ELSE add(leaf, pos, "gap")) BY <1>1 DEF ReadMiss
  <2>2. "gap" \in kinds BY DEF kinds
  <2>3. (IF st.RC THEN {} ELSE add(leaf, pos, "gap")) \in {{}, add(leaf, pos, "gap")} OBVIOUS
  <2> QED BY <1>1, <2>1, <2>2, <2>3, Stops DEF ReadMiss, ReadsRec, goesOn
<1>2. CASE ReadCommitted
  <2>1. "rec" \in kinds /\ {} \in {{}, add(leaf, pos, "rec")} BY DEF kinds
  <2>2. reading /\ status = "scan" BY <1>2 DEF ReadCommitted, reading
  <2>3. CASE stop({}) BY <1>2, <2>1, <2>2, <2>3, Stops DEF ReadCommitted, ReadsRec, goesOn
  <2>4. CASE skip({}) BY <1>2, <2>1, <2>2, <2>4, Stops DEF ReadCommitted, ReadsRec, goesOn
  <2>5. CASE returned(add(leaf, pos, "rec"), uniqueSearch)
    BY <1>2, <2>1, <2>2, <2>5, Returns DEF ReadCommitted, ReadsRec, goesOn
  <2> QED BY <1>2, <2>3, <2>4, <2>5 DEF ReadCommitted
<1>3. CASE ReadPast
  <2>1. stop(IF stopFound THEN {} ELSE add(leaf, pos, "gap")) BY <1>3 DEF ReadPast
  <2>2. "gap" \in kinds BY DEF kinds
  <2>3. (IF stopFound THEN {} ELSE add(leaf, pos, "gap")) \in {{}, add(leaf, pos, "gap")} OBVIOUS
  <2> QED BY <1>3, <2>1, <2>2, <2>3, Stops DEF ReadPast, ReadsRec, goesOn
<1>4. CASE ReadNext
  <2>1. PICK k : k = lockKind OBVIOUS
  <2>2. k \in kinds /\ add(leaf, pos, k) \in {{}, add(leaf, pos, k)} BY <2>1 DEF kinds, lockKind
  <2>3. reading /\ status = "scan" BY <1>4 DEF ReadNext, reading
  <2>4. CASE stop(add(leaf, pos, k)) BY <1>4, <2>2, <2>3, <2>4, Stops DEF ReadNext, ReadsRec, goesOn
  <2>5. CASE skip(add(leaf, pos, k)) BY <1>4, <2>2, <2>3, <2>5, Stops DEF ReadNext, ReadsRec, goesOn
  <2>6. CASE returned(add(leaf, pos, k), uniqueSearch)
    BY <1>4, <2>2, <2>3, <2>6, Returns DEF ReadNext, ReadsRec, goesOn
  <2> QED BY <1>4, <2>1, <2>4, <2>5, <2>6 DEF ReadNext
<1> QED BY <1>1, <1>2, <1>3, <1>4

LEMMA SomePages == NPages \in Nat \ {0}
<1>1. IsFiniteSet(PageNo) /\ PageNo # {} BY BTreeAssumption
<1>2. Cardinality(PageNo) \in Nat /\ Cardinality(PageNo) # 0
  BY <1>1, FS_CardinalityType, FS_EmptySet
<1> QED BY <1>2, LockScanAssumption

LEMMA TInvInit == Init => TInv
<1> SUFFICES ASSUME Init PROVE TInv OBVIOUS
<1>1. PICK c \in Case : idx = c.def /\ tree = c.tree /\ clust = c.clust BY DEF Init
<1>2. c \in [def : IndexDef, tree : Tree, clust : Tree] BY LockScanAssumption
<1>3. Indexes BY <1>1, <1>2, LockScanAssumption DEF Indexes, Init
<1>4. /\ leaf \in PageNo /\ cl \in PageNo /\ pos \in Nat \ {0} /\ hops = 0 /\ rowHops = 0
      /\ depth = 0 /\ 0 \in 0..maxTreeHeight - 1
  BY BTreeAssumption DEF Init
<1>5. 0 \in 0..NPages /\ 0 < NPages BY SomePages
<1>6. TypeOK BY <1>3, <1>4, <1>5 DEF TypeOK, Init, Indexes
<1>7. walk(tree, st.Lo, st.LoIncl)[0] = Root
  <2>1. tree \in Tree /\ st.Lo \in Nat /\ st.LoIncl \in BOOLEAN BY <1>3, StmtType DEF Indexes
  <2> QED BY <1>4, <2>1, Walk
<1>8. CursorInv BY <1>4, <1>5, <1>7 DEF CursorInv, Init
<1> QED BY <1>3, <1>6, <1>8 DEF TInv

\* The places a scan opens at.
LEMMA OpenPastType ==
  ASSUME NEW rs \in Seq(Rec), NEW key \in Nat, NEW page, page.recs = rs
  PROVE  openPast(page, lowerBound(rs, key)) \in Nat \ {0}
<1> DEFINE b == lowerBound(rs, key)
           T == {i \in b..Len(rs) : rs[i].key # st.Lo} \cup {Len(rs) + 1}
<1>1. b \in 1..Len(rs) + 1 /\ Len(rs) \in Nat BY LowerBound
<1>2. openPast(page, b) \in {b, Min(T)} BY DEF openPast
<1> HIDE DEF b
<1>3. T \in SUBSET Nat /\ T # {} /\ 0 \notin T BY <1>1
<1>4. Min(T) \in T
  <2> HIDE DEF T
  <2> QED BY <1>3, LeastOf
<1>5. b \in Nat \ {0} BY <1>1
<1> HIDE DEF T
<1>6. Min(T) \in Nat \ {0} BY <1>3, <1>4
<1> QED BY <1>2, <1>5, <1>6 DEF b

\* A step down is a step of the walk.
LEMMA WalkStep ==
  ASSUME NEW t \in Tree, NEW key \in Nat, NEW ge_ \in BOOLEAN,
         NEW d \in 0..maxTreeHeight - 1, d + 1 < maxTreeHeight
  PROVE  /\ d + 1 \in 0..maxTreeHeight - 1
         /\ walk(t, key, ge_)[d + 1] = follow(t, key, ge_)[walk(t, key, ge_)[d]]
         /\ walk(t, key, ge_)[d + 1] \in PageNo
<1>1. d + 1 \in 0..maxTreeHeight - 1 /\ d + 1 # 0 /\ (d + 1) - 1 = d BY BTreeAssumption
<1> QED BY <1>1, Walk, WalkType

LEMMA DescendTyped ==
  ASSUME TInv, Descend
  PROVE  (TypeOK /\ CursorInv)'
<1>1. TypeOK /\ Indexes /\ CursorInv BY DEF TInv
<1>2. status = "descend" /\ UNCHANGED <<index, prev, first, stopFound, hops, inRow, out>> BY DEF Descend
<1>3. idx' = idx /\ tree' = tree /\ st' = st /\ cl' = cl /\ rowHops' = rowHops BY <1>2 DEF index, inRow
<1>4. st.Lo \in Nat /\ st.LoIncl \in BOOLEAN /\ tree \in Tree BY <1>1, StmtType DEF Indexes
<1>5. leaf \in PageNo /\ depth \in 0..maxTreeHeight - 1 /\ leaf = walk(tree, st.Lo, st.LoIncl)[depth]
      /\ pos \in Nat \ {0} /\ hops < NPages /\ rowHops < NPages
  BY <1>1, <1>2 DEF TypeOK, CursorInv
<1> SUFFICES /\ status' \in {"descend", "scan", "error"} /\ depth' \in 0..maxTreeHeight - 1
             /\ leaf' \in PageNo /\ pos' \in Nat \ {0}
             /\ status' = "descend" => leaf' = walk(tree, st.Lo, st.LoIncl)[depth']
             /\ status' = "scan" => readable(tree, leaf')
  BY <1>1, <1>2, <1>3, <1>5 DEF TypeOK, CursorInv, readable
<1>6. CASE /\ tree[leaf].level = 0
           /\ pos' = openPast(tree[leaf], lowerBound(recs, st.Lo))
           /\ status' = "scan" /\ UNCHANGED <<depth, leaf>>
  <2>1. recs \in Seq(Rec) /\ tree[leaf].recs = recs BY <1>4, <1>5, <1>6, PageKinds DEF recs
  <2>2. pos' \in Nat \ {0}
    <3> HIDE DEF recs
    <3> QED BY <1>4, <1>6, <2>1, OpenPastType
  <2> QED BY <1>5, <1>6, <2>2 DEF readable
<1>7. CASE /\ tree[leaf].level # 0 /\ recs # <<>> /\ deeper < maxTreeHeight
           /\ leaf' = follow(tree, st.Lo, st.LoIncl)[leaf]
           /\ depth' = deeper /\ UNCHANGED <<pos, status>>
  <2>1. depth' = depth + 1 /\ depth + 1 < maxTreeHeight BY <1>7 DEF deeper
  <2>2. /\ depth + 1 \in 0..maxTreeHeight - 1
        /\ walk(tree, st.Lo, st.LoIncl)[depth + 1] = follow(tree, st.Lo, st.LoIncl)[leaf]
        /\ walk(tree, st.Lo, st.LoIncl)[depth + 1] \in PageNo
    BY <1>4, <1>5, <2>1, WalkStep
  <2> QED BY <1>2, <1>5, <1>7, <2>1, <2>2
<1>8. CASE status' = "error" /\ UNCHANGED <<depth, leaf, pos>> BY <1>5, <1>8
<1> QED BY <1>6, <1>7, <1>8 DEF Descend

LEMMA RunOffTyped ==
  ASSUME TInv, RunOff
  PROVE  (TypeOK /\ CursorInv)'
<1>1. TypeOK /\ Indexes /\ CursorInv BY DEF TInv
<1>2. status = "scan" /\ UNCHANGED <<index, depth, prev, first, stopFound, inRow>> BY DEF RunOff
<1>3. idx' = idx /\ tree' = tree /\ st' = st /\ cl' = cl /\ rowHops' = rowHops BY <1>2 DEF index, inRow
<1>4. leaf \in PageNo /\ pos \in Nat \ {0} /\ tree \in Tree /\ readable(tree, leaf)
      /\ NPages \in Nat /\ hops \in 0..NPages /\ hops < NPages /\ rowHops < NPages
  BY <1>1, <1>2, LockScanAssumption DEF TypeOK, Indexes, CursorInv
<1>5. recs \in Seq(Rec) \cup Seq(NodePtr) BY <1>4, PageKinds DEF recs
<1>6. Len(recs) + 1 \in Nat \ {0}
  <2> HIDE DEF recs
  <2> QED BY <1>5
<1>7. add(leaf, Len(recs) + 1, "ordinary") \subseteq LockType BY <1>4, <1>6, AddType
<1>8. out' \subseteq LockType
  <2>1. out \subseteq LockType BY <1>1 DEF TypeOK, LockType
  <2> QED BY <1>7, <2>1 DEF RunOff
<1>9. tree[leaf].next \in PageNo \cup {Nil} BY <1>4, PageKinds
<1>10. /\ status' \in {"scan", "done", "error"} /\ leaf' \in PageNo /\ pos' \in Nat \ {0}
       /\ hops' \in 0..NPages /\ (status' # "error" => hops' < NPages)
       /\ status' = "scan" => readable(tree, leaf')
  <2>1. \/ status' = "done" /\ UNCHANGED <<leaf, pos, hops>>
        \/ status' = "error" /\ hops' = hops + 1 /\ UNCHANGED <<leaf, pos>>
        \/ /\ tree[leaf].next # Nil /\ hops + 1 < NPages /\ readable(tree, tree[leaf].next)
           /\ leaf' = tree[leaf].next /\ pos' = 1 /\ hops' = hops + 1 /\ status' = "scan"
    BY <1>2 DEF RunOff, hop
  <2> QED BY <1>4, <1>9, <2>1
<1> QED BY <1>1, <1>2, <1>3, <1>4, <1>8, <1>10 DEF TypeOK, CursorInv, LockType, readable

LEMMA RowRunTyped ==
  ASSUME TInv, RowRunOn
  PROVE  (TypeOK /\ CursorInv)'
<1>1. TypeOK /\ Indexes /\ CursorInv BY DEF TInv
<1>2. status = "row" /\ UNCHANGED <<index, depth, cursor, out>> BY DEF RowRunOn
<1>3. idx' = idx /\ tree' = tree /\ clust' = clust /\ st' = st /\ UNCHANGED <<leaf, pos, prev, first, stopFound, hops>>
  BY <1>2 DEF index, cursor
<1>4. cl \in PageNo /\ clust[cl].next \in PageNo /\ clust \in Tree
      /\ NPages \in Nat /\ rowHops \in 0..NPages /\ rowHops < NPages /\ hops < NPages
  BY <1>1, <1>2, LockScanAssumption DEF TypeOK, Indexes, CursorInv
<1>5. \/ status' = "error" /\ cl' = cl /\ rowHops' = rowHops + 1
      \/ /\ rowHops + 1 < NPages /\ clust[clust[cl].next].next # Nil
         /\ cl' = clust[cl].next /\ rowHops' = rowHops + 1 /\ status' = "row"
  BY <1>2 DEF RowRunOn, rowHop
<1>6. clust[clust[cl].next].next \in PageNo \cup {Nil} BY <1>4, PageKinds
<1>7. /\ status' \in {"row", "error"} /\ cl' \in PageNo /\ rowHops' \in 0..NPages
      /\ status' # "error" => rowHops' < NPages
      /\ status' = "row" => clust[cl'].next \in PageNo
  BY <1>4, <1>5, <1>6
<1> QED BY <1>1, <1>2, <1>3, <1>4, <1>7 DEF TypeOK, CursorInv

LEMMA ReadTyped ==
  ASSUME TInv, ReadsRec
  PROVE  (TypeOK /\ CursorInv)'
<1>1. TypeOK /\ Indexes /\ CursorInv BY DEF TInv
<1>2. reading /\ status = "scan" /\ UNCHANGED <<index, depth, leaf, hops, rowHops>> BY DEF ReadsRec, reading
<1>3. idx' = idx /\ tree' = tree /\ clust' = clust /\ st' = st BY <1>2 DEF index
<1>4. r \in Rec \cup NodePtr /\ r.pk \in Pk /\ pos \in Nat \ {0} /\ leaf \in PageNo
      /\ readable(tree, leaf) /\ clust \in Tree /\ hops < NPages /\ rowHops < NPages /\ cl \in PageNo
  BY <1>1, <1>2, CursorRec DEF TypeOK, Indexes, CursorInv
<1>5. out' \subseteq LockType
  <2>1. PICK K \in SUBSET kinds, R \in {{}, rowLocks(r)} :
          out' = out \cup {lock("idx", leaf, pos, base, k) : k \in K} \cup R
    BY DEF ReadsRec
  <2>2. out \subseteq LockType BY <1>1 DEF TypeOK, LockType
  <2>3. base \in {"S", "X"} BY <1>1, StmtType DEF Indexes
  <2>4. {lock("idx", leaf, pos, base, k) : k \in K} \subseteq LockType
    BY <1>4, <2>3 DEF lock, LockType, kinds
  <2>5. R \subseteq LockType BY <1>4, RowType
  <2> QED BY <2>1, <2>2, <2>4, <2>5
<1>6. prev' \in Rec \cup NodePtr \cup {None} /\ first' \in BOOLEAN /\ stopFound' \in BOOLEAN
  <2>1. prev' \in {prev, r} /\ first' \in {first, FALSE} /\ stopFound' \in {stopFound, seesStop}
    BY DEF ReadsRec
  <2>2. prev \in Rec \cup NodePtr \cup {None} /\ first \in BOOLEAN /\ stopFound \in BOOLEAN
    BY <1>1 DEF TypeOK
  <2>3. seesStop \in BOOLEAN BY DEF seesStop
  <2> QED BY <1>4, <2>1, <2>2, <2>3
<1>7. /\ status' \in {"scan", "row", "done", "error"} /\ pos' \in Nat \ {0} /\ cl' \in PageNo
      /\ status' = "row" => clust[cl'].next \in PageNo
  <2>1. goesOn BY DEF ReadsRec
  <2>2. CASE status' # "row"
    <3>1. status' \in {"scan", "done", "error"} /\ pos' \in {pos, pos + 1} /\ cl' = cl
      BY <2>1, <2>2 DEF goesOn
    <3> QED BY <1>4, <2>2, <3>1
  <2>3. CASE status' = "row"
    <3>1. pos' = pos /\ cl' = rowLeaf(r.pk) /\ rowRunsOn(r.pk) BY <2>1, <2>3 DEF goesOn
    <3>2. rowLeaf(r.pk) \in PageNo BY <1>4, RowLocksType
    <3>3. clust[rowLeaf(r.pk)].next # Nil BY <3>1 DEF rowRunsOn
    <3>4. clust[rowLeaf(r.pk)].next \in PageNo BY <1>4, <3>2, <3>3, PageKinds
    <3> QED BY <1>4, <2>3, <3>1, <3>2, <3>4
  <2> QED BY <2>2, <2>3
<1> QED BY <1>1, <1>2, <1>3, <1>4, <1>5, <1>6, <1>7 DEF TypeOK, CursorInv, LockType, readable

LEMMA TInvStep == TInv /\ [Next]_vars => TInv'
<1> SUFFICES ASSUME TInv, [Next]_vars PROVE TInv' OBVIOUS
<1>1. TypeOK /\ Indexes /\ CursorInv BY DEF TInv
<1>2. UNCHANGED index
  BY DEF Next, Descend, RunOff, RowRunOn, ReadMiss, ReadCommitted, ReadPast, ReadNext, Terminated, vars
<1>3. Indexes' BY <1>1, <1>2 DEF Indexes, index
<1> SUFFICES (TypeOK /\ CursorInv)' BY <1>3 DEF TInv
<1>4. CASE Descend BY <1>4, DescendTyped
<1>5. CASE RunOff BY <1>5, RunOffTyped
<1>6. CASE RowRunOn BY <1>6, RowRunTyped
<1>7. CASE ReadMiss \/ ReadCommitted \/ ReadPast \/ ReadNext BY <1>7, ReadStep, ReadTyped
<1>8. CASE Terminated \/ UNCHANGED vars
  <2>1. UNCHANGED vars BY <1>8 DEF Terminated
  <2> QED BY <1>1, <2>1 DEF vars, index, cursor, inRow, TypeOK, CursorInv, readable
<1> QED BY <1>4, <1>5, <1>6, <1>7, <1>8 DEF Next

\* TypeOK: on any file the way down, the scan and the search for a row stay on pages
\* of the tablespace and within the turns they have, and every lock is on one of its
\* pages, whatever is on a page and wherever its node pointers and its next pointer
\* lead: to a leaf, to a node page or to a page that cannot be read (search.go
\* descend, lockSim.leaf).
THEOREM TypeCorrect == Spec => []TypeOK
<1>1. Init => TInv BY TInvInit
<1>2. TInv /\ [Next]_vars => TInv' BY TInvStep
<1>3. TInv => TypeOK BY DEF TInv
<1> QED BY <1>1, <1>2, <1>3, PTL DEF Spec

-----------------------------------------------------------------------------
(* The invariant of the scan on indexes as InnoDB writes them.             *)

ord       == order(tree)
nLeaves   == Len(ord.leaves)
recsOf(m) == tree[ord.leaves[m]].recs

\* A place is the number of a leaf in their order and a place on it; the scan
\* passes them in this order.
before(m, i, n, j) == m < n \/ (m = n /\ i < j)

\* Where it begins, and where it is.
start   == descend(tree, st.Lo, st.LoIncl)
startAt == openPast(tree[start], lowerBound(tree[start].recs, st.Lo))
startNo == CHOOSE m \in 1..nLeaves : ord.leaves[m] = start
curNo   == startNo + hops

passed(m, i) == ~before(m, i, startNo, startAt) /\ before(m, i, curNo, pos)
here(m, i)   == m = curNo /\ i = pos

\* The lower bound alone, and the upper one.
loSide(key) == st.Lo # Open => st.Lo < key \/ (st.Lo = key /\ st.LoIncl)
hiSide(key) == st.Hi # Open => key < st.Hi \/ (st.Hi = key /\ st.HiIncl)

running == status \in {"scan", "done"}

CursorPlaced ==
  /\ running => /\ hops \in 0..nLeaves - startNo
                /\ leaf = ord.leaves[curNo]
                /\ pos \in 1..Len(recsOf(curNo)) + 1
                /\ hops = 0 => startAt <= pos
  /\ status = "descend" => hops = 0 /\ out = {} /\ prev = None /\ ~stopFound

\* Every lock on the index scanned is at a place the scan passed, or at the one
\* it ended at.
LocksBehind ==
  running => \A l \in out :
    /\ l.mode = base
    /\ idx.clustered => l.ix = "idx"
    /\ l.ix = "idx" => \E m \in 1..nLeaves :
                         /\ l.page = ord.leaves[m] /\ l.at \in 1..Len(recsOf(m)) + 1
                         /\ passed(m, l.at) \/ (status = "done" /\ here(m, l.at))

\* The last record read has been passed, and so has one that told where to stop.
ReadBehind ==
  status = "scan" =>
    /\ prev # None => \E m \in 1..nLeaves : \E i \in 1..Len(recsOf(m)) :
                        passed(m, i) /\ recsOf(m)[i] = prev
    /\ stopFound => /\ idx.clustered /\ (st.HiIncl => idx.NKey = 1)
                    /\ \E m \in 1..nLeaves : \E i \in 1..Len(recsOf(m)) :
                         passed(m, i) /\ recsOf(m)[i].key = st.Hi

rowHeld(rec) ==
  ~idx.clustered => \E l \in out : l.ix = "clust" /\ clust[l.page].recs[l.at].pk = rec.pk
recHeld(m, i) == \E l \in locksOn(ord.leaves[m], i) : l.kind # "gap"

\* Nothing passed sorts after the last record read.
PrevLast ==
  status = "scan" => \A m \in 1..nLeaves : \A i \in 1..Len(recsOf(m)) :
    passed(m, i) => prev # None /\ recsOf(m)[i].key <= prev.key

\* The rows passed are locked.
RowsBehind ==
  running => \A m \in 1..nLeaves : \A i \in 1..Len(recsOf(m)) :
    passed(m, i) /\ ~recsOf(m)[i].del /\ matches(recsOf(m)[i].key)
      => recHeld(m, i) /\ rowHeld(recsOf(m)[i])

\* Everything passed is locked, a record without its gap at the lower bound alone
\* and without itself at an upper bound that is excluded.
AllBehind ==
  running /\ ~st.RC => \A m \in 1..nLeaves : \A i \in 1..Len(recsOf(m)) + 1 :
    passed(m, i) =>
      \E l \in locksOn(ord.leaves[m], i) :
        /\ i = Len(recsOf(m)) + 1 => l.kind = "ordinary"
        /\ i <= Len(recsOf(m)) =>
             /\ l.kind = "rec" => recsOf(m)[i].key = st.Lo
             /\ l.kind = "gap" => recsOf(m)[i].key = st.Hi /\ ~st.HiIncl

\* What was locked past the bound ended the scan.
PastIsLast ==
  idx.clustered /\ st.Hi # Open /\ ~st.RC /\ ~emptyRange => \A l \in out :
    l.at <= Len(tree[l.page].recs) /\ st.Hi < tree[l.page].recs[l.at].key
      => l.kind = "gap" /\ status = "done" /\ l.page = leaf /\ l.at = pos

\* Why the scan ended: at the end of the index, behind or at a record past the
\* bound, or at the one record that can have the key.
EndOfIndex ==
  /\ curNo = nLeaves /\ pos = Len(recs) + 1
  /\ ~st.RC => \E l \in locksOn(leaf, pos) : l.kind = "ordinary"
BehindBound ==
  \E m \in 1..nLeaves : \E i \in 1..Len(recsOf(m)) :
    passed(m, i) /\ ~hiSide(recsOf(m)[i].key)
AtBound ==
  /\ pos <= Len(recs) /\ ~hiSide(r.key)
  /\ st.RC \/ emptyRange \/ \E l \in locksOn(leaf, pos) : l.kind # "rec"
BehindStop ==
  /\ pos <= Len(recs) /\ ~hiSide(r.key)
  /\ idx.clustered /\ (st.HiIncl => idx.NKey = 1)
  /\ \E m \in 1..nLeaves : \E i \in 1..Len(recsOf(m)) :
       passed(m, i) /\ recsOf(m)[i].key = st.Hi
AtKey ==
  /\ pos <= Len(recs) /\ uniqueSearch /\ r.key = st.Lo /\ (r.del => idx.clustered)
  /\ recHeld(curNo, pos) \/ (st.RC /\ r.del)
  /\ ~r.del => rowHeld(r)

Ended ==
  status = "done" => EndOfIndex \/ BehindBound \/ AtBound \/ BehindStop \/ AtKey

ScanInv ==
  /\ CursorPlaced /\ LocksBehind /\ ReadBehind /\ PrevLast /\ RowsBehind /\ AllBehind
  /\ PastIsLast /\ Ended /\ CommittedAlone /\ SupremumInRange

IInv == TInv /\ (intact => ScanInv)

-----------------------------------------------------------------------------
(* The order of the places.                                                *)

LEMMA LeavesInOrder ==
  ASSUME TInv, intact, NEW m \in 1..nLeaves
  PROVE  /\ nLeaves \in Nat
         /\ ord.leaves[m] \in PageNo /\ ord.leaves[m] \in leaves(tree)
         /\ tree[ord.leaves[m]].level = 0
         /\ recsOf(m) \in Seq(Rec) /\ Len(recsOf(m)) \in Nat /\ sorted_(recsOf(m))
         /\ tree[ord.leaves[m]].next = IF m = nLeaves THEN Nil ELSE ord.leaves[m + 1]
         /\ ord.high[ord.leaves[m]] = IF m = nLeaves THEN Open ELSE ord.low[ord.leaves[m + 1]]
         /\ ord.low[ord.leaves[m]] \in Nat
         /\ \A i \in 1..Len(recsOf(m)) : ord.low[ord.leaves[m]] <= recsOf(m)[i].key
<1>1. tree \in Tree /\ ordered(tree, ord) BY DEF TInv, Indexes, intact, written, ord
<1>2. leavesOrdered(tree, ord) /\ ord.low \in [PageNo -> Key \cup {Open}]
  BY <1>1 DEF ordered
<1>3. ord.leaves \in Seq(leaves(tree)) BY <1>2 DEF leavesOrdered
<1>4. nLeaves \in Nat BY <1>3 DEF nLeaves
<1>5. ord.leaves[m] \in leaves(tree) BY <1>3, ElementOfSeq DEF nLeaves
<1>6. ord.leaves[m] \in PageNo /\ tree[ord.leaves[m]].level = 0 BY <1>1, <1>5 DEF leaves, Tree
<1>7. recsOf(m) \in Seq(Rec) BY <1>1, <1>6, PageKinds DEF recsOf
<1>8. ord.low[ord.leaves[m]] \in Nat
  <2>1. Key \cup {Open} \subseteq Nat BY BTreeAssumption DEF Open
  <2>2. ord.low[ord.leaves[m]] \in Key \cup {Open} BY <1>2, <1>6
  <2> QED BY <2>1, <2>2
<1>9. /\ tree[ord.leaves[m]].next = IF m = nLeaves THEN Nil ELSE ord.leaves[m + 1]
      /\ ord.high[ord.leaves[m]] = IF m = nLeaves THEN Open ELSE ord.low[ord.leaves[m + 1]]
      /\ \A i, j \in 1..Len(recsOf(m)) : i < j => recsOf(m)[i].key <= recsOf(m)[j].key
      /\ \A i \in 1..Len(recsOf(m)) : ord.low[ord.leaves[m]] <= recsOf(m)[i].key
  BY <1>2 DEF leavesOrdered, nLeaves, recsOf
<1> QED BY <1>4, <1>5, <1>6, <1>7, <1>8, <1>9 DEF sorted_

LEMMA LeafBeforeLeaf ==
  ASSUME TInv, intact, NEW m \in 1..nLeaves, NEW n \in 1..nLeaves, m < n
  PROVE  /\ ord.leaves[m] # ord.leaves[n] /\ ord.low[ord.leaves[n]] # Open
         /\ ord.low[ord.leaves[m]] <= ord.low[ord.leaves[n]]
         /\ \A i \in 1..Len(recsOf(m)) : recsOf(m)[i].key <= ord.low[ord.leaves[n]]
<1>1. leavesOrdered(tree, ord) BY DEF TInv, intact, written, ord, ordered
<1>2. nLeaves \in Nat /\ n \in m + 1..nLeaves BY LeavesInOrder
<1> QED BY <1>1, <1>2 DEF leavesOrdered, nLeaves, recsOf

LEMMA RecKey ==
  ASSUME TInv, intact, NEW m \in 1..nLeaves, NEW i \in 1..Len(recsOf(m))
  PROVE  /\ recsOf(m)[i] \in Rec /\ recsOf(m)[i].key \in Nat /\ recsOf(m)[i].key # Open
         /\ recsOf(m)[i].del \in BOOLEAN
<1>1. recsOf(m) \in Seq(Rec) BY LeavesInOrder
<1> QED BY <1>1, RecKeys DEF Rec

\* Records are in the order of their places.
LEMMA KeysInOrder ==
  ASSUME TInv, intact,
         NEW m \in 1..nLeaves, NEW i \in 1..Len(recsOf(m)),
         NEW n \in 1..nLeaves, NEW j \in 1..Len(recsOf(n)),
         before(m, i, n, j)
  PROVE  recsOf(m)[i].key <= recsOf(n)[j].key
<1>1. recsOf(m)[i].key \in Nat /\ recsOf(n)[j].key \in Nat BY RecKey
<1>2. CASE m < n
  <2>1. recsOf(m)[i].key <= ord.low[ord.leaves[n]] BY <1>2, LeafBeforeLeaf
  <2>2. ord.low[ord.leaves[n]] \in Nat /\ ord.low[ord.leaves[n]] <= recsOf(n)[j].key BY LeavesInOrder
  <2> QED BY <1>1, <2>1, <2>2, SMTT(30)
<1>3. CASE m = n /\ i < j BY <1>3, LeavesInOrder DEF sorted_
<1> QED BY <1>2, <1>3 DEF before

\* A page is one leaf of the order.
LEMMA LeafNumber ==
  ASSUME TInv, intact, NEW m \in 1..nLeaves, NEW n \in 1..nLeaves, ord.leaves[m] = ord.leaves[n]
  PROVE  m = n
<1>1. ~ (m < n) BY LeafBeforeLeaf
<1>2. ~ (n < m) BY LeafBeforeLeaf
<1>3. nLeaves \in Nat BY LeavesInOrder
<1> QED BY <1>1, <1>2, <1>3

\* The search opens before every record above the lower bound of its page, and
\* past every one below it.
LEMMA OpenPast ==
  ASSUME st \in LockStmt, NEW page, page.recs \in Seq(Rec), sorted_(page.recs)
  PROVE  LET a == openPast(page, lowerBound(page.recs, st.Lo)) IN
         /\ a \in 1..Len(page.recs) + 1
         /\ \A i \in 1..Len(page.recs) : i < a => ~loSide(page.recs[i].key)
         /\ \A i \in 1..Len(page.recs) : ~(i < a) => loSide(page.recs[i].key)
<1> DEFINE rs == page.recs
           b == lowerBound(rs, st.Lo)
           T == {i \in b..Len(rs) : rs[i].key # st.Lo} \cup {Len(rs) + 1}
           a == openPast(page, b)
<1>1. st.Lo \in Nat /\ st.LoIncl \in BOOLEAN /\ Len(rs) \in Nat BY StmtType
<1>2. /\ b \in 1..Len(rs) + 1
      /\ \A i \in 1..Len(rs) : i < b => rs[i].key < st.Lo
      /\ b <= Len(rs) => st.Lo <= rs[b].key
  BY <1>1, LowerBound
<1>3. \A i \in 1..Len(rs) : rs[i].key \in Nat /\ rs[i].key # Open BY RecKeys
<1>4. a = IF st.Lo # Open /\ ~st.LoIncl THEN Min(T) ELSE b BY DEF openPast
<1> HIDE DEF b, a
<1>5. \A i \in 1..Len(rs) : ~(i < b) => st.Lo <= rs[i].key
  <2> SUFFICES ASSUME NEW i \in 1..Len(rs), ~(i < b) PROVE st.Lo <= rs[i].key OBVIOUS
  <2>1. b \in 1..Len(rs) /\ b <= i BY <1>1, <1>2
  <2>2. rs[b].key <= rs[i].key
    <3>1. b < i \/ b = i BY <2>1
    <3> QED BY <1>3, <2>1, <3>1 DEF sorted_
  <2> HIDE DEF rs
  <2> QED BY <1>1, <1>2, <1>3, <2>1, <2>2
<1>6. CASE st.Lo = Open
  <2>1. a = b BY <1>4, <1>6
  <2>2. \A i \in 1..Len(rs) : ~(rs[i].key < Open) BY <1>3 DEF Open
  <2>3. \A i \in 1..Len(rs) : ~(i < a) BY <1>2, <1>6, <2>1, <2>2
  <2>4. \A i \in 1..Len(rs) : loSide(rs[i].key) BY <1>6 DEF loSide
  <2> QED BY <1>2, <2>1, <2>3, <2>4 DEF a, b
<1>7. CASE st.Lo # Open /\ st.LoIncl
  <2>1. a = b BY <1>4, <1>7
  <2>2. \A i \in 1..Len(rs) : i < a => ~loSide(rs[i].key) BY <1>1, <1>2, <1>3, <1>7, <2>1 DEF loSide
  <2>3. \A i \in 1..Len(rs) : ~(i < a) => loSide(rs[i].key) BY <1>1, <1>3, <1>5, <1>7, <2>1 DEF loSide
  <2> QED BY <1>2, <2>1, <2>2, <2>3 DEF a, b
<1>8. CASE st.Lo # Open /\ ~st.LoIncl
  <2>1. a = Min(T) BY <1>4, <1>8
  <2>2. T \in SUBSET Nat /\ T # {} BY <1>1, <1>2
  <2>3. a \in T /\ \A y \in T : a <= y
    <3> HIDE DEF T
    <3> QED BY <2>1, <2>2, LeastOf
  <2>4. a \in 1..Len(rs) + 1 BY <1>1, <1>2, <2>3
  <2>5. ASSUME NEW i \in 1..Len(rs), i < a PROVE ~loSide(rs[i].key)
    <3>1. CASE i < b
      <4> HIDE DEF rs
      <4> QED BY <1>1, <1>2, <1>3, <1>8, <3>1 DEF loSide
    <3>2. CASE ~(i < b)
      <4>1. i \in b..Len(rs) BY <1>1, <1>2, <3>2
      <4>2. i \notin T BY <1>1, <2>3, <2>4, <2>5
      <4>3. rs[i].key = st.Lo BY <4>1, <4>2
      <4> QED BY <1>1, <1>8, <4>3 DEF loSide
    <3> QED BY <3>1, <3>2
  <2>6. ASSUME NEW i \in 1..Len(rs), ~(i < a) PROVE loSide(rs[i].key)
    <3>1. a \in b..Len(rs) /\ rs[a].key # st.Lo /\ a \in 1..Len(rs) /\ ~(a < b) /\ a <= i
      BY <1>1, <1>2, <2>3, <2>4, <2>6
    <3>2. st.Lo < rs[a].key BY <1>1, <1>3, <1>5, <3>1
    <3>3. rs[a].key <= rs[i].key
      <4>1. a < i \/ a = i BY <3>1
      <4> QED BY <1>3, <3>1, <4>1 DEF sorted_
    <3> HIDE DEF rs
    <3> QED BY <1>1, <1>3, <3>1, <3>2, <3>3 DEF loSide
  <2> QED BY <2>4, <2>5, <2>6 DEF a, b
<1> QED BY <1>6, <1>7, <1>8

\* Where the scan begins: what is before it is below the lower bound, and nothing
\* from there on is.
LEMMA Start ==
  ASSUME TInv, intact
  PROVE  /\ startNo \in 1..nLeaves /\ ord.leaves[startNo] = start
         /\ start \in PageNo /\ tree[start].level = 0
         /\ startAt \in 1..Len(recsOf(startNo)) + 1
         /\ \A i \in 1..Len(recsOf(startNo)) : i < startAt <=> ~loSide(recsOf(startNo)[i].key)
         /\ given(ord, start, st.Lo, st.LoIncl)
<1>1. tree \in Tree /\ ordered(tree, ord) /\ st \in LockStmt
  BY DEF TInv, Indexes, intact, written, ord
<1>2. st.Lo \in Nat /\ st.LoIncl \in BOOLEAN BY <1>1, StmtType
<1>3. /\ start \in PageNo /\ tree[start].level = 0 /\ listed(ord, start)
      /\ given(ord, start, st.Lo, st.LoIncl)
  BY <1>1, <1>2, Descended DEF start
<1>4. \E m \in 1..nLeaves : ord.leaves[m] = start BY <1>3 DEF listed, nLeaves
<1>5. startNo \in 1..nLeaves /\ ord.leaves[startNo] = start BY <1>4 DEF startNo
<1>6. recsOf(startNo) = tree[start].recs BY <1>5 DEF recsOf
<1>7. tree[start].recs \in Seq(Rec) /\ sorted_(tree[start].recs) BY <1>5, <1>6, LeavesInOrder
<1>8. /\ startAt \in 1..Len(tree[start].recs) + 1
      /\ \A i \in 1..Len(tree[start].recs) : i < startAt => ~loSide(tree[start].recs[i].key)
      /\ \A i \in 1..Len(tree[start].recs) : ~(i < startAt) => loSide(tree[start].recs[i].key)
  BY <1>1, <1>7, OpenPast DEF startAt
<1> QED BY <1>3, <1>5, <1>6, <1>8

LEMMA StartBelow ==
  ASSUME TInv, intact, NEW m \in 1..nLeaves, NEW i \in 1..Len(recsOf(m))
  PROVE  before(m, i, startNo, startAt) <=> ~loSide(recsOf(m)[i].key)
<1>1. /\ startNo \in 1..nLeaves /\ ord.leaves[startNo] = start
      /\ startAt \in 1..Len(recsOf(startNo)) + 1
      /\ \A j \in 1..Len(recsOf(startNo)) : j < startAt <=> ~loSide(recsOf(startNo)[j].key)
      /\ given(ord, start, st.Lo, st.LoIncl)
  BY Start
<1>2. /\ st.Lo \in Nat /\ st.LoIncl \in BOOLEAN /\ nLeaves \in Nat /\ recsOf(m)[i].key \in Nat
      /\ recsOf(m)[i].key # Open
  BY StmtType, LeavesInOrder, RecKey DEF TInv, Indexes
<1>3. CASE m = startNo
  <2>1. before(m, i, startNo, startAt) <=> i < startAt BY <1>1, <1>3 DEF before
  <2> QED BY <1>1, <1>3, <2>1
<1>4. CASE m < startNo
  <2>1. before(m, i, startNo, startAt) BY <1>4 DEF before
  <2>2. /\ ord.low[start] # Open /\ recsOf(m)[i].key <= ord.low[start] /\ ord.low[start] \in Nat
    BY <1>1, <1>4, LeafBeforeLeaf, LeavesInOrder
  <2>3. ord.low[start] < st.Lo \/ (ord.low[start] = st.Lo /\ ~st.LoIncl) BY <1>1, <2>2 DEF given
  <2>4. st.Lo # Open BY <1>2, <2>2, <2>3 DEF Open
  <2> QED BY <1>2, <2>1, <2>2, <2>3, <2>4 DEF loSide
<1>5. CASE startNo < m
  <2>1. ~before(m, i, startNo, startAt) BY <1>1, <1>2, <1>5 DEF before
  <2>2. startNo # nLeaves /\ startNo + 1 \in 1..nLeaves BY <1>1, <1>2, <1>5
  <2>3. ord.high[start] = ord.low[ord.leaves[startNo + 1]] BY <1>1, <2>2, LeavesInOrder
  <2>4. ord.high[start] # Open BY <1>1, <2>2, <2>3, <1>2, LeafBeforeLeaf
  <2>5. st.Lo < ord.high[start] \/ (st.Lo = ord.high[start] /\ st.LoIncl) BY <1>1, <2>4 DEF given
  <2>6. ord.low[ord.leaves[m]] \in Nat /\ ord.low[ord.leaves[m]] <= recsOf(m)[i].key
    BY LeavesInOrder
  <2>7. ord.high[start] \in Nat /\ ord.high[start] <= ord.low[ord.leaves[m]]
    <3>1. ord.high[start] \in Nat BY <2>2, <2>3, LeavesInOrder
    <3>2. startNo + 1 < m \/ startNo + 1 = m BY <1>1, <1>2, <1>5
    <3>3. CASE startNo + 1 < m BY <2>2, <2>3, <3>1, <3>3, LeafBeforeLeaf
    <3>4. CASE startNo + 1 = m BY <2>3, <2>6, <3>1, <3>4
    <3> QED BY <3>1, <3>2, <3>3, <3>4
  <2> QED BY <1>2, <2>1, <2>5, <2>6, <2>7 DEF loSide
<1> QED BY <1>1, <1>2, <1>3, <1>4, <1>5

\* Where an insert of a key in range goes: not before the scan began, and before
\* the first record that sorts after it.
LEMMA InsertPlaced ==
  ASSUME TInv, intact, NEW key \in Key, loSide(key)
  PROVE  \E m \in 1..nLeaves :
           LET n == insertNext(recsOf(m), key) IN
           /\ ord.leaves[m] = insertLeaf(tree, key)
           /\ n \in 1..Len(recsOf(m)) + 1
           /\ ~before(m, n, startNo, startAt)
           /\ n <= Len(recsOf(m)) => key < recsOf(m)[n].key
           /\ \A p \in 1..nLeaves : \A j \in 1..Len(recsOf(p)) :
                /\ key < recsOf(p)[j].key => ~before(p, j, m, n)
                /\ apart(tree, ord) /\ recsOf(p)[j].key = key => p = m
<1>1. tree \in Tree /\ ordered(tree, ord) BY DEF TInv, Indexes, intact, written, ord
<1>2. key \in Nat BY BTreeAssumption
<1> DEFINE L == insertLeaf(tree, key)
<1>3. L \in PageNo /\ tree[L].level = 0 /\ listed(ord, L) /\ given(ord, L, key, FALSE)
  BY <1>1, <1>2, Descended DEF insertLeaf
<1>4. PICK m \in 1..nLeaves : ord.leaves[m] = L BY <1>3 DEF listed, nLeaves
<1> HIDE DEF L
<1> DEFINE rs == recsOf(m)
           n == insertNext(rs, key)
<1>5. rs \in Seq(Rec) /\ sorted_(rs) /\ Len(rs) \in Nat /\ nLeaves \in Nat BY LeavesInOrder
<1>6. /\ n \in 1..Len(rs) + 1
      /\ n <= Len(rs) => key < rs[n].key
      /\ \A i \in 1..Len(rs) : key < rs[i].key => n <= i
  BY <1>2, <1>5, InsertNext
<1>7. /\ startNo \in 1..nLeaves /\ ord.leaves[startNo] = start
      /\ startAt \in 1..Len(recsOf(startNo)) + 1
      /\ \A j \in 1..Len(recsOf(startNo)) : j < startAt <=> ~loSide(recsOf(startNo)[j].key)
      /\ given(ord, start, st.Lo, st.LoIncl)
  BY Start
<1>8. st.Lo \in Nat /\ st.LoIncl \in BOOLEAN BY StmtType DEF TInv, Indexes
<1>9. \A j \in 1..Len(rs) : rs[j].key \in Nat BY RecKey
\* The leaves above have keys not below what this one is given.
<1>10. ASSUME NEW p \in 1..nLeaves, m < p
       PROVE  key < ord.low[ord.leaves[p]] /\ ord.low[ord.leaves[p]] \in Nat
  <2>1. m # nLeaves /\ m + 1 \in 1..nLeaves /\ m < m + 1 BY <1>5, <1>10
  <2>2. ord.high[L] = ord.low[ord.leaves[m + 1]] BY <1>4, <2>1, LeavesInOrder
  <2>3. ord.high[L] # Open BY <2>1, <2>2, LeafBeforeLeaf
  <2>4. key < ord.high[L] BY <1>3, <2>3 DEF given
  <2>5. ord.low[ord.leaves[m + 1]] \in Nat /\ ord.low[ord.leaves[p]] \in Nat BY <2>1, LeavesInOrder
  <2>6. m + 1 < p \/ m + 1 = p BY <1>5, <1>10
  <2>7. ord.low[ord.leaves[m + 1]] <= ord.low[ord.leaves[p]]
    <3>1. CASE m + 1 < p BY <2>1, <3>1, LeafBeforeLeaf
    <3>2. CASE m + 1 = p BY <2>5, <3>2
    <3> QED BY <2>6, <3>1, <3>2
  <2> QED BY <1>2, <2>2, <2>4, <2>5, <2>7
<1>11. ASSUME NEW p \in 1..nLeaves, p < m
       PROVE  ord.low[L] # Open /\ ord.low[L] \in Nat /\ ord.low[L] <= key
  <2>1. ord.low[L] # Open /\ ord.low[L] \in Nat BY <1>4, <1>11, LeafBeforeLeaf, LeavesInOrder
  <2> QED BY <1>2, <1>3, <2>1 DEF given
<1>12. ~before(m, n, startNo, startAt)
  <2>1. ~ (m < startNo)
    <3>1. SUFFICES ASSUME m < startNo PROVE FALSE OBVIOUS
    <3>2. key < ord.low[start] /\ ord.low[start] \in Nat BY <1>7, <1>10, <3>1
    <3>3. ord.low[start] # Open BY <1>7, <3>1, LeafBeforeLeaf
    <3>4. ord.low[start] < st.Lo \/ (ord.low[start] = st.Lo /\ ~st.LoIncl) BY <1>7, <3>3 DEF given
    <3>5. st.Lo # Open BY <1>8, <3>2, <3>3, <3>4 DEF Open
    <3> QED BY <1>2, <1>8, <3>2, <3>4, <3>5 DEF loSide
  <2>2. ASSUME m = startNo, n < startAt PROVE FALSE
    <3>1. n \in 1..Len(rs) BY <1>5, <1>6, <1>7, <2>2
    <3>2. ~loSide(rs[n].key) BY <1>7, <2>2, <3>1
    <3>3. key < rs[n].key /\ rs[n].key \in Nat BY <1>6, <1>9, <3>1
    <3> HIDE DEF rs, n
    <3> QED BY <1>2, <1>8, <3>2, <3>3 DEF loSide
  <2> QED BY <2>1, <2>2 DEF before
<1>13. ASSUME NEW p \in 1..nLeaves, NEW j \in 1..Len(recsOf(p))
       PROVE  /\ key < recsOf(p)[j].key => ~before(p, j, m, n)
              /\ apart(tree, ord) /\ recsOf(p)[j].key = key => p = m
  <2>0. recsOf(p)[j].key \in Nat BY RecKey
  <2>1. ASSUME key < recsOf(p)[j].key, before(p, j, m, n) PROVE FALSE
    <3>1. CASE p < m
      <4>1. recsOf(p)[j].key <= ord.low[L] BY <1>4, <3>1, LeafBeforeLeaf
      <4>2. ord.low[L] \in Nat /\ ord.low[L] <= key BY <1>11, <3>1
      <4> QED BY <1>2, <2>0, <2>1, <4>1, <4>2
    <3>2. CASE p = m /\ j < n
      <4>1. n <= j BY <1>6, <2>1, <3>2
      <4> QED BY <1>5, <1>6, <3>2, <4>1
    <3> QED BY <2>1, <3>1, <3>2 DEF before
  <2>2. ASSUME apart(tree, ord), recsOf(p)[j].key = key PROVE p = m
    <3>1. ~ (m < p)
      <4> SUFFICES ASSUME m < p PROVE FALSE OBVIOUS
      <4>1. key < ord.low[ord.leaves[p]] /\ ord.low[ord.leaves[p]] \in Nat BY <1>10
      <4>2. ord.low[ord.leaves[p]] <= recsOf(p)[j].key BY LeavesInOrder
      <4> QED BY <1>2, <2>2, <4>1, <4>2
    <3>2. ~ (p < m)
      <4> SUFFICES ASSUME p < m PROVE FALSE OBVIOUS
      <4>1. m \in p + 1..Len(ord.leaves) BY <1>5 DEF nLeaves
      <4>2. recsOf(p)[j].key < ord.low[L]
        BY <1>4, <2>2, <4>1 DEF apart, recsOf, nLeaves
      <4>3. ord.low[L] \in Nat /\ ord.low[L] <= key BY <1>11
      <4> QED BY <1>2, <2>2, <4>2, <4>3
    <3> QED BY <1>5, <3>1, <3>2
  <2> QED BY <2>1, <2>2
<1> QED BY <1>4, <1>6, <1>12, <1>13 DEF L

\* A whole key is that of one record, or of entries of a secondary index of which
\* one is not delete-marked.
LEMMA OneRecord ==
  ASSUME TInv, intact, idx.Unique, idx.NKey = 1,
         NEW m \in 1..nLeaves, NEW i \in 1..Len(recsOf(m)),
         NEW n \in 1..nLeaves, NEW j \in 1..Len(recsOf(n)),
         recsOf(m)[i].key = recsOf(n)[j].key, before(m, i, n, j)
  PROVE  m = n /\ ~idx.clustered /\ (recsOf(m)[i].del \/ recsOf(n)[j].del)
<1>1. wholeKeys(idx, tree) BY DEF intact, written
<1>2. apart(tree, ord) BY <1>1 DEF wholeKeys, ord
<1>3. recsOf(m)[i].key \in Nat /\ recsOf(n)[j].key \in Nat /\ nLeaves \in Nat BY RecKey, LeavesInOrder
<1>4. m = n
  <2> SUFFICES ASSUME m < n PROVE FALSE BY DEF before
  <2>1. n \in m + 1..Len(ord.leaves) BY <1>3 DEF nLeaves
  <2>2. recsOf(m)[i].key < ord.low[ord.leaves[n]] BY <1>2, <2>1 DEF apart, recsOf, nLeaves
  <2>3. ord.low[ord.leaves[n]] \in Nat /\ ord.low[ord.leaves[n]] <= recsOf(n)[j].key BY LeavesInOrder
  <2> QED BY <1>3, <2>2, <2>3
<1>5. i # j BY <1>4 DEF before
<1>6. ord.leaves[m] \in leaves(tree) BY LeavesInOrder
<1> QED BY <1>1, <1>4, <1>5, <1>6 DEF wholeKeys, recsOf

-----------------------------------------------------------------------------
(* What the invariant says of a scan that is done.                         *)

LEMMA MatchesSides ==
  ASSUME NEW key
  PROVE  matches(key) <=> loSide(key) /\ hiSide(key)
  BY DEF matches, loSide, hiSide

LEMMA HiSideUp ==
  ASSUME TInv, NEW a \in Nat, NEW b \in Nat
  PROVE  /\ ~hiSide(a) /\ a <= b => ~hiSide(b)
         /\ ~hiSide(a) /\ hiSide(b) => b < a
<1>1. st.Hi \in Nat BY StmtType DEF TInv, Indexes
<1> QED BY <1>1 DEF hiSide

\* An exact search is true of its key alone.
LEMMA ExactKey ==
  ASSUME TInv, st.Eq, NEW key \in Nat, matches(key)
  PROVE  key = st.Lo
<1>1. st.Lo \in Nat /\ st.Hi = st.Lo /\ st.Lo # Open BY StmtType DEF TInv, Indexes
<1> QED BY <1>1 DEF matches

\* The record at the cursor, by its place.
LEMMA CursorAt ==
  ASSUME TInv, intact, CursorPlaced, running
  PROVE  /\ startNo \in 1..nLeaves /\ nLeaves \in Nat /\ curNo \in 1..nLeaves /\ startNo <= curNo
         /\ leaf = ord.leaves[curNo] /\ recs = recsOf(curNo)
         /\ Len(recs) \in Nat /\ pos \in 1..Len(recs) + 1 /\ hops \in Nat
         /\ r = recsOf(curNo)[pos]
<1>1. startNo \in 1..nLeaves BY Start
<1>2. nLeaves \in Nat BY <1>1, LeavesInOrder
<1>3. /\ hops \in 0..nLeaves - startNo /\ leaf = ord.leaves[curNo]
      /\ pos \in 1..Len(recsOf(curNo)) + 1
  BY DEF CursorPlaced
<1>4. curNo \in 1..nLeaves /\ startNo <= curNo BY <1>1, <1>2, <1>3 DEF curNo
<1>5. recs = recsOf(curNo) BY <1>3 DEF recs, recsOf
<1>6. Len(recs) \in Nat BY <1>4, <1>5, LeavesInOrder
<1> QED BY <1>1, <1>2, <1>3, <1>4, <1>5, <1>6 DEF r

\* A row the predicate is true of, or on a clustered index what is left of one,
\* was passed or is where the scan ended.
LEMMA MatchSeen ==
  ASSUME TInv, intact, ScanInv, status = "done",
         NEW m \in 1..nLeaves, NEW i \in 1..Len(recsOf(m)),
         matches(recsOf(m)[i].key), recsOf(m)[i].del => idx.clustered
  PROVE  passed(m, i) \/ (here(m, i) /\ AtKey)
<1> DEFINE key == recsOf(m)[i].key
<1>1. key \in Nat /\ loSide(key) /\ hiSide(key) BY RecKey, MatchesSides
<1>2. ~before(m, i, startNo, startAt) BY <1>1, StartBelow
<1>3. /\ nLeaves \in Nat /\ curNo \in 1..nLeaves /\ recs = recsOf(curNo)
      /\ Len(recs) \in Nat /\ pos \in 1..Len(recs) + 1 /\ r = recsOf(curNo)[pos]
  BY CursorAt DEF ScanInv, running
<1>4. Ended BY DEF ScanInv
<1>5. SUFFICES ASSUME ~before(m, i, curNo, pos) PROVE here(m, i) /\ AtKey
  BY <1>2 DEF passed
<1>6. ASSUME pos <= Len(recs)
      PROVE  /\ r.key \in Nat /\ r.key <= key
             /\ here(m, i) \/ before(curNo, pos, m, i)
  <2>1. pos \in 1..Len(recsOf(curNo)) BY <1>3, <1>6
  <2>2. r.key \in Nat BY <1>3, <2>1, RecKey
  <2>3. here(m, i) \/ before(curNo, pos, m, i) BY <1>3, <1>5 DEF here, before
  <2>4. CASE here(m, i) BY <1>1, <1>3, <2>2, <2>4 DEF here
  <2>5. CASE before(curNo, pos, m, i) BY <1>3, <2>1, <2>2, <2>5, KeysInOrder
  <2> QED BY <2>2, <2>3, <2>4, <2>5
<1>7. ~EndOfIndex BY <1>3, <1>5 DEF EndOfIndex, before
<1>8. ~BehindBound
  <2> SUFFICES ASSUME NEW p \in 1..nLeaves, NEW j \in 1..Len(recsOf(p)),
                      passed(p, j), ~hiSide(recsOf(p)[j].key)
               PROVE  FALSE
    BY DEF BehindBound
  <2>1. before(p, j, m, i)
    <3>1. Len(recsOf(p)) \in Nat /\ Len(recsOf(m)) \in Nat BY LeavesInOrder
    <3> QED BY <1>3, <1>5, <3>1 DEF passed, before
  <2>2. recsOf(p)[j].key <= key /\ recsOf(p)[j].key \in Nat BY <2>1, KeysInOrder, RecKey
  <2> HIDE DEF key
  <2> QED BY <1>1, <2>2, HiSideUp
<1>9. ~AtBound /\ ~BehindStop
  <2> SUFFICES ASSUME pos <= Len(recs), ~hiSide(r.key) PROVE FALSE
    BY DEF AtBound, BehindStop
  <2> HIDE DEF key
  <2> QED BY <1>1, <1>6, HiSideUp
<1>10. AtKey BY <1>4, <1>7, <1>8, <1>9 DEF Ended
<1>11. here(m, i)
  <2>1. /\ pos <= Len(recs) /\ uniqueSearch /\ r.key = st.Lo /\ (r.del => idx.clustered)
    BY <1>10 DEF AtKey
  <2>2. key = st.Lo BY <1>1, <2>1, ExactKey DEF uniqueSearch
  <2>3. ~before(curNo, pos, m, i)
    <3> SUFFICES ASSUME before(curNo, pos, m, i) PROVE FALSE OBVIOUS
    <3>1. pos \in 1..Len(recsOf(curNo)) BY <1>3, <2>1
    <3>2. ~idx.clustered /\ (recsOf(curNo)[pos].del \/ recsOf(m)[i].del)
      BY <1>3, <2>1, <2>2, <3>1, OneRecord DEF uniqueSearch
    <3> QED BY <1>3, <2>1, <3>2
  <2> QED BY <1>6, <2>1, <2>3
<1> QED BY <1>10, <1>11

LEMMA RowsAreHeld == IInv => RowsHeld
<1> SUFFICES ASSUME IInv, status = "done", intact,
                    NEW p \in leaves(tree), NEW i \in 1..Len(tree[p].recs),
                    ~tree[p].recs[i].del, matches(tree[p].recs[i].key)
             PROVE  /\ \E l \in locksOn(p, i) : l.kind # "gap"
                    /\ rowHeld(tree[p].recs[i])
  BY DEF RowsHeld, rowHeld
<1>1. TInv /\ ScanInv /\ running BY DEF IInv, running
<1>2. PICK m \in 1..nLeaves : ord.leaves[m] = p
  <2>1. leavesOrdered(tree, ord) BY DEF intact, written, ordered, ord
  <2>2. tree[p].recs # <<>>
    <3>1. Len(<<>>) = 0 OBVIOUS
    <3> QED BY <3>1
  <2> QED BY <2>1, <2>2 DEF leavesOrdered, nLeaves
<1>3. tree[p].recs = recsOf(m) BY <1>2 DEF recsOf
<1>4. passed(m, i) \/ (here(m, i) /\ AtKey) BY <1>1, <1>3, MatchSeen
<1>5. CASE passed(m, i)
  <2>1. recHeld(m, i) /\ rowHeld(recsOf(m)[i]) BY <1>1, <1>3, <1>5 DEF ScanInv, RowsBehind
  <2> QED BY <1>2, <1>3, <2>1 DEF recHeld
<1>6. CASE here(m, i) /\ AtKey
  <2>1. r = recsOf(m)[i] /\ m = curNo /\ i = pos BY <1>1, <1>6, CursorAt DEF here, ScanInv
  <2>2. recHeld(m, i) /\ rowHeld(recsOf(m)[i]) BY <1>3, <1>6, <2>1 DEF AtKey
  <2> QED BY <1>2, <1>3, <2>2 DEF recHeld
<1> QED BY <1>4, <1>5, <1>6

LEMMA NoMoreLocked == IInv => NothingMore
<1> SUFFICES ASSUME IInv, status = "done", intact
             PROVE  CommittedAlone /\ GapPastBound /\ SupremumInRange
  BY DEF NothingMore
<1>1. TInv /\ ScanInv /\ running BY DEF IInv, running
<1>2. CommittedAlone /\ SupremumInRange BY <1>1 DEF ScanInv
<1>3. ASSUME idx.clustered, st.Hi # Open, ~st.RC, ~emptyRange, NEW l \in out,
             l.at <= Len(tree[l.page].recs), st.Hi < tree[l.page].recs[l.at].key,
             NEW k \in out, k.at <= Len(tree[k.page].recs)
      PROVE  /\ l.kind = "gap"
             /\ tree[k.page].recs[k.at].key <= tree[l.page].recs[l.at].key
  <2>1. l.kind = "gap" /\ l.page = leaf /\ l.at = pos BY <1>1, <1>3 DEF ScanInv, PastIsLast
  <2>2. /\ nLeaves \in Nat /\ curNo \in 1..nLeaves /\ leaf = ord.leaves[curNo]
        /\ recs = recsOf(curNo) /\ Len(recs) \in Nat /\ pos \in 1..Len(recs) + 1
    BY <1>1, CursorAt DEF ScanInv
  <2>3. pos \in 1..Len(recsOf(curNo)) /\ tree[l.page].recs[l.at] = recsOf(curNo)[pos]
    BY <1>3, <2>1, <2>2 DEF recs
  <2>4. PICK m \in 1..nLeaves :
          /\ k.page = ord.leaves[m] /\ k.at \in 1..Len(recsOf(m)) + 1
          /\ passed(m, k.at) \/ (status = "done" /\ here(m, k.at))
    BY <1>1, <1>3 DEF ScanInv, LocksBehind
  <2>5. tree[k.page].recs[k.at] = recsOf(m)[k.at] /\ k.at \in 1..Len(recsOf(m))
    <3>1. Len(recsOf(m)) \in Nat BY <1>1, LeavesInOrder
    <3> QED BY <1>3, <2>4, <3>1 DEF recsOf
  <2>6. recsOf(m)[k.at].key <= recsOf(curNo)[pos].key
    <3>1. CASE passed(m, k.at)
      <4>1. before(m, k.at, curNo, pos) BY <3>1 DEF passed
      <4> QED BY <1>1, <2>2, <2>3, <2>5, <4>1, KeysInOrder
    <3>2. CASE here(m, k.at)
      <4>1. recsOf(curNo)[pos].key \in Nat BY <1>1, <2>2, <2>3, RecKey
      <4> QED BY <3>2, <4>1 DEF here
    <3> QED BY <2>4, <3>1, <3>2
  <2> QED BY <2>1, <2>3, <2>5, <2>6
<1> QED BY <1>2, <1>3 DEF GapPastBound

\* Where a key is already, dupOf says so.
LEMMA Duplicates ==
  ASSUME TInv, NEW rs \in Seq(Rec), NEW key \in Nat
  PROVE  LET dup == dupOf(idx, rs, key) IN
         /\ dup # 0 => /\ dup \in 1..Len(rs) /\ rs[dup].key = key
                       /\ idx.Unique /\ idx.NKey = 1 /\ (idx.clustered \/ ~rs[dup].del)
         /\ \A i \in 1..Len(rs) : rs[i].key = key /\ (idx.clustered \/ ~rs[i].del)
                                  /\ idx.Unique /\ idx.NKey = 1 => dup # 0
<1> DEFINE held == {i \in equalFrom(rs, key) : idx.clustered \/ ~rs[i].del}
           dup == dupOf(idx, rs, key)
<1>0. Len(rs) \in Nat OBVIOUS
<1>1. /\ lowerBound(rs, key) \in 1..Len(rs) + 1 /\ Len(rs) \in Nat
      /\ \A i \in 1..Len(rs) : i < lowerBound(rs, key) => rs[i].key < key
  BY <1>0, LowerBound
<1>2. held \in SUBSET Nat /\ 0 \notin held BY <1>1 DEF equalFrom
<1>3. held # {} => Min(held) \in held
  <2> HIDE DEF held
  <2> QED BY <1>2, LeastOf
<1>4. dup = IF idx.Unique /\ idx.NKey = 1 /\ held # {} THEN Min(held) ELSE 0 BY DEF dupOf
<1> HIDE DEF dup
<1>5. ASSUME dup # 0
      PROVE  /\ dup \in 1..Len(rs) /\ rs[dup].key = key
             /\ idx.Unique /\ idx.NKey = 1 /\ (idx.clustered \/ ~rs[dup].del)
  <2>1. idx.Unique /\ idx.NKey = 1 /\ dup \in held BY <1>3, <1>4, <1>5
  <2> QED BY <1>1, <2>1 DEF equalFrom
<1>6. ASSUME NEW i \in 1..Len(rs), rs[i].key = key, idx.clustered \/ ~rs[i].del,
             idx.Unique, idx.NKey = 1
      PROVE  dup # 0
  <2>1. ~(i < lowerBound(rs, key)) BY <1>1, <1>6
  <2>2. i \in held BY <1>1, <1>6, <2>1 DEF equalFrom
  <2>3. held # {} BY <2>2
  <2> HIDE DEF held
  <2> QED BY <1>2, <1>3, <1>4, <1>6, <2>3
<1> QED BY <1>5, <1>6 DEF dup

\* An insert that finds the key on a record left of a deleted row waits for the lock
\* on it.
LEMMA RewriteBlocked ==
  ASSUME TInv, intact, ScanInv, status = "done", ~st.RC, ~st.S,
         NEW m \in 1..nLeaves, NEW i \in 1..Len(recsOf(m)),
         matches(recsOf(m)[i].key), idx.clustered \/ ~recsOf(m)[i].del
  PROVE  \E l \in locksOn(ord.leaves[m], i) : waitsForRecord(l)
<1>1. running /\ base = "X" BY DEF running, base
<1>2. passed(m, i) \/ (here(m, i) /\ AtKey) BY MatchSeen
<1>3. \E l \in locksOn(ord.leaves[m], i) : l.kind # "gap"
  <2>1. CASE passed(m, i)
    <3>1. Len(recsOf(m)) \in Nat /\ recsOf(m)[i].key \in Nat /\ recsOf(m)[i].key # Open
      BY LeavesInOrder, RecKey
    <3>2. i \in 1..Len(recsOf(m)) + 1 /\ i <= Len(recsOf(m)) BY <3>1
    <3>3. PICK l \in locksOn(ord.leaves[m], i) :
            l.kind = "gap" => recsOf(m)[i].key = st.Hi /\ ~st.HiIncl
      BY <1>1, <2>1, <3>2 DEF ScanInv, AllBehind
    <3>4. hiSide(recsOf(m)[i].key) BY MatchesSides
    <3>5. l.kind # "gap" BY <3>1, <3>3, <3>4 DEF hiSide
    <3> QED BY <3>5
  <2>2. CASE here(m, i) /\ AtKey BY <2>2 DEF AtKey, here, recHeld
  <2> QED BY <1>2, <2>1, <2>2
<1>4. \A l \in out : l.mode = "X" BY <1>1 DEF ScanInv, LocksBehind
<1> QED BY <1>3, <1>4 DEF locksOn, waitsForRecord

\* An insert that has no such record to find waits for the lock on the gap it goes
\* in.
LEMMA GapBlocked ==
  ASSUME TInv, intact, ScanInv, status = "done", ~st.RC,
         NEW key \in Key, matches(key), NEW m \in 1..nLeaves,
         ord.leaves[m] = insertLeaf(tree, key),
         LET n == insertNext(recsOf(m), key) IN
           /\ n \in 1..Len(recsOf(m)) + 1
           /\ ~before(m, n, startNo, startAt)
           /\ n <= Len(recsOf(m)) => key < recsOf(m)[n].key
           /\ \A p \in 1..nLeaves : \A j \in 1..Len(recsOf(p)) :
                /\ key < recsOf(p)[j].key => ~before(p, j, m, n)
                /\ apart(tree, ord) /\ recsOf(p)[j].key = key => p = m,
         dupOf(idx, recsOf(m), key) = 0
  PROVE  \E l \in locksOn(ord.leaves[m], insertNext(recsOf(m), key)) : waitsForGap(l)
<1>0. PICK n : n = insertNext(recsOf(m), key) OBVIOUS
<1>1. /\ n \in 1..Len(recsOf(m)) + 1
      /\ ~before(m, n, startNo, startAt)
      /\ n <= Len(recsOf(m)) => key < recsOf(m)[n].key
      /\ \A p \in 1..nLeaves : \A j \in 1..Len(recsOf(p)) :
           /\ key < recsOf(p)[j].key => ~before(p, j, m, n)
           /\ apart(tree, ord) /\ recsOf(p)[j].key = key => p = m
  BY <1>0
<1>2. SUFFICES \E l \in locksOn(ord.leaves[m], n) : l.kind # "rec"
  BY <1>0 DEF waitsForGap
<1>3. key \in Nat /\ loSide(key) /\ hiSide(key) /\ running
  BY MatchesSides, BTreeAssumption DEF running
<1>4. /\ nLeaves \in Nat /\ curNo \in 1..nLeaves /\ recs = recsOf(curNo) /\ leaf = ord.leaves[curNo]
      /\ Len(recs) \in Nat /\ pos \in 1..Len(recs) + 1 /\ r = recsOf(curNo)[pos]
  BY <1>3, CursorAt DEF ScanInv
<1>5. Len(recsOf(m)) \in Nat /\ recsOf(m) \in Seq(Rec) BY LeavesInOrder
<1>6. /\ st.Lo \in Nat /\ st.Hi \in Nat /\ st.Eq \in BOOLEAN
  BY StmtType DEF TInv, Indexes
<1>7. CASE passed(m, n)
  <2>1. PICK l \in locksOn(ord.leaves[m], n) :
          /\ n = Len(recsOf(m)) + 1 => l.kind = "ordinary"
          /\ n <= Len(recsOf(m)) => (l.kind = "rec" => recsOf(m)[n].key = st.Lo)
    BY <1>1, <1>3, <1>7 DEF ScanInv, AllBehind
  <2>2. CASE n = Len(recsOf(m)) + 1 BY <2>1, <2>2
  <2>3. CASE n <= Len(recsOf(m))
    <3>1. n \in 1..Len(recsOf(m)) BY <1>1, <1>5, <2>3
    <3>2. key < recsOf(m)[n].key /\ recsOf(m)[n].key \in Nat /\ recsOf(m)[n].key # Open
      BY <1>1, <2>3, <3>1, RecKey
    <3>3. recsOf(m)[n].key # st.Lo BY <1>3, <1>6, <3>2 DEF loSide
    <3> QED BY <2>1, <2>3, <3>3
  <2> QED BY <1>1, <1>5, <2>2, <2>3
<1>8. CASE ~passed(m, n)
  <2>1. ~before(m, n, curNo, pos) BY <1>1, <1>8 DEF passed
  <2>2. Ended BY DEF ScanInv
  <2>3. \A p \in 1..nLeaves : \A j \in 1..Len(recsOf(p)) : passed(p, j) => before(p, j, m, n)
    <3> SUFFICES ASSUME NEW p \in 1..nLeaves, NEW j \in 1..Len(recsOf(p)), passed(p, j)
                 PROVE  before(p, j, m, n)
      OBVIOUS
    <3>1. Len(recsOf(p)) \in Nat BY LeavesInOrder
    <3>2. before(p, j, curNo, pos) BY DEF passed
    <3> QED BY <1>1, <1>4, <1>5, <2>1, <3>1, <3>2 DEF before
  <2>4. CASE EndOfIndex
    <3>1. curNo = nLeaves /\ pos = Len(recs) + 1 /\ \E l \in locksOn(leaf, pos) : l.kind = "ordinary"
      BY <2>4 DEF EndOfIndex
    <3>2. m = curNo BY <1>4, <2>1, <3>1 DEF before
    <3>3. n = pos BY <1>1, <1>4, <2>1, <3>1, <3>2 DEF before
    <3> QED BY <1>4, <3>1, <3>2, <3>3
  <2>5. CASE BehindBound
    <3>0. PICK p \in 1..nLeaves : \E j \in 1..Len(recsOf(p)) :
            passed(p, j) /\ ~hiSide(recsOf(p)[j].key)
      BY <2>5 DEF BehindBound
    <3>1. PICK j \in 1..Len(recsOf(p)) : passed(p, j) /\ ~hiSide(recsOf(p)[j].key) BY <3>0
    <3>2. recsOf(p)[j].key \in Nat BY RecKey
    <3>3. key < recsOf(p)[j].key BY <1>3, <3>1, <3>2, HiSideUp
    <3> QED BY <1>1, <2>3, <3>1, <3>3
  <2>6. CASE AtBound
    <3>1. /\ pos <= Len(recs) /\ ~hiSide(r.key)
          /\ \E l \in locksOn(leaf, pos) : l.kind # "rec"
      <4>1. ~emptyRange
        <5>1. st.Lo \in Nat /\ st.Hi \in Nat BY StmtType DEF TInv, Indexes
        <5>2. key \in Nat /\ matches(key) BY BTreeAssumption
        <5> QED BY <5>1, <5>2 DEF emptyRange, matches
      <4> QED BY <2>6, <4>1 DEF AtBound
    <3>2. pos \in 1..Len(recsOf(curNo)) BY <1>4, <3>1
    <3>3. r.key \in Nat BY <1>4, <3>2, RecKey
    <3>4. key < recsOf(curNo)[pos].key BY <1>3, <1>4, <3>1, <3>3, HiSideUp
    <3>5. ~before(curNo, pos, m, n) BY <1>1, <1>4, <3>2, <3>4
    <3>6. m = curNo /\ n = pos BY <1>1, <1>4, <1>5, <2>1, <3>5 DEF before
    <3> QED BY <1>4, <3>1, <3>6
  <2>7. CASE BehindStop
    <3>0. PICK p \in 1..nLeaves : \E j \in 1..Len(recsOf(p)) :
            passed(p, j) /\ recsOf(p)[j].key = st.Hi
      BY <2>7 DEF BehindStop
    <3>1. PICK j \in 1..Len(recsOf(p)) : passed(p, j) /\ recsOf(p)[j].key = st.Hi BY <3>0
    <3>2. idx.clustered /\ (st.HiIncl => idx.NKey = 1) BY <2>7 DEF BehindStop
    <3>3. recsOf(p)[j].key \in Nat /\ recsOf(p)[j].key # Open BY RecKey
    <3>4. CASE key < st.Hi BY <1>1, <2>3, <3>1, <3>4
    <3>5. CASE ~(key < st.Hi)
      <4>1. key = st.Hi /\ st.HiIncl BY <1>3, <1>6, <3>1, <3>3, <3>5 DEF hiSide
      <4>2. idx.NKey = 1 /\ idx.Unique BY <3>2, <4>1 DEF TInv, Indexes
      <4>3. apart(tree, ord) BY <4>2 DEF intact, written, wholeKeys, ord
      <4>4. p = m BY <1>1, <3>1, <4>1, <4>3
      <4> QED BY <1>3, <1>5, <3>1, <3>2, <4>1, <4>2, <4>4, Duplicates
    <3> QED BY <3>4, <3>5
  <2>8. CASE AtKey
    <3>1. pos <= Len(recs) /\ uniqueSearch /\ r.key = st.Lo /\ (r.del => idx.clustered)
      BY <2>8 DEF AtKey
    <3>2. st.Eq /\ idx.Unique /\ idx.NKey = 1 BY <3>1 DEF uniqueSearch
    <3>3. key = st.Lo BY <1>3, <3>2, ExactKey
    <3>4. pos \in 1..Len(recsOf(curNo)) /\ recsOf(curNo)[pos].key = key BY <1>4, <3>1, <3>3
    <3>5. apart(tree, ord) BY <3>2 DEF intact, written, wholeKeys, ord
    <3>6. curNo = m BY <1>1, <1>4, <3>4, <3>5
    <3>7. idx.clustered \/ ~recsOf(m)[pos].del BY <1>4, <3>1, <3>6
    <3> QED BY <1>3, <1>5, <3>2, <3>4, <3>6, <3>7, Duplicates
  <2> QED BY <2>2, <2>4, <2>5, <2>6, <2>7, <2>8 DEF Ended
<1> QED BY <1>7, <1>8

LEMMA NoneGained == IInv => NoPhantom
<1> SUFFICES ASSUME IInv, status = "done", intact, ~st.RC, ~st.S, NEW key \in Key, gains(key)
             PROVE  FALSE
  BY DEF NoPhantom
<1>1. TInv /\ ScanInv BY DEF IInv
<1>2. /\ matches(key) /\ ~duplicate(tree, idx, key) /\ blockedBy(tree, idx, key, out) = {}
      /\ loSide(key) /\ key \in Nat
  BY MatchesSides, BTreeAssumption DEF gains
<1>3. PICK m \in 1..nLeaves :
        LET n == insertNext(recsOf(m), key) IN
        /\ ord.leaves[m] = insertLeaf(tree, key)
        /\ n \in 1..Len(recsOf(m)) + 1
        /\ ~before(m, n, startNo, startAt)
        /\ n <= Len(recsOf(m)) => key < recsOf(m)[n].key
        /\ \A p \in 1..nLeaves : \A j \in 1..Len(recsOf(p)) :
             /\ key < recsOf(p)[j].key => ~before(p, j, m, n)
             /\ apart(tree, ord) /\ recsOf(p)[j].key = key => p = m
  BY <1>1, <1>2, InsertPlaced
<1>4. tree[insertLeaf(tree, key)].recs = recsOf(m) BY <1>3 DEF recsOf
<1>5. recsOf(m) \in Seq(Rec) BY <1>1, LeavesInOrder
<1>6. PICK dup : dup = dupOf(idx, recsOf(m), key) OBVIOUS
<1>7. CASE dup # 0
  <2>1. /\ dup \in 1..Len(recsOf(m)) /\ recsOf(m)[dup].key = key
        /\ idx.clustered \/ ~recsOf(m)[dup].del
    BY <1>1, <1>2, <1>5, <1>6, <1>7, Duplicates
  <2>2. PICK l \in locksOn(ord.leaves[m], dup) : waitsForRecord(l)
    BY <1>1, <1>2, <2>1, RewriteBlocked
  <2>3. l \in blockedBy(tree, idx, key, out)
    BY <1>3, <1>4, <1>6, <1>7, <2>2 DEF blockedBy, locksOn
  <2> QED BY <1>2, <2>3
<1>8. CASE dup = 0
  <2>1. PICK l \in locksOn(ord.leaves[m], insertNext(recsOf(m), key)) : waitsForGap(l)
    BY <1>1, <1>2, <1>3, <1>6, <1>8, GapBlocked
  <2>2. l \in blockedBy(tree, idx, key, out)
    BY <1>3, <1>4, <1>6, <1>8, <2>1 DEF blockedBy, locksOn
  <2> QED BY <1>2, <2>2
<1> QED BY <1>7, <1>8

-----------------------------------------------------------------------------
(* The invariant, step by step.                                            *)

LEMMA Frame ==
  ASSUME UNCHANGED index
  PROVE  /\ ord' = ord /\ nLeaves' = nLeaves /\ start' = start /\ startAt' = startAt
         /\ startNo' = startNo /\ intact' = intact /\ base' = base
         /\ tree' = tree /\ clust' = clust /\ idx' = idx /\ st' = st
         /\ \A m : recsOf(m)' = recsOf(m)
         /\ \A k : matches(k)' = matches(k) /\ hiSide(k)' = hiSide(k)
<1>1. tree' = tree /\ clust' = clust /\ idx' = idx /\ st' = st BY DEF index
<1>2. ord' = ord BY <1>1 DEF ord
<1>3. nLeaves' = nLeaves /\ \A m : recsOf(m)' = recsOf(m) BY <1>1, <1>2 DEF nLeaves, recsOf
<1>4. start' = start BY <1>1 DEF start
<1>5. startAt' = startAt BY <1>1, <1>4 DEF startAt, openPast
<1>6. startNo' = startNo BY <1>2, <1>3, <1>4 DEF startNo
<1>7. intact' = intact BY <1>1 DEF intact
<1>8. base' = base BY <1>1 DEF base
<1>9. \A k : matches(k)' = matches(k) /\ hiSide(k)' = hiSide(k) BY <1>1 DEF matches, hiSide
<1> QED BY <1>1, <1>2, <1>3, <1>4, <1>5, <1>6, <1>7, <1>8, <1>9

\* The cursor is never before the place where the scan began, and nothing from
\* there on is below the lower bound.
LEMMA CursorFrom ==
  ASSUME TInv, intact, CursorPlaced, running
  PROVE  ~before(curNo, pos, startNo, startAt)
<1>1. startNo \in Nat /\ curNo \in Nat /\ startNo <= curNo /\ hops \in Nat BY CursorAt
<1>2. startAt \in 1..Len(recsOf(startNo)) + 1 BY Start
<1>3. CASE hops = 0
  <2>1. curNo = startNo /\ startAt <= pos BY <1>1, <1>3 DEF curNo, CursorPlaced
  <2>2. startAt \in Nat /\ pos \in Nat BY <1>2, CursorAt
  <2> QED BY <1>1, <2>1, <2>2 DEF before
<1>4. CASE hops # 0
  <2>1. startNo < curNo BY <1>1, <1>4 DEF curNo
  <2> QED BY <1>1, <2>1 DEF before
<1> QED BY <1>3, <1>4

LEMMA CursorLo ==
  ASSUME TInv, intact, CursorPlaced, reading
  PROVE  loSide(r.key)
<1>1. running BY DEF running, reading
<1>2. curNo \in 1..nLeaves /\ recs = recsOf(curNo) /\ r = recsOf(curNo)[pos] BY <1>1, CursorAt
<1>3. pos \in 1..Len(recsOf(curNo)) BY <1>2, CursorRec
<1>4. ~before(curNo, pos, startNo, startAt) BY <1>1, CursorFrom
<1> QED BY <1>2, <1>3, <1>4, StartBelow

LEMMA InRange ==
  ASSUME TInv, reading
  PROVE  inRange <=> hiSide(r.key)
<1>1. st.Hi \in Nat /\ st.HiIncl \in BOOLEAN /\ r.key \in Nat
  BY StmtType, CursorRec DEF TInv, Indexes
<1> QED BY <1>1 DEF inRange, pastHi, hiSide

\* Row locks are on the clustered index, and on the row where there is one.
LEMMA RowLocked ==
  ASSUME TInv, reading
  PROVE  /\ \A l \in rowLocks(r) : l.ix = "clust" /\ l.mode = base
         /\ idx.clustered => rowLocks(r) = {}
         /\ ~rowFailed(r) /\ ~idx.clustered =>
              \E l \in rowLocks(r) : l.ix = "clust" /\ clust[l.page].recs[l.at].pk = r.pk
<1>1. r.pk \in Pk BY CursorRec
<1>2. \A i \in rowAt(r.pk) : clust[rowLeaf(r.pk)].recs[i].pk = r.pk BY <1>1, RowLocksType
<1>3. ASSUME ~rowFailed(r), ~idx.clustered
      PROVE  \E l \in rowLocks(r) : l.ix = "clust" /\ clust[l.page].recs[l.at].pk = r.pk
  <2>1. PICK i \in rowAt(r.pk) : TRUE BY <1>3 DEF rowFailed
  <2>2. lock("clust", rowLeaf(r.pk), i, base, "rec") \in rowLocks(r) BY <1>3, <2>1 DEF rowLocks
  <2> QED BY <1>2, <2>1, <2>2 DEF lock
<1> QED BY <1>3 DEF rowLocks, lock

\* What a step that reads a record has to do to it, for the invariant to go on.
atCursor(l) == l.ix = "idx" /\ l.page = leaf /\ l.at = pos

held       == \E l \in out' : atCursor(l) /\ l.kind # "gap"
rowHeldNow == ~idx.clustered => \E l \in out' : l.ix = "clust" /\ clust[l.page].recs[l.at].pk = r.pk

ReadRight ==
  /\ status' = "scan" =>
       /\ ~r.del /\ matches(r.key) => held /\ rowHeldNow
       /\ ~st.RC => \E l \in out' : /\ atCursor(l)
                                    /\ l.kind = "rec" => r.key = st.Lo
                                    /\ l.kind = "gap" => r.key = st.Hi /\ ~st.HiIncl
  /\ status' = "done" =>
       \/ ~hiSide(r.key) /\ (st.RC \/ emptyRange \/ \E l \in out' : atCursor(l) /\ l.kind # "rec")
       \/ ~hiSide(r.key) /\ stopFound
       \/ /\ uniqueSearch /\ r.key = st.Lo /\ (r.del => idx.clustered)
          /\ held \/ (st.RC /\ r.del)
          /\ ~r.del => rowHeldNow
  /\ \A l \in out' \ out : l.ix = "idx" =>
       /\ idx.clustered /\ st.Hi # Open /\ ~st.RC /\ ~emptyRange /\ st.Hi < r.key
            => l.kind = "gap" /\ status' = "done"
       /\ st.RC => l.kind = "rec" /\ ~r.del /\ matches(r.key)

LEMMA MissRight ==
  ASSUME TInv, intact, CursorPlaced, ReadMiss
  PROVE  ReadRight
<1>1. reading /\ st.Eq /\ r.key # st.Lo BY DEF ReadMiss, miss
<1>2. st.Lo \in Nat /\ st.Hi = st.Lo /\ st.Lo # Open /\ r.key \in Nat /\ st.RC \in BOOLEAN
  BY <1>1, StmtType, CursorRec DEF TInv, Indexes
<1>3. loSide(r.key) BY <1>1, CursorLo
<1>4. ~hiSide(r.key) BY <1>1, <1>2, <1>3 DEF loSide, hiSide
<1>5. status' = "done" /\ out' = out \cup (IF st.RC THEN {} ELSE add(leaf, pos, "gap"))
  BY DEF ReadMiss, stop
<1>6. CASE st.RC BY <1>4, <1>5, <1>6 DEF ReadRight
<1>7. CASE ~st.RC
  <2>1. out' = out \cup {lock("idx", leaf, pos, base, "gap")} BY <1>5, <1>7 DEF add
  <2>2. \E l \in out' : atCursor(l) /\ l.kind # "rec"
    <3> DEFINE x == lock("idx", leaf, pos, base, "gap")
    <3>1. x \in out' BY <2>1
    <3>2. atCursor(x) /\ x.kind # "rec" BY DEF lock, atCursor
    <3> QED BY <3>1, <3>2
  <2>3. \A l \in out' \ out : l.kind = "gap" BY <2>1 DEF lock
  <2> QED BY <1>4, <1>5, <1>7, <2>2, <2>3 DEF ReadRight
<1> QED BY <1>6, <1>7

LEMMA CommittedRight ==
  ASSUME TInv, intact, CursorPlaced, ReadCommitted
  PROVE  ReadRight
<1>1. reading /\ ~miss /\ st.RC /\ status = "scan" BY DEF ReadCommitted, reading
<1>2. loSide(r.key) /\ (inRange <=> hiSide(r.key)) BY <1>1, CursorLo, InRange
<1>3. CASE ~inRange /\ stop({})
  <2>1. status' = "done" /\ out' = out BY <1>3 DEF stop
  <2> QED BY <1>1, <1>2, <1>3, <2>1 DEF ReadRight
<1>4. CASE inRange /\ ~r.del /\ returned(add(leaf, pos, "rec"), uniqueSearch)
  <2>1. out' = out \cup {lock("idx", leaf, pos, base, "rec")} \cup rowLocks(r)
    BY <1>4 DEF returned, add
  <2>2. held
    <3>1. lock("idx", leaf, pos, base, "rec") \in out' BY <2>1
    <3>2. atCursor(lock("idx", leaf, pos, base, "rec")) /\ lock("idx", leaf, pos, base, "rec").kind # "gap"
      BY DEF lock, atCursor
    <3> QED BY <3>1, <3>2 DEF held
  <2>3. status' \notin {"row", "error"} => rowHeldNow
    <3>1. status' \notin {"row", "error"} => ~rowFailed(r) BY <1>4 DEF returned
    <3> QED BY <1>1, <2>1, <3>1, RowLocked DEF rowHeldNow
  <2>4. status' = "done" => uniqueSearch BY <1>1, <1>4 DEF returned
  <2>5. uniqueSearch => r.key = st.Lo BY <1>1 DEF miss, uniqueSearch
  <2>6. \A l \in out' \ out : l.ix = "idx" => l.kind = "rec"
    BY <1>1, <2>1, RowLocked DEF lock
  <2>7. matches(r.key) BY <1>2, <1>4, MatchesSides
  <2> QED BY <1>1, <1>4, <2>2, <2>3, <2>4, <2>5, <2>6, <2>7 DEF ReadRight
<1>5. CASE inRange /\ r.del /\ uniqueSearch /\ idx.clustered /\ stop({})
  <2>1. status' = "done" /\ out' = out BY <1>5 DEF stop
  <2>2. r.key = st.Lo BY <1>1, <1>5 DEF miss, uniqueSearch
  <2> QED BY <1>1, <1>5, <2>1, <2>2 DEF ReadRight
<1>6. CASE inRange /\ r.del /\ skip({})
  <2>1. status' = "scan" /\ out' = out BY <1>1, <1>6 DEF skip
  <2> QED BY <1>1, <1>6, <2>1 DEF ReadRight
<1> QED BY <1>3, <1>4, <1>5, <1>6 DEF ReadCommitted

LEMMA PastRight ==
  ASSUME TInv, intact, CursorPlaced, ReadPast
  PROVE  ReadRight
<1>1. reading /\ ~st.RC /\ bounded /\ st.Hi < r.key BY DEF ReadPast
<1>2. st.Hi \in Nat /\ r.key \in Nat /\ st.Hi # Open BY <1>1, StmtType, CursorRec DEF TInv, Indexes, bounded
<1>3. ~hiSide(r.key) BY <1>1, <1>2 DEF hiSide
<1>4. status' = "done" /\ out' = out \cup (IF stopFound THEN {} ELSE add(leaf, pos, "gap"))
  BY DEF ReadPast, stop
<1>5. CASE stopFound BY <1>1, <1>3, <1>4, <1>5 DEF ReadRight
<1>6. CASE ~stopFound
  <2>1. out' = out \cup {lock("idx", leaf, pos, base, "gap")} BY <1>4, <1>6 DEF add
  <2>2. \E l \in out' : atCursor(l) /\ l.kind # "rec"
    <3> DEFINE x == lock("idx", leaf, pos, base, "gap")
    <3>1. x \in out' BY <2>1
    <3>2. atCursor(x) /\ x.kind # "rec" BY DEF lock, atCursor
    <3> QED BY <3>1, <3>2
  <2>3. \A l \in out' \ out : l.kind = "gap" BY <2>1 DEF lock
  <2> QED BY <1>1, <1>3, <1>4, <2>2, <2>3 DEF ReadRight
<1> QED BY <1>5, <1>6

LEMMA NextRight ==
  ASSUME TInv, intact, CursorPlaced, ReadNext
  PROVE  ReadRight
<1>1. /\ reading /\ ~miss /\ ~st.RC /\ ~(bounded /\ st.Hi < r.key) /\ status = "scan"
  BY DEF ReadNext, reading
<1>2. loSide(r.key) /\ (inRange <=> hiSide(r.key)) BY <1>1, CursorLo, InRange
<1>3. PICK k : k = lockKind OBVIOUS
<1>4. /\ st.Lo \in Nat /\ st.Hi \in Nat /\ r.key \in Nat /\ r.key # Open /\ r.del \in BOOLEAN
      /\ st.Eq => st.Lo = st.Hi /\ st.Lo # Open
      /\ st.Lo # Open /\ st.Hi # Open => st.HiIncl /\ (~emptyRange => st.Lo <= st.Hi)
  BY <1>1, StmtType, CursorRec DEF TInv, Indexes, emptyRange
<1>5. uniqueSearch => st.Eq /\ r.key = st.Lo BY <1>1 DEF miss, uniqueSearch
<1>6. alone => r.key = st.Lo BY <1>5 DEF alone
<1>7. k = "rec" => r.key = st.Lo BY <1>3, <1>6 DEF lockKind
<1>8. k = "gap" => r.key = st.Hi /\ ~st.HiIncl BY <1>3, <1>4 DEF lockKind
<1>9. k = "gap" => ~hiSide(r.key) /\ ~uniqueSearch
  BY <1>4, <1>5, <1>8 DEF hiSide
<1>10. r.key = st.Lo /\ ~emptyRange => hiSide(r.key) BY <1>4 DEF hiSide
<1>11. idx.clustered /\ st.Hi # Open /\ ~emptyRange /\ st.Hi < r.key => FALSE
  <2> SUFFICES ASSUME idx.clustered, st.Hi # Open, ~emptyRange, st.Hi < r.key PROVE FALSE OBVIOUS
  <2>1. alone BY <1>1 DEF bounded
  <2> QED BY <1>4, <1>6, <2>1
<1> DEFINE x == lock("idx", leaf, pos, base, k)
<1>12. add(leaf, pos, lockKind) = {x} BY <1>3 DEF add
<1>13. x.kind = k /\ atCursor(x) BY DEF lock, atCursor
<1> HIDE DEF x
<1>14. CASE r.del /\ idx.clustered /\ uniqueSearch /\ stop({x})
  <2>1. status' = "done" /\ out' = out \cup {x} BY <1>14 DEF stop
  <2>2. held BY <1>9, <1>13, <1>14, <2>1 DEF held
  <2> QED BY <1>1, <1>5, <1>11, <1>14, <2>1, <2>2 DEF ReadRight
<1>15. CASE r.del /\ skip({x})
  <2>1. status' = "scan" /\ out' = out \cup {x} BY <1>1, <1>15 DEF skip
  <2> QED BY <1>1, <1>7, <1>8, <1>11, <1>13, <1>15, <2>1 DEF ReadRight
<1>16. CASE ~r.del /\ ~inRange /\ stop({x})
  <2>1. status' = "done" /\ out' = out \cup {x} BY <1>16 DEF stop
  <2>2. k # "rec" \/ emptyRange BY <1>2, <1>7, <1>10, <1>16
  <2> QED BY <1>1, <1>2, <1>11, <1>13, <1>16, <2>1, <2>2 DEF ReadRight
<1>17. CASE ~r.del /\ inRange /\ returned({x}, uniqueSearch)
  <2>1. out' = out \cup {x} \cup rowLocks(r) BY <1>17 DEF returned
  <2>2. held BY <1>2, <1>9, <1>13, <1>17, <2>1 DEF held
  <2>3. status' \notin {"row", "error"} => rowHeldNow
    <3>1. status' \notin {"row", "error"} => ~rowFailed(r) BY <1>17 DEF returned
    <3> QED BY <1>1, <2>1, <3>1, RowLocked DEF rowHeldNow
  <2>4. status' = "done" => uniqueSearch BY <1>1, <1>17 DEF returned
  <2>5. \E l \in out' : /\ atCursor(l)
                        /\ l.kind = "rec" => r.key = st.Lo
                        /\ l.kind = "gap" => r.key = st.Hi /\ ~st.HiIncl
    BY <1>7, <1>8, <1>13, <2>1
  <2> QED BY <1>1, <1>5, <1>11, <1>17, <2>2, <2>3, <2>4, <2>5 DEF ReadRight
<1> QED BY <1>12, <1>14, <1>15, <1>16, <1>17 DEF ReadNext

\* What a step that reads a record leaves: the places passed, and the locks taken.
LEMMA ReadFacts ==
  ASSUME TInv, intact, ScanInv, ReadsRec
  PROVE  /\ status = "scan" /\ running /\ UNCHANGED index
         /\ curNo' = curNo /\ leaf' = leaf /\ leaf = ord.leaves[curNo]
         /\ nLeaves \in Nat /\ curNo \in 1..nLeaves /\ recs = recsOf(curNo)
         /\ pos \in 1..Len(recsOf(curNo)) /\ r = recsOf(curNo)[pos]
         /\ status' = "scan" =>
              \A m, i \in Nat : passed(m, i)' <=> passed(m, i) \/ here(m, i)
         /\ status' # "scan" =>
              \A m, i \in Nat : (passed(m, i)' <=> passed(m, i)) /\ (here(m, i)' <=> here(m, i))
<1>1. status = "scan" /\ running /\ UNCHANGED index /\ reading
  BY DEF ReadsRec, reading, running
<1>2. CursorPlaced BY DEF ScanInv
<1>3. startNo' = startNo /\ startAt' = startAt /\ curNo' = curNo /\ leaf' = leaf
  BY <1>1, Frame DEF curNo, ReadsRec
<1>4. /\ nLeaves \in Nat /\ curNo \in 1..nLeaves /\ recs = recsOf(curNo)
      /\ leaf = ord.leaves[curNo] /\ r = recsOf(curNo)[pos]
  BY <1>1, <1>2, CursorAt
<1>5. pos \in 1..Len(recsOf(curNo)) BY <1>1, <1>4, CursorRec
<1>6. ~before(curNo, pos, startNo, startAt) BY <1>1, <1>2, CursorFrom
<1>7. ASSUME status' = "scan", NEW m \in Nat, NEW i \in Nat
      PROVE  passed(m, i)' <=> passed(m, i) \/ here(m, i)
  <2>1. pos' = pos + 1 BY <1>7 DEF ReadsRec, goesOn
  <2>2. before(m, i, curNo, pos + 1) <=> before(m, i, curNo, pos) \/ here(m, i)
    BY <1>4, <1>5 DEF before, here
  <2>3. passed(m, i)' <=> ~before(m, i, startNo, startAt) /\ before(m, i, curNo, pos + 1)
    BY <1>3, <2>1 DEF passed, before
  <2>4. here(m, i) => ~before(m, i, startNo, startAt) BY <1>6 DEF here
  <2> QED BY <2>2, <2>3, <2>4 DEF passed
<1>8. ASSUME status' # "scan", NEW m \in Nat, NEW i \in Nat
      PROVE  (passed(m, i)' <=> passed(m, i)) /\ (here(m, i)' <=> here(m, i))
  <2>1. pos' = pos BY <1>8 DEF ReadsRec, goesOn
  <2> QED BY <1>3, <2>1 DEF passed, here, before
<1> QED BY <1>1, <1>3, <1>4, <1>5, <1>7, <1>8

LEMMA ReadLocks ==
  ASSUME TInv, ReadsRec
  PROVE  /\ out \subseteq out'
         /\ \A l \in out' \ out :
              /\ l.mode = base
              /\ atCursor(l) \/ (l.ix = "clust" /\ ~idx.clustered)
<1>1. reading BY DEF ReadsRec
<1>2. PICK K \in SUBSET kinds : \E R \in {{}, rowLocks(r)} :
        out' = out \cup {lock("idx", leaf, pos, base, k) : k \in K} \cup R
  BY DEF ReadsRec
<1>3. PICK R \in {{}, rowLocks(r)} :
        out' = out \cup {lock("idx", leaf, pos, base, k) : k \in K} \cup R
  BY <1>2
<1>4. \A l \in R : l.ix = "clust" /\ l.mode = base /\ ~idx.clustered BY <1>1, RowLocked
<1>5. \A l \in {lock("idx", leaf, pos, base, k) : k \in K} : atCursor(l) /\ l.mode = base
  BY DEF lock, atCursor
<1> QED BY <1>3, <1>4, <1>5

LEMMA ReadPlaced ==
  ASSUME TInv, intact, ScanInv, ReadsRec
  PROVE  CursorPlaced'
<1>1. /\ status = "scan" /\ running /\ UNCHANGED index /\ curNo' = curNo /\ leaf' = leaf
      /\ leaf = ord.leaves[curNo] /\ curNo \in 1..nLeaves /\ pos \in 1..Len(recsOf(curNo))
  BY ReadFacts
<1>2. hops \in 0..nLeaves - startNo /\ (hops = 0 => startAt <= pos) BY <1>1 DEF ScanInv, CursorPlaced
<1>3. /\ status' # "descend" /\ hops' = hops /\ pos' \in {pos, pos + 1}
  BY DEF ReadsRec, goesOn
<1>4. recsOf(curNo)' = recsOf(curNo) /\ ord' = ord /\ nLeaves' = nLeaves /\ startNo' = startNo
      /\ startAt' = startAt
  BY <1>1, Frame DEF recsOf
<1>5. Len(recsOf(curNo)) \in Nat BY <1>1, LeavesInOrder
<1>6. pos' \in 1..Len(recsOf(curNo)) + 1 BY <1>1, <1>3, <1>5
<1>7. startAt \in Nat
  <2>1. startNo \in 1..nLeaves /\ startAt \in 1..Len(recsOf(startNo)) + 1 BY Start
  <2> QED BY <2>1
<1>8. hops = 0 => startAt <= pos' BY <1>1, <1>2, <1>3, <1>7
<1> QED BY <1>1, <1>2, <1>3, <1>4, <1>6, <1>8 DEF CursorPlaced

LEMMA ReadLocksBehind ==
  ASSUME TInv, intact, ScanInv, ReadsRec
  PROVE  LocksBehind'
<1>1. /\ status = "scan" /\ running /\ UNCHANGED index /\ curNo' = curNo /\ leaf' = leaf
      /\ nLeaves \in Nat /\ leaf = ord.leaves[curNo] /\ curNo \in 1..nLeaves
      /\ pos \in 1..Len(recsOf(curNo))
      /\ status' = "scan" =>
           \A m, i \in Nat : passed(m, i)' <=> passed(m, i) \/ here(m, i)
      /\ status' # "scan" =>
           \A m, i \in Nat : (passed(m, i)' <=> passed(m, i)) /\ (here(m, i)' <=> here(m, i))
  BY ReadFacts
<1>2. /\ ord' = ord /\ nLeaves' = nLeaves /\ base' = base /\ idx' = idx
      /\ \A m : recsOf(m)' = recsOf(m)
  BY <1>1, Frame
<1> SUFFICES ASSUME running', NEW l \in out'
             PROVE  /\ l.mode = base
                    /\ idx.clustered => l.ix = "idx"
                    /\ l.ix = "idx" => \E m \in 1..nLeaves :
                         /\ l.page = ord.leaves[m] /\ l.at \in 1..Len(recsOf(m)) + 1
                         /\ passed(m, l.at)' \/ (status' = "done" /\ here(m, l.at)')
  BY <1>2 DEF LocksBehind
<1>3. CASE l \in out
  <2>1. l.mode = base /\ (idx.clustered => l.ix = "idx") BY <1>1, <1>3 DEF ScanInv, LocksBehind
  <2>2. ASSUME l.ix = "idx"
        PROVE  \E m \in 1..nLeaves :
                 /\ l.page = ord.leaves[m] /\ l.at \in 1..Len(recsOf(m)) + 1
                 /\ passed(m, l.at)' \/ (status' = "done" /\ here(m, l.at)')
    <3>1. PICK m \in 1..nLeaves :
            l.page = ord.leaves[m] /\ l.at \in 1..Len(recsOf(m)) + 1 /\ passed(m, l.at)
      BY <1>1, <1>3, <2>2 DEF ScanInv, LocksBehind
    <3>2. Len(recsOf(m)) \in Nat BY LeavesInOrder
    <3>3. m \in Nat /\ l.at \in Nat BY <3>1, <3>2
    <3>4. passed(m, l.at)' BY <1>1, <3>1, <3>3
    <3> QED BY <3>1, <3>4
  <2> QED BY <2>1, <2>2
<1>4. CASE l \notin out
  <2>1. l.mode = base /\ (atCursor(l) \/ (l.ix = "clust" /\ ~idx.clustered)) BY <1>4, ReadLocks
  <2>2. CASE atCursor(l)
    <3>1. l.ix = "idx" /\ l.page = ord.leaves[curNo] /\ l.at = pos BY <1>1, <2>2 DEF atCursor
    <3>2. Len(recsOf(curNo)) \in Nat BY <1>1, LeavesInOrder
    <3>3. curNo \in Nat /\ l.at \in Nat /\ l.at \in 1..Len(recsOf(curNo)) + 1 BY <1>1, <3>1, <3>2
    <3>4. here(curNo, l.at) BY <3>1 DEF here
    <3>5. PICK m : m = curNo OBVIOUS
    <3>6. m \in 1..nLeaves /\ m \in Nat /\ here(m, l.at) /\ l.page = ord.leaves[m]
          /\ l.at \in 1..Len(recsOf(m)) + 1
      BY <1>1, <3>1, <3>3, <3>4, <3>5
    <3>7. passed(m, l.at)' \/ (status' = "done" /\ here(m, l.at)')
      <4>1. CASE status' = "scan" BY <1>1, <3>3, <3>6, <4>1
      <4>2. CASE status' = "done" BY <1>1, <3>3, <3>6, <4>2
      <4> QED BY <4>1, <4>2 DEF running
    <3> QED BY <2>1, <3>1, <3>6, <3>7
  <2>3. CASE ~atCursor(l) BY <2>1, <2>3
  <2> QED BY <2>2, <2>3
<1> QED BY <1>3, <1>4

LEMMA ReadReadBehind ==
  ASSUME TInv, intact, ScanInv, ReadsRec
  PROVE  ReadBehind'
<1>1. /\ status = "scan" /\ running /\ UNCHANGED index
      /\ nLeaves \in Nat /\ curNo \in 1..nLeaves
      /\ pos \in 1..Len(recsOf(curNo)) /\ r = recsOf(curNo)[pos]
      /\ status' = "scan" =>
           \A m, i \in Nat : passed(m, i)' <=> passed(m, i) \/ here(m, i)
  BY ReadFacts
<1>2. /\ nLeaves' = nLeaves /\ idx' = idx /\ st' = st
      /\ \A m : recsOf(m)' = recsOf(m)
  BY <1>1, Frame
<1> SUFFICES ASSUME status' = "scan"
             PROVE  /\ prev' # None => \E m \in 1..nLeaves : \E i \in 1..Len(recsOf(m)) :
                                         passed(m, i)' /\ recsOf(m)[i] = prev'
                    /\ stopFound' => /\ idx.clustered /\ (st.HiIncl => idx.NKey = 1)
                                     /\ \E m \in 1..nLeaves : \E i \in 1..Len(recsOf(m)) :
                                          passed(m, i)' /\ recsOf(m)[i].key = st.Hi
  BY <1>2 DEF ReadBehind
<1>3. \A m \in 1..nLeaves : \A i \in 1..Len(recsOf(m)) :
        passed(m, i) \/ here(m, i) => passed(m, i)'
  BY <1>1
<1>4. PICK m \in 1..nLeaves : m = curNo BY <1>1
<1>5. PICK i \in 1..Len(recsOf(m)) : i = pos BY <1>1, <1>4
<1>6. passed(m, i)' /\ recsOf(m)[i] = r BY <1>1, <1>3, <1>4, <1>5 DEF here
<1>7. ReadBehind BY DEF ScanInv
<1>8. ASSUME prev' # None
      PROVE  \E n \in 1..nLeaves : \E j \in 1..Len(recsOf(n)) :
               passed(n, j)' /\ recsOf(n)[j] = prev'
  <2>1. prev' = prev \/ prev' = r BY DEF ReadsRec
  <2>2. CASE prev' = prev BY <1>1, <1>3, <1>7, <1>8, <2>2 DEF ReadBehind
  <2>3. CASE prev' = r BY <1>6, <2>3
  <2> QED BY <2>1, <2>2, <2>3
<1>9. ASSUME stopFound'
      PROVE  /\ idx.clustered /\ (st.HiIncl => idx.NKey = 1)
             /\ \E n \in 1..nLeaves : \E j \in 1..Len(recsOf(n)) :
                  passed(n, j)' /\ recsOf(n)[j].key = st.Hi
  <2>1. stopFound \/ seesStop BY <1>9 DEF ReadsRec
  <2>2. CASE stopFound BY <1>1, <1>3, <1>7, <2>2 DEF ReadBehind
  <2>3. CASE seesStop
    <3>1. idx.clustered /\ (st.HiIncl => idx.NKey = 1) /\ r.key = st.Hi
      BY <2>3 DEF seesStop, bounded
    <3> QED BY <1>6, <3>1
  <2> QED BY <2>1, <2>2, <2>3
<1> QED BY <1>8, <1>9

LEMMA ReadPrevLast ==
  ASSUME TInv, intact, ScanInv, ReadsRec
  PROVE  PrevLast'
<1>1. /\ UNCHANGED index /\ nLeaves \in Nat /\ curNo \in 1..nLeaves
      /\ pos \in 1..Len(recsOf(curNo)) /\ r = recsOf(curNo)[pos]
      /\ status' = "scan" =>
           \A m, i \in Nat : passed(m, i)' <=> passed(m, i) \/ here(m, i)
  BY ReadFacts
<1>2. nLeaves' = nLeaves /\ \A m : recsOf(m)' = recsOf(m) BY <1>1, Frame
<1> SUFFICES ASSUME status' = "scan", NEW m \in 1..nLeaves, NEW i \in 1..Len(recsOf(m)), passed(m, i)'
             PROVE  r # None /\ recsOf(m)[i].key <= r.key
  <2>1. prev' = r \/ status' # "scan" BY DEF ReadsRec
  <2> QED BY <1>2, <2>1 DEF PrevLast
<1>3. r \in Rec BY <1>1, RecKey
<1>4. r # None BY <1>3, LockScanAssumption
<1>5. passed(m, i) \/ here(m, i) BY <1>1
<1>6. CASE passed(m, i)
  <2>1. before(m, i, curNo, pos) BY <1>6 DEF passed
  <2> QED BY <1>1, <1>4, <2>1, KeysInOrder
<1>7. CASE here(m, i)
  <2>1. recsOf(m)[i] = r /\ r.key \in Nat BY <1>1, <1>7, RecKey DEF here
  <2> QED BY <1>4, <2>1
<1> QED BY <1>5, <1>6, <1>7

LEMMA ReadRowsBehind ==
  ASSUME TInv, intact, ScanInv, ReadsRec, ReadRight
  PROVE  RowsBehind'
<1>1. /\ status = "scan" /\ running /\ UNCHANGED index /\ curNo' = curNo
      /\ nLeaves \in Nat /\ curNo \in 1..nLeaves
      /\ pos \in 1..Len(recsOf(curNo)) /\ r = recsOf(curNo)[pos] /\ leaf = ord.leaves[curNo]
      /\ status' = "scan" =>
           \A m, i \in Nat : passed(m, i)' <=> passed(m, i) \/ here(m, i)
      /\ status' # "scan" =>
           \A m, i \in Nat : (passed(m, i)' <=> passed(m, i)) /\ (here(m, i)' <=> here(m, i))
  BY ReadFacts
<1>2. /\ ord' = ord /\ nLeaves' = nLeaves /\ idx' = idx /\ tree' = tree /\ clust' = clust
      /\ \A m : recsOf(m)' = recsOf(m)
      /\ \A k : matches(k)' = matches(k)
  BY <1>1, Frame
<1>3. out \subseteq out' BY ReadLocks
<1> SUFFICES ASSUME running', NEW m \in 1..nLeaves, NEW i \in 1..Len(recsOf(m)),
                    passed(m, i)', ~recsOf(m)[i].del, matches(recsOf(m)[i].key)
             PROVE  recHeld(m, i)' /\ rowHeld(recsOf(m)[i])'
  BY <1>2 DEF RowsBehind
<1>4. CASE passed(m, i)
  <2>1. recHeld(m, i) /\ rowHeld(recsOf(m)[i]) BY <1>1, <1>4 DEF ScanInv, RowsBehind
  <2>2. recHeld(m, i)' BY <1>2, <1>3, <2>1 DEF recHeld, locksOn
  <2>3. rowHeld(recsOf(m)[i])' BY <1>2, <1>3, <2>1 DEF rowHeld
  <2> QED BY <2>2, <2>3
<1>5. CASE ~passed(m, i)
  <2>1. status' = "scan" /\ here(m, i) BY <1>1, <1>5 DEF running
  <2>2. m = curNo /\ i = pos /\ r = recsOf(m)[i] BY <1>1, <2>1 DEF here
  <2>3. held /\ rowHeldNow BY <2>1, <2>2 DEF ReadRight
  <2>4. recHeld(m, i)'
    <3>1. PICK l \in out' : atCursor(l) /\ l.kind # "gap" BY <2>3 DEF held
    <3>2. l.page = ord.leaves[m] /\ l.at = i /\ l.ix = "idx" BY <1>1, <2>2, <3>1 DEF atCursor
    <3> QED BY <1>2, <3>1, <3>2 DEF recHeld, locksOn
  <2>5. rowHeld(recsOf(m)[i])' BY <1>2, <2>2, <2>3 DEF rowHeld, rowHeldNow
  <2> QED BY <2>4, <2>5
<1> QED BY <1>4, <1>5

LEMMA ReadAllBehind ==
  ASSUME TInv, intact, ScanInv, ReadsRec, ReadRight
  PROVE  AllBehind'
<1>1. /\ status = "scan" /\ running /\ UNCHANGED index /\ curNo' = curNo
      /\ nLeaves \in Nat /\ curNo \in 1..nLeaves
      /\ pos \in 1..Len(recsOf(curNo)) /\ r = recsOf(curNo)[pos] /\ leaf = ord.leaves[curNo]
      /\ status' = "scan" =>
           \A m, i \in Nat : passed(m, i)' <=> passed(m, i) \/ here(m, i)
      /\ status' # "scan" =>
           \A m, i \in Nat : (passed(m, i)' <=> passed(m, i)) /\ (here(m, i)' <=> here(m, i))
  BY ReadFacts
<1>2. /\ ord' = ord /\ nLeaves' = nLeaves /\ st' = st
      /\ \A m : recsOf(m)' = recsOf(m)
  BY <1>1, Frame
<1>3. out \subseteq out' BY ReadLocks
<1> DEFINE right(l, m, i) ==
      /\ i = Len(recsOf(m)) + 1 => l.kind = "ordinary"
      /\ i <= Len(recsOf(m)) =>
           /\ l.kind = "rec" => recsOf(m)[i].key = st.Lo
           /\ l.kind = "gap" => recsOf(m)[i].key = st.Hi /\ ~st.HiIncl
<1> SUFFICES ASSUME running', ~st.RC, NEW m \in 1..nLeaves, NEW i \in 1..Len(recsOf(m)) + 1,
                    passed(m, i)'
             PROVE  \E l \in out' : l.ix = "idx" /\ l.page = ord.leaves[m] /\ l.at = i /\ right(l, m, i)
  BY <1>2 DEF AllBehind, locksOn
<1>4. Len(recsOf(m)) \in Nat BY LeavesInOrder
<1>5. CASE passed(m, i)
  <2>1. PICK l \in locksOn(ord.leaves[m], i) : right(l, m, i) BY <1>1, <1>5 DEF ScanInv, AllBehind
  <2> QED BY <1>3, <2>1 DEF locksOn
<1>6. CASE ~passed(m, i)
  <2>1. status' = "scan" /\ here(m, i) BY <1>1, <1>4, <1>6 DEF running
  <2>2. m = curNo /\ i = pos /\ r = recsOf(m)[i] /\ i # Len(recsOf(m)) + 1
    BY <1>1, <1>4, <2>1 DEF here
  <2>3. PICK l \in out' : /\ atCursor(l)
                          /\ l.kind = "rec" => r.key = st.Lo
                          /\ l.kind = "gap" => r.key = st.Hi /\ ~st.HiIncl
    BY <2>1 DEF ReadRight
  <2>4. right(l, m, i) BY <2>2, <2>3
  <2>5. l.ix = "idx" /\ l.page = ord.leaves[m] /\ l.at = i BY <1>1, <2>2, <2>3 DEF atCursor
  <2> QED BY <2>4, <2>5
<1> QED BY <1>5, <1>6

LEMMA ReadPastIsLast ==
  ASSUME TInv, intact, ScanInv, ReadsRec, ReadRight
  PROVE  PastIsLast'
<1>1. status = "scan" /\ UNCHANGED index /\ leaf' = leaf BY ReadFacts
<1>2. tree' = tree /\ idx' = idx /\ st' = st BY <1>1, Frame
<1> SUFFICES ASSUME idx.clustered, st.Hi # Open, ~st.RC, ~emptyRange, NEW l \in out',
                    l.at <= Len(tree[l.page].recs), st.Hi < tree[l.page].recs[l.at].key
             PROVE  l.kind = "gap" /\ status' = "done" /\ l.page = leaf' /\ l.at = pos'
  BY <1>2 DEF PastIsLast, emptyRange
<1>3. l \notin out BY <1>1 DEF ScanInv, PastIsLast
<1>4. atCursor(l) BY <1>3, ReadLocks
<1>5. l.ix = "idx" /\ l.page = leaf /\ l.at = pos /\ tree[l.page].recs[l.at] = r
  BY <1>4 DEF atCursor, r, recs
<1>6. l.kind = "gap" /\ status' = "done" BY <1>3, <1>5 DEF ReadRight
<1>7. pos' = pos BY <1>6 DEF ReadsRec, goesOn
<1> QED BY <1>1, <1>5, <1>6, <1>7

LEMMA ReadCommittedAlone ==
  ASSUME TInv, intact, ScanInv, ReadsRec, ReadRight
  PROVE  CommittedAlone'
<1>1. /\ UNCHANGED index /\ recs = recsOf(curNo) /\ pos \in 1..Len(recsOf(curNo)) BY ReadFacts
<1>2. tree' = tree /\ st' = st /\ \A k : matches(k)' = matches(k) BY <1>1, Frame
<1> SUFFICES ASSUME st.RC, NEW l \in out', l.ix = "idx"
             PROVE  /\ l.kind = "rec" /\ l.at <= Len(tree[l.page].recs)
                    /\ ~tree[l.page].recs[l.at].del /\ matches(tree[l.page].recs[l.at].key)
  BY <1>2 DEF CommittedAlone
<1>3. CASE l \in out BY <1>3 DEF ScanInv, CommittedAlone
<1>4. CASE l \notin out
  <2>1. atCursor(l) BY <1>4, ReadLocks
  <2>2. tree[l.page].recs = recs /\ l.at = pos /\ recs[l.at] = r BY <2>1 DEF atCursor, r, recs
  <2>3. l.kind = "rec" /\ ~r.del /\ matches(r.key) BY <1>4 DEF ReadRight
  <2>4. pos <= Len(recs) BY <1>1
  <2> QED BY <2>2, <2>3, <2>4
<1> QED BY <1>3, <1>4

LEMMA ReadSupremum ==
  ASSUME TInv, intact, ScanInv, ReadsRec
  PROVE  SupremumInRange'
<1>1. UNCHANGED index /\ recs = recsOf(curNo) /\ pos \in 1..Len(recsOf(curNo)) BY ReadFacts
<1>2. tree' = tree /\ st' = st BY <1>1, Frame
<1> SUFFICES ASSUME st.Hi # Open, ~emptyRange,
                    NEW l \in out', l.ix = "idx", l.at > Len(tree[l.page].recs)
             PROVE  \A i \in 1..Len(tree[l.page].recs) : ~pastHi(tree[l.page].recs[i])
  BY <1>2 DEF SupremumInRange, emptyRange, pastHi
<1>3. CASE l \in out BY <1>3 DEF ScanInv, SupremumInRange
<1>4. CASE l \notin out
  <2>1. l.page = leaf /\ l.at = pos BY <1>4, ReadLocks DEF atCursor
  <2>2. pos \in 1..Len(recs) BY <1>1
  <2>3. l.at <= Len(tree[l.page].recs) /\ l.at > Len(tree[l.page].recs) /\ l.at \in Nat
        /\ Len(tree[l.page].recs) \in Nat
    <3>1. Len(recsOf(curNo)) \in Nat
      <4>1. curNo \in 1..nLeaves BY ReadFacts
      <4> QED BY <4>1, LeavesInOrder
    <3> QED BY <1>1, <2>1, <2>2, <3>1 DEF recs
  <2> QED BY <2>3
<1> QED BY <1>3, <1>4

LEMMA ReadEnded ==
  ASSUME TInv, intact, ScanInv, ReadsRec, ReadRight
  PROVE  Ended'
<1> SUFFICES ASSUME status' = "done" PROVE (AtBound \/ BehindStop \/ AtKey)'
  BY DEF Ended
<1>1. /\ status = "scan" /\ UNCHANGED index /\ curNo' = curNo /\ leaf' = leaf
      /\ nLeaves \in Nat /\ curNo \in 1..nLeaves /\ leaf = ord.leaves[curNo] /\ recs = recsOf(curNo)
      /\ pos \in 1..Len(recsOf(curNo)) /\ r = recsOf(curNo)[pos]
      /\ \A m, i \in Nat : passed(m, i)' <=> passed(m, i)
  BY ReadFacts
<1>2. /\ ord' = ord /\ nLeaves' = nLeaves /\ tree' = tree /\ idx' = idx /\ st' = st
      /\ clust' = clust
      /\ \A m : recsOf(m)' = recsOf(m)
      /\ \A k : hiSide(k)' = hiSide(k)
  BY <1>1, Frame
<1>3. pos' = pos /\ recs' = recs /\ r' = r
  <2>1. pos' = pos BY DEF ReadsRec, goesOn
  <2>2. recs' = recs BY <1>1, <1>2 DEF recs
  <2> QED BY <2>1, <2>2 DEF r
<1>4. pos <= Len(recs) BY <1>1
<1>5. hiSide(r.key)' = hiSide(r.key) BY <1>2, <1>3
<1>6. uniqueSearch' = uniqueSearch BY <1>2 DEF uniqueSearch
<1>7. CASE ~hiSide(r.key) /\ (st.RC \/ emptyRange \/ \E l \in out' : atCursor(l) /\ l.kind # "rec")
  <2>1. st.RC \/ emptyRange \/ \E l \in locksOn(leaf, pos)' : l.kind # "rec"
    BY <1>1, <1>3, <1>7 DEF locksOn, atCursor
  <2> QED BY <1>2, <1>3, <1>4, <1>5, <1>7, <2>1 DEF AtBound, emptyRange
<1>8. CASE ~hiSide(r.key) /\ stopFound
  <2>1. /\ idx.clustered /\ (st.HiIncl => idx.NKey = 1)
        /\ \E m \in 1..nLeaves : \E i \in 1..Len(recsOf(m)) :
             passed(m, i) /\ recsOf(m)[i].key = st.Hi
    BY <1>1, <1>8 DEF ScanInv, ReadBehind
  <2>2. \E m \in 1..nLeaves : \E i \in 1..Len(recsOf(m)) :
          passed(m, i)' /\ recsOf(m)[i].key = st.Hi
    BY <1>1, <2>1
  <2>3. \E m \in 1..nLeaves' : \E i \in 1..Len(recsOf(m)') :
          passed(m, i)' /\ recsOf(m)'[i].key = st'.Hi
    BY <1>2, <2>2
  <2> QED BY <1>2, <1>3, <1>4, <1>5, <1>8, <2>1, <2>3 DEF BehindStop
<1>9. CASE /\ uniqueSearch /\ r.key = st.Lo /\ (r.del => idx.clustered)
           /\ held \/ (st.RC /\ r.del)
           /\ ~r.del => rowHeldNow
  <2>1. held => recHeld(curNo, pos)'
    <3> SUFFICES ASSUME held PROVE recHeld(curNo, pos)' OBVIOUS
    <3>1. PICK l \in out' : atCursor(l) /\ l.kind # "gap" BY DEF held
    <3>2. l \in locksOn(ord.leaves[curNo], pos)' BY <1>1, <1>2, <1>3, <3>1 DEF locksOn, atCursor
    <3> QED BY <3>1, <3>2 DEF recHeld
  <2>2. rowHeldNow => rowHeld(r)' BY <1>2, <1>3 DEF rowHeld, rowHeldNow
  <2> QED BY <1>2, <1>3, <1>4, <1>6, <1>9, <2>1, <2>2 DEF AtKey
<1>10. \/ ~hiSide(r.key) /\ (st.RC \/ emptyRange \/ \E l \in out' : atCursor(l) /\ l.kind # "rec")
       \/ ~hiSide(r.key) /\ stopFound
       \/ /\ uniqueSearch /\ r.key = st.Lo /\ (r.del => idx.clustered)
          /\ held \/ (st.RC /\ r.del)
          /\ ~r.del => rowHeldNow
  BY DEF ReadRight
<1> QED BY <1>7, <1>8, <1>9, <1>10

LEMMA ReadKeeps ==
  ASSUME TInv, intact, ScanInv, ReadMiss \/ ReadCommitted \/ ReadPast \/ ReadNext
  PROVE  ScanInv'
<1>1. CursorPlaced BY DEF ScanInv
<1>2. ReadRight BY <1>1, MissRight, CommittedRight, PastRight, NextRight
<1>3. ReadsRec BY ReadStep
<1> QED BY <1>2, <1>3, ReadPlaced, ReadLocksBehind, ReadReadBehind, ReadPrevLast, ReadRowsBehind,
           ReadAllBehind, ReadPastIsLast, ReadEnded, ReadCommittedAlone, ReadSupremum DEF ScanInv

\* Until the search opens there is nothing the invariant speaks of.
LEMMA NotYet ==
  ASSUME ScanInv, status = "descend", UNCHANGED <<index, prev, stopFound, hops, out>>,
         status' \in {"descend", "error"}
  PROVE  ScanInv'
<1>1. hops = 0 /\ out = {} /\ prev = None /\ ~stopFound BY DEF ScanInv, CursorPlaced
<1>2. ~running' BY DEF running
<1> QED BY <1>1, <1>2 DEF ScanInv, CursorPlaced, LocksBehind, ReadBehind, PrevLast, RowsBehind, AllBehind,
           PastIsLast, Ended, CommittedAlone, SupremumInRange, running

\* On a tree in order the way down ends on the leaf where the search starts.
LEMMA DescendEnds ==
  ASSUME TInv, intact, Descend
  PROVE  /\ status' # "error"
         /\ status' = "scan" => leaf' = start /\ pos' = startAt
<1>1. /\ tree \in Tree /\ st.Lo \in Nat /\ st.LoIncl \in BOOLEAN
      /\ depth \in 0..maxTreeHeight - 1 /\ leaf = walk(tree, st.Lo, st.LoIncl)[depth]
  BY StmtType DEF TInv, Indexes, TypeOK, CursorInv, Descend
<1>2. tree[start].level = 0 BY Start
<1>3. ASSUME tree[leaf].level = 0 \/ tree[leaf].recs = <<>> \/ depth = maxTreeHeight - 1
      PROVE  leaf = start
  BY <1>1, <1>3, WalkEnds DEF start
<1>4. maxTreeHeight \in Nat /\ depth \in Nat /\ depth <= maxTreeHeight - 1
  BY <1>1, BTreeAssumption
<1>5. status' # "error"
  <2> SUFFICES ASSUME status' = "error" PROVE FALSE OBVIOUS
  <2>1. tree[leaf].level # 0 /\ (recs = <<>> \/ deeper >= maxTreeHeight) BY DEF Descend
  <2>2. tree[leaf].recs = <<>> \/ depth = maxTreeHeight - 1 BY <1>4, <2>1 DEF recs, deeper
  <2> QED BY <1>2, <1>3, <2>1, <2>2
<1>6. ASSUME status' = "scan" PROVE leaf' = start /\ pos' = startAt
  <2>1. /\ tree[leaf].level = 0 /\ leaf' = leaf
        /\ pos' = openPast(tree[leaf], lowerBound(tree[leaf].recs, st.Lo))
    BY <1>6 DEF Descend, recs
  <2> QED BY <1>3, <2>1 DEF startAt
<1> QED BY <1>5, <1>6

\* The search opens at the first record that is not below the lower bound.
LEMMA DescendKeeps ==
  ASSUME TInv, intact, ScanInv, Descend
  PROVE  ScanInv'
<1>1. /\ startNo \in 1..nLeaves /\ ord.leaves[startNo] = start /\ tree[start].level = 0
      /\ startAt \in 1..Len(recsOf(startNo)) + 1
  BY Start
<1>2. nLeaves \in Nat /\ Len(recsOf(startNo)) \in Nat BY <1>1, LeavesInOrder
<1>3. status = "descend" /\ UNCHANGED <<index, prev, first, stopFound, hops, out>>
      /\ status' \in {"scan", "descend", "error"}
  BY DEF Descend
<1> SUFFICES ASSUME status' = "scan" PROVE ScanInv' BY <1>3, NotYet
<1>4. leaf' = start /\ pos' = startAt BY DescendEnds
<1>5. hops = 0 /\ out = {} /\ prev = None /\ ~stopFound BY <1>3 DEF ScanInv, CursorPlaced
<1>6. /\ ord' = ord /\ nLeaves' = nLeaves /\ startNo' = startNo /\ startAt' = startAt
      /\ st' = st /\ \A m : recsOf(m)' = recsOf(m)
  BY <1>3, Frame
<1>7. curNo' = startNo BY <1>1, <1>3, <1>5, <1>6 DEF curNo
<1>8. ASSUME NEW m, NEW i PROVE ~passed(m, i)' BY <1>4, <1>6, <1>7 DEF passed, before
<1>9. CursorPlaced'
  <2>1. 0 \in 0..nLeaves - startNo /\ startAt <= startAt BY <1>1, <1>2
  <2>2. (leaf = ord.leaves[curNo])' BY <1>1, <1>4, <1>6, <1>7
  <2>3. (pos \in 1..Len(recsOf(curNo)) + 1)' BY <1>1, <1>4, <1>6, <1>7 DEF recsOf
  <2> QED BY <1>3, <1>4, <1>5, <1>6, <2>1, <2>2, <2>3 DEF CursorPlaced
<1>10. LocksBehind' /\ PastIsLast' /\ CommittedAlone' /\ SupremumInRange'
  BY <1>3, <1>5 DEF LocksBehind, PastIsLast, CommittedAlone, SupremumInRange
<1>11. ReadBehind' BY <1>3, <1>5 DEF ReadBehind
<1>12. RowsBehind' /\ AllBehind' /\ PrevLast' BY <1>8 DEF RowsBehind, AllBehind, PrevLast
<1>13. Ended' BY <1>4 DEF Ended
<1> QED BY <1>9, <1>10, <1>11, <1>12, <1>13 DEF ScanInv

\* Searching on for a row neither ends the statement nor locks anything.
LEMMA RowRunKeeps ==
  ASSUME ScanInv, RowRunOn
  PROVE  ScanInv'
<1>1. UNCHANGED <<index, cursor, out>> /\ status = "row" /\ status' \in {"row", "error"} BY DEF RowRunOn
<1>2. tree' = tree /\ idx' = idx /\ st' = st BY <1>1 DEF index
<1>3. PastIsLast' BY <1>1, <1>2 DEF ScanInv, PastIsLast, emptyRange
<1>4. CommittedAlone'
  <2>1. \A k : matches(k)' = matches(k) BY <1>2 DEF matches
  <2> QED BY <1>1, <1>2, <2>1 DEF ScanInv, CommittedAlone
<1>5. SupremumInRange' BY <1>1, <1>2 DEF ScanInv, SupremumInRange, emptyRange, pastHi
<1>6. ~running' /\ status' \notin {"scan", "done", "descend"} BY <1>1 DEF running
<1> QED BY <1>3, <1>4, <1>5, <1>6 DEF ScanInv, CursorPlaced, LocksBehind, ReadBehind, PrevLast, RowsBehind,
           AllBehind, Ended

\* What the end of a leaf leaves: the places passed, and the lock on its supremum.
LEMMA RunOffFacts ==
  ASSUME TInv, intact, ScanInv, RunOff
  PROVE  /\ status = "scan" /\ running /\ UNCHANGED <<index, prev, stopFound>>
         /\ status' \in {"scan", "done", "error"}
         /\ nLeaves \in Nat /\ curNo \in 1..nLeaves /\ leaf = ord.leaves[curNo]
         /\ recs = recsOf(curNo) /\ Len(recs) \in Nat /\ pos = Len(recs) + 1
         /\ out \subseteq out'
         /\ \A l \in out' \ out : /\ atCursor(l) /\ l.mode = base /\ l.kind = "ordinary"
                                 /\ ~st.RC /\ ~readPast
         /\ status' = "scan" =>
              /\ curNo # nLeaves /\ curNo' = curNo + 1 /\ leaf' = ord.leaves[curNo + 1]
              /\ pos' = 1 /\ hops' = hops + 1
              /\ ~st.RC => \E l \in out' : atCursor(l) /\ l.kind = "ordinary"
              /\ \A m \in 1..nLeaves : \A i \in 1..Len(recsOf(m)) + 1 :
                   passed(m, i)' <=> passed(m, i) \/ here(m, i)
         /\ status' = "done" =>
              /\ curNo' = curNo /\ leaf' = leaf /\ pos' = pos /\ hops' = hops
              /\ \/ prev # None /\ st.Hi # Open /\ pastHi(prev)
                 \/ /\ curNo = nLeaves
                    /\ ~st.RC => \E l \in out' : atCursor(l) /\ l.kind = "ordinary"
              /\ \A m, i \in Nat : (passed(m, i)' <=> passed(m, i)) /\ (here(m, i)' <=> here(m, i))
<1>1. status = "scan" /\ running /\ UNCHANGED <<index, prev, stopFound>> /\ pos > Len(recs)
  BY DEF RunOff, running
<1>2. CursorPlaced BY DEF ScanInv
<1>3. /\ nLeaves \in Nat /\ curNo \in 1..nLeaves /\ leaf = ord.leaves[curNo] /\ recs = recsOf(curNo)
      /\ Len(recs) \in Nat /\ pos \in 1..Len(recs) + 1 /\ hops \in Nat /\ startNo \in 1..nLeaves
  BY <1>1, <1>2, CursorAt
<1>4. pos = Len(recs) + 1 BY <1>1, <1>3
<1>5. startNo' = startNo /\ startAt' = startAt BY <1>1, Frame
<1>6. ~before(curNo, pos, startNo, startAt) BY <1>1, <1>2, CursorFrom
<1>7. tree[leaf].next = IF curNo = nLeaves THEN Nil ELSE ord.leaves[curNo + 1]
  BY <1>3, LeavesInOrder
<1>8. curNo # nLeaves => tree[leaf].next # Nil
  <2> SUFFICES ASSUME curNo # nLeaves PROVE tree[leaf].next # Nil OBVIOUS
  <2>1. curNo + 1 \in 1..nLeaves BY <1>3
  <2>2. ord.leaves[curNo + 1] \in PageNo BY <2>1, LeavesInOrder
  <2> QED BY <1>7, <2>2, BTreeAssumption
<1> DEFINE x == lock("idx", leaf, pos, base, "ordinary")
           none == /\ ~st.RC /\ prev # None /\ st.Hi # Open /\ pastHi(prev)
                   /\ status' = "done" /\ UNCHANGED <<leaf, pos, hops, out>>
           some == out' = IF st.RC THEN out ELSE out \cup {x}
<1>9. atCursor(x) /\ x.mode = base /\ x.kind = "ordinary" BY DEF atCursor, lock
<1>10. add(leaf, Len(recs) + 1, "ordinary") = {x} BY <1>4 DEF add
<1>11. \/ none
       \/ some /\ tree[leaf].next = Nil /\ status' = "done" /\ UNCHANGED <<leaf, pos, hops>>
       \/ some /\ status' = "error"
       \/ some /\ tree[leaf].next # Nil /\ leaf' = tree[leaf].next /\ pos' = 1 /\ hops' = hops + 1
            /\ status' = "scan"
  BY <1>1, <1>10 DEF RunOff, hop, readPast
<1> HIDE DEF x
<1>12. /\ status' \in {"scan", "done", "error"} /\ out \subseteq out'
       /\ \A l \in out' \ out : /\ atCursor(l) /\ l.mode = base /\ l.kind = "ordinary"
                               /\ ~st.RC /\ ~readPast
  <2>1. ~st.RC /\ readPast => out' = out BY DEF RunOff
  <2> QED BY <1>9, <1>11, <2>1
<1>13. ASSUME status' = "scan"
       PROVE  /\ curNo # nLeaves /\ curNo' = curNo + 1 /\ leaf' = ord.leaves[curNo + 1]
              /\ pos' = 1 /\ hops' = hops + 1
              /\ ~st.RC => \E l \in out' : atCursor(l) /\ l.kind = "ordinary"
              /\ \A m \in 1..nLeaves : \A i \in 1..Len(recsOf(m)) + 1 :
                   passed(m, i)' <=> passed(m, i) \/ here(m, i)
  <2>1. /\ some /\ tree[leaf].next # Nil /\ leaf' = tree[leaf].next
        /\ pos' = 1 /\ hops' = hops + 1
    BY <1>11, <1>13
  <2>2. curNo # nLeaves /\ leaf' = ord.leaves[curNo + 1] BY <1>7, <2>1
  <2>3. curNo' = curNo + 1 BY <1>3, <1>5, <2>1 DEF curNo
  <2>4. ~st.RC => \E l \in out' : atCursor(l) /\ l.kind = "ordinary" BY <1>9, <2>1
  <2>5. ASSUME NEW m \in 1..nLeaves, NEW i \in 1..Len(recsOf(m)) + 1
        PROVE  passed(m, i)' <=> passed(m, i) \/ here(m, i)
    <3>1. passed(m, i)' <=> ~before(m, i, startNo, startAt) /\ before(m, i, curNo + 1, 1)
      BY <1>5, <2>1, <2>3 DEF passed, before
    <3>2. before(m, i, curNo + 1, 1) <=> before(m, i, curNo, pos) \/ here(m, i)
      <4>1. Len(recsOf(m)) \in Nat /\ (m = curNo => i <= pos) BY <1>3, <1>4, LeavesInOrder
      <4> QED BY <1>3, <4>1 DEF before, here
    <3>3. here(m, i) => ~before(m, i, startNo, startAt) BY <1>6 DEF here
    <3> QED BY <3>1, <3>2, <3>3 DEF passed
  <2> QED BY <2>1, <2>2, <2>3, <2>4, <2>5
<1>14. ASSUME status' = "done"
       PROVE  /\ curNo' = curNo /\ leaf' = leaf /\ pos' = pos /\ hops' = hops
              /\ \/ prev # None /\ st.Hi # Open /\ pastHi(prev)
                 \/ /\ curNo = nLeaves
                    /\ ~st.RC => \E l \in out' : atCursor(l) /\ l.kind = "ordinary"
              /\ \A m, i \in Nat : (passed(m, i)' <=> passed(m, i)) /\ (here(m, i)' <=> here(m, i))
  <2>1. leaf' = leaf /\ pos' = pos /\ hops' = hops BY <1>11, <1>14
  <2>2. curNo' = curNo BY <1>5, <2>1 DEF curNo
  <2>3. \/ prev # None /\ st.Hi # Open /\ pastHi(prev)
        \/ /\ curNo = nLeaves
           /\ ~st.RC => \E l \in out' : atCursor(l) /\ l.kind = "ordinary"
    BY <1>8, <1>9, <1>11, <1>14
  <2>4. \A m, i : (passed(m, i)' <=> passed(m, i)) /\ (here(m, i)' <=> here(m, i))
    BY <1>5, <2>1, <2>2 DEF passed, here, before
  <2> QED BY <2>1, <2>2, <2>3, <2>4
<1> QED BY <1>1, <1>3, <1>4, <1>12, <1>13, <1>14

\* Unless the last record read is past the upper bound none of its page is.
LEMMA ReadInRange ==
  ASSUME TInv, intact, ScanInv, status = "scan", curNo \in 1..nLeaves, pos = Len(recsOf(curNo)) + 1,
         st.Hi # Open, ~emptyRange, ~readPast,
         NEW i \in 1..Len(recsOf(curNo))
  PROVE  ~pastHi(recsOf(curNo)[i])
<1>1. PICK m \in 1..nLeaves : m = curNo OBVIOUS
<1>2. recsOf(m)[i].key \in Nat /\ Len(recsOf(m)) \in Nat /\ nLeaves \in Nat BY <1>1, RecKey, LeavesInOrder
<1>3. st.Hi \in Nat /\ st.Lo \in Nat /\ (st.Lo # Open => st.LoIncl /\ st.HiIncl)
  BY StmtType DEF TInv, Indexes
<1>4. before(m, i, curNo, pos) BY <1>1, <1>2 DEF before
<1>5. CASE passed(m, i)
  <2>1. prev # None /\ recsOf(m)[i].key <= prev.key BY <1>1, <1>5 DEF ScanInv, PrevLast
  <2>2. prev.key \in Nat
    <3>1. prev \in Rec \cup NodePtr BY <2>1 DEF TInv, TypeOK
    <3>2. prev.key \in Key BY <3>1 DEF Rec, NodePtr
    <3> QED BY <3>2, BTreeAssumption
  <2>3. ~pastHi(prev) BY <2>1 DEF readPast
  <2> QED BY <1>1, <1>2, <1>3, <2>1, <2>2, <2>3 DEF pastHi
<1>6. CASE ~passed(m, i)
  <2>1. before(m, i, startNo, startAt) BY <1>4, <1>6 DEF passed
  <2>2. ~loSide(recsOf(m)[i].key) BY <1>1, <2>1, StartBelow
  <2>3. st.Lo # Open /\ recsOf(m)[i].key < st.Lo BY <1>2, <1>3, <2>2 DEF loSide
  <2>4. st.Lo <= st.Hi BY <1>3, <2>3 DEF emptyRange
  <2> QED BY <1>1, <1>2, <1>3, <2>3, <2>4 DEF pastHi
<1> QED BY <1>5, <1>6

LEMMA RunOffKeeps ==
  ASSUME TInv, intact, ScanInv, RunOff
  PROVE  ScanInv'
<1>1. /\ status = "scan" /\ running /\ UNCHANGED <<index, prev, stopFound>>
      /\ status' \in {"scan", "done", "error"}
      /\ nLeaves \in Nat /\ curNo \in 1..nLeaves /\ leaf = ord.leaves[curNo]
      /\ recs = recsOf(curNo) /\ Len(recs) \in Nat /\ pos = Len(recs) + 1
      /\ out \subseteq out'
      /\ \A l \in out' \ out : /\ atCursor(l) /\ l.mode = base /\ l.kind = "ordinary"
                              /\ ~st.RC /\ ~readPast
  BY RunOffFacts
<1>2. ASSUME status' = "scan"
      PROVE  /\ curNo # nLeaves /\ curNo' = curNo + 1 /\ leaf' = ord.leaves[curNo + 1]
             /\ pos' = 1 /\ hops' = hops + 1
             /\ ~st.RC => \E l \in out' : atCursor(l) /\ l.kind = "ordinary"
             /\ \A m \in 1..nLeaves : \A i \in 1..Len(recsOf(m)) + 1 :
                  passed(m, i)' <=> passed(m, i) \/ here(m, i)
  BY <1>2, RunOffFacts
<1>3. ASSUME status' = "done"
      PROVE  /\ curNo' = curNo /\ leaf' = leaf /\ pos' = pos /\ hops' = hops
             /\ \/ prev # None /\ st.Hi # Open /\ pastHi(prev)
                \/ /\ curNo = nLeaves
                   /\ ~st.RC => \E l \in out' : atCursor(l) /\ l.kind = "ordinary"
             /\ \A m, i \in Nat : (passed(m, i)' <=> passed(m, i)) /\ (here(m, i)' <=> here(m, i))
  BY <1>3, RunOffFacts
<1>4. /\ ord' = ord /\ nLeaves' = nLeaves /\ startNo' = startNo /\ startAt' = startAt
      /\ base' = base /\ tree' = tree /\ clust' = clust /\ idx' = idx /\ st' = st
      /\ \A m : recsOf(m)' = recsOf(m)
      /\ \A k : matches(k)' = matches(k) /\ hiSide(k)' = hiSide(k)
  BY <1>1, Frame
<1>5. \A m \in 1..nLeaves : m \in Nat /\ Len(recsOf(m)) \in Nat BY LeavesInOrder
<1>6. ASSUME NEW m \in 1..nLeaves, NEW i \in 1..Len(recsOf(m)) + 1
      PROVE  /\ status' = "scan" => (passed(m, i)' <=> passed(m, i) \/ here(m, i))
             /\ status' = "done" => /\ passed(m, i)' <=> passed(m, i)
                                    /\ here(m, i)' <=> here(m, i)
  <2>1. m \in Nat /\ i \in Nat BY <1>5
  <2> QED BY <1>2, <1>3, <2>1
<1>7. ASSUME NEW m \in 1..nLeaves, NEW i \in 1..Len(recsOf(m)) PROVE ~here(m, i)
  BY <1>1 DEF here
<1>8. CursorPlaced'
  <2>1. CASE status' = "scan"
    <3>1. hops \in 0..nLeaves - startNo /\ curNo = startNo + hops BY <1>1 DEF ScanInv, CursorPlaced, curNo
    <3>2. startNo \in 1..nLeaves BY Start
    <3>3. curNo + 1 \in 1..nLeaves /\ hops + 1 \in 0..nLeaves - startNo /\ hops + 1 # 0
      <4>1. curNo # nLeaves /\ nLeaves \in Nat /\ curNo \in 1..nLeaves BY <1>1, <1>2, <2>1
      <4> QED BY <3>1, <3>2, <4>1
    <3>4. 1 \in 1..Len(recsOf(curNo + 1)) + 1 BY <1>5, <3>3
    <3>5. recsOf(curNo)' = recsOf(curNo + 1) BY <1>2, <1>4, <2>1 DEF recsOf
    <3> QED BY <1>2, <1>4, <2>1, <3>3, <3>4, <3>5 DEF CursorPlaced
  <2>2. CASE status' = "done"
    <3>1. recsOf(curNo)' = recsOf(curNo) BY <1>3, <1>4, <2>2 DEF recsOf
    <3> QED BY <1>1, <1>3, <1>4, <2>2, <3>1 DEF ScanInv, CursorPlaced
  <2> QED BY <1>1, <2>1, <2>2 DEF CursorPlaced, running
<1>9. LocksBehind'
  <2> SUFFICES ASSUME running', NEW l \in out'
               PROVE  /\ l.mode = base
                      /\ idx.clustered => l.ix = "idx"
                      /\ l.ix = "idx" => \E m \in 1..nLeaves :
                           /\ l.page = ord.leaves[m] /\ l.at \in 1..Len(recsOf(m)) + 1
                           /\ passed(m, l.at)' \/ (status' = "done" /\ here(m, l.at)')
    BY <1>4 DEF LocksBehind
  <2>1. CASE l \in out
    <3>1. l.mode = base /\ (idx.clustered => l.ix = "idx") BY <1>1, <2>1 DEF ScanInv, LocksBehind
    <3>2. ASSUME l.ix = "idx"
          PROVE  \E m \in 1..nLeaves :
                   /\ l.page = ord.leaves[m] /\ l.at \in 1..Len(recsOf(m)) + 1 /\ passed(m, l.at)'
      <4>1. PICK m \in 1..nLeaves :
              l.page = ord.leaves[m] /\ l.at \in 1..Len(recsOf(m)) + 1 /\ passed(m, l.at)
        BY <1>1, <2>1, <3>2 DEF ScanInv, LocksBehind
      <4>2. passed(m, l.at)' BY <1>6, <4>1 DEF running
      <4> QED BY <4>1, <4>2
    <3> QED BY <3>1, <3>2
  <2>2. CASE l \notin out
    <3>1. atCursor(l) /\ l.mode = base BY <1>1, <2>2
    <3>2. PICK m \in 1..nLeaves : m = curNo BY <1>1
    <3>3. /\ l.ix = "idx" /\ l.page = ord.leaves[m] /\ l.at \in 1..Len(recsOf(m)) + 1
          /\ here(m, l.at)
      BY <1>1, <3>1, <3>2 DEF atCursor, here
    <3>4. passed(m, l.at)' \/ (status' = "done" /\ here(m, l.at)') BY <1>6, <3>3 DEF running
    <3> QED BY <3>1, <3>3, <3>4
  <2> QED BY <2>1, <2>2
<1>10. ReadBehind'
  <2> SUFFICES ASSUME status' = "scan" PROVE ReadBehind' BY DEF ReadBehind
  <2>1. \A m \in 1..nLeaves : \A i \in 1..Len(recsOf(m)) : passed(m, i) => passed(m, i)'
    BY <1>5, <1>6
  <2>2. prev' = prev /\ stopFound' = stopFound BY <1>1
  <2> QED BY <1>1, <1>4, <2>1, <2>2 DEF ScanInv, ReadBehind
<1>11. RowsBehind'
  <2> SUFFICES ASSUME running', NEW m \in 1..nLeaves, NEW i \in 1..Len(recsOf(m)),
                      passed(m, i)', ~recsOf(m)[i].del, matches(recsOf(m)[i].key)
               PROVE  recHeld(m, i)' /\ rowHeld(recsOf(m)[i])'
    BY <1>4 DEF RowsBehind
  <2>1. passed(m, i) BY <1>5, <1>6, <1>7 DEF running
  <2>2. recHeld(m, i) /\ rowHeld(recsOf(m)[i]) BY <1>1, <2>1 DEF ScanInv, RowsBehind
  <2>3. recHeld(m, i)' BY <1>1, <1>4, <2>2 DEF recHeld, locksOn
  <2>4. rowHeld(recsOf(m)[i])' BY <1>1, <1>4, <2>2 DEF rowHeld
  <2> QED BY <2>3, <2>4
<1>12. AllBehind'
  <2> DEFINE right(l, m, i) ==
        /\ i = Len(recsOf(m)) + 1 => l.kind = "ordinary"
        /\ i <= Len(recsOf(m)) =>
             /\ l.kind = "rec" => recsOf(m)[i].key = st.Lo
             /\ l.kind = "gap" => recsOf(m)[i].key = st.Hi /\ ~st.HiIncl
  <2> SUFFICES ASSUME running', ~st.RC, NEW m \in 1..nLeaves, NEW i \in 1..Len(recsOf(m)) + 1,
                      passed(m, i)'
               PROVE  \E l \in out' : l.ix = "idx" /\ l.page = ord.leaves[m] /\ l.at = i /\ right(l, m, i)
    BY <1>4 DEF AllBehind, locksOn
  <2>1. CASE passed(m, i)
    <3>1. PICK l \in locksOn(ord.leaves[m], i) : right(l, m, i) BY <1>1, <2>1 DEF ScanInv, AllBehind
    <3> QED BY <1>1, <3>1 DEF locksOn
  <2>2. CASE ~passed(m, i)
    <3>1. status' = "scan" /\ here(m, i) BY <1>6, <2>2 DEF running
    <3>2. m = curNo /\ i = pos /\ i = Len(recsOf(m)) + 1 /\ ~(i <= Len(recsOf(m)))
      BY <1>1, <3>1 DEF here
    <3>3. PICK l \in out' : atCursor(l) /\ l.kind = "ordinary" BY <1>2, <3>1
    <3>4. right(l, m, i) BY <3>2, <3>3
    <3> QED BY <1>1, <3>2, <3>3, <3>4 DEF atCursor
  <2> QED BY <2>1, <2>2
<1>13. ASSUME NEW l \in out' \ out PROVE ~(l.at <= Len(tree[l.page].recs))
  <2>1. l.page = leaf /\ l.at = Len(recs) + 1 BY <1>1, <1>13 DEF atCursor
  <2> QED BY <1>1, <2>1 DEF recs
<1>14. PastIsLast'
  <2> SUFFICES ASSUME idx.clustered, st.Hi # Open, ~st.RC, ~emptyRange, NEW l \in out',
                      l.at <= Len(tree[l.page].recs), st.Hi < tree[l.page].recs[l.at].key
               PROVE  FALSE
    BY <1>4 DEF PastIsLast, emptyRange
  <2>1. l \in out BY <1>13
  <2> QED BY <1>1, <2>1 DEF ScanInv, PastIsLast
<1>15. CommittedAlone'
  <2> SUFFICES ASSUME st.RC PROVE CommittedAlone' BY <1>4 DEF CommittedAlone
  <2>1. out' = out BY <1>1
  <2>2. \A k : matches(k)' = matches(k) BY <1>4
  <2> QED BY <1>4, <2>1, <2>2 DEF ScanInv, CommittedAlone
<1>16. Ended'
  <2> SUFFICES ASSUME status' = "done" PROVE (EndOfIndex \/ BehindBound)' BY DEF Ended
  <2>1. curNo' = curNo /\ leaf' = leaf /\ pos' = pos BY <1>3
  <2>2. CASE prev # None /\ st.Hi # Open /\ pastHi(prev)
    <3>1. ReadBehind BY DEF ScanInv
    <3>2. PICK m \in 1..nLeaves : \E i \in 1..Len(recsOf(m)) : passed(m, i) /\ recsOf(m)[i] = prev
      BY <1>1, <2>2, <3>1 DEF ReadBehind
    <3>3. PICK i \in 1..Len(recsOf(m)) : passed(m, i) /\ recsOf(m)[i] = prev BY <3>2
    <3>4. recsOf(m)[i].key \in Nat BY RecKey
    <3>5. st.Hi \in Nat BY StmtType DEF TInv, Indexes
    <3>6. ~hiSide(recsOf(m)[i].key) BY <2>2, <3>3, <3>4, <3>5 DEF pastHi, hiSide
    <3>7. passed(m, i)' BY <1>5, <1>6, <3>3
    <3>8. ~hiSide(recsOf(m)[i].key)' BY <1>4, <3>6
    <3> QED BY <1>4, <3>7, <3>8 DEF BehindBound
  <2>3. CASE /\ curNo = nLeaves
             /\ ~st.RC => \E l \in out' : atCursor(l) /\ l.kind = "ordinary"
    <3>1. recs' = recs BY <1>4, <2>1 DEF recs
    <3>2. ~st.RC => \E l \in locksOn(leaf, pos)' : l.kind = "ordinary"
      BY <2>1, <2>3 DEF locksOn, atCursor
    <3> QED BY <1>1, <1>4, <2>1, <2>3, <3>1, <3>2 DEF EndOfIndex
  <2> QED BY <1>3, <2>2, <2>3
<1>17. PrevLast'
  <2> SUFFICES ASSUME status' = "scan", NEW m \in 1..nLeaves, NEW i \in 1..Len(recsOf(m)), passed(m, i)'
               PROVE  prev # None /\ recsOf(m)[i].key <= prev.key
    <3>1. prev' = prev BY <1>1
    <3> QED BY <1>4, <3>1 DEF PrevLast
  <2>1. passed(m, i) BY <1>5, <1>6, <1>7
  <2> QED BY <1>1, <2>1 DEF ScanInv, PrevLast
<1>18. SupremumInRange'
  <2> SUFFICES ASSUME st.Hi # Open, ~emptyRange,
                      NEW l \in out', l.ix = "idx", l.at > Len(tree[l.page].recs)
               PROVE  \A i \in 1..Len(tree[l.page].recs) : ~pastHi(tree[l.page].recs[i])
    BY <1>4 DEF SupremumInRange, emptyRange, pastHi
  <2>1. CASE l \in out BY <2>1 DEF ScanInv, SupremumInRange
  <2>2. CASE l \notin out
    <3>1. tree[l.page].recs = recsOf(curNo) /\ ~readPast
      BY <1>1, <2>2 DEF atCursor, recs
    <3> QED BY <1>1, <3>1, ReadInRange
  <2> QED BY <2>1, <2>2
<1> QED BY <1>8, <1>9, <1>10, <1>11, <1>12, <1>14, <1>15, <1>16, <1>17, <1>18 DEF ScanInv

LEMMA IInvInit == Init => IInv
<1> SUFFICES ASSUME Init PROVE IInv OBVIOUS
<1>1. TInv BY TInvInit
<1>2. status = "descend" /\ out = {} /\ hops = 0 /\ prev = None /\ ~stopFound BY DEF Init
<1>3. ~running BY <1>2 DEF running
<1>4. CursorPlaced BY <1>2, <1>3 DEF CursorPlaced
<1>5. LocksBehind /\ ReadBehind /\ PrevLast /\ RowsBehind /\ AllBehind /\ Ended
  BY <1>2, <1>3 DEF LocksBehind, ReadBehind, PrevLast, RowsBehind, AllBehind, Ended
<1>6. PastIsLast /\ CommittedAlone /\ SupremumInRange
  BY <1>2 DEF PastIsLast, CommittedAlone, SupremumInRange
<1> QED BY <1>1, <1>4, <1>5, <1>6 DEF IInv, ScanInv

LEMMA ScanStays ==
  ASSUME UNCHANGED vars, ScanInv
  PROVE  ScanInv'
<1>1. UNCHANGED <<idx, tree, clust, st, status, leaf, pos, prev, first, stopFound, hops, out>>
  BY DEF vars, index, cursor
<1>2. UNCHANGED index BY <1>1 DEF index
<1>3. /\ ord' = ord /\ nLeaves' = nLeaves /\ startNo' = startNo /\ startAt' = startAt
      /\ base' = base /\ \A m : recsOf(m)' = recsOf(m)
      /\ \A k : matches(k)' = matches(k) /\ hiSide(k)' = hiSide(k)
  BY <1>2, Frame
<1>4. curNo' = curNo /\ running' = running /\ uniqueSearch' = uniqueSearch
  BY <1>1, <1>3 DEF curNo, running, uniqueSearch
<1>5. recs' = recs BY <1>1 DEF recs
<1>6. r' = r BY <1>1, <1>5 DEF r
<1>7. \A m, i : passed(m, i)' = passed(m, i) /\ here(m, i)' = here(m, i)
  BY <1>1, <1>3, <1>4 DEF passed, here, before
<1>8. \A p, i : locksOn(p, i)' = locksOn(p, i) BY <1>1 DEF locksOn
<1>9. \A m, i : recHeld(m, i)' = recHeld(m, i) BY <1>3, <1>8 DEF recHeld
<1>10. \A rec : rowHeld(rec)' = rowHeld(rec) BY <1>1 DEF rowHeld
<1>11. CursorPlaced' BY <1>1, <1>3, <1>4 DEF ScanInv, CursorPlaced
<1>12. LocksBehind' BY <1>1, <1>3, <1>4, <1>7 DEF ScanInv, LocksBehind
<1>13. ReadBehind' BY <1>1, <1>3, <1>7 DEF ScanInv, ReadBehind
<1>14. RowsBehind' BY <1>3, <1>4, <1>7, <1>9, <1>10 DEF ScanInv, RowsBehind
<1>15. AllBehind' BY <1>1, <1>3, <1>4, <1>7, <1>8 DEF ScanInv, AllBehind
<1>16. PastIsLast' BY <1>1 DEF ScanInv, PastIsLast, emptyRange
<1>17. CommittedAlone' BY <1>1, <1>3 DEF ScanInv, CommittedAlone
<1>18. Ended'
  <2>1. EndOfIndex' = EndOfIndex BY <1>1, <1>3, <1>4, <1>5, <1>8 DEF EndOfIndex
  <2>2. BehindBound' = BehindBound BY <1>3, <1>7 DEF BehindBound
  <2>3. hiSide(r.key)' = hiSide(r.key) BY <1>3, <1>6
  <2>4. AtBound' = AtBound BY <1>1, <1>5, <1>8, <2>3 DEF AtBound, emptyRange
  <2>5. BehindStop' = BehindStop BY <1>1, <1>3, <1>5, <1>7, <2>3 DEF BehindStop
  <2>6. recHeld(curNo, pos)' = recHeld(curNo, pos) BY <1>1, <1>4, <1>9
  <2>7. rowHeld(r)' = rowHeld(r) BY <1>6, <1>10
  <2>8. AtKey' = AtKey BY <1>1, <1>4, <1>5, <1>6, <2>6, <2>7 DEF AtKey
  <2> QED BY <1>1, <2>1, <2>2, <2>4, <2>5, <2>8 DEF ScanInv, Ended
<1>19. PrevLast' BY <1>1, <1>3, <1>7 DEF ScanInv, PrevLast
<1>20. SupremumInRange' BY <1>1 DEF ScanInv, SupremumInRange, emptyRange, pastHi
<1> QED BY <1>11, <1>12, <1>13, <1>14, <1>15, <1>16, <1>17, <1>18, <1>19, <1>20 DEF ScanInv

LEMMA IInvStep == IInv /\ [Next]_vars => IInv'
<1> SUFFICES ASSUME IInv, [Next]_vars PROVE IInv' OBVIOUS
<1>1. TInv /\ TInv' BY TInvStep DEF IInv
<1>2. UNCHANGED index
  BY DEF Next, Descend, RunOff, RowRunOn, ReadMiss, ReadCommitted, ReadPast, ReadNext, Terminated, vars
<1>3. intact' = intact BY <1>2, Frame
<1> SUFFICES ASSUME intact PROVE ScanInv' BY <1>1, <1>3 DEF IInv
<1>4. ScanInv BY DEF IInv
<1>5. CASE Descend BY <1>1, <1>4, <1>5, DescendKeeps
<1>6. CASE RunOff BY <1>1, <1>4, <1>6, RunOffKeeps
<1>7. CASE ReadMiss \/ ReadCommitted \/ ReadPast \/ ReadNext BY <1>1, <1>4, <1>7, ReadKeeps
<1>8. CASE RowRunOn BY <1>4, <1>8, RowRunKeeps
<1>9. CASE Terminated \/ UNCHANGED vars
  <2>1. UNCHANGED vars BY <1>9 DEF Terminated
  <2> QED BY <1>4, <2>1, ScanStays
<1> QED BY <1>5, <1>6, <1>7, <1>8, <1>9 DEF Next

\* RowsHeld: on an index as InnoDB writes it no row the predicate is true of is
\* left unlocked, wherever the search opens and however the rows are spread over
\* the leaves (lockSim.scan, lockSim.row).
THEOREM RowsStayHeld == Spec => []RowsHeld
<1> QED BY IInvInit, IInvStep, RowsAreHeld, PTL DEF Spec

\* NothingMore: READ COMMITTED locks the matching records alone, a clustered range
\* ends at the gap before the first record past its bound, and no supremum is locked
\* above a record past it (lockSim.scan).
THEOREM NothingMoreLocked == Spec => []NothingMore
<1> QED BY IInvInit, IInvStep, NoMoreLocked, PTL DEF Spec

\* NoPhantom: after a REPEATABLE READ statement that locks for update there is
\* no key in its range that SimulateInsert shows going in without a wait.
THEOREM NoRowGained == Spec => []NoPhantom
<1> QED BY IInvInit, IInvStep, NoneGained, PTL DEF Spec

-----------------------------------------------------------------------------
(* The scan of an index reads to its end.                                  *)

\* There are no more leaves than pages.
LEMMA LeavesArePages ==
  ASSUME TInv, intact
  PROVE  nLeaves <= NPages
<1>1. nLeaves \in Nat
  <2>1. startNo \in 1..nLeaves BY Start
  <2> QED BY <2>1, LeavesInOrder
<1>2. IsFiniteSet(PageNo) /\ Cardinality(PageNo) <= NPages /\ NPages \in Nat
      /\ Cardinality(PageNo) \in Nat
  BY BTreeAssumption, LockScanAssumption, FS_CardinalityType
<1>3. IsFiniteSet(1..nLeaves) /\ Cardinality(1..nLeaves) = nLeaves
  <2>1. IsFiniteSet(1..nLeaves) /\ Cardinality(1..nLeaves) = IF 1 > nLeaves THEN 0 ELSE nLeaves - 1 + 1
    BY <1>1, FS_Interval
  <2> QED BY <1>1, <2>1
<1>4. SUFFICES ASSUME Cardinality(PageNo) < Cardinality(1..nLeaves) PROVE FALSE
  BY <1>1, <1>2, <1>3
<1> DEFINE page == [m \in 1..nLeaves |-> ord.leaves[m]]
<1>5. page \in [1..nLeaves -> PageNo] BY LeavesInOrder
<1>6. \E m, n \in 1..nLeaves : m # n /\ page[m] = page[n]
  <2> HIDE DEF page
  <2> QED BY <1>2, <1>3, <1>4, <1>5, FS_PigeonHole
<1> QED BY <1>6, LeafNumber

\* Where no two leaves of the clustered index have records of one key, the leaf
\* the lookup by the first column ends on has the row.
LEMMA RowFound ==
  ASSUME NEW t \in Tree, NEW o, ordered(t, o), apart(t, o)
  PROVE  \A key \in Key : \A q \in leaves(t) : \A j \in 1..Len(t[q].recs) : t[q].recs[j].key = key =>
           /\ descend(t, key, FALSE) = q
           /\ j \in lowerBound(t[q].recs, key)..Len(t[q].recs)
           /\ \A i \in lowerBound(t[q].recs, key)..j : t[q].recs[i].key = key
<1> SUFFICES ASSUME NEW key \in Key, NEW q \in leaves(t), NEW j \in 1..Len(t[q].recs),
                    t[q].recs[j].key = key
             PROVE  /\ descend(t, key, FALSE) = q
                    /\ j \in lowerBound(t[q].recs, key)..Len(t[q].recs)
                    /\ \A i \in lowerBound(t[q].recs, key)..j : t[q].recs[i].key = key
  OBVIOUS
<1> DEFINE p == descend(t, key, FALSE)
           rs == t[q].recs
           n == Len(o.leaves)
<1>1. key \in Nat /\ key # Open BY BTreeAssumption DEF Open
<1>2. p \in PageNo /\ t[p].level = 0 /\ listed(o, p) /\ given(o, p, key, FALSE)
  BY <1>1, Descended
<1> HIDE DEF p
<1>3. leavesOrdered(t, o) /\ o.low \in [PageNo -> Key \cup {Open}] BY DEF ordered
<1>4. o.leaves \in Seq(leaves(t)) /\ n \in Nat BY <1>3 DEF leavesOrdered
<1>5. q \in PageNo /\ t[q].level = 0 /\ rs \in Seq(Rec) /\ Len(rs) \in Nat BY PageKinds DEF leaves, Tree
<1>6. \A i \in 1..Len(rs) : rs[i].key \in Nat BY <1>5, RecKeys
<1>7. PICK a \in 1..n : o.leaves[a] = p BY <1>2 DEF listed
<1>8. PICK b \in 1..n : o.leaves[b] = q
  <2>1. rs # <<>>
    <3>1. Len(<<>>) = 0 OBVIOUS
    <3> QED BY <3>1, <1>5
  <2> QED BY <1>3, <2>1 DEF leavesOrdered
<1>9. /\ \A i, k \in 1..Len(rs) : i < k => rs[i].key <= rs[k].key
      /\ \A i \in 1..Len(rs) : o.low[q] <= rs[i].key
  BY <1>3, <1>8 DEF leavesOrdered
<1>10. o.high[p] = IF a = n THEN Open ELSE o.low[o.leaves[a + 1]]
  BY <1>3, <1>7 DEF leavesOrdered
<1>11. \A x \in 1..n : o.leaves[x] \in PageNo /\ o.low[o.leaves[x]] \in Nat
  <2> SUFFICES ASSUME NEW x \in 1..n PROVE o.leaves[x] \in PageNo /\ o.low[o.leaves[x]] \in Nat
    OBVIOUS
  <2>1. o.leaves[x] \in leaves(t) BY <1>4, ElementOfSeq
  <2>2. o.leaves[x] \in PageNo BY <2>1 DEF leaves, Tree
  <2>3. o.low[o.leaves[x]] \in Key \cup {Open} BY <1>3, <2>2
  <2>4. Key \cup {Open} \subseteq Nat BY BTreeAssumption DEF Open
  <2> QED BY <2>2, <2>3, <2>4
<1>12. \A x, y \in 1..n : x < y => o.low[o.leaves[y]] # Open /\ o.low[o.leaves[x]] <= o.low[o.leaves[y]]
  <2> SUFFICES ASSUME NEW x \in 1..n, NEW y \in 1..n, x < y
               PROVE  o.low[o.leaves[y]] # Open /\ o.low[o.leaves[x]] <= o.low[o.leaves[y]]
    OBVIOUS
  <2>1. y \in x + 1..n BY <1>4
  <2> QED BY <1>3, <2>1 DEF leavesOrdered
<1>13. ~(a < b)
  <2> SUFFICES ASSUME a < b PROVE FALSE OBVIOUS
  <2>1. a + 1 \in 1..n /\ a # n /\ (a + 1 < b \/ a + 1 = b) BY <1>4
  <2>2. o.high[p] = o.low[o.leaves[a + 1]] /\ o.low[o.leaves[a + 1]] # Open
    <3>1. a < a + 1 BY <1>4
    <3> QED BY <1>10, <1>12, <2>1, <3>1
  <2>3. key < o.low[o.leaves[a + 1]] BY <1>2, <2>2 DEF given
  <2>4. o.low[o.leaves[a + 1]] <= o.low[q] /\ o.low[q] \in Nat /\ o.low[o.leaves[a + 1]] \in Nat
    <3>1. CASE a + 1 < b BY <1>8, <1>11, <1>12, <2>1, <3>1
    <3>2. CASE a + 1 = b BY <1>8, <1>11, <3>2
    <3> QED BY <2>1, <3>1, <3>2
  <2>5. o.low[q] <= key BY <1>9
  <2> QED BY <1>1, <2>3, <2>4, <2>5
<1>14. ~(b < a)
  <2> SUFFICES ASSUME b < a PROVE FALSE OBVIOUS
  <2>1. a \in b + 1..n BY <1>4
  <2>2. key < o.low[p] BY <1>7, <1>8, <2>1 DEF apart
  <2>3. o.low[p] # Open /\ o.low[p] \in Nat BY <1>7, <1>11, <1>12
  <2>4. o.low[p] <= key
    <3>1. o.low[p] < key \/ o.low[p] = key BY <1>2, <2>3 DEF given
    <3> QED BY <1>1, <2>3, <3>1
  <2> QED BY <1>1, <2>2, <2>3, <2>4
<1>15. p = q
  <2>1. a = b BY <1>4, <1>13, <1>14
  <2> QED BY <1>7, <1>8, <2>1
<1> DEFINE lb == lowerBound(rs, key)
<1>16. /\ lb \in 1..Len(rs) + 1
       /\ \A i \in 1..Len(rs) : i < lb => rs[i].key < key
       /\ lb <= Len(rs) => key <= rs[lb].key
  BY <1>1, <1>5, LowerBound
<1> HIDE DEF lb
<1>17. lb <= j BY <1>1, <1>5, <1>16
<1>18. j \in lb..Len(rs) BY <1>5, <1>16, <1>17
<1>19. ASSUME NEW i \in lb..j PROVE rs[i].key = key
  <2>1. i \in 1..Len(rs) /\ lb \in 1..Len(rs) /\ lb <= i /\ i <= j BY <1>5, <1>16, <1>17
  <2>2. rs[lb].key <= rs[i].key
    <3>1. CASE lb = i BY <1>6, <2>1, <3>1
    <3>2. CASE lb < i BY <1>9, <2>1, <3>2
    <3> QED BY <1>5, <2>1, <3>1, <3>2
  <2>3. rs[i].key <= rs[j].key
    <3>1. CASE i = j BY <1>6, <2>1, <3>1
    <3>2. CASE i < j BY <1>9, <2>1, <3>2
    <3> QED BY <1>5, <2>1, <3>1, <3>2
  <2>4. key <= rs[lb].key BY <1>16, <2>1
  <2>5. PICK x \in Nat, y \in Nat, z \in Nat : x = rs[lb].key /\ y = rs[i].key /\ z = rs[j].key
    <3>1. j \in 1..Len(rs) BY <1>1
    <3> QED BY <1>6, <2>1, <3>1
  <2>6. key \in Nat /\ z = key BY <1>1, <2>5
  <2>7. x <= y /\ y <= z /\ key <= x BY <2>2, <2>3, <2>4, <2>5
  <2>8. y = key BY <2>6, <2>7
  <2> QED BY <2>5, <2>8
<1> QED BY <1>15, <1>18, <1>19 DEF lb, p

\* No two leaves of the clustered index behind a secondary one share a first key
\* column: with a composite primary key it may not be so.
rowsOnOneLeaf == ~idx.clustered => apart(clust, order(clust))

LEMMA RowNotFailed ==
  ASSUME TInv, intact, rowsOnOneLeaf, ~idx.clustered, reading, ~r.del, leaf \in leaves(tree)
  PROVE  ~rowFailed(r)
<1>1. /\ ordered(clust, order(clust)) /\ rowsThere(tree, clust) /\ apart(clust, order(clust))
      /\ clust \in Tree
  BY DEF intact, written, rowsOnOneLeaf, TInv, Indexes
<1>2. pos \in 1..Len(recs) /\ r.pk \in Pk BY CursorRec
<1> DEFINE key == PkHead[r.pk]
<1>3. key \in Key BY <1>2, LockScanAssumption
<1>4. PICK q \in leaves(clust) : \E j \in 1..Len(clust[q].recs) :
        clust[q].recs[j].pk = r.pk /\ clust[q].recs[j].key = key
  BY <1>1, <1>2 DEF rowsThere, recs, r
<1>5. PICK j \in 1..Len(clust[q].recs) : clust[q].recs[j].pk = r.pk /\ clust[q].recs[j].key = key
  BY <1>4
<1> HIDE DEF key
<1>6. /\ descend(clust, key, FALSE) = q
      /\ j \in lowerBound(clust[q].recs, key)..Len(clust[q].recs)
      /\ \A i \in lowerBound(clust[q].recs, key)..j : clust[q].recs[i].key = key
  <2>1. \A k \in Key : \A p \in leaves(clust) : \A i \in 1..Len(clust[p].recs) :
          clust[p].recs[i].key = k =>
            /\ descend(clust, k, FALSE) = p
            /\ i \in lowerBound(clust[p].recs, k)..Len(clust[p].recs)
            /\ \A n \in lowerBound(clust[p].recs, k)..i : clust[p].recs[n].key = k
    BY <1>1, RowFound
  <2> QED BY <1>3, <1>5, <2>1, ZenonT(30)
<1>7. rowLeaf(r.pk) = q BY <1>6 DEF rowLeaf, key
<1>8. clust[q].level = 0 BY <1>4 DEF leaves
<1>9. j \in rowAt(r.pk) BY <1>5, <1>6, <1>7, <1>8 DEF rowAt, samePK, key
<1> QED BY <1>9 DEF rowFailed

\* The row is on the first leaf that is searched.
SInv == IInv /\ (intact /\ rowsOnOneLeaf => status \notin {"row", "error"})

LEMMA SInvStep == SInv /\ [Next]_vars => SInv'
<1> SUFFICES ASSUME SInv, [Next]_vars PROVE SInv' OBVIOUS
<1>1. TInv /\ IInv /\ IInv' BY IInvStep DEF SInv, IInv
<1>2. UNCHANGED index
  BY DEF Next, Descend, RunOff, RowRunOn, ReadMiss, ReadCommitted, ReadPast, ReadNext, Terminated, vars
<1>3. intact' = intact BY <1>2, Frame
<1>4. rowsOnOneLeaf' = rowsOnOneLeaf BY <1>2 DEF rowsOnOneLeaf, index
<1> SUFFICES ASSUME intact, rowsOnOneLeaf, status' \in {"row", "error"} PROVE FALSE
  BY <1>1, <1>3, <1>4 DEF SInv
<1>5. ScanInv /\ CursorPlaced BY <1>1 DEF IInv, ScanInv
<1>6. status \notin {"row", "error"} BY DEF SInv
<1>7. CASE Descend
  <2>1. status' # "row" BY <1>6, <1>7 DEF Descend
  <2> QED BY <1>1, <1>7, <2>1, DescendEnds
<1>8. CASE RunOff
  <2>1. /\ running /\ nLeaves \in Nat /\ curNo \in 1..nLeaves /\ leaf = ord.leaves[curNo]
    BY <1>1, <1>5, <1>8, RunOffFacts
  <2>2. tree[leaf].next # Nil /\ (hop >= NPages \/ ~readable(tree, tree[leaf].next))
    BY <1>6, <1>8 DEF RunOff
  <2>3. curNo # nLeaves /\ tree[leaf].next = ord.leaves[curNo + 1]
    BY <1>1, <2>1, <2>2, LeavesInOrder
  <2>4. readable(tree, tree[leaf].next)
    <3>1. curNo + 1 \in 1..nLeaves BY <2>1, <2>3
    <3>2. tree[ord.leaves[curNo + 1]].level = 0 BY <1>1, <3>1, LeavesInOrder
    <3> QED BY <2>3, <3>2 DEF readable
  <2>5. hops \in Nat /\ startNo \in 1..nLeaves /\ curNo = startNo + hops
    BY <1>1, <1>5, <2>1, CursorAt DEF curNo
  <2>6. nLeaves <= NPages /\ NPages \in Nat BY <1>1, LeavesArePages, LockScanAssumption
  <2>7. hops + 1 >= NPages BY <2>2, <2>4 DEF hop
  <2> QED BY <2>1, <2>3, <2>5, <2>6, <2>7
<1>9. CASE ReadMiss \/ ReadCommitted \/ ReadPast \/ ReadNext
  <2>1. reading BY <1>9 DEF ReadMiss, ReadCommitted, ReadPast, ReadNext
  <2>2. status = "scan" BY <2>1 DEF reading
  <2>3. rowFailed(r) /\ ~r.del
    BY <1>9, <2>2 DEF ReadMiss, ReadCommitted, ReadPast, ReadNext, stop, skip, returned
  <2>4. ~idx.clustered BY <2>3 DEF rowFailed
  <2>5. leaf \in leaves(tree)
    <3>1. running /\ CursorPlaced BY <1>5, <2>2 DEF running
    <3>2. curNo \in 1..nLeaves /\ leaf = ord.leaves[curNo] BY <1>1, <3>1, CursorAt
    <3> QED BY <1>1, <3>2, LeavesInOrder
  <2> QED BY <1>1, <2>1, <2>3, <2>4, <2>5, RowNotFailed
<1>10. CASE RowRunOn BY <1>6, <1>10 DEF RowRunOn
<1>11. CASE Terminated \/ UNCHANGED vars
  BY <1>6, <1>11 DEF Terminated, vars
<1> QED BY <1>7, <1>8, <1>9, <1>10, <1>11 DEF Next

\* ScanSucceeds: no statement on an index as InnoDB writes it ends in an error
\* (lockSim.row, the hops of lockSim.scan), where the rows behind a secondary index
\* that share their first column are on one leaf.  A composite primary key may put
\* them on two, and then lockSim.row does not find the second.
THEOREM ScanIsAnswered == Spec => [](rowsOnOneLeaf => ScanSucceeds)
<1>1. Init => SInv
  <2> SUFFICES ASSUME Init PROVE SInv OBVIOUS
  <2>1. status \notin {"row", "error"} BY DEF Init
  <2> QED BY <2>1, IInvInit DEF SInv
<1>2. SInv => (rowsOnOneLeaf => ScanSucceeds) BY DEF SInv, ScanSucceeds
<1> QED BY <1>1, <1>2, SInvStep, PTL DEF Spec
=============================================================================
