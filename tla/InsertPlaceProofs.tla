-------------------------- MODULE InsertPlaceProofs --------------------------
(***************************************************************************)
(* The page an insert is planned on keeps its shape, whatever the sizes of *)
(* page, slot and record: records never share a byte, the heap never meets *)
(* the page directory, the plan always has room for the record.            *)
(***************************************************************************)
EXTENDS InsertPlace, NatSets, SequenceTheorems, TLAPS

-----------------------------------------------------------------------------
(* Arithmetic.                                                             *)

\* Division by a positive number, as bounds.
LEMMA DivBounds ==
  ASSUME NEW a \in Nat, NEW b \in Nat \ {0}
  PROVE  /\ a \div b \in Nat
         /\ b * (a \div b) <= a
         /\ a < b * (a \div b) + b
  BY Z3

\* A product grows with its factor.
LEMMA ProductGrows ==
  ASSUME NEW b \in Nat, NEW x \in Nat, NEW y \in Nat, x <= y
  PROVE  b * x <= b * y /\ b * x \in Nat /\ b * y \in Nat
  BY Z3

\* The slots charged are a number, more for more records.
LEMMA DirReservedGrows ==
  ASSUME NEW m \in Nat, NEW n \in Nat, m <= n
  PROVE  /\ dirReserved(m) \in Nat /\ dirReserved(n) \in Nat
         /\ dirReserved(m) <= dirReserved(n)
<1> DEFINE b == PAGE_DIR_SLOT_MIN_N_OWNED
           x == PAGE_DIR_SLOT_SIZE * m + b - 1
           y == PAGE_DIR_SLOT_SIZE * n + b - 1
<1>1. b \in Nat \ {0} /\ PAGE_DIR_SLOT_SIZE \in Nat BY InsertPlaceAssumption
<1>2. PAGE_DIR_SLOT_SIZE * m <= PAGE_DIR_SLOT_SIZE * n /\ PAGE_DIR_SLOT_SIZE * m \in Nat
      /\ PAGE_DIR_SLOT_SIZE * n \in Nat
  BY <1>1, ProductGrows
<1>3. x \in Nat /\ y \in Nat /\ x <= y BY <1>1, <1>2
<1> HIDE DEF x, y, b
<1>4. /\ x \div b \in Nat /\ y \div b \in Nat
      /\ b * (x \div b) <= x /\ y < b * (y \div b) + b
  BY <1>1, <1>3, DivBounds
<1>5. x \div b <= y \div b
  <2>1. SUFFICES ASSUME x \div b >= y \div b + 1 PROVE FALSE BY <1>4
  <2>2. b * (y \div b + 1) <= b * (x \div b) BY <2>1, <1>1, <1>4, ProductGrows
  <2>3. b * (y \div b + 1) = b * (y \div b) + b BY <1>1, <1>4
  <2>4. QED BY <2>2, <2>3, <1>1, <1>3, <1>4
<1>6. QED BY <1>4, <1>5 DEF dirReserved, x, y, b

\* The charge covers the slots there can be: k of n records own a slot of their own.
LEMMA DirReservedCovers ==
  ASSUME NEW k \in Nat, NEW n \in Nat, k * PAGE_DIR_SLOT_MIN_N_OWNED <= n
  PROVE  PAGE_DIR_SLOT_SIZE * k <= dirReserved(n)
<1> DEFINE b == PAGE_DIR_SLOT_MIN_N_OWNED
           c == PAGE_DIR_SLOT_SIZE
           y == c * n + b - 1
<1>1. b \in Nat \ {0} /\ c \in Nat /\ k * b <= n BY InsertPlaceAssumption
<1>2. c * (k * b) <= c * n /\ c * n \in Nat BY <1>1, ProductGrows
<1>3. c * (k * b) = b * (c * k) /\ c * k \in Nat BY <1>1
<1>4. y \in Nat /\ b * (c * k) <= y BY <1>1, <1>2, <1>3
<1> HIDE DEF y
<1>5. y \div b \in Nat /\ y < b * (y \div b) + b BY <1>1, <1>4, DivBounds
<1>6. c * k <= y \div b
  <2>1. SUFFICES ASSUME c * k >= y \div b + 1 PROVE FALSE BY <1>3, <1>5
  <2>2. b * (y \div b + 1) <= b * (c * k) BY <2>1, <1>1, <1>3, <1>5, ProductGrows
  <2>3. b * (y \div b + 1) = b * (y \div b) + b BY <1>1, <1>5
  <2>4. QED BY <2>2, <2>3, <1>1, <1>4, <1>5
<1>7. QED BY <1>6 DEF dirReserved, y

LEMMA MaxOfTwo ==
  ASSUME NEW x \in Int, NEW y \in Int
  PROVE  Max({x, y}) = IF x >= y THEN x ELSE y
<1>1. CASE x >= y
  <2>1. \A z \in {x, y} : (\A w \in {x, y} : z >= w) <=> z = x BY <1>1
  <2>2. QED BY <1>1, <2>1 DEF Max
<1>2. CASE ~(x >= y)
  <2>1. \A z \in {x, y} : (\A w \in {x, y} : z >= w) <=> z = y BY <1>2
  <2>2. QED BY <1>2, <2>1 DEF Max
<1>3. QED BY <1>1, <1>2

-----------------------------------------------------------------------------
(* Sequences.                                                              *)

\* What InsertAt makes of a sequence.
LEMMA InsertAtShape ==
  ASSUME NEW S, NEW s \in Seq(S), NEW p \in 0 .. Len(s), NEW e \in S
  PROVE  /\ InsertAt(s, p + 1, e) \in Seq(S)
         /\ Len(InsertAt(s, p + 1, e)) = Len(s) + 1
         /\ \A i \in 1 .. Len(s) + 1 :
              InsertAt(s, p + 1, e)[i] = IF i <= p THEN s[i] ELSE IF i = p + 1 THEN e ELSE s[i - 1]
<1> DEFINE a == SubSeq(s, 1, (p + 1) - 1)
           b == SubSeq(s, p + 1, Len(s))
           c == a \o <<e>>
           d == c \o b
<1>1. Len(s) \in Nat BY LenProperties
<1>2. /\ a \in Seq(S) /\ Len(a) = p
      /\ \A i \in 1 .. p : a[i] = s[i]
  BY <1>1
<1>3. /\ b \in Seq(S) /\ Len(b) = Len(s) - p
      /\ \A i \in 1 .. Len(s) - p : b[i] = s[p + i]
  BY <1>1
<1>4. <<e>> \in Seq(S) /\ Len(<<e>>) = 1 /\ <<e>>[1] = e OBVIOUS
<1>7. InsertAt(s, p + 1, e) = d BY DEF InsertAt
<1> HIDE DEF a, b
<1>5. /\ c \in Seq(S) /\ Len(c) = p + 1
      /\ \A i \in 1 .. p + 1 : c[i] = IF i <= p THEN s[i] ELSE e
  BY <1>1, <1>2, <1>4, ConcatProperties
<1> HIDE DEF c
<1>6. /\ d \in Seq(S) /\ Len(d) = Len(c) + Len(b)
      /\ \A i \in 1 .. Len(c) + Len(b) : d[i] = IF i <= Len(c) THEN c[i] ELSE b[i - Len(c)]
  BY <1>3, <1>5, ConcatProperties
<1> HIDE DEF d
<1>8. ASSUME NEW i \in 1 .. Len(s) + 1
      PROVE  d[i] = IF i <= p THEN s[i] ELSE IF i = p + 1 THEN e ELSE s[i - 1]
  <2>1. CASE i <= p + 1
    <3>1. i \in 1 .. p + 1 /\ i \in 1 .. Len(c) + Len(b) /\ i <= Len(c) BY <2>1, <1>1, <1>3, <1>5
    <3>2. d[i] = c[i] BY <3>1, <1>6
    <3>3. c[i] = IF i <= p THEN s[i] ELSE e BY <3>1, <1>5
    <3>4. QED BY <2>1, <3>1, <3>2, <3>3
  <2>2. CASE i > p + 1
    <3>1. i - (p + 1) \in 1 .. Len(s) - p BY <2>2, <1>1
    <3>2. b[i - (p + 1)] = s[i - 1] BY <3>1, <1>3, <1>1
    <3>3. QED BY <3>2, <2>2, <1>1, <1>3, <1>5, <1>6, SMTT(30)
  <2>3. QED BY <2>1, <2>2, <1>1
<1>9. Len(d) = Len(s) + 1 BY <1>1, <1>3, <1>5, <1>6
<1>10. QED BY <1>6, <1>7, <1>8, <1>9

\* What RemoveAt makes of a sequence.
LEMMA RemoveAtShape ==
  ASSUME NEW S, NEW s \in Seq(S), NEW k \in 1 .. Len(s)
  PROVE  /\ RemoveAt(s, k) \in Seq(S)
         /\ Len(RemoveAt(s, k)) = Len(s) - 1
         /\ \A i \in 1 .. Len(s) - 1 : RemoveAt(s, k)[i] = IF i < k THEN s[i] ELSE s[i + 1]
<1> DEFINE a == SubSeq(s, 1, k - 1)
           b == SubSeq(s, k + 1, Len(s))
           d == a \o b
<1>1. Len(s) \in Nat BY LenProperties
<1>2. /\ a \in Seq(S) /\ Len(a) = k - 1
      /\ \A i \in 1 .. k - 1 : a[i] = s[i]
  BY <1>1
<1>3. /\ b \in Seq(S) /\ Len(b) = Len(s) - k
      /\ \A i \in 1 .. Len(s) - k : b[i] = s[k + i]
  BY <1>1
<1>4. RemoveAt(s, k) = d BY DEF RemoveAt
<1> HIDE DEF a, b
<1>5. /\ d \in Seq(S) /\ Len(d) = Len(a) + Len(b)
      /\ \A i \in 1 .. Len(a) + Len(b) : d[i] = IF i <= Len(a) THEN a[i] ELSE b[i - Len(a)]
  BY <1>2, <1>3, ConcatProperties
<1>8. /\ Len(d) = Len(s) - 1
      /\ \A i \in 1 .. Len(s) - 1 : d[i] = IF i <= k - 1 THEN a[i] ELSE b[i - (k - 1)]
  <2>1. Len(a) + Len(b) = Len(s) - 1 BY <1>1, <1>2, <1>3
  <2>2. QED BY <2>1, <1>2, <1>5
<1> HIDE DEF d
<1>6. ASSUME NEW i \in 1 .. Len(s) - 1
      PROVE  d[i] = IF i < k THEN s[i] ELSE s[i + 1]
  <2>1. CASE i < k BY <2>1, <1>1, <1>2, <1>3, <1>8
  <2>2. CASE i >= k
    <3>1. i - (k - 1) \in 1 .. Len(s) - k BY <2>2, <1>1
    <3>2. b[i - (k - 1)] = s[i + 1] BY <3>1, <1>3, <1>1
    <3>3. QED BY <3>2, <2>2, <1>1, <1>2, <1>3, <1>8
  <2>3. QED BY <2>1, <2>2, <1>1
<1>7. QED BY <1>1, <1>2, <1>3, <1>4, <1>5, <1>8, <1>6

\* The two parts a sequence is cut in.
LEMMA CutShape ==
  ASSUME NEW S, NEW s \in Seq(S), NEW k \in 0 .. Len(s)
  PROVE  /\ SubSeq(s, 1, k) \in Seq(S) /\ Len(SubSeq(s, 1, k)) = k
         /\ \A i \in 1 .. k : SubSeq(s, 1, k)[i] = s[i]
         /\ SubSeq(s, k + 1, Len(s)) \in Seq(S) /\ Len(SubSeq(s, k + 1, Len(s))) = Len(s) - k
         /\ \A i \in 1 .. Len(s) - k : SubSeq(s, k + 1, Len(s))[i] = s[k + i]
<1>1. Len(s) \in Nat BY LenProperties
<1>2. QED BY <1>1

-----------------------------------------------------------------------------
(* Bytes.                                                                  *)

\* The bytes of a record are as many as its size.
LEMMA RecBytes ==
  ASSUME NEW r \in Rec
  PROVE  /\ r.off \in Nat /\ r.size \in Sizes /\ r.size \in Nat \ {0}
         /\ IsFiniteSet(bytes(r)) /\ Cardinality(bytes(r)) = r.size
         /\ r.off \in bytes(r)
<1>1. r.off \in Nat /\ r.size \in Sizes /\ r.size \in Nat \ {0}
  BY InsertPlaceAssumption DEF Rec
<1> DEFINE a == r.off
           b == r.off + r.size - 1
<1>5. a \in Int /\ b \in Int /\ a <= b /\ b - a + 1 = r.size BY <1>1
<1> HIDE DEF a, b
<1>2. IsFiniteSet(a .. b) /\ Cardinality(a .. b) = r.size
  BY <1>5, FS_Interval
<1>3. QED BY <1>1, <1>2 DEF bytes, a, b

LEMMA DisjointUnion ==
  ASSUME NEW S, NEW T, IsFiniteSet(S), IsFiniteSet(T), S \cap T = {}
  PROVE  IsFiniteSet(S \cup T) /\ Cardinality(S \cup T) = Cardinality(S) + Cardinality(T)
<1>1. Cardinality(S \cap T) = 0 BY FS_EmptySet
<1>2. Cardinality(S) \in Nat /\ Cardinality(T) \in Nat BY FS_CardinalityType
<1>3. /\ IsFiniteSet(S \cup T)
      /\ Cardinality(S \cup T) = Cardinality(S) + Cardinality(T) - Cardinality(S \cap T)
  BY FS_Union
<1>4. QED BY <1>1, <1>2, <1>3

\* Two lists share no byte when their records do not.
LEMMA DisjointBytes ==
  ASSUME NEW s, NEW t
  PROVE  disjoint(s, t) <=> bytesOf(s) \cap bytesOf(t) = {}
<1>1. ASSUME disjoint(s, t), NEW b \in bytesOf(s), b \in bytesOf(t) PROVE FALSE
  <2>1. PICK i \in DOMAIN s : b \in bytes(s[i]) BY <1>1 DEF bytesOf
  <2>2. PICK j \in DOMAIN t : b \in bytes(t[j]) BY <1>1 DEF bytesOf
  <2>3. QED BY <2>1, <2>2, <1>1 DEF disjoint
<1>2. ASSUME bytesOf(s) \cap bytesOf(t) = {}, NEW i \in DOMAIN s, NEW j \in DOMAIN t
      PROVE  bytes(s[i]) \cap bytes(t[j]) = {}
  <2>1. bytes(s[i]) \subseteq bytesOf(s) /\ bytes(t[j]) \subseteq bytesOf(t) BY Zenon DEF bytesOf
  <2>2. QED BY <2>1, <1>2
<1>3. QED BY <1>1, <1>2 DEF disjoint

LEMMA MemberBytes ==
  ASSUME NEW s, NEW i \in DOMAIN s
  PROVE  bytes(s[i]) \subseteq bytesOf(s)
  BY Zenon DEF bytesOf

\* A list with a record more, put anywhere.
LEMMA InsertBytes ==
  ASSUME NEW s \in Seq(Rec), NEW p \in 0 .. Len(s), NEW e \in Rec
  PROVE  /\ bytesOf(InsertAt(s, p + 1, e)) = bytesOf(s) \cup bytes(e)
         /\ alone(s) /\ bytesOf(s) \cap bytes(e) = {} => alone(InsertAt(s, p + 1, e))
<1> DEFINE t == InsertAt(s, p + 1, e)
<1>1. /\ t \in Seq(Rec) /\ Len(t) = Len(s) + 1 /\ Len(s) \in Nat
      /\ \A i \in 1 .. Len(s) + 1 : t[i] = IF i <= p THEN s[i] ELSE IF i = p + 1 THEN e ELSE s[i - 1]
  BY InsertAtShape, LenProperties
<1>2. DOMAIN t = 1 .. Len(s) + 1 /\ DOMAIN s = 1 .. Len(s) BY <1>1
<1> HIDE DEF t
<1>3. \A i \in DOMAIN s : t[IF i <= p THEN i ELSE i + 1] = s[i]
                          /\ (IF i <= p THEN i ELSE i + 1) \in DOMAIN t
  BY <1>1, <1>2
<1>4. t[p + 1] = e /\ p + 1 \in DOMAIN t BY <1>1, <1>2
<1>5. \A i \in DOMAIN t : i = p + 1 \/ \E j \in DOMAIN s : t[i] = s[j]
  <2>1. ASSUME NEW i \in DOMAIN t, i # p + 1
        PROVE  /\ (IF i <= p THEN i ELSE i - 1) \in DOMAIN s
               /\ t[i] = s[IF i <= p THEN i ELSE i - 1]
    BY <2>1, <1>1, <1>2
  <2>2. QED BY <2>1
<1>6. bytesOf(t) = bytesOf(s) \cup bytes(e)
  <2>1. ASSUME NEW b \in bytesOf(t) PROVE b \in bytesOf(s) \cup bytes(e)
    BY <2>1, <1>4, <1>5, Zenon DEF bytesOf
  <2>2. ASSUME NEW b \in bytesOf(s) PROVE b \in bytesOf(t)
    BY <2>2, <1>3, Zenon DEF bytesOf
  <2>3. bytes(e) \subseteq bytesOf(t) BY <1>4, MemberBytes
  <2>4. QED BY <2>1, <2>2, <2>3
<1>7. ASSUME alone(s), bytesOf(s) \cap bytes(e) = {} PROVE alone(t)
  <2>1. SUFFICES ASSUME NEW i \in DOMAIN t, NEW j \in DOMAIN t, i # j
                 PROVE  bytes(t[i]) \cap bytes(t[j]) = {}
    BY DEF alone
  <2>2. \A k \in DOMAIN s : bytes(s[k]) \cap bytes(e) = {} BY <1>7, MemberBytes
  <2>3. CASE i = p + 1 BY <2>1, <2>2, <2>3, <1>4, <1>5
  <2>4. CASE j = p + 1 BY <2>1, <2>2, <2>4, <1>4, <1>5
  <2>5. CASE i # p + 1 /\ j # p + 1
    <3>1. PICK k \in DOMAIN s : t[i] = s[k] /\ k = IF i <= p THEN i ELSE i - 1 BY <2>5, <1>1, <1>2
    <3>2. PICK l \in DOMAIN s : t[j] = s[l] /\ l = IF j <= p THEN j ELSE j - 1 BY <2>5, <1>1, <1>2
    <3>3. k # l BY <3>1, <3>2, <2>1, <2>5, <1>2
    <3>4. QED BY <3>1, <3>2, <3>3, <1>7 DEF alone
  <2>6. QED BY <2>3, <2>4, <2>5
<1>8. QED BY <1>6, <1>7 DEF t

\* A list that has of another each record at most once.
LEMMA PartBytes ==
  ASSUME NEW s, NEW t, NEW f \in [DOMAIN t -> DOMAIN s],
         \A i \in DOMAIN t : t[i] = s[f[i]],
         \A i, j \in DOMAIN t : i # j => f[i] # f[j]
  PROVE  /\ bytesOf(t) \subseteq bytesOf(s)
         /\ alone(s) => alone(t)
<1>1. bytesOf(t) \subseteq bytesOf(s)
  <2>1. ASSUME NEW b \in bytesOf(t) PROVE b \in bytesOf(s)
    <3>1. PICK i \in DOMAIN t : b \in bytes(t[i]) BY <2>1 DEF bytesOf
    <3>2. b \in bytes(s[f[i]]) /\ f[i] \in DOMAIN s BY <3>1
    <3>3. QED BY <3>2, MemberBytes
  <2>2. QED BY <2>1
<1>2. ASSUME alone(s) PROVE alone(t) BY <1>2 DEF alone
<1>3. QED BY <1>1, <1>2

\* A list without one of its records.
LEMMA RemoveBytes ==
  ASSUME NEW s \in Seq(Rec), NEW k \in 1 .. Len(s), alone(s)
  PROVE  /\ bytesOf(s) = bytesOf(RemoveAt(s, k)) \cup bytes(s[k])
         /\ bytesOf(RemoveAt(s, k)) \cap bytes(s[k]) = {}
         /\ alone(RemoveAt(s, k))
<1> DEFINE t == RemoveAt(s, k)
           f == [i \in 1 .. Len(s) - 1 |-> IF i < k THEN i ELSE i + 1]
<1>1. /\ t \in Seq(Rec) /\ Len(t) = Len(s) - 1 /\ Len(s) \in Nat
      /\ \A i \in 1 .. Len(s) - 1 : t[i] = IF i < k THEN s[i] ELSE s[i + 1]
  BY RemoveAtShape, LenProperties
<1>2. DOMAIN t = 1 .. Len(s) - 1 /\ DOMAIN s = 1 .. Len(s) BY <1>1
<1> HIDE DEF t
<1>3. /\ f \in [DOMAIN t -> DOMAIN s]
      /\ \A i \in DOMAIN t : t[i] = s[f[i]] /\ f[i] # k
      /\ \A i, j \in DOMAIN t : i # j => f[i] # f[j]
  BY <1>1, <1>2
<1>4. \A i \in DOMAIN s : i # k => \E j \in DOMAIN t : t[j] = s[i]
  <2>1. ASSUME NEW i \in DOMAIN s, i # k PROVE \E j \in DOMAIN t : t[j] = s[i]
    <3>1. CASE i < k BY <3>1, <1>1, <1>2
    <3>2. CASE i > k
      <4>1. i - 1 \in DOMAIN t /\ t[i - 1] = s[i] BY <3>2, <1>1, <1>2
      <4>2. QED BY <4>1
    <3>3. QED BY <2>1, <3>1, <3>2, <1>2
  <2>2. QED BY <2>1
<1> HIDE DEF f
<1>5. bytesOf(t) \subseteq bytesOf(s) /\ alone(t) BY <1>3, PartBytes
<1>6. bytes(s[k]) \subseteq bytesOf(s) BY <1>2, MemberBytes
<1>7. ASSUME NEW b \in bytesOf(s) PROVE b \in bytesOf(t) \cup bytes(s[k])
  <2>1. PICK i \in DOMAIN s : b \in bytes(s[i]) BY <1>7 DEF bytesOf
  <2>2. CASE i = k BY <2>1, <2>2
  <2>3. CASE i # k BY <2>1, <2>3, <1>4, Zenon DEF bytesOf
  <2>4. QED BY <2>2, <2>3
<1>8. ASSUME NEW b \in bytesOf(t) PROVE b \notin bytes(s[k])
  <2>1. PICK i \in DOMAIN t : b \in bytes(t[i]) BY <1>8 DEF bytesOf
  <2>2. b \in bytes(s[f[i]]) /\ f[i] # k /\ f[i] \in DOMAIN s BY <2>1, <1>3
  <2>3. QED BY <2>2, <1>2 DEF alone
<1>9. QED BY <1>5, <1>6, <1>7, <1>8 DEF t

\* The two parts of a list.
LEMMA CutBytes ==
  ASSUME NEW s \in Seq(Rec), NEW k \in 0 .. Len(s), alone(s)
  PROVE  /\ bytesOf(s) = bytesOf(SubSeq(s, 1, k)) \cup bytesOf(SubSeq(s, k + 1, Len(s)))
         /\ bytesOf(SubSeq(s, 1, k)) \cap bytesOf(SubSeq(s, k + 1, Len(s))) = {}
         /\ alone(SubSeq(s, 1, k)) /\ alone(SubSeq(s, k + 1, Len(s)))
<1> DEFINE t == SubSeq(s, 1, k)
           u == SubSeq(s, k + 1, Len(s))
           f == [i \in 1 .. k |-> i]
           g == [i \in 1 .. Len(s) - k |-> k + i]
<1>1. /\ t \in Seq(Rec) /\ Len(t) = k /\ u \in Seq(Rec) /\ Len(u) = Len(s) - k /\ Len(s) \in Nat
      /\ \A i \in 1 .. k : t[i] = s[i]
      /\ \A i \in 1 .. Len(s) - k : u[i] = s[k + i]
  BY CutShape, LenProperties
<1>2. DOMAIN t = 1 .. k /\ DOMAIN u = 1 .. Len(s) - k /\ DOMAIN s = 1 .. Len(s) BY <1>1
<1> HIDE DEF t, u
<1>3. /\ f \in [DOMAIN t -> DOMAIN s]
      /\ \A i \in DOMAIN t : t[i] = s[f[i]] /\ f[i] <= k
      /\ \A i, j \in DOMAIN t : i # j => f[i] # f[j]
  BY <1>1, <1>2
<1>4. /\ g \in [DOMAIN u -> DOMAIN s]
      /\ \A i \in DOMAIN u : u[i] = s[g[i]] /\ g[i] > k
      /\ \A i, j \in DOMAIN u : i # j => g[i] # g[j]
  BY <1>1, <1>2
<1>5. \A i \in DOMAIN s : (\E j \in DOMAIN t : t[j] = s[i]) \/ (\E j \in DOMAIN u : u[j] = s[i])
  <2>1. ASSUME NEW i \in DOMAIN s, i > k PROVE u[i - k] = s[i] /\ i - k \in DOMAIN u
    BY <2>1, <1>1, <1>2
  <2>2. ASSUME NEW i \in DOMAIN s, i <= k PROVE t[i] = s[i] /\ i \in DOMAIN t
    BY <2>2, <1>1, <1>2
  <2>3. QED BY <2>1, <2>2, <1>2
<1> HIDE DEF f, g
<1>6. bytesOf(t) \subseteq bytesOf(s) /\ alone(t) BY <1>3, PartBytes
<1>7. bytesOf(u) \subseteq bytesOf(s) /\ alone(u) BY <1>4, PartBytes
<1>8. bytesOf(s) \subseteq bytesOf(t) \cup bytesOf(u) BY <1>5, Zenon DEF bytesOf
<1>9. ASSUME NEW b \in bytesOf(t), b \in bytesOf(u) PROVE FALSE
  <2>1. PICK i \in DOMAIN t : b \in bytes(t[i]) BY <1>9 DEF bytesOf
  <2>2. PICK j \in DOMAIN u : b \in bytes(u[j]) BY <1>9 DEF bytesOf
  <2>3. b \in bytes(s[f[i]]) \cap bytes(s[g[j]]) BY <2>1, <2>2, <1>3, <1>4
  <2>4. f[i] # g[j] /\ f[i] \in DOMAIN s /\ g[j] \in DOMAIN s BY <1>2, <1>3, <1>4
  <2>5. QED BY <2>3, <2>4 DEF alone
<1>10. QED BY <1>6, <1>7, <1>8, <1>9 DEF t, u

\* Two lists put together.
LEMMA ConcatBytes ==
  ASSUME NEW s \in Seq(Rec), NEW t \in Seq(Rec)
  PROVE  /\ s \o t \in Seq(Rec) /\ Len(s \o t) = Len(s) + Len(t)
         /\ bytesOf(s \o t) = bytesOf(s) \cup bytesOf(t)
         /\ alone(s) /\ alone(t) /\ bytesOf(s) \cap bytesOf(t) = {} => alone(s \o t)
<1> DEFINE u == s \o t
<1>1. /\ u \in Seq(Rec) /\ Len(u) = Len(s) + Len(t) /\ Len(s) \in Nat /\ Len(t) \in Nat
      /\ \A i \in 1 .. Len(s) + Len(t) : u[i] = IF i <= Len(s) THEN s[i] ELSE t[i - Len(s)]
  BY ConcatProperties, LenProperties
<1>2. DOMAIN u = 1 .. Len(s) + Len(t) /\ DOMAIN s = 1 .. Len(s) /\ DOMAIN t = 1 .. Len(t) BY <1>1
<1> HIDE DEF u
<1>3. \A i \in DOMAIN s : i \in DOMAIN u /\ u[i] = s[i] BY <1>1, <1>2
<1>4. \A i \in DOMAIN t : Len(s) + i \in DOMAIN u /\ u[Len(s) + i] = t[i] BY <1>1, <1>2
<1>5. \A i \in DOMAIN u : \/ i \in DOMAIN s /\ u[i] = s[i]
                          \/ i - Len(s) \in DOMAIN t /\ u[i] = t[i - Len(s)]
  BY <1>1, <1>2
<1>6. bytesOf(u) = bytesOf(s) \cup bytesOf(t)
  <2>1. ASSUME NEW b \in bytesOf(u) PROVE b \in bytesOf(s) \cup bytesOf(t)
    <3>1. PICK i \in DOMAIN u : b \in bytes(u[i]) BY <2>1 DEF bytesOf
    <3>2. QED BY <3>1, <1>5, MemberBytes
  <2>2. bytesOf(s) \subseteq bytesOf(u) BY <1>3, Zenon DEF bytesOf
  <2>3. bytesOf(t) \subseteq bytesOf(u) BY <1>4, Zenon DEF bytesOf
  <2>4. QED BY <2>1, <2>2, <2>3
<1>7. ASSUME alone(s), alone(t), bytesOf(s) \cap bytesOf(t) = {}, NEW i \in DOMAIN u, NEW j \in DOMAIN u, i # j
      PROVE  bytes(u[i]) \cap bytes(u[j]) = {}
  <2>1. \A k \in DOMAIN s, l \in DOMAIN t : bytes(s[k]) \cap bytes(t[l]) = {}
    BY <1>7, DisjointBytes DEF disjoint
  <2>2. CASE i \in DOMAIN s /\ u[i] = s[i] /\ j \in DOMAIN s /\ u[j] = s[j] BY <2>2, <1>7 DEF alone
  <2>3. CASE i - Len(s) \in DOMAIN t /\ u[i] = t[i - Len(s)] /\ j - Len(s) \in DOMAIN t /\ u[j] = t[j - Len(s)]
    <3>1. i - Len(s) # j - Len(s) BY <1>7, <1>1, <1>2
    <3>2. QED BY <2>3, <3>1, <1>7 DEF alone
  <2>4. QED BY <2>1, <2>2, <2>3, <1>5
<1>8. QED BY <1>1, <1>6, <1>7 DEF u, alone

\* The bytes of the first k records of a list.
firstBytes(s, k) == UNION {bytes(s[j]) : j \in 1 .. k}

\* They are as many as those of the first k - 1 and the size of the next.
LEMMA FirstBytes ==
  ASSUME NEW s \in Seq(Rec), alone(s), IsFiniteSet(bytesOf(s))
  PROVE  /\ \A k \in 0 .. Len(s) :
              IsFiniteSet(firstBytes(s, k)) /\ Cardinality(firstBytes(s, k)) \in Nat
         /\ Cardinality(firstBytes(s, 0)) = 0
         /\ \A k \in 1 .. Len(s) :
              Cardinality(firstBytes(s, k)) = Cardinality(firstBytes(s, k - 1)) + s[k].size
         /\ \A j, k \in 0 .. Len(s) : j <= k =>
              Cardinality(firstBytes(s, j)) <= Cardinality(firstBytes(s, k))
         /\ firstBytes(s, Len(s)) = bytesOf(s)
<1>1. Len(s) \in Nat /\ DOMAIN s = 1 .. Len(s) /\ \A i \in 1 .. Len(s) : s[i] \in Rec
  BY LenProperties, ElementOfSeq
<1>2. ASSUME NEW j \in 0 .. Len(s), NEW k \in 0 .. Len(s), j <= k
      PROVE  firstBytes(s, j) \subseteq firstBytes(s, k)
  <2>1. 1 .. j \subseteq 1 .. k BY <1>2
  <2>2. QED BY <2>1, Zenon DEF firstBytes
<1>3. firstBytes(s, Len(s)) = bytesOf(s) BY <1>1 DEF firstBytes, bytesOf
<1>4. ASSUME NEW k \in 0 .. Len(s)
      PROVE  IsFiniteSet(firstBytes(s, k)) /\ Cardinality(firstBytes(s, k)) \in Nat
  <2>1. firstBytes(s, k) \subseteq bytesOf(s) BY <1>1, <1>2, <1>3
  <2>2. IsFiniteSet(firstBytes(s, k)) BY <2>1, FS_Subset
  <2>3. QED BY <2>2, FS_CardinalityType
<1>5. Cardinality(firstBytes(s, 0)) = 0
  <2>1. firstBytes(s, 0) = {} BY DEF firstBytes
  <2>2. QED BY <2>1, FS_EmptySet
<1>6. ASSUME NEW k \in 1 .. Len(s)
      PROVE  Cardinality(firstBytes(s, k)) = Cardinality(firstBytes(s, k - 1)) + s[k].size
  <2>1. k - 1 \in 0 .. Len(s) /\ 1 .. k = (1 .. k - 1) \cup {k} /\ k \notin 1 .. k - 1
        /\ 1 .. k - 1 \subseteq DOMAIN s /\ k \in DOMAIN s
    BY <1>1
  <2>2. firstBytes(s, k) = firstBytes(s, k - 1) \cup bytes(s[k])
    BY <2>1, Zenon DEF firstBytes
  <2>3. ASSUME NEW b \in firstBytes(s, k - 1), b \in bytes(s[k]) PROVE FALSE
    <3>1. PICK j \in 1 .. k - 1 : b \in bytes(s[j]) BY <2>3 DEF firstBytes
    <3>2. j \in DOMAIN s /\ k \in DOMAIN s /\ j # k BY <3>1, <2>1
    <3>3. QED BY <3>1, <3>2, <2>3 DEF alone
  <2>4. IsFiniteSet(bytes(s[k])) /\ Cardinality(bytes(s[k])) = s[k].size BY <1>1, RecBytes
  <2>5. QED BY <2>1, <2>2, <2>3, <2>4, <1>4, DisjointUnion
<1>7. ASSUME NEW j \in 0 .. Len(s), NEW k \in 0 .. Len(s), j <= k
      PROVE  Cardinality(firstBytes(s, j)) <= Cardinality(firstBytes(s, k))
  BY <1>2, <1>4, <1>7, FS_Subset
<1>8. QED BY <1>3, <1>4, <1>5, <1>6, <1>7

\* A compacted list has its records side by side from the start of the heap.
LEMMA Compacted ==
  ASSUME NEW s \in Seq(Rec), alone(s), IsFiniteSet(bytesOf(s))
  PROVE  /\ compacted(s) \in Seq(Rec) /\ Len(compacted(s)) = Len(s)
         /\ alone(compacted(s))
         /\ bytesOf(compacted(s)) =
              PAGE_NEW_SUPREMUM_END .. PAGE_NEW_SUPREMUM_END + Cardinality(bytesOf(s)) - 1
<1> DEFINE c == compacted(s)
           start == PAGE_NEW_SUPREMUM_END
           u[k \in 0 .. Len(s)] == Cardinality(firstBytes(s, k))
<1>1. /\ Len(s) \in Nat /\ DOMAIN s = 1 .. Len(s) /\ start \in Nat
      /\ \A i \in 1 .. Len(s) : s[i] \in Rec /\ s[i].size \in Nat \ {0}
  BY LenProperties, ElementOfSeq, RecBytes, InsertPlaceAssumption
<1>2. /\ u \in [0 .. Len(s) -> Nat]
      /\ u[0] = 0 /\ u[Len(s)] = Cardinality(bytesOf(s))
      /\ \A k \in 1 .. Len(s) : u[k] = u[k - 1] + s[k].size
      /\ \A j, k \in 0 .. Len(s) : j <= k => u[j] <= u[k]
  BY <1>1, FirstBytes, SMTT(30)
<1>3. \A i \in 1 .. Len(s) : c[i] = [s[i] EXCEPT !.off = start + u[i - 1]]
  BY <1>1 DEF compacted, firstBytes
<1>4. DOMAIN c = 1 .. Len(s) BY <1>1 DEF compacted
<1> HIDE DEF u
<1>5. \A i \in 1 .. Len(s) : c[i] \in Rec /\ c[i].off = start + u[i - 1] /\ c[i].size = s[i].size
  <2> HIDE DEF c, start
  <2>1. SUFFICES ASSUME NEW i \in 1 .. Len(s)
                 PROVE  c[i] \in Rec /\ c[i].off = start + u[i - 1] /\ c[i].size = s[i].size
    OBVIOUS
  <2>2. i - 1 \in 0 .. Len(s) /\ u[i - 1] \in Nat /\ start + u[i - 1] \in Nat BY <1>1, <1>2, SMTT(30)
  <2>3. s[i] \in Rec /\ c[i] = [s[i] EXCEPT !.off = start + u[i - 1]] BY <1>1, <1>3
  <2>4. QED BY <2>2, <2>3 DEF Rec
<1>6. c \in Seq(Rec) /\ Len(c) = Len(s)
  <2>1. c = [i \in 1 .. Len(s) |-> c[i]] BY <1>4, <1>1 DEF compacted
  <2>2. c \in [1 .. Len(s) -> Rec] BY <2>1, <1>5
  <2>3. QED BY <2>2, <1>1, <1>4, SeqDef
<1> HIDE DEF c
<1>7. \A i \in 1 .. Len(s) : bytes(c[i]) = start + u[i - 1] .. start + u[i] - 1
  <2>1. SUFFICES ASSUME NEW i \in 1 .. Len(s)
                 PROVE  bytes(c[i]) = start + u[i - 1] .. start + u[i] - 1
    OBVIOUS
  <2>2. u[i - 1] \in Nat /\ u[i] = u[i - 1] + s[i].size /\ s[i].size \in Nat
        /\ c[i].off = start + u[i - 1] /\ c[i].size = s[i].size
    BY <1>1, <1>2, <1>5, SMTT(30)
  <2>3. c[i].off + c[i].size - 1 = start + u[i] - 1 BY <2>2, <1>1
  <2>4. QED BY <2>2, <2>3 DEF bytes
<1>8. ASSUME NEW i \in 1 .. Len(s), NEW j \in 1 .. Len(s), i < j
      PROVE  bytes(c[i]) \cap bytes(c[j]) = {}
  <2>1. i \in 0 .. Len(s) /\ j - 1 \in 0 .. Len(s) /\ i - 1 \in 0 .. Len(s) /\ j \in 0 .. Len(s)
        /\ i <= j - 1
    BY <1>8, <1>1
  <2>2. u[i] <= u[j - 1] /\ u[i] \in Nat /\ u[j - 1] \in Nat /\ u[j] \in Nat /\ u[i - 1] \in Nat
    BY <2>1, <1>2
  <2>3. /\ bytes(c[i]) = start + u[i - 1] .. start + u[i] - 1
        /\ bytes(c[j]) = start + u[j - 1] .. start + u[j] - 1
    BY <1>7
  <2>4. QED BY <2>2, <2>3, <1>1, SMTT(30)
<1>9. alone(c)
  <2>1. SUFFICES ASSUME NEW i \in 1 .. Len(s), NEW j \in 1 .. Len(s), i # j
                 PROVE  bytes(c[i]) \cap bytes(c[j]) = {}
    BY <1>4 DEF alone
  <2>2. CASE i < j BY <2>2, <1>8
  <2>3. CASE j < i BY <2>3, <1>8
  <2>4. QED BY <2>1, <2>2, <2>3, <1>1
<1>10. ASSUME NEW b \in bytesOf(c) PROVE b \in start .. start + u[Len(s)] - 1
  <2>1. PICK i \in 1 .. Len(s) : b \in bytes(c[i]) BY <1>10, <1>4 DEF bytesOf
  <2>2. u[i] <= u[Len(s)] /\ u[i] \in Nat /\ u[i - 1] \in Nat /\ u[Len(s)] \in Nat BY <1>1, <1>2, SMTT(30)
  <2>3. b \in start + u[i - 1] .. start + u[i] - 1 BY <2>1, <1>7
  <2>4. QED BY <2>2, <2>3, <1>1, SMTT(30)
<1>11. ASSUME NEW b \in start .. start + u[Len(s)] - 1 PROVE b \in bytesOf(c)
  <2> DEFINE T == {k \in 0 .. Len(s) : b - start < u[k]}
  <2>1. u[Len(s)] \in Nat /\ b \in Nat /\ b - start \in Nat /\ b - start < u[Len(s)] BY <1>1, <1>2, <1>11
  <2>2. T \in SUBSET Nat /\ Len(s) \in T /\ 0 \notin T BY <2>1, <1>1, <1>2
  <2>3. Min(T) \in T /\ \A k \in T : Min(T) <= k
    <3> HIDE DEF T
    <3>1. QED BY <2>2, LeastOf
  <2>4. PICK i \in 1 .. Len(s) : i = Min(T)
    <3>1. Min(T) \in 0 .. Len(s) /\ Min(T) # 0 BY <2>2, <2>3
    <3> HIDE DEF T
    <3>2. Min(T) \in 1 .. Len(s) BY <3>1, <1>1
    <3>3. QED BY <3>2
  <2>5. b - start < u[i] /\ i - 1 \in 0 .. Len(s) /\ ~(b - start < u[i - 1])
    <3>1. i \in T /\ i - 1 \notin T BY <2>3, <2>4
    <3>2. i - 1 \in 0 .. Len(s) BY <1>1
    <3>3. QED BY <3>1, <3>2
  <2>6. b \in bytes(c[i])
    <3>1. bytes(c[i]) = start + u[i - 1] .. start + u[i] - 1 BY <1>7
    <3>2. u[i] \in Nat /\ u[i - 1] \in Nat BY <2>5, <1>1, <1>2, SMTT(30)
    <3>3. QED BY <3>1, <3>2, <2>1, <2>5, <1>1, SMTT(30)
  <2>7. QED BY <2>6, <1>4, MemberBytes
<1>12. bytesOf(c) = start .. start + u[Len(s)] - 1 BY <1>10, <1>11
<1>13. QED BY <1>2, <1>6, <1>9, <1>12 DEF c

-----------------------------------------------------------------------------
(* Slots.                                                                  *)

\* Each slot but the last has records enough: they are as many as k slots need.
LEMMA SlotsFew ==
  ASSUME NEW n \in Nat, NEW o \in [1 .. n + 1 -> Nat], slotsCount(o, n)
  PROVE  /\ Cardinality({i \in 1 .. n : o[i] > 0}) \in Nat
         /\ Cardinality({i \in 1 .. n : o[i] > 0}) * PAGE_DIR_SLOT_MIN_N_OWNED <= n
<1> DEFINE D == {i \in 1 .. n : o[i] > 0}
           m == PAGE_DIR_SLOT_MIN_N_OWNED
           P == D \X (1 .. m)
           f == [x \in P |-> x[1] - x[2] + 1]
<1>1. m \in Nat /\ m \in Int /\ m >= 1 BY InsertPlaceAssumption
<1> HIDE DEF m
<1>2. IsFiniteSet(1 .. n) /\ Cardinality(1 .. n) = n BY FS_Interval
<1>3. IsFiniteSet(1 .. m) /\ Cardinality(1 .. m) = m
  <2>1. 1 \in Int OBVIOUS
  <2>2. /\ IsFiniteSet(1 .. m)
        /\ Cardinality(1 .. m) = IF 1 > m THEN 0 ELSE m - 1 + 1
    BY <2>1, <1>1, FS_Interval, Zenon
  <2>3. QED BY <2>2, <1>1
<1>4. IsFiniteSet(D) /\ Cardinality(D) \in Nat
  <2>1. D \in SUBSET (1 .. n) OBVIOUS
  <2> HIDE DEF D
  <2>2. IsFiniteSet(D) BY <2>1, <1>2, FS_Subset
  <2>3. QED BY <2>2, FS_CardinalityType
<1>5. IsFiniteSet(P) /\ Cardinality(P) = Cardinality(D) * m
  <2> HIDE DEF D
  <2>1. QED BY <1>3, <1>4, FS_Product
<1>6. \A i \in D : /\ i \in 1 .. n /\ o[i] \in Nat /\ o[i] >= m /\ i - o[i] >= 0
                   /\ \A j \in D : j < i => j <= i - o[i]
  <2>1. SUFFICES ASSUME NEW i \in D
                 PROVE  /\ o[i] >= m /\ i - o[i] >= 0
                        /\ \A j \in D : j < i => j <= i - o[i]
    OBVIOUS
  <2>2. i \in 1 .. n + 1 /\ i <= n /\ o[i] > 0 OBVIOUS
  <2>3. /\ i - o[i] = 0 \/ i - o[i] > 0
        /\ \A j \in i - o[i] + 1 .. i - 1 : o[j] = 0
        /\ o[i] >= m
    BY <2>2 DEF slotsCount, m
  <2>4. ASSUME NEW j \in D, j < i PROVE j <= i - o[i]
    BY <2>2, <2>3, <2>4, SMTT(30)
  <2>5. QED BY <2>3, <2>4
<1>7. f \in [P -> 1 .. n]
  <2>1. ASSUME NEW x \in P PROVE x[1] - x[2] + 1 \in 1 .. n
    <3>1. x[1] \in D /\ x[2] \in 1 .. m OBVIOUS
    <3> HIDE DEF D
    <3>2. QED BY <3>1, <1>1, <1>6, SMTT(30)
  <2>2. QED BY <2>1
<1>8. \A x, y \in P : f[x] = f[y] => x = y
  <2>1. ASSUME NEW x \in P, NEW y \in P, f[x] = f[y], x[1] < y[1] PROVE FALSE
    <3>1. x[1] \in D /\ x[2] \in 1 .. m /\ y[1] \in D /\ y[2] \in 1 .. m OBVIOUS
    <3>2. x[1] - x[2] + 1 = y[1] - y[2] + 1 BY <2>1
    <3> HIDE DEF D
    <3>3. x[1] <= y[1] - o[y[1]] /\ o[y[1]] >= m /\ o[y[1]] \in Nat /\ x[1] \in Nat /\ y[1] \in Nat
      BY <3>1, <2>1, <1>6, SMTT(30)
    <3>4. QED BY <3>1, <3>2, <3>3, <1>1, SMTT(30)
  <2>2. ASSUME NEW x \in P, NEW y \in P, f[x] = f[y] PROVE x = y
    <3>1. x[1] \in D /\ x[2] \in 1 .. m /\ y[1] \in D /\ y[2] \in 1 .. m OBVIOUS
    <3>2. x[1] - x[2] + 1 = y[1] - y[2] + 1 BY <2>2
    <3>3. x[1] = y[1]
      <4>1. ~(x[1] < y[1]) BY <2>1, <2>2
      <4>2. ~(y[1] < x[1]) BY <2>1, <2>2
      <4>3. x[1] \in Int /\ y[1] \in Int BY <3>1
      <4>4. QED BY <4>1, <4>2, <4>3
    <3>4. x[2] = y[2] BY <3>1, <3>2, <3>3
    <3>5. QED BY <3>3, <3>4
  <2>3. QED BY <2>2
<1>9. Cardinality(P) <= Cardinality(1 .. n)
  <2> HIDE DEF P, f
  <2>1. f \in Injection(P, 1 .. n) BY <1>7, <1>8 DEF Injection, IsInjective
  <2>2. QED BY <2>1, <1>2, FS_Injection
<1>10. QED BY <1>2, <1>4, <1>5, <1>9 DEF m

\* Whatever division of a page the server makes counts right.
LEMMA GroupingsCount ==
  ASSUME NEW n \in Nat, NEW o \in groupings(n)
  PROVE  o \in [1 .. n + 1 -> 0 .. PAGE_DIR_SLOT_MAX_N_OWNED] /\ slotsCount(o, n)
<1> DEFINE last(G, i) == Max({g \in G : g < i} \cup {0})
           own(G)     == [i \in 1 .. n + 1 |-> IF i \in G \cup {n + 1} THEN i - last(G, i) ELSE 0]
<1>1. PICK G \in SUBSET (1 .. n) : o = own(G) BY DEF groupings
<1>2. /\ \A i \in 1 .. n : o[i] = 0 \/ o[i] >= PAGE_DIR_SLOT_MIN_N_OWNED
      /\ \A i \in 1 .. n + 1 : o[i] <= PAGE_DIR_SLOT_MAX_N_OWNED
  BY DEF groupings
<1>3. ASSUME NEW i \in 1 .. n + 1
      PROVE  /\ last(G, i) \in Nat /\ last(G, i) < i
             /\ last(G, i) = 0 \/ last(G, i) \in G
             /\ \A j \in last(G, i) + 1 .. i - 1 : j \notin G
  <2> DEFINE T == {g \in G : g < i} \cup {0}
  <2>1. T \in SUBSET (0 .. n) /\ T # {}
    <3>1. \A g \in T : g \in 0 .. n OBVIOUS
    <3>2. 0 \in T OBVIOUS
    <3>3. QED BY <3>1, <3>2
  <2>2. Max(T) \in T /\ \A y \in T : y <= Max(T)
    <3> HIDE DEF T
    <3>1. QED BY <2>1, GreatestOf
  <2>3. Max(T) \in Nat /\ Max(T) < i /\ (Max(T) = 0 \/ Max(T) \in G)
    <3>1. \A g \in T : g \in Nat /\ g < i /\ (g = 0 \/ g \in G) OBVIOUS
    <3> HIDE DEF T
    <3>2. QED BY <3>1, <2>2
  <2>4. ASSUME NEW j \in Max(T) + 1 .. i - 1 PROVE j \notin G
    <3>1. j \in G /\ j < i => j \in T OBVIOUS
    <3> HIDE DEF T
    <3>2. QED BY <3>1, <2>2, <2>3, <2>4
  <2>5. QED BY <2>3, <2>4
<1> HIDE DEF last
<1>4. \A i \in 1 .. n + 1 : o[i] = IF i \in G \cup {n + 1} THEN i - last(G, i) ELSE 0 BY <1>1
<1>5. PAGE_DIR_SLOT_MAX_N_OWNED \in Nat BY InsertPlaceAssumption
<1>6. o \in [1 .. n + 1 -> 0 .. PAGE_DIR_SLOT_MAX_N_OWNED]
  <2>1. \A i \in 1 .. n + 1 : o[i] \in 0 .. PAGE_DIR_SLOT_MAX_N_OWNED BY <1>2, <1>3, <1>4, <1>5
  <2>2. QED BY <2>1, <1>1
<1>7. o[n + 1] > 0 BY <1>3, <1>4
<1>8. ASSUME NEW i \in 1 .. n + 1, o[i] > 0
      PROVE  /\ i - o[i] = 0 \/ (i - o[i] > 0 /\ o[i - o[i]] > 0)
             /\ \A j \in i - o[i] + 1 .. i - 1 : o[j] = 0
  <2>1. i \in G \cup {n + 1} /\ o[i] = i - last(G, i) BY <1>8, <1>4
  <2>2. i - o[i] = last(G, i) BY <2>1, <1>3
  <2>3. last(G, i) \in G => o[last(G, i)] > 0
    <3>1. SUFFICES ASSUME last(G, i) \in G PROVE o[last(G, i)] > 0 OBVIOUS
    <3>2. PICK k \in 1 .. n : k = last(G, i) BY <3>1
    <3>3. k \in G /\ k \in 1 .. n + 1 BY <3>1, <3>2
    <3>4. o[k] = k - last(G, k) BY <3>3, <1>4
    <3>5. QED BY <3>2, <3>3, <3>4, <1>3
  <2>4. ASSUME NEW j \in last(G, i) + 1 .. i - 1 PROVE o[j] = 0
    <3>1. j \notin G /\ j \in 1 .. n + 1 /\ j # n + 1 BY <1>3
    <3>2. QED BY <3>1, <1>4
  <2>5. QED BY <2>2, <2>3, <2>4, <1>3
<1>9. QED BY <1>2, <1>6, <1>7, <1>8, <1>4 DEF slotsCount

\* The slot the plan names is that of the next record that owns one.
LEMMA OwnerIsNext ==
  ASSUME TypeOK, SlotsCount, NEW p \in 0 .. NRecs
  PROVE  /\ owner(p) \in p + 1 .. NRecs + 1
         /\ owned[owner(p)] > 0
         /\ \A j \in p + 1 .. owner(p) - 1 : owned[j] = 0
<1> DEFINE T == {i \in p + 1 .. NRecs + 1 : owned[i] > 0}
<1>1. NRecs \in Nat BY LenProperties DEF TypeOK, NRecs
<1>2. T \in SUBSET Nat /\ NRecs + 1 \in T BY <1>1 DEF SlotsCount, slotsCount
<1>3. Min(T) \in T /\ \A y \in T : Min(T) <= y
  <2> HIDE DEF T
  <2>1. QED BY <1>2, LeastOf
<1>4. owner(p) = Min(T) BY DEF owner
<1>5. ASSUME NEW j \in p + 1 .. owner(p) - 1 PROVE owned[j] = 0
  <2>1. owner(p) \in p + 1 .. NRecs + 1 BY <1>3, <1>4
  <2>2. j \in p + 1 .. NRecs + 1 /\ ~(owner(p) <= j) BY <2>1, <1>1
  <2>3. j \notin T BY <2>2, <1>3, <1>4
  <2>4. ~(owned[j] > 0) BY <2>2, <2>3
  <2>5. owned[j] \in Nat BY <2>2, <1>1 DEF TypeOK
  <2>6. QED BY <2>4, <2>5
<1>6. QED BY <1>3, <1>4, <1>5

\* The slots count right after the new record joined the slot the plan names, and
\* that was split when the plan says so.
LEMMA JoinCounts ==
  ASSUME TypeOK, SlotsCount, NEW p \in 0 .. NRecs
  PROVE  /\ joinSlot(p) \in [1 .. NRecs + 2 -> 0 .. PAGE_DIR_SLOT_MAX_N_OWNED]
         /\ slotsCount(joinSlot(p), NRecs + 1)
<1> DEFINE n == NRecs
           o == owned
           w == owner(p)
           M == PAGE_DIR_SLOT_MAX_N_OWNED
           m == PAGE_DIR_SLOT_MIN_N_OWNED
           t == InsertAt(owned, p + 1, 0)
           lower == (o[w] + 1) \div 2
           upper == (o[w] + 1) - lower
           joined == [t EXCEPT ![w + 1] = o[w] + 1]
<1>1. /\ n \in Nat /\ M \in Nat /\ m \in Nat /\ m >= 1 /\ 2 * m <= M + 1
      /\ o \in [1 .. n + 1 -> Nat] /\ \A i \in 1 .. n + 1 : o[i] \in Nat /\ o[i] <= M
  BY LenProperties, InsertPlaceAssumption DEF TypeOK, NRecs
<1>2. w \in p + 1 .. n + 1 /\ o[w] > 0 /\ \A j \in p + 1 .. w - 1 : o[j] = 0
  BY OwnerIsNext
<1>3. /\ o[n + 1] > 0
      /\ \A i \in 1 .. n + 1 : o[i] > 0 =>
           /\ i - o[i] = 0 \/ (i - o[i] > 0 /\ o[i - o[i]] > 0)
           /\ \A j \in i - o[i] + 1 .. i - 1 : o[j] = 0
           /\ i <= n => o[i] >= m
  BY DEF SlotsCount, slotsCount
<1>4. o \in Seq(Nat) /\ Len(o) = n + 1 BY <1>1
<1>5. /\ Len(t) = n + 2 /\ t \in Seq(Nat)
      /\ \A i \in 1 .. n + 2 : t[i] = IF i <= p THEN o[i] ELSE IF i = p + 1 THEN 0 ELSE o[i - 1]
  <2>1. owned \in Seq(Nat) /\ Len(owned) = NRecs + 1 /\ p \in 0 .. Len(owned) /\ 0 \in Nat
    BY <1>1, <1>4
  <2>2. /\ t \in Seq(Nat)
        /\ Len(t) = Len(owned) + 1
        /\ \A i \in 1 .. Len(owned) + 1 :
             t[i] = IF i <= p THEN owned[i] ELSE IF i = p + 1 THEN 0 ELSE owned[i - 1]
    <3> DEFINE q == owned
               z == 0
               N == Nat
    <3>1. q \in Seq(N) /\ p \in 0 .. Len(q) /\ z \in N BY <2>1
    <3> HIDE DEF q, z, N
    <3>2. /\ InsertAt(q, p + 1, z) \in Seq(N)
          /\ Len(InsertAt(q, p + 1, z)) = Len(q) + 1
          /\ \A i \in 1 .. Len(q) + 1 :
               InsertAt(q, p + 1, z)[i] = IF i <= p THEN q[i] ELSE IF i = p + 1 THEN z ELSE q[i - 1]
      BY <3>1, InsertAtShape
    <3>3. QED BY <3>2 DEF q, z, N
  <2> HIDE DEF t
  <2>3. Len(owned) + 1 = n + 2 BY <2>1, <1>1
  <2>4. QED BY <2>2, <2>3
<1>6. slotSplit(p) <=> o[w] + 1 > M BY DEF slotSplit
<1>7. /\ slotSplit(p) => joinSlot(p) = [[joined EXCEPT ![w + 1] = upper] EXCEPT ![(w + 1) - upper] = lower]
      /\ ~slotSplit(p) => joinSlot(p) = joined
  <2>1. CASE slotSplit(p) BY <2>1, Zenon DEF joinSlot
  <2>2. CASE ~slotSplit(p) BY <2>2, Zenon DEF joinSlot
  <2>3. QED BY <2>1, <2>2
<1> HIDE DEF n, o, w, M, m, t
<1>8. DOMAIN t = 1 .. n + 2 BY <1>5, <1>1
<1>9. /\ joined \in [1 .. n + 2 -> Nat]
      /\ joined[w + 1] = o[w] + 1
      /\ \A i \in 1 .. n + 2 : i # w + 1 =>
           joined[i] = IF i <= p THEN o[i] ELSE IF i = p + 1 THEN 0 ELSE o[i - 1]
  <2>1. w + 1 \in 1 .. n + 2 /\ o[w] + 1 \in Nat BY <1>1, <1>2
  <2>2. DOMAIN joined = 1 .. n + 2 BY <1>8
  <2>3. joined[w + 1] = o[w] + 1 BY <2>1, <1>8
  <2>4. \A i \in 1 .. n + 2 : i # w + 1 => joined[i] = t[i] BY <2>1, <1>8
  <2>5. \A i \in 1 .. n + 2 : t[i] \in Nat BY <1>5, <1>8, ElementOfSeq
  <2>6. joined = [i \in 1 .. n + 2 |-> joined[i]] BY <1>8
  <2> HIDE DEF joined
  <2>7. \A i \in 1 .. n + 2 : joined[i] \in Nat BY <2>1, <2>3, <2>4, <2>5
  <2>8. joined \in [1 .. n + 2 -> Nat] BY <2>6, <2>7
  <2>9. QED BY <2>3, <2>4, <2>8, <1>5
<1> HIDE DEF joined
\* The slot joined takes up where the one before it ends.
<1>10. /\ w - o[w] \in 0 .. p
       /\ \A j \in w - o[w] + 1 .. w : joined[j] = 0
       /\ w - o[w] > 0 => joined[w - o[w]] > 0
  <2>1. w - o[w] <= p
    <3>1. SUFFICES ASSUME w - o[w] >= p + 1 PROVE FALSE BY <1>1, <1>2
    <3>2. o[w - o[w]] > 0 /\ w - o[w] \in p + 1 .. w - 1 BY <3>1, <1>1, <1>2, <1>3
    <3>3. QED BY <3>2, <1>2
  <2>2. w - o[w] \in 0 .. p BY <2>1, <1>1, <1>2, <1>3
  <2>3. ASSUME NEW j \in w - o[w] + 1 .. w PROVE joined[j] = 0
    <3>1. j \in 1 .. n + 2 /\ j # w + 1 BY <2>2, <1>1, <1>2
    <3>2. CASE j <= p
      <4>1. j \in w - o[w] + 1 .. w - 1 BY <3>2, <2>2, <1>2, <1>1
      <4>2. o[j] = 0 BY <4>1, <1>1, <1>2, <1>3
      <4>3. QED BY <4>2, <3>1, <3>2, <1>9
    <3>3. CASE j = p + 1 BY <3>1, <3>3, <1>1, <1>9
    <3>4. CASE j > p + 1
      <4>1. j - 1 \in p + 1 .. w - 1 BY <3>4, <1>1, <1>2
      <4>2. QED BY <4>1, <3>1, <3>4, <1>1, <1>2, <1>9
    <3>5. QED BY <3>2, <3>3, <3>4, <1>1, <1>2
  <2>4. ASSUME w - o[w] > 0 PROVE joined[w - o[w]] > 0
    <3>1. o[w - o[w]] > 0 BY <2>4, <1>1, <1>2, <1>3
    <3>2. w - o[w] \in 1 .. n + 2 /\ w - o[w] <= p /\ w - o[w] # w + 1 BY <2>2, <2>4, <1>1, <1>2
    <3>3. QED BY <3>1, <3>2, <1>9
  <2>5. QED BY <2>2, <2>3, <2>4
\* The slots before it are as they were.
<1>11. ASSUME NEW i \in 1 .. p, joined[i] > 0
       PROVE  /\ joined[i] = o[i] /\ o[i] >= m /\ o[i] <= M
              /\ i - o[i] = 0 \/ (i - o[i] > 0 /\ joined[i - o[i]] > 0)
              /\ \A j \in i - o[i] + 1 .. i - 1 : joined[j] = 0
  <2>1. i \in 1 .. n + 2 /\ i # w + 1 /\ i \in 1 .. n + 1 /\ i <= n BY <1>1, <1>2
  <2>2. joined[i] = o[i] BY <2>1, <1>9
  <2>3. /\ i - o[i] = 0 \/ (i - o[i] > 0 /\ o[i - o[i]] > 0)
        /\ \A j \in i - o[i] + 1 .. i - 1 : o[j] = 0
        /\ o[i] >= m /\ o[i] <= M /\ o[i] \in Nat /\ i - o[i] >= 0
    BY <2>1, <2>2, <1>11, <1>1, <1>3
  <2>4. \A j \in 1 .. p : joined[j] = o[j] BY <1>1, <1>2, <1>9, SMTT(30)
  <2>5. i - o[i] > 0 => i - o[i] \in 1 .. p BY <2>3, <1>1, SMTT(30)
  <2>6. \A j \in i - o[i] + 1 .. i - 1 : j \in 1 .. p BY <2>3, <1>1
  <2>7. QED BY <2>2, <2>3, <2>4, <2>5, <2>6
\* Those after it are too, one record later.
<1>12. ASSUME NEW i \in w + 2 .. n + 2, joined[i] > 0
       PROVE  /\ joined[i] = o[i - 1] /\ (i <= n + 1 => o[i - 1] >= m) /\ o[i - 1] <= M
              /\ i - joined[i] >= w + 1 /\ joined[i - joined[i]] > 0
              /\ \A j \in i - joined[i] + 1 .. i - 1 : joined[j] = 0
  <2> DEFINE k == i - 1
  <2>1. k \in w + 1 .. n + 1 /\ k \in 1 .. n + 1 /\ i \in 1 .. n + 2 /\ i # w + 1 /\ i > p + 1
        /\ i = k + 1 /\ (i <= n + 1 => k <= n)
    BY <1>1, <1>2
  <2> HIDE DEF k
  <2>2. joined[i] = o[k] BY <2>1, <1>1, <1>9 DEF k
  <2>3. /\ k - o[k] = 0 \/ (k - o[k] > 0 /\ o[k - o[k]] > 0)
        /\ \A j \in k - o[k] + 1 .. k - 1 : o[j] = 0
        /\ k <= n => o[k] >= m
        /\ o[k] <= M /\ o[k] \in Nat /\ o[k] > 0
    BY <2>1, <2>2, <1>12, <1>1, <1>3
  <2>4. k - o[k] >= w
    <3>1. SUFFICES ASSUME k - o[k] < w PROVE FALSE BY <2>1, <2>3, <1>1, <1>2
    <3>2. w \in k - o[k] + 1 .. k - 1 BY <3>1, <2>1, <2>3, <1>1, <1>2
    <3>3. QED BY <3>2, <2>3, <1>2
  <2>5. \A j \in w + 2 .. n + 2 : joined[j] = o[j - 1] BY <1>1, <1>2, <1>9
  <2>6. joined[w + 1] > 0 BY <1>1, <1>2, <1>9
  <2>7. joined[k - o[k] + 1] > 0
    <3>1. CASE k - o[k] = w BY <3>1, <2>6
    <3>2. CASE k - o[k] > w
      <4>1. k - o[k] + 1 \in w + 2 .. n + 2 /\ (k - o[k] + 1) - 1 = k - o[k] BY <3>2, <2>1, <2>3, <1>1, <1>2, SMTT(30)
      <4>2. o[k - o[k]] > 0 BY <3>2, <2>3, <1>1, <1>2
      <4>3. QED BY <4>1, <4>2, <2>5
    <3>3. QED BY <3>1, <3>2, <2>1, <2>3, <2>4, <1>1, <1>2, SMTT(30)
  <2>8. ASSUME NEW j \in k - o[k] + 2 .. k PROVE joined[j] = 0
    <3>1. j \in w + 2 .. n + 2 /\ j - 1 \in k - o[k] + 1 .. k - 1 BY <2>1, <2>3, <2>4, <1>1, <1>2, SMTT(30)
    <3>2. QED BY <3>1, <2>3, <2>5
  <2>9. i - joined[i] = k - o[k] + 1 /\ i - 1 = k BY <2>1, <2>2, <2>3
  <2>10. QED BY <2>1, <2>2, <2>3, <2>4, <2>7, <2>8, <2>9, <1>1, <1>2, SMTT(30)
<1>13. CASE ~slotSplit(p)
  <2>1. joinSlot(p) = joined /\ o[w] + 1 <= M BY <1>13, <1>1, <1>2, <1>6, <1>7
  <2>2. ASSUME NEW i \in 1 .. n + 2, joined[i] > 0
        PROVE  /\ i - joined[i] = 0 \/ (i - joined[i] > 0 /\ joined[i - joined[i]] > 0)
               /\ \A j \in i - joined[i] + 1 .. i - 1 : joined[j] = 0
               /\ joined[i] <= M
               /\ i <= n + 1 => joined[i] >= m
    <3>1. CASE i \in 1 .. p BY <3>1, <2>2, <1>11
    <3>2. CASE i = p + 1
      <4>1. i # w + 1 BY <3>2, <1>2, <1>1
      <4>2. QED BY <4>1, <3>2, <2>2, <1>9, <1>1
    <3>3. CASE i \in p + 2 .. w
      <4>1. i \in w - o[w] + 1 .. w BY <3>3, <1>10, <1>1, <1>2
      <4>2. QED BY <4>1, <2>2, <1>10
    <3>4. CASE i = w + 1
      <4>1. joined[i] = o[w] + 1 /\ i - joined[i] = w - o[w] /\ i - 1 = w BY <3>4, <1>9, <1>1, <1>2, SMTT(30)
      <4>2. i <= n + 1 => o[w] >= m BY <3>4, <1>1, <1>2, <1>3
      <4>3. QED BY <4>1, <4>2, <2>1, <1>10, <1>1, <1>2, SMTT(30)
    <3>5. CASE i \in w + 2 .. n + 2
      <4>1. /\ joined[i] = o[i - 1] /\ (i <= n + 1 => o[i - 1] >= m) /\ o[i - 1] <= M
            /\ i - joined[i] >= w + 1 /\ joined[i - joined[i]] > 0
            /\ \A j \in i - joined[i] + 1 .. i - 1 : joined[j] = 0
        BY <3>5, <2>2, <1>12
      <4>2. i - joined[i] > 0
        <5>1. i \in Nat /\ joined[i] \in Nat /\ w \in Nat BY <3>5, <1>9, <1>1, <1>2, SMTT(30)
        <5>2. QED BY <4>1, <5>1
      <4>3. QED BY <4>1, <4>2
    <3>6. QED BY <3>1, <3>2, <3>3, <3>4, <3>5, <1>1, <1>2
  <2>3. joined[n + 2] > 0
    <3>1. CASE w = n + 1 BY <3>1, <1>1, <1>2, <1>9
    <3>2. CASE w < n + 1 BY <3>2, <1>1, <1>2, <1>3, <1>9
    <3>3. QED BY <3>1, <3>2, <1>1, <1>2
  <2>4. slotsCount(joined, n + 1)
    <3>1. n + 1 + 1 = n + 2 BY <1>1
    <3>2. QED BY <3>1, <2>2, <2>3 DEF slotsCount, M, m
  <2>5. joined \in [1 .. n + 2 -> 0 .. M]
    <3>1. \A i \in 1 .. n + 2 : joined[i] \in Nat /\ joined[i] <= M
      <4>1. SUFFICES ASSUME NEW i \in 1 .. n + 2 PROVE joined[i] \in Nat /\ joined[i] <= M OBVIOUS
      <4>2. CASE joined[i] > 0 BY <4>2, <2>2, <1>9
      <4>3. CASE ~(joined[i] > 0) BY <4>3, <1>9, <1>1
      <4>4. QED BY <4>2, <4>3
    <3>2. QED BY <3>1, <1>9, <1>1
  <2>6. QED BY <2>1, <2>4, <2>5 DEF n, M
<1>14. CASE slotSplit(p)
  <2> DEFINE a == (w + 1) - upper
             s == [[joined EXCEPT ![w + 1] = upper] EXCEPT ![a] = lower]
  <2>1. joinSlot(p) = s BY <1>14, <1>7
  <2>2. o[w] = M /\ M >= 1 BY <1>14, <1>1, <1>2, <1>6
  <2>3. /\ lower \in Nat /\ upper \in Nat /\ lower + upper = M + 1
        /\ lower >= m /\ upper >= m /\ lower >= 1 /\ upper >= 1 /\ lower <= M /\ upper <= M
    BY <2>2, <1>1
  <2> HIDE DEF lower, upper
  <2>4. a \in w - o[w] + 1 .. w /\ a - lower = w - o[w] /\ a # w + 1 /\ a \in 1 .. n + 2
        /\ w + 1 \in 1 .. n + 2 /\ (w + 1) - upper = a /\ w - o[w] \in Nat
    BY <2>2, <2>3, <1>1, <1>2, <1>10
  <2> HIDE DEF a
  <2>5. /\ s \in [1 .. n + 2 -> Nat]
        /\ s[w + 1] = upper /\ s[a] = lower
        /\ \A i \in 1 .. n + 2 : i # w + 1 /\ i # a => s[i] = joined[i]
    BY <2>3, <2>4, <1>9
  <2> HIDE DEF s
  <2>6. ASSUME NEW i \in 1 .. n + 2, s[i] > 0
        PROVE  /\ i - s[i] = 0 \/ (i - s[i] > 0 /\ s[i - s[i]] > 0)
               /\ \A j \in i - s[i] + 1 .. i - 1 : s[j] = 0
               /\ s[i] <= M
               /\ i <= n + 1 => s[i] >= m
    <3>1. CASE i <= w - o[w]
      <4>1. i \in 1 .. p /\ i # a /\ i # w + 1 BY <3>1, <2>4, <1>10, <1>1, <1>2
      <4>2. s[i] = joined[i] BY <4>1, <2>5
      <4>3. /\ joined[i] = o[i] /\ o[i] >= m /\ o[i] <= M
            /\ i - o[i] = 0 \/ (i - o[i] > 0 /\ joined[i - o[i]] > 0)
            /\ \A j \in i - o[i] + 1 .. i - 1 : joined[j] = 0
        BY <4>1, <4>2, <2>6, <1>11
      <4>4. o[i] \in Nat /\ i - o[i] >= 0 /\ o[i] >= 1 /\ i \in Nat
        <5>1. i \in 1 .. n + 1 /\ i >= 1
          <6>1. p <= n /\ p \in Nat BY <1>1, <1>2 DEF n
          <6>2. QED BY <4>1, <6>1, <1>1
        <5>2. QED BY <4>3, <5>1, <1>1
      <4>5. ASSUME NEW j \in 1 .. i PROVE s[j] = joined[j]
        <5>1. j \in 1 .. n + 2 /\ j # w + 1 /\ j # a BY <3>1, <2>4, <1>1, <1>2, SMTT(30)
        <5>2. QED BY <5>1, <2>5
      <4>6. i - o[i] > 0 => i - o[i] \in 1 .. i BY <4>4
      <4>7. \A j \in i - o[i] + 1 .. i - 1 : j \in 1 .. i BY <4>4
      <4>8. QED BY <4>2, <4>3, <4>5, <4>6, <4>7
    <3>2. CASE i = a
      <4>1. s[i] = lower /\ i - s[i] = w - o[w] BY <3>2, <2>4, <2>5
      <4>2. w - o[w] > 0 => s[w - o[w]] > 0
        <5>1. SUFFICES ASSUME w - o[w] > 0 PROVE s[w - o[w]] > 0 OBVIOUS
        <5>2. w - o[w] \in 1 .. n + 2 /\ w - o[w] # a /\ w - o[w] # w + 1
          BY <5>1, <2>4, <1>1, <1>2, SMTT(30)
        <5>3. PICK x : x = w - o[w] OBVIOUS
        <5>4. s[x] = joined[x] BY <5>2, <5>3, <2>5
        <5>5. joined[x] > 0 BY <5>1, <5>3, <1>10
        <5>6. QED BY <5>3, <5>4, <5>5
      <4>3. ASSUME NEW j \in w - o[w] + 1 .. a - 1 PROVE s[j] = 0
        <5>1. j \in w - o[w] + 1 .. w /\ j \in 1 .. n + 2 /\ j # a /\ j # w + 1
          BY <2>4, <1>1, <1>2
        <5>2. QED BY <5>1, <2>5, <1>10
      <4>4. QED BY <4>1, <4>2, <4>3, <3>2, <2>3, <2>4
    <3>3. CASE i \in w - o[w] + 1 .. w /\ i # a
      <4>1. i # w + 1 BY <3>3, <1>2
      <4>2. s[i] = 0 BY <4>1, <3>3, <2>5, <1>10
      <4>3. QED BY <4>2, <2>6
    <3>4. CASE i = w + 1
      <4>1. s[i] = upper /\ i - s[i] = a /\ i - 1 = w /\ w \in Nat /\ i \in Nat
        BY <3>4, <2>3, <2>4, <2>5, <1>1, <1>2
      <4>2. ASSUME NEW j \in a + 1 .. w PROVE s[j] = 0
        <5>1. j \in w - o[w] + 1 .. w /\ j \in 1 .. n + 2 /\ j # a /\ j # w + 1
          BY <2>4, <1>1, <1>2, SMTT(30)
        <5>2. QED BY <5>1, <2>5, <1>10
      <4>3. QED BY <4>1, <4>2, <2>3, <2>4, <2>5
    <3>5. CASE i \in w + 2 .. n + 2
      <4>1. i # w + 1 /\ i # a BY <3>5, <2>4, <1>2
      <4>2. s[i] = joined[i] BY <4>1, <2>5
      <4>3. /\ joined[i] = o[i - 1] /\ (i <= n + 1 => o[i - 1] >= m) /\ o[i - 1] <= M
            /\ i - joined[i] >= w + 1 /\ joined[i - joined[i]] > 0
            /\ \A j \in i - joined[i] + 1 .. i - 1 : joined[j] = 0
        BY <3>5, <4>2, <2>6, <1>12
      <4>4. joined[i] \in Nat /\ joined[i] > 0 BY <4>2, <2>6, <1>9
      <4>5. ASSUME NEW j \in w + 2 .. i PROVE s[j] = joined[j]
        <5>1. j \in 1 .. n + 2 /\ j # w + 1 /\ j # a BY <3>5, <2>4, <1>1, <1>2
        <5>2. QED BY <5>1, <2>5
      <4>6. s[i - joined[i]] > 0
        <5>1. CASE i - joined[i] = w + 1 BY <5>1, <2>3, <2>5
        <5>2. CASE i - joined[i] > w + 1
          <6>1. i - joined[i] \in w + 2 .. i BY <5>2, <4>4, <1>2
          <6>2. QED BY <6>1, <4>3, <4>5
        <5>3. QED BY <5>1, <5>2, <4>3, <4>4, <1>2
      <4>7. \A j \in i - joined[i] + 1 .. i - 1 : j \in w + 2 .. i BY <4>3, <4>4, <1>2
      <4>8. i - joined[i] > 0 BY <4>3, <4>4, <1>2
      <4>9. QED BY <4>2, <4>3, <4>5, <4>6, <4>7, <4>8
    <3>6. QED BY <3>1, <3>2, <3>3, <3>4, <3>5, <2>4, <1>1, <1>2
  <2>7. s[n + 2] > 0
    <3>1. CASE w = n + 1 BY <3>1, <2>3, <2>5, <1>1
    <3>2. CASE w < n + 1
      <4>1. n + 2 # w + 1 /\ n + 2 # a /\ n + 2 # p + 1 /\ ~(n + 2 <= p) /\ n + 2 \in 1 .. n + 2
        BY <3>2, <2>4, <1>1, <1>2, SMTT(30)
      <4>2. s[n + 2] = o[n + 1]
        <5>1. joined[n + 2] = o[(n + 2) - 1]
          <6> DEFINE l == n + 2
          <6>1. l \in 1 .. n + 2 /\ l # w + 1 /\ ~(l <= p) /\ l # p + 1 BY <4>1
          <6> HIDE DEF l
          <6>2. joined[l] = o[l - 1] BY <6>1, <1>9
          <6>3. QED BY <6>2 DEF l
        <5>2. (n + 2) - 1 = n + 1 BY <1>1
        <5>3. QED BY <4>1, <5>1, <5>2, <2>5
      <4>3. QED BY <4>2, <1>3
    <3>3. QED BY <3>1, <3>2, <1>1, <1>2
  <2>8. slotsCount(s, n + 1)
    <3>1. n + 1 + 1 = n + 2 BY <1>1
    <3>2. QED BY <3>1, <2>6, <2>7 DEF slotsCount, M, m
  <2>9. s \in [1 .. n + 2 -> 0 .. M]
    <3>1. \A i \in 1 .. n + 2 : s[i] \in Nat /\ s[i] <= M
      <4>1. SUFFICES ASSUME NEW i \in 1 .. n + 2 PROVE s[i] \in Nat /\ s[i] <= M OBVIOUS
      <4>2. CASE s[i] > 0 BY <4>2, <2>6, <2>5
      <4>3. CASE ~(s[i] > 0) BY <4>3, <2>5, <1>1
      <4>4. QED BY <4>2, <4>3
    <3>2. QED BY <3>1, <2>5, <1>1
  <2>10. QED BY <2>1, <2>8, <2>9 DEF n, M
<1>15. QED BY <1>13, <1>14

-----------------------------------------------------------------------------
(* The layout of the heap: PageUsage without the page directory.           *)

Layout(s, f, top, g) ==
  /\ s \in Seq(Rec) /\ f \in Seq(Rec)
  /\ top \in Nat /\ g \in Nat /\ PAGE_NEW_SUPREMUM_END <= top
  /\ bytesOf(s) \cup bytesOf(f) \subseteq PAGE_NEW_SUPREMUM_END .. top - 1
  /\ alone(s) /\ alone(f) /\ disjoint(s, f)
  /\ Cardinality(bytesOf(s)) = (top - PAGE_NEW_SUPREMUM_END) - g

\* No list has no bytes.
LEMMA NoBytes == bytesOf(<<>>) = {} /\ alone(<<>>) /\ <<>> \in Seq(Rec) /\ Cardinality({}) = 0
<1>1. DOMAIN <<>> = {} /\ <<>> \in Seq(Rec) BY EmptySeq
<1>2. bytesOf(<<>>) = {} BY <1>1 DEF bytesOf
<1>3. alone(<<>>) BY <1>1 DEF alone
<1>4. QED BY <1>1, <1>2, <1>3, FS_EmptySet

\* The heap has as many bytes as it is long.
LEMMA HeapBytes ==
  ASSUME NEW top \in Nat, PAGE_NEW_SUPREMUM_END <= top, NEW T, T \subseteq PAGE_NEW_SUPREMUM_END .. top - 1
  PROVE  /\ IsFiniteSet(T) /\ Cardinality(T) \in Nat
         /\ Cardinality(T) <= top - PAGE_NEW_SUPREMUM_END
<1> DEFINE a == PAGE_NEW_SUPREMUM_END
           b == top - 1
<1>1. a \in Nat /\ a \in Int /\ b \in Int /\ a <= top BY InsertPlaceAssumption
<1> HIDE DEF a, b
<1>2. /\ IsFiniteSet(a .. b)
      /\ Cardinality(a .. b) = IF a > b THEN 0 ELSE b - a + 1
  BY <1>1, FS_Interval
<1>3. Cardinality(a .. b) = top - a BY <1>1, <1>2 DEF b
<1>4. T \subseteq a .. b BY DEF a, b
<1>5. IsFiniteSet(T) /\ Cardinality(T) <= Cardinality(a .. b) BY <1>2, <1>4, FS_Subset
<1>6. QED BY <1>3, <1>5, FS_CardinalityType DEF a

\* What a layout says of its counts, and what is freed is garbage.
LEMMA LayoutCounts ==
  ASSUME NEW s, NEW f, NEW top, NEW g, Layout(s, f, top, g)
  PROVE  /\ IsFiniteSet(bytesOf(s)) /\ Cardinality(bytesOf(s)) \in Nat
         /\ IsFiniteSet(bytesOf(f))
         /\ g <= top - PAGE_NEW_SUPREMUM_END
         /\ \A i \in DOMAIN f : f[i] \in Rec /\ f[i].size <= g
<1>1. PAGE_NEW_SUPREMUM_END \in Nat /\ top \in Nat /\ g \in Nat /\ PAGE_NEW_SUPREMUM_END <= top
      /\ bytesOf(s) \subseteq PAGE_NEW_SUPREMUM_END .. top - 1
      /\ bytesOf(f) \subseteq PAGE_NEW_SUPREMUM_END .. top - 1
      /\ f \in Seq(Rec)
      /\ Cardinality(bytesOf(s)) = (top - PAGE_NEW_SUPREMUM_END) - g
  BY InsertPlaceAssumption DEF Layout
<1>2. /\ IsFiniteSet(bytesOf(s)) /\ Cardinality(bytesOf(s)) \in Nat /\ IsFiniteSet(bytesOf(f))
  BY <1>1, HeapBytes
<1>3. ASSUME NEW i \in DOMAIN f PROVE f[i] \in Rec /\ f[i].size <= g
  <2>1. f[i] \in Rec BY <1>1, LenProperties, ElementOfSeq
  <2>2. bytes(f[i]) \subseteq bytesOf(f) BY MemberBytes
  <2>3. bytesOf(s) \cap bytes(f[i]) = {} BY <2>2, DisjointBytes DEF Layout
  <2>4. /\ IsFiniteSet(bytes(f[i])) /\ Cardinality(bytes(f[i])) = f[i].size /\ f[i].size \in Nat
    BY <2>1, RecBytes
  <2>5. Cardinality(bytesOf(s) \cup bytes(f[i])) = Cardinality(bytesOf(s)) + f[i].size
    BY <1>2, <2>3, <2>4, DisjointUnion
  <2>6. Cardinality(bytesOf(s) \cup bytes(f[i])) <= top - PAGE_NEW_SUPREMUM_END
    <3>1. bytesOf(s) \cup bytes(f[i]) \subseteq PAGE_NEW_SUPREMUM_END .. top - 1 BY <1>1, <2>2
    <3>2. QED BY <3>1, <1>1, HeapBytes
  <2>7. QED BY <2>1, <2>4, <2>5, <2>6, <1>1, <1>2
<1>4. g <= top - PAGE_NEW_SUPREMUM_END BY <1>1, <1>2
<1>5. QED BY <1>2, <1>3, <1>4

\* A record where the heap ends.
LEMMA LayoutGrows ==
  ASSUME NEW s, NEW f, NEW top, NEW g, Layout(s, f, top, g),
         NEW p \in 0 .. Len(s), NEW size \in Sizes
  PROVE  Layout(InsertAt(s, p + 1, [off |-> top, size |-> size]), f, top + size, g)
<1> DEFINE e == [off |-> top, size |-> size]
           t == InsertAt(s, p + 1, e)
<1>1. /\ s \in Seq(Rec) /\ f \in Seq(Rec) /\ top \in Nat /\ g \in Nat
      /\ PAGE_NEW_SUPREMUM_END \in Nat /\ PAGE_NEW_SUPREMUM_END <= top /\ size \in Nat
      /\ bytesOf(s) \subseteq PAGE_NEW_SUPREMUM_END .. top - 1
      /\ bytesOf(f) \subseteq PAGE_NEW_SUPREMUM_END .. top - 1
      /\ alone(s) /\ alone(f) /\ bytesOf(s) \cap bytesOf(f) = {}
      /\ Cardinality(bytesOf(s)) = (top - PAGE_NEW_SUPREMUM_END) - g
  BY InsertPlaceAssumption, DisjointBytes DEF Layout
<1>2. e \in Rec BY <1>1 DEF Rec
<1>3. bytes(e) = top .. top + size - 1 BY DEF bytes
<1> HIDE DEF e
<1>4. bytes(e) \cap bytesOf(s) = {} /\ bytes(e) \cap bytesOf(f) = {}
  <2>1. \A b \in bytes(e) : b \notin PAGE_NEW_SUPREMUM_END .. top - 1 BY <1>3, <1>1
  <2>2. QED BY <2>1, <1>1
<1>5. bytesOf(t) = bytesOf(s) \cup bytes(e) /\ alone(t) /\ t \in Seq(Rec)
  <2>1. s \in Seq(Rec) /\ e \in Rec /\ p \in 0 .. Len(s) BY <1>1, <1>2
  <2>2. t \in Seq(Rec) BY <2>1, InsertAtShape
  <2>3. alone(s) /\ bytesOf(s) \cap bytes(e) = {} BY <1>1, <1>4
  <2>4. bytesOf(t) = bytesOf(s) \cup bytes(e) /\ alone(t) BY <2>1, <2>3, InsertBytes
  <2>5. QED BY <2>2, <2>4
<1> HIDE DEF t
<1>6. Cardinality(bytesOf(t)) = Cardinality(bytesOf(s)) + size
  <2>1. IsFiniteSet(bytesOf(s)) BY LayoutCounts
  <2>2. IsFiniteSet(bytes(e)) /\ Cardinality(bytes(e)) = e.size BY <1>2, RecBytes
  <2>3. e.size = size BY DEF e
  <2>4. QED BY <2>1, <2>2, <2>3, <1>4, <1>5, DisjointUnion
<1>7. Cardinality(bytesOf(t)) = (top + size - PAGE_NEW_SUPREMUM_END) - g
  <2>1. Cardinality(bytesOf(s)) \in Nat BY LayoutCounts
  <2>2. QED BY <1>1, <1>6, <2>1
<1>8. bytesOf(t) \cup bytesOf(f) \subseteq PAGE_NEW_SUPREMUM_END .. (top + size) - 1
  <2>1. bytes(e) \subseteq PAGE_NEW_SUPREMUM_END .. (top + size) - 1 BY <1>1, <1>3
  <2>2. PAGE_NEW_SUPREMUM_END .. top - 1 \subseteq PAGE_NEW_SUPREMUM_END .. (top + size) - 1 BY <1>1
  <2>3. QED BY <2>1, <2>2, <1>1, <1>5
<1>9. bytesOf(t) \cap bytesOf(f) = {} BY <1>1, <1>4, <1>5
<1>10. top + size \in Nat /\ PAGE_NEW_SUPREMUM_END <= top + size BY <1>1
<1>11. Layout(t, f, top + size, g) BY <1>1, <1>5, <1>7, <1>8, <1>9, <1>10, DisjointBytes DEF Layout
<1>12. QED BY <1>11 DEF t, e

\* A record in the place of the first freed one.
LEMMA LayoutReuses ==
  ASSUME NEW s, NEW f, NEW top, NEW g, Layout(s, f, top, g), f # <<>>,
         NEW p \in 0 .. Len(s), NEW size \in Sizes, size <= Head(f).size
  PROVE  Layout(InsertAt(s, p + 1, [off |-> Head(f).off, size |-> size]), Tail(f), top, g - size)
<1> DEFINE h == Head(f)
           e == [off |-> h.off, size |-> size]
           t == InsertAt(s, p + 1, e)
           u == Tail(f)
<1>1. /\ s \in Seq(Rec) /\ f \in Seq(Rec) /\ top \in Nat /\ g \in Nat
      /\ PAGE_NEW_SUPREMUM_END \in Nat /\ PAGE_NEW_SUPREMUM_END <= top /\ size \in Nat
      /\ bytesOf(s) \subseteq PAGE_NEW_SUPREMUM_END .. top - 1
      /\ bytesOf(f) \subseteq PAGE_NEW_SUPREMUM_END .. top - 1
      /\ alone(s) /\ alone(f) /\ bytesOf(s) \cap bytesOf(f) = {}
      /\ Cardinality(bytesOf(s)) = (top - PAGE_NEW_SUPREMUM_END) - g
  BY InsertPlaceAssumption, DisjointBytes DEF Layout
<1>2. /\ u \in Seq(Rec) /\ Len(f) \in Nat /\ Len(f) > 0 /\ Len(u) = Len(f) - 1 /\ h = f[1] /\ h \in Rec
      /\ DOMAIN f = 1 .. Len(f) /\ DOMAIN u = 1 .. Len(f) - 1
      /\ \A i \in 1 .. Len(f) - 1 : u[i] = f[i + 1]
  BY <1>1, HeadTailProperties, LenProperties, EmptySeq, ElementOfSeq
<1>3. 1 \in DOMAIN f BY <1>2
<1> HIDE DEF h, u
<1>4. bytesOf(u) \subseteq bytesOf(f) /\ alone(u)
  <2> DEFINE k == [i \in 1 .. Len(f) - 1 |-> i + 1]
  <2>1. /\ k \in [DOMAIN u -> DOMAIN f]
        /\ \A i \in DOMAIN u : u[i] = f[k[i]]
        /\ \A i, j \in DOMAIN u : i # j => k[i] # k[j]
    BY <1>2
  <2> HIDE DEF k
  <2>2. QED BY <2>1, <1>1, PartBytes
<1>5. bytesOf(u) \cap bytes(h) = {}
  <2>1. SUFFICES ASSUME NEW b \in bytesOf(u), b \in bytes(h) PROVE FALSE OBVIOUS
  <2>2. PICK i \in DOMAIN u : b \in bytes(u[i]) BY <2>1 DEF bytesOf
  <2>3. u[i] = f[i + 1] /\ i + 1 \in DOMAIN f /\ i + 1 # 1 BY <1>2
  <2>4. QED BY <2>1, <2>2, <2>3, <1>1, <1>2, <1>3 DEF alone
<1>6. /\ h.size \in Nat /\ h.off \in Nat /\ bytes(h) \subseteq bytesOf(f)
  BY <1>2, <1>3, RecBytes, MemberBytes
<1>7. e \in Rec /\ bytes(e) \subseteq bytes(h)
  <2>1. e \in Rec BY <1>6 DEF Rec
  <2>2. h.off + size - 1 <= h.off + h.size - 1 BY <1>1, <1>6, size <= h.size, SMTT(30) DEF h
  <2>3. bytes(e) = h.off .. h.off + size - 1 BY DEF bytes
  <2>4. QED BY <2>1, <2>2, <2>3, <1>1, <1>6, SMTT(30) DEF bytes
<1>8. IsFiniteSet(bytes(e)) /\ Cardinality(bytes(e)) = size
  <2>1. e.size = size OBVIOUS
  <2> HIDE DEF e
  <2>2. QED BY <2>1, <1>7, RecBytes
<1> HIDE DEF e
<1>9. bytes(e) \cap bytesOf(s) = {} /\ bytes(e) \cap bytesOf(u) = {} BY <1>1, <1>5, <1>6, <1>7
<1>10. bytesOf(t) = bytesOf(s) \cup bytes(e) /\ alone(t) /\ t \in Seq(Rec)
  <2>1. s \in Seq(Rec) /\ e \in Rec /\ alone(s) /\ bytesOf(s) \cap bytes(e) = {} BY <1>1, <1>7, <1>9
  <2>2. t \in Seq(Rec) BY <2>1, InsertAtShape
  <2>3. bytesOf(t) = bytesOf(s) \cup bytes(e) /\ alone(t) BY <2>1, InsertBytes
  <2>4. QED BY <2>2, <2>3
<1> HIDE DEF t
<1>11. IsFiniteSet(bytesOf(s)) /\ Cardinality(bytesOf(s)) \in Nat BY LayoutCounts
<1>12. Cardinality(bytesOf(t)) = Cardinality(bytesOf(s)) + size
  BY <1>8, <1>9, <1>10, <1>11, DisjointUnion
<1>13. size <= g /\ g - size \in Nat
  <2>1. h.size <= g BY <1>2, <1>3, LayoutCounts
  <2>2. size <= h.size BY DEF h
  <2>3. QED BY <2>1, <2>2, <1>1, <1>6
<1>14. Cardinality(bytesOf(t)) = (top - PAGE_NEW_SUPREMUM_END) - (g - size)
  BY <1>1, <1>11, <1>12, <1>13
<1>15. bytesOf(t) \cap bytesOf(u) = {} /\ bytesOf(t) \cup bytesOf(u) \subseteq PAGE_NEW_SUPREMUM_END .. top - 1
  BY <1>1, <1>4, <1>6, <1>7, <1>9, <1>10
<1>16. Layout(t, u, top, g - size)
  BY <1>1, <1>2, <1>4, <1>10, <1>13, <1>14, <1>15, DisjointBytes DEF Layout
<1>17. QED BY <1>16 DEF t, u, e, h

\* The records side by side, nothing free.
LEMMA LayoutCompacts ==
  ASSUME NEW s, NEW f, NEW top, NEW g, Layout(s, f, top, g)
  PROVE  Layout(compacted(s), <<>>, top - g, 0) /\ Len(compacted(s)) = Len(s)
<1> DEFINE c == compacted(s)
           n == Cardinality(bytesOf(s))
<1>1. /\ s \in Seq(Rec) /\ alone(s) /\ top \in Nat /\ g \in Nat /\ PAGE_NEW_SUPREMUM_END \in Nat
      /\ IsFiniteSet(bytesOf(s)) /\ n \in Nat
      /\ n = (top - PAGE_NEW_SUPREMUM_END) - g
  BY InsertPlaceAssumption, LayoutCounts DEF Layout
<1>2. /\ c \in Seq(Rec) /\ Len(c) = Len(s) /\ alone(c)
      /\ bytesOf(c) = PAGE_NEW_SUPREMUM_END .. PAGE_NEW_SUPREMUM_END + n - 1
  BY <1>1, Compacted
<1> HIDE DEF c, n
<1>3. /\ top - g \in Nat /\ PAGE_NEW_SUPREMUM_END + n = top - g
      /\ PAGE_NEW_SUPREMUM_END <= top - g /\ n = (top - g) - PAGE_NEW_SUPREMUM_END
  BY <1>1
<1>4. bytesOf(c) = PAGE_NEW_SUPREMUM_END .. (top - g) - 1
  <2>1. PAGE_NEW_SUPREMUM_END + n - 1 = (top - g) - 1 BY <1>1, <1>3
  <2>2. QED BY <1>2, <2>1
<1>5. Cardinality(bytesOf(c)) = ((top - g) - PAGE_NEW_SUPREMUM_END) - 0
  <2> DEFINE a == PAGE_NEW_SUPREMUM_END
             b == (top - g) - 1
  <2>1. a \in Int /\ b \in Int /\ a <= b + 1 /\ (b - a) + 1 = ((top - g) - PAGE_NEW_SUPREMUM_END) - 0
    BY <1>1, <1>3
  <2>2. bytesOf(c) = a .. b BY <1>4
  <2> HIDE DEF a, b
  <2>3. Cardinality(a .. b) = IF a > b THEN 0 ELSE (b - a) + 1 BY <2>1, FS_Interval
  <2>4. Cardinality(a .. b) = (b - a) + 1 BY <2>1, <2>3
  <2>5. QED BY <2>1, <2>2, <2>4
<1>6. Layout(c, <<>>, top - g, 0) BY <1>2, <1>3, <1>4, <1>5, NoBytes, DisjointBytes DEF Layout
<1>7. QED BY <1>2, <1>6 DEF c

\* Some of the records go to the free list.
LEMMA LayoutFrees ==
  ASSUME NEW s, NEW f, NEW top, NEW g, Layout(s, f, top, g),
         NEW kept \in Seq(Rec), NEW gone \in Seq(Rec), alone(kept), alone(gone),
         bytesOf(s) = bytesOf(kept) \cup bytesOf(gone), bytesOf(kept) \cap bytesOf(gone) = {}
  PROVE  Layout(kept, gone \o f, top, Cardinality(bytesOf(gone)) + g)
<1>1. /\ f \in Seq(Rec) /\ top \in Nat /\ g \in Nat
      /\ PAGE_NEW_SUPREMUM_END \in Nat /\ PAGE_NEW_SUPREMUM_END <= top
      /\ bytesOf(s) \subseteq PAGE_NEW_SUPREMUM_END .. top - 1
      /\ bytesOf(f) \subseteq PAGE_NEW_SUPREMUM_END .. top - 1
      /\ alone(f) /\ bytesOf(s) \cap bytesOf(f) = {}
      /\ Cardinality(bytesOf(s)) = (top - PAGE_NEW_SUPREMUM_END) - g
      /\ IsFiniteSet(bytesOf(s)) /\ Cardinality(bytesOf(s)) \in Nat
  BY InsertPlaceAssumption, DisjointBytes, LayoutCounts DEF Layout
<1>2. /\ IsFiniteSet(bytesOf(kept)) /\ IsFiniteSet(bytesOf(gone))
      /\ Cardinality(bytesOf(kept)) \in Nat /\ Cardinality(bytesOf(gone)) \in Nat
  <2>1. bytesOf(kept) \subseteq bytesOf(s) /\ bytesOf(gone) \subseteq bytesOf(s) OBVIOUS
  <2>2. IsFiniteSet(bytesOf(kept)) /\ IsFiniteSet(bytesOf(gone)) BY <1>1, <2>1, FS_Subset
  <2>3. QED BY <2>2, FS_CardinalityType
<1>3. Cardinality(bytesOf(s)) = Cardinality(bytesOf(kept)) + Cardinality(bytesOf(gone))
  BY <1>2, DisjointUnion
<1>4. bytesOf(gone) \cap bytesOf(f) = {} /\ bytesOf(kept) \cap bytesOf(f) = {} BY <1>1
<1>5. /\ gone \o f \in Seq(Rec) /\ alone(gone \o f)
      /\ bytesOf(gone \o f) = bytesOf(gone) \cup bytesOf(f)
  BY <1>1, <1>4, ConcatBytes
<1>6. bytesOf(kept) \cap bytesOf(gone \o f) = {}
      /\ bytesOf(kept) \cup bytesOf(gone \o f) \subseteq PAGE_NEW_SUPREMUM_END .. top - 1
  BY <1>1, <1>4, <1>5
<1>7. Cardinality(bytesOf(kept)) = (top - PAGE_NEW_SUPREMUM_END) - (Cardinality(bytesOf(gone)) + g)
      /\ Cardinality(bytesOf(gone)) + g \in Nat
  BY <1>1, <1>2, <1>3
<1>8. QED BY <1>1, <1>5, <1>6, <1>7, DisjointBytes DEF Layout

\* One of them does.
LEMMA LayoutRemoves ==
  ASSUME NEW s, NEW f, NEW top, NEW g, Layout(s, f, top, g), NEW k \in 1 .. Len(s)
  PROVE  Layout(RemoveAt(s, k), <<s[k]>> \o f, top, g + s[k].size)
<1> DEFINE gone == <<s[k]>>
           kept == RemoveAt(s, k)
<1>1. s \in Seq(Rec) /\ alone(s) /\ g \in Nat BY DEF Layout
<1>2. s[k] \in Rec BY <1>1, ElementOfSeq, LenProperties
<1>3. gone \in Seq(Rec) /\ DOMAIN gone = {1} /\ gone[1] = s[k] BY <1>2
<1>4. kept \in Seq(Rec) BY <1>1, RemoveAtShape
<1>5. /\ bytesOf(s) = bytesOf(kept) \cup bytes(s[k]) /\ bytesOf(kept) \cap bytes(s[k]) = {}
      /\ alone(kept)
  BY <1>1, RemoveBytes
<1> HIDE DEF gone, kept
<1>6. bytesOf(gone) = bytes(s[k])
  <2>1. ASSUME NEW b \in bytesOf(gone) PROVE b \in bytes(s[k]) BY <2>1, <1>3 DEF bytesOf
  <2>2. bytes(s[k]) \subseteq bytesOf(gone)
    <3>1. 1 \in DOMAIN gone BY <1>3
    <3>2. QED BY <3>1, <1>3, MemberBytes
  <2>3. QED BY <2>1, <2>2
<1>7. alone(gone) BY <1>3 DEF alone
<1>8. Layout(kept, gone \o f, top, Cardinality(bytesOf(gone)) + g)
  BY <1>3, <1>4, <1>5, <1>6, <1>7, LayoutFrees
<1>9. Cardinality(bytesOf(gone)) + g = g + s[k].size
  <2>1. Cardinality(bytes(s[k])) = s[k].size /\ s[k].size \in Nat BY <1>2, RecBytes
  <2>2. QED BY <2>1, <1>1, <1>6
<1>10. QED BY <1>8, <1>9 DEF gone, kept

-----------------------------------------------------------------------------
(* The plan.                                                               *)

\* What the plan takes for free bytes, without the Max.
LEMMA InsertSizes ==
  ASSUME TypeOK, NHeap >= 2, NEW size \in Nat \ {0}
  PROVE  /\ dirReserved(NHeap - 1) \in Nat /\ dirReserved(NRecs + 1) \in Nat
         /\ maxInsertSize(1) >= size <=>
              (HeapTop - PAGE_NEW_SUPREMUM_END) + size + dirReserved(NHeap - 1) <= pageEmptyFree
         /\ maxInsertSizeAfterReorganize(1) >= size <=>
              (HeapTop - PAGE_NEW_SUPREMUM_END) - Garbage + size + dirReserved(NRecs + 1) <= pageEmptyFree
         /\ (maxInsertSize(1) < size <=> ~(maxInsertSize(1) >= size))
         /\ (maxInsertSizeAfterReorganize(1) < size <=> ~(maxInsertSizeAfterReorganize(1) >= size))
<1>1. /\ NRecs \in Nat /\ HeapTop \in Nat /\ NHeap \in Nat /\ Garbage \in Nat
      /\ PAGE_NEW_SUPREMUM_END \in Nat /\ pageEmptyFree \in Nat
  BY LenProperties, InsertPlaceAssumption DEF TypeOK, NRecs
<1>2. 1 + NHeap - 2 = NHeap - 1 /\ 1 + NRecs = NRecs + 1 /\ NHeap - 1 \in Nat BY <1>1
<1>3. dirReserved(NHeap - 1) \in Nat /\ dirReserved(NRecs + 1) \in Nat BY <1>1, <1>2, DirReservedGrows
<1> DEFINE o == (HeapTop - PAGE_NEW_SUPREMUM_END) + dirReserved(NHeap - 1)
           q == ((HeapTop - PAGE_NEW_SUPREMUM_END) - Garbage) + dirReserved(NRecs + 1)
<1>4. o \in Int /\ q \in Int /\ pageEmptyFree - o \in Int /\ pageEmptyFree - q \in Int BY <1>1, <1>3
<1>5. maxInsertSize(1) = Max({pageEmptyFree - o, 0})
  BY <1>2 DEF maxInsertSize
<1>6. maxInsertSizeAfterReorganize(1) = Max({pageEmptyFree - q, 0})
  BY <1>2 DEF maxInsertSizeAfterReorganize
<1>7. maxInsertSize(1) >= size <=> o + size <= pageEmptyFree BY <1>1, <1>4, <1>5, MaxOfTwo
<1>8. maxInsertSizeAfterReorganize(1) >= size <=> q + size <= pageEmptyFree BY <1>1, <1>4, <1>6, MaxOfTwo
<1>9. maxInsertSize(1) \in Int /\ maxInsertSizeAfterReorganize(1) \in Int BY <1>4, <1>5, <1>6, MaxOfTwo
<1>10. QED BY <1>1, <1>3, <1>7, <1>8, <1>9

-----------------------------------------------------------------------------
(* The inductive invariant.                                                *)

\* The heap and the slots its records can come to need end before the page does.
Heap ==
  /\ NHeap = 2 + NRecs + Len(free)
  /\ (HeapTop - PAGE_NEW_SUPREMUM_END) + dirReserved(NHeap - 2) <= pageEmptyFree

Slots ==
  /\ owned \in [1 .. NRecs + 1 -> 0 .. PAGE_DIR_SLOT_MAX_N_OWNED]
  /\ SlotsCount

\* A run without a direction has no inserts.
Pattern ==
  /\ LastInsert \in Nat /\ Direction \in {PAGE_LEFT, PAGE_RIGHT, PAGE_NO_DIRECTION}
  /\ NDirection \in Nat
  /\ RunBehind
  /\ Direction = PAGE_NO_DIRECTION => NDirection = 0

IInv == Layout(recs, free, HeapTop, Garbage) /\ Heap /\ Slots /\ Pattern

\* It is strong enough for the types.
LEMMA InvTypes ==
  ASSUME IInv
  PROVE  /\ TypeOK /\ NRecs \in Nat /\ NHeap >= 2 /\ Len(free) \in Nat
         /\ DOMAIN recs = 1 .. NRecs /\ \A i \in 1 .. NRecs : recs[i] \in Rec
<1>1. recs \in Seq(Rec) /\ free \in Seq(Rec) /\ HeapTop \in Nat /\ Garbage \in Nat
  BY DEF IInv, Layout
<1>2. /\ NRecs \in Nat /\ Len(free) \in Nat /\ DOMAIN recs = 1 .. NRecs
      /\ \A i \in 1 .. NRecs : recs[i] \in Rec
  BY <1>1, LenProperties, ElementOfSeq DEF NRecs
<1>3. NHeap \in Nat /\ NHeap >= 2 BY <1>2 DEF IInv, Heap
<1>4. TypeOK BY <1>1, <1>3 DEF IInv, Slots, Pattern, TypeOK
<1>5. QED BY <1>2, <1>3, <1>4

\* No two records start at the same byte.
LEMMA OffsetsDiffer ==
  ASSUME NEW s \in Seq(Rec), alone(s), NEW i \in 1 .. Len(s), NEW j \in 1 .. Len(s), s[i].off = s[j].off
  PROVE  i = j
<1>1. s[i] \in Rec /\ s[j] \in Rec BY ElementOfSeq, LenProperties
<1>2. s[i].off \in bytes(s[i]) /\ s[j].off \in bytes(s[j]) BY <1>1, RecBytes
<1>3. QED BY <1>2, LenProperties DEF alone

\* The record goes in and its slot takes it; the run goes on or ends.
LEMMA InsertedKeeps ==
  ASSUME IInv, NEW p \in 0 .. NRecs, NEW r \in Rec, inserted(p, r)
  PROVE  NRecs' = NRecs + 1 /\ Slots' /\ Pattern'
<1>1. /\ TypeOK /\ NRecs \in Nat /\ recs \in Seq(Rec) /\ alone(recs) /\ SlotsCount
      /\ NRecs = Len(recs)
  BY InvTypes DEF IInv, Layout, Slots, NRecs
<1>2. /\ recs' \in Seq(Rec) /\ Len(recs') = NRecs + 1
      /\ \A i \in 1 .. NRecs + 1 :
           recs'[i] = IF i <= p THEN recs[i] ELSE IF i = p + 1 THEN r ELSE recs[i - 1]
  <2>1. recs' = InsertAt(recs, p + 1, r) BY DEF inserted
  <2>2. p \in 0 .. Len(recs) BY <1>1
  <2>3. /\ InsertAt(recs, p + 1, r) \in Seq(Rec)
        /\ Len(InsertAt(recs, p + 1, r)) = Len(recs) + 1
        /\ \A i \in 1 .. Len(recs) + 1 :
             InsertAt(recs, p + 1, r)[i] = IF i <= p THEN recs[i] ELSE IF i = p + 1 THEN r ELSE recs[i - 1]
    <3> DEFINE q == recs
               T == Rec
    <3>1. q \in Seq(T) /\ p \in 0 .. Len(q) /\ r \in T BY <1>1, <2>2
    <3> HIDE DEF q, T
    <3>2. /\ InsertAt(q, p + 1, r) \in Seq(T)
          /\ Len(InsertAt(q, p + 1, r)) = Len(q) + 1
          /\ \A i \in 1 .. Len(q) + 1 :
               InsertAt(q, p + 1, r)[i] = IF i <= p THEN q[i] ELSE IF i = p + 1 THEN r ELSE q[i - 1]
      BY <3>1, InsertAtShape, SMTT(30)
    <3>3. QED BY <3>2 DEF q, T
  <2>4. QED BY <1>1, <2>1, <2>3
<1>3. NRecs' = NRecs + 1 BY <1>2 DEF NRecs
<1>4. Slots'
  <2>1. owned' = joinSlot(p) BY DEF inserted
  <2>2. /\ joinSlot(p) \in [1 .. NRecs + 2 -> 0 .. PAGE_DIR_SLOT_MAX_N_OWNED]
        /\ slotsCount(joinSlot(p), NRecs + 1)
    BY <1>1, JoinCounts
  <2>3. NRecs' + 1 = NRecs + 2 BY <1>1, <1>3
  <2>4. owned' \in [1 .. NRecs' + 1 -> 0 .. PAGE_DIR_SLOT_MAX_N_OWNED]
        /\ slotsCount(owned', NRecs')
    BY <2>1, <2>2, <2>3, <1>3
  <2>5. QED BY <2>4 DEF Slots, SlotsCount, slotsCount
<1>5. /\ LastInsert' = r.off /\ LastInsert' \in Nat
      /\ Direction' = pattern(p)[1] /\ NDirection' = pattern(p)[2]
  BY RecBytes DEF inserted
<1>6. recs'[p + 1] = r /\ p + 1 \in 1 .. NRecs' /\ p \in Nat BY <1>1, <1>2, <1>3
\* The record inserted last has the run's inserts behind it.
<1>7. ASSUME NEW i \in 1 .. NRecs, LastInsert = recs[i].off, LastInsert # 0
      PROVE  /\ Direction = PAGE_RIGHT => NDirection < i
             /\ Direction = PAGE_LEFT => NDirection <= NRecs - i
  <2>1. PICK k \in 1 .. NRecs :
          /\ recs[k].off = LastInsert
          /\ Direction = PAGE_RIGHT => NDirection < k
          /\ Direction = PAGE_LEFT => NDirection <= NRecs - k
    BY <1>7 DEF IInv, Pattern, RunBehind
  <2>2. i \in 1 .. Len(recs) /\ k \in 1 .. Len(recs) /\ recs[i].off = recs[k].off
    BY <2>1, <1>7 DEF NRecs
  <2>3. i = k BY <2>2, <1>1, OffsetsDiffer
  <2>4. QED BY <2>1, <2>3
<1>8. NDirection \in Nat /\ Direction \in {PAGE_LEFT, PAGE_RIGHT, PAGE_NO_DIRECTION}
      /\ (Direction = PAGE_NO_DIRECTION => NDirection = 0)
  BY DEF IInv, Pattern
<1>9. CASE run(p) = PAGE_RIGHT /\ Direction # PAGE_LEFT
  <2>1. pattern(p) = <<PAGE_RIGHT, NDirection + 1>> BY <1>9 DEF pattern
  <2>2. Direction' = PAGE_RIGHT /\ NDirection' = NDirection + 1 BY <2>1, <1>5
  <2>3. p > 0 /\ LastInsert # 0 /\ LastInsert = recs[p].off
    BY <1>9 DEF run, PAGE_RIGHT, PAGE_LEFT
  <2>4. NDirection < p
    <3>1. p \in 1 .. NRecs BY <2>3, <1>1
    <3>2. CASE Direction = PAGE_RIGHT BY <3>1, <3>2, <2>3, <1>7
    <3>3. CASE Direction = PAGE_NO_DIRECTION BY <3>1, <3>3, <1>8
    <3>4. QED BY <3>2, <3>3, <1>8, <1>9
  <2>5. RunBehind'
    <3>1. NDirection' < p + 1 BY <2>2, <2>4, <1>6, <1>8
    <3>2. QED BY <3>1, <2>2, <1>5, <1>6 DEF RunBehind, PAGE_RIGHT, PAGE_LEFT
  <2>6. QED BY <2>2, <2>5, <1>3, <1>4, <1>5, <1>8 DEF Pattern, PAGE_RIGHT, PAGE_NO_DIRECTION
<1>10. CASE run(p) = PAGE_LEFT /\ Direction # PAGE_RIGHT
  <2>1. pattern(p) = <<PAGE_LEFT, NDirection + 1>> BY <1>10 DEF pattern
  <2>2. Direction' = PAGE_LEFT /\ NDirection' = NDirection + 1 BY <2>1, <1>5
  <2>3. p < NRecs /\ LastInsert # 0 /\ LastInsert = recs[p + 1].off
    BY <1>10 DEF run, PAGE_RIGHT, PAGE_LEFT
  <2>4. NDirection <= NRecs - (p + 1)
    <3>1. p + 1 \in 1 .. NRecs BY <2>3, <1>1
    <3>2. CASE Direction = PAGE_LEFT BY <3>1, <3>2, <2>3, <1>7
    <3>3. CASE Direction = PAGE_NO_DIRECTION BY <3>1, <3>3, <1>8, <1>1
    <3>4. QED BY <3>2, <3>3, <1>8, <1>10
  <2>5. RunBehind'
    <3>1. NDirection' <= NRecs' - (p + 1) BY <2>2, <2>4, <1>1, <1>3, <1>6, <1>8
    <3>2. QED BY <3>1, <2>2, <1>5, <1>6 DEF RunBehind, PAGE_RIGHT, PAGE_LEFT
  <2>6. QED BY <2>2, <2>5, <1>3, <1>4, <1>5, <1>8 DEF Pattern, PAGE_LEFT, PAGE_NO_DIRECTION
<1>11. CASE ~(run(p) = PAGE_RIGHT /\ Direction # PAGE_LEFT) /\ ~(run(p) = PAGE_LEFT /\ Direction # PAGE_RIGHT)
  <2>1. pattern(p) = <<PAGE_NO_DIRECTION, 0>> BY <1>11 DEF pattern
  <2>2. Direction' = PAGE_NO_DIRECTION /\ NDirection' = 0 BY <2>1, <1>5
  <2>3. RunBehind'
    BY <2>2, <1>5, <1>6 DEF RunBehind, PAGE_RIGHT, PAGE_LEFT, PAGE_NO_DIRECTION
  <2>4. QED BY <2>2, <2>3, <1>3, <1>4, <1>5 DEF Pattern
<1>12. QED BY <1>9, <1>10, <1>11

\* What the page takes from the free list.
LEMMA FreeListKeeps ==
  ASSUME IInv, NEW p \in 0 .. NRecs, NEW size \in Sizes, InsertFreeList(p, size)
  PROVE  IInv'
<1> DEFINE r == [off |-> Head(free).off, size |-> size]
<1>1. /\ NRecs \in Nat /\ NRecs = Len(recs) /\ Len(free) \in Nat /\ free \in Seq(Rec)
      /\ Layout(recs, free, HeapTop, Garbage)
  BY InvTypes DEF IInv, NRecs, Layout
<1>2. free # <<>> /\ size <= Head(free).size
  <2>1. place(p, size) = "free list" BY DEF InsertFreeList
  <2>2. free # <<>> /\ Head(free).size >= size BY <2>1 DEF place
  <2>3. QED BY <2>2
<1>3. inserted(p, r) /\ recs' = InsertAt(recs, p + 1, r) BY DEF InsertFreeList, inserted
<1>4. /\ free' = Tail(free) /\ Garbage' = Garbage - size /\ HeapTop' = HeapTop /\ NHeap' = NHeap
  BY DEF InsertFreeList
<1>5. Head(free) \in Rec /\ Len(Tail(free)) = Len(free) - 1 BY <1>1, <1>2, HeadTailProperties
<1>6. r \in Rec BY <1>5, RecBytes DEF Rec
<1>7. Layout(recs', free', HeapTop', Garbage')
  <2>1. p \in 0 .. Len(recs) BY <1>1
  <2>2. QED BY <2>1, <1>1, <1>2, <1>3, <1>4, LayoutReuses
<1>8. NRecs' = NRecs + 1 /\ Slots' /\ Pattern' BY <1>3, <1>6, InsertedKeeps
<1>9. Heap'
  <2>1. Len(free') = Len(free) - 1 BY <1>4, <1>5
  <2>2. NHeap' = 2 + NRecs' + Len(free') BY <2>1, <1>1, <1>4, <1>8, SMTT(30) DEF IInv, Heap
  <2>3. QED BY <2>2, <1>4 DEF IInv, Heap
<1>10. QED BY <1>7, <1>8, <1>9 DEF IInv

\* What the heap takes.
LEMMA HeapKeeps ==
  ASSUME IInv, NEW p \in 0 .. NRecs, NEW size \in Sizes, InsertHeap(p, size)
  PROVE  IInv'
<1> DEFINE r == [off |-> HeapTop, size |-> size]
<1>1. /\ NRecs \in Nat /\ NRecs = Len(recs) /\ Len(free) \in Nat /\ TypeOK /\ NHeap >= 2
      /\ Layout(recs, free, HeapTop, Garbage) /\ HeapTop \in Nat /\ NHeap \in Nat
      /\ size \in Nat \ {0} /\ PAGE_NEW_SUPREMUM_END \in Nat /\ pageEmptyFree \in Nat
  BY InvTypes, InsertPlaceAssumption DEF IInv, NRecs, Layout, TypeOK
<1>2. (HeapTop - PAGE_NEW_SUPREMUM_END) + size + dirReserved(NHeap - 1) <= pageEmptyFree
      /\ dirReserved(NHeap - 1) \in Nat
  <2>1. place(p, size) = "heap" BY DEF InsertHeap
  <2>2. maxInsertSize(1) >= size BY <2>1 DEF place
  <2>3. QED BY <2>2, <1>1, InsertSizes
<1>3. inserted(p, r) /\ recs' = InsertAt(recs, p + 1, r) BY DEF InsertHeap, inserted
<1>4. /\ free' = free /\ Garbage' = Garbage /\ HeapTop' = HeapTop + size /\ NHeap' = NHeap + 1
  BY DEF InsertHeap
<1>5. r \in Rec BY <1>1 DEF Rec
<1>6. Layout(recs', free', HeapTop', Garbage')
  <2>1. p \in 0 .. Len(recs) BY <1>1
  <2>2. QED BY <2>1, <1>1, <1>3, <1>4, LayoutGrows
<1>7. NRecs' = NRecs + 1 /\ Slots' /\ Pattern' BY <1>3, <1>5, InsertedKeeps
<1>8. Heap'
  <2>1. NHeap' = 2 + NRecs' + Len(free') BY <1>1, <1>4, <1>7, SMTT(30) DEF IInv, Heap
  <2>2. NHeap' - 2 = NHeap - 1 BY <1>1, <1>4
  <2>3. (HeapTop' - PAGE_NEW_SUPREMUM_END) + dirReserved(NHeap' - 2) <= pageEmptyFree
    BY <2>2, <1>1, <1>2, <1>4
  <2>4. dirReserved(NHeap - 2)' = dirReserved(NHeap' - 2) BY DEF dirReserved
  <2>5. QED BY <2>1, <2>3, <2>4 DEF Heap
<1>9. QED BY <1>6, <1>7, <1>8 DEF IInv

\* A page whose directory is made anew.
LEMMA GroupedKeeps ==
  ASSUME NRecs' \in Nat, owned' \in groupings(NRecs')
  PROVE  Slots'
<1>1. /\ owned' \in [1 .. NRecs' + 1 -> 0 .. PAGE_DIR_SLOT_MAX_N_OWNED]
      /\ slotsCount(owned', NRecs')
  BY GroupingsCount
<1>2. QED BY <1>1 DEF Slots, SlotsCount, slotsCount

\* Without a record inserted last no run is counted.
LEMMA PatternForgotten ==
  ASSUME LastInsert' = 0, Direction' \in {PAGE_LEFT, PAGE_RIGHT, PAGE_NO_DIRECTION}, NDirection' \in Nat,
         Direction' = PAGE_NO_DIRECTION => NDirection' = 0
  PROVE  Pattern'
  BY DEF Pattern, RunBehind

\* A reorganized page can take the record: the plan has seen to that, or the page
\* has one record at most and two fit on any.
LEMMA ReorganizedFits ==
  ASSUME IInv, NEW p \in 0 .. NRecs, NEW size \in Sizes, place(p, size) = "reorganize"
  PROVE  (HeapTop - PAGE_NEW_SUPREMUM_END) - Garbage + size + dirReserved(NRecs + 1) <= pageEmptyFree
<1>1. /\ NRecs \in Nat /\ TypeOK /\ NHeap >= 2 /\ recs \in Seq(Rec) /\ NRecs = Len(recs)
      /\ DOMAIN recs = 1 .. NRecs /\ \A i \in 1 .. NRecs : recs[i] \in Rec
      /\ HeapTop \in Nat /\ NHeap \in Nat /\ Garbage \in Nat
      /\ size \in Nat \ {0} /\ PAGE_NEW_SUPREMUM_END \in Nat /\ pageEmptyFree \in Nat
      /\ Cardinality(bytesOf(recs)) = (HeapTop - PAGE_NEW_SUPREMUM_END) - Garbage
  BY InvTypes, InsertPlaceAssumption DEF IInv, NRecs, Layout, TypeOK
<1>2. ~splits(p, size) /\ ~(maxInsertSize(1) >= size) BY DEF place
<1>3. maxInsertSize(1) < size BY <1>1, <1>2, InsertSizes
<1>4. CASE (Garbage > 0 /\ NRecs > 1) \/ Garbage = 0
  <2>1. ~(maxInsertSizeAfterReorganize(1) < size) BY <1>2, <1>3, <1>4, Zenon DEF splits
  <2>2. QED BY <2>1, <1>1, InsertSizes
<1>5. ASSUME NEW t \in Sizes, NRecs + 1 <= 2, (HeapTop - PAGE_NEW_SUPREMUM_END) - Garbage <= t
      PROVE  (HeapTop - PAGE_NEW_SUPREMUM_END) - Garbage + size + dirReserved(NRecs + 1) <= pageEmptyFree
  <2>1. 2 * size + dirReserved(2) <= pageEmptyFree /\ 2 * t + dirReserved(2) <= pageEmptyFree
        /\ t \in Nat
    BY InsertPlaceAssumption
  <2>2. dirReserved(NRecs + 1) <= dirReserved(2) /\ dirReserved(2) \in Nat /\ dirReserved(NRecs + 1) \in Nat
    BY <1>1, <1>5, DirReservedGrows
  <2>3. t + size + dirReserved(2) <= pageEmptyFree BY <2>1, <2>2, <1>1, SMTT(30)
  <2>4. QED BY <2>1, <2>2, <2>3, <1>5, <1>1, SMTT(30)
<1>6. CASE NRecs = 0
  <2>1. bytesOf(recs) = {} BY <1>1, <1>6 DEF bytesOf
  <2>2. (HeapTop - PAGE_NEW_SUPREMUM_END) - Garbage = 0 BY <2>1, <1>1, NoBytes
  <2>3. QED BY <2>2, <1>1, <1>5, <1>6
<1>7. CASE NRecs = 1
  <2>1. bytesOf(recs) = bytes(recs[1])
    <3>1. DOMAIN recs = {1} BY <1>1, <1>7
    <3>2. QED BY <3>1, Zenon DEF bytesOf
  <2>2. recs[1] \in Rec BY <1>1, <1>7
  <2>3. Cardinality(bytesOf(recs)) = recs[1].size /\ recs[1].size \in Sizes /\ recs[1].size \in Nat
    BY <2>1, <2>2, RecBytes
  <2>4. QED BY <2>3, <1>1, <1>5, <1>7
<1>8. QED BY <1>1, <1>4, <1>6, <1>7

LEMMA ReorganizeKeeps ==
  ASSUME IInv, NEW p \in 0 .. NRecs, NEW size \in Sizes, InsertReorganize(p, size)
  PROVE  IInv'
<1> DEFINE top == HeapTop - Garbage
           c == compacted(recs)
           r == [off |-> top, size |-> size]
<1>1. /\ NRecs \in Nat /\ NRecs = Len(recs) /\ HeapTop \in Nat /\ Garbage \in Nat
      /\ size \in Nat \ {0} /\ PAGE_NEW_SUPREMUM_END \in Nat
      /\ Layout(recs, free, HeapTop, Garbage)
  BY InvTypes, InsertPlaceAssumption DEF IInv, NRecs, Layout, TypeOK
<1>2. place(p, size) = "reorganize" BY DEF InsertReorganize
<1>3. /\ recs' = InsertAt(c, p + 1, r) /\ owned' \in groupings(NRecs + 1)
      /\ HeapTop' = top + size /\ LastInsert' = top
      /\ free' = <<>> /\ Garbage' = 0 /\ NHeap' = NRecs + 3
      /\ Direction' = PAGE_NO_DIRECTION /\ NDirection' = 0
  BY DEF InsertReorganize
<1>4. Layout(c, <<>>, top, 0) /\ Len(c) = NRecs BY <1>1, LayoutCompacts
<1>5. c \in Seq(Rec) /\ top \in Nat /\ p \in 0 .. Len(c) BY <1>4 DEF Layout
<1> HIDE DEF c, top
<1>6. Layout(recs', free', HeapTop', Garbage') BY <1>3, <1>4, <1>5, LayoutGrows
<1>7. r \in Rec BY <1>1, <1>5 DEF Rec
<1>8. recs' \in Seq(Rec) /\ Len(recs') = NRecs + 1 /\ recs'[p + 1] = r
  <2> HIDE DEF r
  <2> DEFINE q == InsertAt(c, p + 1, r)
  <2>1. /\ q \in Seq(Rec) /\ Len(q) = Len(c) + 1
        /\ \A i \in 1 .. Len(c) + 1 :
             q[i] = IF i <= p THEN c[i] ELSE IF i = p + 1 THEN r ELSE c[i - 1]
    <3> DEFINE T == Rec
    <3>1. c \in Seq(T) /\ p \in 0 .. Len(c) /\ r \in T BY <1>5, <1>7
    <3> HIDE DEF T
    <3>2. /\ q \in Seq(T) /\ Len(q) = Len(c) + 1
          /\ \A i \in 1 .. Len(c) + 1 :
               q[i] = IF i <= p THEN c[i] ELSE IF i = p + 1 THEN r ELSE c[i - 1]
      BY <3>1, InsertAtShape, SMTT(30)
    <3>3. QED BY <3>2 DEF T
  <2>2. p + 1 \in 1 .. Len(c) + 1 /\ ~(p + 1 <= p) BY <1>1, <1>4
  <2> HIDE DEF q
  <2>3. q[p + 1] = r BY <2>1, <2>2
  <2>4. QED BY <2>1, <2>3, <1>3, <1>4 DEF q
<1>9. NRecs' = NRecs + 1 BY <1>8 DEF NRecs
<1>10. Slots' BY <1>1, <1>3, <1>9, GroupedKeeps
<1>11. Pattern'
  <2>1. RunBehind'
    <3>1. p + 1 \in 1 .. NRecs' /\ recs'[p + 1].off = LastInsert' BY <1>1, <1>3, <1>8, <1>9
    <3>2. QED BY <3>1, <1>3 DEF RunBehind, PAGE_RIGHT, PAGE_LEFT, PAGE_NO_DIRECTION
  <2>2. QED BY <2>1, <1>3, <1>5 DEF Pattern
<1>12. Heap'
  <2>1. Len(free') = 0 BY <1>3
  <2>2. NHeap' = 2 + NRecs' + Len(free') BY <2>1, <1>1, <1>3, <1>9
  <2>3. NHeap' - 2 = NRecs + 1 BY <1>1, <1>3
  <2>4. (HeapTop - PAGE_NEW_SUPREMUM_END) - Garbage + size + dirReserved(NRecs + 1) <= pageEmptyFree
    BY <1>2, ReorganizedFits
  <2>5. (HeapTop' - PAGE_NEW_SUPREMUM_END) + dirReserved(NHeap' - 2) <= pageEmptyFree
    <3>1. HeapTop' - PAGE_NEW_SUPREMUM_END = (HeapTop - PAGE_NEW_SUPREMUM_END) - Garbage + size
      BY <1>1, <1>3 DEF top
    <3>2. QED BY <3>1, <2>3, <2>4
  <2>6. dirReserved(NHeap - 2)' = dirReserved(NHeap' - 2) BY DEF dirReserved
  <2>7. QED BY <2>2, <2>5, <2>6 DEF Heap
<1>13. QED BY <1>6, <1>10, <1>11, <1>12 DEF IInv

\* A split moves records of the page.
LEMMA MovedOfPage ==
  ASSUME NRecs \in Nat, NEW p \in 0 .. NRecs, NEW r \in {0, PAGE_LEFT, PAGE_RIGHT}
  PROVE  splitMoved(p, r) \in 0 .. NRecs
<1> DEFINE at == splitAt(p, r)
<1>1. CASE r = PAGE_RIGHT
  <2>1. at = IF p + 2 < NRecs + 1 THEN p + 2 ELSE 0
    BY <1>1 DEF splitAt, PAGE_RIGHT, PAGE_LEFT
  <2>2. splitRight(r) BY <1>1 DEF splitRight, PAGE_RIGHT, PAGE_LEFT
  <2>3. QED BY <2>1, <2>2 DEF splitMoved
<1>2. CASE r = PAGE_LEFT
  <2>1. at = IF p > 1 THEN p ELSE p + 1
    BY <1>2 DEF splitAt, PAGE_RIGHT, PAGE_LEFT
  <2>2. ~splitRight(r) BY <1>2 DEF splitRight
  <2>3. QED BY <2>1, <2>2 DEF splitMoved
<1>3. CASE r = 0 /\ NRecs > 1
  <2>1. at = (NRecs + 2) \div 2
    BY <1>3 DEF splitAt, PAGE_RIGHT, PAGE_LEFT
  <2>2. at >= 1 /\ at <= NRecs + 1 BY <2>1, <1>3
  <2>3. splitRight(r) BY <1>3 DEF splitRight, PAGE_RIGHT, PAGE_LEFT
  <2>4. QED BY <2>2, <2>3, <2>1 DEF splitMoved
<1>4. CASE r = 0 /\ NRecs <= 1
  <2>1. at = IF p < NRecs THEN p + 1 ELSE 0
    BY <1>4 DEF splitAt, PAGE_RIGHT, PAGE_LEFT
  <2>2. splitRight(r) BY <1>4 DEF splitRight, PAGE_RIGHT, PAGE_LEFT
  <2>3. QED BY <2>1, <2>2 DEF splitMoved
<1>5. QED BY <1>1, <1>2, <1>3, <1>4

\* The layout of either part of a page that is cut, the other being freed.
LEMMA SplitLayout ==
  ASSUME NEW s, NEW f, NEW top, NEW g, Layout(s, f, top, g), NEW k \in 0 .. Len(s)
  PROVE  LET t == SubSeq(s, 1, k)
             u == SubSeq(s, k + 1, Len(s))
         IN  /\ Layout(t, u \o f, top, Cardinality(bytesOf(u)) + g)
             /\ Len(t) = k /\ Len(u \o f) = (Len(s) - k) + Len(f)
             /\ Layout(u, t \o f, top, Cardinality(bytesOf(t)) + g)
             /\ Len(u) = Len(s) - k /\ Len(t \o f) = k + Len(f)
<1> DEFINE t == SubSeq(s, 1, k)
           u == SubSeq(s, k + 1, Len(s))
<1>1. s \in Seq(Rec) /\ alone(s) /\ f \in Seq(Rec) /\ Len(s) \in Nat BY LenProperties DEF Layout
<1>2. /\ t \in Seq(Rec) /\ Len(t) = k /\ u \in Seq(Rec) /\ Len(u) = Len(s) - k
  BY <1>1, CutShape
<1>3. /\ bytesOf(s) = bytesOf(t) \cup bytesOf(u) /\ bytesOf(t) \cap bytesOf(u) = {}
      /\ alone(t) /\ alone(u)
  BY <1>1, CutBytes
<1> HIDE DEF t, u
<1>4. Layout(t, u \o f, top, Cardinality(bytesOf(u)) + g) BY <1>2, <1>3, LayoutFrees
<1>5. Layout(u, t \o f, top, Cardinality(bytesOf(t)) + g)
  <2>1. bytesOf(s) = bytesOf(u) \cup bytesOf(t) /\ bytesOf(u) \cap bytesOf(t) = {} BY <1>3
  <2>2. QED BY <2>1, <1>2, <1>3, LayoutFrees
<1>6. Len(u \o f) = Len(u) + Len(f) /\ Len(t \o f) = Len(t) + Len(f) BY <1>1, <1>2, ConcatProperties
<1>7. QED BY <1>2, <1>4, <1>5, <1>6 DEF t, u

LEMMA SplitKeeps ==
  ASSUME IInv, NEW p \in 0 .. NRecs, NEW size \in Sizes, NEW root \in BOOLEAN, Split(p, size, root)
  PROVE  IInv'
<1> DEFINE r     == IF root THEN 0 ELSE run(p)
           s     == IF root THEN compacted(recs) ELSE recs
           f     == IF root THEN <<>> ELSE free
           top   == IF root THEN HeapTop - Garbage ELSE HeapTop
           g     == IF root THEN 0 ELSE Garbage
           moved == splitMoved(p, r)
           gone  == IF splitRight(r) THEN SubSeq(s, NRecs - moved + 1, NRecs) ELSE SubSeq(s, 1, moved)
<1>1. /\ NRecs \in Nat /\ NRecs = Len(recs) /\ HeapTop \in Nat /\ Garbage \in Nat /\ NHeap \in Nat
      /\ Len(free) \in Nat /\ PAGE_NEW_SUPREMUM_END \in Nat /\ pageEmptyFree \in Nat
      /\ Layout(recs, free, HeapTop, Garbage)
  BY InvTypes, InsertPlaceAssumption DEF IInv, NRecs, Layout, TypeOK
<1>2. r \in {0, PAGE_LEFT, PAGE_RIGHT} BY DEF run
<1>3. moved \in 0 .. NRecs
  <2> HIDE DEF r
  <2>1. QED BY <1>1, <1>2, MovedOfPage
<1>4. /\ recs' = IF splitRight(r) THEN SubSeq(s, 1, NRecs - moved) ELSE SubSeq(s, moved + 1, NRecs)
      /\ owned' \in groupings(NRecs - moved)
      /\ free' = gone \o f
      /\ Garbage' = Cardinality(bytesOf(gone)) + g
      /\ HeapTop' = top
      /\ NHeap' = IF root THEN NRecs + 2 ELSE NHeap
      /\ LastInsert' = 0 /\ Direction' = Direction /\ NDirection' = NDirection
  BY Zenon DEF Split
<1>5. Layout(s, f, top, g) /\ Len(s) = NRecs
  <2>1. CASE root BY <2>1, <1>1, LayoutCompacts
  <2>2. CASE ~root BY <2>2, <1>1
  <2>3. QED BY <2>1, <2>2
<1>6. f = IF root THEN <<>> ELSE free OBVIOUS
<1>7. top = IF root THEN HeapTop - Garbage ELSE HeapTop OBVIOUS
<1> HIDE DEF r, s, f, top, g, moved
<1>8. /\ Layout(recs', free', HeapTop', Garbage')
      /\ Len(recs') = NRecs - moved /\ Len(free') = moved + Len(f)
  <2>1. CASE splitRight(r)
    <3> DEFINE k == Len(s) - moved
               t == SubSeq(s, 1, k)
               u == SubSeq(s, k + 1, Len(s))
    <3>1. recs' = t /\ gone = u BY <2>1, <1>4, <1>5
    <3>2. k \in 0 .. Len(s) /\ Len(s) - k = moved BY <1>1, <1>3, <1>5
    <3> HIDE DEF gone, k
    <3>3. /\ Layout(t, u \o f, top, Cardinality(bytesOf(u)) + g)
          /\ Len(t) = k /\ Len(u \o f) = (Len(s) - k) + Len(f)
      BY <3>2, <1>5, SplitLayout
    <3> HIDE DEF t, u
    <3>4. QED BY <3>1, <3>2, <3>3, <1>1, <1>3, <1>4, <1>5 DEF k
  <2>2. CASE ~splitRight(r)
    <3> DEFINE k == moved
               t == SubSeq(s, 1, k)
               u == SubSeq(s, k + 1, Len(s))
    <3>1. recs' = u /\ gone = t BY <2>2, <1>4, <1>5
    <3>2. k \in 0 .. Len(s) /\ k = moved BY <1>1, <1>3, <1>5
    <3> HIDE DEF gone, k
    <3>3. /\ Layout(u, t \o f, top, Cardinality(bytesOf(t)) + g)
          /\ Len(u) = Len(s) - k /\ Len(t \o f) = k + Len(f)
      BY <3>2, <1>5, SplitLayout
    <3> HIDE DEF t, u
    <3>4. QED BY <3>1, <3>2, <3>3, <1>1, <1>3, <1>4, <1>5 DEF k
  <2>3. QED BY <2>1, <2>2
<1>9. NRecs' = NRecs - moved /\ NRecs' \in Nat BY <1>1, <1>3, <1>8 DEF NRecs
<1>10. Slots' BY <1>4, <1>9, GroupedKeeps
<1>11. Pattern' BY <1>4, PatternForgotten DEF IInv, Pattern
<1>12. Heap'
  <2>1. NHeap = 2 + NRecs + Len(free)
        /\ (HeapTop - PAGE_NEW_SUPREMUM_END) + dirReserved(NHeap - 2) <= pageEmptyFree
    BY DEF IInv, Heap
  <2>2. CASE root
    <3>1. Len(f) = 0 BY <2>2, <1>6
    <3>2. NHeap' = 2 + NRecs' + Len(free') /\ NHeap' - 2 = NRecs
      <4>1. NHeap' = NRecs + 2 BY <2>2, <1>4
      <4>2. Len(free') = moved BY <3>1, <1>3, <1>8
      <4>3. QED BY <4>1, <4>2, <1>1, <1>3, <1>9
    <3>3. dirReserved(NRecs) <= dirReserved(NHeap - 2) /\ dirReserved(NRecs) \in Nat
          /\ dirReserved(NHeap - 2) \in Nat
      <4>1. NHeap - 2 \in Nat /\ NRecs <= NHeap - 2 BY <2>1, <1>1
      <4>2. QED BY <4>1, <1>1, DirReservedGrows
    <3>4. HeapTop' = HeapTop - Garbage BY <2>2, <1>4, <1>7
    <3>5. (HeapTop' - PAGE_NEW_SUPREMUM_END) + dirReserved(NHeap' - 2) <= pageEmptyFree
      <4> DEFINE c == dirReserved(NRecs)
                 d == dirReserved(NHeap - 2)
                 e == dirReserved(NHeap' - 2)
                 h == HeapTop
                 k == HeapTop'
      <4>1. e = c BY <3>2
      <4>2. /\ c <= d /\ c \in Nat /\ d \in Nat /\ h \in Nat
            /\ k = h - Garbage /\ (h - PAGE_NEW_SUPREMUM_END) + d <= pageEmptyFree
        BY <3>3, <3>4, <2>1, <1>1
      <4> HIDE DEF c, d, e, h, k
      <4>3. (k - PAGE_NEW_SUPREMUM_END) + c <= pageEmptyFree BY <4>2, <1>1
      <4>4. (k - PAGE_NEW_SUPREMUM_END) + e <= pageEmptyFree BY <4>1, <4>3
      <4>5. QED BY <4>4 DEF e, k
    <3>6. dirReserved(NHeap - 2)' = dirReserved(NHeap' - 2) BY DEF dirReserved
    <3>7. QED BY <3>2, <3>5, <3>6 DEF Heap
  <2>3. CASE ~root
    <3>1. f = free BY <2>3, <1>6
    <3>2. NHeap' = 2 + NRecs' + Len(free')
      <4>1. NHeap' = NHeap BY <2>3, <1>4
      <4>2. Len(free') = moved + Len(free) BY <3>1, <1>8
      <4>3. QED BY <4>1, <4>2, <2>1, <1>1, <1>3, <1>9
    <3>3. HeapTop' = HeapTop /\ NHeap' = NHeap BY <2>3, <1>4, <1>7
    <3>4. QED BY <3>2, <3>3, <2>1 DEF Heap
  <2>4. QED BY <2>2, <2>3
<1>13. QED BY <1>8, <1>10, <1>11, <1>12 DEF IInv

\* The empty page.
LEMMA EmptyPage ==
  /\ Layout(<<>>, <<>>, PAGE_NEW_SUPREMUM_END, 0)
  /\ <<1>> \in [1 .. 1 -> 0 .. PAGE_DIR_SLOT_MAX_N_OWNED] /\ slotsCount(<<1>>, 0)
  /\ PAGE_NEW_SUPREMUM_END - PAGE_NEW_SUPREMUM_END + dirReserved(0) <= pageEmptyFree
<1> DEFINE a == PAGE_NEW_SUPREMUM_END
<1>2. a \in Nat /\ pageEmptyFree \in Nat /\ PAGE_DIR_SLOT_MAX_N_OWNED \in Nat
      /\ PAGE_DIR_SLOT_MIN_N_OWNED \in Nat \ {0} /\ PAGE_DIR_SLOT_SIZE \in Nat
      /\ PAGE_DIR_SLOT_MAX_N_OWNED >= 1
  BY InsertPlaceAssumption
<1>3. Layout(<<>>, <<>>, a, 0)
  <2>1. bytesOf(<<>>) \cup bytesOf(<<>>) \subseteq a .. a - 1 BY NoBytes, Zenon
  <2>2. disjoint(<<>>, <<>>) BY NoBytes, DisjointBytes
  <2>3. <<>> \in Seq(Rec) /\ alone(<<>>) BY NoBytes
  <2>4. 0 \in Nat /\ a <= a BY <1>2
  <2>5. Cardinality(bytesOf(<<>>)) = (a - a) - 0
    <3>1. Cardinality(bytesOf(<<>>)) = 0 BY NoBytes, Zenon
    <3>2. QED BY <3>1, <1>2
  <2>6. QED BY <2>1, <2>2, <2>3, <2>4, <2>5, <1>2 DEF Layout
<1>4. <<1>> \in [1 .. 1 -> 0 .. PAGE_DIR_SLOT_MAX_N_OWNED] /\ <<1>>[1] = 1 BY <1>2
<1>5. slotsCount(<<1>>, 0) BY <1>4, <1>2 DEF slotsCount
<1>6. dirReserved(0) = 0
  <2> DEFINE b == PAGE_DIR_SLOT_MIN_N_OWNED
             q == (b - 1) \div b
  <2>1. dirReserved(0) = q /\ b - 1 \in Nat /\ b \in Nat \ {0} BY <1>2 DEF dirReserved
  <2> HIDE DEF b
  <2>2. q \in Nat /\ b * q <= b - 1 BY <2>1, DivBounds
  <2> HIDE DEF q
  <2>3. q = 0
    <3>1. SUFFICES ASSUME q >= 1 PROVE FALSE BY <2>2
    <3>2. b * 1 <= b * q BY <3>1, <2>1, <2>2, ProductGrows
    <3>3. QED BY <3>2, <2>1, <2>2
  <2>4. QED BY <2>1, <2>3
<1>7. QED BY <1>2, <1>3, <1>4, <1>5, <1>6

LEMMA EmptyPageKeeps ==
  ASSUME emptyPage
  PROVE  IInv'
<1>1. /\ recs' = <<>> /\ owned' = <<1>> /\ free' = <<>>
      /\ HeapTop' = PAGE_NEW_SUPREMUM_END /\ NHeap' = 2 /\ Garbage' = 0
      /\ LastInsert' = 0 /\ Direction' = PAGE_NO_DIRECTION /\ NDirection' = 0
  BY DEF emptyPage
<1>2. Len(recs') = 0 /\ Len(free') = 0 BY <1>1
<1>3. NRecs' = 0 BY <1>2 DEF NRecs
<1>4. Layout(recs', free', HeapTop', Garbage') BY <1>1, EmptyPage
<1>5. Slots'
  <2>1. owned' \in [1 .. 1 -> 0 .. PAGE_DIR_SLOT_MAX_N_OWNED] /\ slotsCount(owned', 0)
    BY <1>1, EmptyPage
  <2>2. QED BY <2>1, <1>3 DEF Slots, SlotsCount, slotsCount
<1>6. Pattern' BY <1>1, PatternForgotten
<1>7. Heap'
  <2>1. (HeapTop' - PAGE_NEW_SUPREMUM_END) + dirReserved(NHeap' - 2) <= pageEmptyFree
    BY <1>1, EmptyPage
  <2>2. dirReserved(NHeap - 2)' = dirReserved(NHeap' - 2) BY DEF dirReserved
  <2>3. QED BY <2>1, <2>2, <1>1, <1>2, <1>3 DEF Heap
<1>8. QED BY <1>4, <1>5, <1>6, <1>7 DEF IInv

LEMMA InitInv == Init => IInv
<1> SUFFICES ASSUME Init PROVE IInv OBVIOUS
<1>1. /\ recs = <<>> /\ owned = <<1>> /\ free = <<>>
      /\ HeapTop = PAGE_NEW_SUPREMUM_END /\ NHeap = 2 /\ Garbage = 0
      /\ LastInsert = 0 /\ Direction = PAGE_NO_DIRECTION /\ NDirection = 0
  BY DEF Init
<1>2. Len(recs) = 0 /\ Len(free) = 0 BY <1>1
<1>3. NRecs = 0 BY <1>2 DEF NRecs
<1>4. Layout(recs, free, HeapTop, Garbage) BY <1>1, EmptyPage
<1>5. Slots
  <2>1. owned \in [1 .. 1 -> 0 .. PAGE_DIR_SLOT_MAX_N_OWNED] /\ slotsCount(owned, 0)
    BY <1>1, EmptyPage
  <2>2. QED BY <2>1, <1>3 DEF Slots, SlotsCount
<1>6. Pattern BY <1>1 DEF Pattern, RunBehind
<1>7. Heap BY <1>1, <1>2, <1>3, EmptyPage DEF Heap
<1>8. QED BY <1>4, <1>5, <1>6, <1>7 DEF IInv

LEMMA FreeKeeps ==
  ASSUME IInv, NEW i \in 1 .. NRecs, Free(i)
  PROVE  IInv'
<1>1. /\ NRecs \in Nat /\ NRecs = Len(recs) /\ Len(free) \in Nat /\ recs \in Seq(Rec) /\ free \in Seq(Rec)
      /\ recs[i] \in Rec /\ Layout(recs, free, HeapTop, Garbage)
  BY InvTypes DEF IInv, NRecs, Layout
<1>2. CASE emptyPage BY <1>2, EmptyPageKeeps
<1>3. CASE ~emptyPage
  <2>1. /\ NRecs > 1
        /\ recs' = RemoveAt(recs, i)
        /\ owned' \in groupings(NRecs - 1)
        /\ free' = <<recs[i]>> \o free /\ Garbage' = Garbage + recs[i].size
        /\ LastInsert' = 0
        /\ HeapTop' = HeapTop /\ NHeap' = NHeap /\ Direction' = Direction /\ NDirection' = NDirection
    BY <1>3 DEF Free
  <2>2. i \in 1 .. Len(recs) BY <1>1
  <2>3. Layout(recs', free', HeapTop', Garbage') BY <2>1, <2>2, <1>1, LayoutRemoves
  <2>4. Len(recs') = Len(recs) - 1 BY <2>1, <2>2, <1>1, RemoveAtShape
  <2>5. NRecs' = NRecs - 1 /\ NRecs' \in Nat BY <2>1, <2>4, <1>1 DEF NRecs
  <2>6. Slots' BY <2>1, <2>5, GroupedKeeps
  <2>7. Pattern' BY <2>1, PatternForgotten DEF IInv, Pattern
  <2>8. Len(free') = Len(free) + 1
    <3>1. <<recs[i]>> \in Seq(Rec) /\ Len(<<recs[i]>>) = 1 BY <1>1
    <3>2. QED BY <3>1, <2>1, <1>1, ConcatProperties
  <2>9. Heap' BY <2>1, <2>5, <2>8, <1>1 DEF IInv, Heap
  <2>10. QED BY <2>3, <2>6, <2>7, <2>9 DEF IInv
<1>4. QED BY <1>2, <1>3

LEMMA NextInv == IInv /\ [Next]_vars => IInv'
<1> SUFFICES ASSUME IInv, [Next]_vars PROVE IInv' OBVIOUS
<1>1. ASSUME NEW p \in 0 .. NRecs, NEW size \in Sizes, Insert(p, size) PROVE IInv'
  <2>1. CASE InsertFreeList(p, size) BY <2>1, FreeListKeeps
  <2>2. CASE InsertHeap(p, size) BY <2>2, HeapKeeps
  <2>3. CASE InsertReorganize(p, size) BY <2>3, ReorganizeKeeps
  <2>4. ASSUME NEW root \in BOOLEAN, Split(p, size, root) PROVE IInv' BY <2>4, SplitKeeps
  <2>5. QED BY <1>1, <2>1, <2>2, <2>3, <2>4 DEF Insert
<1>2. ASSUME NEW i \in 1 .. NRecs, Free(i) PROVE IInv' BY <1>2, FreeKeeps
<1>3. CASE UNCHANGED vars
  <2>1. /\ recs' = recs /\ owned' = owned /\ free' = free /\ HeapTop' = HeapTop /\ NHeap' = NHeap
        /\ Garbage' = Garbage /\ LastInsert' = LastInsert /\ Direction' = Direction
        /\ NDirection' = NDirection
    BY <1>3 DEF vars
  <2>2. NRecs' = NRecs BY <2>1 DEF NRecs
  <2>3. Layout(recs', free', HeapTop', Garbage') BY <2>1 DEF IInv
  <2>4. Heap' BY <2>1, <2>2 DEF IInv, Heap
  <2>5. Slots' BY <2>1, <2>2 DEF IInv, Slots, SlotsCount, slotsCount
  <2>6. Pattern' BY <2>1, <2>2 DEF IInv, Pattern, RunBehind
  <2>7. QED BY <2>3, <2>4, <2>5, <2>6 DEF IInv
<1>4. QED BY <1>1, <1>2, <1>3 DEF Next

\* The heap, its slots and the insert pattern, on every page the server makes.
THEOREM Invariant == Spec => []IInv
BY InitInv, NextInv, PTL DEF Spec

\* Every variable keeps its type.
THEOREM TypeCorrect == Spec => []TypeOK
<1>1. IInv => TypeOK BY InvTypes
<1>2. QED BY <1>1, Invariant, PTL

\* No two records share a byte, what is not garbage is theirs, and the heap never
\* meets the page directory, though it is charged for fewer slots than it may grow to.
THEOREM UsageAddsUp == Spec => []PageUsage
<1>1. ASSUME IInv PROVE PageUsage
  <2> DEFINE k == Cardinality({i \in 1 .. NRecs : owned[i] > 0})
             c == PAGE_DIR_SLOT_SIZE
  <2>1. /\ NRecs \in Nat /\ Len(free) \in Nat /\ NHeap \in Nat /\ HeapTop \in Nat
        /\ PAGE_NEW_SUPREMUM_END \in Nat /\ pageEmptyFree \in Nat /\ c \in Nat
        /\ PAGE_DIR_SLOT_MIN_N_OWNED \in Nat /\ PAGE_DIR_SLOT_MAX_N_OWNED \in Nat
        /\ NHeap = 2 + NRecs + Len(free)
        /\ (HeapTop - PAGE_NEW_SUPREMUM_END) + dirReserved(NHeap - 2) <= pageEmptyFree
    BY <1>1, InvTypes, InsertPlaceAssumption DEF IInv, Heap, TypeOK
  <2>2. k \in Nat /\ k * PAGE_DIR_SLOT_MIN_N_OWNED <= NRecs
    <3>1. owned \in [1 .. NRecs + 1 -> Nat] /\ slotsCount(owned, NRecs)
      BY <1>1, <2>1 DEF IInv, Slots, SlotsCount
    <3>2. QED BY <3>1, <2>1, SlotsFew
  <2>3. NDirSlots - 2 = k BY <2>2 DEF NDirSlots
  <2> HIDE DEF k
  <2>4. NHeap - 2 \in Nat /\ NRecs <= NHeap - 2 BY <2>1
  <2>5. c * k <= dirReserved(NHeap - 2)
    <3>1. k * PAGE_DIR_SLOT_MIN_N_OWNED \in Nat BY <2>1, <2>2
    <3>2. k * PAGE_DIR_SLOT_MIN_N_OWNED <= NHeap - 2 BY <3>1, <2>1, <2>2, <2>4
    <3>3. QED BY <3>2, <2>2, <2>4, DirReservedCovers
  <2>6. dirReserved(NHeap - 2) \in Nat BY <2>4, DirReservedGrows
  <2>7. c * k \in Nat BY <2>1, <2>2
  <2>8. HeapTop - PAGE_NEW_SUPREMUM_END + c * (NDirSlots - 2) <= pageEmptyFree
    BY <2>1, <2>3, <2>5, <2>6, <2>7
  <2>9. QED BY <1>1, <2>8 DEF PageUsage, IInv, Layout
<1>2. QED BY <1>1, Invariant, PTL

\* The plan never sends a record where there is no room for it.
THEOREM PlanHasRoom == Spec => []PlanFits
<1>1. ASSUME IInv PROVE PlanFits
  <2>1. SUFFICES ASSUME NRecs > 0, NEW p \in 0 .. NRecs
                 PROVE  /\ place(p, sizeOf(p)) = "free list" => sizeOf(p) <= Garbage
                        /\ place(p, sizeOf(p)) = "heap" =>
                             HeapTop - PAGE_NEW_SUPREMUM_END + sizeOf(p) + dirReserved(NHeap - 1) <= pageEmptyFree
                        /\ place(p, sizeOf(p)) = "reorganize" =>
                             Cardinality(bytesOf(recs)) + sizeOf(p) + dirReserved(NRecs + 1) <= pageEmptyFree
    BY Zenon DEF PlanFits
  <2> DEFINE size == sizeOf(p)
  <2>2. /\ NRecs \in Nat /\ TypeOK /\ NHeap >= 2 /\ Layout(recs, free, HeapTop, Garbage)
        /\ \A i \in 1 .. NRecs : recs[i] \in Rec
        /\ Cardinality(bytesOf(recs)) = (HeapTop - PAGE_NEW_SUPREMUM_END) - Garbage
        /\ free \in Seq(Rec) /\ Garbage \in Nat
    BY <1>1, InvTypes DEF IInv, Layout
  <2>3. size \in Sizes /\ size \in Nat \ {0}
    <3>1. 1 \in 1 .. NRecs /\ (p > 0 => p \in 1 .. NRecs) BY <2>1, <2>2
    <3>2. QED BY <3>1, <2>2, RecBytes DEF sizeOf
  <2> HIDE DEF size
  <2>4. ASSUME place(p, size) = "free list" PROVE size <= Garbage
    <3>1. free # <<>> /\ Head(free).size >= size BY <2>4 DEF place
    <3>2. 1 \in DOMAIN free /\ Head(free) = free[1] BY <3>1, <2>2, HeadTailProperties, EmptySeq, LenProperties
    <3>3. Head(free).size <= Garbage /\ Head(free) \in Rec BY <3>2, <2>2, LayoutCounts
    <3>4. Head(free).size \in Nat BY <3>3, RecBytes
    <3>5. QED BY <3>1, <3>3, <3>4, <2>2, <2>3
  <2>5. ASSUME place(p, size) = "heap"
        PROVE  HeapTop - PAGE_NEW_SUPREMUM_END + size + dirReserved(NHeap - 1) <= pageEmptyFree
    <3>1. maxInsertSize(1) >= size BY <2>5 DEF place
    <3>2. QED BY <3>1, <2>2, <2>3, InsertSizes
  <2>6. ASSUME place(p, size) = "reorganize"
        PROVE  Cardinality(bytesOf(recs)) + size + dirReserved(NRecs + 1) <= pageEmptyFree
    BY <2>6, <1>1, <2>2, <2>3, ReorganizedFits
  <2>7. QED BY <2>4, <2>5, <2>6 DEF size
<1>2. QED BY <1>1, Invariant, PTL

\* The directory counts the records right, whichever slot the plan adds to and splits.
THEOREM DirectoryCounts == Spec => []SlotsCount
<1>1. IInv => SlotsCount BY DEF IInv, Slots
<1>2. QED BY <1>1, Invariant, PTL

\* A counted run of inserts is on the page, ending at PAGE_LAST_INSERT.
THEOREM RunIsThere == Spec => []RunBehind
<1>1. IInv => RunBehind BY DEF IInv, Pattern
<1>2. QED BY <1>1, Invariant, PTL

\* Records of a size z take z bytes each.
LEMMA SameSizeBytes ==
  ASSUME NEW s \in Seq(Rec), alone(s), NEW z \in Nat \ {0}, \A i \in 1 .. Len(s) : s[i].size = z
  PROVE  Cardinality(bytesOf(s)) = Len(s) * z
<1> DEFINE n == Len(s)
           P == (1 .. n) \X (1 .. z)
           f == [x \in P |-> s[x[1]].off + x[2] - 1]
<1>1. /\ n \in Nat /\ DOMAIN s = 1 .. n /\ z \in Nat
      /\ \A i \in 1 .. n : s[i].off \in Nat /\ bytes(s[i]) = s[i].off .. s[i].off + z - 1
  BY LenProperties, ElementOfSeq, RecBytes DEF bytes
<1>2. IsFiniteSet(1 .. n) /\ Cardinality(1 .. n) = n BY <1>1, FS_Interval
<1>3. IsFiniteSet(1 .. z) /\ Cardinality(1 .. z) = z BY FS_Interval
<1>4. IsFiniteSet(P) /\ Cardinality(P) = n * z
  <2> DEFINE A == 1 .. n
             B == 1 .. z
  <2>1. IsFiniteSet(A) /\ IsFiniteSet(B) /\ Cardinality(A) = n /\ Cardinality(B) = z BY <1>2, <1>3
  <2>2. P = A \X B OBVIOUS
  <2> HIDE DEF n, A, B, P
  <2>3. IsFiniteSet(A \X B) /\ Cardinality(A \X B) = Cardinality(A) * Cardinality(B)
    BY <2>1, FS_Product
  <2>4. QED BY <2>1, <2>2, <2>3
<1> HIDE DEF n
<1>5. \A x \in P : x[1] \in 1 .. n /\ x[2] \in 1 .. z /\ f[x] = s[x[1]].off + x[2] - 1 OBVIOUS
<1>6. \A x \in P : f[x] \in bytes(s[x[1]])
  <2>1. SUFFICES ASSUME NEW x \in P PROVE f[x] \in bytes(s[x[1]]) OBVIOUS
  <2>2. x[1] \in 1 .. n /\ x[2] \in 1 .. z /\ f[x] = s[x[1]].off + x[2] - 1 OBVIOUS
  <2> DEFINE a == s[x[1]].off
             b == x[2]
  <2>3. a \in Nat /\ bytes(s[x[1]]) = a .. a + z - 1 BY <2>2, <1>1
  <2>4. b \in 1 .. z /\ f[x] = a + b - 1 BY <2>2
  <2> HIDE DEF a, b, f
  <2>5. a + b - 1 \in a .. a + z - 1 BY <2>3, <2>4, <1>1
  <2>6. QED BY <2>3, <2>4, <2>5
<1>7. f \in Surjection(P, bytesOf(s))
  <2>1. \A x \in P : f[x] \in bytesOf(s)
    <3>1. \A i \in 1 .. n : bytes(s[i]) \subseteq bytesOf(s) BY <1>1, MemberBytes
    <3> HIDE DEF f
    <3>2. QED BY <3>1, <1>5, <1>6
  <2>2. ASSUME NEW b \in bytesOf(s) PROVE \E x \in P : f[x] = b
    <3>1. PICK i \in 1 .. n : b \in bytes(s[i]) BY <2>2, <1>1 DEF bytesOf
    <3> DEFINE a == s[i].off
               j == b - a + 1
    <3>2. a \in Nat /\ b \in a .. a + z - 1 BY <3>1, <1>1
    <3>3. j \in 1 .. z /\ a + j - 1 = b BY <3>2, <1>1
    <3>4. <<i, j>> \in P BY <3>3
    <3> HIDE DEF j
    <3>5. f[<<i, j>>] = a + j - 1 BY <3>4
    <3>6. QED BY <3>3, <3>4, <3>5
  <2>3. f \in [P -> bytesOf(s)] BY <2>1
  <2> HIDE DEF P, f
  <2>4. QED BY <2>2, <2>3 DEF Surjection
<1>8. f \in Injection(P, bytesOf(s))
  <2>1. ASSUME NEW x \in P, NEW y \in P, f[x] = f[y] PROVE x = y
    <3>1. x[1] \in 1 .. n /\ x[2] \in 1 .. z /\ y[1] \in 1 .. n /\ y[2] \in 1 .. z
          /\ x = <<x[1], x[2]>> /\ y = <<y[1], y[2]>>
      OBVIOUS
    <3>2. f[x] \in bytes(s[x[1]]) /\ f[x] \in bytes(s[y[1]]) BY <2>1, <1>6
    <3>3. x[1] = y[1]
      <4> HIDE DEF f
      <4>1. QED BY <3>1, <3>2, <1>1 DEF alone
    <3>4. x[2] = y[2]
      <4>1. f[x] = s[x[1]].off + x[2] - 1 /\ f[y] = s[x[1]].off + y[2] - 1 BY <1>5, <3>3
      <4>2. s[x[1]].off \in Nat BY <3>1, <1>1
      <4> HIDE DEF f
      <4>3. QED BY <4>1, <4>2, <3>1, <2>1
    <3>5. QED BY <3>1, <3>3, <3>4
  <2>2. f \in [P -> bytesOf(s)] BY <1>7 DEF Surjection
  <2> HIDE DEF P, f
  <2>3. QED BY <2>1, <2>2 DEF Injection, IsInjective
<1>9. QED
  <2> HIDE DEF P, f
  <2>1. Cardinality(bytesOf(s)) = Cardinality(P) BY <1>4, <1>7, <1>8, FS_Surjection
  <2>2. QED BY <2>1, <1>4 DEF n

\* A split leaves a record on both pages, and no page more than there were.
LEMMA BothHalves ==
  ASSUME NRecs \in Nat, NRecs > 0, NEW p \in 0 .. NRecs, NEW r \in {0, PAGE_LEFT, PAGE_RIGHT},
         r \in {0, run(p)}
  PROVE  LET moved == splitMoved(p, r)
             new   == moved + (IF insertLeft(p, r) # splitRight(r) THEN 1 ELSE 0)
         IN  moved \in 0 .. NRecs /\ new \in 1 .. NRecs
<1> DEFINE at    == splitAt(p, r)
           moved == splitMoved(p, r)
           new   == moved + (IF insertLeft(p, r) # splitRight(r) THEN 1 ELSE 0)
<1> SUFFICES moved \in 0 .. NRecs /\ new \in 1 .. NRecs OBVIOUS
<1>1. CASE r = PAGE_RIGHT
  <2>1. at = IF p + 2 < NRecs + 1 THEN p + 2 ELSE 0
    BY <1>1 DEF splitAt, PAGE_RIGHT, PAGE_LEFT
  <2>2. splitRight(r) = TRUE BY <1>1 DEF splitRight, PAGE_RIGHT, PAGE_LEFT
  <2>3. run(p) = PAGE_RIGHT BY <1>1 DEF PAGE_RIGHT
  <2>4. p > 0 BY <2>3 DEF run, PAGE_RIGHT, PAGE_LEFT
  <2>5. CASE p + 2 < NRecs + 1
    <3>1. at = p + 2 /\ insertLeft(p, r) = TRUE BY <2>1, <2>5 DEF insertLeft
    <3>2. moved = NRecs + 1 - (p + 2) BY <3>1, <2>2 DEF splitMoved
    <3>3. QED BY <3>1, <3>2, <2>2, <2>5
  <2>6. CASE ~(p + 2 < NRecs + 1)
    <3>1. at = 0 /\ insertLeft(p, r) = FALSE BY <2>1, <2>6 DEF insertLeft
    <3>2. moved = NRecs - p BY <3>1 DEF splitMoved
    <3>3. new = moved + 1 BY <3>1, <2>2, Zenon
    <3> HIDE DEF new, moved
    <3>4. QED BY <3>2, <3>3, <2>4
  <2>7. QED BY <2>5, <2>6
<1>2. CASE r = PAGE_LEFT
  <2>1. at = IF p > 1 THEN p ELSE p + 1
    BY <1>2 DEF splitAt, PAGE_RIGHT, PAGE_LEFT
  <2>2. splitRight(r) = FALSE BY <1>2 DEF splitRight
  <2>3. run(p) = PAGE_LEFT BY <1>2 DEF PAGE_LEFT
  <2>4. p < NRecs BY <2>3 DEF run, PAGE_RIGHT, PAGE_LEFT
  <2>5. moved = at - 1 BY <2>1, <2>2 DEF splitMoved
  <2>6. CASE p > 1
    <3>1. at = p /\ insertLeft(p, r) = FALSE BY <2>1, <2>6 DEF insertLeft
    <3>2. QED BY <3>1, <2>2, <2>4, <2>5, <2>6
  <2>7. CASE ~(p > 1)
    <3>1. at = p + 1 /\ insertLeft(p, r) = TRUE BY <2>1, <2>7 DEF insertLeft
    <3>2. new = moved + 1 BY <3>1, <2>2, Zenon
    <3> HIDE DEF new, moved, at
    <3>3. QED BY <3>1, <3>2, <2>4, <2>5
  <2>8. QED BY <2>6, <2>7
<1>3. CASE r = 0 /\ NRecs > 1
  <2>1. at = (NRecs + 2) \div 2
    BY <1>3 DEF splitAt, PAGE_RIGHT, PAGE_LEFT
  <2>2. at \in 2 .. NRecs BY <2>1, <1>3
  <2>3. splitRight(r) = TRUE BY <1>3 DEF splitRight, PAGE_RIGHT, PAGE_LEFT
  <2>4. moved = NRecs + 1 - at BY <2>2, <2>3 DEF splitMoved
  <2>5. new = moved \/ new = moved + 1
    <3>1. moved \in Int BY <2>2, <2>4
    <3> HIDE DEF moved
    <3>2. QED BY <3>1
  <2> HIDE DEF at, moved, new
  <2>6. QED BY <2>2, <2>4, <2>5
<1>4. CASE r = 0 /\ NRecs <= 1
  <2>1. at = IF p < NRecs THEN p + 1 ELSE 0
    BY <1>4 DEF splitAt, PAGE_RIGHT, PAGE_LEFT
  <2>2. splitRight(r) = TRUE BY <1>4 DEF splitRight, PAGE_RIGHT, PAGE_LEFT
  <2>3. NRecs = 1 BY <1>4
  <2>4. CASE p < NRecs
    <3>1. at = p + 1 /\ insertLeft(p, r) = TRUE BY <2>1, <2>4 DEF insertLeft
    <3>2. moved = NRecs + 1 - (p + 1) BY <3>1, <2>2 DEF splitMoved
    <3>3. QED BY <3>1, <3>2, <2>2, <2>3, <2>4
  <2>5. CASE ~(p < NRecs)
    <3>1. at = 0 /\ insertLeft(p, r) = FALSE BY <2>1, <2>5 DEF insertLeft
    <3>2. moved = NRecs - p BY <3>1 DEF splitMoved
    <3>3. new = moved + 1 BY <3>1, <2>2, Zenon
    <3> HIDE DEF new, moved
    <3>4. QED BY <3>2, <3>3, <2>3, <2>5
  <2>6. QED BY <2>4, <2>5
<1>5. QED BY <1>1, <1>2, <1>3, <1>4

\* Where records are of a size, both halves of a split have a record and room for it.
THEOREM SplitHasRoom == Spec => []SplitFits
<1>1. ASSUME IInv PROVE SplitFits
  <2> DEFINE fits(p, r) ==
               LET moved == splitMoved(p, r)
                   onNew == insertLeft(p, r) # splitRight(r)
                   new   == moved + (IF onNew THEN 1 ELSE 0)
                   kept  == NRecs + 1 - new
               IN  /\ moved \in 0 .. NRecs /\ new > 0 /\ kept > 0
                   /\ \A n \in {new, kept} : n * recs[1].size + dirReserved(n) <= pageEmptyFree
             asked(p, r) ==
               /\ NRecs > 0 /\ \A i \in 1 .. NRecs : recs[i].size = recs[1].size
               /\ splits(p, recs[1].size) /\ r \in {0, run(p)}
  <2>a. (\A p \in 0 .. NRecs, r \in {0, PAGE_LEFT, PAGE_RIGHT} : asked(p, r) => fits(p, r))
        => SplitFits
    BY DEF SplitFits
  <2> HIDE DEF fits, asked
  <2>b. SUFFICES ASSUME NEW p \in 0 .. NRecs, NEW r \in {0, PAGE_LEFT, PAGE_RIGHT}, asked(p, r)
                 PROVE  fits(p, r)
    BY <2>a
  <2>1. NRecs > 0 /\ (\A i \in 1 .. NRecs : recs[i].size = recs[1].size) /\ r \in {0, run(p)}
    BY <2>b DEF asked
  <2> DEFINE z     == recs[1].size
             moved == splitMoved(p, r)
             new   == moved + (IF insertLeft(p, r) # splitRight(r) THEN 1 ELSE 0)
             kept  == NRecs + 1 - new
  <2>2. /\ NRecs \in Nat /\ NRecs = Len(recs) /\ recs \in Seq(Rec) /\ alone(recs) /\ recs[1] \in Rec
        /\ HeapTop \in Nat /\ NHeap \in Nat /\ Garbage \in Nat /\ Len(free) \in Nat
        /\ PAGE_NEW_SUPREMUM_END \in Nat /\ pageEmptyFree \in Nat
        /\ Cardinality(bytesOf(recs)) = (HeapTop - PAGE_NEW_SUPREMUM_END) - Garbage
        /\ NHeap = 2 + NRecs + Len(free)
        /\ (HeapTop - PAGE_NEW_SUPREMUM_END) + dirReserved(NHeap - 2) <= pageEmptyFree
    BY <1>1, <2>1, InvTypes, InsertPlaceAssumption DEF IInv, Layout, Heap, NRecs, TypeOK
  <2>3. z \in Nat \ {0} BY <2>2, RecBytes
  <2>4. Cardinality(bytesOf(recs)) = NRecs * z
    <3>1. \A i \in 1 .. Len(recs) : recs[i].size = z BY <2>1, <2>2
    <3> HIDE DEF z
    <3>2. QED BY <3>1, <2>2, <2>3, SameSizeBytes
  <2>5. moved \in 0 .. NRecs /\ new \in 1 .. NRecs BY <2>1, <2>2, BothHalves
  <2> HIDE DEF z, new, moved
  <2>6. kept \in 1 .. NRecs BY <2>2, <2>5
  <2>7. ASSUME NEW n \in 1 .. NRecs PROVE n * z + dirReserved(n) <= pageEmptyFree
    <3>1. n \in Nat /\ n <= NRecs /\ NHeap - 2 \in Nat /\ n <= NHeap - 2 BY <2>2
    <3>2. z * n <= z * NRecs /\ z * n \in Nat /\ z * NRecs \in Nat BY <3>1, <2>2, <2>3, ProductGrows
    <3>3. n * z = z * n /\ NRecs * z = z * NRecs BY <3>1, <2>2, <2>3
    <3>4. dirReserved(n) <= dirReserved(NHeap - 2) /\ dirReserved(n) \in Nat /\ dirReserved(NHeap - 2) \in Nat
      BY <3>1, DirReservedGrows
    <3>5. QED BY <3>2, <3>3, <3>4, <2>2, <2>4, SMTT(30)
  <2> HIDE DEF kept
  <2>8. \A n \in {new, kept} : n * z + dirReserved(n) <= pageEmptyFree BY <2>5, <2>6, <2>7
  <2>9. new > 0 /\ kept > 0 BY <2>5, <2>6
  <2>10. QED BY <2>5, <2>8, <2>9 DEF fits, new, kept, moved, z
<1>2. QED BY <1>1, Invariant, PTL
=============================================================================
