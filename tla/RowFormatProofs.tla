---------------------------- MODULE RowFormatProofs ----------------------------
(***************************************************************************)
(* Whatever columns a table has and whatever is added to it or dropped     *)
(* from it INSTANT, definitions as new as a row read the row whole, and    *)
(* those of any age read its node pointers, and the entries of a secondary *)
(* index on a column that was there at first.                              *)
(*                                                                         *)
(* That a record can be read is not inductive: it depends on what ALTER    *)
(* does to the columns after the record was written and after the          *)
(* definitions were read.  RowInv says what is kept through any number of  *)
(* them: the columns, the row's and the definitions' are those of versions *)
(* of one table, and `later' orders versions.  A later version has the     *)
(* fields of an earlier one first, at the same places, and has altered     *)
(* none of them but by dropping it in a version after.                     *)
(*                                                                         *)
(* The rest is about parseRec alone and no step.  `placed' says where in a *)
(* record a reader is once it has passed some of its columns: the null     *)
(* bits before it are those of the nullable columns that the record has,   *)
(* the length bytes and the data are those of the values that are not      *)
(* NULL.  `shows' says what it has shown.  Both are kept by readField,     *)
(* whether the record has the column, is too old for it or too new.        *)
(* A number is shown to be told by its bits for bytes of any width.        *)
(***************************************************************************)
EXTENDS RowFormat, NatSets, SequenceTheorems, TLAPS

-----------------------------------------------------------------------------
(* Bytes.                                                                  *)

\* The weights of bits are defined: the recursion is on a number.
LEMMA WeightDef == weight = [k \in 0 .. Bits |-> IF k = 0 THEN 1 ELSE 2 * weight[k - 1]]
<1> DEFINE step(x) == 2 * x
           upTo(f, n) == f = [k \in 0 .. Bits |-> IF k = 0 \/ k > n THEN 1 ELSE step(f[k - 1])]
           P == {n \in 0 .. Bits : \E f : upTo(f, n)}
<1>0. Bits \in Nat BY RowFormatAssumption
<1> HIDE DEF step
<1>1. 0 \in P
  <2> DEFINE f == [k \in 0 .. Bits |-> 1]
  <2>1. upTo(f, 0) BY <1>0
  <2> QED BY <1>0, <2>1
<1>2. ASSUME NEW n \in 1 .. Bits, n - 1 \in P PROVE n \in P
  <2>1. PICK f : upTo(f, n - 1) BY <1>2
  <2> DEFINE g == [k \in 0 .. Bits |-> IF k = n THEN step(f[n - 1]) ELSE f[k]]
  <2>2. \A k \in 0 .. Bits : g[k] = IF k = 0 \/ k > n THEN 1 ELSE step(g[k - 1])
    <3> TAKE k \in 0 .. Bits
    <3>1. f[k] = IF k = 0 \/ k > n - 1 THEN 1 ELSE step(f[k - 1]) BY <2>1
    <3>2. CASE k = 0 \/ k > n BY <3>1, <3>2, <1>0
    <3>3. CASE k \in 1 .. n
      <4>1. k - 1 \in 0 .. Bits /\ k - 1 # n BY <3>3, <1>0
      <4>2. g[k - 1] = f[k - 1] BY <4>1
      <4> QED BY <3>1, <3>3, <4>2, <1>0
    <3> QED BY <3>2, <3>3, <1>0
  <2>3. g = [k \in 0 .. Bits |-> g[k]] OBVIOUS
  <2>4. upTo(g, n)
    <3> HIDE DEF g
    <3> QED BY <2>2, <2>3
  <2>5. n \in 0 .. Bits BY <1>0
  <2> HIDE DEF upTo
  <2> QED BY <2>4, <2>5
<1>3. Bits \in P
  <2>1. \A n \in 0 .. Bits : n \in P
    <3> HIDE DEF P
    <3> QED BY <1>0, <1>1, <1>2, Upward
  <2> HIDE DEF P
  <2> QED BY <1>0, <2>1
<1>4. PICK f : upTo(f, Bits) BY <1>3
<1>5. \A k \in 0 .. Bits : (k = 0 \/ k > Bits) <=> k = 0 BY <1>0
<1>6. f = [k \in 0 .. Bits |-> IF k = 0 THEN 1 ELSE step(f[k - 1])] BY <1>4, <1>5
<1>7. f = [k \in 0 .. Bits |-> IF k = 0 THEN 1 ELSE 2 * f[k - 1]] BY <1>6 DEF step
<1> QED BY <1>7 DEF weight

\* Each bit weighs twice as much as the one before it, and none is without weight.
LEMMA Weights ==
  /\ weight[0] = 1
  /\ \A k \in 1 .. Bits : weight[k] = 2 * weight[k - 1]
  /\ \A k \in 0 .. Bits : weight[k] \in Nat /\ weight[k] >= 1
<1> DEFINE P == {k \in 0 .. Bits : weight[k] \in Nat /\ weight[k] >= 1}
<1>0. Bits \in Nat BY RowFormatAssumption
<1>1. weight[0] = 1 BY <1>0, WeightDef
<1>2. \A k \in 1 .. Bits : weight[k] = 2 * weight[k - 1] BY <1>0, WeightDef
<1>3. 0 \in P BY <1>0, <1>1
<1>4. \A k \in 1 .. Bits : k - 1 \in P => k \in P BY <1>0, <1>2
<1>5. \A k \in 0 .. Bits : k \in P
  <2> HIDE DEF P
  <2> QED BY <1>0, <1>3, <1>4, Upward
<1> QED BY <1>1, <1>2, <1>5

\* A byte has 8 values or more, and what is left of one of its upper two bits is a half or
\* a quarter of them: where the length of a value begins to take two bytes, and ends.
LEMMA ByteSize ==
  /\ Byte \in Nat /\ Byte >= 8
  /\ Byte \div 4 = weight[Bits - 2] /\ Byte = 4 * weight[Bits - 2]
  /\ Byte \div 2 = weight[Bits - 1] /\ Byte = 2 * weight[Bits - 1]
<1>1. Bits \in Nat /\ Bits >= 3 BY RowFormatAssumption
<1>2. Bits \in 1 .. Bits /\ Bits - 1 \in 1 .. Bits /\ Bits - 2 \in 1 .. Bits /\ Bits - 3 \in 0 .. Bits
  BY <1>1
<1>3. weight[Bits] = 2 * weight[Bits - 1] BY <1>2, Weights
<1>4. weight[Bits - 1] = 2 * weight[Bits - 2]
  <2>1. (Bits - 1) - 1 = Bits - 2 BY <1>1
  <2> QED BY <1>2, <2>1, Weights
<1>5. weight[Bits - 2] = 2 * weight[Bits - 3]
  <2>1. (Bits - 2) - 1 = Bits - 3 BY <1>1
  <2> QED BY <1>2, <2>1, Weights
<1>6. weight[Bits - 3] \in Nat /\ weight[Bits - 3] >= 1 BY <1>2, Weights
<1> QED BY <1>3, <1>4, <1>5, <1>6 DEF Byte

\* The numbers that the lowest bits of a byte are.
low(byte) ==
  CHOOSE f : f = [k \in 0 .. Bits |->
                    IF k = 0 THEN 0 ELSE f[k - 1] + (IF k - 1 \in byte THEN weight[k - 1] ELSE 0)]

\* The number of a byte is that of all its bits.
LEMMA NumberIsLow ==
  ASSUME NEW byte
  PROVE  number(byte) = low(byte)[Bits]
BY DEF number, low

\* The numbers of the lower bits are defined: the recursion is on a number.
LEMMA LowDef ==
  ASSUME NEW byte
  PROVE  low(byte) = [k \in 0 .. Bits |->
           IF k = 0 THEN 0 ELSE low(byte)[k - 1] + (IF k - 1 \in byte THEN weight[k - 1] ELSE 0)]
<1> DEFINE step(x, k) == x + (IF k - 1 \in byte THEN weight[k - 1] ELSE 0)
           upTo(f, n) == f = [k \in 0 .. Bits |-> IF k = 0 \/ k > n THEN 0 ELSE step(f[k - 1], k)]
           P == {n \in 0 .. Bits : \E f : upTo(f, n)}
<1>0. Bits \in Nat BY RowFormatAssumption
<1> HIDE DEF step
<1>1. 0 \in P
  <2> DEFINE f == [k \in 0 .. Bits |-> 0]
  <2>1. upTo(f, 0) BY <1>0
  <2> QED BY <1>0, <2>1
<1>2. ASSUME NEW n \in 1 .. Bits, n - 1 \in P PROVE n \in P
  <2>1. PICK f : upTo(f, n - 1) BY <1>2
  <2> DEFINE g == [k \in 0 .. Bits |-> IF k = n THEN step(f[n - 1], n) ELSE f[k]]
  <2>2. \A k \in 0 .. Bits : g[k] = IF k = 0 \/ k > n THEN 0 ELSE step(g[k - 1], k)
    <3> TAKE k \in 0 .. Bits
    <3>1. f[k] = IF k = 0 \/ k > n - 1 THEN 0 ELSE step(f[k - 1], k) BY <2>1
    <3>2. CASE k = 0 \/ k > n BY <3>1, <3>2, <1>0
    <3>3. CASE k \in 1 .. n
      <4>1. k - 1 \in 0 .. Bits /\ k - 1 # n BY <3>3, <1>0
      <4>2. g[k - 1] = f[k - 1] BY <4>1
      <4> QED BY <3>1, <3>3, <4>2, <1>0
    <3> QED BY <3>2, <3>3, <1>0
  <2>3. g = [k \in 0 .. Bits |-> g[k]] OBVIOUS
  <2>4. upTo(g, n)
    <3> HIDE DEF g
    <3> QED BY <2>2, <2>3
  <2>5. n \in 0 .. Bits BY <1>0
  <2> HIDE DEF upTo
  <2> QED BY <2>4, <2>5
<1>3. Bits \in P
  <2>1. \A n \in 0 .. Bits : n \in P
    <3> HIDE DEF P
    <3> QED BY <1>0, <1>1, <1>2, Upward
  <2> HIDE DEF P
  <2> QED BY <1>0, <2>1
<1>4. PICK f : upTo(f, Bits) BY <1>3
<1>5. \A k \in 0 .. Bits : (k = 0 \/ k > Bits) <=> k = 0 BY <1>0
<1>6. f = [k \in 0 .. Bits |-> IF k = 0 THEN 0 ELSE step(f[k - 1], k)] BY <1>4, <1>5
<1>7. f = [k \in 0 .. Bits |->
             IF k = 0 THEN 0 ELSE f[k - 1] + (IF k - 1 \in byte THEN weight[k - 1] ELSE 0)]
  BY <1>6 DEF step
<1> QED BY <1>7 DEF low

\* The number of the lower bits, bit by bit.
LEMMA Lows ==
  ASSUME NEW byte
  PROVE  /\ low(byte)[0] = 0
         /\ \A k \in 1 .. Bits : 
              low(byte)[k] = low(byte)[k - 1] + (IF k - 1 \in byte THEN weight[k - 1] ELSE 0)
         /\ \A k \in 0 .. Bits : low(byte)[k] \in Nat
<1>0. Bits \in Nat BY RowFormatAssumption
<1> DEFINE l == low(byte)
           P == {k \in 0 .. Bits : l[k] \in Nat}
<1>1. l = [k \in 0 .. Bits |->
             IF k = 0 THEN 0 ELSE l[k - 1] + (IF k - 1 \in byte THEN weight[k - 1] ELSE 0)]
  BY LowDef
<1> HIDE DEF l
<1>2. l[0] = 0 BY <1>0, <1>1
<1>3. \A k \in 1 .. Bits : l[k] = l[k - 1] + (IF k - 1 \in byte THEN weight[k - 1] ELSE 0)
  BY <1>0, <1>1
<1>4. 0 \in P BY <1>0, <1>2
<1>5. \A k \in 1 .. Bits : k - 1 \in P => k \in P
  <2> TAKE k \in 1 .. Bits
  <2>1. k - 1 \in 0 .. Bits /\ k \in 0 .. Bits BY <1>0
  <2>2. weight[k - 1] \in Nat BY <2>1, Weights
  <2>3. l[k] = l[k - 1] + (IF k - 1 \in byte THEN weight[k - 1] ELSE 0) BY <1>3
  <2> QED BY <2>1, <2>2, <2>3
<1>6. \A k \in 0 .. Bits : k \in P
  <2> HIDE DEF P
  <2> QED BY <1>0, <1>4, <1>5, Upward
<1> QED BY <1>2, <1>3, <1>6 DEF l

\* A byte is a number, and no less than any of its bits.
LEMMA NumberFrom ==
  ASSUME NEW byte
  PROVE  /\ number(byte) \in Nat
         /\ \A k \in 0 .. Bits - 1 : k \in byte => number(byte) >= weight[k]
<1>0. Bits \in Nat BY RowFormatAssumption
<1>1. PICK l : l = low(byte) OBVIOUS
<1>2. \A k \in 1 .. Bits : l[k] = l[k - 1] + (IF k - 1 \in byte THEN weight[k - 1] ELSE 0)
  BY <1>1, Lows
<1>3. \A k \in 0 .. Bits : l[k] \in Nat BY <1>1, Lows
<1>4. \A k \in 0 .. Bits : weight[k] \in Nat BY Weights
<1>5. number(byte) = l[Bits] BY <1>1, NumberIsLow
<1>6. Bits \in 0 .. Bits BY <1>0
<1>7. ASSUME NEW k \in 0 .. Bits - 1, k \in byte PROVE l[Bits] >= weight[k]
  <2> DEFINE P == {j \in 0 .. Bits : j <= k \/ l[j] >= weight[k]}
  <2>1. 0 \in P BY <1>0
  <2>2. ASSUME NEW j \in 1 .. Bits, j - 1 \in P PROVE j \in P
    <3>1. j - 1 \in 0 .. Bits /\ j \in 0 .. Bits /\ k \in 0 .. Bits BY <1>0
    <3>2. l[j] = l[j - 1] + (IF j - 1 \in byte THEN weight[j - 1] ELSE 0) BY <1>2
    <3>3. weight[j - 1] \in Nat /\ weight[k] \in Nat /\ l[j - 1] \in Nat BY <3>1, <1>3, <1>4
    <3>4. CASE j <= k BY <3>1, <3>4
    <3>5. CASE j = k + 1
      <4>1. j - 1 = k BY <3>5, <1>0
      <4> QED BY <4>1, <1>7, <3>1, <3>2, <3>3
    <3>6. CASE j > k + 1
      <4>1. l[j - 1] >= weight[k] BY <2>2, <3>6, <3>1
      <4> QED BY <4>1, <3>1, <3>2, <3>3
    <3> QED BY <3>4, <3>5, <3>6, <3>1
  <2>3. \A j \in 0 .. Bits : j \in P
    <3> HIDE DEF P
    <3> QED BY <1>0, <2>1, <2>2, Upward
  <2> QED BY <2>3, <1>0, <1>6
<1> QED BY <1>3, <1>5, <1>6, <1>7

\* Every number less than Byte is a byte.
LEMMA NumberOnto ==
  ASSUME NEW n \in 0 .. Byte - 1
  PROVE  \E byte \in SUBSET (0 .. Bits - 1) : number(byte) = n
<1>0. Bits \in Nat BY RowFormatAssumption
<1> DEFINE some(k, m, hi) == \E byte \in SUBSET (0 .. k - 1) : low(byte \cup hi)[k] = m
           P == {k \in 0 .. Bits : \A m \in 0 .. weight[k] - 1 : \A hi \in SUBSET (k .. Bits - 1) :
                                     some(k, m, hi)}
<1>1. 0 \in P
  <2>1. weight[0] = 1 BY Weights
  <2>2. ASSUME NEW m \in 0 .. weight[0] - 1, NEW hi \in SUBSET (0 .. Bits - 1) PROVE some(0, m, hi)
    <3>1. low({} \cup hi)[0] = 0 BY Lows
    <3>2. m = 0 BY <2>1
    <3> QED BY <3>1, <3>2
  <2>3. 0 \in 0 .. Bits BY <1>0
  <2> HIDE DEF some
  <2> QED BY <2>2, <2>3
<1>2. ASSUME NEW k \in 1 .. Bits, k - 1 \in P PROVE k \in P
  <2>0. k - 1 \in 0 .. Bits /\ k \in 0 .. Bits BY <1>0
  <2>1. weight[k] = 2 * weight[k - 1] /\ weight[k - 1] \in Nat BY <2>0, Weights
  <2>2. ASSUME NEW m \in 0 .. weight[k] - 1, NEW hi \in SUBSET (k .. Bits - 1) PROVE some(k, m, hi)
    <3>1. \A b : low(b)[k] = low(b)[k - 1] + (IF k - 1 \in b THEN weight[k - 1] ELSE 0) BY Lows
    <3>2. CASE m < weight[k - 1]
      <4>1. m \in 0 .. weight[k - 1] - 1 BY <2>1, <3>2
      <4>2. hi \in SUBSET (k - 1 .. Bits - 1) BY <1>0
      <4>3. PICK b \in SUBSET (0 .. k - 1 - 1) : low(b \cup hi)[k - 1] = m BY <1>2, <4>1, <4>2
      <4>4. k - 1 \notin b \cup hi BY <1>0
      <4>5. b \in SUBSET (0 .. k - 1) BY <1>0
      <4>6. low(b \cup hi)[k] = m + 0 BY <3>1, <4>3, <4>4
      <4>7. low(b \cup hi)[k] = m BY <4>6
      <4> QED BY <4>5, <4>7
    <3>3. CASE m >= weight[k - 1]
      <4>1. m - weight[k - 1] \in 0 .. weight[k - 1] - 1 BY <2>1, <3>3
      <4>2. {k - 1} \cup hi \in SUBSET (k - 1 .. Bits - 1) BY <1>0
      <4>3. PICK b \in SUBSET (0 .. k - 1 - 1) : low(b \cup ({k - 1} \cup hi))[k - 1] = m - weight[k - 1]
        BY <1>2, <4>1, <4>2
      <4>4. b \cup ({k - 1} \cup hi) = (b \cup {k - 1}) \cup hi OBVIOUS
      <4>5. k - 1 \in (b \cup {k - 1}) \cup hi OBVIOUS
      <4>6. b \cup {k - 1} \in SUBSET (0 .. k - 1) BY <1>0
      <4>7. low((b \cup {k - 1}) \cup hi)[k] = (m - weight[k - 1]) + weight[k - 1]
        BY <3>1, <4>3, <4>4, <4>5
      <4>8. low((b \cup {k - 1}) \cup hi)[k] = m BY <4>7, <2>1
      <4> QED BY <4>6, <4>8
    <3>4. m < weight[k - 1] \/ m >= weight[k - 1] BY <2>1
    <3> QED BY <3>2, <3>3, <3>4
  <2> HIDE DEF some
  <2> QED BY <2>0, <2>2
<1>3. \A k \in 0 .. Bits : k \in P
  <2> HIDE DEF P
  <2> QED BY <1>0, <1>1, <1>2, Upward
<1>4. Bits \in P
  <2> HIDE DEF P
  <2> QED BY <1>0, <1>3
<1>5. n \in 0 .. weight[Bits] - 1 BY DEF Byte
<1>6. some(Bits, n, {}) BY <1>4, <1>5
<1>7. PICK byte \in SUBSET (0 .. Bits - 1) : low(byte \cup {})[Bits] = n BY <1>6
<1>8. byte \cup {} = byte OBVIOUS
<1> QED BY <1>7, <1>8, NumberIsLow

\* A number less than Byte is the number of its byte, which has none of the bits
\* above it.
LEMMA Bytes ==
  ASSUME NEW n \in 0 .. Byte - 1
  PROVE  /\ number(byteOf(n)) = n /\ byteOf(n) \in SUBSET (0 .. Bits - 1)
         /\ \A k \in 0 .. Bits - 1 : n < weight[k] => k \notin byteOf(n)
<1>1. number(byteOf(n)) = n /\ byteOf(n) \in SUBSET (0 .. Bits - 1) BY NumberOnto DEF byteOf
<1>2. ASSUME NEW k \in 0 .. Bits - 1, n < weight[k], k \in byteOf(n) PROVE FALSE
  <2>1. n >= weight[k] BY <1>1, <1>2, NumberFrom
  <2>2. weight[k] \in Nat
    <3>1. k \in 0 .. Bits BY RowFormatAssumption
    <3> QED BY <3>1, Weights
  <2> QED BY <1>2, <2>1, <2>2, ByteSize
<1> QED BY <1>1, <1>2

-----------------------------------------------------------------------------
(* The elements of a set of numbers in order.                              *)

\* nth counts the elements of a set from 1, each of them once.
LEMMA NthOf ==
  ASSUME NEW S \in SUBSET Nat, IsFiniteSet(S)
  PROVE  /\ Cardinality(S) \in Nat
         /\ \A k \in 1 .. Cardinality(S) :
              nth(S, k) \in S /\ Cardinality({j \in S : j < nth(S, k)}) = k - 1
         /\ \A i \in S : \E k \in 1 .. Cardinality(S) : nth(S, k) = i
<1> DEFINE N == Cardinality(S)
           below(i) == {j \in S : j < i}
           f == [i \in S |-> Cardinality(below(i)) + 1]
<1>1. N \in Nat BY FS_CardinalityType
<1>2. ASSUME NEW i \in S PROVE IsFiniteSet(below(i)) /\ Cardinality(below(i)) \in Nat
  <2>1. below(i) \in SUBSET S OBVIOUS
  <2>2. IsFiniteSet(below(i)) BY <2>1, FS_Subset
  <2> QED BY <2>2, FS_CardinalityType
<1>3. ASSUME NEW i \in S, NEW j \in S, i < j PROVE Cardinality(below(i)) < Cardinality(below(j))
  <2>1. i \notin below(i) OBVIOUS
  <2>2. below(i) \cup {i} \in SUBSET below(j)
    <3>1. ASSUME NEW x \in below(i) \cup {i} PROVE x \in below(j) BY <1>3
    <3> HIDE DEF below
    <3> QED BY <3>1
  <2> HIDE DEF below
  <2>3. Cardinality(below(i) \cup {i}) = Cardinality(below(i)) + 1 BY <1>2, <2>1, FS_AddElement
  <2>4. Cardinality(below(i) \cup {i}) <= Cardinality(below(j)) BY <1>2, <2>2, FS_Subset
  <2> QED BY <1>2, <2>3, <2>4
<1>4. ASSUME NEW i \in S PROVE f[i] \in 1 .. N
  <2>1. i \notin below(i) OBVIOUS
  <2>2. below(i) \cup {i} \in SUBSET S OBVIOUS
  <2> HIDE DEF below
  <2>3. Cardinality(below(i) \cup {i}) = Cardinality(below(i)) + 1 BY <1>2, <2>1, FS_AddElement
  <2>4. Cardinality(below(i) \cup {i}) <= N BY <2>2, FS_Subset
  <2> QED BY <1>1, <1>2, <2>3, <2>4
<1>5. \A i, j \in S : f[i] = f[j] => i = j
  <2> TAKE i, j \in S
  <2>1. i \in Nat /\ j \in Nat OBVIOUS
  <2>2. f[i] = Cardinality(below(i)) + 1 /\ f[j] = Cardinality(below(j)) + 1 OBVIOUS
  <2>3. i < j \/ j < i \/ i = j BY <2>1
  <2> HIDE DEF f, below
  <2> QED BY <1>2, <1>3, <2>2, <2>3
<1>6. f \in Injection(S, 1 .. N)
  <2>1. f \in [S -> 1 .. N]
    <3>1. f = [i \in S |-> f[i]] OBVIOUS
    <3> HIDE DEF f
    <3> QED BY <1>4, <3>1
  <2>2. DOMAIN f = S OBVIOUS
  <2> HIDE DEF f
  <2> QED BY <1>5, <2>1, <2>2 DEF Injection, IsInjective
<1>7. IsFiniteSet(1 .. N) /\ Cardinality(1 .. N) = N BY <1>1, FS_Interval
<1>8. f \in Surjection(S, 1 .. N)
  <2> HIDE DEF f
  <2> QED BY <1>6, <1>7, FS_Injection
<1>9. \A k \in 1 .. N : \E i \in S : f[i] = k
  <2> HIDE DEF f
  <2> QED BY <1>8 DEF Surjection
<1>10. ASSUME NEW k \in 1 .. N PROVE nth(S, k) \in S /\ Cardinality(below(nth(S, k))) = k - 1
  <2>1. PICK i \in S : f[i] = k BY <1>9
  <2>2. Cardinality(below(i)) = k - 1
    <3>1. f[i] = Cardinality(below(i)) + 1 OBVIOUS
    <3> HIDE DEF f, below
    <3> QED BY <1>1, <1>2, <2>1, <3>1
  <2>3. nth(S, k) = CHOOSE x \in S : Cardinality(below(x)) = k - 1 BY DEF nth
  <2> HIDE DEF below
  <2> QED BY <2>2, <2>3
<1>11. ASSUME NEW i \in S PROVE \E k \in 1 .. N : nth(S, k) = i
  <2>1. f[i] \in 1 .. N BY <1>4
  <2>2. nth(S, f[i]) \in S /\ Cardinality(below(nth(S, f[i]))) = f[i] - 1
    <3> HIDE DEF f, below
    <3> QED BY <1>10, <2>1
  <2>3. f[nth(S, f[i])] = Cardinality(below(nth(S, f[i]))) + 1 BY <2>2
  <2>4. f[nth(S, f[i])] = f[i]
    <3> HIDE DEF f, below
    <3> QED BY <1>1, <2>1, <2>2, <2>3
  <2>5. nth(S, f[i]) = i
    <3> HIDE DEF f, below
    <3> QED BY <1>5, <2>2, <2>4
  <2> QED BY <2>1, <2>5
<1> QED BY <1>1, <1>10, <1>11

\* The elements selected are those at the indexes, one for each.
LEMMA SelectedAre ==
  ASSUME NEW T, NEW s \in Seq(T), NEW S \in SUBSET (DOMAIN s)
  PROVE  /\ selected(s, S) \in Seq(T) /\ Len(selected(s, S)) = Cardinality(S)
         /\ Cardinality(S) \in Nat
         /\ \A k \in 1 .. Cardinality(S) : nth(S, k) \in S /\ selected(s, S)[k] = s[nth(S, k)]
         /\ \A i \in S : \E k \in 1 .. Cardinality(S) : nth(S, k) = i
         /\ \A k, l \in 1 .. Cardinality(S) : nth(S, k) = nth(S, l) => k = l
<1>1. DOMAIN s = 1 .. Len(s) /\ Len(s) \in Nat OBVIOUS
<1>2. S \in SUBSET Nat BY <1>1
<1>3. IsFiniteSet(DOMAIN s) BY <1>1, FS_Interval
<1>4. IsFiniteSet(S) BY <1>3, FS_Subset
<1>5. Cardinality(S) \in Nat BY <1>2, <1>4, NthOf
<1>6. \A k \in 1 .. Cardinality(S) :
        nth(S, k) \in S /\ Cardinality({j \in S : j < nth(S, k)}) = k - 1
  BY <1>2, <1>4, NthOf
<1>7. \A i \in S : \E k \in 1 .. Cardinality(S) : nth(S, k) = i BY <1>2, <1>4, NthOf
<1>8. \A k \in 1 .. Cardinality(S) : selected(s, S)[k] = s[nth(S, k)] BY DEF selected
<1>9. selected(s, S) \in Seq(T) /\ Len(selected(s, S)) = Cardinality(S)
  <2>1. ASSUME NEW k \in 1 .. Cardinality(S) PROVE s[nth(S, k)] \in T
    <3>1. nth(S, k) \in 1 .. Len(s) BY <1>1, <1>6
    <3> QED BY <3>1
  <2>2. selected(s, S) \in [1 .. Cardinality(S) -> T] BY <2>1 DEF selected
  <2> QED BY <1>5, <2>2
<1>10. ASSUME NEW k \in 1 .. Cardinality(S), NEW l \in 1 .. Cardinality(S), nth(S, k) = nth(S, l)
       PROVE  k = l
  <2>1. k - 1 = l - 1 BY <1>6, <1>10
  <2> QED BY <1>5, <2>1
<1> QED BY <1>5, <1>6, <1>7, <1>8, <1>9, <1>10

\* Of an interval the elements in order are themselves.
LEMMA NthOfInterval ==
  ASSUME NEW n \in Nat, NEW S \in SUBSET (1 .. n), NEW m \in 0 .. n, 1 .. m \subseteq S,
         NEW k \in 1 .. m
  PROVE  k \in 1 .. Cardinality(S) /\ nth(S, k) = k
<1>1. S \in SUBSET Nat OBVIOUS
<1>2. IsFiniteSet(1 .. n) BY FS_Interval
<1>3. IsFiniteSet(S) BY <1>2, FS_Subset
<1>4. PICK l \in 1 .. Cardinality(S) : nth(S, l) = k
  <2>1. k \in S OBVIOUS
  <2> QED BY <1>1, <1>3, <2>1, NthOf
<1>5. Cardinality({j \in S : j < k}) = l - 1
  <2>1. Cardinality({j \in S : j < nth(S, l)}) = l - 1 BY <1>1, <1>3, NthOf
  <2> QED BY <1>4, <2>1
<1>6. {j \in S : j < k} = 1 .. k - 1
  <2>1. ASSUME NEW j \in 1 .. k - 1 PROVE j \in S /\ j < k OBVIOUS
  <2>2. ASSUME NEW j \in S, j < k PROVE j \in 1 .. k - 1 BY <2>2
  <2> QED BY <2>1, <2>2
<1>7. Cardinality(1 .. k - 1) = k - 1 BY FS_Interval
<1>8. Cardinality(S) \in Nat BY <1>3, FS_CardinalityType
<1>9. l = k
  <2>1. l - 1 = k - 1 BY <1>5, <1>6, <1>7
  <2>2. l \in Nat /\ k \in Nat BY <1>8
  <2> QED BY <2>1, <2>2
<1> QED BY <1>4, <1>9

-----------------------------------------------------------------------------
(* The columns of the SDI and the fields of the clustered index.           *)

Name == ToSet(names)

Column == [name : Name, Fixed : Nat, MaxLen : Nat, Nullable : BOOLEAN, IsVirtual : BOOLEAN,
           physical_pos : Int, VersionAdded : Nat, VersionDropped : Nat]

distinct(cols) == \A i, j \in DOMAIN cols : cols[i].name = cols[j].name => i = j

\* No two columns have a name; the key is the first that a row stores, and
\* DB_TRX_ID follows it.
Columns ==
  /\ version \in 0 .. Len(Added)
  /\ columns \in Seq(Column) /\ distinct(columns)
  /\ physical \in Seq(Name)
  /\ \A j, k \in DOMAIN physical : physical[j] = physical[k] => j = k
  /\ Len(physical) >= 2 /\ physical[1] = Key /\ physical[2] = DB_TRX_ID

\* A column was added by a version there is, or dropped by one, its name was not used
\* before, and the key and the columns the server made are never altered.
aged(c, v) ==
  /\ c.VersionAdded <= v /\ c.VersionDropped <= v
  /\ \A j \in v + 1 .. Len(Added) : c.name # Added[j]
  /\ c.IsVirtual <=> c.name = Virtual
  /\ c.name \in {Key, DB_TRX_ID, Virtual} =>
       c.VersionAdded = 0 /\ c.VersionDropped = 0 /\ ~c.Nullable

Ages == \A c \in ToSet(columns) : aged(c, version)

\* A row has every column but the virtual ones.
stored(cols, phys) ==
  /\ \A c \in ToSet(cols) : ~c.IsVirtual => \E k \in DOMAIN phys : phys[k] = c.name
  /\ \A k \in DOMAIN phys : \E c \in ToSet(cols) : c.name = phys[k] /\ ~c.IsVirtual

Stored == stored(columns, physical)

\* The SDI has where every column is, or none was ever altered.
Positions ==
  \/ version = 0 /\ \A c \in ToSet(columns) : c.physical_pos = NoPos
  \/ \A c \in ToSet(columns) : ~c.IsVirtual =>
       c.physical_pos \in DOMAIN physical /\ physical[c.physical_pos] = c.name

Layout == Columns /\ Ages /\ Stored /\ Positions

\* One sequence after another, element by element.
LEMMA Concat ==
  ASSUME NEW T, NEW s \in Seq(T), NEW t \in Seq(T), NEW u, u = s \o t
  PROVE  /\ u \in Seq(T) /\ Len(u) = Len(s) + Len(t) /\ DOMAIN u = 1 .. Len(s) + Len(t)
         /\ \A i \in 1 .. Len(s) : u[i] = s[i]
         /\ \A i \in 1 .. Len(t) : u[Len(s) + i] = t[i]
<1>1. u \in Seq(T) /\ Len(u) = Len(s) + Len(t) OBVIOUS
<1>2. \A i \in 1 .. Len(s) + Len(t) : u[i] = IF i <= Len(s) THEN s[i] ELSE t[i - Len(s)]
  BY ConcatProperties
<1>3. Len(s) \in Nat /\ Len(t) \in Nat OBVIOUS
<1>4. DOMAIN u = 1 .. Len(s) + Len(t) BY <1>1
<1>5. \A i \in 1 .. Len(s) : i \in 1 .. Len(s) + Len(t) /\ i <= Len(s) BY <1>3
<1>6. \A i \in 1 .. Len(t) : Len(s) + i \in 1 .. Len(s) + Len(t) /\ ~(Len(s) + i <= Len(s))
                              /\ (Len(s) + i) - Len(s) = i
  BY <1>3
<1>7. \A i \in 1 .. Len(s) : u[i] = s[i] BY <1>2, <1>5
<1>8. ASSUME NEW i \in 1 .. Len(t) PROVE u[Len(s) + i] = t[i]
  <2>1. u[Len(s) + i] = t[(Len(s) + i) - Len(s)] BY <1>2, <1>6
  <2> QED BY <1>6, <2>1
<1> QED BY <1>1, <1>4, <1>7, <1>8

\* The names, in order.
LEMMA NamesAre ==
  /\ DOMAIN names = 1 .. 3 + Len(Base) + Len(Added)
  /\ names[1] = Key /\ names[2] = DB_TRX_ID /\ names[3] = Virtual
  /\ \A i \in 1 .. Len(Base) : names[3 + i] = Base[i]
  /\ \A i \in 1 .. Len(Added) : names[3 + Len(Base) + i] = Added[i]
<1> DEFINE three == <<Key, DB_TRX_ID, Virtual>>
<1>1. PICK T : T = {Key, DB_TRX_ID, Virtual} \cup STRING OBVIOUS
<1>2. Base \in Seq(T) /\ Added \in Seq(T)
  <2>1. Base \in Seq(STRING) /\ Added \in Seq(STRING) BY RowFormatAssumption
  <2> QED BY <1>1, <2>1
<1>3. three \in Seq(T) /\ Len(three) = 3 /\ three[1] = Key /\ three[2] = DB_TRX_ID /\ three[3] = Virtual
  BY <1>1
<1>4. PICK s : s = three OBVIOUS
<1>5. PICK front : front = s \o Base OBVIOUS
<1>6. /\ front \in Seq(T) /\ Len(front) = Len(s) + Len(Base)
      /\ \A i \in 1 .. Len(s) : front[i] = s[i]
      /\ \A i \in 1 .. Len(Base) : front[Len(s) + i] = Base[i]
  BY <1>2, <1>3, <1>4, <1>5, Concat
<1>7. names = front \o Added BY <1>4, <1>5 DEF names
<1>8. PICK all : all = names OBVIOUS
<1>9. /\ DOMAIN all = 1 .. Len(front) + Len(Added)
      /\ \A i \in 1 .. Len(front) : all[i] = front[i]
      /\ \A i \in 1 .. Len(Added) : all[Len(front) + i] = Added[i]
  <2>1. front \in Seq(T) BY <1>6
  <2>2. all = front \o Added BY <1>7, <1>8
  <2> QED BY <1>2, <2>1, <2>2, Concat
<1>10. Len(front) = 3 + Len(Base) /\ Len(Base) \in Nat /\ Len(Added) \in Nat BY <1>2, <1>3, <1>4, <1>6
<1>11. all[1] = Key /\ all[2] = DB_TRX_ID /\ all[3] = Virtual
  <2>1. 1 \in 1 .. 3 /\ 2 \in 1 .. 3 /\ 3 \in 1 .. 3 OBVIOUS
  <2>2. \A i \in 1 .. 3 : i \in 1 .. Len(front) BY <1>10
  <2>3. \A i \in 1 .. 3 : all[i] = s[i] BY <1>3, <1>4, <1>6, <1>9, <2>2
  <2> QED BY <1>3, <1>4, <2>1, <2>3
<1>12. ASSUME NEW i \in 1 .. Len(Base) PROVE all[3 + i] = Base[i]
  <2>1. 3 + i \in 1 .. Len(front) BY <1>10
  <2>2. front[Len(s) + i] = Base[i] BY <1>6
  <2> QED BY <1>3, <1>4, <1>9, <2>1, <2>2
<1> QED BY <1>8, <1>9, <1>10, <1>11, <1>12

\* The key and the columns the server adds have names of their own.
LEMMA Names == Key # DB_TRX_ID /\ Key # Virtual /\ DB_TRX_ID # Virtual
<1>1. /\ names[1] = Key /\ names[2] = DB_TRX_ID /\ names[3] = Virtual
      /\ 1 \in DOMAIN names /\ 2 \in DOMAIN names /\ 3 \in DOMAIN names
  <2>1. Len(Base) \in Nat /\ Len(Added) \in Nat BY RowFormatAssumption
  <2> QED BY <2>1, NamesAre
<1> QED BY <1>1, RowFormatAssumption

\* A column is found by its name.
LEMMA ColumnOf ==
  ASSUME NEW cols \in Seq(Column), distinct(cols), NEW c \in ToSet(cols)
  PROVE  cols[CHOOSE i \in DOMAIN cols : cols[i].name = c.name] = c
<1>1. PICK i \in DOMAIN cols : cols[i] = c BY DEF ToSet
<1> QED BY <1>1 DEF distinct

\* A column of the SDI is found by its name.
LEMMA ColumnIs ==
  ASSUME Columns, NEW c \in ToSet(columns)
  PROVE  column(c.name) = c /\ c \in Column
<1>1. columns \in Seq(Column) /\ distinct(columns) BY DEF Columns
<1>2. column(c.name) = c BY <1>1, ColumnOf DEF column
<1>3. c \in Column BY <1>1 DEF ToSet
<1> QED BY <1>2, <1>3

fieldsOf(cols, phys) == [k \in DOMAIN phys |-> cols[CHOOSE i \in DOMAIN cols : cols[i].name = phys[k]]]

\* The fields of a row are its columns, each once.
LEMMA FieldsOf ==
  ASSUME NEW cols \in Seq(Column), distinct(cols), NEW phys \in Seq(Name),
         \A j, k \in DOMAIN phys : phys[j] = phys[k] => j = k, stored(cols, phys),
         NEW f, f = fieldsOf(cols, phys)
  PROVE  /\ f \in Seq(Column) /\ Len(f) = Len(phys) /\ Len(f) \in Nat
         /\ DOMAIN phys = 1 .. Len(f)
         /\ \A k \in 1 .. Len(f) :
              /\ f[k] \in ToSet(cols) /\ f[k] \in Column
              /\ f[k].name = phys[k] /\ ~f[k].IsVirtual
         /\ distinct(f)
         /\ \A c \in ToSet(cols) : ~c.IsVirtual => \E k \in 1 .. Len(f) : f[k] = c
<1>1. DOMAIN phys = 1 .. Len(phys) /\ Len(phys) \in Nat OBVIOUS
<1>2. ASSUME NEW k \in 1 .. Len(phys)
      PROVE  /\ f[k] \in ToSet(cols) /\ f[k] \in Column
             /\ f[k].name = phys[k] /\ ~f[k].IsVirtual
  <2>1. PICK c \in ToSet(cols) : c.name = phys[k] /\ ~c.IsVirtual BY <1>1 DEF stored
  <2>2. f[k] = cols[CHOOSE i \in DOMAIN cols : cols[i].name = c.name] BY <1>1, <2>1 DEF fieldsOf
  <2>3. f[k] = c BY <2>2, ColumnOf
  <2>4. c \in Column BY DEF ToSet
  <2> QED BY <2>1, <2>3, <2>4
<1>3. f \in [1 .. Len(phys) -> Column]
  <2>1. f = [k \in 1 .. Len(phys) |-> f[k]] BY <1>1 DEF fieldsOf
  <2> QED BY <1>2, <2>1
<1>4. f \in Seq(Column) /\ Len(f) = Len(phys) BY <1>1, <1>3
<1>5. distinct(f)
  <2>1. DOMAIN f = 1 .. Len(phys) BY <1>3
  <2> QED BY <1>1, <1>2, <2>1 DEF distinct
<1>6. ASSUME NEW c \in ToSet(cols), ~c.IsVirtual PROVE \E k \in 1 .. Len(phys) : f[k] = c
  <2>1. PICK k \in DOMAIN phys : phys[k] = c.name BY <1>6 DEF stored
  <2>2. f[k] = cols[CHOOSE i \in DOMAIN cols : cols[i].name = c.name] BY <2>1 DEF fieldsOf
  <2> QED BY <1>1, <2>1, <2>2, ColumnOf
<1> QED BY <1>1, <1>2, <1>4, <1>5, <1>6

\* The fields of a row are the columns of the SDI that are not virtual, in the order the
\* row has them.
LEMMA Fields ==
  ASSUME Columns, Stored
  PROVE  /\ fields \in Seq(Column) /\ Len(fields) = Len(physical) /\ Len(fields) \in Nat
         /\ DOMAIN physical = 1 .. Len(fields)
         /\ \A k \in 1 .. Len(fields) :
              /\ fields[k] \in ToSet(columns) /\ fields[k] \in Column
              /\ fields[k].name = physical[k] /\ ~fields[k].IsVirtual
         /\ distinct(fields)
         /\ \A c \in ToSet(columns) : ~c.IsVirtual => \E k \in 1 .. Len(fields) : fields[k] = c
<1>1. fields = fieldsOf(columns, physical) BY DEF fields, column, fieldsOf
<1>2. /\ columns \in Seq(Column) /\ distinct(columns) /\ physical \in Seq(Name)
      /\ \A j, k \in DOMAIN physical : physical[j] = physical[k] => j = k
      /\ stored(columns, physical)
  BY DEF Columns, Stored
<1> HIDE DEF fields
<1> QED BY <1>1, <1>2, FieldsOf

\* The columns that are not virtual, by their position, are the fields of a row.
LEMMA ByPosition ==
  ASSUME Layout, hasPhysicalPos
  PROVE  byPosition = fields
<1>0. Columns /\ Stored /\ Positions BY DEF Layout
<1>1. \A c \in ToSet(columns) : ~c.IsVirtual =>
        c.physical_pos \in DOMAIN physical /\ physical[c.physical_pos] = c.name
  <2>1. ~ (\A c \in ToSet(columns) : c.physical_pos = NoPos) BY DEF hasPhysicalPos, ToSet
  <2> QED BY <1>0, <2>1 DEF Positions
<1>2. PICK n \in Nat : n = Len(fields) /\ DOMAIN physical = 1 .. n BY <1>0, Fields
<1> DEFINE F == {c \in ToSet(columns) : ~c.IsVirtual}
           before(c) == {d \in F : d.physical_pos < c.physical_pos}
<1>3. \A k \in 1 .. n : fields[k] \in F /\ fields[k].name = physical[k] BY <1>0, <1>2, Fields
<1>4. \A c \in F : \E k \in 1 .. n : fields[k] = c BY <1>0, <1>2, Fields
<1>5. \A k \in 1 .. n : fields[k].physical_pos = k
  <2> TAKE k \in 1 .. n
  <2>1. fields[k] \in ToSet(columns) /\ ~fields[k].IsVirtual BY <1>3
  <2>2. fields[k].physical_pos \in DOMAIN physical /\ physical[fields[k].physical_pos] = physical[k]
    BY <1>1, <1>3, <2>1
  <2> QED BY <1>0, <1>2, <2>2 DEF Columns
<1>6. \A j, k \in 1 .. n : fields[j] = fields[k] => j = k BY <1>5
<1>7. ASSUME NEW m \in 0 .. n
      PROVE  /\ IsFiniteSet({fields[j] : j \in 1 .. m})
             /\ Cardinality({fields[j] : j \in 1 .. m}) = m
  <2> DEFINE g == [j \in 1 .. m |-> fields[j]]
             I == {fields[j] : j \in 1 .. m}
  <2>1. g \in [1 .. m -> I] OBVIOUS
  <2>2. \A j, k \in 1 .. m : g[j] = g[k] => j = k
    <3> TAKE j, k \in 1 .. m
    <3>1. j \in 1 .. n /\ k \in 1 .. n BY <1>2
    <3> QED BY <1>6, <3>1
  <2>3. \A c \in I : \E j \in 1 .. m : g[j] = c OBVIOUS
  <2>4. IsFiniteSet(1 .. m) /\ Cardinality(1 .. m) = m BY <1>2, FS_Interval
  <2>5. DOMAIN g = 1 .. m OBVIOUS
  <2> HIDE DEF g, I
  <2>6. g \in Bijection(1 .. m, I)
    BY <2>1, <2>2, <2>3, <2>5 DEF Bijection, Injection, Surjection, IsInjective
  <2>7. IsFiniteSet(I) /\ Cardinality(I) = m BY <2>4, <2>6, FS_Bijection DEF ExistsBijection
  <2> QED BY <2>7 DEF I
<1>8. F = {fields[j] : j \in 1 .. n}
  <2> HIDE DEF F
  <2> QED BY <1>3, <1>4
<1>9. Cardinality(F) = n
  <2>1. n \in 0 .. n OBVIOUS
  <2>2. Cardinality({fields[j] : j \in 1 .. n}) = n BY <1>7, <2>1
  <2> HIDE DEF F
  <2> QED BY <1>8, <2>2
<1>10. ASSUME NEW k \in 1 .. n PROVE Cardinality(before(fields[k])) = k - 1
  <2>1. before(fields[k]) = {fields[j] : j \in 1 .. k - 1}
    <3>1. ASSUME NEW c \in before(fields[k]) PROVE c \in {fields[j] : j \in 1 .. k - 1}
      <4>1. PICK j \in 1 .. n : fields[j] = c BY <1>4
      <4>2. j < k BY <1>5, <4>1
      <4> QED BY <4>1, <4>2
    <3>2. ASSUME NEW j \in 1 .. k - 1 PROVE fields[j] \in before(fields[k])
      <4>1. j \in 1 .. n BY <1>2
      <4>2. fields[j].physical_pos < fields[k].physical_pos BY <1>5, <4>1
      <4>3. fields[j] \in F BY <1>3, <4>1
      <4> HIDE DEF F
      <4> QED BY <4>2, <4>3
    <3> HIDE DEF before
    <3> QED BY <3>1, <3>2
  <2>2. k - 1 \in 0 .. n BY <1>2
  <2> HIDE DEF before
  <2> QED BY <1>7, <2>1, <2>2
<1>11. ASSUME NEW k \in 1 .. n PROVE (CHOOSE c \in F : Cardinality(before(c)) = k - 1) = fields[k]
  <2>1. fields[k] \in F BY <1>3
  <2>2. ASSUME NEW c \in F, Cardinality(before(c)) = k - 1 PROVE c = fields[k]
    <3>1. PICK j \in 1 .. n : fields[j] = c BY <1>4
    <3> HIDE DEF before
    <3>2. j - 1 = k - 1 BY <1>10, <2>2, <3>1
    <3>3. j = k BY <1>2, <3>2
    <3> QED BY <3>1, <3>3
  <2> HIDE DEF F, before
  <2> QED BY <1>10, <2>1, <2>2
<1>12. byPosition = [k \in 1 .. n |-> fields[k]]
  <2>1. byPosition = [k \in 1 .. Cardinality(F) |-> CHOOSE c \in F : Cardinality(before(c)) = k - 1]
    BY DEF byPosition
  <2> HIDE DEF F, before
  <2> QED BY <1>9, <1>11, <2>1
<1>13. fields = [k \in 1 .. n |-> fields[k]] BY <1>2 DEF fields
<1> QED BY <1>12, <1>13

\* The elements of the clustered index begin as its fields do, and are its fields as
\* long as nothing was altered.
LEMMA Elements ==
  ASSUME Layout
  PROVE  /\ trxIDPos(clusteredElements) = 2
         /\ ~hasPhysicalPos => clusteredElements = physical
<1>0. Columns /\ Stored /\ Ages /\ Positions BY DEF Layout
<1>1. PICK n \in Nat : n = Len(physical) /\ DOMAIN physical = 1 .. n /\ n >= 2
  BY <1>0, Fields DEF Columns
<1>2. \A k \in 1 .. n : fields[k] \in ToSet(columns) /\ fields[k].name = physical[k]
  BY <1>0, <1>1, Fields
<1>3. \A k \in 1 .. n : column(physical[k]) = fields[k] BY <1>1 DEF fields
<1>4. PICK kept \in SUBSET (1 .. n) :
        kept = {i \in DOMAIN physical : column(physical[i]).VersionDropped = 0}
  BY <1>1
<1>5. 1 .. 2 \subseteq kept
  <2>1. ASSUME NEW k \in 1 .. 2 PROVE k \in kept
    <3>1. k \in 1 .. n /\ physical[k] \in {Key, DB_TRX_ID} BY <1>0, <1>1 DEF Columns
    <3>2. fields[k].VersionDropped = 0 BY <1>0, <1>2, <3>1 DEF Ages, aged
    <3> QED BY <1>1, <1>3, <1>4, <3>1, <3>2
  <2> QED BY <2>1
<1>6. PICK e : e = clusteredElements OBVIOUS
<1>7. e = selected(physical, kept) BY <1>4, <1>6 DEF clusteredElements
<1>8. physical \in Seq(Name) BY <1>0 DEF Columns
<1>9. kept \in SUBSET (DOMAIN physical) BY <1>1
<1>10. e \in Seq(Name) /\ Len(e) = Cardinality(kept) /\ Cardinality(kept) \in Nat
  BY <1>7, <1>8, <1>9, SelectedAre
<1>11. \A k \in 1 .. Cardinality(kept) : e[k] = physical[nth(kept, k)] BY <1>7 DEF selected
<1>12. ASSUME NEW k \in 1 .. 2 PROVE k \in 1 .. Cardinality(kept) /\ nth(kept, k) = k
  <2>1. PICK m \in 0 .. n : m = 2 BY <1>1
  <2>2. 1 .. m \subseteq kept /\ k \in 1 .. m BY <1>5, <2>1
  <2> QED BY <2>2, NthOfInterval
<1>13. 1 \in DOMAIN e /\ 2 \in DOMAIN e /\ e[1] = Key /\ e[2] = DB_TRX_ID
  <2>1. 1 \in 1 .. 2 /\ 2 \in 1 .. 2 OBVIOUS
  <2>2. 1 \in 1 .. Cardinality(kept) /\ 2 \in 1 .. Cardinality(kept) BY <1>12, <2>1
  <2>3. e[1] = physical[1] /\ e[2] = physical[2] BY <1>11, <1>12, <2>1, <2>2
  <2> QED BY <1>0, <1>10, <2>2, <2>3 DEF Columns
<1>14. trxIDPos(e) = 2
  <2>1. PICK T : T = {i \in DOMAIN e : e[i] = DB_TRX_ID} OBVIOUS
  <2>2. T \in SUBSET Nat /\ 2 \in T BY <1>10, <1>13, <2>1
  <2>3. 1 \notin T BY <1>13, <2>1, Names
  <2>4. PICK m : m = Min(T) OBVIOUS
  <2>5. m \in T /\ m <= 2 BY <2>2, <2>4, LeastOf
  <2>7. 0 \notin T BY <1>10, <2>1
  <2>6. Min(T) = 2 BY <2>2, <2>3, <2>4, <2>5, <2>7
  <2> QED BY <2>1, <2>6 DEF trxIDPos
<1>15. ASSUME ~hasPhysicalPos PROVE e = physical
  <2>1. version = 0
    <3>1. fields[1] \in ToSet(columns) BY <1>1, <1>2
    <3>2. \A c \in ToSet(columns) : c.physical_pos = NoPos BY <1>15 DEF hasPhysicalPos, ToSet
    <3>3. \A c \in ToSet(columns) : c.physical_pos \notin DOMAIN physical BY <1>1, <3>2 DEF NoPos
    <3>4. ~fields[1].IsVirtual BY <1>0, <1>1, Fields
    <3> QED BY <1>0, <3>1, <3>3, <3>4 DEF Positions
  <2>2. \A k \in 1 .. n : fields[k].VersionDropped = 0
    <3> TAKE k \in 1 .. n
    <3>1. fields[k] \in ToSet(columns) /\ fields[k] \in Column BY <1>0, <1>1, Fields
    <3>2. fields[k].VersionDropped <= 0 BY <1>0, <2>1, <3>1 DEF Ages, aged
    <3> QED BY <3>1, <3>2 DEF Column
  <2>3. kept = 1 .. n BY <1>1, <1>3, <1>4, <2>2
  <2>4. Cardinality(kept) = n
    <3>1. Cardinality(1 .. n) = n BY FS_Interval
    <3> QED BY <2>3, <3>1
  <2>5. \A k \in 1 .. n : nth(kept, k) = k
    <3>1. 1 .. n \subseteq kept /\ n \in 0 .. n BY <2>3
    <3> QED BY <3>1, NthOfInterval
  <2>6. \A k \in 1 .. n : e[k] = physical[k] BY <1>11, <2>4, <2>5
  <2> QED BY <1>1, <1>8, <1>10, <2>4, <2>6, SeqEqual
<1> QED BY <1>6, <1>14, <1>15

\* The definitions of the clustered index are the fields of a row.
LEMMA BuildTable ==
  ASSUME Layout
  PROVE  /\ buildTable.clustered = [Cols |-> fields, NUniqueInTree |-> 1]
         /\ buildTable.secondary = [Cols |-> secondaryCols, NUniqueInTree |-> Len(secondaryCols)]
         /\ buildTable.version = version
<1>1. trxIDPos(clusteredElements) - 1 = 1 BY Elements
<1>2. clusteredCols = fields
  <2>1. CASE hasPhysicalPos BY <2>1, ByPosition DEF clusteredCols
  <2>2. CASE ~hasPhysicalPos BY <2>2, Elements DEF clusteredCols, fields
  <2> QED BY <2>1, <2>2
<1> QED BY <1>1, <1>2 DEF buildTable

-----------------------------------------------------------------------------
(* ALTER TABLE.                                                            *)

\* Columns that are selected are those at the indexes, and none twice.
LEMMA SelectedColumns ==
  ASSUME NEW cols \in Seq(Column), distinct(cols), NEW S \in SUBSET (DOMAIN cols),
         NEW s, s = selected(cols, S)
  PROVE  s \in Seq(Column) /\ distinct(s) /\ ToSet(s) = {cols[i] : i \in S}
<1>1. s \in Seq(Column) /\ Len(s) = Cardinality(S) /\ Cardinality(S) \in Nat BY SelectedAre
<1>2. \A k \in 1 .. Cardinality(S) : s[k] = cols[nth(S, k)] BY DEF selected
<1>3. \A k \in 1 .. Cardinality(S) : nth(S, k) \in S BY SelectedAre
<1>4. \A i \in S : \E k \in 1 .. Cardinality(S) : nth(S, k) = i BY SelectedAre
<1>5. \A k, l \in 1 .. Cardinality(S) : nth(S, k) = nth(S, l) => k = l BY SelectedAre
<1>6. DOMAIN s = 1 .. Cardinality(S) BY <1>1
<1>7. distinct(s)
  <2>1. SUFFICES ASSUME NEW k \in 1 .. Cardinality(S), NEW l \in 1 .. Cardinality(S),
                        s[k].name = s[l].name
                 PROVE  k = l
    BY <1>6 DEF distinct
  <2>2. cols[nth(S, k)].name = cols[nth(S, l)].name BY <1>2, <2>1
  <2>3. nth(S, k) \in DOMAIN cols /\ nth(S, l) \in DOMAIN cols BY <1>3
  <2>4. nth(S, k) = nth(S, l) BY <2>2, <2>3 DEF distinct
  <2> QED BY <1>5, <2>4
<1>8. ToSet(s) = {cols[i] : i \in S} BY <1>2, <1>3, <1>4, <1>6 DEF ToSet
<1> QED BY <1>1, <1>7, <1>8

joins(s, t, u) ==
  \E m, n \in Nat :
    /\ DOMAIN s = 1 .. m /\ DOMAIN t = 1 .. n /\ DOMAIN u = 1 .. m + n
    /\ \A i \in 1 .. m : u[i] = s[i]
    /\ \A i \in 1 .. n : u[m + i] = t[i]

apart(s, t) == \A c \in ToSet(s), d \in ToSet(t) : c.name # d.name

\* Columns put together with others of other names are all there, and none twice.
LEMMA JoinedColumns ==
  ASSUME NEW s, NEW t, NEW u, joins(s, t, u), distinct(s), distinct(t), apart(s, t)
  PROVE  distinct(u) /\ ToSet(u) = ToSet(s) \cup ToSet(t)
<1>0. PICK m \in Nat, n \in Nat :
        /\ DOMAIN s = 1 .. m /\ DOMAIN t = 1 .. n /\ DOMAIN u = 1 .. m + n
        /\ \A i \in 1 .. m : u[i] = s[i]
        /\ \A i \in 1 .. n : u[m + i] = t[i]
  BY DEF joins
<1>1. ASSUME NEW k \in 1 .. m + n PROVE k \in 1 .. m \/ \E i \in 1 .. n : k = m + i
  <2>1. CASE k <= m BY <2>1
  <2>2. CASE k > m
    <3>1. k - m \in 1 .. n /\ k = m + (k - m) BY <2>2
    <3> QED BY <3>1
  <2> QED BY <2>1, <2>2
<1>2. \A i \in 1 .. m : s[i] \in ToSet(s) BY <1>0 DEF ToSet
<1>3. \A i \in 1 .. n : t[i] \in ToSet(t) BY <1>0 DEF ToSet
<1>4. distinct(u)
  <2>1. SUFFICES ASSUME NEW i \in 1 .. m + n, NEW j \in 1 .. m + n, u[i].name = u[j].name PROVE i = j
    BY <1>0 DEF distinct
  <2>2. CASE i \in 1 .. m /\ j \in 1 .. m
    <3>1. s[i].name = s[j].name BY <1>0, <2>1, <2>2
    <3> QED BY <2>2, <3>1, <1>0 DEF distinct
  <2>3. ASSUME NEW k \in 1 .. n, NEW l \in 1 .. n, i = m + k, j = m + l PROVE i = j
    <3>1. t[k].name = t[l].name BY <1>0, <2>1, <2>3
    <3> QED BY <2>3, <3>1, <1>0 DEF distinct
  <2>4. ASSUME NEW k \in 1 .. n, i = m + k, j \in 1 .. m PROVE FALSE
    <3>1. t[k].name = s[j].name BY <1>0, <2>1, <2>4
    <3> QED BY <1>2, <1>3, <2>4, <3>1 DEF apart
  <2>5. ASSUME NEW k \in 1 .. n, j = m + k, i \in 1 .. m PROVE FALSE
    <3>1. t[k].name = s[i].name BY <1>0, <2>1, <2>5
    <3> QED BY <1>2, <1>3, <2>5, <3>1 DEF apart
  <2> QED BY <1>1, <2>2, <2>3, <2>4, <2>5
<1>5. ToSet(u) = ToSet(s) \cup ToSet(t)
  <2>1. ASSUME NEW c \in ToSet(u) PROVE c \in ToSet(s) \cup ToSet(t)
    <3>1. PICK k \in 1 .. m + n : u[k] = c BY <1>0 DEF ToSet
    <3>2. CASE k \in 1 .. m BY <1>0, <1>2, <3>1, <3>2
    <3>3. ASSUME NEW i \in 1 .. n, k = m + i PROVE c \in ToSet(t)
      <4>1. c = t[i] BY <1>0, <3>1, <3>3
      <4> QED BY <1>3, <4>1
    <3> QED BY <1>1, <3>2, <3>3
  <2>2. ASSUME NEW c \in ToSet(s) PROVE c \in ToSet(u)
    <3>1. PICK i \in 1 .. m : s[i] = c BY <1>0 DEF ToSet
    <3>2. i \in 1 .. m + n /\ u[i] = c BY <1>0, <3>1
    <3> QED BY <3>2, <1>0 DEF ToSet
  <2>3. ASSUME NEW c \in ToSet(t) PROVE c \in ToSet(u)
    <3>1. PICK i \in 1 .. n : t[i] = c BY <1>0 DEF ToSet
    <3>2. m + i \in 1 .. m + n /\ u[m + i] = c BY <1>0, <3>1
    <3> QED BY <3>2, <1>0 DEF ToSet
  <2> QED BY <2>1, <2>2, <2>3
<1> QED BY <1>4, <1>5

\* So are columns put after others.
LEMMA ConcatColumns ==
  ASSUME NEW s \in Seq(Column), NEW t \in Seq(Column), distinct(s), distinct(t), apart(s, t),
         NEW u, u = s \o t
  PROVE  u \in Seq(Column) /\ distinct(u) /\ ToSet(u) = ToSet(s) \cup ToSet(t)
<1>1. Len(s) \in Nat /\ Len(t) \in Nat /\ DOMAIN s = 1 .. Len(s) /\ DOMAIN t = 1 .. Len(t) OBVIOUS
<1>2. u \in Seq(Column) /\ DOMAIN u = 1 .. Len(s) + Len(t) BY Concat
<1>3. \A i \in 1 .. Len(s) : u[i] = s[i] BY Concat
<1>4. \A i \in 1 .. Len(t) : u[Len(s) + i] = t[i] BY Concat
<1>5. joins(s, t, u) BY <1>1, <1>2, <1>3, <1>4, Zenon DEF joins
<1>6. distinct(u) /\ ToSet(u) = ToSet(s) \cup ToSet(t) BY <1>5, JoinedColumns
<1> QED BY <1>2, <1>6

\* d is the column c somewhere else.
moved(c, d) == d = [c EXCEPT !.physical_pos = d.physical_pos]

\* The SDI says where every column is, and else what it said.
LEMMA PositionedAre ==
  ASSUME NEW cols \in Seq(Column), distinct(cols), NEW order \in Seq(Name), stored(cols, order),
         NEW p, p = positioned(cols, order)
  PROVE  /\ p \in Seq(Column) /\ distinct(p)
         /\ \A c \in ToSet(cols) : \E d \in ToSet(p) : moved(c, d)
         /\ \A d \in ToSet(p) :
              /\ \E c \in ToSet(cols) : moved(c, d)
              /\ ~d.IsVirtual => d.physical_pos \in DOMAIN order /\ order[d.physical_pos] = d.name
<1>1. PICK n \in Nat : n = Len(cols) /\ DOMAIN cols = 1 .. n OBVIOUS
<1>2. DOMAIN order \subseteq Int OBVIOUS
<1>3. ASSUME NEW i \in 1 .. n
      PROVE  /\ p[i] \in Column /\ moved(cols[i], p[i])
             /\ ~p[i].IsVirtual => p[i].physical_pos \in DOMAIN order /\ order[p[i].physical_pos] = p[i].name
  <2>1. cols[i] \in Column /\ cols[i] \in ToSet(cols) BY <1>1 DEF ToSet
  <2>2. p[i] = IF cols[i].IsVirtual THEN cols[i]
               ELSE [cols[i] EXCEPT !.physical_pos = CHOOSE j \in DOMAIN order : order[j] = cols[i].name]
    BY <1>1 DEF positioned
  <2>3. CASE cols[i].IsVirtual BY <2>1, <2>2, <2>3 DEF moved, Column
  <2>4. CASE ~cols[i].IsVirtual
    <3>1. \E j \in DOMAIN order : order[j] = cols[i].name BY <2>1, <2>4 DEF stored
    <3>2. PICK j \in DOMAIN order : order[j] = cols[i].name /\ p[i] = [cols[i] EXCEPT !.physical_pos = j]
      BY <2>2, <2>4, <3>1
    <3>3. j \in Int BY <1>2
    <3> QED BY <2>1, <3>2, <3>3 DEF moved, Column
  <2> QED BY <2>3, <2>4
<1>4. DOMAIN p = 1 .. n BY <1>1 DEF positioned
<1>5. p \in Seq(Column) /\ Len(p) = n
  <2>1. p = [i \in 1 .. n |-> p[i]] BY <1>1 DEF positioned
  <2>2. p \in [1 .. n -> Column] BY <1>3, <2>1
  <2> QED BY <2>2
<1>6. \A i \in 1 .. n : p[i].name = cols[i].name
  <2> TAKE i \in 1 .. n
  <2>1. cols[i] \in Column BY <1>1
  <2> QED BY <1>3, <2>1 DEF moved, Column
<1>7. distinct(p) BY <1>1, <1>4, <1>6 DEF distinct
<1>8. \A c \in ToSet(cols) : \E d \in ToSet(p) : moved(c, d) BY <1>1, <1>3, <1>4 DEF ToSet
<1>9. \A d \in ToSet(p) : \E i \in 1 .. n : p[i] = d BY <1>4 DEF ToSet
<1>10. \A i \in 1 .. n : cols[i] \in ToSet(cols) BY <1>1 DEF ToSet
<1>11. ASSUME NEW d \in ToSet(p)
       PROVE  /\ \E c \in ToSet(cols) : moved(c, d)
              /\ ~d.IsVirtual => d.physical_pos \in DOMAIN order /\ order[d.physical_pos] = d.name
  BY <1>3, <1>9, <1>10
<1> QED BY <1>5, <1>7, <1>8, <1>11

\* A column is as old wherever it is.
LEMMA AgedMoved ==
  ASSUME NEW c, NEW d, NEW v, aged(c, v),
         d.name = c.name, d.VersionAdded = c.VersionAdded, d.VersionDropped = c.VersionDropped,
         d.Nullable <=> c.Nullable, d.IsVirtual <=> c.IsVirtual
  PROVE  aged(d, v)
BY DEF aged

\* The columns in a new order, and some changed, are a table again.
LEMMA Altered ==
  ASSUME NEW all \in Seq(Column), distinct(all), NEW order \in Seq(Name),
         \A j, k \in DOMAIN order : order[j] = order[k] => j = k,
         Len(order) >= 2, order[1] = Key, order[2] = DB_TRX_ID, stored(all, order),
         \A c \in ToSet(all) : aged(c, version'), version' \in 0 .. Len(Added),
         columns' = positioned(all, order), physical' = order
  PROVE  /\ Layout'
         /\ \A k \in DOMAIN order : \E c \in ToSet(all) : moved(c, fields'[k]) /\ c.name = order[k]
<1>1. PICK p : p = columns' OBVIOUS
<1>2. p \in Seq(Column) /\ distinct(p) BY <1>1, PositionedAre
<1>3. \A c \in ToSet(all) : \E d \in ToSet(p) : moved(c, d) BY <1>1, PositionedAre
<1>4. \A d \in ToSet(p) : \E c \in ToSet(all) : moved(c, d) BY <1>1, PositionedAre
<1>5. \A d \in ToSet(p) : ~d.IsVirtual =>
        d.physical_pos \in DOMAIN order /\ order[d.physical_pos] = d.name
  BY <1>1, PositionedAre
<1>6. \A c \in ToSet(all) : c \in Column BY DEF ToSet
<1>7. ASSUME NEW c \in ToSet(all), NEW d, moved(c, d)
      PROVE  /\ d.name = c.name /\ d.VersionAdded = c.VersionAdded
             /\ d.VersionDropped = c.VersionDropped
             /\ (d.Nullable <=> c.Nullable) /\ (d.IsVirtual <=> c.IsVirtual)
  BY <1>6, <1>7 DEF moved, Column
<1>8. ASSUME NEW d \in ToSet(p) PROVE aged(d, version')
  <2>1. PICK c \in ToSet(all) : moved(c, d) BY <1>4
  <2>2. aged(c, version') OBVIOUS
  <2>3. d.name = c.name /\ d.VersionAdded = c.VersionAdded /\ d.VersionDropped = c.VersionDropped
        /\ (d.Nullable <=> c.Nullable) /\ (d.IsVirtual <=> c.IsVirtual)
    BY <1>7, <2>1
  <2> QED BY <2>2, <2>3, AgedMoved
<1>9. stored(p, order)
  <2>1. ASSUME NEW d \in ToSet(p), ~d.IsVirtual PROVE \E k \in DOMAIN order : order[k] = d.name
    <3>1. PICK c \in ToSet(all) : moved(c, d) BY <1>4
    <3>2. d.name = c.name /\ ~c.IsVirtual BY <1>7, <2>1, <3>1
    <3>3. \E k \in DOMAIN order : order[k] = c.name BY <3>2 DEF stored
    <3> QED BY <3>2, <3>3
  <2>2. ASSUME NEW k \in DOMAIN order PROVE \E d \in ToSet(p) : d.name = order[k] /\ ~d.IsVirtual
    <3>1. PICK c \in ToSet(all) : c.name = order[k] /\ ~c.IsVirtual BY DEF stored
    <3>2. PICK d \in ToSet(p) : moved(c, d) BY <1>3
    <3> QED BY <1>7, <3>1, <3>2
  <2> QED BY <2>1, <2>2 DEF stored
<1>10. Layout'
  <2>1. Columns' BY <1>1, <1>2 DEF Columns
  <2>2. Ages' BY <1>1, <1>8 DEF Ages
  <2>3. Stored' BY <1>1, <1>9 DEF Stored
  <2>4. Positions' BY <1>1, <1>5 DEF Positions
  <2> QED BY <2>1, <2>2, <2>3, <2>4 DEF Layout
<1>11. PICK f : f = fields' OBVIOUS
<1>12. f = fieldsOf(p, order) BY <1>1, <1>11 DEF fields, column, fieldsOf
<1>13. /\ DOMAIN order = 1 .. Len(f)
       /\ \A k \in 1 .. Len(f) : f[k] \in ToSet(p) /\ f[k].name = order[k]
  BY <1>2, <1>9, <1>12, FieldsOf
<1>14. ASSUME NEW k \in DOMAIN order
       PROVE  \E c \in ToSet(all) : moved(c, f[k]) /\ c.name = order[k]
  <2>1. f[k] \in ToSet(p) /\ f[k].name = order[k] BY <1>13
  <2>2. PICK c \in ToSet(all) : moved(c, f[k]) BY <1>4, <2>1
  <2> QED BY <1>7, <2>1, <2>2
<1> QED BY <1>10, <1>11, <1>14

\* The fields after a step that leaves a table.
LEMMA NewFields ==
  ASSUME Layout'
  PROVE  /\ fields' \in Seq(Column)
         /\ \A k \in 1 .. Len(fields') : fields'[k] \in ToSet(columns')
<1>1. fields' = fieldsOf(columns', physical') BY DEF fields, column, fieldsOf
<1>2. /\ columns' \in Seq(Column) /\ distinct(columns') /\ physical' \in Seq(Name)
      /\ \A j, k \in DOMAIN physical' : physical'[j] = physical'[k] => j = k
      /\ stored(columns', physical')
  BY DEF Layout, Columns, Stored
<1> QED BY <1>1, <1>2, FieldsOf

\* g are the fields f after some more ALTERs, the first of them the one after v.
grown(c, d, v) ==
  /\ d.name = c.name /\ d.Fixed = c.Fixed /\ d.MaxLen = c.MaxLen /\ d.Nullable = c.Nullable
  /\ d.VersionAdded = c.VersionAdded
  /\ d.VersionDropped = c.VersionDropped \/ (c.VersionDropped = 0 /\ d.VersionDropped > v)

later(f, g, v) ==
  /\ Len(f) <= Len(g)
  /\ \A k \in 1 .. Len(f) : grown(f[k], g[k], v)
  /\ \A k \in Len(f) + 1 .. Len(g) : g[k].VersionAdded > v

\* Columns are later than themselves.
LEMMA Reflexive ==
  ASSUME NEW f \in Seq(Column), NEW v
  PROVE  later(f, f, v)
BY DEF later, grown

\* Names of the columns to come.
LEMMA AddedNames ==
  ASSUME NEW j \in 1 .. Len(Added)
  PROVE  /\ Added[j] \in Name /\ Added[j] \notin {Key, DB_TRX_ID, Virtual}
         /\ \A k \in 1 .. Len(Added) : Added[k] = Added[j] => k = j
<1>1. PICK n \in Nat : n = Len(Base) BY RowFormatAssumption
<1>2. PICK m \in Nat : m = Len(Added) BY RowFormatAssumption
<1>3. DOMAIN names = 1 .. 3 + n + m /\ \A i \in 1 .. m : names[3 + n + i] = Added[i]
      /\ names[1] = Key /\ names[2] = DB_TRX_ID /\ names[3] = Virtual
  BY <1>1, <1>2, NamesAre
<1>4. \A i, k \in DOMAIN names : names[i] = names[k] => i = k BY RowFormatAssumption
<1>5. 3 + n + j \in DOMAIN names /\ names[3 + n + j] = Added[j] BY <1>2, <1>3
<1>6. Added[j] \in Name BY <1>5 DEF Name, ToSet
<1>7. Added[j] \notin {Key, DB_TRX_ID, Virtual}
  <2>1. /\ 1 \in DOMAIN names /\ 2 \in DOMAIN names /\ 3 \in DOMAIN names
        /\ 1 # 3 + n + j /\ 2 # 3 + n + j /\ 3 # 3 + n + j
    BY <1>2, <1>3
  <2> QED BY <1>3, <1>4, <1>5, <2>1
<1>8. ASSUME NEW k \in 1 .. Len(Added), Added[k] = Added[j] PROVE k = j
  <2>1. 3 + n + k \in DOMAIN names /\ names[3 + n + k] = Added[k] BY <1>2, <1>3
  <2>2. 3 + n + k = 3 + n + j BY <1>4, <1>5, <1>8, <2>1
  <2> QED BY <2>2
<1> QED BY <1>6, <1>7, <1>8

\* AddColumn puts one field after those there are and leaves them where they are, wherever
\* it shows the column.
LEMMA AddColumnStep ==
  ASSUME Layout, NEW kind \in Kinds, NEW first \in BOOLEAN, AddColumn(kind, first)
  PROVE  /\ Layout' /\ later(fields, fields', version) /\ version' = version + 1
         /\ \A k \in 1 .. Len(fields) : moved(fields[k], fields'[k])
<1>0. Columns /\ Stored /\ Ages /\ Positions BY DEF Layout
<1> DEFINE name  == Added[version + 1]
           new   == newColumn(name, kind, version + 1)
           shown == selected(columns, {i \in DOMAIN columns : columns[i].VersionDropped = 0})
           gone  == selected(columns, {i \in DOMAIN columns : columns[i].VersionDropped # 0})
<1>1. version + 1 \in 1 .. Len(Added) /\ version' = version + 1 /\ version' \in 0 .. Len(Added) /\ version \in Nat
  <2>1. version \in 0 .. Len(Added) /\ Len(Added) \in Nat BY <1>0, RowFormatAssumption DEF Columns
  <2> QED BY <2>1 DEF AddColumn
<1>2. name \in Name /\ name \notin {Key, DB_TRX_ID, Virtual}
      /\ \A k \in 1 .. Len(Added) : Added[k] = name => k = version + 1
  BY <1>1, AddedNames
<1>3. columns \in Seq(Column) /\ distinct(columns) /\ physical \in Seq(Name) BY <1>0 DEF Columns
<1>4. \A c \in ToSet(columns) : c.name # name
  <2>1. version + 1 \in version + 1 .. Len(Added) BY <1>1
  <2> QED BY <1>0, <2>1 DEF Ages, aged
<1>5. new \in Column /\ new.name = name /\ new.VersionAdded = version + 1 /\ new.VersionDropped = 0
      /\ ~new.IsVirtual
  <2>1. kind \in Kind BY RowFormatAssumption
  <2> QED BY <1>1, <1>2, <2>1 DEF newColumn, Column, Kind, NoPos
<1> HIDE DEF name, new
<1>6. PICK sh : sh = shown OBVIOUS
<1>7. PICK go : go = gone OBVIOUS
<1>8. sh \in Seq(Column) /\ distinct(sh) /\ ToSet(sh) = {c \in ToSet(columns) : c.VersionDropped = 0}
  <2>1. PICK S \in SUBSET (DOMAIN columns) : S = {i \in DOMAIN columns : columns[i].VersionDropped = 0}
    OBVIOUS
  <2>2. sh = selected(columns, S) BY <1>6, <2>1
  <2>3. sh \in Seq(Column) /\ distinct(sh) /\ ToSet(sh) = {columns[i] : i \in S}
    BY <1>3, <2>2, SelectedColumns
  <2> QED BY <2>1, <2>3 DEF ToSet
<1>9. go \in Seq(Column) /\ distinct(go) /\ ToSet(go) = {c \in ToSet(columns) : c.VersionDropped # 0}
  <2>1. PICK S \in SUBSET (DOMAIN columns) : S = {i \in DOMAIN columns : columns[i].VersionDropped # 0}
    OBVIOUS
  <2>2. go = selected(columns, S) BY <1>7, <2>1
  <2>3. go \in Seq(Column) /\ distinct(go) /\ ToSet(go) = {columns[i] : i \in S}
    BY <1>3, <2>2, SelectedColumns
  <2> QED BY <2>1, <2>3 DEF ToSet
<1>10. <<new>> \in Seq(Column) /\ distinct(<<new>>) /\ ToSet(<<new>>) = {new}
  BY <1>5 DEF distinct, ToSet
<1>11. PICK front : front = IF first THEN <<new>> \o sh ELSE Append(sh, new) OBVIOUS
<1>12. front \in Seq(Column) /\ distinct(front) /\ ToSet(front) = ToSet(sh) \cup {new}
  <2>1. CASE first
    <3>1. apart(<<new>>, sh) BY <1>4, <1>5, <1>8, <1>10 DEF apart
    <3>2. front = <<new>> \o sh BY <1>11, <2>1
    <3>3. front \in Seq(Column) /\ distinct(front) /\ ToSet(front) = ToSet(<<new>>) \cup ToSet(sh)
      BY <1>8, <1>10, <3>1, <3>2, ConcatColumns
    <3> QED BY <1>10, <3>3
  <2>2. CASE ~first
    <3>1. apart(sh, <<new>>) BY <1>4, <1>5, <1>8, <1>10 DEF apart
    <3>2. front = sh \o <<new>> BY <1>5, <1>8, <1>11, <2>2
    <3>3. front \in Seq(Column) /\ distinct(front) /\ ToSet(front) = ToSet(sh) \cup ToSet(<<new>>)
      BY <1>8, <1>10, <3>1, <3>2, ConcatColumns
    <3> QED BY <1>10, <3>3
  <2> QED BY <2>1, <2>2
<1>13. PICK all : all = front \o go OBVIOUS
<1>14. all \in Seq(Column) /\ distinct(all) /\ ToSet(all) = ToSet(columns) \cup {new}
  <2>1. \A c, d \in ToSet(columns) : c.name = d.name => c = d BY <1>3 DEF distinct, ToSet
  <2>2. apart(front, go)
    <3>1. SUFFICES ASSUME NEW c \in ToSet(front), NEW d \in ToSet(go), c.name = d.name PROVE FALSE
      BY DEF apart
    <3>2. d \in ToSet(columns) /\ d.VersionDropped # 0 BY <1>9
    <3>3. c # new BY <1>4, <1>5, <3>1, <3>2
    <3>4. c \in ToSet(columns) /\ c.VersionDropped = 0 BY <1>8, <1>12, <3>3
    <3> QED BY <2>1, <3>1, <3>2, <3>4
  <2>3. all \in Seq(Column) /\ distinct(all) /\ ToSet(all) = ToSet(front) \cup ToSet(go)
    BY <1>9, <1>12, <1>13, <2>2, ConcatColumns
  <2>4. ToSet(columns) = ToSet(sh) \cup ToSet(go) BY <1>8, <1>9
  <2> QED BY <1>12, <2>3, <2>4
<1>15. PICK n \in Nat : n = Len(physical) /\ DOMAIN physical = 1 .. n /\ n >= 2
  BY <1>3, <1>0 DEF Columns
<1>16. PICK order : order = Append(physical, name) OBVIOUS
<1>17. order \in Seq(Name) /\ Len(order) = n + 1 /\ DOMAIN order = 1 .. n + 1 /\ order[n + 1] = name
       /\ \A k \in 1 .. n : order[k] = physical[k]
  <2>0. PICK T : T = Name OBVIOUS
  <2>1. name \in T /\ physical \in Seq(T) BY <1>2, <1>3, <2>0
  <2>2. /\ order \in Seq(T) /\ Len(order) = n + 1 /\ order[n + 1] = name
        /\ \A k \in 1 .. n : order[k] = physical[k]
    BY <1>15, <1>16, <2>1, AppendProperties
  <2> QED BY <1>15, <2>0, <2>2
<1>18. \A k \in 1 .. n : physical[k] # name
  <2> TAKE k \in 1 .. n
  <2>1. PICK c \in ToSet(columns) : c.name = physical[k] BY <1>0, <1>15 DEF Stored, stored
  <2> QED BY <1>4, <2>1
<1>19. \A j, k \in DOMAIN order : order[j] = order[k] => j = k
  <2> TAKE j, k \in DOMAIN order
  <2>1. HAVE order[j] = order[k]
  <2>2. j \in 1 .. n \/ j = n + 1 BY <1>17
  <2>3. k \in 1 .. n \/ k = n + 1 BY <1>17
  <2>4. CASE j \in 1 .. n /\ k \in 1 .. n BY <1>0, <1>15, <1>17, <2>1, <2>4 DEF Columns
  <2> QED BY <1>17, <1>18, <2>1, <2>2, <2>3, <2>4
<1>20. order[1] = Key /\ order[2] = DB_TRX_ID BY <1>0, <1>15, <1>17 DEF Columns
<1>21. stored(all, order)
  <2>1. ASSUME NEW c \in ToSet(all), ~c.IsVirtual PROVE \E k \in DOMAIN order : order[k] = c.name
    <3>1. CASE c = new
      <4>1. n + 1 \in DOMAIN order BY <1>17
      <4> QED BY <1>5, <1>17, <3>1, <4>1
    <3>2. CASE c \in ToSet(columns)
      <4>1. PICK k \in 1 .. n : physical[k] = c.name BY <1>0, <1>15, <2>1, <3>2 DEF Stored, stored
      <4> QED BY <1>17, <4>1
    <3> QED BY <1>14, <3>1, <3>2
  <2>2. ASSUME NEW k \in DOMAIN order PROVE \E c \in ToSet(all) : c.name = order[k] /\ ~c.IsVirtual
    <3>1. CASE k = n + 1 BY <1>5, <1>14, <1>17, <3>1
    <3>2. CASE k \in 1 .. n
      <4>1. PICK c \in ToSet(columns) : c.name = physical[k] /\ ~c.IsVirtual
        BY <1>0, <1>15, <3>2 DEF Stored, stored
      <4> QED BY <1>14, <1>17, <3>2, <4>1
    <3> QED BY <1>17, <3>1, <3>2
  <2> QED BY <2>1, <2>2 DEF stored
<1>22. \A c \in ToSet(all) : aged(c, version + 1)
  <2>1. ASSUME NEW c \in ToSet(columns) PROVE aged(c, version + 1)
    <3>1. aged(c, version) BY <1>0 DEF Ages
    <3>2. c \in Column BY <1>3 DEF ToSet
    <3>3. \A j \in version + 1 + 1 .. Len(Added) : j \in version + 1 .. Len(Added) BY <1>1
    <3>4. c.VersionAdded <= version + 1 /\ c.VersionDropped <= version + 1 BY <1>1, <3>1, <3>2 DEF aged, Column
    <3> QED BY <3>1, <3>3, <3>4 DEF aged
  <2>2. aged(new, version + 1)
    <3>1. \A j \in version + 1 + 1 .. Len(Added) : j \in 1 .. Len(Added) /\ j # version + 1 BY <1>1
    <3> QED BY <1>1, <1>2, <1>5, <3>1 DEF aged
  <2> QED BY <1>14, <2>1, <2>2
<1>23. columns' = positioned(all, order) /\ physical' = order
  BY <1>6, <1>7, <1>11, <1>13, <1>16 DEF AddColumn, new, name
<1>24. Len(order) >= 2 BY <1>15, <1>17
<1>25. Layout' /\ \A k \in DOMAIN order : \E c \in ToSet(all) : moved(c, fields'[k]) /\ c.name = order[k]
  BY <1>1, <1>14, <1>17, <1>19, <1>20, <1>21, <1>22, <1>23, <1>24, Altered
<1>26. PICK g : g = fields' OBVIOUS
<1>27. g \in Seq(Column) /\ Len(g) = n + 1
  <2>1. Columns' /\ Stored' BY <1>25 DEF Layout
  <2>2. fields' \in Seq(Column) /\ Len(fields') = Len(physical')
    <3>1. fields' = fieldsOf(columns', physical') BY DEF fields, column, fieldsOf
    <3>2. /\ columns' \in Seq(Column) /\ distinct(columns') /\ physical' \in Seq(Name)
          /\ \A j, k \in DOMAIN physical' : physical'[j] = physical'[k] => j = k
          /\ stored(columns', physical')
      BY <2>1 DEF Columns, Stored
    <3> QED BY <3>1, <3>2, FieldsOf
  <2> QED BY <1>17, <1>23, <1>26, <2>2
<1>28. \A k \in 1 .. n + 1 : \E c \in ToSet(all) : moved(c, g[k]) /\ c.name = order[k]
  BY <1>17, <1>25, <1>26
<1>29. Len(fields) = n /\ \A k \in 1 .. n : fields[k] \in ToSet(columns) /\ fields[k].name = physical[k]
  <2>1. Len(fields) = Len(physical) /\ \A k \in 1 .. Len(fields) : fields[k] \in ToSet(columns) /\ fields[k].name = physical[k]
    BY <1>0, Fields
  <2> QED BY <1>15, <2>1
<1>30. PICK f : f = fields OBVIOUS
<1>31. ASSUME NEW k \in 1 .. n PROVE grown(f[k], g[k], version) /\ moved(f[k], g[k])
  <2>1. PICK c \in ToSet(all) : moved(c, g[k]) /\ c.name = order[k] BY <1>28
  <2>2. f[k] \in ToSet(all) /\ f[k].name = order[k] BY <1>14, <1>17, <1>29, <1>30
  <2>3. c = f[k] BY <1>14, <2>1, <2>2 DEF distinct, ToSet
  <2>4. c \in Column BY <1>14 DEF ToSet
  <2> QED BY <2>1, <2>3, <2>4 DEF moved, grown, Column
<1>32. g[n + 1].VersionAdded > version
  <2>1. PICK c \in ToSet(all) : moved(c, g[n + 1]) /\ c.name = order[n + 1] BY <1>28
  <2>2. c = new
    <3>1. c \in ToSet(columns) \/ c = new BY <1>14, <2>1
    <3>2. c.name = name BY <1>17, <2>1
    <3> QED BY <1>4, <3>1, <3>2
  <2>3. g[n + 1].VersionAdded = version + 1 BY <1>5, <2>1, <2>2 DEF moved, Column
  <2> QED BY <1>1, <2>3
<1>33. later(f, g, version)
  <2>1. Len(f) = n /\ Len(g) = n + 1 BY <1>27, <1>29, <1>30
  <2>2. \A k \in n + 1 .. n + 1 : k = n + 1 OBVIOUS
  <2> QED BY <1>31, <1>32, <2>1, <2>2 DEF later
<1> QED BY <1>1, <1>25, <1>26, <1>29, <1>30, <1>31, <1>33

\* A column dropped is a field still.
LEMMA DropColumnStep ==
  ASSUME Layout, NEW name \in {c.name : c \in ToSet(columns)}, DropColumn(name)
  PROVE  /\ Layout' /\ later(fields, fields', version) /\ version' = version + 1
         /\ \A k \in 1 .. Len(fields) : fields[k].name # name => moved(fields[k], fields'[k])
<1>0. Columns /\ Stored /\ Ages /\ Positions BY DEF Layout
<1>1. version' = version + 1 /\ version' \in 0 .. Len(Added) /\ version \in Nat
  <2>1. version \in 0 .. Len(Added) /\ Len(Added) \in Nat BY <1>0, RowFormatAssumption DEF Columns
  <2> QED BY <2>1 DEF DropColumn
<1>2. PICK c0 \in ToSet(columns) : c0.name = name OBVIOUS
<1>3. column(name) = c0 /\ c0 \in Column BY <1>0, <1>2, ColumnIs
<1>4. columns \in Seq(Column) /\ distinct(columns) /\ physical \in Seq(Name) BY <1>0 DEF Columns
<1>5. PICK new : new = [c0 EXCEPT !.VersionDropped = version + 1] OBVIOUS
<1>6. new \in Column /\ new.name = name /\ grown(c0, new, version) /\ new.VersionDropped = version + 1
      /\ (new.IsVirtual <=> c0.IsVirtual) /\ new.Fixed = c0.Fixed
  <2>1. c0.VersionDropped = 0 BY <1>3 DEF DropColumn
  <2> QED BY <1>1, <1>2, <1>3, <1>5, <2>1 DEF Column, grown
<1>7. name \notin {Key, DB_TRX_ID, Virtual} BY DEF DropColumn
<1>8. PICK kept : kept = selected(columns, {i \in DOMAIN columns : columns[i].name # name}) OBVIOUS
<1>9. kept \in Seq(Column) /\ distinct(kept) /\ ToSet(kept) = {c \in ToSet(columns) : c.name # name}
  <2>1. PICK S \in SUBSET (DOMAIN columns) : S = {i \in DOMAIN columns : columns[i].name # name}
    OBVIOUS
  <2>2. kept = selected(columns, S) BY <1>8, <2>1
  <2>3. kept \in Seq(Column) /\ distinct(kept) /\ ToSet(kept) = {columns[i] : i \in S}
    BY <1>4, <2>2, SelectedColumns
  <2> QED BY <2>1, <2>3 DEF ToSet
<1>10. <<new>> \in Seq(Column) /\ distinct(<<new>>) /\ ToSet(<<new>>) = {new}
  BY <1>6 DEF distinct, ToSet
<1>11. PICK all : all = Append(kept, new) OBVIOUS
<1>12. all \in Seq(Column) /\ distinct(all) /\ ToSet(all) = ToSet(kept) \cup {new}
  <2>1. apart(kept, <<new>>) BY <1>6, <1>9, <1>10 DEF apart
  <2>2. all = kept \o <<new>> BY <1>6, <1>9, <1>11
  <2>3. all \in Seq(Column) /\ distinct(all) /\ ToSet(all) = ToSet(kept) \cup ToSet(<<new>>)
    BY <1>9, <1>10, <2>1, <2>2, ConcatColumns
  <2> QED BY <1>10, <2>3
<1>13. stored(all, physical)
  <2>1. ASSUME NEW c \in ToSet(all), ~c.IsVirtual PROVE \E k \in DOMAIN physical : physical[k] = c.name
    <3>1. \E d \in ToSet(columns) : d.name = c.name /\ ~d.IsVirtual
      <4>1. CASE c = new BY <1>2, <1>6, <2>1, <4>1
      <4>2. CASE c \in ToSet(kept) BY <1>9, <2>1, <4>2
      <4> QED BY <1>12, <4>1, <4>2
    <3> QED BY <1>0, <3>1 DEF Stored, stored
  <2>2. ASSUME NEW k \in DOMAIN physical PROVE \E c \in ToSet(all) : c.name = physical[k] /\ ~c.IsVirtual
    <3>1. PICK d \in ToSet(columns) : d.name = physical[k] /\ ~d.IsVirtual BY <1>0 DEF Stored, stored
    <3>2. CASE d.name = name
      <4>1. d = c0 BY <1>2, <1>4, <3>2 DEF distinct, ToSet
      <4> QED BY <1>6, <1>12, <3>1, <3>2, <4>1
    <3>3. CASE d.name # name BY <1>9, <1>12, <3>1, <3>3
    <3> QED BY <3>2, <3>3
  <2> QED BY <2>1, <2>2 DEF stored
<1>14. \A c \in ToSet(all) : aged(c, version + 1)
  <2>1. ASSUME NEW c \in ToSet(columns) PROVE aged(c, version + 1)
    <3>1. aged(c, version) BY <1>0 DEF Ages
    <3>2. c \in Column BY <1>4 DEF ToSet
    <3>3. \A j \in version + 1 + 1 .. Len(Added) : j \in version + 1 .. Len(Added) BY <1>1
    <3>4. c.VersionAdded <= version + 1 /\ c.VersionDropped <= version + 1 BY <1>1, <3>1, <3>2 DEF aged, Column
    <3> QED BY <3>1, <3>3, <3>4 DEF aged
  <2>2. aged(new, version + 1)
    <3>1. aged(c0, version + 1) BY <2>1
    <3> QED BY <1>1, <1>2, <1>6, <1>7, <3>1 DEF aged, grown
  <2> QED BY <1>9, <1>12, <2>1, <2>2
<1>15. columns' = positioned(all, physical) /\ physical' = physical
  BY <1>3, <1>5, <1>8, <1>11 DEF DropColumn
<1>16. /\ \A j, k \in DOMAIN physical : physical[j] = physical[k] => j = k
       /\ Len(physical) >= 2 /\ physical[1] = Key /\ physical[2] = DB_TRX_ID
  BY <1>0 DEF Columns
<1>17. Layout' /\ \A k \in DOMAIN physical : \E c \in ToSet(all) : moved(c, fields'[k]) /\ c.name = physical[k]
  BY <1>1, <1>4, <1>12, <1>13, <1>14, <1>15, <1>16, Altered
<1>18. PICK g : g = fields' OBVIOUS
<1>19. PICK f : f = fields OBVIOUS
<1>20. Len(f) = Len(physical) /\ DOMAIN physical = 1 .. Len(f) /\ DOMAIN f = 1 .. Len(f)
       /\ \A k \in 1 .. Len(f) : f[k] \in ToSet(columns) /\ f[k].name = physical[k]
  <2>1. /\ fields \in Seq(Column) /\ Len(fields) = Len(physical) /\ DOMAIN physical = 1 .. Len(fields)
        /\ \A k \in 1 .. Len(fields) : fields[k] \in ToSet(columns) /\ fields[k].name = physical[k]
    BY <1>0, Fields
  <2> QED BY <1>19, <2>1
<1>21. Len(g) = Len(f)
  <2>1. fields' = fieldsOf(columns', physical') BY DEF fields, column, fieldsOf
  <2>2. /\ columns' \in Seq(Column) /\ distinct(columns') /\ physical' \in Seq(Name)
        /\ \A j, k \in DOMAIN physical' : physical'[j] = physical'[k] => j = k
        /\ stored(columns', physical')
    BY <1>17 DEF Layout, Columns, Stored
  <2>3. Len(fields') = Len(physical') BY <2>1, <2>2, FieldsOf
  <2> QED BY <1>15, <1>18, <1>20, <2>3
<1>22. ASSUME NEW k \in 1 .. Len(f)
       PROVE  grown(f[k], g[k], version) /\ (f[k].name # name => moved(f[k], g[k]))
  <2>1. PICK c \in ToSet(all) : moved(c, g[k]) /\ c.name = f[k].name BY <1>17, <1>18, <1>20
  <2>2. c \in Column BY <1>12 DEF ToSet
  <2>3. f[k] \in ToSet(columns) BY <1>20
  <2>4. CASE c = new
    <3>1. f[k] = c0 BY <1>2, <1>4, <1>6, <2>1, <2>3, <2>4 DEF distinct, ToSet
    <3> QED BY <1>2, <1>6, <2>1, <2>2, <2>4, <3>1 DEF moved, grown, Column
  <2>5. CASE c \in ToSet(columns)
    <3>1. f[k] = c BY <1>4, <2>1, <2>3, <2>5 DEF distinct, ToSet
    <3> QED BY <2>1, <2>2, <3>1 DEF moved, grown, Column
  <2> QED BY <1>9, <1>12, <2>4, <2>5
<1>23. later(f, g, version)
  <2>1. Len(f) \in Nat BY <1>4, <1>20
  <2> QED BY <1>21, <1>22, <2>1 DEF later
<1> QED BY <1>1, <1>17, <1>18, <1>19, <1>20, <1>22, <1>23

\* A column that was altered twice is the first one, altered.
LEMMA GrownTwice ==
  ASSUME NEW c \in Column, NEW d \in Column, NEW e \in Column, NEW u \in Nat, NEW v \in Nat, u <= v,
         grown(c, d, u), grown(d, e, v)
  PROVE  grown(c, e, u)
<1>1. e.VersionDropped \in Nat BY DEF Column
<1> QED BY <1>1 DEF grown

\* Of the fields there are, later and later ones.
LEMMA Transitive ==
  ASSUME NEW f \in Seq(Column), NEW g \in Seq(Column), NEW h \in Seq(Column), NEW u \in Nat, NEW v \in Nat,
         u <= v, later(f, g, u), later(g, h, v)
  PROVE  later(f, h, u)
<1>1. Len(f) \in Nat /\ Len(g) \in Nat /\ Len(h) \in Nat /\ Len(f) <= Len(g) /\ Len(g) <= Len(h)
  BY DEF later
<1>2. ASSUME NEW k \in 1 .. Len(f) PROVE grown(f[k], h[k], u)
  <2>1. k \in 1 .. Len(g) /\ k \in 1 .. Len(h) BY <1>1
  <2>2. grown(f[k], g[k], u) /\ grown(g[k], h[k], v) BY <2>1 DEF later
  <2>3. f[k] \in Column /\ g[k] \in Column /\ h[k] \in Column BY <2>1
  <2> QED BY <2>2, <2>3, GrownTwice
<1>3. ASSUME NEW k \in Len(f) + 1 .. Len(h) PROVE h[k].VersionAdded > u
  <2>1. h[k].VersionAdded \in Nat
    <3>1. k \in 1 .. Len(h) BY <1>1
    <3>2. h[k] \in Column BY <3>1
    <3> QED BY <3>2 DEF Column
  <2>2. CASE k <= Len(g)
    <3>1. k \in 1 .. Len(g) /\ k \in Len(f) + 1 .. Len(g) BY <1>1, <2>2
    <3>2. grown(g[k], h[k], v) /\ g[k].VersionAdded > u BY <3>1 DEF later
    <3> QED BY <3>2 DEF grown
  <2>3. CASE k > Len(g)
    <3>1. k \in Len(g) + 1 .. Len(h) BY <1>1, <2>3
    <3>2. h[k].VersionAdded > v BY <3>1 DEF later
    <3> QED BY <2>1, <3>2
  <2> QED BY <1>1, <2>2, <2>3
<1> QED BY <1>1, <1>2, <1>3 DEF later

\* The table is created with the columns of a row.
LEMMA InitLayout ==
  ASSUME Init
  PROVE  Layout
<1> DEFINE key  == newColumn(Key, KeyKind, 0)
           trx  == newColumn(DB_TRX_ID, [Fixed |-> 1, MaxLen |-> 0, Nullable |-> FALSE], 0)
           virt == [newColumn(Virtual, KeyKind, 0) EXCEPT !.IsVirtual = TRUE]
           three == <<key, trx, virt>>
           base == [i \in DOMAIN Base |-> newColumn(Base[i], BaseKinds[i], 0)]
<1>1. PICK n \in Nat : n = Len(Base) /\ DOMAIN Base = 1 .. n BY RowFormatAssumption
<1>2. PICK m \in Nat : m = Len(Added) BY RowFormatAssumption
<1>3. /\ DOMAIN names = 1 .. 3 + n + m
      /\ names[1] = Key /\ names[2] = DB_TRX_ID /\ names[3] = Virtual
      /\ \A i \in 1 .. n : names[3 + i] = Base[i]
      /\ \A i \in 1 .. m : names[3 + n + i] = Added[i]
  BY <1>1, <1>2, NamesAre
<1>4. \A i \in 1 .. 3 + n + m : names[i] \in Name BY <1>3 DEF Name, ToSet
<1>5. Key \in Name /\ DB_TRX_ID \in Name /\ Virtual \in Name
  <2>1. 1 \in 1 .. 3 + n + m /\ 2 \in 1 .. 3 + n + m /\ 3 \in 1 .. 3 + n + m OBVIOUS
  <2> QED BY <1>3, <1>4, <2>1
<1>6. KeyKind \in Kind /\ ~KeyKind.Nullable BY RowFormatAssumption
<1>7. key \in Column /\ key.name = Key /\ ~key.IsVirtual /\ key.VersionAdded = 0 /\ key.VersionDropped = 0
      /\ ~key.Nullable /\ key.physical_pos = NoPos
  BY <1>5, <1>6 DEF newColumn, Column, Kind, NoPos
<1>8. trx \in Column /\ trx.name = DB_TRX_ID /\ ~trx.IsVirtual /\ trx.VersionAdded = 0 /\ trx.VersionDropped = 0
      /\ ~trx.Nullable /\ trx.physical_pos = NoPos
  BY <1>5 DEF newColumn, Column, NoPos
<1>c. PICK v0 : v0 = newColumn(Virtual, KeyKind, 0) OBVIOUS
<1>d. v0 \in Column /\ v0.name = Virtual /\ v0.VersionAdded = 0 /\ v0.VersionDropped = 0
      /\ ~v0.Nullable /\ v0.physical_pos = NoPos
  BY <1>5, <1>6, <1>c DEF newColumn, Column, Kind, NoPos
<1>9. virt \in Column /\ virt.name = Virtual /\ virt.IsVirtual /\ virt.VersionAdded = 0 /\ virt.VersionDropped = 0
      /\ ~virt.Nullable /\ virt.physical_pos = NoPos
  BY <1>c, <1>d DEF Column
<1>10. ASSUME NEW i \in 1 .. n
       PROVE  /\ base[i] \in Column /\ base[i].name = Base[i] /\ ~base[i].IsVirtual
              /\ base[i].VersionAdded = 0 /\ base[i].VersionDropped = 0 /\ base[i].physical_pos = NoPos
  <2>1. BaseKinds[i] \in Kind BY <1>1, RowFormatAssumption
  <2>2. Base[i] \in Name
    <3>1. 3 + i \in 1 .. 3 + n + m OBVIOUS
    <3> QED BY <1>3, <1>4, <3>1
  <2>3. base[i] = newColumn(Base[i], BaseKinds[i], 0) BY <1>1
  <2>4. PICK b : b = base[i] OBVIOUS
  <2>5. b = newColumn(Base[i], BaseKinds[i], 0) BY <2>3, <2>4
  <2> HIDE DEF base
  <2>6. /\ b \in Column /\ b.name = Base[i] /\ ~b.IsVirtual
        /\ b.VersionAdded = 0 /\ b.VersionDropped = 0 /\ b.physical_pos = NoPos
    BY <2>1, <2>2, <2>5 DEF newColumn, Column, Kind, NoPos
  <2> QED BY <2>4, <2>6
<1>11. base \in Seq(Column) /\ Len(base) = n
  <2>1. base \in [1 .. n -> Column] BY <1>1, <1>10
  <2> HIDE DEF base
  <2> QED BY <2>1
<1>12. columns = three \o base BY DEF Init
<1>13. physical = <<Key, DB_TRX_ID>> \o Base BY DEF Init
<1>14. three \in Seq(Column) /\ Len(three) = 3 /\ three[1] = key /\ three[2] = trx /\ three[3] = virt
  <2> HIDE DEF key, trx, virt
  <2> QED BY <1>7, <1>8, <1>9
<1> HIDE DEF three, base, key, trx, virt
<1>a. /\ columns \in Seq(Column) /\ DOMAIN columns = 1 .. Len(three) + Len(base)
      /\ \A i \in 1 .. Len(three) : columns[i] = three[i]
      /\ \A i \in 1 .. Len(base) : columns[Len(three) + i] = base[i]
  <2>1. three \in Seq(Column) BY <1>14
  <2>2. base \in Seq(Column) BY <1>11
  <2> QED BY <1>12, <2>1, <2>2, Concat
<1>15. columns \in Seq(Column) /\ DOMAIN columns = 1 .. 3 + n BY <1>11, <1>14, <1>a
<1>16. \A i \in 1 .. 3 : columns[i] = three[i] BY <1>14, <1>a
<1>17. \A i \in 1 .. n : columns[3 + i] = base[i] BY <1>11, <1>14, <1>a
<1>18. columns[1] = key /\ columns[2] = trx /\ columns[3] = virt
  <2>1. 1 \in 1 .. 3 /\ 2 \in 1 .. 3 /\ 3 \in 1 .. 3 OBVIOUS
  <2> QED BY <1>14, <1>16, <2>1
<1>19. \A i \in 1 .. 3 + n : i = 1 \/ i = 2 \/ i = 3 \/ \E j \in 1 .. n : i = 3 + j
  <2> TAKE i \in 1 .. 3 + n
  <2>1. CASE i > 3
    <3>1. i - 3 \in 1 .. n /\ i = 3 + (i - 3) BY <2>1
    <3> QED BY <3>1
  <2> QED BY <2>1
<1>20. ASSUME NEW i \in 1 .. 3 + n
       PROVE  /\ columns[i].name = names[i] /\ columns[i].VersionAdded = 0 /\ columns[i].VersionDropped = 0
              /\ columns[i].physical_pos = NoPos
              /\ (columns[i].IsVirtual <=> i = 3) /\ (i \in 1 .. 3 => ~columns[i].Nullable)
  <2>1. CASE i = 1 BY <1>3, <1>7, <1>18, <2>1
  <2>2. CASE i = 2 BY <1>3, <1>8, <1>18, <2>2
  <2>3. CASE i = 3 BY <1>3, <1>9, <1>18, <2>3
  <2>4. ASSUME NEW j \in 1 .. n, i = 3 + j
        PROVE  /\ columns[i].name = names[i] /\ columns[i].VersionAdded = 0 /\ columns[i].VersionDropped = 0
               /\ columns[i].physical_pos = NoPos /\ ~columns[i].IsVirtual
    <3>1. columns[i] = base[j] BY <1>17, <2>4
    <3>2. names[i] = Base[j] BY <1>3, <2>4
    <3> QED BY <1>10, <3>1, <3>2
  <2> QED BY <1>19, <2>1, <2>2, <2>3, <2>4
<1>21. \A i, j \in DOMAIN names : names[i] = names[j] => i = j BY RowFormatAssumption
<1>22. \A i \in 1 .. 3 + n : i \in DOMAIN names BY <1>3
<1>23. distinct(columns) BY <1>15, <1>20, <1>21, <1>22 DEF distinct
<1>24. PICK two : two = <<Key, DB_TRX_ID>> OBVIOUS
<1>25. two \in Seq(Name) /\ Len(two) = 2 /\ two[1] = Key /\ two[2] = DB_TRX_ID BY <1>5, <1>24
<1>26. Base \in Seq(Name)
  <2>1. \A i \in 1 .. n : Base[i] \in Name
    <3>1. \A i \in 1 .. n : 3 + i \in 1 .. 3 + n + m OBVIOUS
    <3> QED BY <1>3, <1>4, <3>1
  <2>2. Base \in Seq(STRING) BY RowFormatAssumption
  <2> QED BY <1>1, <2>1, <2>2
<1>27. PICK phys : phys = physical OBVIOUS
<1>28. phys = two \o Base BY <1>13, <1>24, <1>27
<1>b. /\ phys \in Seq(Name) /\ Len(phys) = Len(two) + Len(Base)
      /\ DOMAIN phys = 1 .. Len(two) + Len(Base)
      /\ \A i \in 1 .. Len(two) : phys[i] = two[i]
      /\ \A i \in 1 .. Len(Base) : phys[Len(two) + i] = Base[i]
  <2>1. two \in Seq(Name) BY <1>25
  <2> QED BY <1>26, <1>28, <2>1, Concat
<1>29. phys \in Seq(Name) /\ Len(phys) = 2 + n /\ DOMAIN phys = 1 .. 2 + n BY <1>1, <1>25, <1>b
<1>30. \A i \in 1 .. 2 : phys[i] = two[i] BY <1>25, <1>b
<1>31. \A i \in 1 .. n : phys[2 + i] = Base[i] BY <1>1, <1>25, <1>b
<1> DEFINE at(k) == IF k <= 2 THEN k ELSE k + 1
<1>32. ASSUME NEW k \in 1 .. 2 + n
       PROVE  at(k) \in 1 .. 3 + n /\ at(k) # 3 /\ phys[k] = names[at(k)]
  <2>1. CASE k = 1
    <3>1. 1 \in 1 .. 2 OBVIOUS
    <3> QED BY <1>3, <1>25, <1>30, <2>1, <3>1
  <2>2. CASE k = 2
    <3>1. 2 \in 1 .. 2 OBVIOUS
    <3> QED BY <1>3, <1>25, <1>30, <2>2, <3>1
  <2>3. CASE k > 2
    <3>1. k - 2 \in 1 .. n /\ 2 + (k - 2) = k /\ 3 + (k - 2) = k + 1 BY <2>3
    <3>2. phys[k] = Base[k - 2] /\ names[k + 1] = Base[k - 2] BY <1>3, <1>31, <3>1
    <3> QED BY <2>3, <3>2
  <2> QED BY <2>1, <2>2, <2>3
<1>33. \A j, k \in 1 .. 2 + n : at(j) = at(k) => j = k OBVIOUS
<1>34. \A i \in 1 .. 3 + n : i # 3 => \E k \in 1 .. 2 + n : at(k) = i
  <2> TAKE i \in 1 .. 3 + n
  <2>1. CASE i < 3
    <3>1. i \in 1 .. 2 + n /\ at(i) = i BY <2>1
    <3> QED BY <3>1
  <2>2. CASE i > 3
    <3>1. i - 1 \in 1 .. 2 + n /\ at(i - 1) = i BY <2>2
    <3> QED BY <3>1
  <2> QED BY <2>1, <2>2
<1> HIDE DEF at
<1>35. \A j, k \in DOMAIN phys : phys[j] = phys[k] => j = k BY <1>21, <1>22, <1>29, <1>32, <1>33
<1>36. Columns
  <2>1. version \in 0 .. Len(Added) BY <1>2 DEF Init
  <2>2. Len(phys) >= 2 BY <1>29
  <2>3. phys[1] = Key /\ phys[2] = DB_TRX_ID
    <3>1. 1 \in 1 .. 2 /\ 2 \in 1 .. 2 OBVIOUS
    <3> QED BY <1>25, <1>30, <3>1
  <2> QED BY <1>15, <1>23, <1>27, <1>29, <1>35, <2>1, <2>2, <2>3 DEF Columns
<1>37. Stored
  <2>1. ASSUME NEW c \in ToSet(columns), ~c.IsVirtual PROVE \E k \in DOMAIN phys : phys[k] = c.name
    <3>1. PICK i \in 1 .. 3 + n : c = columns[i] BY <1>15 DEF ToSet
    <3>2. i # 3 BY <1>20, <2>1, <3>1
    <3>3. PICK k \in 1 .. 2 + n : at(k) = i BY <1>34, <3>2
    <3>4. phys[k] = names[i] /\ columns[i].name = names[i] BY <1>20, <1>32, <3>3
    <3> QED BY <1>29, <3>1, <3>4
  <2>2. ASSUME NEW k \in DOMAIN phys PROVE \E c \in ToSet(columns) : c.name = phys[k] /\ ~c.IsVirtual
    <3>1. at(k) \in 1 .. 3 + n /\ at(k) # 3 /\ phys[k] = names[at(k)] BY <1>29, <1>32
    <3>2. columns[at(k)] \in ToSet(columns) BY <1>15, <3>1 DEF ToSet
    <3> QED BY <1>20, <3>1, <3>2
  <2> QED BY <1>27, <2>1, <2>2 DEF Stored, stored
<1>38. Positions
  <2>1. \A c \in ToSet(columns) : c.physical_pos = NoPos BY <1>15, <1>20 DEF ToSet
  <2>2. version = 0 BY DEF Init
  <2> QED BY <2>1, <2>2 DEF Positions
<1>39. Ages
  <2>1. ASSUME NEW i \in 1 .. 3 + n PROVE aged(columns[i], 0)
    <3>1. ASSUME NEW j \in 1 .. m PROVE names[i] # Added[j]
      <4>1. 3 + n + j \in DOMAIN names /\ 3 + n + j # i BY <1>3
      <4> QED BY <1>3, <1>21, <1>22, <4>1
    <3>2. \A j \in 0 + 1 .. m : j \in 1 .. m OBVIOUS
    <3>3. columns[i].IsVirtual <=> columns[i].name = Virtual
      <4>1. names[i] = Virtual <=> i = 3
        <5>1. 3 \in DOMAIN names BY <1>3
        <5> QED BY <1>3, <1>21, <1>22, <5>1
      <4> QED BY <1>20, <4>1
    <3>4. columns[i].name \in {Key, DB_TRX_ID, Virtual} => ~columns[i].Nullable
      <4>1. names[i] \in {Key, DB_TRX_ID, Virtual} => i \in 1 .. 3
        <5>1. 1 \in DOMAIN names /\ 2 \in DOMAIN names /\ 3 \in DOMAIN names BY <1>3
        <5> QED BY <1>3, <1>21, <1>22, <5>1
      <4> QED BY <1>20, <4>1
    <3> QED BY <1>2, <1>20, <3>1, <3>2, <3>3, <3>4 DEF aged
  <2>2. version = 0 BY DEF Init
  <2> QED BY <1>15, <2>1, <2>2 DEF Ages, ToSet
<1> QED BY <1>36, <1>37, <1>38, <1>39 DEF Layout

-----------------------------------------------------------------------------
(* The invariant.                                                          *)

\* An index entry is of a column that is not dropped, and of the key.
Index ==
  \/ elements = <<>>
  \/ /\ Len(elements) = 2 /\ DOMAIN elements = 1 .. 2
     /\ \A i \in 1 .. 2 :
          /\ elements[i].Length \in PrefixLengths \cup {Whole}
          /\ \E k \in 1 .. Len(fields) :
               fields[k].name = elements[i].name /\ fields[k].VersionDropped = 0
     /\ elements[1].name # Key /\ elements[2].name = Key /\ elements[2].Length = Whole

\* The fields of a row of version v.
asOf(f, v) ==
  /\ f \in Seq(Column) /\ later(f, fields, v)
  /\ \A k \in 1 .. Len(f) : f[k].VersionAdded <= v /\ f[k].VersionDropped <= v

\* A session has the fields of some version, and the index if there was one then.
Definitions ==
  /\ defs.version \in 0 .. version
  /\ asOf(defs.clustered.Cols, defs.version) /\ defs.clustered.NUniqueInTree = 1
  /\ defs.secondary.NUniqueInTree = Len(defs.secondary.Cols)
  /\ \/ defs.secondary.Cols = <<>>
     \/ /\ Len(elements) = 2 /\ DOMAIN defs.secondary.Cols = 1 .. 2
        /\ defs.secondary.Cols \in Seq(Column)
        /\ \A i \in 1 .. 2 : moved(secondaryCols[i], defs.secondary.Cols[i])

\* A row is a record of the fields of its version, with a value of each that was not
\* dropped.
valued(f, vals) ==
  /\ DOMAIN vals = {f[k].name : k \in {k \in 1 .. Len(f) : f[k].VersionDropped = 0}}
  /\ \A k \in 1 .. Len(f) : f[k].VersionDropped = 0 => vals[f[k].name] \in values(f[k])

headerOf(v) == IF v > 0 THEN <<byteOf(v)>> ELSE <<>>

Row ==
  row # NULL =>
    /\ row.version \in 0 .. version
    /\ \E f : /\ asOf(f, row.version) /\ valued(f, row.vals)
              /\ row.leaf = record(f, row.vals, nullables(f, DOMAIN row.vals), headerOf(row.version), FALSE)

RowInv == Layout /\ Index /\ Definitions /\ Row

\* The fields now are those of the version now.
LEMMA FieldsNow ==
  ASSUME Layout
  PROVE  asOf(fields, version)
<1>1. Columns /\ Stored /\ Ages BY DEF Layout
<1>2. PICK f : f = fields OBVIOUS
<1>3. f \in Seq(Column) /\ \A k \in 1 .. Len(f) : f[k] \in ToSet(columns) BY <1>1, <1>2, Fields
<1>4. \A k \in 1 .. Len(f) : f[k].VersionAdded <= version /\ f[k].VersionDropped <= version
  BY <1>1, <1>3 DEF Ages, aged
<1>5. later(f, f, version) BY <1>3, Reflexive
<1> QED BY <1>2, <1>3, <1>4, <1>5 DEF asOf

\* They stay those of their version when the table is altered.
LEMMA AsOfStep ==
  ASSUME Layout, Layout', version' >= version, later(fields, fields', version),
         NEW v \in 0 .. version, NEW f, asOf(f, v)
  PROVE  asOf(f, v)'
<1>1. fields \in Seq(Column) BY Fields DEF Layout
<1>2. version \in Nat BY RowFormatAssumption DEF Layout, Columns
<1>3. fields' \in Seq(Column) BY NewFields
<1>4. PICK g : g = fields OBVIOUS
<1>5. PICK h : h = fields' OBVIOUS
<1>6. g \in Seq(Column) /\ h \in Seq(Column) /\ later(g, h, version) BY <1>1, <1>3, <1>4, <1>5
<1>7. f \in Seq(Column) /\ later(f, g, v) BY <1>4 DEF asOf
<1>8. v \in Nat /\ v <= version BY <1>2
<1>9. later(f, h, v) BY <1>2, <1>6, <1>7, <1>8, Transitive
<1> QED BY <1>5, <1>9 DEF asOf

\* How much of a column of fixed length an element has.
fixedAt(e, c) == IF e.Length # Whole /\ e.Length < c.Fixed THEN e.Length ELSE c.Fixed

\* The columns of the index are columns of the table.
LEMMA SecondaryCols ==
  ASSUME Layout, Index, elements # <<>>, NEW i \in 1 .. 2
  PROVE  /\ secondaryCols[i] \in Column /\ DOMAIN secondaryCols = 1 .. 2
         /\ \E k \in 1 .. Len(fields) :
              /\ fields[k].name = elements[i].name /\ fields[k].VersionDropped = 0
              /\ column(elements[i].name) = fields[k]
              /\ secondaryCols[i] = [fields[k] EXCEPT !.Fixed = fixedAt(elements[i], fields[k])]
<1>1. /\ Len(elements) = 2 /\ DOMAIN elements = 1 .. 2 /\ elements[i].Length \in PrefixLengths \cup {Whole}
      /\ \E k \in 1 .. Len(fields) : fields[k].name = elements[i].name /\ fields[k].VersionDropped = 0
  BY DEF Index
<1>2. PICK k \in 1 .. Len(fields) : fields[k].name = elements[i].name /\ fields[k].VersionDropped = 0
  BY <1>1
<1>3. PICK c : c = fields[k] OBVIOUS
<1>4. c \in ToSet(columns) /\ c \in Column BY <1>3, Fields DEF Layout
<1>5. column(elements[i].name) = c BY <1>2, <1>3, <1>4, ColumnIs DEF Layout
<1>6. PICK e : e = elements[i] OBVIOUS
<1>7. secondaryCols[i] = [c EXCEPT !.Fixed = fixedAt(e, c)] BY <1>1, <1>5, <1>6 DEF secondaryCols, fixedAt
<1>8. fixedAt(e, c) \in Nat
  <2>1. e.Length = Whole \/ e.Length \in Nat BY <1>1, <1>6, RowFormatAssumption
  <2>2. c.Fixed \in Nat BY <1>4 DEF Column
  <2> QED BY <2>1, <2>2 DEF fixedAt
<1>9. secondaryCols[i] \in Column
  <2>1. PICK n \in Nat : n = fixedAt(e, c) BY <1>8
  <2> QED BY <1>4, <1>7, <2>1 DEF Column
<1>10. DOMAIN secondaryCols = 1 .. 2 BY <1>1 DEF secondaryCols
<1> QED BY <1>2, <1>3, <1>5, <1>6, <1>7, <1>9, <1>10

\* A column has moved by nothing.
LEMMA Unmoved ==
  ASSUME NEW c \in Column
  PROVE  moved(c, c)
BY DEF moved, Column

\* Tables read now.
LEMMA DefinitionsNow ==
  ASSUME Layout, Index, defs' = buildTable, UNCHANGED <<columns, physical, version, elements, row>>
  PROVE  Definitions'
<1>1. /\ buildTable.clustered = [Cols |-> fields, NUniqueInTree |-> 1]
      /\ buildTable.secondary = [Cols |-> secondaryCols, NUniqueInTree |-> Len(secondaryCols)]
      /\ buildTable.version = version
  BY BuildTable
<1>2. asOf(fields, version) BY FieldsNow
<1>3. fields' = fields BY DEF fields, column
<1>4. version \in 0 .. version BY RowFormatAssumption DEF Layout, Columns
<1>5. /\ defs'.version = version /\ defs'.clustered.Cols = fields /\ defs'.clustered.NUniqueInTree = 1
      /\ defs'.secondary.Cols = secondaryCols /\ defs'.secondary.NUniqueInTree = Len(secondaryCols)
  BY <1>1
<1>6. asOf(fields, version)' BY <1>2, <1>3 DEF asOf
<1>7. asOf(defs.clustered.Cols, defs.version)' BY <1>3, <1>5, <1>6 DEF asOf
<1>8. secondaryCols' = secondaryCols BY DEF secondaryCols, column
<1>9. CASE elements = <<>>
  <2>1. secondaryCols = <<>> BY <1>9 DEF secondaryCols
  <2> QED BY <1>4, <1>5, <1>7, <2>1 DEF Definitions
<1>10. CASE elements # <<>>
  <2>1. Len(elements) = 2 BY <1>10 DEF Index
  <2>2. DOMAIN secondaryCols = 1 .. 2
    <3>1. 1 \in 1 .. 2 OBVIOUS
    <3> QED BY <1>10, <3>1, SecondaryCols
  <2>3. \A i \in 1 .. 2 : secondaryCols[i] \in Column BY <1>10, SecondaryCols
  <2>4. \A i \in 1 .. 2 : moved(secondaryCols[i], secondaryCols[i]) BY <2>3, Unmoved
  <2>5. secondaryCols \in Seq(Column)
    <3>1. PICK q : q = secondaryCols OBVIOUS
    <3>2. q = [i \in 1 .. 2 |-> q[i]] BY <2>2, <3>1 DEF secondaryCols
    <3>3. q \in [1 .. 2 -> Column] BY <2>3, <3>1, <3>2
    <3>4. PICK n \in Nat : n = 2 OBVIOUS
    <3>5. q \in [1 .. n -> Column] BY <3>3, <3>4
    <3>6. q \in Seq(Column) BY <3>5
    <3> QED BY <3>1, <3>6
  <2> QED BY <1>4, <1>5, <1>7, <1>8, <2>1, <2>2, <2>4, <2>5 DEF Definitions
<1> QED BY <1>9, <1>10

\* A new table has the columns of its CREATE TABLE, no row and no secondary index.
LEMMA InitInv == Init => RowInv
<1> SUFFICES ASSUME Init PROVE RowInv OBVIOUS
<1>1. Layout BY InitLayout
<1>2. elements = <<>> /\ row = NULL /\ defs = buildTable BY DEF Init
<1>3. Index BY <1>2 DEF Index
<1>4. /\ buildTable.clustered = [Cols |-> fields, NUniqueInTree |-> 1]
      /\ buildTable.secondary = [Cols |-> secondaryCols, NUniqueInTree |-> Len(secondaryCols)]
      /\ buildTable.version = version
  BY <1>1, BuildTable
<1>5. asOf(fields, version) BY <1>1, FieldsNow
<1>6. version \in 0 .. version BY <1>1, RowFormatAssumption DEF Layout, Columns
<1>7. secondaryCols = <<>> BY <1>2 DEF secondaryCols
<1>8. Definitions
  <2>1. /\ defs.version = version /\ defs.clustered.Cols = fields /\ defs.clustered.NUniqueInTree = 1
        /\ defs.secondary.Cols = secondaryCols /\ defs.secondary.NUniqueInTree = Len(secondaryCols)
    BY <1>2, <1>4
  <2> QED BY <1>5, <1>6, <1>7, <2>1 DEF Definitions
<1> QED BY <1>1, <1>2, <1>3, <1>8 DEF RowInv, Row

\* The table altered, and none of the columns of its index.
LEMMA AlterStep ==
  ASSUME RowInv, Layout', later(fields, fields', version), version' = version + 1,
         UNCHANGED <<elements, row, defs>>,
         \A k \in 1 .. Len(fields) :
           (\E i \in DOMAIN elements : elements[i].name = fields[k].name) => moved(fields[k], fields'[k])
  PROVE  RowInv'
<1>0. Layout /\ Index /\ Definitions /\ Row BY DEF RowInv
<1>1. version \in Nat /\ version' >= version /\ \A v \in 0 .. version : v \in 0 .. version'
  <2>1. version \in Nat BY <1>0, RowFormatAssumption DEF Layout, Columns
  <2> QED BY <2>1
<1>2. \A f : \A v \in 0 .. version : asOf(f, v) => asOf(f, v)' BY <1>0, <1>1, AsOfStep
<1>3. PICK g : g = fields OBVIOUS
<1>4. PICK h : h = fields' OBVIOUS
<1>5. Len(g) \in Nat /\ Len(h) \in Nat /\ Len(g) <= Len(h) /\ \A k \in 1 .. Len(g) : g[k] \in Column
  <2>1. g \in Seq(Column) BY <1>0, <1>3, Fields DEF Layout
  <2>3. h \in Seq(Column) BY <1>4, NewFields
  <2> QED BY <1>3, <1>4, <2>1, <2>3 DEF later
<1>6. ASSUME elements # <<>>, NEW i \in 1 .. 2
      PROVE  \E k \in 1 .. Len(g) :
               /\ k \in 1 .. Len(h) /\ g[k].name = elements[i].name /\ g[k].VersionDropped = 0
               /\ moved(g[k], h[k]) /\ column(elements[i].name) = g[k]
               /\ secondaryCols[i] = [g[k] EXCEPT !.Fixed = fixedAt(elements[i], g[k])]
  <2>1. PICK k \in 1 .. Len(g) :
          /\ g[k].name = elements[i].name /\ g[k].VersionDropped = 0
          /\ column(elements[i].name) = g[k]
          /\ secondaryCols[i] = [g[k] EXCEPT !.Fixed = fixedAt(elements[i], g[k])]
    BY <1>0, <1>3, <1>6, SecondaryCols
  <2>2. i \in DOMAIN elements BY <1>0, <1>6 DEF Index
  <2>3. moved(g[k], h[k]) BY <1>3, <1>4, <2>1, <2>2
  <2>4. k \in 1 .. Len(h) BY <1>5
  <2> QED BY <2>1, <2>3, <2>4
<1>8. Index'
  <2>1. CASE elements = <<>> BY <2>1 DEF Index
  <2>2. CASE elements # <<>>
    <3>1. ASSUME NEW i \in 1 .. 2
          PROVE  \E k \in 1 .. Len(h) : h[k].name = elements[i].name /\ h[k].VersionDropped = 0
      <4>1. PICK k \in 1 .. Len(g) :
              /\ k \in 1 .. Len(h) /\ g[k].name = elements[i].name /\ g[k].VersionDropped = 0
              /\ moved(g[k], h[k])
        BY <1>6, <2>2
      <4>2. h[k].name = g[k].name /\ h[k].VersionDropped = g[k].VersionDropped
        BY <1>5, <4>1 DEF moved, Column
      <4> QED BY <4>1, <4>2
    <3> QED BY <1>0, <1>4, <2>2, <3>1 DEF Index
  <2> QED BY <2>1, <2>2
<1>9. Definitions'
  <2>1. defs.version \in 0 .. version /\ asOf(defs.clustered.Cols, defs.version) BY <1>0 DEF Definitions
  <2>2. asOf(defs.clustered.Cols, defs.version)' BY <1>2, <2>1 DEF asOf
  <2>3. CASE defs.secondary.Cols = <<>> BY <1>0, <1>1, <2>1, <2>2, <2>3 DEF Definitions
  <2>4. CASE defs.secondary.Cols # <<>>
    <3>1. /\ Len(elements) = 2 /\ DOMAIN defs.secondary.Cols = 1 .. 2
          /\ defs.secondary.Cols \in Seq(Column)
          /\ \A i \in 1 .. 2 : moved(secondaryCols[i], defs.secondary.Cols[i])
      BY <1>0, <2>4 DEF Definitions
    <3>2. elements # <<>>
      <4>1. SUFFICES ASSUME elements = <<>> PROVE FALSE OBVIOUS
      <4>2. Len(elements) = 0 BY <4>1
      <4> QED BY <3>1, <4>2
    <3>3. DOMAIN elements = 1 .. 2 BY <1>0, <3>2 DEF Index
    <3>4. ASSUME NEW i \in 1 .. 2 PROVE moved(secondaryCols'[i], defs.secondary.Cols[i])
      <4>1. PICK k \in 1 .. Len(g) :
              /\ k \in 1 .. Len(h) /\ g[k].name = elements[i].name
              /\ moved(g[k], h[k]) /\ secondaryCols[i] = [g[k] EXCEPT !.Fixed = fixedAt(elements[i], g[k])]
        BY <1>6, <3>2
      <4>2. g[k] \in Column /\ h[k].name = g[k].name /\ h[k].Fixed = g[k].Fixed
        BY <1>5, <4>1 DEF moved, Column
      <4>3. h[k].name = elements[i].name BY <4>1, <4>2
      <4>4. column(elements[i].name)' = h[k]
        <5>1. h[k] \in ToSet(columns') BY <1>4, <4>1, NewFields
        <5>2. columns' \in Seq(Column) /\ distinct(columns') BY DEF Layout, Columns
        <5>3. columns'[CHOOSE j \in DOMAIN columns' : columns'[j].name = h[k].name] = h[k]
          BY <5>1, <5>2, ColumnOf
        <5> QED BY <4>3, <5>3 DEF column
      <4>5. secondaryCols'[i] = [h[k] EXCEPT !.Fixed = fixedAt(elements[i], h[k])]
        BY <3>3, <4>4 DEF secondaryCols, fixedAt
      <4>6. fixedAt(elements[i], h[k]) = fixedAt(elements[i], g[k]) BY <4>2 DEF fixedAt
      <4>7. PICK n : n = fixedAt(elements[i], g[k]) OBVIOUS
      <4>8. PICK d : d = defs.secondary.Cols[i] OBVIOUS
      <4>9. moved([g[k] EXCEPT !.Fixed = n], d) BY <3>1, <4>1, <4>7, <4>8
      <4>10. moved([h[k] EXCEPT !.Fixed = n], d)
        <5>1. PICK a \in Column : a = g[k] BY <4>2
        <5>2. PICK b : b = h[k] OBVIOUS
        <5>3. moved(a, b) /\ moved([a EXCEPT !.Fixed = n], d) BY <4>1, <4>9, <5>1, <5>2
        <5> QED BY <5>2, <5>3 DEF moved, Column
      <4> QED BY <4>5, <4>6, <4>7, <4>8, <4>10
    <3> QED BY <1>0, <1>1, <2>1, <2>2, <3>1, <3>4 DEF Definitions
  <2> QED BY <2>3, <2>4
<1>10. Row'
  <2>1. ASSUME row # NULL
        PROVE  /\ row.version \in 0 .. version
               /\ \E f : /\ asOf(f, row.version) /\ valued(f, row.vals)
                         /\ row.leaf = record(f, row.vals, nullables(f, DOMAIN row.vals), headerOf(row.version), FALSE)
    BY <1>0, <2>1 DEF Row
  <2>2. ASSUME row # NULL
        PROVE  \E f : /\ asOf(f, row.version)' /\ valued(f, row.vals)
                      /\ row.leaf = record(f, row.vals, nullables(f, DOMAIN row.vals), headerOf(row.version), FALSE)
    <3>1. PICK f : /\ asOf(f, row.version) /\ valued(f, row.vals)
                   /\ row.leaf = record(f, row.vals, nullables(f, DOMAIN row.vals), headerOf(row.version), FALSE)
      BY <2>1, <2>2
    <3>2. row.version \in 0 .. version BY <2>1, <2>2
    <3>3. PICK v : v = row.version OBVIOUS
    <3>4. asOf(f, v)' BY <1>2, <3>1, <3>2, <3>3
    <3>5. asOf(f, row.version)' BY <3>3, <3>4 DEF asOf
    <3> QED BY <3>1, <3>5
  <2>3. row # NULL => row.version \in 0 .. version' BY <1>1, <2>1
  <2> QED BY <2>2, <2>3 DEF Row
<1> QED BY <1>8, <1>9, <1>10 DEF RowInv

\* The rows of the first fields.
rowsOf == CHOOSE f : f = [i \in 0 .. Len(fields) |-> IF i = 0 THEN {<<>>} ELSE widened(f[i - 1], fields[i])]

\* The rows of the first fields are defined: the recursion is on a number.
LEMMA RowsOfDef ==
  ASSUME Len(fields) \in Nat
  PROVE  rowsOf = [i \in 0 .. Len(fields) |-> IF i = 0 THEN {<<>>} ELSE widened(rowsOf[i - 1], fields[i])]
<1>0. PICK N \in Nat : N = Len(fields) OBVIOUS
<1> DEFINE start == {<<>>}
           step(S, i) == widened(S, fields[i])
           upTo(f, n) == f = [i \in 0 .. N |-> IF i = 0 \/ i > n THEN start ELSE step(f[i - 1], i)]
           P == {n \in 0 .. N : \E f : upTo(f, n)}
<1> HIDE DEF step, start
<1>1. 0 \in P
  <2> DEFINE f == [i \in 0 .. N |-> start]
  <2>1. upTo(f, 0) OBVIOUS
  <2> QED BY <2>1
<1>2. ASSUME NEW n \in 1 .. N, n - 1 \in P PROVE n \in P
  <2>1. PICK f : upTo(f, n - 1) BY <1>2
  <2> DEFINE g == [i \in 0 .. N |-> IF i = n THEN step(f[n - 1], n) ELSE f[i]]
  <2>2. \A k \in 0 .. N : g[k] = IF k = 0 \/ k > n THEN start ELSE step(g[k - 1], k)
    <3> TAKE k \in 0 .. N
    <3>1. f[k] = IF k = 0 \/ k > n - 1 THEN start ELSE step(f[k - 1], k) BY <2>1
    <3>2. CASE k = 0 \/ k > n BY <3>1, <3>2
    <3>3. CASE k \in 1 .. n
      <4>1. k - 1 \in 0 .. N /\ k - 1 # n BY <3>3
      <4>2. g[k - 1] = f[k - 1] BY <4>1
      <4> QED BY <3>1, <3>3, <4>2
    <3> QED BY <3>2, <3>3
  <2>3. g = [k \in 0 .. N |-> g[k]] OBVIOUS
  <2>4. upTo(g, n)
    <3> HIDE DEF g
    <3> QED BY <2>2, <2>3
  <2> HIDE DEF upTo
  <2> QED BY <2>4
<1>3. \A n \in 0 .. N : n \in P
  <2> HIDE DEF P
  <2> QED BY <1>1, <1>2, Upward
<1>4. N \in P
  <2> HIDE DEF P
  <2> QED BY <1>3
<1>5. PICK f : upTo(f, N) BY <1>4
<1>6. \A i \in 0 .. N : (i = 0 \/ i > N) <=> i = 0 OBVIOUS
<1>7. f = [i \in 0 .. N |-> IF i = 0 THEN start ELSE step(f[i - 1], i)] BY <1>5, <1>6
<1>8. f = [i \in 0 .. Len(fields) |-> IF i = 0 THEN {<<>>} ELSE widened(f[i - 1], fields[i])]
  BY <1>0, <1>7 DEF step, start
<1> QED BY <1>8 DEF rowsOf

\* A row has a value of each field that is not dropped.
LEMMA RowsAre ==
  ASSUME Layout, NEW vals \in rows
  PROVE  valued(fields, vals)
<1>0. Columns /\ Stored BY DEF Layout
<1>1. PICK N \in Nat : N = Len(fields) BY <1>0, Fields
<1>2. PICK f : f = fields OBVIOUS
<1>3. distinct(f) /\ f \in Seq(Column) BY <1>0, <1>2, Fields
<1>4. \A j, k \in 1 .. N : f[j].name = f[k].name => j = k BY <1>1, <1>2, <1>3 DEF distinct
<1>5. rowsOf[0] = {<<>>} /\ \A i \in 1 .. N : rowsOf[i] = widened(rowsOf[i - 1], f[i])
  <2>1. PICK r : r = rowsOf OBVIOUS
  <2>2. r = [i \in 0 .. N |-> IF i = 0 THEN {<<>>} ELSE widened(r[i - 1], f[i])]
    BY <1>1, <1>2, <2>1, RowsOfDef
  <2>3. r[0] = {<<>>} BY <2>2
  <2>4. ASSUME NEW i \in 1 .. N PROVE r[i] = widened(r[i - 1], f[i])
    <3>1. i \in 0 .. N /\ i # 0 OBVIOUS
    <3> QED BY <2>2, <3>1
  <2> QED BY <2>1, <2>3, <2>4
<1> DEFINE has(v, i) ==
             /\ DOMAIN v = {f[k].name : k \in {k \in 1 .. i : f[k].VersionDropped = 0}}
             /\ \A k \in 1 .. i : f[k].VersionDropped = 0 => v[f[k].name] \in values(f[k])
           P == {i \in 0 .. N : \A v \in rowsOf[i] : has(v, i)}
<1>6. 0 \in P
  <2>1. \A v \in rowsOf[0] : has(v, 0) BY <1>5
  <2> HIDE DEF has
  <2> QED BY <2>1
<1>7. ASSUME NEW i \in 1 .. N, i - 1 \in P PROVE i \in P
  <2>0. \A v \in rowsOf[i - 1] : has(v, i - 1) BY <1>7
  <2>1. ASSUME NEW v \in rowsOf[i] PROVE has(v, i)
    <3>0. rowsOf[i] = widened(rowsOf[i - 1], f[i]) BY <1>5
    <3>1. CASE f[i].VersionDropped # 0
      <4>0. v \in rowsOf[i - 1]
        <5> HIDE DEF has, P
        <5> QED BY <3>0, <3>1 DEF widened
      <4>1. has(v, i - 1)
        <5> HIDE DEF has
        <5> QED BY <2>0, <4>0
      <4>2. \A k \in 1 .. i : f[k].VersionDropped = 0 => k \in 1 .. i - 1 BY <3>1
      <4>3. {k \in 1 .. i : f[k].VersionDropped = 0} = {k \in 1 .. i - 1 : f[k].VersionDropped = 0}
        BY <4>2
      <4> QED BY <4>1, <4>2, <4>3
    <3>2. CASE f[i].VersionDropped = 0
      <4>1. PICK u \in rowsOf[i - 1], x \in values(f[i]) : v = with(u, f[i].name, x)
        <5>1. rowsOf[i] = {with(u, f[i].name, x) : u \in rowsOf[i - 1], x \in values(f[i])}
          BY <3>0, <3>2 DEF widened
        <5>2. v \in {with(u, f[i].name, x) : u \in rowsOf[i - 1], x \in values(f[i])} BY <5>1
        <5> HIDE DEF has
        <5> QED BY <5>2
      <4>2. has(u, i - 1) BY <2>0
      <4>3. DOMAIN v = DOMAIN u \cup {f[i].name} BY <4>1 DEF with
      <4>4. v[f[i].name] = x BY <4>1 DEF with
      <4>5. ASSUME NEW k \in 1 .. i - 1, f[k].VersionDropped = 0 PROVE v[f[k].name] \in values(f[k])
        <5>1. f[k].name # f[i].name
          <6>1. k \in 1 .. N /\ k # i OBVIOUS
          <6> QED BY <1>4, <6>1
        <5>2. f[k].name \in DOMAIN u BY <4>2, <4>5
        <5>3. v[f[k].name] = u[f[k].name] BY <4>1, <5>1, <5>2 DEF with
        <5> QED BY <4>2, <4>5, <5>3
      <4>6. \A k \in 1 .. i : k \in 1 .. i - 1 \/ k = i OBVIOUS
      <4>7. \A k \in 1 .. i : f[k].VersionDropped = 0 => v[f[k].name] \in values(f[k])
        BY <4>4, <4>5, <4>6
      <4>8. DOMAIN v = {f[k].name : k \in {k \in 1 .. i : f[k].VersionDropped = 0}}
        <5>1. i \in {k \in 1 .. i : f[k].VersionDropped = 0} BY <3>2
        <5>2. {k \in 1 .. i - 1 : f[k].VersionDropped = 0} \cup {i} = {k \in 1 .. i : f[k].VersionDropped = 0}
          BY <4>6, <5>1
        <5>3. DOMAIN u = {f[k].name : k \in {k \in 1 .. i - 1 : f[k].VersionDropped = 0}} BY <4>2
        <5> QED BY <4>3, <5>2, <5>3
      <4> QED BY <4>7, <4>8
    <3> QED BY <3>1, <3>2
  <2> HIDE DEF has
  <2> QED BY <2>1
<1>8. \A i \in 0 .. N : i \in P
  <2> HIDE DEF P
  <2> QED BY <1>6, <1>7, Upward
<1>9. vals \in rowsOf[N] BY <1>1 DEF rows, rowsOf
<1>10. N \in P
  <2> HIDE DEF P
  <2> QED BY <1>8
<1>11. has(vals, N) BY <1>9, <1>10
<1> QED BY <1>1, <1>2, <1>11 DEF valued

\* CreateIndex leaves the columns and the row, and what a session knew is not of it.
LEMMA CreateIndexStep ==
  ASSUME RowInv, NEW c \in ToSet(columns), NEW length \in PrefixLengths, CreateIndex(c.name, length)
  PROVE  RowInv'
<1>0. Layout /\ Index /\ Definitions /\ Row BY DEF RowInv
<1>1. /\ elements = <<>> /\ c.name \notin {Key, DB_TRX_ID, Virtual} /\ column(c.name).VersionDropped = 0
      /\ elements' = <<[name |-> c.name, Length |-> length], [name |-> Key, Length |-> Whole]>>
      /\ UNCHANGED <<columns, physical, version, row, defs>>
  BY DEF CreateIndex
<1>2. fields' = fields BY <1>1 DEF fields, column
<1>3. Layout' BY <1>0, <1>1 DEF Layout, Columns, Ages, Stored, Positions
<1>4. column(c.name) = c BY <1>0, ColumnIs DEF Layout
<1>5. ~c.IsVirtual BY <1>0, <1>1 DEF Layout, Ages, aged
<1>6. PICK k \in 1 .. Len(fields) : fields[k] = c BY <1>0, <1>5, Fields DEF Layout
<1>7. \E j \in 1 .. Len(fields) : fields[j].name = Key /\ fields[j].VersionDropped = 0
  <2>1. 1 \in 1 .. Len(fields) /\ physical[1] = Key
    <3>1. Len(physical) >= 2 /\ physical[1] = Key BY <1>0 DEF Layout, Columns
    <3>2. Len(fields) = Len(physical) /\ Len(fields) \in Nat BY <1>0, Fields DEF Layout
    <3> QED BY <3>1, <3>2
  <2>2. fields[1] \in ToSet(columns) /\ fields[1].name = Key BY <1>0, <2>1, Fields DEF Layout
  <2>3. fields[1].VersionDropped = 0 BY <1>0, <2>2 DEF Layout, Ages, aged
  <2> QED BY <2>1, <2>2, <2>3
<1>8. Index'
  <2>1. PICK e : e = elements' OBVIOUS
  <2>2. Len(e) = 2 /\ DOMAIN e = 1 .. 2 BY <1>1, <2>1
  <2>3. e[1].name = c.name /\ e[1].Length = length /\ e[2].name = Key /\ e[2].Length = Whole BY <1>1, <2>1
  <2>4. \A i \in 1 .. 2 : i = 1 \/ i = 2 OBVIOUS
  <2>5. \A i \in 1 .. 2 :
          /\ e[i].Length \in PrefixLengths \cup {Whole}
          /\ \E j \in 1 .. Len(fields) : fields[j].name = e[i].name /\ fields[j].VersionDropped = 0
    BY <1>1, <1>4, <1>6, <1>7, <2>3, <2>4
  <2> QED BY <1>1, <1>2, <2>1, <2>2, <2>3, <2>5 DEF Index
<1>9. Definitions'
  <2>1. defs.secondary.Cols = <<>>
    <3>1. Len(elements) = 0 BY <1>1
    <3> QED BY <1>0, <3>1 DEF Definitions
  <2>2. asOf(defs.clustered.Cols, defs.version)' BY <1>0, <1>1, <1>2 DEF Definitions, asOf
  <2> QED BY <1>0, <1>1, <2>1, <2>2 DEF Definitions
<1>10. Row'
  <2>1. \A f : asOf(f, row.version) => asOf(f, row.version)' BY <1>1, <1>2 DEF asOf
  <2> QED BY <1>0, <1>1, <2>1 DEF Row
<1> QED BY <1>3, <1>8, <1>9, <1>10 DEF RowInv

\* WriteRow writes a record of the fields there are.
LEMMA WriteRowStep ==
  ASSUME RowInv, WriteRow
  PROVE  RowInv'
<1>0. Layout /\ Index /\ Definitions /\ Row BY DEF RowInv
<1>1. PICK vals \in rows : row' = [vals |-> vals, version |-> version, leaf |-> leafRecord(vals, version)]
  BY DEF WriteRow
<1>2. UNCHANGED <<columns, physical, version, elements, defs>> BY DEF WriteRow
<1>3. fields' = fields /\ secondaryCols' = secondaryCols BY <1>2 DEF fields, column, secondaryCols
<1>4. Layout' BY <1>0, <1>2 DEF Layout, Columns, Ages, Stored, Positions
<1>5. Index' BY <1>0, <1>2, <1>3 DEF Index
<1>6. Definitions'
  <2>1. asOf(defs.clustered.Cols, defs.version)' BY <1>0, <1>2, <1>3 DEF Definitions, asOf
  <2> QED BY <1>0, <1>2, <1>3, <2>1 DEF Definitions
<1>7. Row'
  <2>1. PICK f : f = fields OBVIOUS
  <2>2. asOf(fields, version) /\ valued(fields, vals) BY <1>0, <1>1, FieldsNow, RowsAre
  <2>3. asOf(f, version)' BY <1>2, <1>3, <2>1, <2>2 DEF asOf
  <2>4. leafRecord(vals, version) = record(f, vals, nullables(f, DOMAIN vals), headerOf(version), FALSE)
    BY <2>1 DEF leafRecord, headerOf
  <2>5. row'.vals = vals /\ row'.version = version /\ row'.leaf = leafRecord(vals, version) BY <1>1
  <2>6. asOf(f, row.version)' BY <1>2, <2>3, <2>5 DEF asOf
  <2>7. version \in 0 .. version BY <1>0, RowFormatAssumption DEF Layout, Columns
  <2>8. valued(f, row'.vals) BY <2>1, <2>2, <2>5
  <2>9. row'.leaf = record(f, row'.vals, nullables(f, DOMAIN row'.vals), headerOf(row'.version), FALSE)
    BY <2>4, <2>5
  <2>10. row'.version \in 0 .. version' BY <1>2, <2>5, <2>7
  <2> QED BY <2>6, <2>8, <2>9, <2>10 DEF Row
<1> QED BY <1>4, <1>5, <1>6, <1>7 DEF RowInv

\* ReadTables has the fields and the index there are.
LEMMA ReadTablesStep ==
  ASSUME RowInv, ReadTables
  PROVE  RowInv'
<1>0. Layout /\ Index /\ Row BY DEF RowInv
<1>1. defs' = buildTable /\ UNCHANGED <<columns, physical, version, elements, row>> BY DEF ReadTables
<1>2. Definitions' BY <1>0, <1>1, DefinitionsNow
<1>3. fields' = fields BY <1>1 DEF fields, column
<1>4. Layout' /\ Index' BY <1>0, <1>1, <1>3 DEF Layout, Columns, Ages, Stored, Positions, Index
<1>5. Row'
  <2>1. \A f : asOf(f, row.version) => asOf(f, row.version)' BY <1>1, <1>3 DEF asOf
  <2> QED BY <1>0, <1>1, <2>1 DEF Row
<1> QED BY <1>2, <1>4, <1>5 DEF RowInv

\* RowInv is of the state alone.
LEMMA StutterStep ==
  ASSUME RowInv, UNCHANGED vars
  PROVE  RowInv'
<1>0. Layout /\ Index /\ Definitions /\ Row BY DEF RowInv
<1>1. UNCHANGED <<columns, physical, version, elements, row, defs>> BY DEF vars
<1>2. fields' = fields /\ secondaryCols' = secondaryCols BY <1>1 DEF fields, column, secondaryCols
<1>3. Layout' /\ Index' BY <1>0, <1>1, <1>2 DEF Layout, Columns, Ages, Stored, Positions, Index
<1>4. Definitions'
  <2>1. asOf(defs.clustered.Cols, defs.version)' BY <1>0, <1>1, <1>2 DEF Definitions, asOf
  <2> QED BY <1>0, <1>1, <1>2, <2>1 DEF Definitions
<1>5. Row'
  <2>1. \A f : asOf(f, row.version) => asOf(f, row.version)' BY <1>1, <1>2 DEF asOf
  <2> QED BY <1>0, <1>1, <2>1 DEF Row
<1> QED BY <1>3, <1>4, <1>5 DEF RowInv

\* Every step keeps RowInv: a column added or dropped keeps the fields of every older row.
LEMMA NextInv == RowInv /\ [Next]_vars => RowInv'
<1> SUFFICES ASSUME RowInv, [Next]_vars PROVE RowInv' OBVIOUS
<1>0. Layout BY DEF RowInv
<1>1. ASSUME NEW kind \in Kinds, NEW first \in BOOLEAN, AddColumn(kind, first) PROVE RowInv'
  <2>1. /\ Layout' /\ later(fields, fields', version) /\ version' = version + 1
        /\ \A k \in 1 .. Len(fields) : moved(fields[k], fields'[k])
    BY <1>0, <1>1, AddColumnStep
  <2>2. UNCHANGED <<elements, row, defs>> BY <1>1 DEF AddColumn
  <2> QED BY <2>1, <2>2, AlterStep
<1>2. ASSUME NEW i \in DOMAIN columns, DropColumn(columns[i].name) PROVE RowInv'
  <2>1. PICK name : name = columns[i].name OBVIOUS
  <2>2. name \in {c.name : c \in ToSet(columns)} /\ DropColumn(name) BY <1>2, <2>1 DEF ToSet
  <2>3. /\ Layout' /\ later(fields, fields', version) /\ version' = version + 1
        /\ \A k \in 1 .. Len(fields) : fields[k].name # name => moved(fields[k], fields'[k])
    BY <1>0, <2>2, DropColumnStep
  <2>4. UNCHANGED <<elements, row, defs>> BY <2>2 DEF DropColumn
  <2>5. \A j \in DOMAIN elements : elements[j].name # name BY <2>2 DEF DropColumn
  <2> QED BY <2>3, <2>4, <2>5, AlterStep
<1>3. ASSUME NEW i \in DOMAIN columns, NEW length \in PrefixLengths, CreateIndex(columns[i].name, length)
      PROVE  RowInv'
  <2>1. PICK c : c = columns[i] OBVIOUS
  <2>2. c \in ToSet(columns) /\ CreateIndex(c.name, length) BY <1>3, <2>1 DEF ToSet
  <2> QED BY <2>2, CreateIndexStep
<1>4. CASE WriteRow BY <1>4, WriteRowStep
<1>5. CASE ReadTables BY <1>5, ReadTablesStep
<1>6. CASE UNCHANGED vars BY <1>6, StutterStep
<1> QED BY <1>1, <1>2, <1>3, <1>4, <1>5, <1>6 DEF Next, Server

\* The columns of the SDI, the definitions a session has and the row are always those
\* of versions of one table.
THEOREM RowInvariant == Spec => []RowInv
<1>1. Init => RowInv BY InitInv
<1>2. RowInv /\ [Next]_vars => RowInv' BY NextInv
<1> QED BY <1>1, <1>2, PTL DEF Spec

\* What a session knows of the clustered index is the first columns of it.
LEMMA InvTypes == RowInv => TypeOK
<1> SUFFICES ASSUME RowInv PROVE TypeOK OBVIOUS
<1>0. Layout /\ Definitions /\ Row BY DEF RowInv
<1>1. Columns /\ Stored BY <1>0 DEF Layout
<1>2. ToSet(physical) = {c.name : c \in {c \in ToSet(columns) : ~c.IsVirtual}}
  BY <1>1 DEF Stored, stored, ToSet
<1>3. Len(physical) = Cardinality(ToSet(physical))
  <2>1. PICK n \in Nat : n = Len(physical) /\ DOMAIN physical = 1 .. n BY <1>1 DEF Columns
  <2>2. physical \in [1 .. n -> ToSet(physical)]
    <3>1. \A i \in 1 .. n : physical[i] \in ToSet(physical) BY <2>1 DEF ToSet
    <3>2. physical = [i \in 1 .. n |-> physical[i]] BY <1>1, <2>1 DEF Columns
    <3> QED BY <3>1, <3>2
  <2>3. \A j, k \in 1 .. n : physical[j] = physical[k] => j = k BY <1>1, <2>1 DEF Columns
  <2>4. \A c \in ToSet(physical) : \E j \in 1 .. n : physical[j] = c BY <2>1 DEF ToSet
  <2>5. physical \in Bijection(1 .. n, ToSet(physical))
    BY <2>1, <2>2, <2>3, <2>4 DEF Bijection, Injection, Surjection, IsInjective
  <2>6. IsFiniteSet(1 .. n) /\ Cardinality(1 .. n) = n BY FS_Interval
  <2>7. Cardinality(ToSet(physical)) = n BY <2>5, <2>6, FS_Bijection DEF ExistsBijection
  <2> QED BY <2>1, <2>7
<1>4. ASSUME NEW i \in DOMAIN defs.clustered.Cols PROVE defs.clustered.Cols[i].name = physical[i]
  <2>1. PICK d : d = defs.clustered.Cols OBVIOUS
  <2>2. PICK f : f = fields OBVIOUS
  <2>3. d \in Seq(Column) /\ later(d, f, defs.version) BY <1>0, <2>1, <2>2 DEF Definitions, asOf
  <2>4. \A k \in 1 .. Len(f) : f[k].name = physical[k] BY <1>1, <2>2, Fields
  <2>5. i \in 1 .. Len(d) /\ i \in 1 .. Len(f)
    <3>1. Len(d) \in Nat /\ DOMAIN d = 1 .. Len(d) /\ Len(d) <= Len(f) BY <2>3 DEF later
    <3>2. Len(f) \in Nat BY <1>1, <2>2, Fields
    <3> QED BY <1>4, <2>1, <3>1, <3>2
  <2>6. d[i].name = f[i].name BY <2>3, <2>5 DEF later, grown
  <2> QED BY <2>1, <2>4, <2>5, <2>6
<1>5. version \in 0 .. Len(Added) BY <1>1 DEF Columns
<1>6. defs.version \in 0 .. version /\ defs.clustered.NUniqueInTree = 1 BY <1>0 DEF Definitions
<1>7. row # NULL => row.version \in 0 .. version BY <1>0 DEF Row
<1> QED BY <1>2, <1>3, <1>4, <1>5, <1>6, <1>7 DEF TypeOK

\* TypeOK of RowFormat.tla for every table, kind of column and sequence of ALTERs.
THEOREM RowTypes == Spec => []TypeOK
BY RowInvariant, InvTypes, PTL

-----------------------------------------------------------------------------
(* Reading what was written.                                               *)

\* A number is its quotient and its remainder.
LEMMA DivMod ==
  ASSUME NEW n \in Nat, NEW b \in Nat \ {0}
  PROVE  n \div b \in Nat /\ (n % b) \in 0 .. b - 1 /\ n = b * (n \div b) + (n % b)
<1>1. n = b * (n \div b) + (n % b) OBVIOUS
<1>2. (n % b) \in 0 .. b - 1 OBVIOUS
<1>3. n \div b \in Nat OBVIOUS
<1> QED BY <1>1, <1>2, <1>3

\* A number is not less for being multiplied.
LEMMA TimesAtLeast ==
  ASSUME NEW a \in Nat, NEW b \in Nat, b >= 1
  PROVE  a * b >= a
<1>1. PICK c \in Nat : b = c + 1
  <2>1. b - 1 \in Nat /\ b = (b - 1) + 1 OBVIOUS
  <2> QED BY <2>1
<1>2. a * (c + 1) = a * c + a OBVIOUS
<1>3. a * c \in Nat OBVIOUS
<1> QED BY <1>1, <1>2, <1>3

\* The value x is one that a column has, in a record.
fits(c, x) ==
  LET n == Len(x.bytes)
  IN  /\ x \in Value
      /\ c.Fixed > 0 => ~x.Extern /\ n = c.Fixed
      /\ c.Fixed = 0 /\ c.MaxLen < Byte => ~x.Extern /\ n < Byte
      /\ c.Fixed = 0 /\ c.MaxLen >= Byte => n < Byte * weight[Bits - 2]

\* The length of a value is in none, one or two bytes, from which it can be told.
told(c, x, n, l) ==
  /\ n \in Nat /\ l \in Seq(SUBSET (0 .. Bits - 1))
  /\ c.Fixed > 0 => l = <<>>
  /\ c.Fixed = 0 =>
       \/ /\ Len(l) = 2 /\ c.MaxLen > Byte - 1 /\ Bits - 1 \in l[1]
          /\ Bits - 2 \in l[1] <=> x.Extern
          /\ number(l[1] \ {Bits - 1, Bits - 2}) * Byte + number(l[2]) = n
       \/ /\ Len(l) = 1 /\ ~(c.MaxLen > Byte - 1 /\ Bits - 1 \in l[1])
          /\ ~x.Extern /\ number(l[1]) = n

\* lengthBytes tells the length: 6 bits of the first byte and 8 of the second are enough for
\* a value that fits, and a first byte alone never looks like one of two.
LEMMA LengthBytes ==
  ASSUME NEW c \in Column, NEW x, fits(c, x), NEW n, n = Len(x.bytes), NEW l, l = lengthBytes(c, x)
  PROVE  told(c, x, n, l)
<1>0. x \in Value BY DEF fits
<1>1. n \in Nat BY <1>0 DEF Value
<1>2. Byte \in Nat /\ Byte >= 8 /\ Byte \div 2 = weight[Bits - 1] /\ Byte = 2 * weight[Bits - 1]
      /\ Byte = 4 * weight[Bits - 2]
  BY ByteSize
<1>3. Bits \in Nat /\ Bits >= 3 /\ Bits - 1 \in 0 .. Bits - 1 /\ Bits - 2 \in 0 .. Bits - 1
  BY RowFormatAssumption
<1>4. weight[Bits - 1] \in Nat /\ weight[Bits - 2] \in Nat
  <2>1. Bits - 1 \in 0 .. Bits /\ Bits - 2 \in 0 .. Bits BY <1>3
  <2> QED BY <2>1, Weights
<1>5. c.Fixed \in Nat /\ c.MaxLen \in Nat BY DEF Column
<1> DEFINE two == c.Fixed = 0 /\ c.MaxLen >= Byte /\ (x.Extern \/ n >= Byte \div 2)
<1>6. CASE c.Fixed > 0
  <2>1. l = <<>> BY <1>6 DEF lengthBytes
  <2>2. l \in Seq(SUBSET (0 .. Bits - 1)) BY <2>1
  <2> QED BY <1>1, <1>5, <1>6, <2>1, <2>2 DEF told
<1>7. CASE two
  <2>1. n < Byte * weight[Bits - 2] BY <1>7 DEF fits
  <2>2. PICK q : q = n \div Byte OBVIOUS
  <2>3. PICK m : m = n % Byte OBVIOUS
  <2>4. q \in Nat /\ m \in 0 .. Byte - 1 /\ n = Byte * q + m
    <3>1. PICK b \in Nat \ {0} : b = Byte BY <1>2
    <3>2. n \div b \in Nat /\ (n % b) \in 0 .. b - 1 /\ n = b * (n \div b) + (n % b) BY <1>1, DivMod
    <3> HIDE DEF two
    <3> QED BY <2>2, <2>3, <3>1, <3>2
  <2>5. q < weight[Bits - 2]
    <3>1. SUFFICES ASSUME q >= weight[Bits - 2] PROVE FALSE BY <1>4, <2>4
    <3>2. Byte * q >= Byte * weight[Bits - 2] BY <1>2, <1>4, <2>4, <3>1
    <3> QED BY <1>1, <1>2, <1>4, <2>1, <2>4, <3>2
  <2>6. q \in 0 .. Byte - 1 /\ q < weight[Bits - 1] BY <1>2, <1>4, <2>4, <2>5
  <2>7. number(byteOf(q)) = q /\ byteOf(q) \in SUBSET (0 .. Bits - 1)
        /\ Bits - 1 \notin byteOf(q) /\ Bits - 2 \notin byteOf(q)
    BY <1>3, <2>5, <2>6, Bytes
  <2>8. number(byteOf(m)) = m /\ byteOf(m) \in SUBSET (0 .. Bits - 1) BY <2>4, Bytes
  <2>9. PICK b : b = byteOf(q) \cup {Bits - 1} \cup (IF x.Extern THEN {Bits - 2} ELSE {}) OBVIOUS
  <2>10. b \ {Bits - 1, Bits - 2} = byteOf(q) BY <2>7, <2>9
  <2>11. Bits - 1 \in b /\ (Bits - 2 \in b <=> x.Extern)
    <3>1. Bits - 2 # Bits - 1 BY <1>3
    <3> QED BY <2>7, <2>9, <3>1
  <2>12. l = <<b, byteOf(m)>> BY <1>7, <2>2, <2>3, <2>9 DEF lengthBytes
  <2>13. Len(l) = 2 /\ l[1] = b /\ l[2] = byteOf(m) BY <2>12
  <2>14. number(l[1] \ {Bits - 1, Bits - 2}) * Byte + number(l[2]) = n
    <3>1. number(l[1] \ {Bits - 1, Bits - 2}) = q /\ number(l[2]) = m BY <2>7, <2>8, <2>10, <2>13
    <3>2. q * Byte + m = n BY <1>2, <2>4
    <3> QED BY <3>1, <3>2
  <2>15. c.MaxLen > Byte - 1 /\ c.Fixed = 0 BY <1>2, <1>5, <1>7
  <2>17. l \in Seq(SUBSET (0 .. Bits - 1))
    <3>1. b \in SUBSET (0 .. Bits - 1) BY <1>3, <2>7, <2>9
    <3>2. PICK T : T = SUBSET (0 .. Bits - 1) OBVIOUS
    <3>3. b \in T /\ byteOf(m) \in T BY <2>8, <3>1, <3>2
    <3> HIDE DEF two
    <3> QED BY <2>12, <3>2, <3>3
  <2>16. Bits - 1 \in l[1] /\ (Bits - 2 \in l[1] <=> x.Extern) BY <2>11, <2>13
  <2> HIDE DEF two
  <2> QED BY <1>1, <2>13, <2>14, <2>15, <2>16, <2>17 DEF told
<1>8. CASE c.Fixed = 0 /\ ~two
  <2>1. l = <<byteOf(n)>> BY <1>8 DEF lengthBytes
  <2>2. Len(l) = 1 /\ l[1] = byteOf(n) BY <2>1
  <2>3. ~x.Extern BY <1>2, <1>5, <1>8 DEF fits
  <2>4. n < Byte /\ (c.MaxLen > Byte - 1 => n < weight[Bits - 1])
    <3>1. CASE c.MaxLen < Byte BY <1>1, <1>2, <1>5, <1>8, <3>1 DEF fits
    <3>2. CASE c.MaxLen >= Byte BY <1>1, <1>2, <1>4, <1>5, <1>8, <3>2
    <3> QED BY <1>2, <1>5, <3>1, <3>2
  <2>5. n \in 0 .. Byte - 1 BY <1>1, <1>2, <2>4
  <2>8. l \in Seq(SUBSET (0 .. Bits - 1))
    <3>1. byteOf(n) \in SUBSET (0 .. Bits - 1) BY <2>5, Bytes
    <3>2. PICK T : T = SUBSET (0 .. Bits - 1) OBVIOUS
    <3> HIDE DEF two
    <3> QED BY <2>1, <3>1, <3>2
  <2>6. number(byteOf(n)) = n /\ (n < weight[Bits - 1] => Bits - 1 \notin byteOf(n)) BY <1>3, <2>5, Bytes
  <2>7. ~(c.MaxLen > Byte - 1 /\ Bits - 1 \in l[1]) BY <2>2, <2>4, <2>6
  <2> HIDE DEF two
  <2> QED BY <1>1, <1>8, <2>2, <2>3, <2>6, <2>7, <2>8 DEF told
<1> QED BY <1>5, <1>6, <1>7, <1>8

Field == [Name : Name, Value : Value \cup {NULL, Default}]
State == [nullByte : Nat, nullBit : Nat, lens : Nat, Extra : Nat, pos : Nat, Fields : Seq(Field)]

\* t is s with the field of d shown, and size and length more bytes read.
showing(s, t, d, value, size, length) ==
  /\ t \in State
  /\ t.nullByte = s.nullByte /\ t.nullBit = s.nullBit
  /\ t.lens = s.lens + size /\ t.Extra = s.Extra + size /\ t.pos = s.pos + length
  /\ t.Fields = Append(s.Fields, [Name |-> d.name, Value |-> value])

\* What readValue and readField show of a column.
LEMMA Showing ==
  ASSUME NEW s \in State, NEW d \in Column, NEW value \in Value \cup {NULL, Default},
         NEW size \in Nat, NEW length \in Nat, NEW t,
         t = [show(s, d, value) EXCEPT !.lens = @ + size, !.Extra = @ + size, !.pos = @ + length]
  PROVE  showing(s, t, d, value, size, length)
<1>1. PICK f : f = Append(s.Fields, [Name |-> d.name, Value |-> value]) OBVIOUS
<1>2. s.Fields \in Seq(Field) BY DEF State
<1>3. [Name |-> d.name, Value |-> value] \in Field
  <2>1. d.name \in Name BY DEF Column
  <2> QED BY <2>1 DEF Field
<1>4. f \in Seq(Field) BY <1>1, <1>2, <1>3, AppendProperties
<1>5. show(s, d, value) = [s EXCEPT !.Fields = f] BY <1>1 DEF show
<1>6. t = [[s EXCEPT !.Fields = f] EXCEPT !.lens = @ + size, !.Extra = @ + size, !.pos = @ + length]
  BY <1>5
<1>7. t \in State
  <2>1. PICK a \in Nat : a = s.lens + size BY DEF State
  <2>2. PICK b \in Nat : b = s.Extra + size BY DEF State
  <2>3. PICK c \in Nat : c = s.pos + length BY DEF State
  <2>4. t = [s EXCEPT !.Fields = f, !.lens = a, !.Extra = b, !.pos = c] BY <1>6, <2>1, <2>2, <2>3 DEF State
  <2> QED BY <1>4, <2>4 DEF State
<1>8. t.nullByte = s.nullByte /\ t.nullBit = s.nullBit /\ t.Fields = f BY <1>6 DEF State
<1>9. t.lens = s.lens + size /\ t.Extra = s.Extra + size /\ t.pos = s.pos + length BY <1>6 DEF State
<1> QED BY <1>1, <1>7, <1>8, <1>9 DEF showing

\* A value is read as it was written.
LEMMA ValueRead ==
  ASSUME NEW d \in Column, NEW x, fits(d, x), NEW l, l = lengthBytes(d, x), NEW r, NEW s \in State,
         \A q \in 1 .. Len(l) : headerByte(r, s.lens + q - 1) = l[q],
         slice(r, s.pos, Len(x.bytes)) = x.bytes
  PROVE  showing(s, readValue(r, s, d), d, x, Len(l), Len(x.bytes))
<1>0. PICK n : n = Len(x.bytes) OBVIOUS
<1>1. /\ n \in Nat /\ (d.Fixed > 0 => l = <<>>)
      /\ d.Fixed = 0 =>
           \/ /\ Len(l) = 2 /\ d.MaxLen > Byte - 1 /\ Bits - 1 \in l[1]
              /\ Bits - 2 \in l[1] <=> x.Extern
              /\ number(l[1] \ {Bits - 1, Bits - 2}) * Byte + number(l[2]) = n
           \/ /\ Len(l) = 1 /\ ~(d.MaxLen > Byte - 1 /\ Bits - 1 \in l[1])
              /\ ~x.Extern /\ number(l[1]) = n
  <2>1. told(d, x, n, l) BY <1>0, LengthBytes
  <2> QED BY <2>1 DEF told
<1>2. x \in Value /\ x = [Extern |-> x.Extern, bytes |-> x.bytes] /\ x.Extern \in BOOLEAN
  BY DEF fits, Value
<1>3. s.lens \in Nat BY DEF State
<1>4. d.Fixed \in Nat BY DEF Column
<1> DEFINE first == headerByte(r, s.lens)
           long   == d.MaxLen > Byte - 1 /\ Bits - 1 \in first
           size   == IF d.Fixed > 0 THEN 0 ELSE IF long THEN 2 ELSE 1
           length == CASE size = 0 -> d.Fixed
                       [] size = 1 -> number(first)
                       [] size = 2 -> number(first \ {Bits - 1, Bits - 2}) * Byte
                                        + number(headerByte(r, s.lens + 1))
           value  == [Extern |-> size = 2 /\ Bits - 2 \in first, bytes |-> slice(r, s.pos, length)]
<1>5. readValue(r, s, d) =
        [show(s, d, value) EXCEPT !.lens = @ + size, !.Extra = @ + size, !.pos = @ + length]
  BY DEF readValue
<1>6. size = Len(l) /\ length = n /\ ((size = 2 /\ Bits - 2 \in first) <=> x.Extern)
  <2>1. CASE d.Fixed > 0
    <3>1. Len(l) = 0 BY <1>1, <2>1
    <3>2. size = 0 BY <2>1
    <3>3. length = d.Fixed BY <3>2
    <3>4. ~x.Extern /\ n = d.Fixed BY <1>0, <2>1 DEF fits
    <3> QED BY <3>1, <3>2, <3>3, <3>4
  <2>2. ASSUME d.Fixed = 0, Len(l) = 2, d.MaxLen > Byte - 1, Bits - 1 \in l[1],
               Bits - 2 \in l[1] <=> x.Extern,
               number(l[1] \ {Bits - 1, Bits - 2}) * Byte + number(l[2]) = n
        PROVE  size = Len(l) /\ length = n /\ ((size = 2 /\ Bits - 2 \in first) <=> x.Extern)
    <3>1. 1 \in 1 .. Len(l) /\ 2 \in 1 .. Len(l) BY <2>2
    <3>2. s.lens + 1 - 1 = s.lens /\ s.lens + 2 - 1 = s.lens + 1 BY <1>3
    <3>3. first = l[1] /\ headerByte(r, s.lens + 1) = l[2] BY <3>1, <3>2
    <3>4. long BY <2>2, <3>3
    <3>5. size = 2 BY <2>2, <3>4
    <3> HIDE DEF size, long, first
    <3>6. length = number(first \ {Bits - 1, Bits - 2}) * Byte + number(headerByte(r, s.lens + 1)) BY <3>5
    <3>7. length = n BY <2>2, <3>3, <3>6
    <3> HIDE DEF length
    <3> QED BY <2>2, <3>3, <3>5, <3>7
  <2>3. ASSUME d.Fixed = 0, Len(l) = 1, ~(d.MaxLen > Byte - 1 /\ Bits - 1 \in l[1]), ~x.Extern, number(l[1]) = n
        PROVE  size = Len(l) /\ length = n /\ ((size = 2 /\ Bits - 2 \in first) <=> x.Extern)
    <3>1. 1 \in 1 .. Len(l) BY <2>3
    <3>2. s.lens + 1 - 1 = s.lens BY <1>3
    <3>3. first = l[1] BY <3>1, <3>2
    <3>4. ~long BY <2>3, <3>3
    <3>5. size = 1 BY <2>3, <3>4
    <3> HIDE DEF size, long, first
    <3>6. length = number(first) BY <3>5
    <3>7. length = n BY <2>3, <3>3, <3>6
    <3> HIDE DEF length
    <3> QED BY <2>3, <3>5, <3>7
  <2>4. d.Fixed > 0 \/ d.Fixed = 0 BY <1>4
  <2> HIDE DEF size, length, first
  <2> QED BY <1>1, <2>1, <2>2, <2>3, <2>4
<1>7. size \in Nat OBVIOUS
<1> HIDE DEF size, length, first, long
<1>8. value = x
  <2>1. slice(r, s.pos, length) = x.bytes BY <1>0, <1>6
  <2>2. (size = 2 /\ Bits - 2 \in first) = x.Extern BY <1>2, <1>6
  <2>3. value = [Extern |-> x.Extern, bytes |-> x.bytes] BY <2>1, <2>2
  <2> HIDE DEF value
  <2> QED BY <1>2, <2>3
<1> HIDE DEF value
<1>9. readValue(r, s, d) = [show(s, d, x) EXCEPT !.lens = @ + size, !.Extra = @ + size, !.pos = @ + length]
  BY <1>5, <1>8
<1>10. showing(s, readValue(r, s, d), d, x, size, length) BY <1>1, <1>2, <1>6, <1>7, <1>9, Showing
<1> QED BY <1>0, <1>6, <1>10

\* What a record has of its first columns.
storedOf(cols, vals) ==
  CHOOSE f : f = [i \in 0 .. Len(cols) |->
                    IF i = 0 THEN [lens |-> <<>>, data |-> <<>>] ELSE written(f[i - 1], cols[i], vals)]

\* What is stored of the first columns is defined: the recursion is on a number.
LEMMA StoredOfDef ==
  ASSUME NEW cols, Len(cols) \in Nat, NEW vals
  PROVE  storedOf(cols, vals) =
           [i \in 0 .. Len(cols) |->
              IF i = 0 THEN [lens |-> <<>>, data |-> <<>>]
              ELSE written(storedOf(cols, vals)[i - 1], cols[i], vals)]
<1>0. PICK N \in Nat : N = Len(cols) OBVIOUS
<1> DEFINE start == [lens |-> <<>>, data |-> <<>>]
           step(x, i) == written(x, cols[i], vals)
           upTo(f, n) == f = [i \in 0 .. N |-> IF i = 0 \/ i > n THEN start ELSE step(f[i - 1], i)]
           P == {n \in 0 .. N : \E f : upTo(f, n)}
<1> HIDE DEF step, start
<1>1. 0 \in P
  <2> DEFINE f == [i \in 0 .. N |-> start]
  <2>1. upTo(f, 0) OBVIOUS
  <2> QED BY <2>1
<1>2. ASSUME NEW n \in 1 .. N, n - 1 \in P PROVE n \in P
  <2>1. PICK f : upTo(f, n - 1) BY <1>2
  <2> DEFINE g == [i \in 0 .. N |-> IF i = n THEN step(f[n - 1], n) ELSE f[i]]
  <2>2. \A k \in 0 .. N : g[k] = IF k = 0 \/ k > n THEN start ELSE step(g[k - 1], k)
    <3> TAKE k \in 0 .. N
    <3>1. f[k] = IF k = 0 \/ k > n - 1 THEN start ELSE step(f[k - 1], k) BY <2>1
    <3>2. CASE k = 0 \/ k > n BY <3>1, <3>2
    <3>3. CASE k \in 1 .. n
      <4>1. k - 1 \in 0 .. N /\ k - 1 # n BY <3>3
      <4>2. g[k - 1] = f[k - 1] BY <4>1
      <4> QED BY <3>1, <3>3, <4>2
    <3> QED BY <3>2, <3>3
  <2>3. g = [k \in 0 .. N |-> g[k]] OBVIOUS
  <2>4. upTo(g, n)
    <3> HIDE DEF g
    <3> QED BY <2>2, <2>3
  <2> HIDE DEF upTo
  <2> QED BY <2>4
<1>3. \A n \in 0 .. N : n \in P
  <2> HIDE DEF P
  <2> QED BY <1>1, <1>2, Upward
<1>4. N \in P
  <2> HIDE DEF P
  <2> QED BY <1>3
<1>5. PICK f : upTo(f, N) BY <1>4
<1>6. \A i \in 0 .. N : (i = 0 \/ i > N) <=> i = 0 OBVIOUS
<1>7. f = [i \in 0 .. N |-> IF i = 0 THEN start ELSE step(f[i - 1], i)] BY <1>5, <1>6
<1>8. f = [i \in 0 .. Len(cols) |->
             IF i = 0 THEN [lens |-> <<>>, data |-> <<>>] ELSE written(f[i - 1], cols[i], vals)]
  BY <1>0, <1>7 DEF step, start
<1> QED BY <1>8 DEF storedOf

\* What is stored of the first columns, column by column.
LEMMA StoredStep ==
  ASSUME NEW cols, Len(cols) \in Nat, NEW vals
  PROVE  /\ storedOf(cols, vals)[0] = [lens |-> <<>>, data |-> <<>>]
         /\ \A i \in 1 .. Len(cols) :
              storedOf(cols, vals)[i] = written(storedOf(cols, vals)[i - 1], cols[i], vals)
<1>1. PICK N \in Nat : N = Len(cols) OBVIOUS
<1>2. PICK f : f = storedOf(cols, vals) OBVIOUS
<1>3. f = [i \in 0 .. N |->
             IF i = 0 THEN [lens |-> <<>>, data |-> <<>>] ELSE written(f[i - 1], cols[i], vals)]
  BY <1>1, <1>2, StoredOfDef
<1>4. f[0] = [lens |-> <<>>, data |-> <<>>] BY <1>3
<1>5. ASSUME NEW i \in 1 .. N PROVE f[i] = written(f[i - 1], cols[i], vals)
  <2>1. i \in 0 .. N /\ i # 0 OBVIOUS
  <2> QED BY <1>3, <2>1
<1> QED BY <1>1, <1>2, <1>4, <1>5

\* s begins with f.
begins(f, s) == Len(f) <= Len(s) /\ \A q \in 1 .. Len(f) : s[q] = f[q]

Datum == ToSet(names) \cup {Default}
Stock == [lens : Seq(SUBSET (0 .. Bits - 1)), data : Seq(Datum)]

\* A definition d of the column c of a table, and what vals may have of it.
alike(c, d) ==
  /\ d.name = c.name /\ (d.Nullable <=> c.Nullable) /\ d.MaxLen = c.MaxLen
  /\ d.Fixed > 0 <=> c.Fixed > 0

held(d, vals) ==
  d.name \in DOMAIN vals => \/ vals[d.name] = NULL /\ d.Nullable
                            \/ fits(d, vals[d.name])

\* A value that fits is not NULL.
LEMMA Fitting ==
  ASSUME NEW d, NEW x, fits(d, x)
  PROVE  x # NULL /\ x \in Value
BY RowFormatAssumption DEF fits

\* A definition and its column have the same length bytes.
LEMMA AlikeLengths ==
  ASSUME NEW c \in Column, NEW d \in Column, alike(c, d), NEW x
  PROVE  lengthBytes(c, x) = lengthBytes(d, x)
<1>1. c.Fixed \in Nat /\ d.Fixed \in Nat BY DEF Column
<1>2. (c.Fixed = 0 <=> d.Fixed = 0) /\ c.MaxLen = d.MaxLen BY <1>1 DEF alike
<1>3. CASE d.Fixed > 0 BY <1>3 DEF lengthBytes, alike
<1>4. CASE d.Fixed = 0 BY <1>1, <1>2, <1>4 DEF lengthBytes
<1> QED BY <1>1, <1>3, <1>4

\* A column adds its value to a record.
adds(s, t, l, bytes) == t.lens = s.lens \o l /\ t.data = s.data \o bytes

\* written adds nothing for NULL, and the length and the bytes of any other value.
LEMMA WrittenIs ==
  ASSUME NEW c \in Column, NEW d \in Column, alike(c, d), NEW vals, held(d, vals),
         NEW s \in Stock, NEW t, t = written(s, c, vals)
  PROVE  /\ t \in Stock
         /\ d.name \notin DOMAIN vals \/ vals[d.name] = NULL => t = s
         /\ d.name \in DOMAIN vals /\ vals[d.name] # NULL =>
              adds(s, t, lengthBytes(d, vals[d.name]), vals[d.name].bytes)
<1>0. d.name = c.name BY DEF alike
<1>1. CASE d.name \notin DOMAIN vals \/ vals[d.name] = NULL BY <1>0, <1>1 DEF written
<1>2. CASE d.name \in DOMAIN vals /\ vals[d.name] # NULL
  <2>1. PICK x : x = vals[d.name] OBVIOUS
  <2>2. fits(d, x) /\ x \in Value
    <3>1. fits(d, x) BY <1>2, <2>1 DEF held
    <3> QED BY <3>1, Fitting
  <2>3. PICK l : l = lengthBytes(d, x) OBVIOUS
  <2>4. told(d, x, Len(x.bytes), l) BY <2>2, <2>3, LengthBytes
  <2>5. l \in Seq(SUBSET (0 .. Bits - 1)) BY <2>4 DEF told
  <2>6. lengthBytes(c, x) = l BY <2>3, AlikeLengths
  <2>7. t = [s EXCEPT !.lens = @ \o l, !.data = @ \o x.bytes] BY <1>0, <1>2, <2>1, <2>6 DEF written
  <2>8. x.bytes \in Seq(Datum) BY <2>2 DEF Value, Datum
  <2>9. PICK T : T = SUBSET (0 .. Bits - 1) OBVIOUS
  <2>10. PICK a : a = s.lens \o l OBVIOUS
  <2>11. PICK b : b = s.data \o x.bytes OBVIOUS
  <2>14. a \in Seq(T)
    <3>1. PICK s1 : s1 = s.lens OBVIOUS
    <3>2. s1 \in Seq(T) /\ l \in Seq(T) BY <2>5, <2>9, <3>1 DEF Stock
    <3> QED BY <2>10, <3>1, <3>2, Concat
  <2>15. b \in Seq(Datum)
    <3>1. PICK s1 : s1 = s.data OBVIOUS
    <3>2. PICK x1 : x1 = x.bytes OBVIOUS
    <3>3. s1 \in Seq(Datum) BY <3>1 DEF Stock
    <3>4. x1 \in Seq(Datum) BY <2>8, <3>2
    <3>5. b = s1 \o x1 BY <2>11, <3>1, <3>2
    <3> QED BY <3>3, <3>4, <3>5, Concat
  <2>12. t = [s EXCEPT !.lens = a, !.data = b] BY <2>7, <2>10, <2>11
  <2>13. t \in Stock /\ t.lens = a /\ t.data = b BY <2>9, <2>12, <2>14, <2>15 DEF Stock
  <2> QED BY <1>2, <2>1, <2>3, <2>10, <2>11, <2>13 DEF adds
<1> QED BY <1>1, <1>2

\* D defines the columns that vals was written with, the first of them.
related(cols, D, vals) ==
  /\ cols \in Seq(Column) /\ D \in Seq(Column) /\ Len(cols) <= Len(D)
  /\ \A i \in 1 .. Len(cols) : alike(cols[i], D[i]) /\ held(D[i], vals)

shownNull(d, vals) == d.name \notin DOMAIN vals \/ vals[d.name] = NULL

\* The same, of the columns of a record.
LEMMA StockStep ==
  ASSUME NEW cols, NEW D, NEW vals, related(cols, D, vals), NEW st, st = storedOf(cols, vals),
         NEW i \in 1 .. Len(cols), st[i - 1] \in Stock
  PROVE  /\ st[i] \in Stock
         /\ shownNull(D[i], vals) => st[i] = st[i - 1]
         /\ ~shownNull(D[i], vals) =>
              adds(st[i - 1], st[i], lengthBytes(D[i], vals[D[i].name]), vals[D[i].name].bytes)
<1>1. Len(cols) \in Nat /\ cols[i] \in Column /\ D[i] \in Column BY DEF related
<1>2. alike(cols[i], D[i]) /\ held(D[i], vals) BY DEF related
<1>3. st[i] = written(st[i - 1], cols[i], vals) BY <1>1, StoredStep
<1>4. PICK c \in Column : c = cols[i] BY <1>1
<1>5. PICK d \in Column : d = D[i] BY <1>1
<1>6. PICK u \in Stock : u = st[i - 1] OBVIOUS
<1>7. PICK t : t = st[i] OBVIOUS
<1>8. alike(c, d) /\ held(d, vals) /\ t = written(u, c, vals) BY <1>2, <1>3, <1>4, <1>5, <1>6, <1>7
<1>9. /\ t \in Stock
      /\ d.name \notin DOMAIN vals \/ vals[d.name] = NULL => t = u
      /\ d.name \in DOMAIN vals /\ vals[d.name] # NULL =>
           adds(u, t, lengthBytes(d, vals[d.name]), vals[d.name].bytes)
  BY <1>8, WrittenIs
<1> QED BY <1>5, <1>6, <1>7, <1>9 DEF shownNull

\* What is stored is bytes.
LEMMA StockTypes ==
  ASSUME NEW cols, NEW D, NEW vals, related(cols, D, vals), NEW st, st = storedOf(cols, vals)
  PROVE  \A i \in 0 .. Len(cols) : st[i] \in Stock
<1>1. PICK m \in Nat : m = Len(cols) BY DEF related
<1> DEFINE P == {i \in 0 .. m : st[i] \in Stock}
<1>2. 0 \in P
  <2>1. st[0] = [lens |-> <<>>, data |-> <<>>] BY <1>1, StoredStep
  <2>2. PICK T : T = SUBSET (0 .. Bits - 1) OBVIOUS
  <2>3. <<>> \in Seq(T) /\ <<>> \in Seq(Datum) OBVIOUS
  <2>4. st[0] \in [lens : Seq(T), data : Seq(Datum)] BY <2>1, <2>3
  <2>5. st[0] \in Stock BY <2>2, <2>4 DEF Stock
  <2> QED BY <1>1, <2>5
<1>3. ASSUME NEW i \in 1 .. m, i - 1 \in P PROVE i \in P
  <2>1. st[i] \in Stock BY <1>1, <1>3, StockStep
  <2> QED BY <2>1
<1>4. \A i \in 0 .. m : i \in P
  <2> HIDE DEF P
  <2> QED BY <1>2, <1>3, Upward
<1> QED BY <1>1, <1>4

\* A sequence begins with what it was made to begin with.
LEMMA BeginsConcat ==
  ASSUME NEW T, NEW f \in Seq(T), NEW g \in Seq(T), NEW h, h = f \o g
  PROVE  /\ begins(f, h) /\ Len(h) = Len(f) + Len(g)
         /\ \A q \in 1 .. Len(g) : h[Len(f) + q] = g[q]
<1>1. Len(h) = Len(f) + Len(g) /\ \A q \in 1 .. Len(f) : h[q] = f[q] BY Concat
<1>2. \A q \in 1 .. Len(g) : h[Len(f) + q] = g[q] BY Concat
<1>3. Len(f) \in Nat /\ Len(g) \in Nat OBVIOUS
<1> QED BY <1>1, <1>2, <1>3 DEF begins

\* What a beginning begins with, the whole begins with.
LEMMA BeginsTwice ==
  ASSUME NEW f, NEW g, NEW h, Len(f) \in Nat, Len(g) \in Nat, Len(h) \in Nat, begins(f, g), begins(g, h)
  PROVE  begins(f, h)
BY DEF begins

\* What a record has of its first columns it begins with.
LEMMA Stocks ==
  ASSUME NEW cols, NEW D, NEW vals, related(cols, D, vals), NEW st, st = storedOf(cols, vals),
         NEW i \in 0 .. Len(cols)
  PROVE  begins(st[i].lens, st[Len(cols)].lens) /\ begins(st[i].data, st[Len(cols)].data)
<1>1. PICK m \in Nat : m = Len(cols) BY DEF related
<1>2. \A j \in 0 .. m : st[j] \in Stock BY <1>1, StockTypes
<1> DEFINE P == {j \in 0 .. m : j < i \/ (begins(st[i].lens, st[j].lens) /\ begins(st[i].data, st[j].data))}
<1>3. \A j \in 0 .. m : Len(st[j].lens) \in Nat /\ Len(st[j].data) \in Nat BY <1>2 DEF Stock
<1>4. begins(st[i].lens, st[i].lens) /\ begins(st[i].data, st[i].data) BY <1>1, <1>3 DEF begins
<1>5. 0 \in P
  <2>1. CASE i = 0 BY <1>4, <2>1
  <2>2. CASE i > 0 BY <2>2
  <2> QED BY <1>1, <2>1, <2>2
<1>6. ASSUME NEW j \in 1 .. m, j - 1 \in P PROVE j \in P
  <2>0. j \in 0 .. m /\ j - 1 \in 0 .. m BY <1>1
  <2>1. CASE j < i BY <2>1
  <2>2. CASE j = i BY <1>4, <2>2
  <2>3. CASE j > i
    <3>1. ~(j - 1 < i) BY <1>1, <2>3
    <3>2. begins(st[i].lens, st[j - 1].lens) /\ begins(st[i].data, st[j - 1].data) BY <1>6, <3>1
    <3>3. begins(st[j - 1].lens, st[j].lens) /\ begins(st[j - 1].data, st[j].data)
      <4>1. CASE shownNull(D[j], vals)
        <5>1. st[j] = st[j - 1] BY <1>1, <1>2, <2>0, <4>1, StockStep
        <5> HIDE DEF P
        <5> QED BY <1>3, <2>0, <5>1 DEF begins
      <4>2. CASE ~shownNull(D[j], vals)
        <5>0. PICK x : x = vals[D[j].name] OBVIOUS
        <5>1. adds(st[j - 1], st[j], lengthBytes(D[j], x), x.bytes)
          BY <1>1, <1>2, <2>0, <4>2, <5>0, StockStep
        <5>2. fits(D[j], x) BY <1>1, <4>2, <5>0 DEF related, held, shownNull
        <5>3. PICK l : l = lengthBytes(D[j], x) OBVIOUS
        <5>4. PICK T : T = SUBSET (0 .. Bits - 1) OBVIOUS
        <5>5. l \in Seq(T)
          <6>1. D[j] \in Column BY <1>1 DEF related
          <6>2. told(D[j], x, Len(x.bytes), l) BY <5>2, <5>3, <6>1, LengthBytes
          <6> QED BY <5>4, <6>2 DEF told
        <5>6. st[j - 1].lens \in Seq(T) /\ st[j - 1].data \in Seq(Datum) BY <1>2, <2>0, <5>4 DEF Stock
        <5>7. PICK b : b = x.bytes OBVIOUS
        <5>8. b \in Seq(Datum) BY <5>2, <5>7, Fitting DEF Value, Datum
        <5>9. PICK s1 \in Seq(T) : s1 = st[j - 1].lens BY <5>6
        <5>10. PICK s2 \in Seq(Datum) : s2 = st[j - 1].data BY <5>6
        <5>11. PICK t1 : t1 = st[j].lens OBVIOUS
        <5>12. PICK t2 : t2 = st[j].data OBVIOUS
        <5>13. t1 = s1 \o l /\ t2 = s2 \o b BY <5>1, <5>3, <5>7, <5>9, <5>10, <5>11, <5>12 DEF adds
        <5>14. begins(s1, t1) BY <5>5, <5>13, BeginsConcat
        <5>15. begins(s2, t2) BY <5>8, <5>13, BeginsConcat
        <5> QED BY <5>9, <5>10, <5>11, <5>12, <5>14, <5>15
      <4> QED BY <4>1, <4>2
    <3>4. begins(st[i].lens, st[j].lens)
      <4> HIDE DEF P
      <4> QED BY <1>1, <1>3, <2>0, <3>2, <3>3, BeginsTwice
    <3>5. begins(st[i].data, st[j].data)
      <4> HIDE DEF P
      <4> QED BY <1>1, <1>3, <2>0, <3>2, <3>3, BeginsTwice
    <3> QED BY <2>0, <3>4, <3>5
  <2> QED BY <1>1, <2>1, <2>2, <2>3
<1>7. \A j \in 0 .. m : j \in P
  <2> HIDE DEF P
  <2> QED BY <1>5, <1>6, Upward
<1>8. m \in P
  <2> HIDE DEF P
  <2> QED BY <1>7
<1> QED BY <1>1, <1>8

\* The column i takes a null bit.
bitted(cols, vals, i) == cols[i].Nullable /\ cols[i].name \in DOMAIN vals

\* The null bits are in the order of the columns that have one.
LEMMA NullPlaces ==
  ASSUME NEW cols, NEW vals, NEW m \in Nat
  PROVE  /\ nullPos(cols, vals, 1) = 0
         /\ \A i \in 1 .. m + 1 : nullPos(cols, vals, i) \in Nat
         /\ \A i, k \in 1 .. m + 1 : i <= k => nullPos(cols, vals, i) <= nullPos(cols, vals, k)
         /\ \A i \in 1 .. m :
              nullPos(cols, vals, i + 1) =
                nullPos(cols, vals, i) + (IF bitted(cols, vals, i) THEN 1 ELSE 0)
<1> DEFINE S(i) == {j \in 1 .. i - 1 : bitted(cols, vals, j)}
<1>1. \A i \in 1 .. m + 1 : nullPos(cols, vals, i) = Cardinality(S(i)) BY DEF nullPos, bitted
<1>2. ASSUME NEW i \in 1 .. m + 1 PROVE IsFiniteSet(S(i)) /\ Cardinality(S(i)) \in Nat
  <2>1. IsFiniteSet(1 .. i - 1) BY FS_Interval
  <2>2. IsFiniteSet(S(i)) BY <2>1, FS_Subset
  <2> HIDE DEF S
  <2> QED BY <2>2, FS_CardinalityType
<1>3. S(1) = {} OBVIOUS
<1>4. ASSUME NEW i \in 1 .. m + 1, NEW k \in 1 .. m + 1, i <= k
      PROVE  Cardinality(S(i)) <= Cardinality(S(k))
  <2>1. S(i) \subseteq S(k) BY <1>4
  <2> HIDE DEF S
  <2> QED BY <1>2, <2>1, FS_Subset
<1>5. ASSUME NEW i \in 1 .. m
      PROVE  Cardinality(S(i + 1)) = Cardinality(S(i)) + (IF bitted(cols, vals, i) THEN 1 ELSE 0)
  <2>0. i \in 1 .. m + 1 /\ i + 1 \in 1 .. m + 1 OBVIOUS
  <2>1. CASE bitted(cols, vals, i)
    <3>1. S(i + 1) = S(i) \cup {i} /\ i \notin S(i) BY <2>1
    <3> HIDE DEF S
    <3>2. Cardinality(S(i) \cup {i}) = Cardinality(S(i)) + 1 BY <1>2, <2>0, <3>1, FS_AddElement
    <3> QED BY <2>1, <3>1, <3>2
  <2>2. CASE ~bitted(cols, vals, i)
    <3>1. S(i + 1) = S(i) BY <2>2
    <3>2. Cardinality(S(i)) \in Nat BY <1>2, <2>0
    <3> HIDE DEF S
    <3> QED BY <2>2, <3>1, <3>2
  <2> QED BY <2>1, <2>2
<1>6. Cardinality(S(1)) = 0 BY <1>3, FS_EmptySet
<1>7. 1 \in 1 .. m + 1 /\ \A i \in 1 .. m : i \in 1 .. m + 1 /\ i + 1 \in 1 .. m + 1 OBVIOUS
<1> HIDE DEF S
<1> QED BY <1>1, <1>2, <1>4, <1>5, <1>6, <1>7

\* The null bit of a column says whether its value is NULL.
LEMMA NullBit ==
  ASSUME NEW cols, NEW D, NEW vals, related(cols, D, vals), NEW i \in 1 .. Len(cols), bitted(cols, vals, i)
  PROVE  nullPos(cols, vals, i) \in nullBits(cols, vals) <=> vals[cols[i].name] = NULL
<1>1. PICK m \in Nat : m = Len(cols) /\ DOMAIN cols = 1 .. m BY DEF related
<1>2. nullBits(cols, vals) =
        {nullPos(cols, vals, k) : k \in {k \in 1 .. m : cols[k].name \in DOMAIN vals /\ vals[cols[k].name] = NULL}}
  BY <1>1 DEF nullBits
<1>3. ASSUME vals[cols[i].name] = NULL PROVE nullPos(cols, vals, i) \in nullBits(cols, vals)
  BY <1>1, <1>2, <1>3 DEF bitted
<1>4. ASSUME nullPos(cols, vals, i) \in nullBits(cols, vals) PROVE vals[cols[i].name] = NULL
  <2>1. PICK k \in 1 .. m : /\ cols[k].name \in DOMAIN vals /\ vals[cols[k].name] = NULL
                            /\ nullPos(cols, vals, i) = nullPos(cols, vals, k)
    BY <1>2, <1>4
  <2>2. bitted(cols, vals, k)
    <3>1. alike(cols[k], D[k]) /\ held(D[k], vals) BY <1>1 DEF related
    <3>2. D[k].name \in DOMAIN vals /\ vals[D[k].name] = NULL BY <2>1, <3>1 DEF alike
    <3>3. ~fits(D[k], vals[D[k].name]) BY <3>2, Fitting
    <3>4. D[k].Nullable BY <3>1, <3>2, <3>3 DEF held
    <3> QED BY <2>1, <3>1, <3>4 DEF alike, bitted
  <2>3. /\ \A j \in 1 .. m + 1 : nullPos(cols, vals, j) \in Nat
        /\ \A j, l \in 1 .. m + 1 : j <= l => nullPos(cols, vals, j) <= nullPos(cols, vals, l)
        /\ \A j \in 1 .. m :
             nullPos(cols, vals, j + 1) =
               nullPos(cols, vals, j) + (IF bitted(cols, vals, j) THEN 1 ELSE 0)
    BY NullPlaces
  <2>4. PICK p \in Nat : p = nullPos(cols, vals, i) BY <1>1, <2>3
  <2>5. i + 1 \in 1 .. m + 1 /\ k + 1 \in 1 .. m + 1 /\ i \in 1 .. m + 1 /\ k \in 1 .. m + 1 BY <1>1
  <2>6. nullPos(cols, vals, i + 1) = p + 1 /\ nullPos(cols, vals, k + 1) = p + 1
    BY <1>1, <2>1, <2>2, <2>3, <2>4
  <2>7. ~(i < k)
    <3>1. SUFFICES ASSUME i < k PROVE FALSE OBVIOUS
    <3>2. i + 1 <= k BY <1>1, <3>1
    <3>3. nullPos(cols, vals, i + 1) <= nullPos(cols, vals, k) BY <2>3, <2>5, <3>2
    <3> QED BY <2>1, <2>4, <2>6, <3>3
  <2>8. ~(k < i)
    <3>1. SUFFICES ASSUME k < i PROVE FALSE OBVIOUS
    <3>2. k + 1 <= i BY <1>1, <3>1
    <3>3. nullPos(cols, vals, k + 1) <= nullPos(cols, vals, i) BY <2>3, <2>5, <3>2
    <3> QED BY <2>4, <2>6, <3>3
  <2>9. i = k BY <1>1, <2>7, <2>8
  <2> QED BY <2>1, <2>9
<1> QED BY <1>3, <1>4

\* What a record of cols and vals has in its header and data: the null bits from the
\* byte nulls, and the lengths from the byte first.
laid(r, cols, vals, nulls, first) ==
  LET st == storedOf(cols, vals)
      m  == Len(cols)
  IN  /\ nulls \in Nat /\ first \in Nat /\ nulls <= first /\ first >= 1
      /\ Len(r.hdr) = first - 1 + Len(st[m].lens) /\ r.data = st[m].data
      /\ \A q \in 1 .. Len(st[m].lens) : headerByte(r, first + q - 1) = st[m].lens[q]
      /\ \A j \in nulls .. first - 1 :
           headerByte(r, j) = {k \in 0 .. Bits - 1 : (j - nulls) * Bits + k \in nullBits(cols, vals)}

shaped(r, cols, vals, n, header, nodePtr) ==
  /\ (r.nodePtr <=> nodePtr) /\ (r.versioned <=> header # <<>>)
  /\ laid(r, cols, vals, Len(header) + 1, Len(header) + 1 + ((n + Bits - 1) \div Bits))
  /\ Len(header) > 0 => headerByte(r, 1) = header[1]

\* record puts the null bits after the version and the lengths after them.
LEMMA RecordShape ==
  ASSUME NEW cols, NEW D, NEW vals, related(cols, D, vals), NEW n \in Nat, NEW nodePtr \in BOOLEAN,
         NEW header \in Seq(SUBSET (0 .. Bits - 1)), NEW r, r = record(cols, vals, n, header, nodePtr)
  PROVE  shaped(r, cols, vals, n, header, nodePtr)
<1>1. PICK st : st = storedOf(cols, vals) OBVIOUS
<1>2. PICK m \in Nat : m = Len(cols) BY DEF related
<1>3. PICK T : T = SUBSET (0 .. Bits - 1) OBVIOUS
<1>4. PICK b \in Nat : b = (n + Bits - 1) \div Bits
  <2>1. PICK B \in Nat \ {0} : B = Bits BY RowFormatAssumption
  <2>2. PICK x \in Nat : x = n + B - 1 OBVIOUS
  <2>3. x \div B \in Nat BY DivMod
  <2> QED BY <2>1, <2>2, <2>3
<1> DEFINE bytes == [j \in 1 .. b |-> {k \in 0 .. Bits - 1 : (j - 1) * Bits + k \in nullBits(cols, vals)}]
<1>5. PICK nb : nb = bytes OBVIOUS
<1>6. /\ r.hdr = header \o nb \o st[m].lens /\ r.data = st[m].data
      /\ r.nodePtr = nodePtr /\ r.versioned = (header # <<>>)
  BY <1>1, <1>2, <1>4, <1>5 DEF record, storedOf
<1>7. nb \in Seq(T) /\ Len(nb) = b
  <2>1. \A j \in 1 .. b : nb[j] \in T BY <1>3, <1>5
  <2>2. nb \in [1 .. b -> T] BY <1>5, <2>1
  <2> QED BY <2>2
<1>8. PICK L \in Seq(T) : L = st[m].lens
  <2>1. st[m] \in Stock BY <1>1, <1>2, StockTypes
  <2> QED BY <1>3, <2>1 DEF Stock
<1>9. PICK front : front = header \o nb OBVIOUS
<1>10. PICK h : h = r.hdr OBVIOUS
<1>11. header \in Seq(T) BY <1>3
<1>12. /\ front \in Seq(T) /\ Len(front) = Len(header) + Len(nb)
       /\ \A q \in 1 .. Len(header) : front[q] = header[q]
       /\ \A q \in 1 .. Len(nb) : front[Len(header) + q] = nb[q]
  <2>1. nb \in Seq(T) BY <1>7
  <2>2. PICK a1 \in Seq(T) : a1 = header BY <1>11
  <2>3. PICK a2 \in Seq(T) : a2 = nb BY <2>1
  <2>4. front = a1 \o a2 BY <1>9, <2>2, <2>3
  <2>5. /\ front \in Seq(T) /\ Len(front) = Len(a1) + Len(a2)
        /\ \A q \in 1 .. Len(a1) : front[q] = a1[q]
        /\ \A q \in 1 .. Len(a2) : front[Len(a1) + q] = a2[q]
    BY <2>4, Concat
  <2> QED BY <2>2, <2>3, <2>5
<1>13. h = front \o L BY <1>6, <1>8, <1>9, <1>10
<1>14. front \in Seq(T) BY <1>12
<1>15. /\ Len(h) = Len(front) + Len(L) /\ DOMAIN h = 1 .. Len(front) + Len(L)
       /\ \A q \in 1 .. Len(front) : h[q] = front[q]
       /\ \A q \in 1 .. Len(L) : h[Len(front) + q] = L[q]
  BY <1>8, <1>13, <1>14, Concat
<1>16. PICK a \in Nat : a = Len(header) BY <1>11
<1>17. PICK l \in Nat : l = Len(L) BY <1>8
<1>18. Len(front) = a + b /\ Len(h) = a + b + l /\ DOMAIN h = 1 .. a + b + l
  BY <1>7, <1>12, <1>15, <1>16, <1>17
<1>19. PICK nulls \in Nat : nulls = a + 1 OBVIOUS
<1>20. PICK first \in Nat : first = a + 1 + b OBVIOUS
<1>21. ASSUME NEW q \in 1 .. l PROVE headerByte(r, first + q - 1) = L[q]
  <2>1. first + q - 1 = a + b + q /\ a + b + q \in 1 .. a + b + l BY <1>20
  <2> QED BY <1>10, <1>15, <1>17, <1>18, <2>1 DEF headerByte
<1>22. ASSUME NEW j \in nulls .. first - 1
       PROVE headerByte(r, j) = {k \in 0 .. Bits - 1 : (j - nulls) * Bits + k \in nullBits(cols, vals)}
  <2>1. PICK q \in 1 .. b : q = j - a BY <1>19, <1>20
  <2>2. a + q = j /\ a + q \in 1 .. a + b /\ j \in 1 .. a + b + l /\ q - 1 = j - nulls BY <1>19, <2>1
  <2>3. h[j] = nb[q] BY <1>7, <1>12, <1>15, <1>16, <1>18, <2>2
  <2>4. headerByte(r, j) = nb[q] BY <1>10, <1>18, <2>2, <2>3 DEF headerByte
  <2>5. nb[q] = {k \in 0 .. Bits - 1 : (q - 1) * Bits + k \in nullBits(cols, vals)} BY <1>5
  <2> QED BY <2>2, <2>4, <2>5
<1>23. Len(r.hdr) = first - 1 + Len(st[m].lens) BY <1>8, <1>10, <1>17, <1>18, <1>20
<1>24. laid(r, cols, vals, nulls, first)
  <2>1. nulls <= first /\ first >= 1 BY <1>19, <1>20
  <2> QED BY <1>1, <1>2, <1>6, <1>8, <1>17, <1>21, <1>22, <1>23, <2>1 DEF laid
<1>25. ASSUME a > 0 PROVE headerByte(r, 1) = header[1]
  <2>1. 1 \in 1 .. a /\ 1 \in 1 .. a + b /\ 1 \in 1 .. a + b + l BY <1>25
  <2>2. h[1] = header[1] BY <1>12, <1>15, <1>16, <1>18, <2>1
  <2> QED BY <1>10, <1>18, <2>1, <2>2 DEF headerByte
<1>26. laid(r, cols, vals, Len(header) + 1, Len(header) + 1 + ((n + Bits - 1) \div Bits))
  BY <1>4, <1>16, <1>19, <1>20, <1>24
<1> QED BY <1>6, <1>16, <1>25, <1>26 DEF shaped

\* The null bits of n columns are in as many bytes as they need.
LEMMA Room ==
  ASSUME NEW n \in Nat
  PROVE  (n + Bits - 1) \div Bits \in Nat /\ n <= ((n + Bits - 1) \div Bits) * Bits
<1>1. PICK B \in Nat \ {0} : B = Bits BY RowFormatAssumption
<1>2. PICK x \in Nat : x = n + B - 1 OBVIOUS
<1>3. PICK y \in Nat : y = x \div B BY DivMod
<1>4. PICK z \in 0 .. B - 1 : z = x % B BY DivMod
<1>5. x = B * y + z
  <2>1. x = B * (x \div B) + (x % B) BY DivMod
  <2> QED BY <1>3, <1>4, <2>1
<1>6. n <= y * B BY <1>2, <1>4, <1>5
<1> QED BY <1>1, <1>2, <1>3, <1>6

\* Where a reader is after the first j columns of a record.
placed(s, cols, vals, j, nulls, first) ==
  LET st == storedOf(cols, vals)
  IN  /\ s \in State
      /\ s.nullByte >= nulls /\ s.nullBit <= Bits
      /\ (s.nullByte - nulls) * Bits + s.nullBit = nullPos(cols, vals, j + 1)
      /\ s.lens = first + Len(st[j].lens) /\ s.Extra = first - 1 + Len(st[j].lens)
      /\ s.pos = Len(st[j].data)

\* A reader finds the null bit of a column.
nulled(r, s, t, cols, d, vals, i, nulls) ==
  /\ t \in State /\ t.lens = s.lens /\ t.Extra = s.Extra /\ t.pos = s.pos /\ t.Fields = s.Fields
  /\ t.nullByte >= nulls /\ t.nullBit <= Bits
  /\ (t.nullByte - nulls) * Bits + t.nullBit = nullPos(cols, vals, i + 1)
  /\ isNull(r, t, d) <=> vals[d.name] = NULL

\* A column of the record finds the null bit that was written for it, in the next byte when
\* one is full, and no further than the bytes there are.
LEMMA NullRead ==
  ASSUME NEW cols, NEW D, NEW vals, related(cols, D, vals), NEW i \in 1 .. Len(cols), NEW d, d = D[i],
         d.name \in DOMAIN vals, NEW r, NEW nulls, NEW first, laid(r, cols, vals, nulls, first),
         nullPos(cols, vals, Len(cols) + 1) <= (first - nulls) * Bits,
         NEW s, placed(s, cols, vals, i - 1, nulls, first)
  PROVE  nulled(r, s, nextNull(s, d), cols, d, vals, i, nulls)
<1>1. PICK m \in Nat : m = Len(cols) BY DEF related
<1>2. d \in Column /\ alike(cols[i], d) /\ held(d, vals) BY <1>1 DEF related
<1>3. s \in State BY DEF placed
<1>4. PICK B \in Nat \ {0} : B = Bits BY RowFormatAssumption
<1>5. PICK p \in Nat : p = nullPos(cols, vals, i)
  <2>1. i \in 1 .. m + 1 BY <1>1
  <2> QED BY <2>1, NullPlaces
<1>6. nulls \in Nat /\ first \in Nat /\ nulls <= first BY DEF laid
<1>7. PICK u \in Nat : u = s.nullByte BY <1>3 DEF State
<1>8. PICK w \in Nat : w = s.nullBit BY <1>3 DEF State
<1>9. u >= nulls /\ w <= B /\ (u - nulls) * B + w = p
  <2>1. i - 1 + 1 = i BY <1>1
  <2> QED BY <1>4, <1>5, <1>7, <1>8, <2>1 DEF placed
<1>10. bitted(cols, vals, i) <=> d.Nullable BY <1>2 DEF alike, bitted
<1>11. nullPos(cols, vals, i + 1) = p + (IF d.Nullable THEN 1 ELSE 0) BY <1>1, <1>5, <1>10, NullPlaces
<1>12. PICK t : t = nextNull(s, d) OBVIOUS
<1>13. CASE ~d.Nullable
  <2>1. t = s BY <1>12, <1>13 DEF nextNull
  <2>2. ~isNull(r, t, d) BY <1>13 DEF isNull
  <2>3. vals[d.name] # NULL
    <3>1. fits(d, vals[d.name]) BY <1>2, <1>13 DEF held
    <3> QED BY <3>1, Fitting
  <2>4. nullPos(cols, vals, i + 1) = p BY <1>11, <1>13
  <2> QED BY <1>3, <1>4, <1>7, <1>8, <1>9, <1>12, <2>1, <2>2, <2>3, <2>4 DEF nulled
<1>14. CASE d.Nullable
  <2>1. PICK u1 \in Nat : u1 = IF w = B THEN u + 1 ELSE u OBVIOUS
  <2>2. PICK w1 \in Nat : w1 = IF w = B THEN 1 ELSE w + 1 OBVIOUS
  <2>3. t = [s EXCEPT !.nullByte = u1, !.nullBit = w1]
    BY <1>3, <1>4, <1>7, <1>8, <1>12, <1>14, <2>1, <2>2 DEF nextNull, State
  <2>4. t \in State /\ t.lens = s.lens /\ t.Extra = s.Extra /\ t.pos = s.pos /\ t.Fields = s.Fields
        /\ t.nullByte = u1 /\ t.nullBit = w1
    BY <1>3, <2>3 DEF State
  <2>5. u1 >= nulls /\ w1 \in 1 .. B /\ (u1 - nulls) * B + w1 = p + 1
    <3>1. CASE w = B
      <4>1. (u + 1 - nulls) * B = (u - nulls) * B + B
        <5>1. PICK x \in Int : x = u - nulls BY <1>6
        <5>2. (x + 1) * B = x * B + B OBVIOUS
        <5>3. u + 1 - nulls = x + 1 BY <1>6, <5>1
        <5> QED BY <5>1, <5>2, <5>3
      <4> QED BY <1>4, <1>6, <1>9, <2>1, <2>2, <3>1, <4>1
    <3>2. CASE w # B BY <1>4, <1>6, <1>9, <2>1, <2>2, <3>2
    <3> QED BY <3>1, <3>2
  <2>6. nullPos(cols, vals, i + 1) = p + 1 BY <1>11, <1>14
  <2>7. p + 1 <= (first - nulls) * B
    <3>1. i + 1 \in 1 .. m + 1 /\ m + 1 \in 1 .. m + 1 /\ i + 1 <= m + 1 BY <1>1
    <3>2. nullPos(cols, vals, i + 1) <= nullPos(cols, vals, m + 1) BY <3>1, NullPlaces
    <3>3. nullPos(cols, vals, m + 1) \in Nat BY <3>1, NullPlaces
    <3>4. PICK o \in Nat : o = nullPos(cols, vals, m + 1) BY <3>3
    <3>5. (first - nulls) * B \in Int BY <1>6
    <3> QED BY <1>1, <1>4, <2>6, <3>2, <3>4, <3>5
  <2>8. u1 \in nulls .. first - 1
    <3>1. SUFFICES ASSUME u1 >= first PROVE FALSE BY <1>6, <2>5
    <3>2. PICK x \in Nat : x = u1 - first BY <1>6, <3>1
    <3>3. (u1 - nulls) * B = (first - nulls) * B + x * B BY <1>6, <3>2
    <3>4. x * B >= 0 OBVIOUS
    <3>5. (first - nulls) * B \in Int /\ x * B \in Int BY <1>6
    <3> QED BY <2>5, <2>7, <3>3, <3>4, <3>5
  <2>9. headerByte(r, u1) = {k \in 0 .. Bits - 1 : (u1 - nulls) * Bits + k \in nullBits(cols, vals)}
    BY <2>8 DEF laid
  <2>10. w1 - 1 \in 0 .. Bits - 1 /\ (u1 - nulls) * Bits + (w1 - 1) = p
    <3>1. PICK z \in Int : z = (u1 - nulls) * B BY <1>6
    <3>2. w1 \in 1 .. B /\ z + w1 = p + 1 BY <2>5, <3>1
    <3>3. z + (w1 - 1) = p /\ w1 - 1 \in 0 .. B - 1 BY <3>2
    <3> QED BY <1>4, <3>1, <3>3
  <2>11. w1 - 1 \in headerByte(r, u1) <=> p \in nullBits(cols, vals) BY <2>9, <2>10
  <2>12. p \in nullBits(cols, vals) <=> vals[cols[i].name] = NULL BY <1>5, <1>10, <1>14, NullBit
  <2>13. isNull(r, t, d) <=> vals[d.name] = NULL
    <3>1. isNull(r, t, d) <=> w1 - 1 \in headerByte(r, u1) BY <1>14, <2>4 DEF isNull
    <3> QED BY <1>2, <2>11, <2>12, <3>1 DEF alike
  <2> QED BY <1>4, <1>12, <2>4, <2>5, <2>6, <2>13 DEF nulled
<1> QED BY <1>13, <1>14

\* A reader takes as much of the record for a column as there is of it.
takes(s, t, d, x, st, i) ==
  \E size, length \in Nat :
    /\ showing(s, t, d, x, size, length)
    /\ Len(st[i].lens) = Len(st[i - 1].lens) + size
    /\ Len(st[i].data) = Len(st[i - 1].data) + length

\* A reader finds a value that is not NULL.
LEMMA StoredRead ==
  ASSUME NEW cols, NEW D, NEW vals, related(cols, D, vals), NEW i \in 1 .. Len(cols), NEW d, d = D[i],
         d.name \in DOMAIN vals, vals[d.name] # NULL, NEW r, NEW nulls, NEW first,
         laid(r, cols, vals, nulls, first), NEW s \in State, NEW st, st = storedOf(cols, vals),
         s.lens = first + Len(st[i - 1].lens), s.pos = Len(st[i - 1].data)
  PROVE  takes(s, readValue(r, s, d), d, vals[d.name], st, i)
<1>1. PICK m \in Nat : m = Len(cols) BY DEF related
<1>2. d \in Column /\ held(d, vals) BY <1>1 DEF related
<1>3. PICK x : x = vals[d.name] OBVIOUS
<1>4. fits(d, x) BY <1>2, <1>3 DEF held
<1>5. PICK T : T = SUBSET (0 .. Bits - 1) OBVIOUS
<1>6. PICK l : l = lengthBytes(d, x) OBVIOUS
<1>7. l \in Seq(T)
  <2>1. told(d, x, Len(x.bytes), l) BY <1>2, <1>4, <1>6, LengthBytes
  <2> QED BY <1>5, <2>1 DEF told
<1>8. PICK b : b = x.bytes OBVIOUS
<1>9. b \in Seq(Datum) BY <1>4, <1>8, Fitting DEF Value, Datum
<1>10. i - 1 \in 0 .. m /\ i \in 0 .. m /\ m \in 0 .. m BY <1>1
<1>11. st[i - 1] \in Stock /\ st[i] \in Stock /\ st[m] \in Stock BY <1>1, <1>10, StockTypes
<1>12. PICK s1 \in Seq(T) : s1 = st[i - 1].lens BY <1>5, <1>11 DEF Stock
<1>13. PICK s2 \in Seq(Datum) : s2 = st[i - 1].data BY <1>11 DEF Stock
<1>14. PICK t1 \in Seq(T) : t1 = st[i].lens BY <1>5, <1>11 DEF Stock
<1>15. PICK t2 \in Seq(Datum) : t2 = st[i].data BY <1>11 DEF Stock
<1>16. PICK z1 \in Seq(T) : z1 = st[m].lens BY <1>5, <1>11 DEF Stock
<1>17. PICK z2 \in Seq(Datum) : z2 = st[m].data BY <1>11 DEF Stock
<1>18. adds(st[i - 1], st[i], l, b)
  <2>1. ~shownNull(D[i], vals) BY DEF shownNull
  <2> QED BY <1>1, <1>3, <1>6, <1>8, <1>11, <2>1, StockStep
<1>19. t1 = s1 \o l /\ t2 = s2 \o b BY <1>12, <1>13, <1>14, <1>15, <1>18 DEF adds
<1>20. Len(t1) = Len(s1) + Len(l) /\ \A q \in 1 .. Len(l) : t1[Len(s1) + q] = l[q]
  BY <1>7, <1>19, BeginsConcat
<1>21. Len(t2) = Len(s2) + Len(b) /\ \A q \in 1 .. Len(b) : t2[Len(s2) + q] = b[q]
  BY <1>9, <1>19, BeginsConcat
<1>22. begins(t1, z1) /\ begins(t2, z2) BY <1>1, <1>10, <1>14, <1>15, <1>16, <1>17, Stocks
<1>23. PICK n1 \in Nat : n1 = Len(s1) OBVIOUS
<1>24. PICK n2 \in Nat : n2 = Len(s2) OBVIOUS
<1>25. PICK c1 \in Nat : c1 = Len(l) BY <1>7
<1>26. PICK c2 \in Nat : c2 = Len(b) BY <1>9
<1>27. PICK o1 \in Nat : o1 = Len(z1) OBVIOUS
<1>28. PICK o2 \in Nat : o2 = Len(z2) OBVIOUS
<1>29. first \in Nat BY DEF laid
<1>30. ASSUME NEW q \in 1 .. Len(l) PROVE headerByte(r, s.lens + q - 1) = l[q]
  <2>1. n1 + q \in 1 .. n1 + c1 /\ n1 + q \in 1 .. o1
    <3>1. n1 + c1 <= o1 BY <1>20, <1>22, <1>23, <1>25, <1>27 DEF begins
    <3> QED BY <1>25, <3>1
  <2>2. z1[n1 + q] = l[q] BY <1>20, <1>22, <1>23, <1>25, <2>1 DEF begins
  <2>3. headerByte(r, first + (n1 + q) - 1) = z1[n1 + q] BY <1>1, <1>16, <1>27, <2>1 DEF laid
  <2>4. s.lens + q - 1 = first + (n1 + q) - 1 BY <1>12, <1>23, <1>25, <1>29
  <2> QED BY <2>2, <2>3, <2>4
<1>31. slice(r, s.pos, Len(x.bytes)) = x.bytes
  <2>1. r.data = z2 BY <1>1, <1>17 DEF laid
  <2>2. DOMAIN z2 = 1 .. o2 BY <1>28
  <2>3. \A q \in 1 .. c2 : n2 + q \in 1 .. o2 /\ z2[n2 + q] = b[q]
    <3>1. n2 + c2 <= o2 BY <1>21, <1>22, <1>24, <1>26, <1>28 DEF begins
    <3>2. \A q \in 1 .. c2 : n2 + q \in 1 .. n2 + c2 /\ n2 + q \in 1 .. o2 BY <3>1
    <3>3. \A q \in 1 .. Len(t2) : z2[q] = t2[q] BY <1>22 DEF begins
    <3>4. ASSUME NEW q \in 1 .. c2 PROVE z2[n2 + q] = b[q]
      <4>1. n2 + q \in 1 .. Len(t2) BY <1>21, <1>24, <1>26, <3>2
      <4>2. t2[n2 + q] = b[q] BY <1>21, <1>24, <1>26
      <4> QED BY <3>3, <4>1, <4>2
    <3> QED BY <3>2, <3>4
  <2>4. slice(r, n2, c2) = [q \in 1 .. c2 |-> b[q]] BY <2>1, <2>2, <2>3 DEF slice
  <2>5. b = [q \in 1 .. c2 |-> b[q]]
    <3>1. PICK N : N = Datum OBVIOUS
    <3>2. b \in Seq(N) BY <1>9, <3>1
    <3>3. b \in [1 .. c2 -> N] BY <1>26, <3>2
    <3> QED BY <3>3
  <2> QED BY <1>8, <1>13, <1>24, <1>26, <2>4, <2>5
<1>32. showing(s, readValue(r, s, d), d, x, Len(l), Len(x.bytes)) BY <1>2, <1>4, <1>6, <1>30, <1>31, ValueRead
<1>33. showing(s, readValue(r, s, d), d, x, c1, c2) BY <1>8, <1>25, <1>26, <1>32
<1>34. Len(t1) = Len(s1) + c1 /\ Len(t2) = Len(s2) + c2 BY <1>20, <1>21, <1>25, <1>26
<1> QED BY <1>3, <1>12, <1>13, <1>14, <1>15, <1>33, <1>34 DEF takes

\* The fields F show the first i columns of D, those of vals and the newer ones.
shows(F, D, i, vals) ==
  /\ \A k \in DOMAIN F : F[k].Value = IF F[k].Name \in DOMAIN vals THEN vals[F[k].Name] ELSE Default
  /\ \A k \in DOMAIN F : \E j \in 1 .. i : F[k].Name = D[j].name
  /\ \A k, l \in DOMAIN F : F[k].Name = F[l].Name => k = l
  /\ \A j \in 1 .. i : D[j].VersionDropped = 0 => \E k \in DOMAIN F : F[k].Name = D[j].name

\* A column that was dropped need not be shown.
LEMMA ShowsNot ==
  ASSUME NEW D, NEW i \in Nat \ {0}, NEW vals, NEW F, shows(F, D, i - 1, vals), D[i].VersionDropped # 0
  PROVE  shows(F, D, i, vals)
<1>1. \A j \in 1 .. i - 1 : j \in 1 .. i OBVIOUS
<1>2. \A j \in 1 .. i : j = i \/ j \in 1 .. i - 1 OBVIOUS
<1> QED BY <1>1, <1>2 DEF shows

\* The field of one more column shows it.
LEMMA ShowsNext ==
  ASSUME NEW D \in Seq(Column), distinct(D), NEW i \in 1 .. Len(D), NEW vals,
         NEW F \in Seq(Field), shows(F, D, i - 1, vals), NEW x,
         x = IF D[i].name \in DOMAIN vals THEN vals[D[i].name] ELSE Default,
         NEW G, G = Append(F, [Name |-> D[i].name, Value |-> x])
  PROVE  shows(G, D, i, vals)
<1>1. PICK f : f = [Name |-> D[i].name, Value |-> x] OBVIOUS
<1>2. f.Name = D[i].name /\ f.Value = x BY <1>1
<1>3. PICK n \in Nat : n = Len(F) /\ DOMAIN F = 1 .. n OBVIOUS
<1>4. DOMAIN G = 1 .. n + 1 /\ G[n + 1] = f /\ \A k \in 1 .. n : G[k] = F[k] BY <1>1, <1>3
<1>5. Len(D) \in Nat /\ DOMAIN D = 1 .. Len(D) OBVIOUS
<1>6. \A k \in 1 .. n + 1 : k = n + 1 \/ k \in 1 .. n BY <1>3
<1>7. \A j \in 1 .. i : j = i \/ j \in 1 .. i - 1 BY <1>5
<1>8. \A j \in 1 .. i - 1 : j \in 1 .. i /\ j \in DOMAIN D /\ j # i BY <1>5
<1>9. i \in 1 .. i /\ i \in DOMAIN D BY <1>5
<1>10. ASSUME NEW k \in 1 .. n + 1
       PROVE  G[k].Value = IF G[k].Name \in DOMAIN vals THEN vals[G[k].Name] ELSE Default
  <2>1. CASE k = n + 1 BY <1>2, <1>4, <2>1
  <2>2. CASE k \in 1 .. n
    <3>1. k \in DOMAIN F /\ G[k] = F[k] BY <1>3, <1>4, <2>2
    <3> QED BY <3>1 DEF shows
  <2> QED BY <1>6, <2>1, <2>2
<1>11. ASSUME NEW k \in 1 .. n PROVE \E j \in 1 .. i - 1 : G[k].Name = D[j].name
  <2>1. k \in DOMAIN F /\ G[k] = F[k] BY <1>3, <1>4
  <2> QED BY <2>1 DEF shows
<1>12. ASSUME NEW k \in 1 .. n + 1 PROVE \E j \in 1 .. i : G[k].Name = D[j].name
  <2>1. CASE k = n + 1 BY <1>2, <1>4, <1>9, <2>1
  <2>2. CASE k \in 1 .. n BY <1>8, <1>11, <2>2
  <2> QED BY <1>6, <2>1, <2>2
<1>13. ASSUME NEW k \in 1 .. n PROVE G[k].Name # f.Name
  <2>1. PICK j \in 1 .. i - 1 : G[k].Name = D[j].name BY <1>11
  <2>2. j \in DOMAIN D /\ i \in DOMAIN D /\ j # i BY <1>8, <1>9
  <2>3. D[j].name # D[i].name BY <2>2 DEF distinct
  <2> QED BY <1>2, <2>1, <2>3
<1>14. ASSUME NEW k \in 1 .. n, NEW l \in 1 .. n, G[k].Name = G[l].Name PROVE k = l
  <2>1. k \in DOMAIN F /\ l \in DOMAIN F BY <1>3
  <2>2. F[k].Name = F[l].Name BY <1>4, <1>14
  <2> QED BY <2>1, <2>2 DEF shows
<1>15. ASSUME NEW k \in 1 .. n + 1, NEW l \in 1 .. n + 1, G[k].Name = G[l].Name PROVE k = l
  <2>1. CASE k = n + 1 /\ l \in 1 .. n BY <1>4, <1>13, <1>15, <2>1
  <2>2. CASE l = n + 1 /\ k \in 1 .. n BY <1>4, <1>13, <1>15, <2>2
  <2>3. CASE k \in 1 .. n /\ l \in 1 .. n BY <1>14, <1>15, <2>3
  <2> QED BY <1>6, <2>1, <2>2, <2>3
<1>16. ASSUME NEW j \in 1 .. i, D[j].VersionDropped = 0 PROVE \E k \in 1 .. n + 1 : G[k].Name = D[j].name
  <2>1. CASE j = i
    <3>1. n + 1 \in 1 .. n + 1 BY <1>3
    <3> QED BY <1>2, <1>4, <2>1, <3>1
  <2>2. CASE j \in 1 .. i - 1
    <3>1. PICK k \in 1 .. n : F[k].Name = D[j].name BY <1>3, <1>16, <2>2 DEF shows
    <3>2. k \in 1 .. n + 1 /\ G[k] = F[k] BY <1>3, <1>4
    <3> QED BY <3>1, <3>2
  <2> QED BY <1>7, <2>1, <2>2
<1>17. /\ \A k \in DOMAIN G : G[k].Value = IF G[k].Name \in DOMAIN vals THEN vals[G[k].Name] ELSE Default
       /\ \A k \in DOMAIN G : \E j \in 1 .. i : G[k].Name = D[j].name
  BY <1>4, <1>10, <1>12
<1>18. /\ \A k, l \in DOMAIN G : G[k].Name = G[l].Name => k = l
       /\ \A j \in 1 .. i : D[j].VersionDropped = 0 => \E k \in DOMAIN G : G[k].Name = D[j].name
  BY <1>4, <1>15, <1>16
<1> QED BY <1>17, <1>18 DEF shows

\* A field that takes nothing of the record.
LEMMA Shown ==
  ASSUME NEW s \in State, NEW d \in Column, NEW value \in Value \cup {NULL, Default},
         NEW t, t = show(s, d, value)
  PROVE  showing(s, t, d, value, 0, 0)
<1>1. PICK f : f = Append(s.Fields, [Name |-> d.name, Value |-> value]) OBVIOUS
<1>2. s.Fields \in Seq(Field) BY DEF State
<1>3. [Name |-> d.name, Value |-> value] \in Field
  <2>1. d.name \in Name BY DEF Column
  <2> QED BY <2>1 DEF Field
<1>4. f \in Seq(Field) BY <1>1, <1>2, <1>3, AppendProperties
<1>5. t = [s EXCEPT !.Fields = f] BY <1>1 DEF show
<1>6. /\ t \in State /\ t.nullByte = s.nullByte /\ t.nullBit = s.nullBit /\ t.lens = s.lens
      /\ t.Extra = s.Extra /\ t.pos = s.pos /\ t.Fields = f
  BY <1>4, <1>5 DEF State
<1>7. s.lens \in Nat /\ s.Extra \in Nat /\ s.pos \in Nat BY DEF State
<1> QED BY <1>1, <1>6, <1>7 DEF showing

\* A reader that takes nothing of a record stays where it is.
LEMMA PlacedShown ==
  ASSUME NEW s, NEW t, NEW d, NEW x, showing(s, t, d, x, 0, 0), NEW cols, NEW vals, NEW j,
         NEW nulls, NEW first, placed(s, cols, vals, j, nulls, first)
  PROVE  placed(t, cols, vals, j, nulls, first)
<1>1. s \in State /\ t \in State BY DEF placed, showing
<1>2. t.nullByte = s.nullByte /\ t.nullBit = s.nullBit /\ t.lens = s.lens /\ t.Extra = s.Extra /\ t.pos = s.pos
  BY <1>1 DEF showing, State
<1> QED BY <1>1, <1>2 DEF placed

\* The columns of a record that are among the first i of its definition.
within(cols, i) == IF i <= Len(cols) THEN i ELSE Len(cols)

\* The definition D tells the columns that vals has from those that are too old or too
\* new for version v.
readBy(r, D, v, vals, m) ==
  /\ v \in Nat /\ r.nodePtr \in BOOLEAN /\ distinct(D)
  /\ \A i \in 1 .. Len(D) :
       /\ r.nodePtr \/ presentIn(D[i], v) <=> D[i].name \in DOMAIN vals
       /\ D[i].name \in DOMAIN vals => i <= m

\* A column that the record does not have takes none of it.
LEMMA PlacedNot ==
  ASSUME NEW cols, NEW D, NEW vals, related(cols, D, vals), NEW i \in 1 .. Len(D),
         D[i].name \notin DOMAIN vals, NEW nulls, NEW first, NEW s,
         placed(s, cols, vals, within(cols, i - 1), nulls, first)
  PROVE  placed(s, cols, vals, within(cols, i), nulls, first)
<1>1. PICK m \in Nat : m = Len(cols) BY DEF related
<1>2. Len(D) \in Nat BY DEF related
<1>3. PICK st : st = storedOf(cols, vals) OBVIOUS
<1>4. CASE i > m
  <2>1. within(cols, i - 1) = m /\ within(cols, i) = m BY <1>1, <1>2, <1>4 DEF within
  <2> QED BY <2>1
<1>5. CASE i <= m
  <2>1. within(cols, i - 1) = i - 1 /\ within(cols, i) = i /\ i \in 1 .. m /\ i - 1 \in 0 .. m
    BY <1>1, <1>2, <1>5 DEF within
  <2>2. st[i] = st[i - 1]
    <3>1. st[i - 1] \in Stock BY <1>1, <1>3, <2>1, StockTypes
    <3>2. shownNull(D[i], vals) BY DEF shownNull
    <3> QED BY <1>1, <1>3, <2>1, <3>1, <3>2, StockStep
  <2>3. ~bitted(cols, vals, i)
    <3>1. alike(cols[i], D[i]) BY <1>1, <2>1 DEF related
    <3> QED BY <3>1 DEF alike, bitted
  <2>4. nullPos(cols, vals, i + 1) = nullPos(cols, vals, i)
    <3>1. nullPos(cols, vals, i + 1) = nullPos(cols, vals, i) + (IF bitted(cols, vals, i) THEN 1 ELSE 0)
      BY <1>1, <2>1, NullPlaces
    <3>2. nullPos(cols, vals, i) \in Nat
      <4>1. i \in 1 .. m + 1 BY <2>1
      <4> QED BY <4>1, NullPlaces
    <3> QED BY <2>3, <3>1, <3>2
  <2>5. i - 1 + 1 = i BY <2>1
  <2>6. placed(s, cols, vals, i - 1, nulls, first) BY <2>1
  <2>7. placed(s, cols, vals, i, nulls, first) BY <1>3, <2>2, <2>4, <2>5, <2>6 DEF placed
  <2> QED BY <2>1, <2>7
<1> QED BY <1>1, <1>2, <1>4, <1>5

\* A reader that has read the columns before i reads i.
LEMMA FieldStep ==
  ASSUME NEW cols, NEW D, NEW vals, related(cols, D, vals), NEW i \in 1 .. Len(D),
         NEW r, NEW nulls, NEW first, laid(r, cols, vals, nulls, first),
         nullPos(cols, vals, Len(cols) + 1) <= (first - nulls) * Bits,
         NEW v, readBy(r, D, v, vals, Len(cols)), NEW s,
         placed(s, cols, vals, within(cols, i - 1), nulls, first), shows(s.Fields, D, i - 1, vals),
         NEW t, t = readField(r, v, s, D[i])
  PROVE  placed(t, cols, vals, within(cols, i), nulls, first) /\ shows(t.Fields, D, i, vals)
<1>1. PICK m \in Nat : m = Len(cols) BY DEF related
<1>2. PICK d \in Column : d = D[i] BY DEF related
<1>3. D \in Seq(Column) /\ distinct(D) /\ Len(D) \in Nat BY DEF related, readBy
<1>4. s \in State /\ s.Fields \in Seq(Field) BY DEF placed, State
<1>5. PICK F \in Seq(Field) : F = s.Fields BY <1>4
<1>6. /\ v \in Nat /\ r.nodePtr \in BOOLEAN
      /\ r.nodePtr \/ presentIn(d, v) <=> d.name \in DOMAIN vals
      /\ d.name \in DOMAIN vals => i <= m
  BY <1>1, <1>2 DEF readBy
<1>7. d.VersionAdded \in Nat /\ d.VersionDropped \in Nat BY DEF Column
<1>8. CASE d.name \notin DOMAIN vals
  <2>1. ~r.nodePtr /\ ~presentIn(d, v) BY <1>6, <1>8
  <2>2. placed(s, cols, vals, within(cols, i), nulls, first) BY <1>2, <1>8, PlacedNot
  <2>3. CASE d.VersionDropped # 0 /\ d.VersionDropped <= v
    <3>0. ~(d.VersionDropped = 0 \/ d.VersionDropped > v) BY <1>6, <1>7, <2>3
    <3>1. t = s BY <1>2, <2>1, <2>3, <3>0 DEF readField
    <3>2. shows(F, D, i, vals) BY <1>2, <1>3, <1>5, <2>3, ShowsNot
    <3> QED BY <1>5, <2>2, <3>1, <3>2
  <2>4. CASE ~(d.VersionDropped # 0 /\ d.VersionDropped <= v)
    <3>1. (d.VersionDropped = 0 \/ d.VersionDropped > v) /\ d.VersionAdded > v
      BY <1>6, <1>7, <2>1, <2>4 DEF presentIn
    <3>2. t = show(s, d, Default) BY <1>2, <2>1, <2>4, <3>1 DEF readField
    <3>3. showing(s, t, d, Default, 0, 0) BY <1>4, <3>2, Shown
    <3>4. placed(t, cols, vals, within(cols, i), nulls, first) BY <2>2, <3>3, PlacedShown
    <3>5. t.Fields = Append(F, [Name |-> D[i].name, Value |-> Default]) BY <1>2, <1>5, <3>3 DEF showing
    <3>6. shows(t.Fields, D, i, vals) BY <1>2, <1>3, <1>5, <1>8, <3>5, ShowsNext
    <3> QED BY <3>4, <3>6
  <2> QED BY <2>3, <2>4
<1>9. CASE d.name \in DOMAIN vals
  <2>1. i <= m /\ i \in 1 .. m /\ i - 1 \in 0 .. m BY <1>1, <1>3, <1>6, <1>9
  <2>2. within(cols, i - 1) = i - 1 /\ within(cols, i) = i BY <1>1, <2>1 DEF within
  <2>3. placed(s, cols, vals, i - 1, nulls, first) BY <2>2
  <2>4. PICK u : u = nextNull(s, d) OBVIOUS
  <2>5. nulled(r, s, u, cols, d, vals, i, nulls) BY <1>1, <1>2, <1>9, <2>1, <2>3, <2>4, NullRead
  <2>6. /\ u \in State /\ u.lens = s.lens /\ u.Extra = s.Extra /\ u.pos = s.pos /\ u.Fields = F
        /\ isNull(r, u, d) <=> vals[d.name] = NULL
    BY <1>5, <2>5 DEF nulled
  <2>7. r.nodePtr \/ presentIn(d, v) BY <1>6, <1>9
  <2>8. r.nodePtr \/ ((d.VersionDropped = 0 \/ d.VersionDropped > v) /\ ~(d.VersionAdded > v))
    BY <1>6, <1>7, <2>7 DEF presentIn
  <2>9. r.nodePtr \/ ~(d.VersionDropped # 0 /\ d.VersionDropped <= v) BY <1>6, <1>7, <2>8
  <2>10. t = IF isNull(r, u, d) THEN show(u, d, NULL) ELSE readValue(r, u, d)
    <3>1. CASE isNull(r, u, d) BY <1>2, <2>4, <2>7, <2>8, <2>9, <3>1 DEF readField
    <3>2. CASE ~isNull(r, u, d) BY <1>2, <2>4, <2>7, <2>8, <2>9, <3>2 DEF readField
    <3> QED BY <3>1, <3>2
  <2>11. PICK st : st = storedOf(cols, vals) OBVIOUS
  <2>12. st[i - 1] \in Stock BY <1>1, <2>1, <2>11, StockTypes
  <2>13. PICK a \in Nat : a = Len(st[i - 1].lens) BY <2>12 DEF Stock
  <2>14. PICK b \in Nat : b = Len(st[i - 1].data) BY <2>12 DEF Stock
  <2>15. s.lens = first + a /\ s.Extra = first - 1 + a /\ s.pos = b
    BY <2>3, <2>11, <2>13, <2>14 DEF placed
  <2>16. PICK x : x = vals[d.name] OBVIOUS
  <2>17. \E size, length \in Nat :
           /\ showing(u, t, d, x, size, length)
           /\ Len(st[i].lens) = a + size /\ Len(st[i].data) = b + length
    <3>1. CASE x = NULL
      <4>1. t = show(u, d, NULL) BY <2>6, <2>10, <2>16, <3>1
      <4>2. showing(u, t, d, x, 0, 0) BY <2>6, <3>1, <4>1, Shown
      <4>3. shownNull(D[i], vals) BY <1>2, <2>16, <3>1 DEF shownNull
      <4>4. st[i] = st[i - 1] BY <1>1, <2>1, <2>11, <2>12, <4>3, StockStep
      <4>5. Len(st[i].lens) = a + 0 /\ Len(st[i].data) = b + 0 BY <2>13, <2>14, <4>4
      <4> QED BY <4>2, <4>5
    <3>2. CASE x # NULL
      <4>1. t = readValue(r, u, d) BY <2>6, <2>10, <2>16, <3>2
      <4>2. u.lens = first + Len(st[i - 1].lens) /\ u.pos = Len(st[i - 1].data)
        BY <2>6, <2>13, <2>14, <2>15
      <4>3. i \in 1 .. Len(cols) /\ vals[d.name] # NULL /\ u \in State BY <1>1, <2>1, <2>6, <2>16, <3>2
      <4>4. takes(u, readValue(r, u, d), d, vals[d.name], st, i)
        BY <1>2, <1>9, <2>11, <4>2, <4>3, StoredRead
      <4>5. takes(u, t, d, x, st, i) BY <2>16, <4>1, <4>4
      <4> QED BY <2>13, <2>14, <4>5 DEF takes
    <3> QED BY <3>1, <3>2
  <2>18. PICK size, length \in Nat :
           /\ showing(u, t, d, x, size, length)
           /\ Len(st[i].lens) = a + size /\ Len(st[i].data) = b + length
    BY <2>17
  <2>19. placed(t, cols, vals, i, nulls, first)
    <3>1. /\ t \in State /\ t.nullByte = u.nullByte /\ t.nullBit = u.nullBit
          /\ t.lens = u.lens + size /\ t.Extra = u.Extra + size /\ t.pos = u.pos + length
      BY <2>18 DEF showing
    <3>2. /\ t.nullByte >= nulls /\ t.nullBit <= Bits
          /\ (t.nullByte - nulls) * Bits + t.nullBit = nullPos(cols, vals, i + 1)
      BY <2>5, <3>1 DEF nulled
    <3>3. first \in Nat BY DEF laid
    <3>4. t.lens = first + (a + size) /\ t.Extra = first - 1 + (a + size) /\ t.pos = b + length
      BY <2>6, <2>15, <3>1, <3>3
    <3> QED BY <2>11, <2>18, <3>1, <3>2, <3>4 DEF placed
  <2>20. t.Fields = Append(F, [Name |-> D[i].name, Value |-> x]) BY <1>2, <2>6, <2>18 DEF showing
  <2>21. shows(t.Fields, D, i, vals) BY <1>2, <1>3, <1>5, <1>9, <2>16, <2>20, ShowsNext
  <2> QED BY <2>2, <2>19, <2>21
<1> QED BY <1>8, <1>9

\* What a reader has of the first columns of a definition.
readOf(r, v, cols, start) ==
  CHOOSE f : f = [i \in 0 .. Len(cols) |-> IF i = 0 THEN start ELSE readField(r, v, f[i - 1], cols[i])]

\* What is read of the first columns is defined: the recursion is on a number.
LEMMA ReadOfDef ==
  ASSUME NEW r, NEW v, NEW cols, Len(cols) \in Nat, NEW start
  PROVE  readOf(r, v, cols, start) =
           [i \in 0 .. Len(cols) |->
              IF i = 0 THEN start ELSE readField(r, v, readOf(r, v, cols, start)[i - 1], cols[i])]
<1>0. PICK N \in Nat : N = Len(cols) OBVIOUS
<1> DEFINE step(x, i) == readField(r, v, x, cols[i])
           upTo(f, n) == f = [i \in 0 .. N |-> IF i = 0 \/ i > n THEN start ELSE step(f[i - 1], i)]
           P == {n \in 0 .. N : \E f : upTo(f, n)}
<1> HIDE DEF step
<1>1. 0 \in P
  <2> DEFINE f == [i \in 0 .. N |-> start]
  <2>1. upTo(f, 0) OBVIOUS
  <2> QED BY <2>1
<1>2. ASSUME NEW n \in 1 .. N, n - 1 \in P PROVE n \in P
  <2>1. PICK f : upTo(f, n - 1) BY <1>2
  <2> DEFINE g == [i \in 0 .. N |-> IF i = n THEN step(f[n - 1], n) ELSE f[i]]
  <2>2. \A k \in 0 .. N : g[k] = IF k = 0 \/ k > n THEN start ELSE step(g[k - 1], k)
    <3> TAKE k \in 0 .. N
    <3>1. f[k] = IF k = 0 \/ k > n - 1 THEN start ELSE step(f[k - 1], k) BY <2>1
    <3>2. CASE k = 0 \/ k > n BY <3>1, <3>2
    <3>3. CASE k \in 1 .. n
      <4>1. k - 1 \in 0 .. N /\ k - 1 # n BY <3>3
      <4>2. g[k - 1] = f[k - 1] BY <4>1
      <4> QED BY <3>1, <3>3, <4>2
    <3> QED BY <3>2, <3>3
  <2>3. g = [k \in 0 .. N |-> g[k]] OBVIOUS
  <2>4. upTo(g, n)
    <3> HIDE DEF g
    <3> QED BY <2>2, <2>3
  <2> HIDE DEF upTo
  <2> QED BY <2>4
<1>3. \A n \in 0 .. N : n \in P
  <2> HIDE DEF P
  <2> QED BY <1>1, <1>2, Upward
<1>4. N \in P
  <2> HIDE DEF P
  <2> QED BY <1>3
<1>5. PICK f : upTo(f, N) BY <1>4
<1>6. \A i \in 0 .. N : (i = 0 \/ i > N) <=> i = 0 OBVIOUS
<1>7. f = [i \in 0 .. N |-> IF i = 0 THEN start ELSE step(f[i - 1], i)] BY <1>5, <1>6
<1>8. f = [i \in 0 .. Len(cols) |-> IF i = 0 THEN start ELSE readField(r, v, f[i - 1], cols[i])]
  BY <1>0, <1>7 DEF step
<1> QED BY <1>8 DEF readOf

\* What is read of the first columns, column by column.
LEMMA ReadSteps ==
  ASSUME NEW r, NEW v, NEW cols, Len(cols) \in Nat, NEW start, NEW f, f = readOf(r, v, cols, start)
  PROVE  /\ f[0] = start
         /\ \A i \in 1 .. Len(cols) : f[i] = readField(r, v, f[i - 1], cols[i])
<1>1. PICK N \in Nat : N = Len(cols) OBVIOUS
<1>2. f = [i \in 0 .. N |-> IF i = 0 THEN start ELSE readField(r, v, f[i - 1], cols[i])]
  BY <1>1, ReadOfDef
<1>3. f[0] = start BY <1>2
<1>4. ASSUME NEW i \in 1 .. N PROVE f[i] = readField(r, v, f[i - 1], cols[i])
  <2>1. i \in 0 .. N /\ i # 0 OBVIOUS
  <2> QED BY <1>2, <2>1
<1> QED BY <1>1, <1>3, <1>4

\* Where a reader starts.
startOf(nulls, first) ==
  [nullByte |-> nulls, nullBit |-> 0, lens |-> first, Extra |-> first - 1, pos |-> 0, Fields |-> <<>>]

\* s has all of the record r, which has vals, by the definition D.
whole(s, D, r, vals) ==
  /\ s.Fields \in Seq(Field) /\ shows(s.Fields, D, Len(D), vals)
  /\ s.Extra = Len(r.hdr) /\ s.pos = Len(r.data)

\* A reader that starts where the null bits and the lengths are reads all of a record.
LEMMA Reading ==
  ASSUME NEW cols, NEW D, NEW vals, related(cols, D, vals),
         NEW r, NEW nulls, NEW first, laid(r, cols, vals, nulls, first),
         nullPos(cols, vals, Len(cols) + 1) <= (first - nulls) * Bits,
         NEW v, readBy(r, D, v, vals, Len(cols)), NEW f, f = readOf(r, v, D, startOf(nulls, first))
  PROVE  whole(f[Len(D)], D, r, vals)
<1>1. PICK N \in Nat : N = Len(D) BY DEF related
<1>2. PICK m \in Nat : m = Len(cols) /\ m <= N BY <1>1 DEF related
<1>3. PICK start : start = startOf(nulls, first) OBVIOUS
<1>4. f[0] = start /\ \A i \in 1 .. N : f[i] = readField(r, v, f[i - 1], D[i]) BY <1>1, <1>3, ReadSteps
<1> DEFINE P == {i \in 0 .. N : /\ placed(f[i], cols, vals, within(cols, i), nulls, first)
                                /\ shows(f[i].Fields, D, i, vals)}
<1>5. 0 \in P
  <2>1. nulls \in Nat /\ first \in Nat /\ first >= 1 BY DEF laid
  <2>2. PICK e \in Nat : e = first - 1 BY <2>1
  <2>3. <<>> \in Seq(Field) OBVIOUS
  <2>4. start = [nullByte |-> nulls, nullBit |-> 0, lens |-> first, Extra |-> e, pos |-> 0, Fields |-> <<>>]
    BY <1>3, <2>2 DEF startOf
  <2>5. start \in State BY <2>1, <2>3, <2>4 DEF State
  <2>6. within(cols, 0) = 0 BY <1>2 DEF within
  <2>7. nullPos(cols, vals, 0 + 1) = 0 BY <1>2, NullPlaces
  <2>8. PICK st : st = storedOf(cols, vals) OBVIOUS
  <2>9. st[0].lens = <<>> /\ st[0].data = <<>> BY <1>2, <2>8, StoredStep
  <2>10. Len(st[0].lens) = 0 /\ Len(st[0].data) = 0 BY <2>9
  <2>11. (start.nullByte - nulls) * Bits + start.nullBit = 0
    <3>1. start.nullByte - nulls = 0 /\ start.nullBit = 0 BY <2>1, <2>4
    <3>2. 0 * Bits = 0 BY RowFormatAssumption
    <3> QED BY <3>1, <3>2
  <2>12. /\ start.nullByte >= nulls /\ start.nullBit <= Bits /\ start.lens = first + 0
         /\ start.Extra = first - 1 + 0 /\ start.pos = 0
    BY <2>1, <2>2, <2>4, RowFormatAssumption
  <2>13. placed(start, cols, vals, 0, nulls, first)
    BY <2>5, <2>7, <2>8, <2>10, <2>11, <2>12 DEF placed
  <2>14. shows(start.Fields, D, 0, vals) BY <2>4 DEF shows
  <2> QED BY <1>4, <2>6, <2>13, <2>14
<1>6. ASSUME NEW i \in 1 .. N, i - 1 \in P PROVE i \in P
  <2>1. placed(f[i - 1], cols, vals, within(cols, i - 1), nulls, first) /\ shows(f[i - 1].Fields, D, i - 1, vals)
    BY <1>6
  <2>2. f[i] = readField(r, v, f[i - 1], D[i]) BY <1>4
  <2>3. placed(f[i], cols, vals, within(cols, i), nulls, first) /\ shows(f[i].Fields, D, i, vals)
    BY <1>1, <2>1, <2>2, FieldStep
  <2> QED BY <2>3
<1>7. N \in P
  <2>1. \A i \in 0 .. N : i \in P
    <3> HIDE DEF P
    <3> QED BY <1>5, <1>6, Upward
  <2> HIDE DEF P
  <2> QED BY <2>1
<1>8. PICK s : s = f[N] OBVIOUS
<1>9. within(cols, N) = m BY <1>2 DEF within
<1>10. placed(s, cols, vals, m, nulls, first) /\ shows(s.Fields, D, N, vals) BY <1>7, <1>8, <1>9
<1>11. s.Fields \in Seq(Field) BY <1>10 DEF placed, State
<1>12. s.Extra = Len(r.hdr) /\ s.pos = Len(r.data) BY <1>2, <1>10 DEF placed, laid
<1> QED BY <1>1, <1>8, <1>10, <1>11, <1>12 DEF whole

\* What parseRec takes from a record and a definition before it reads the columns D.
taken(r, idx, v, D, n, nulls, first) ==
  /\ v = IF r.versioned THEN number(headerByte(r, 1)) ELSE 0
  /\ D = IF r.nodePtr THEN SubSeq(idx.Cols, 1, idx.NUniqueInTree) ELSE idx.Cols
  /\ n = nullableIn(idx.Cols, IF r.nodePtr THEN 0 ELSE v)
  /\ nulls = IF r.versioned THEN 2 ELSE 1
  /\ first = nulls + ((n + Bits - 1) \div Bits)

\* parseRec is the reader of all the columns that start where the record says.
LEMMA ParseIs ==
  ASSUME NEW r, NEW idx, NEW v, NEW D, NEW n \in Nat, NEW nulls, NEW first,
         taken(r, idx, v, D, n, nulls, first)
  PROVE  parseRec(r, idx) = readOf(r, v, D, startOf(nulls, first))[Len(D)]
<1>1. PICK b \in Nat : b = (n + Bits - 1) \div Bits BY Room
<1>2. nulls \in Nat /\ nulls - 1 + b = first - 1 BY <1>1 DEF taken
<1>3. startOf(nulls, first) =
        [nullByte |-> nulls, nullBit |-> 0, lens |-> nulls + ((n + Bits - 1) \div Bits),
         Extra |-> nulls - 1 + ((n + Bits - 1) \div Bits), pos |-> 0, Fields |-> <<>>]
  BY <1>1, <1>2 DEF startOf, taken
<1>4. parseRec(r, idx) =
        LET ver  == IF r.versioned THEN number(headerByte(r, 1)) ELSE 0
            from == IF r.versioned THEN 2 ELSE 1
            cols == IF r.nodePtr THEN SubSeq(idx.Cols, 1, idx.NUniqueInTree) ELSE idx.Cols
            size == (nullableIn(idx.Cols, IF r.nodePtr THEN 0 ELSE ver) + Bits - 1) \div Bits
        IN  readOf(r, ver, cols, [nullByte |-> from, nullBit |-> 0, lens |-> from + size,
                                  Extra |-> from - 1 + size, pos |-> 0, Fields |-> <<>>])[Len(cols)]
  BY DEF parseRec, readOf
<1> QED BY <1>3, <1>4 DEF taken

\* A record that a definition was made for is read whole by it.
LEMMA RecordRead ==
  ASSUME NEW cols, NEW D, NEW vals, related(cols, D, vals), NEW n \in Nat, NEW nodePtr \in BOOLEAN,
         NEW header \in Seq(SUBSET (0 .. Bits - 1)), Len(header) <= 1,
         NEW r, r = record(cols, vals, n, header, nodePtr),
         nullPos(cols, vals, Len(cols) + 1) <= n,
         NEW idx, D = IF nodePtr THEN SubSeq(idx.Cols, 1, idx.NUniqueInTree) ELSE idx.Cols,
         NEW v, v = IF Len(header) = 1 THEN number(header[1]) ELSE 0,
         n = nullableIn(idx.Cols, IF nodePtr THEN 0 ELSE v), readBy(r, D, v, vals, Len(cols))
  PROVE  whole(parseRec(r, idx), D, r, vals)
<1>1. PICK a \in Nat : a = Len(header) /\ a <= 1 OBVIOUS
<1>2. PICK b \in Nat : b = (n + Bits - 1) \div Bits /\ n <= b * Bits BY Room
<1>3. PICK nulls \in Nat : nulls = a + 1 OBVIOUS
<1>4. PICK first \in Nat : first = nulls + b OBVIOUS
<1>5. /\ (r.nodePtr <=> nodePtr) /\ (r.versioned <=> header # <<>>)
      /\ laid(r, cols, vals, nulls, first) /\ (a > 0 => headerByte(r, 1) = header[1])
  <2>1. shaped(r, cols, vals, n, header, nodePtr) BY RecordShape
  <2>2. nulls = Len(header) + 1 /\ first = Len(header) + 1 + ((n + Bits - 1) \div Bits)
    BY <1>1, <1>2, <1>3, <1>4
  <2> QED BY <1>1, <2>1, <2>2 DEF shaped
<1>6. header # <<>> <=> a = 1 BY <1>1
<1>7. nullPos(cols, vals, Len(cols) + 1) <= (first - nulls) * Bits
  <2>1. PICK o \in Nat : o = nullPos(cols, vals, Len(cols) + 1)
    <3>1. PICK m \in Nat : m = Len(cols) BY DEF related
    <3>2. m + 1 \in 1 .. m + 1 BY <3>1
    <3> QED BY <3>1, <3>2, NullPlaces
  <2>2. first - nulls = b BY <1>4
  <2>3. PICK y \in Int : y = b * Bits BY RowFormatAssumption
  <2> QED BY <1>2, <2>1, <2>2, <2>3
<1>8. v = IF r.versioned THEN number(headerByte(r, 1)) ELSE 0 BY <1>1, <1>5, <1>6
<1>9. nulls = IF r.versioned THEN 2 ELSE 1 BY <1>1, <1>3, <1>5, <1>6
<1>10. first = nulls + ((n + Bits - 1) \div Bits) BY <1>2, <1>4
<1>11. D = IF r.nodePtr THEN SubSeq(idx.Cols, 1, idx.NUniqueInTree) ELSE idx.Cols BY <1>5
<1>12. n = nullableIn(idx.Cols, IF r.nodePtr THEN 0 ELSE v) BY <1>5
<1>13. parseRec(r, idx) = readOf(r, v, D, startOf(nulls, first))[Len(D)]
  <2>1. taken(r, idx, v, D, n, nulls, first) BY <1>8, <1>9, <1>10, <1>11, <1>12 DEF taken
  <2>2. PICK D1 : D1 = D OBVIOUS
  <2>3. PICK v1 : v1 = v OBVIOUS
  <2>4. PICK n1 \in Nat : n1 = n OBVIOUS
  <2>5. taken(r, idx, v1, D1, n1, nulls, first) BY <2>1, <2>2, <2>3, <2>4
  <2>6. parseRec(r, idx) = readOf(r, v1, D1, startOf(nulls, first))[Len(D1)] BY <2>5, ParseIs
  <2> QED BY <2>2, <2>3, <2>6
<1>14. whole(readOf(r, v, D, startOf(nulls, first))[Len(D)], D, r, vals) BY <1>5, <1>7, Reading
<1> QED BY <1>13, <1>14

\* Each of the columns is one field.
LEMMA WholeReads ==
  ASSUME NEW idx, NEW r, NEW vals, Len(idx.Cols) \in Nat, DOMAIN idx.Cols = 1 .. Len(idx.Cols),
         whole(parseRec(r, idx), idx.Cols, r, vals)
  PROVE  readsAs(r, idx, vals)
<1>1. PICK F \in Seq(Field) : F = parseRec(r, idx).Fields BY DEF whole
<1>2. PICK D : D = idx.Cols OBVIOUS
<1>3. shows(F, D, Len(D), vals) /\ DOMAIN D = 1 .. Len(D) BY <1>1, <1>2 DEF whole
<1>4. ASSUME NEW i \in DOMAIN D, D[i].VersionDropped = 0
      PROVE  Cardinality({k \in DOMAIN F : F[k].Name = D[i].name}) = 1
  <2>1. PICK k \in DOMAIN F : F[k].Name = D[i].name BY <1>3, <1>4 DEF shows
  <2>2. {l \in DOMAIN F : F[l].Name = D[i].name} = {k} BY <1>3, <2>1 DEF shows
  <2> QED BY <2>2, FS_Singleton
<1>5. \A k \in DOMAIN F : F[k].Value = IF F[k].Name \in DOMAIN vals THEN vals[F[k].Name] ELSE Default
  BY <1>3 DEF shows
<1>6. parseRec(r, idx).Extra = Len(r.hdr) /\ parseRec(r, idx).pos = Len(r.data) BY DEF whole
<1> QED BY <1>1, <1>2, <1>4, <1>5, <1>6 DEF readsAs

-----------------------------------------------------------------------------
(* The definitions and the records of one table.                           *)

\* What a column takes has its length and fits it.
LEMMA Values ==
  ASSUME NEW c \in Column, NEW x \in values(c)
  PROVE  (x = NULL /\ c.Nullable) \/ fits(c, x)
<1>1. c.name \in Name /\ c.Fixed \in Nat /\ c.MaxLen \in Nat BY DEF Column
<1>2. Byte \in Nat /\ Byte >= 8 /\ Byte \div 4 = weight[Bits - 2] BY ByteSize
<1>3. \A l \in Lengths : l \in Nat /\ l < Byte * weight[Bits - 2]
  <2>1. PICK b \in Nat : b = Byte * (Byte \div 4)
    <3>1. weight[Bits - 2] \in Nat
      <4>1. Bits - 2 \in 0 .. Bits BY RowFormatAssumption
      <4> QED BY <4>1, Weights
    <3> QED BY <1>2, <3>1
  <2>2. Lengths \subseteq 0 .. b - 1 BY <2>1, RowFormatAssumption
  <2>3. b = Byte * weight[Bits - 2] BY <1>2, <2>1
  <2> QED BY <2>2, <2>3
<1> DEFINE bytes(n) == [i \in 1 .. n |-> c.name]
<1>4. ASSUME NEW n \in Nat PROVE bytes(n) \in Seq(ToSet(names) \cup {Default}) /\ Len(bytes(n)) = n
  <2>1. bytes(n) \in [1 .. n -> ToSet(names) \cup {Default}] BY <1>1 DEF Name
  <2> QED BY <2>1
<1> HIDE DEF bytes
<1>5. ASSUME NEW n \in Nat, NEW e \in BOOLEAN, x = [Extern |-> e, bytes |-> bytes(n)]
      PROVE  x \in Value /\ Len(x.bytes) = n /\ (x.Extern <=> e)
  BY <1>4, <1>5 DEF Value
<1>6. CASE \E n \in IF c.Fixed > 0 THEN {c.Fixed} ELSE {l \in Lengths : l <= c.MaxLen} :
             x = [Extern |-> FALSE, bytes |-> bytes(n)]
  <2>1. PICK n : /\ n \in IF c.Fixed > 0 THEN {c.Fixed} ELSE {l \in Lengths : l <= c.MaxLen}
                 /\ x = [Extern |-> FALSE, bytes |-> bytes(n)]
    BY <1>6
  <2>2. n \in Nat BY <1>1, <1>3, <2>1
  <2>3. x \in Value /\ Len(x.bytes) = n /\ ~x.Extern BY <1>5, <2>1, <2>2
  <2>4. c.Fixed > 0 => n = c.Fixed BY <2>1
  <2>5. c.Fixed = 0 => n \in Lengths /\ n <= c.MaxLen BY <2>1
  <2>6. c.Fixed = 0 /\ c.MaxLen < Byte => n < Byte BY <1>1, <1>2, <2>2, <2>5
  <2>7. c.Fixed = 0 => n < Byte * weight[Bits - 2] BY <1>3, <2>5
  <2> QED BY <2>3, <2>4, <2>6, <2>7 DEF fits
<1>7. CASE \E n \in {l \in Lengths : l >= FIELD_REF_SIZE /\ c.Fixed = 0 /\ c.MaxLen > Byte - 1} :
             x = [Extern |-> TRUE, bytes |-> bytes(n)]
  <2>1. PICK n \in Lengths : c.Fixed = 0 /\ c.MaxLen > Byte - 1 /\ x = [Extern |-> TRUE, bytes |-> bytes(n)]
    BY <1>7
  <2>2. n \in Nat /\ n < Byte * weight[Bits - 2] BY <1>3
  <2>3. x \in Value /\ Len(x.bytes) = n BY <1>5, <2>1, <2>2
  <2>4. ~(c.Fixed > 0) /\ ~(c.MaxLen < Byte) BY <1>1, <1>2, <2>1
  <2> QED BY <2>2, <2>3, <2>4 DEF fits
<1>8. (x = NULL /\ c.Nullable)
      \/ (\E n \in IF c.Fixed > 0 THEN {c.Fixed} ELSE {l \in Lengths : l <= c.MaxLen} :
             x = [Extern |-> FALSE, bytes |-> bytes(n)])
      \/ (\E n \in {l \in Lengths : l >= FIELD_REF_SIZE /\ c.Fixed = 0 /\ c.MaxLen > Byte - 1} :
             x = [Extern |-> TRUE, bytes |-> bytes(n)])
  BY DEF values, bytes
<1> QED BY <1>6, <1>7, <1>8

\* A value that fits a column fits the same column of another version.
LEMMA FitsToo ==
  ASSUME NEW c, NEW d, d.Fixed = c.Fixed, d.MaxLen = c.MaxLen, NEW x, fits(c, x)
  PROVE  fits(d, x)
BY DEF fits

\* The definition D of version w has the fields f of a row of version v before its
\* others, and tells those that the row has a value of.
agreeing(f, D, v) ==
  /\ Len(f) <= Len(D) /\ distinct(D) /\ distinct(f)
  /\ \A k \in 1 .. Len(f) :
       /\ D[k].name = f[k].name /\ D[k].Fixed = f[k].Fixed /\ D[k].MaxLen = f[k].MaxLen
       /\ D[k].Nullable = f[k].Nullable
       /\ presentIn(D[k], v) <=> f[k].VersionDropped = 0
  /\ \A k \in Len(f) + 1 .. Len(D) :
       /\ ~presentIn(D[k], v)
       /\ \A j \in 1 .. Len(f) : f[j].name # D[k].name

\* Definitions as new as a row agree with its fields: a column dropped after the row was
\* written is in both, one added after it only in the definitions.
LEMMA Agreeing ==
  ASSUME Layout, NEW v \in Nat, NEW w \in Nat, v <= w, NEW f, NEW D, asOf(f, v), asOf(D, w)
  PROVE  agreeing(f, D, v)
<1>1. PICK P \in Seq(Column) : P = fields BY Fields DEF Layout
<1>2. distinct(P) BY <1>1, Fields DEF Layout
<1>3. f \in Seq(Column) /\ later(f, P, v) /\ D \in Seq(Column) /\ later(D, P, w) BY <1>1 DEF asOf
<1>4. PICK n \in Nat : n = Len(f) /\ DOMAIN f = 1 .. n BY <1>3
<1>5. PICK m \in Nat : m = Len(D) /\ DOMAIN D = 1 .. m BY <1>3
<1>6. PICK o \in Nat : o = Len(P) /\ DOMAIN P = 1 .. o BY <1>1
<1>7. n <= o /\ m <= o BY <1>3, <1>4, <1>5, <1>6 DEF later
<1>8. \A k \in 1 .. n : grown(f[k], P[k], v) /\ f[k].VersionAdded <= v /\ f[k].VersionDropped <= v
  BY <1>3, <1>4 DEF later, asOf
<1>9. \A k \in 1 .. m : grown(D[k], P[k], w) /\ D[k].VersionAdded <= w /\ D[k].VersionDropped <= w
  BY <1>3, <1>5 DEF later, asOf
<1>10. \A k \in n + 1 .. o : P[k].VersionAdded > v BY <1>3, <1>4, <1>6 DEF later
<1>11. \A k \in m + 1 .. o : P[k].VersionAdded > w BY <1>3, <1>5, <1>6 DEF later
<1>12. \A k \in 1 .. o : P[k].VersionAdded \in Nat /\ P[k].VersionDropped \in Nat
  <2> TAKE k \in 1 .. o
  <2>1. P[k] \in Column BY <1>6
  <2> QED BY <2>1 DEF Column
<1>13. \A k \in 1 .. n : f[k].VersionAdded \in Nat /\ f[k].VersionDropped \in Nat
  <2> TAKE k \in 1 .. n
  <2>1. f[k] \in Column BY <1>3, <1>4
  <2> QED BY <2>1 DEF Column
<1>14. \A k \in 1 .. m : D[k].VersionAdded \in Nat /\ D[k].VersionDropped \in Nat
  <2> TAKE k \in 1 .. m
  <2>1. D[k] \in Column BY <1>3, <1>5
  <2> QED BY <2>1 DEF Column
<1>15. n <= m
  <2>1. SUFFICES ASSUME m < n PROVE FALSE OBVIOUS
  <2>2. n \in m + 1 .. o /\ n \in 1 .. n BY <1>7, <2>1
  <2>3. P[n].VersionAdded > w /\ P[n].VersionAdded = f[n].VersionAdded /\ f[n].VersionAdded <= v
    BY <1>8, <1>11, <2>2 DEF grown
  <2> QED BY <1>13, <2>2, <2>3
<1>16. \A k \in 1 .. n : k \in 1 .. m /\ k \in 1 .. o BY <1>7, <1>15
<1>17. \A k \in 1 .. m : k \in 1 .. o BY <1>7
<1>18. distinct(f) BY <1>2, <1>4, <1>6, <1>8, <1>16 DEF distinct, grown
<1>19. distinct(D) BY <1>2, <1>5, <1>6, <1>9, <1>17 DEF distinct, grown
<1>20. ASSUME NEW k \in 1 .. n
       PROVE  /\ D[k].name = f[k].name /\ D[k].Fixed = f[k].Fixed /\ D[k].MaxLen = f[k].MaxLen
              /\ D[k].Nullable = f[k].Nullable
              /\ presentIn(D[k], v) <=> f[k].VersionDropped = 0
  <2>1. grown(f[k], P[k], v) /\ grown(D[k], P[k], w) BY <1>8, <1>9, <1>16
  <2>2. PICK pd \in Nat : pd = P[k].VersionDropped BY <1>12, <1>16
  <2>3. PICK fd \in Nat : fd = f[k].VersionDropped BY <1>13
  <2>4. PICK dd \in Nat : dd = D[k].VersionDropped BY <1>14, <1>16
  <2>5. fd <= v /\ dd <= w BY <1>8, <1>9, <1>16, <2>3, <2>4
  <2>6. (pd = fd \/ (fd = 0 /\ pd > v)) /\ (pd = dd \/ (dd = 0 /\ pd > w))
    BY <2>1, <2>2, <2>3, <2>4 DEF grown
  <2>7. (dd = 0 \/ dd > v) <=> fd = 0 BY <2>5, <2>6
  <2>8. D[k].VersionAdded <= v BY <1>8, <2>1 DEF grown
  <2>9. presentIn(D[k], v) <=> f[k].VersionDropped = 0 BY <2>3, <2>4, <2>7, <2>8 DEF presentIn
  <2> QED BY <2>1, <2>9 DEF grown
<1>21. ASSUME NEW k \in n + 1 .. m
       PROVE  ~presentIn(D[k], v) /\ \A j \in 1 .. n : f[j].name # D[k].name
  <2>1. k \in 1 .. m /\ k \in n + 1 .. o BY <1>7
  <2>2. grown(D[k], P[k], w) /\ P[k].VersionAdded > v BY <1>9, <1>10, <2>1
  <2>3. D[k].VersionAdded > v BY <2>2 DEF grown
  <2>4. ~presentIn(D[k], v) BY <1>14, <2>1, <2>3 DEF presentIn
  <2>5. ASSUME NEW j \in 1 .. n, f[j].name = D[k].name PROVE FALSE
    <3>1. P[j].name = P[k].name BY <1>8, <2>2, <2>5 DEF grown
    <3>2. j \in DOMAIN P /\ k \in DOMAIN P /\ j # k BY <1>6, <1>16, <2>1
    <3> QED BY <1>2, <3>1, <3>2 DEF distinct
  <2> QED BY <2>4, <2>5
<1> QED BY <1>4, <1>5, <1>15, <1>18, <1>19, <1>20, <1>21 DEF agreeing

\* The row of version v was written with the fields f, of which vals has values.
LEMMA RowRelated ==
  ASSUME NEW f, NEW D, NEW v, f \in Seq(Column), D \in Seq(Column), agreeing(f, D, v),
         NEW vals, valued(f, vals)
  PROVE  /\ related(f, D, vals)
         /\ \A k \in 1 .. Len(D) : presentIn(D[k], v) <=> D[k].name \in DOMAIN vals
         /\ \A k \in 1 .. Len(D) : D[k].name \in DOMAIN vals => k <= Len(f)
<1>1. PICK n \in Nat : n = Len(f) /\ DOMAIN f = 1 .. n OBVIOUS
<1>2. PICK m \in Nat : m = Len(D) /\ DOMAIN D = 1 .. m OBVIOUS
<1>3. n <= m BY <1>1, <1>2 DEF agreeing
<1>4. \A k \in 1 .. n : /\ D[k].name = f[k].name /\ D[k].Fixed = f[k].Fixed /\ D[k].MaxLen = f[k].MaxLen
                        /\ D[k].Nullable = f[k].Nullable
                        /\ presentIn(D[k], v) <=> f[k].VersionDropped = 0
  BY <1>1 DEF agreeing
<1>5. \A x : x \in DOMAIN vals <=> \E j \in 1 .. n : x = f[j].name /\ f[j].VersionDropped = 0
  BY <1>1 DEF valued
<1>6. \A k \in 1 .. n : D[k].name \in DOMAIN vals <=> f[k].VersionDropped = 0
  <2> TAKE k \in 1 .. n
  <2>1. \A j \in 1 .. n : f[j].name = f[k].name => j = k BY <1>1 DEF agreeing, distinct
  <2> QED BY <1>4, <1>5, <2>1
<1>7. \A k \in 1 .. m : k \in 1 .. n \/ k \in n + 1 .. m BY <1>1, <1>2
<1>8. \A k \in n + 1 .. m : ~presentIn(D[k], v) /\ D[k].name \notin DOMAIN vals
  <2> TAKE k \in n + 1 .. m
  <2>1. ~presentIn(D[k], v) /\ \A j \in 1 .. n : f[j].name # D[k].name BY <1>1, <1>2 DEF agreeing
  <2> QED BY <1>5, <2>1
<1>9. ASSUME NEW k \in 1 .. n PROVE alike(f[k], D[k]) /\ held(D[k], vals)
  <2>1. alike(f[k], D[k]) BY <1>4 DEF alike
  <2>2. PICK c \in Column : c = f[k] BY <1>1
  <2>3. PICK d : d = D[k] OBVIOUS
  <2>4. /\ d.name = c.name /\ d.Fixed = c.Fixed /\ d.MaxLen = c.MaxLen /\ d.Nullable = c.Nullable
        /\ d.name \in DOMAIN vals <=> c.VersionDropped = 0
    BY <1>4, <1>6, <2>2, <2>3
  <2>5. ASSUME d.name \in DOMAIN vals
        PROVE  (vals[d.name] = NULL /\ d.Nullable) \/ fits(d, vals[d.name])
    <3>1. c.VersionDropped = 0 BY <2>4, <2>5
    <3>2. vals[c.name] \in values(c) BY <1>1, <2>2, <3>1 DEF valued
    <3>3. PICK x : x = vals[c.name] OBVIOUS
    <3>4. (x = NULL /\ c.Nullable) \/ fits(c, x) BY <3>2, <3>3, Values
    <3>5. fits(c, x) => fits(d, x) BY <2>4, FitsToo
    <3> QED BY <2>4, <3>3, <3>4, <3>5
  <2>6. held(d, vals) BY <2>5 DEF held
  <2> QED BY <2>1, <2>3, <2>6
<1>10. related(f, D, vals) BY <1>1, <1>2, <1>3, <1>9 DEF related
<1>11. \A k \in 1 .. m : presentIn(D[k], v) <=> D[k].name \in DOMAIN vals BY <1>4, <1>6, <1>7, <1>8
<1>12. \A k \in 1 .. m : D[k].name \in DOMAIN vals => k <= n BY <1>7, <1>8
<1> QED BY <1>1, <1>2, <1>10, <1>11, <1>12

\* The null bits counted by a row and by a definition of it.
LEMMA RowNullables ==
  ASSUME NEW f, NEW D, NEW v, f \in Seq(Column), D \in Seq(Column), NEW vals, related(f, D, vals),
         \A k \in 1 .. Len(D) : presentIn(D[k], v) <=> D[k].name \in DOMAIN vals,
         \A k \in 1 .. Len(D) : D[k].name \in DOMAIN vals => k <= Len(f)
  PROVE  /\ nullables(f, DOMAIN vals) = nullableIn(D, v)
         /\ nullables(f, DOMAIN vals) = nullPos(f, vals, Len(f) + 1)
         /\ nullables(f, DOMAIN vals) \in Nat
<1>1. PICK n \in Nat : n = Len(f) /\ DOMAIN f = 1 .. n OBVIOUS
<1>2. PICK m \in Nat : m = Len(D) /\ DOMAIN D = 1 .. m OBVIOUS
<1>3. n <= m BY <1>1, <1>2 DEF related
<1>4. \A k \in 1 .. n : k \in 1 .. m /\ (D[k].Nullable <=> f[k].Nullable) /\ D[k].name = f[k].name
  BY <1>1, <1>3 DEF related, alike
<1>5. PICK S : S = {k \in DOMAIN f : f[k].Nullable /\ f[k].name \in DOMAIN vals} OBVIOUS
<1>6. S = {k \in DOMAIN D : D[k].Nullable /\ presentIn(D[k], v)}
  <2>1. \A k \in DOMAIN D : presentIn(D[k], v) <=> D[k].name \in DOMAIN vals BY <1>2
  <2>2. \A k \in DOMAIN D : D[k].name \in DOMAIN vals => k \in DOMAIN f BY <1>1, <1>2
  <2> QED BY <1>1, <1>2, <1>4, <1>5, <2>1, <2>2
<1>7. n + 1 - 1 = n OBVIOUS
<1>8. S = {k \in 1 .. n + 1 - 1 : f[k].Nullable /\ f[k].name \in DOMAIN vals} BY <1>1, <1>5, <1>7
<1>9. Cardinality(S) = nullables(f, DOMAIN vals) BY <1>5 DEF nullables
<1>10. Cardinality(S) = nullableIn(D, v) BY <1>6 DEF nullableIn
<1>11. Cardinality(S) = nullPos(f, vals, n + 1) BY <1>8 DEF nullPos
<1>12. nullPos(f, vals, n + 1) \in Nat
  <2>1. n + 1 \in 1 .. n + 1 OBVIOUS
  <2> QED BY <2>1, NullPlaces
<1> QED BY <1>1, <1>9, <1>10, <1>11, <1>12

\* A version is told by its byte.
LEMMA Header ==
  ASSUME NEW v \in 0 .. Len(Added), NEW header, header = headerOf(v)
  PROVE  /\ header \in Seq(SUBSET (0 .. Bits - 1)) /\ Len(header) <= 1
         /\ v = IF Len(header) = 1 THEN number(header[1]) ELSE 0
<1>1. Len(Added) \in Nat /\ Len(Added) < Byte /\ Byte \in Nat BY RowFormatAssumption, ByteSize
<1>2. v \in 0 .. Byte - 1 BY <1>1
<1>3. PICK T : T = SUBSET (0 .. Bits - 1) OBVIOUS
<1>4. PICK b \in T : b = byteOf(v) /\ number(b) = v BY <1>2, <1>3, Bytes
<1>5. CASE v > 0
  <2>1. header = <<b>> BY <1>4, <1>5 DEF headerOf
  <2>2. header \in Seq(T) /\ Len(header) = 1 /\ header[1] = b BY <2>1
  <2> QED BY <1>3, <1>4, <2>2
<1>6. CASE ~(v > 0)
  <2>1. header = <<>> /\ v = 0 BY <1>6 DEF headerOf
  <2>2. header \in Seq(T) /\ Len(header) = 0 BY <2>1
  <2> QED BY <1>3, <2>1, <2>2
<1> QED BY <1>5, <1>6

\* Definitions as new as the row read it whole.
LEMMA InvRowReads == RowInv => RowReads
<1> SUFFICES ASSUME RowInv, row # NULL, row.version <= defs.version
             PROVE  readsAs(row.leaf, defs.clustered, row.vals)
  BY DEF RowReads
<1>1. Layout /\ Definitions /\ Row BY DEF RowInv
<1>2. version \in 0 .. Len(Added) /\ Len(Added) \in Nat BY <1>1, RowFormatAssumption DEF Layout, Columns
<1>3. PICK vals : vals = row.vals OBVIOUS
<1>4. PICK v : v = row.version OBVIOUS
<1>5. v \in 0 .. version /\ \E f : /\ asOf(f, v) /\ valued(f, vals)
                                   /\ row.leaf = record(f, vals, nullables(f, DOMAIN vals), headerOf(v), FALSE)
  BY <1>1, <1>3, <1>4 DEF Row
<1>6. PICK f : /\ asOf(f, v) /\ valued(f, vals)
               /\ row.leaf = record(f, vals, nullables(f, DOMAIN vals), headerOf(v), FALSE)
  BY <1>5
<1>7. PICK D : D = defs.clustered.Cols OBVIOUS
<1>8. PICK w : w = defs.version OBVIOUS
<1>9. asOf(D, w) /\ w \in 0 .. version BY <1>1, <1>7, <1>8 DEF Definitions
<1>10. v \in Nat /\ w \in Nat /\ v <= w /\ v \in 0 .. Len(Added) BY <1>2, <1>4, <1>5, <1>8, <1>9
<1>11. f \in Seq(Column) /\ D \in Seq(Column) BY <1>6, <1>9 DEF asOf
<1>12. agreeing(f, D, v) BY <1>1, <1>6, <1>9, <1>10, Agreeing
<1>13. related(f, D, vals) BY <1>6, <1>11, <1>12, RowRelated
<1>14. \A k \in 1 .. Len(D) : presentIn(D[k], v) <=> D[k].name \in DOMAIN vals BY <1>6, <1>11, <1>12, RowRelated
<1>15. \A k \in 1 .. Len(D) : D[k].name \in DOMAIN vals => k <= Len(f) BY <1>6, <1>11, <1>12, RowRelated
<1>16. PICK n \in Nat : n = nullables(f, DOMAIN vals) BY <1>11, <1>13, <1>14, <1>15, RowNullables
<1>17. n = nullableIn(D, v) /\ n = nullPos(f, vals, Len(f) + 1) BY <1>11, <1>13, <1>14, <1>15, <1>16, RowNullables
<1>18. PICK header : header = headerOf(v) OBVIOUS
<1>19. header \in Seq(SUBSET (0 .. Bits - 1)) /\ Len(header) <= 1
       /\ v = IF Len(header) = 1 THEN number(header[1]) ELSE 0
  BY <1>10, <1>18, Header
<1>20. PICK r : r = row.leaf OBVIOUS
<1>21. r = record(f, vals, n, header, FALSE) BY <1>6, <1>16, <1>18, <1>20
<1>22. PICK idx : idx = defs.clustered OBVIOUS
<1>23. D = IF FALSE THEN SubSeq(idx.Cols, 1, idx.NUniqueInTree) ELSE idx.Cols BY <1>7, <1>22
<1>24. n = nullableIn(idx.Cols, IF FALSE THEN 0 ELSE v) BY <1>7, <1>17, <1>22
<1>25. nullPos(f, vals, Len(f) + 1) <= n BY <1>17
<1>26. readBy(r, D, v, vals, Len(f))
  <2>1. r.nodePtr = FALSE BY <1>21 DEF record
  <2>2. distinct(D) BY <1>12 DEF agreeing
  <2> QED BY <1>10, <1>14, <1>15, <2>1, <2>2 DEF readBy
<1>27. whole(parseRec(r, idx), D, r, vals)
  BY <1>13, <1>19, <1>21, <1>23, <1>24, <1>25, <1>26, RecordRead
<1>28. Len(idx.Cols) \in Nat /\ DOMAIN idx.Cols = 1 .. Len(idx.Cols) BY <1>7, <1>11, <1>22
<1>29. readsAs(r, idx, vals) BY <1>7, <1>22, <1>27, <1>28, WholeReads
<1> QED BY <1>3, <1>20, <1>22, <1>29

\* RowReads of RowFormat.tla: whatever columns a table gains and loses INSTANT before a
\* row is written and after, parseRec reads the row back with any later definitions.
THEOREM RowsRead == Spec => []RowReads
BY RowInvariant, InvRowReads, PTL

\* The fields of a definition are the first of the fields now, the key among them.
LEMMA KeyField ==
  ASSUME Layout, NEW v \in 0 .. version, NEW f, asOf(f, v)
  PROVE  /\ f \in Seq(Column) /\ Len(f) \in Nat /\ Len(f) >= 1
         /\ f[1] \in Column /\ fields[1] \in Column /\ fields[1] = column(Key)
         /\ alike(fields[1], f[1]) /\ f[1].name = Key /\ f[1].VersionDropped = 0
         /\ ~f[1].Nullable /\ f[1].Fixed = fields[1].Fixed
<1>0. Columns /\ Stored /\ Ages BY DEF Layout
<1>1. PICK P \in Seq(Column) : P = fields BY <1>0, Fields
<1>2. f \in Seq(Column) /\ later(f, P, v) BY <1>1 DEF asOf
<1>3. PICK n \in Nat : n = Len(f) /\ DOMAIN f = 1 .. n BY <1>2
<1>4. PICK o \in Nat : o = Len(P) /\ DOMAIN P = 1 .. o OBVIOUS
<1>5. o >= 2 /\ physical[1] = Key BY <1>0, <1>1, <1>4, Fields DEF Columns
<1>6. 1 \in 1 .. o BY <1>5
<1>7. P[1] \in ToSet(columns) /\ P[1].name = Key /\ P[1] \in Column BY <1>0, <1>1, <1>4, <1>5, <1>6, Fields
<1>8. P[1].VersionAdded = 0 /\ P[1].VersionDropped = 0 /\ ~P[1].Nullable BY <1>0, <1>7 DEF Ages, aged
<1>9. column(Key) = P[1] BY <1>0, <1>7, ColumnIs
<1>10. v \in Nat BY <1>0, RowFormatAssumption DEF Columns
<1>11. n >= 1
  <2>1. SUFFICES ASSUME n = 0 PROVE FALSE BY <1>3
  <2>2. 1 \in n + 1 .. o BY <1>5, <2>1
  <2>3. P[1].VersionAdded > v BY <1>2, <1>3, <1>4, <2>2 DEF later
  <2> QED BY <1>8, <1>10, <2>3
<1>12. 1 \in 1 .. n BY <1>11
<1>13. grown(f[1], P[1], v) /\ f[1] \in Column BY <1>2, <1>3, <1>12 DEF later
<1>14. PICK c \in Column : c = f[1] BY <1>13
<1>15. PICK p \in Column : p = P[1] BY <1>7
<1>16. /\ p.name = c.name /\ p.Fixed = c.Fixed /\ p.MaxLen = c.MaxLen /\ p.Nullable = c.Nullable
       /\ p.VersionDropped = c.VersionDropped \/ (c.VersionDropped = 0 /\ p.VersionDropped > v)
  BY <1>13, <1>14, <1>15 DEF grown
<1>17. c.name = Key /\ c.VersionDropped = 0 /\ ~c.Nullable
  BY <1>7, <1>8, <1>15, <1>16
<1>18. alike(p, c) BY <1>16 DEF alike
<1> QED BY <1>1, <1>2, <1>3, <1>9, <1>11, <1>14, <1>15, <1>16, <1>17, <1>18

\* The null bits of a node pointer.
LEMMA PointerNullables ==
  ASSUME Layout, NEW w \in 0 .. version, NEW D, asOf(D, w)
  PROVE  /\ nullables(fields, {n \in ToSet(physical) : column(n).VersionAdded = 0}) = nullableIn(D, 0)
         /\ nullableIn(D, 0) \in Nat
<1>0. Columns /\ Stored BY DEF Layout
<1>1. PICK P \in Seq(Column) : P = fields BY <1>0, Fields
<1>2. D \in Seq(Column) /\ later(D, P, w) BY <1>1 DEF asOf
<1>3. PICK m \in Nat : m = Len(D) /\ DOMAIN D = 1 .. m BY <1>2
<1>4. PICK o \in Nat : o = Len(P) /\ DOMAIN P = 1 .. o OBVIOUS
<1>5. m <= o BY <1>2, <1>3, <1>4 DEF later
<1>6. w \in Nat BY <1>0, RowFormatAssumption DEF Columns
<1>7. PICK S : S = {n \in ToSet(physical) : column(n).VersionAdded = 0} OBVIOUS
<1>8. ASSUME NEW k \in 1 .. o PROVE P[k].name \in S <=> P[k].VersionAdded = 0
  <2>1. P[k] \in ToSet(columns) /\ P[k].name = physical[k] /\ DOMAIN physical = 1 .. o
    BY <1>0, <1>1, <1>4, Fields
  <2>2. column(P[k].name) = P[k] BY <1>0, <2>1, ColumnIs
  <2>3. P[k].name \in ToSet(physical) BY <2>1 DEF ToSet
  <2> QED BY <1>7, <2>2, <2>3
<1>9. ASSUME NEW k \in 1 .. m
      PROVE  presentIn(D[k], 0) <=> P[k].VersionAdded = 0
  <2>1. grown(D[k], P[k], w) /\ D[k] \in Column BY <1>2, <1>3 DEF later
  <2>2. PICK a \in Nat : a = D[k].VersionAdded BY <2>1 DEF Column
  <2>3. PICK b \in Nat : b = D[k].VersionDropped BY <2>1 DEF Column
  <2>4. presentIn(D[k], 0) <=> a = 0 BY <2>2, <2>3 DEF presentIn
  <2> QED BY <2>1, <2>2, <2>4 DEF grown
<1>10. \A k \in m + 1 .. o : P[k].VersionAdded # 0
  <2>1. \A k \in m + 1 .. o : P[k].VersionAdded > w BY <1>2, <1>3, <1>4 DEF later
  <2> QED BY <1>6, <2>1
<1>11. \A k \in 1 .. m : P[k].Nullable = D[k].Nullable BY <1>2, <1>3 DEF later, grown
<1>12. \A k : k \in 1 .. o <=> k \in 1 .. m \/ k \in m + 1 .. o BY <1>5
<1>13. PICK N : N = {k \in DOMAIN D : D[k].Nullable /\ presentIn(D[k], 0)} OBVIOUS
<1>14. N = {k \in DOMAIN P : P[k].Nullable /\ P[k].name \in S}
  BY <1>3, <1>4, <1>8, <1>9, <1>10, <1>11, <1>12, <1>13
<1>15. Cardinality(N) = nullableIn(D, 0) BY <1>13 DEF nullableIn
<1>16. Cardinality(N) = nullables(fields, S) BY <1>1, <1>14 DEF nullables
<1>17. Cardinality(N) \in Nat
  <2>1. IsFiniteSet(1 .. m) BY FS_Interval
  <2>2. N \subseteq 1 .. m BY <1>3, <1>13
  <2>3. IsFiniteSet(N) BY <2>1, <2>2, FS_Subset
  <2> QED BY <2>3, FS_CardinalityType
<1> QED BY <1>7, <1>15, <1>16, <1>17

\* A node pointer is read as the key of its row.
LEMMA PointerRead ==
  ASSUME RowInv, row # NULL, NEW s, s = parseRec(nodePointer, defs.clustered)
  PROVE  s.Fields = <<[Name |-> Key, Value |-> row.vals[Key]]>> /\ s.pos = Len(nodePointer.data)
<1>1. Layout /\ Definitions /\ Row BY DEF RowInv
<1>2. PICK P : P = fields OBVIOUS
<1>3. PICK D : D = defs.clustered.Cols OBVIOUS
<1>4. PICK w \in 0 .. version : w = defs.version /\ asOf(D, w) BY <1>1, <1>3 DEF Definitions
<1>5. /\ D \in Seq(Column) /\ Len(D) \in Nat /\ Len(D) >= 1
      /\ D[1] \in Column /\ P[1] \in Column /\ P[1] = column(Key)
      /\ alike(P[1], D[1]) /\ D[1].name = Key /\ D[1].VersionDropped = 0 /\ ~D[1].Nullable
      /\ D[1].Fixed = P[1].Fixed
  BY <1>1, <1>2, <1>4, KeyField
<1>6. PICK c \in Column : c = P[1] BY <1>5
<1>7. PICK d \in Column : d = D[1] BY <1>5
<1>8. PICK x : x = row.vals[Key] OBVIOUS
<1>9. fits(d, x)
  <2>1. PICK v : v = row.version OBVIOUS
  <2>2. v \in 0 .. version /\ \E f : asOf(f, v) /\ valued(f, row.vals) BY <1>1, <2>1 DEF Row
  <2>3. PICK f : asOf(f, v) /\ valued(f, row.vals) BY <2>2
  <2>4. /\ f \in Seq(Column) /\ Len(f) \in Nat /\ Len(f) >= 1 /\ f[1] \in Column
        /\ alike(P[1], f[1]) /\ f[1].name = Key /\ f[1].VersionDropped = 0 /\ ~f[1].Nullable
        /\ f[1].Fixed = P[1].Fixed
    BY <1>1, <1>2, <2>2, <2>3, KeyField
  <2>5. 1 \in 1 .. Len(f) BY <2>4
  <2>6. PICK a \in Column : a = f[1] BY <2>4
  <2>7. x \in values(a) BY <1>8, <2>3, <2>4, <2>5, <2>6 DEF valued
  <2>8. fits(a, x) BY <2>4, <2>6, <2>7, Values
  <2>9. d.Fixed = a.Fixed /\ d.MaxLen = a.MaxLen BY <1>5, <1>7, <2>4, <2>6 DEF alike
  <2> QED BY <2>8, <2>9, FitsToo
<1>10. PICK cols : cols = <<c>> OBVIOUS
<1>11. PICK E : E = <<d>> OBVIOUS
<1>12. cols \in Seq(Column) /\ Len(cols) = 1 /\ cols[1] = c /\ DOMAIN cols = 1 .. 1 BY <1>10
<1>13. E \in Seq(Column) /\ Len(E) = 1 /\ E[1] = d /\ DOMAIN E = 1 .. 1 BY <1>11
<1>14. PICK vals : vals = [n \in {Key} |-> row.vals[n]] OBVIOUS
<1>15. DOMAIN vals = {Key} /\ vals[Key] = x BY <1>8, <1>14
<1>16. d.name = Key /\ c.name = Key /\ alike(c, d) /\ ~d.Nullable /\ ~c.Nullable
  BY <1>5, <1>6, <1>7 DEF alike
<1>17. related(cols, E, vals)
  <2>1. held(d, vals) BY <1>9, <1>15, <1>16 DEF held
  <2>2. \A i \in 1 .. 1 : i = 1 OBVIOUS
  <2> QED BY <1>12, <1>13, <1>16, <2>1, <2>2 DEF related
<1>18. PICK n \in Nat : /\ n = nullableIn(D, 0)
                        /\ n = nullables(fields, {k \in ToSet(physical) : column(k).VersionAdded = 0})
  BY <1>1, <1>4, PointerNullables
<1>19. PICK header : header = <<>> OBVIOUS
<1>20. header \in Seq(SUBSET (0 .. Bits - 1)) /\ Len(header) = 0
  <2>1. PICK T : T = SUBSET (0 .. Bits - 1) OBVIOUS
  <2>2. header \in Seq(T) /\ Len(header) = 0 BY <1>19
  <2> QED BY <2>1, <2>2
<1>21. PICK r : r = nodePointer OBVIOUS
<1>22. r = record(cols, vals, n, header, TRUE)
  BY <1>5, <1>6, <1>10, <1>14, <1>18, <1>19, <1>21 DEF nodePointer
<1>23. nullPos(cols, vals, Len(cols) + 1) <= n
  <2>1. 1 \in 1 .. 1 OBVIOUS
  <2>2. ~bitted(cols, vals, 1) BY <1>12, <1>16 DEF bitted
  <2>3. nullPos(cols, vals, 1 + 1) = nullPos(cols, vals, 1) + (IF bitted(cols, vals, 1) THEN 1 ELSE 0)
    BY <2>1, NullPlaces
  <2>4. nullPos(cols, vals, 1) = 0 BY <2>1, NullPlaces
  <2> QED BY <1>12, <2>2, <2>3, <2>4
<1>24. PICK idx : idx = defs.clustered OBVIOUS
<1>25. E = SubSeq(idx.Cols, 1, idx.NUniqueInTree)
  <2>1. idx.NUniqueInTree = 1 /\ idx.Cols = D BY <1>1, <1>3, <1>24 DEF Definitions
  <2>2. PICK q : q = SubSeq(D, 1, 1) OBVIOUS
  <2>3. q = [i \in 1 .. 1 |-> D[i]]
    <3>1. \A i \in 1 .. 1 : 1 + i - 1 = i /\ i - 1 + 1 = i OBVIOUS
    <3>2. SubSeq(D, 1, 1) \in Seq(Column) /\ Len(SubSeq(D, 1, 1)) = 1
          /\ \A i \in 1 .. 1 : SubSeq(D, 1, 1)[i] = D[1 + i - 1]
      <4>1. 1 \in 1 .. Len(D) + 1 /\ 1 \in 0 .. Len(D) BY <1>5
      <4> QED BY <1>5, <4>1, SubSeqProperties
    <3>3. DOMAIN q = 1 .. 1 /\ \A i \in 1 .. 1 : q[i] = D[i] BY <2>2, <3>1, <3>2
    <3>4. q = [i \in 1 .. 1 |-> q[i]]
      <4>1. q \in Seq(Column) /\ Len(q) = 1 BY <2>2, <3>2
      <4> QED BY <4>1
    <3> QED BY <3>3, <3>4
  <2>4. E = [i \in 1 .. 1 |-> d] BY <1>11
  <2>5. q = E BY <1>7, <2>3, <2>4
  <2> QED BY <2>1, <2>2, <2>5
<1>26. readBy(r, E, 0, vals, Len(cols))
  <2>1. r.nodePtr = TRUE BY <1>22 DEF record
  <2>2. distinct(E) BY <1>13 DEF distinct
  <2>3. \A i \in 1 .. 1 : E[i].name \in DOMAIN vals /\ i <= 1 BY <1>13, <1>15, <1>16
  <2> QED BY <1>12, <1>13, <2>1, <2>2, <2>3 DEF readBy
<1>27. whole(parseRec(r, idx), E, r, vals)
  <2>1. E = IF TRUE THEN SubSeq(idx.Cols, 1, idx.NUniqueInTree) ELSE idx.Cols BY <1>25
  <2>2. 0 = IF Len(header) = 1 THEN number(header[1]) ELSE 0 BY <1>20
  <2>3. n = nullableIn(idx.Cols, IF TRUE THEN 0 ELSE 0) BY <1>3, <1>18, <1>24
  <2>4. Len(header) <= 1 BY <1>20
  <2> QED BY <1>17, <1>20, <1>22, <1>23, <1>26, <2>1, <2>2, <2>3, <2>4, RecordRead
<1>28. PICK F \in Seq(Field) : F = s.Fields /\ shows(F, E, 1, vals) BY <1>13, <1>21, <1>24, <1>27 DEF whole
<1>29. s.pos = Len(r.data) BY <1>21, <1>24, <1>27 DEF whole
<1>30. PICK l \in Nat : l = Len(F) /\ DOMAIN F = 1 .. l OBVIOUS
<1>31. \A k \in 1 .. l : F[k].Name = Key
  <2>1. \A j \in 1 .. 1 : E[j].name = Key BY <1>13, <1>16
  <2> QED BY <1>28, <1>30, <2>1 DEF shows
<1>32. l >= 1
  <2>1. 1 \in 1 .. 1 /\ E[1].VersionDropped = 0 BY <1>5, <1>7, <1>13
  <2>2. \E k \in 1 .. l : F[k].Name = E[1].name BY <1>28, <1>30, <2>1 DEF shows
  <2> QED BY <1>30, <2>2
<1>33. l = 1
  <2>1. 1 \in 1 .. l /\ l \in 1 .. l BY <1>32
  <2>2. \A k, j \in 1 .. l : F[k].Name = F[j].Name => k = j BY <1>28, <1>30 DEF shows
  <2>3. F[1].Name = F[l].Name BY <1>31, <2>1
  <2> QED BY <2>1, <2>2, <2>3
<1>34. F[1] = [Name |-> Key, Value |-> x]
  <2>1. 1 \in 1 .. l BY <1>33
  <2>2. F[1] \in Field /\ F[1].Name = Key BY <1>30, <1>31, <2>1
  <2>3. F[1].Value = x BY <1>15, <1>28, <1>30, <2>1, <2>2 DEF shows
  <2> QED BY <2>2, <2>3 DEF Field
<1>35. F = <<[Name |-> Key, Value |-> x]>>
  <2>1. F = [k \in 1 .. 1 |-> F[k]] BY <1>30, <1>33
  <2>2. F = [k \in 1 .. 1 |-> F[1]]
    <3>1. \A k \in 1 .. 1 : F[k] = F[1] OBVIOUS
    <3> QED BY <2>1, <3>1
  <2> QED BY <1>34, <2>2
<1> QED BY <1>8, <1>21, <1>28, <1>29, <1>35

\* What the row has of a column there is now.
LEMMA Current ==
  ASSUME RowInv, row # NULL, NEW k \in 1 .. Len(fields), fields[k].VersionDropped = 0,
         NEW x, x = current(fields[k])
  PROVE  (x = NULL /\ fields[k].Nullable) \/ fits(fields[k], x)
<1>1. Layout /\ Row BY DEF RowInv
<1>2. PICK P \in Seq(Column) : P = fields BY <1>1, Fields DEF Layout
<1>3. distinct(P) BY <1>1, <1>2, Fields DEF Layout
<1>4. PICK c \in Column : c = P[k] BY <1>2
<1>5. c.name \in Name /\ c.Fixed \in Nat BY DEF Column
<1>6. CASE c.name \in DOMAIN row.vals
  <2>1. x = row.vals[c.name] BY <1>2, <1>4, <1>6 DEF current
  <2>2. PICK v : v = row.version OBVIOUS
  <2>3. v \in 0 .. version /\ \E f : asOf(f, v) /\ valued(f, row.vals) BY <1>1, <2>2 DEF Row
  <2>4. PICK f : asOf(f, v) /\ valued(f, row.vals) BY <2>3
  <2>5. f \in Seq(Column) /\ later(f, P, v) BY <1>2, <2>4 DEF asOf
  <2>6. PICK j \in 1 .. Len(f) : c.name = f[j].name /\ f[j].VersionDropped = 0
    BY <1>6, <2>4 DEF valued
  <2>7. grown(f[j], P[j], v) /\ j \in 1 .. Len(P)
    <3>1. Len(f) \in Nat /\ Len(P) \in Nat /\ Len(f) <= Len(P) BY <2>5 DEF later
    <3> QED BY <2>5, <3>1 DEF later
  <2>8. j = k
    <3>1. P[j].name = P[k].name BY <1>4, <2>6, <2>7 DEF grown
    <3> QED BY <1>2, <1>3, <2>7, <3>1 DEF distinct
  <2>9. PICK a \in Column : a = f[j] BY <2>5
  <2>10. x \in values(a) BY <2>1, <2>4, <2>6, <2>9 DEF valued
  <2>11. (x = NULL /\ a.Nullable) \/ fits(a, x) BY <2>10, Values
  <2>12. c.Fixed = a.Fixed /\ c.MaxLen = a.MaxLen /\ c.Nullable = a.Nullable
    BY <1>4, <2>7, <2>8, <2>9 DEF grown
  <2>13. fits(a, x) => fits(c, x) BY <2>12, FitsToo
  <2> QED BY <1>2, <1>4, <2>11, <2>12, <2>13
<1>7. CASE c.name \notin DOMAIN row.vals
  <2>1. PICK n \in Nat : n = IF c.Fixed > 0 THEN c.Fixed ELSE 1 BY <1>5
  <2>2. x = [Extern |-> FALSE, bytes |-> [i \in 1 .. n |-> Default]] BY <1>2, <1>4, <1>7, <2>1 DEF current
  <2>3. PICK b : b = [i \in 1 .. n |-> Default] OBVIOUS
  <2>4. b \in [1 .. n -> ToSet(names) \cup {Default}] BY <2>3
  <2>5. b \in Seq(ToSet(names) \cup {Default}) /\ Len(b) = n BY <2>4
  <2>6. x \in Value /\ ~x.Extern /\ Len(x.bytes) = n BY <2>2, <2>3, <2>5 DEF Value
  <2>7. 1 < Byte /\ 1 < Byte * weight[Bits - 2]
    <3>1. Bits - 2 \in 0 .. Bits BY RowFormatAssumption
    <3>2. weight[Bits - 2] \in Nat /\ weight[Bits - 2] >= 1 BY <3>1, Weights
    <3>3. PICK u \in Nat : u = weight[Bits - 2] /\ u >= 1 BY <3>2
    <3>4. PICK B \in Nat : B = Byte /\ B >= 8 BY ByteSize
    <3>5. B * u >= B BY <3>3, <3>4, TimesAtLeast
    <3> QED BY <3>3, <3>4, <3>5
  <2>8. c.Fixed > 0 => n = c.Fixed BY <2>1
  <2>9. c.Fixed = 0 => n = 1 BY <2>1
  <2> QED BY <1>2, <1>4, <2>6, <2>7, <2>8, <2>9 DEF fits
<1> QED BY <1>6, <1>7

\* An entry has as much of a value as its column of the index takes.
LEMMA EntryFits ==
  ASSUME NEW c \in Column, NEW length \in (Nat \ {0}) \cup {Whole}, NEW x, fits(c, x),
         NEW d, d.Fixed = (IF length # Whole /\ length < c.Fixed THEN length ELSE c.Fixed), d.MaxLen = c.MaxLen,
         NEW y, y = [Extern |-> FALSE,
                     bytes |-> SubSeq(x.bytes, 1, IF length # Whole /\ length < Len(x.bytes)
                                                  THEN length ELSE Len(x.bytes))]
  PROVE  fits(d, y)
<1>1. x \in Value BY DEF fits
<1>2. PICK b : b = x.bytes OBVIOUS
<1>3. PICK T : T = ToSet(names) \cup {Default} OBVIOUS
<1>4. b \in Seq(T) BY <1>1, <1>2, <1>3 DEF Value
<1>5. PICK n \in Nat : n = Len(b) /\ DOMAIN b = 1 .. n BY <1>4
<1>6. PICK p \in Nat : p = IF length # Whole /\ length < n THEN length ELSE n BY DEF Whole
<1>7. p <= n BY <1>5, <1>6 DEF Whole
<1>8. PICK q : q = SubSeq(b, 1, p) OBVIOUS
<1>9. q \in Seq(T) /\ Len(q) = p
  <2>1. 1 \in Int /\ p \in Int /\ \A i \in 1 .. p : b[i] \in T
    <3>1. \A i \in 1 .. p : i \in 1 .. n BY <1>7
    <3> QED BY <1>4, <1>5, <3>1
  <2>2. SubSeq(b, 1, p) \in Seq(T) /\ Len(SubSeq(b, 1, p)) = IF 1 <= p THEN p - 1 + 1 ELSE 0
    BY <2>1, SubSeqProperties
  <2> QED BY <1>8, <2>2
<1>10. y = [Extern |-> FALSE, bytes |-> q] BY <1>2, <1>5, <1>6, <1>8
<1>11. y \in Value /\ ~y.Extern /\ Len(y.bytes) = p BY <1>3, <1>9, <1>10 DEF Value
<1>12. PICK cf \in Nat : cf = c.Fixed BY DEF Column
<1>13. PICK cm \in Nat : cm = c.MaxLen BY DEF Column
<1>14. PICK B \in Nat : B = Byte BY ByteSize
<1>15. PICK z \in Nat : z = Byte * weight[Bits - 2]
  <2>1. Bits - 2 \in 0 .. Bits BY RowFormatAssumption
  <2>2. PICK a \in Nat : a = weight[Bits - 2] BY <2>1, Weights
  <2> QED BY <1>14, <2>2
<1>16. /\ cf > 0 => n = cf
       /\ cf = 0 /\ cm < B => n < B
       /\ cf = 0 /\ cm >= B => n < z
  BY <1>2, <1>5, <1>12, <1>13, <1>14, <1>15 DEF fits
<1>17. PICK df \in Nat : df = IF length # Whole /\ length < cf THEN length ELSE cf BY DEF Whole
<1>18. d.Fixed = df /\ d.MaxLen = cm BY <1>12, <1>13, <1>17
<1>19. /\ df > 0 => p = df
       /\ df = 0 /\ cm < B => p < B
       /\ df = 0 /\ cm >= B => p < z
  BY <1>6, <1>7, <1>16, <1>17 DEF Whole
<1> QED BY <1>11, <1>14, <1>15, <1>18, <1>19 DEF fits

\* What an index entry holds of element e, of the column c.
LEMMA EntryHolds ==
  ASSUME RowInv, row # NULL, NEW k \in 1 .. Len(fields), fields[k].VersionDropped = 0,
         NEW e, e.Length \in PrefixLengths \cup {Whole}, column(e.name) = fields[k],
         NEW d, d.Fixed = fixedAt(e, fields[k]), d.MaxLen = fields[k].MaxLen,
         NEW y, y = entryValue(e)
  PROVE  (y = NULL /\ fields[k].Nullable) \/ fits(d, y)
<1>1. PICK c \in Column : c = fields[k]
  <2>1. fields \in Seq(Column) BY Fields DEF RowInv, Layout
  <2> QED BY <2>1
<1>2. PICK x : x = current(c) OBVIOUS
<1>3. (x = NULL /\ c.Nullable) \/ fits(c, x) BY <1>1, <1>2, Current
<1>4. PICK length : length = e.Length OBVIOUS
<1>5. length \in (Nat \ {0}) \cup {Whole} BY <1>4, RowFormatAssumption
<1>6. y = IF x = NULL THEN NULL
          ELSE [Extern |-> FALSE,
                bytes |-> SubSeq(x.bytes, 1, IF length # Whole /\ length < Len(x.bytes)
                                             THEN length ELSE Len(x.bytes))]
  BY <1>1, <1>2, <1>4 DEF entryValue
<1>7. CASE x = NULL
  <2>1. ~fits(c, x) BY <1>7, Fitting
  <2> QED BY <1>1, <1>3, <1>6, <1>7, <2>1
<1>8. CASE x # NULL
  <2>1. fits(c, x) BY <1>3, <1>8
  <2>2. d.Fixed = (IF length # Whole /\ length < c.Fixed THEN length ELSE c.Fixed) /\ d.MaxLen = c.MaxLen
    BY <1>1, <1>4 DEF fixedAt
  <2>3. fits(d, y) BY <1>5, <1>6, <1>8, <2>1, <2>2, EntryFits
  <2> QED BY <2>3
<1> QED BY <1>7, <1>8

\* A column of the index a session knows, and what an entry has of it.
element(e, d) ==
  LET c == column(e.name)
      y == entryValue(e)
  IN  /\ c \in Column /\ alike(c, d) /\ d.name = e.name /\ d.VersionDropped = 0
      /\ e.name = Key => d.VersionAdded = 0
      /\ (y = NULL /\ d.Nullable) \/ fits(d, y)

\* A column of the index a session knows is what an entry is written with, but for the
\* place that it has in a row.
LEMMA Element ==
  ASSUME RowInv, row # NULL, elements # <<>>, NEW i \in 1 .. 2, NEW d \in Column, moved(secondaryCols[i], d)
  PROVE  element(elements[i], d)
<1>1. Layout /\ Index BY DEF RowInv
<1>2. PICK e : e = elements[i] OBVIOUS
<1>3. e.Length \in PrefixLengths \cup {Whole} BY <1>1, <1>2 DEF Index
<1>4. PICK k \in 1 .. Len(fields) :
        /\ fields[k].name = e.name /\ fields[k].VersionDropped = 0
        /\ column(e.name) = fields[k]
        /\ secondaryCols[i] = [fields[k] EXCEPT !.Fixed = fixedAt(e, fields[k])]
  BY <1>1, <1>2, SecondaryCols
<1>5. fields[k] \in Column /\ fields[k] \in ToSet(columns) BY <1>1, Fields DEF Layout
<1>6. PICK c \in Column : c = fields[k] BY <1>5
<1>7. PICK n : n = fixedAt(e, c) OBVIOUS
<1>8. moved([c EXCEPT !.Fixed = n], d) BY <1>4, <1>6, <1>7
<1>9. /\ d.name = c.name /\ d.Fixed = n /\ d.MaxLen = c.MaxLen /\ (d.Nullable <=> c.Nullable)
      /\ d.VersionAdded = c.VersionAdded /\ d.VersionDropped = c.VersionDropped
  BY <1>8 DEF moved, Column
<1>10. n > 0 <=> c.Fixed > 0
  <2>1. PICK cf \in Nat : cf = c.Fixed BY DEF Column
  <2>2. PICK l \in (Nat \ {0}) \cup {Whole} : l = e.Length BY <1>3, RowFormatAssumption
  <2>3. n = IF l # Whole /\ l < cf THEN l ELSE cf BY <1>7, <2>1, <2>2 DEF fixedAt
  <2> QED BY <2>1, <2>3 DEF Whole
<1>11. alike(c, d) BY <1>9, <1>10 DEF alike
<1>12. PICK y : y = entryValue(e) OBVIOUS
<1>13. (y = NULL /\ c.Nullable) \/ fits(d, y)
  <2>1. column(e.name) = fields[k] /\ fields[k].VersionDropped = 0 BY <1>4
  <2>2. d.Fixed = fixedAt(e, fields[k]) /\ d.MaxLen = fields[k].MaxLen BY <1>6, <1>7, <1>9
  <2>3. (y = NULL /\ fields[k].Nullable) \/ fits(d, y) BY <1>3, <1>12, <2>1, <2>2, EntryHolds
  <2> QED BY <1>6, <2>3
<1>14. e.name = Key => d.VersionAdded = 0
  <2>1. ASSUME e.name = Key PROVE c.VersionAdded = 0
    <3>1. c \in ToSet(columns) /\ c.name = Key BY <1>4, <1>5, <1>6, <2>1
    <3> QED BY <1>1, <3>1 DEF Layout, Ages, aged
  <2> QED BY <1>9, <2>1
<1> QED BY <1>2, <1>4, <1>6, <1>9, <1>11, <1>12, <1>13, <1>14 DEF element

\* An entry of the index, or a node pointer in it, is read as it was written.
LEMMA EntryRead ==
  ASSUME RowInv, row # NULL, Len(defs.secondary.Cols) > 0, defs.secondary.Cols[1].VersionAdded = 0,
         NEW nodePtr \in BOOLEAN
  PROVE  readsAs(entryRecord(nodePtr), defs.secondary, entryVals)
<1>1. Layout /\ Index /\ Definitions BY DEF RowInv
<1>2. PICK D : D = defs.secondary.Cols OBVIOUS
<1>3. D # <<>>
  <2>1. SUFFICES ASSUME D = <<>> PROVE FALSE OBVIOUS
  <2>2. Len(D) = 0 BY <2>1
  <2> QED BY <1>2, <2>2
<1>4. /\ Len(elements) = 2 /\ DOMAIN D = 1 .. 2 /\ D \in Seq(Column)
      /\ \A i \in 1 .. 2 : moved(secondaryCols[i], D[i])
  BY <1>1, <1>2, <1>3 DEF Definitions
<1>5. elements # <<>>
  <2>1. SUFFICES ASSUME elements = <<>> PROVE FALSE OBVIOUS
  <2>2. Len(elements) = 0 BY <2>1
  <2> QED BY <1>4, <2>2
<1>6. PICK el : el = elements OBVIOUS
<1>7. DOMAIN el = 1 .. 2 /\ el[1].name # Key /\ el[2].name = Key BY <1>1, <1>5, <1>6 DEF Index
<1>8. Len(D) = 2
  <2>1. PICK m \in Nat : m = Len(D) /\ DOMAIN D = 1 .. m BY <1>4
  <2>2. 1 .. m = 1 .. 2 BY <1>4, <2>1
  <2>3. 2 \in 1 .. m /\ m \in 1 .. 2
    <3>1. 2 \in 1 .. 2 OBVIOUS
    <3>2. m >= 1 BY <2>2, <3>1
    <3>3. m \in 1 .. m BY <3>2
    <3> QED BY <2>2, <3>1, <3>3
  <2> QED BY <2>1, <2>3
<1>9. \A i \in 1 .. 2 : D[i] \in Column
  <2>1. D \in Seq(Column) BY <1>4
  <2>2. PICK m \in Nat : m = Len(D) BY <2>1
  <2>3. \A i \in 1 .. m : D[i] \in Column BY <2>1, <2>2
  <2>4. m = 2 BY <1>8, <2>2
  <2> QED BY <2>3, <2>4
<1>10. \A i \in 1 .. 2 : element(el[i], D[i]) BY <1>4, <1>5, <1>6, <1>9, Element
<1>11. PICK vals : vals = entryVals OBVIOUS
<1>12. \A i, j \in 1 .. 2 : el[i].name = el[j].name => i = j
  <2>1. \A i \in 1 .. 2 : i = 1 \/ i = 2 OBVIOUS
  <2> QED BY <1>7, <2>1
<1>13. vals = [n \in {el[i].name : i \in 1 .. 2} |-> entryValue(el[CHOOSE i \in 1 .. 2 : el[i].name = n])]
  BY <1>6, <1>7, <1>11 DEF entryVals
<1>14. ASSUME NEW i \in 1 .. 2
       PROVE  el[i].name \in DOMAIN vals /\ vals[el[i].name] = entryValue(el[i])
  <2>1. el[i].name \in {el[j].name : j \in 1 .. 2} OBVIOUS
  <2>2. (CHOOSE j \in 1 .. 2 : el[j].name = el[i].name) = i BY <1>12
  <2> QED BY <1>13, <2>1, <2>2
<1>15. PICK cols : cols = [i \in 1 .. 2 |-> column(el[i].name)] OBVIOUS
<1>16. cols \in Seq(Column) /\ Len(cols) = 2 /\ DOMAIN cols = 1 .. 2
  <2>1. \A i \in 1 .. 2 : cols[i] \in Column BY <1>10, <1>15 DEF element
  <2>2. PICK m \in Nat : m = 2 OBVIOUS
  <2>3. cols \in [1 .. m -> Column] BY <1>15, <2>1, <2>2
  <2>4. cols \in Seq(Column) /\ Len(cols) = m BY <2>3
  <2> QED BY <1>15, <2>2, <2>4
<1>17. ASSUME NEW i \in 1 .. 2
       PROVE  /\ alike(cols[i], D[i]) /\ held(D[i], vals) /\ D[i].name = el[i].name
              /\ D[i].name \in DOMAIN vals /\ presentIn(D[i], 0)
  <2>1. PICK d \in Column : d = D[i] BY <1>9
  <2>2. PICK e : e = el[i] OBVIOUS
  <2>3. element(e, d) BY <1>10, <2>1, <2>2
  <2>4. alike(column(e.name), d) /\ d.name = e.name /\ d.VersionDropped = 0 BY <2>3 DEF element
  <2>5. alike(cols[i], d) BY <1>15, <2>2, <2>4
  <2>6. d.name \in DOMAIN vals /\ vals[d.name] = entryValue(e) BY <1>14, <2>2, <2>4
  <2>7. held(d, vals) BY <2>3, <2>6 DEF element, held
  <2>8. d.VersionAdded = 0
    <3>1. CASE i = 1 BY <1>2, <2>1, <3>1
    <3>2. CASE i = 2
      <4>1. e.name = Key BY <1>7, <2>2, <3>2
      <4> QED BY <2>3, <4>1 DEF element
    <3>3. i = 1 \/ i = 2 OBVIOUS
    <3> QED BY <3>1, <3>2, <3>3
  <2>9. presentIn(d, 0) BY <2>4, <2>8 DEF presentIn
  <2> QED BY <2>1, <2>2, <2>4, <2>5, <2>6, <2>7, <2>9
<1>18. related(cols, D, vals) BY <1>4, <1>8, <1>16, <1>17 DEF related
<1>19. /\ nullables(cols, DOMAIN vals) = nullableIn(D, 0)
       /\ nullables(cols, DOMAIN vals) = nullPos(cols, vals, Len(cols) + 1)
       /\ nullables(cols, DOMAIN vals) \in Nat
  <2>1. cols \in Seq(Column) BY <1>16
  <2>2. D \in Seq(Column) BY <1>4
  <2>3. \A i \in 1 .. Len(D) : presentIn(D[i], 0) <=> D[i].name \in DOMAIN vals BY <1>8, <1>17
  <2>4. \A i \in 1 .. Len(D) : D[i].name \in DOMAIN vals => i <= Len(cols) BY <1>8, <1>16
  <2> QED BY <1>18, <2>1, <2>2, <2>3, <2>4, RowNullables
<1>20. PICK n \in Nat : n = nullables(cols, DOMAIN vals) BY <1>19
<1>21. n = nullableIn(D, 0) /\ n = nullPos(cols, vals, Len(cols) + 1) BY <1>19, <1>20
<1>22. PICK header : header = <<>> OBVIOUS
<1>23. header \in Seq(SUBSET (0 .. Bits - 1)) /\ Len(header) = 0
  <2>1. PICK T : T = SUBSET (0 .. Bits - 1) OBVIOUS
  <2>2. header \in Seq(T) /\ Len(header) = 0 BY <1>22
  <2> QED BY <2>1, <2>2
<1>24. PICK r : r = entryRecord(nodePtr) OBVIOUS
<1>25. r = record(cols, vals, n, header, nodePtr)
  BY <1>6, <1>7, <1>11, <1>15, <1>20, <1>22, <1>24 DEF entryRecord
<1>26. PICK idx : idx = defs.secondary OBVIOUS
<1>27. D = IF nodePtr THEN SubSeq(idx.Cols, 1, idx.NUniqueInTree) ELSE idx.Cols
  <2>1. idx.NUniqueInTree = 2 /\ idx.Cols = D BY <1>1, <1>2, <1>8, <1>26 DEF Definitions
  <2>2. SubSeq(D, 1, 2) = D BY <1>4, <1>8, SubSeqFull
  <2> QED BY <2>1, <2>2
<1>28. readBy(r, D, 0, vals, Len(cols))
  <2>1. r.nodePtr = nodePtr BY <1>25 DEF record
  <2>2. distinct(D) BY <1>4, <1>12, <1>17 DEF distinct
  <2> QED BY <1>8, <1>16, <1>17, <2>1, <2>2 DEF readBy
<1>29. whole(parseRec(r, idx), D, r, vals)
  <2>1. 0 = IF Len(header) = 1 THEN number(header[1]) ELSE 0 BY <1>23
  <2>2. n = nullableIn(idx.Cols, IF nodePtr THEN 0 ELSE 0) BY <1>2, <1>21, <1>26
  <2>3. Len(header) <= 1 BY <1>23
  <2>4. nullPos(cols, vals, Len(cols) + 1) <= n BY <1>21
  <2> QED BY <1>18, <1>23, <1>25, <1>27, <1>28, <2>1, <2>2, <2>3, <2>4, RecordRead
<1>30. Len(idx.Cols) \in Nat /\ DOMAIN idx.Cols = 1 .. Len(idx.Cols) BY <1>2, <1>4, <1>8, <1>26
<1>31. readsAs(r, idx, vals) BY <1>2, <1>26, <1>29, <1>30, WholeReads
<1> QED BY <1>11, <1>24, <1>26, <1>31

\* Node pointers and the entries of an index on an older column are read whole.
LEMMA InvKeysRead == RowInv => KeysRead
<1> SUFFICES ASSUME RowInv, row # NULL PROVE KeysRead BY DEF KeysRead
<1>1. PICK s : s = parseRec(nodePointer, defs.clustered) OBVIOUS
<1>2. s.Fields = <<[Name |-> Key, Value |-> row.vals[Key]]>> /\ s.pos = Len(nodePointer.data)
  BY <1>1, PointerRead
<1>3. Len(defs.secondary.Cols) > 0 /\ defs.secondary.Cols[1].VersionAdded = 0 =>
        \A nodePtr \in BOOLEAN : readsAs(entryRecord(nodePtr), defs.secondary, entryVals)
  BY EntryRead
<1> QED BY <1>1, <1>2, <1>3 DEF KeysRead

\* KeysRead of RowFormat.tla: a node pointer is read as the key it was made of, and an
\* entry of a secondary index on a column as old as the table as what was put in it.
THEOREM RowKeysRead == Spec => []KeysRead
BY RowInvariant, InvKeysRead, PTL
===============================================================================
