-------------------------------- MODULE NatSets --------------------------------
(***************************************************************************)
(* The least and the greatest of a set of numbers.  The library's induction *)
(* takes a predicate, which the provers cannot be given; that inclusion is  *)
(* well founded on finite sets does without one.                            *)
(***************************************************************************)
EXTENDS Integers, FiniteSetsExt, FiniteSetTheorems, TLAPS

\* A set of numbers has a least one.
LEMMA LeastOf ==
  ASSUME NEW T \in SUBSET Nat, T # {}
  PROVE  Min(T) \in T /\ \A y \in T : Min(T) <= y
<1> DEFINE R == StrictSubsetOrdering(Nat)
           C == {0 .. x : x \in T}
<1>1. IsWellFoundedOn(R, FiniteSubsetsOf(Nat)) BY FS_StrictSubsetOrderingWellFounded
<1>2. C \subseteq FiniteSubsetsOf(Nat)
  <2>1. ASSUME NEW x \in T PROVE 0 .. x \in FiniteSubsetsOf(Nat)
    <3>1. x \in Int /\ 0 \in Int /\ 0 .. x \subseteq Nat OBVIOUS
    <3>2. IsFiniteSet(0 .. x) BY <3>1, FS_Interval
    <3>3. QED BY <3>1, <3>2 DEF FiniteSubsetsOf
  <2>2. QED BY <2>1
<1>3. C # {} OBVIOUS
<1> HIDE DEF R
<1>4. PICK c \in C : \A d \in C : ~ (<<d, c>> \in R)
  <2> HIDE DEF C
  <2>1. QED BY <1>1, <1>2, <1>3, WFMin
<1>5. PICK x \in T : c = 0 .. x OBVIOUS
<1>6. \A y \in T : x <= y
  <2>1. SUFFICES ASSUME NEW y \in T, y < x PROVE FALSE OBVIOUS
  <2>2. 0 .. y \subseteq 0 .. x /\ 0 .. y # 0 .. x
    <3>1. x \in 0 .. x /\ x \notin 0 .. y BY <2>1
    <3>2. QED BY <3>1, <2>1
  <2>3. <<0 .. y, 0 .. x>> \in (SUBSET Nat) \X (SUBSET Nat) BY <2>1
  <2>4. <<0 .. y, 0 .. x>> \in R BY <2>2, <2>3 DEF R, StrictSubsetOrdering
  <2>5. QED BY <2>4, <1>4, <1>5
<1>7. QED BY <1>6 DEF Min

\* A finite set of numbers has a greatest one.
LEMMA FiniteGreatest ==
  ASSUME NEW T \in SUBSET Nat, T # {}, IsFiniteSet(T)
  PROVE  Max(T) \in T /\ \A y \in T : y <= Max(T)
<1> DEFINE R == StrictSubsetOrdering(Nat)
           above(x) == {y \in T : y >= x}
           C == {above(x) : x \in T}
<1>1. IsWellFoundedOn(R, FiniteSubsetsOf(Nat)) BY FS_StrictSubsetOrderingWellFounded
<1>2. C \subseteq FiniteSubsetsOf(Nat)
  <2>1. ASSUME NEW x \in T PROVE above(x) \in FiniteSubsetsOf(Nat)
    <3>1. IsFiniteSet(above(x)) BY FS_Subset
    <3> QED BY <3>1 DEF FiniteSubsetsOf
  <2> QED BY <2>1
<1>3. C # {} OBVIOUS
<1> HIDE DEF R
<1>4. PICK c \in C : \A d \in C : ~ (<<d, c>> \in R)
  <2> HIDE DEF C
  <2> QED BY <1>1, <1>2, <1>3, WFMin
<1>5. PICK x \in T : c = above(x) OBVIOUS
<1>6. \A y \in T : y <= x
  <2>1. SUFFICES ASSUME NEW y \in T, y > x PROVE FALSE OBVIOUS
  <2>2. above(y) \subseteq above(x) /\ above(y) # above(x)
    <3>1. x \in above(x) /\ x \notin above(y) BY <2>1
    <3>3. \A z \in T : z >= y => z >= x BY <2>1
    <3>2. above(y) \subseteq above(x) BY <3>3
    <3> HIDE DEF above
    <3> QED BY <3>1, <3>2
  <2>3. <<above(y), above(x)>> \in (SUBSET Nat) \X (SUBSET Nat) OBVIOUS
  <2>4. <<above(y), above(x)>> \in R BY <2>2, <2>3 DEF R, StrictSubsetOrdering
  <2> QED BY <2>4, <1>4, <1>5
<1> QED BY <1>6 DEF Max

\* A set of numbers up to n has a greatest one.
LEMMA GreatestOf ==
  ASSUME NEW n \in Nat, NEW T \in SUBSET (0 .. n), T # {}
  PROVE  Max(T) \in T /\ \A y \in T : y <= Max(T)
<1>1. IsFiniteSet(0 .. n) BY FS_Interval
<1>2. IsFiniteSet(T) BY <1>1, FS_Subset
<1> QED BY <1>2, FiniteGreatest

\* A function applied n times, as the recursive function that says so: there is
\* one.
LEMMA IterateExists ==
  ASSUME NEW S, NEW step \in [S -> S], NEW x \in S, NEW M \in Nat
  PROVE  \E w : w = [n \in 0 .. M |-> IF n = 0 THEN x ELSE step[w[n - 1]]]
<1> DEFINE upTo(f, k) ==
             f = [n \in 0 .. M |-> IF n = 0 \/ n > k THEN x ELSE step[f[n - 1]]]
           bad == {k \in 0 .. M : ~ \E f : upTo(f, k)}
<1>1. bad = {}
  <2>1. SUFFICES ASSUME bad # {} PROVE FALSE OBVIOUS
  <2>2. bad \in SUBSET Nat OBVIOUS
  <2> DEFINE k == Min(bad)
  <2>3. k \in bad /\ \A y \in bad : k <= y
    <3> HIDE DEF bad
    <3> QED BY <2>1, <2>2, LeastOf
  <2> HIDE DEF k
  <2>4. k \in 0 .. M /\ ~ \E f : upTo(f, k) BY <2>3
  <2>5. CASE k = 0
    <3> DEFINE f0 == [n \in 0 .. M |-> x]
    <3>1. upTo(f0, k) BY <2>5
    <3> QED BY <3>1, <2>4
  <2>6. CASE k # 0
    <3>1. k - 1 \in 0 .. M /\ k - 1 < k BY <2>4, <2>6
    <3>2. k - 1 \notin bad BY <2>3, <3>1
    <3>3. PICK f : upTo(f, k - 1) BY <3>1, <3>2
    <3> DEFINE g == [n \in 0 .. M |-> IF n = k THEN step[f[k - 1]] ELSE f[n]]
    <3>4. \A n \in 0 .. M : g[n] = IF n = 0 \/ n > k THEN x ELSE step[g[n - 1]]
      <4> TAKE n \in 0 .. M
      <4>1. g[n] = IF n = k THEN step[f[k - 1]] ELSE f[n] OBVIOUS
      <4>2. f[n] = IF n = 0 \/ n > k - 1 THEN x ELSE step[f[n - 1]] BY <3>3
      <4>3. CASE n = 0 BY <4>1, <4>2, <4>3, <2>6
      <4>4. CASE n = k
        <5>1. g[k - 1] = f[k - 1] BY <3>1
        <5> QED BY <4>1, <4>4, <5>1, <2>6, <2>4
      <4>5. CASE n > k BY <4>1, <4>2, <4>5, <2>4
      <4>6. CASE n # 0 /\ n < k
        <5>1. n - 1 \in 0 .. M /\ n - 1 # k BY <4>6, <2>4
        <5>2. g[n - 1] = f[n - 1] BY <5>1
        <5> QED BY <4>1, <4>2, <4>6, <5>2, <2>4
      <4> QED BY <4>3, <4>4, <4>5, <4>6, <2>4
    <3>5. g = [n \in 0 .. M |-> g[n]] OBVIOUS
    <3>6. g = [n \in 0 .. M |-> IF n = 0 \/ n > k THEN x ELSE step[g[n - 1]]]
      <4> HIDE DEF g
      <4> QED BY <3>4, <3>5
    <3>7. upTo(g, k) BY <3>6
    <3> QED BY <3>7, <2>4
  <2> QED BY <2>5, <2>6
<1>2. M \in 0 .. M OBVIOUS
<1>3. PICK f : upTo(f, M) BY <1>1, <1>2
<1>4. \A n \in 0 .. M : (n = 0 \/ n > M) <=> n = 0 OBVIOUS
<1> WITNESS f
<1> QED BY <1>3, <1>4

\* What each application keeps, J[n] of the n-th, holds after all of them.
LEMMA IterateStays ==
  ASSUME NEW step, NEW x, NEW M \in Nat,
         NEW w, \A n \in 0 .. M : w[n] = IF n = 0 THEN x ELSE step[w[n - 1]],
         NEW J, x \in J[0],
         \A n \in 0 .. M : \A y \in J[n] : n < M => step[y] \in J[n + 1]
  PROVE  \A n \in 0 .. M : w[n] \in J[n]
<1> DEFINE bad == {n \in 0 .. M : w[n] \notin J[n]}
<1>1. bad = {}
  <2>1. SUFFICES ASSUME bad # {} PROVE FALSE OBVIOUS
  <2>2. bad \in SUBSET Nat OBVIOUS
  <2> DEFINE k == Min(bad)
  <2>3. k \in bad /\ \A y \in bad : k <= y
    <3> HIDE DEF bad
    <3> QED BY <2>1, <2>2, LeastOf
  <2> HIDE DEF k
  <2>4. k \in 0 .. M /\ w[k] \notin J[k] BY <2>3
  <2>5. w[k] = IF k = 0 THEN x ELSE step[w[k - 1]] BY <2>4
  <2>6. k # 0 BY <2>4, <2>5
  <2>7. k - 1 \in 0 .. M /\ k - 1 < k /\ k - 1 < M /\ (k - 1) + 1 = k BY <2>4, <2>6
  <2>8. k - 1 \notin bad BY <2>3, <2>7
  <2>9. w[k - 1] \in J[k - 1] BY <2>7, <2>8
  <2>10. step[w[k - 1]] \in J[k] BY <2>7, <2>9
  <2> QED BY <2>4, <2>5, <2>6, <2>10
<1> QED BY <1>1

\* What holds at a number up to n if it holds at all the later ones, holds at all.
LEMMA Downward ==
  ASSUME NEW n \in Nat, NEW P, \A o \in 0 .. n : (\A p \in o + 1 .. n : p \in P) => o \in P
  PROVE  \A o \in 0 .. n : o \in P
<1> DEFINE bad == {k \in 0 .. n : n - k \notin P}
<1>1. bad = {}
  <2>1. SUFFICES ASSUME bad # {} PROVE FALSE OBVIOUS
  <2>2. bad \in SUBSET Nat OBVIOUS
  <2> DEFINE k == Min(bad)
  <2>3. k \in bad /\ \A y \in bad : k <= y
    <3> HIDE DEF bad
    <3> QED BY <2>1, <2>2, LeastOf
  <2> HIDE DEF k
  <2>4. k \in 0 .. n /\ n - k \notin P BY <2>3
  <2>5. ASSUME NEW p \in (n - k) + 1 .. n PROVE p \in P
    <3>1. n - p \in 0 .. n /\ n - p < k /\ n - (n - p) = p BY <2>4
    <3>2. n - p \notin bad BY <2>3, <2>4, <3>1
    <3> QED BY <3>1, <3>2
  <2>6. n - k \in 0 .. n BY <2>4
  <2> QED BY <2>4, <2>5, <2>6
<1>2. \A o \in 0 .. n : n - o \in 0 .. n /\ n - (n - o) = o OBVIOUS
<1> QED BY <1>1, <1>2

\* What holds at 0, and at each number up to n if it does at the one before, holds at
\* all of them.
LEMMA Upward ==
  ASSUME NEW n \in Nat, NEW P, 0 \in P, \A k \in 1 .. n : k - 1 \in P => k \in P
  PROVE  \A k \in 0 .. n : k \in P
<1> DEFINE bad == {k \in 0 .. n : k \notin P}
<1>1. SUFFICES ASSUME bad # {} PROVE FALSE OBVIOUS
<1>2. bad \in SUBSET Nat OBVIOUS
<1>3. PICK k \in bad : \A y \in bad : k <= y
  <2> HIDE DEF bad
  <2> QED BY <1>1, <1>2, LeastOf
<1>4. k \in 1 .. n OBVIOUS
<1>5. k - 1 \notin bad BY <1>3, <1>4
<1> QED BY <1>3, <1>4, <1>5
===============================================================================
