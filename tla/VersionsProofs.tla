---------------------------- MODULE VersionsProofs ----------------------------
(***************************************************************************)
(* The chain shown is the one the row had, and the read view is marked on  *)
(* the version it returns, for any columns, values, places of undo records *)
(* and transactions, and for any records written over those purged.        *)
(*                                                                         *)
(* The argument is about undo records: one that was written for the row    *)
(* restores the version before the one it was written with (Restores), and *)
(* stays true to it, since versions are only added.  A walk that followed  *)
(* such records alone stands on a version of the row, with its roll        *)
(* pointer to follow (WalkInv).                                            *)
(***************************************************************************)
EXTENDS Versions, NatSets, SequenceTheorems, TLAPS

\* A version comes after the one it was made from, and has no roll pointer only if
\* it was loaded.
VersionsInv ==
  \A n \in DOMAIN versions :
    versions[n].prev < n /\ (versions[n].roll = Zero => versions[n].prev = 0)

\* What an undo record of version n holds of the one before.
Restores(vs, rec, n) ==
  /\ rec.Type = TRX_UNDO_INSERT_REC => vs[n].prev = 0
  /\ rec.Type # TRX_UNDO_INSERT_REC =>
       LET o == vs[vs[n].prev]
       IN  /\ vs[n].prev # 0
           /\ rec.TrxID = o.trx /\ rec.Roll = o.roll /\ rec.del = o.del
           /\ ~rec.Err => \A c \in Col :
                (IF c \in DOMAIN rec.Upd THEN rec.Upd[c] ELSE vs[n].vals[c]) = o.vals[c]

UndoInv ==
  \A s \in Slot : undo[s] # None /\ undo[s].of # 0 =>
    undo[s].of \in DOMAIN versions /\ Restores(versions, undo[s], undo[s].of)

IsSeq(s)  == s \in Seq({s[k] : k \in DOMAIN s})
IsNode(n) ==
  n = [hkey |-> n.hkey, trx |-> n.trx, vals |-> n.vals, at |-> n.at, next |-> n.next,
       del |-> n.del, note |-> n.note]
OutInv ==
  /\ IsSeq(out)
  /\ \A k \in DOMAIN out : IsNode(out[k]) /\ (k < Len(out) => isVersion(out[k]))

\* Where the walk stands.
WalkInv ==
  /\ phase \in {"none", "folded"} => out = <<>> /\ i = 0
  /\ phase \in {"folded", "walking"} => page # 0
  /\ phase \in {"walking", "shown"} => was # <<>> /\ out # <<>>
  /\ phase = "folded" => rp = versions[page].roll
  /\ phase = "walking" =>
       /\ i <= maxVersions /\ Len(out) = i + 1 /\ Len(was) = i + 1
       /\ \A k \in DOMAIN out : isVersion(out[k])
       /\ faithful =>
            /\ was[Len(was)] \in DOMAIN versions
            /\ rp = versions[was[Len(was)]].roll
            /\ \A k \in DOMAIN out : \A c \in Col : out[k].vals[c] = versions[was[k]].vals[c]

IInv ==
  /\ TypeOK /\ VersionsInv /\ UndoInv /\ OutInv /\ WalkInv
  /\ VersionsWereTheRow /\ ChainIsWhole /\ ChainEnds /\ MarksFollowView

-----------------------------------------------------------------------------
(* Sequences.                                                              *)

LEMMA AppendSeq ==
  ASSUME NEW s, IsSeq(s), NEW e
  PROVE  /\ IsSeq(Append(s, e))
         /\ DOMAIN s = 1 .. Len(s) /\ Len(s) \in Nat
         /\ Len(Append(s, e)) = Len(s) + 1
         /\ DOMAIN Append(s, e) = 1 .. (Len(s) + 1)
         /\ \A k \in 1 .. Len(s) : Append(s, e)[k] = s[k]
         /\ Append(s, e)[Len(s) + 1] = e
<1> DEFINE S == {s[k] : k \in DOMAIN s} \cup {e}
           t == Append(s, e)
<1>1. s \in Seq(S) /\ e \in S
  <2>1. \A k \in 1 .. Len(s) : s[k] \in S BY DEF IsSeq
  <2>2. s \in Seq({s[k] : k \in DOMAIN s}) BY DEF IsSeq
  <2> QED BY <2>1, <2>2
<1>2. DOMAIN s = 1 .. Len(s) /\ Len(s) \in Nat BY <1>1
<1>3. /\ t \in Seq(S) /\ Len(t) = Len(s) + 1
      /\ \A k \in 1 .. Len(s) : t[k] = s[k]
      /\ t[Len(s) + 1] = e
  BY <1>1, AppendProperties
<1> HIDE DEF t
<1>4. t \in [1 .. Len(t) -> S] /\ Len(t) \in Nat BY <1>3
<1>5. IsSeq(t)
  <2>1. t \in [1 .. Len(t) -> {t[k] : k \in DOMAIN t}] BY <1>4
  <2> QED BY <2>1, <1>4, SeqDef DEF IsSeq
<1> QED BY <1>2, <1>3, <1>4, <1>5 DEF t

\* What marking the nodes leaves alone.
LEMMA MarkedNodes ==
  ASSUME NEW s, IsSeq(s), \A k \in DOMAIN s : IsNode(s[k]), NEW v
  PROVE  LET m == markVisible(s, v)
         IN  /\ IsSeq(m) /\ DOMAIN m = DOMAIN s /\ Len(m) = Len(s) /\ Len(s) \in Nat
             /\ \A k \in DOMAIN s :
                  /\ IsNode(m[k])
                  /\ m[k].hkey = s[k].hkey /\ m[k].trx = s[k].trx /\ m[k].vals = s[k].vals
                  /\ m[k].at = s[k].at /\ m[k].next = s[k].next /\ m[k].del = s[k].del
<1> DEFINE m == markVisible(s, v)
<1>1. DOMAIN s = 1 .. Len(s) /\ Len(s) \in Nat BY DEF IsSeq
<1>2. DOMAIN m = DOMAIN s BY DEF markVisible
<1>3. ASSUME NEW k \in DOMAIN s
      PROVE  m[k] = s[k] \/ \E x : m[k] = [s[k] EXCEPT !.note = x]
  BY <1>3 DEF markVisible
<1> HIDE DEF m
<1>4. IsSeq(m) /\ Len(m) = Len(s)
  <2>1. m = [k \in 1 .. Len(s) |-> m[k]]
    <3>1. m = [k \in DOMAIN s |-> m[k]] BY DEF m, markVisible
    <3> QED BY <3>1, <1>1
  <2>2. m \in [1 .. Len(s) -> {m[k] : k \in DOMAIN m}] BY <2>1, <1>1, <1>2
  <2>3. m \in Seq({m[k] : k \in DOMAIN m}) BY <2>2, <1>1, SeqDef
  <2> QED BY <2>1, <2>3, <1>1 DEF IsSeq
<1>5. ASSUME NEW k \in DOMAIN s
      PROVE  /\ IsNode(m[k])
             /\ m[k].hkey = s[k].hkey /\ m[k].trx = s[k].trx /\ m[k].vals = s[k].vals
             /\ m[k].at = s[k].at /\ m[k].next = s[k].next /\ m[k].del = s[k].del
  <2>2. ASSUME NEW x, m[k] = [s[k] EXCEPT !.note = x]
        PROVE  m[k] = [hkey |-> s[k].hkey, trx |-> s[k].trx, vals |-> s[k].vals, at |-> s[k].at,
                       next |-> s[k].next, del |-> s[k].del, note |-> x]
    <3>1. IsNode(s[k]) OBVIOUS
    <3>2. s[k] = [hkey |-> s[k].hkey, trx |-> s[k].trx, vals |-> s[k].vals, at |-> s[k].at,
                  next |-> s[k].next, del |-> s[k].del, note |-> s[k].note]
      BY <3>1 DEF IsNode
    <3> QED BY <3>2, <2>2
  <2>3. m[k] = [hkey |-> s[k].hkey, trx |-> s[k].trx, vals |-> s[k].vals, at |-> s[k].at,
                next |-> s[k].next, del |-> s[k].del, note |-> m[k].note]
    <3>1. CASE m[k] = s[k] BY <3>1, <1>5 DEF IsNode
    <3>2. ASSUME NEW x, m[k] = [s[k] EXCEPT !.note = x]
          PROVE  m[k] = [hkey |-> s[k].hkey, trx |-> s[k].trx, vals |-> s[k].vals, at |-> s[k].at,
                         next |-> s[k].next, del |-> s[k].del, note |-> m[k].note]
      BY <3>2, <2>2
    <3> QED BY <3>1, <3>2, <1>3, <1>5
  <2> QED BY <2>3 DEF IsNode
<1> QED BY <1>1, <1>2, <1>4, <1>5 DEF m

\* The version marked is the first of those the view counts as committed.
LEMMA MarkedVersion ==
  ASSUME NEW s, IsSeq(s), \A k \in DOMAIN s : IsNode(s[k]),
         \A k \in DOMAIN s : isVersion(s[k]) => s[k].trx \in Nat,
         NEW v \in Nat \cup {None}
  PROVE  LET m == markVisible(s, v)
             committed == {k \in DOMAIN m : isVersion(m[k]) /\ v # None /\ m[k].trx <= v}
         IN  {k \in {k \in DOMAIN m : isVersion(m[k])} : m[k].note = "sees this"} =
               IF committed = {} THEN {} ELSE {Min(committed)}
<1> DEFINE m == markVisible(s, v)
           C == {k \in DOMAIN m : isVersion(m[k]) /\ v # None /\ m[k].trx <= v}
<1>1. /\ DOMAIN m = DOMAIN s /\ DOMAIN s = 1 .. Len(s) /\ Len(s) \in Nat
      /\ \A k \in DOMAIN s : m[k].hkey = s[k].hkey /\ m[k].trx = s[k].trx
  <2>1. DOMAIN s = 1 .. Len(s) BY DEF IsSeq
  <2> QED BY <2>1, MarkedNodes
<1>2. C \in SUBSET Nat BY <1>1
<1>3. ASSUME NEW k \in DOMAIN s, isVersion(s[k])
      PROVE  m[k].note = "sees this" <=> k \in C /\ \A j \in C : k <= j
  <2> DEFINE seen == \E j \in 1 .. k - 1 : isVersion(s[j]) /\ ~tooNew(s[j].trx, v)
  <2>1. CASE v = None
    <3>1. m[k] = [s[k] EXCEPT !.note = ""] BY <2>1, <1>3 DEF markVisible
    <3>2. m[k].note = "" BY <3>1, <1>3 DEF IsNode
    <3> QED BY <3>2, <2>1
  <2>2. CASE v # None /\ tooNew(s[k].trx, v)
    <3>1. m[k] = [s[k] EXCEPT !.note = "too new"] BY <2>2, <1>3 DEF markVisible
    <3>2. m[k].note = "too new" BY <3>1, <1>3 DEF IsNode
    <3>3. k \notin C BY <2>2, <1>1, <1>3 DEF tooNew
    <3> QED BY <3>2, <3>3
  <2>3. CASE v # None /\ ~tooNew(s[k].trx, v) /\ ~seen
    <3>1. m[k] = [s[k] EXCEPT !.note = "sees this"] BY <2>3, <1>3 DEF markVisible
    <3>2. m[k].note = "sees this" BY <3>1, <1>3 DEF IsNode
    <3> HIDE DEF m
    <3>3. k \in C
      <4>1. s[k].trx \in Nat /\ v \in Nat BY <2>3, <1>3
      <4>2. m[k].trx <= v BY <4>1, <2>3, <1>1, <1>3 DEF tooNew
      <4>3. k \in DOMAIN m /\ isVersion(m[k]) BY <1>1, <1>3 DEF isVersion
      <4> QED BY <4>2, <4>3, <2>3
    <3>4. ASSUME NEW j \in C PROVE k <= j
      <4>1. j \in DOMAIN s /\ isVersion(s[j]) /\ s[j].trx <= v BY <1>1 DEF isVersion
      <4>2. s[j].trx \in Nat /\ v \in Nat BY <4>1, <2>3
      <4>3. ~tooNew(s[j].trx, v) BY <4>1, <4>2 DEF tooNew
      <4> QED BY <4>1, <4>3, <2>3, <1>1
    <3> QED BY <3>2, <3>3, <3>4
  <2>4. CASE v # None /\ ~tooNew(s[k].trx, v) /\ seen
    <3>1. m[k] = [s[k] EXCEPT !.note = "older"] BY <2>4, <1>3 DEF markVisible
    <3>2. m[k].note = "older" BY <3>1, <1>3 DEF IsNode
    <3>3. PICK j \in 1 .. k - 1 : isVersion(s[j]) /\ ~tooNew(s[j].trx, v) BY <2>4
    <3>4. j \in DOMAIN s /\ j < k BY <1>1
    <3>5. s[j].trx \in Nat /\ v \in Nat BY <3>3, <3>4, <2>4
    <3> HIDE DEF m
    <3>6. j \in C
      <4>1. m[j].trx <= v BY <3>3, <3>4, <3>5, <1>1 DEF tooNew
      <4>2. j \in DOMAIN m /\ isVersion(m[j]) BY <1>1, <3>3, <3>4 DEF isVersion
      <4> QED BY <4>1, <4>2, <2>4
    <3>7. ~ (k <= j) BY <3>4, <1>1
    <3> QED BY <3>2, <3>6, <3>7
  <2> QED BY <2>1, <2>2, <2>3, <2>4
<1> DEFINE V == {k \in DOMAIN m : isVersion(m[k])}
<1>4. \A k \in V : k \in DOMAIN s /\ isVersion(s[k]) BY <1>1 DEF isVersion
<1>5. C \subseteq V OBVIOUS
<1>6. CASE C = {} 
  BY <1>6, <1>3, <1>4
<1>7. CASE C # {}
  <2>1. Min(C) \in C /\ \A y \in C : Min(C) <= y BY <1>7, <1>2, LeastOf
  <2>2. \A k \in V : m[k].note = "sees this" <=> k = Min(C)
    <3> HIDE DEF C, V, m
    <3>1. ASSUME NEW k \in V, m[k].note = "sees this" PROVE k = Min(C)
      <4>1. k \in C /\ k <= Min(C) BY <1>3, <1>4, <2>1, <3>1
      <4> QED BY <4>1, <2>1, <1>2
    <3>2. ASSUME NEW k \in V, k = Min(C) PROVE m[k].note = "sees this"
      BY <1>3, <1>4, <2>1, <3>2
    <3> QED BY <3>1, <3>2
  <2> QED BY <2>1, <2>2, <1>5, <1>7
<1> QED BY <1>6, <1>7

-----------------------------------------------------------------------------
(* The server.                                                             *)

\* The server's part of TypeOK.
ServerOK ==
  /\ versions \in Seq(Version) /\ row \in 0 .. Len(versions)
  /\ undo \in [Slot -> UndoRec \cup {None}]
  /\ made \in [Slot -> 0 .. Len(versions)]
  /\ started \in Nat /\ active \subseteq 1 .. started /\ writer \in active \cup {0}
  /\ snap = None \/ snap \in [trx : Nat, row : Nat, n : Nat]

\* Versions are added and never changed.
Grows ==
  /\ Len(versions) <= Len(versions')
  /\ \A n \in DOMAIN versions : versions'[n] = versions[n]

\* A version that is known stays what it was.
LEMMA GrowsFacts ==
  ASSUME ServerOK, ServerOK', Grows
  PROVE  /\ DOMAIN versions = 1 .. Len(versions) /\ Len(versions) \in Nat
         /\ DOMAIN versions' = 1 .. Len(versions') /\ Len(versions') \in Nat
         /\ DOMAIN versions \subseteq DOMAIN versions'
         /\ 0 .. Len(versions) \subseteq 0 .. Len(versions')
<1>1. DOMAIN versions = 1 .. Len(versions) /\ Len(versions) \in Nat BY DEF ServerOK
<1>2. DOMAIN versions' = 1 .. Len(versions') /\ Len(versions') \in Nat BY DEF ServerOK
<1> QED BY <1>1, <1>2 DEF Grows

\* Whatever the server does, the chain and what is known of the row stay right.
LEMMA ServerKeeps ==
  ASSUME IInv, UNCHANGED <<page, view, chain>>, ServerOK', Grows, VersionsInv', UndoInv'
  PROVE  IInv'
<1>1. ServerOK BY DEF IInv, TypeOK, ServerOK
<1>2. /\ DOMAIN versions = 1 .. Len(versions) /\ Len(versions) \in Nat
      /\ DOMAIN versions \subseteq DOMAIN versions'
      /\ 0 .. Len(versions) \subseteq 0 .. Len(versions')
  BY <1>1, GrowsFacts
<1>3. \A n \in DOMAIN versions : versions'[n] = versions[n] BY DEF Grows
<1>4. TypeOK'
  <2>1. was' \in Seq(0 .. Len(versions'))
    <3>1. was \in Seq(0 .. Len(versions)) BY DEF IInv, TypeOK
    <3>2. was \in Seq(0 .. Len(versions')) BY <3>1, <1>2, SeqMonotonic
    <3> QED BY <3>2 DEF chain
  <2>2. page' \in 0 .. Len(versions') BY <1>2 DEF IInv, TypeOK
  <2>3. versionsShown' = versionsShown BY DEF versionsShown, chain
  <2> QED BY <2>1, <2>2, <2>3 DEF IInv, TypeOK, ServerOK, chain
<1>5. page # 0 => page \in DOMAIN versions BY <1>2 DEF IInv, TypeOK
<1>6. WalkInv'
  <2>1. phase' = "folded" => rp' = versions'[page'].roll
    BY <1>2, <1>3, <1>5 DEF IInv, WalkInv, chain
  <2>2. ASSUME phase' = "walking", faithful'
        PROVE  /\ was'[Len(was')] \in DOMAIN versions'
               /\ rp' = versions'[was'[Len(was')]].roll
               /\ \A k \in DOMAIN out' : \A c \in Col : out'[k].vals[c] = versions'[was'[k]].vals[c]
    <3>1. /\ was[Len(was)] \in DOMAIN versions /\ rp = versions[was[Len(was)]].roll
          /\ \A k \in DOMAIN out : isVersion(out[k])
          /\ \A k \in DOMAIN out : \A c \in Col : out[k].vals[c] = versions[was[k]].vals[c]
      BY <2>2 DEF IInv, WalkInv, chain
    <3>2. \A k \in DOMAIN out : was[k] \in DOMAIN versions
      BY <3>1, <2>2 DEF IInv, VersionsWereTheRow, versionsShown, chain
    <3> QED BY <3>1, <3>2, <1>2, <1>3 DEF chain
  <2> QED BY <2>1, <2>2 DEF IInv, WalkInv, chain
<1>7. VersionsWereTheRow'
  <2>1. SUFFICES ASSUME faithful', NEW k \in versionsShown'
        PROVE  /\ k \in DOMAIN was' /\ was'[k] \in DOMAIN versions'
               /\ was'[k] = IF k = 1 THEN page' ELSE versions'[was'[k - 1]].prev
               /\ out'[k].trx = versions'[was'[k]].trx /\ out'[k].del = versions'[was'[k]].del
               /\ \/ k < Len(out') /\ out'[k + 1].hkey = "undecoded"
                  \/ \A c \in Col : out'[k].vals[c] = versions'[was'[k]].vals[c]
    BY DEF VersionsWereTheRow
  <2>2. faithful /\ k \in versionsShown BY <2>1 DEF chain, versionsShown
  <2>3. /\ k \in DOMAIN was /\ was[k] \in DOMAIN versions
        /\ was[k] = IF k = 1 THEN page ELSE versions[was[k - 1]].prev
        /\ out[k].trx = versions[was[k]].trx /\ out[k].del = versions[was[k]].del
        /\ \/ k < Len(out) /\ out[k + 1].hkey = "undecoded"
           \/ \A c \in Col : out[k].vals[c] = versions[was[k]].vals[c]
    BY <2>2 DEF IInv, VersionsWereTheRow
  <2>4. k # 1 => was[k - 1] \in DOMAIN versions
    <3>1. DOMAIN out = 1 .. Len(out) /\ Len(out) \in Nat BY DEF IInv, OutInv, IsSeq
    <3>2. SUFFICES ASSUME k # 1 PROVE k - 1 \in versionsShown
      BY <2>2 DEF IInv, VersionsWereTheRow
    <3>3. k \in 2 .. Len(out) /\ k - 1 \in DOMAIN out /\ k - 1 < Len(out)
      BY <3>1, <3>2, <2>2 DEF versionsShown
    <3> QED BY <3>3 DEF IInv, OutInv, versionsShown
  <2> QED BY <2>3, <2>4, <1>2, <1>3 DEF chain
<1>8. ChainIsWhole'
  <2>1. SUFFICES ASSUME phase' = "shown", faithful', i' < maxVersions,
                        out'[Len(out')].hkey \notin {"error", "undecoded"}
        PROVE  versionsShown' = DOMAIN was' /\ versions'[was'[Len(was')]].prev = 0
    BY DEF ChainIsWhole
  <2>2. versionsShown = DOMAIN was /\ versions[was[Len(was)]].prev = 0
    BY <2>1 DEF IInv, ChainIsWhole, chain
  <2>3. was[Len(was)] \in DOMAIN versions
    <3>1. was \in Seq(0 .. Len(versions)) /\ was # <<>>
      BY <2>1 DEF IInv, TypeOK, WalkInv, chain
    <3>2. Len(was) \in DOMAIN was BY <3>1
    <3> QED BY <3>2, <2>1, <2>2 DEF IInv, VersionsWereTheRow, chain
  <2> QED BY <2>2, <2>3, <1>3 DEF versionsShown, chain
<1> QED BY <1>4, <1>6, <1>7, <1>8 DEF IInv, OutInv, ChainEnds, MarksFollowView, versionsShown, chain, IsSeq, IsNode

\* What an undo record holds stays right as versions are added.
LEMMA RestoresKept ==
  ASSUME IInv, NEW n \in DOMAIN versions, NEW rec, Restores(versions, rec, n),
         \A m \in DOMAIN versions : versions'[m] = versions[m]
  PROVE  Restores(versions', rec, n)
<1>1. versions[n].prev # 0 => versions[n].prev \in DOMAIN versions
  <2>1. versions \in Seq(Version) /\ DOMAIN versions = 1 .. Len(versions) /\ Len(versions) \in Nat
    BY DEF IInv, TypeOK
  <2>2. versions[n] \in Version BY <2>1, ElementOfSeq
  <2>3. versions[n].prev \in Nat /\ versions[n].prev < n
    BY <2>2 DEF IInv, VersionsInv, Version
  <2> QED BY <2>1, <2>3
<1>2. versions'[n] = versions[n] OBVIOUS
<1> QED BY <1>1, <1>2 DEF Restores

\* The old values of no column.
LEMMA NoOldVal == <<>> \in OldVal /\ DOMAIN <<>> = {}
<1>1. DOMAIN <<>> = {} OBVIOUS
<1>2. <<>> \in [{} -> Val] BY <1>1
<1> QED BY <1>1, <1>2 DEF OldVal

\* A change of the row with the undo record that takes it back.
LEMMA ChangeKeeps ==
  ASSUME IInv, NEW t \in active, NEW vals \in Row, NEW del \in BOOLEAN,
         NEW type \in TRX_UNDO_INSERT_REC .. TRX_UNDO_DEL_MARK_REC, NEW s \in Slot,
         NEW err \in BOOLEAN, NEW upd \in OldVal,
         change(t, vals, del, type, s, err, upd),
         type = TRX_UNDO_INSERT_REC <=> row = 0,
         row # 0 /\ ~err => \A c \in Col :
           (IF c \in DOMAIN upd THEN upd[c] ELSE vals[c]) = versions[row].vals[c]
  PROVE  IInv'
<1> DEFINE n   == Len(versions) + 1
           ver == [vals |-> vals, trx |-> t, roll |-> s, del |-> del, prev |-> row]
           rec == [Type  |-> type, Upd |-> upd, Err |-> err, of |-> n,
                   TrxID |-> IF row = 0 THEN 0 ELSE versions[row].trx,
                   Roll  |-> IF row = 0 THEN Zero ELSE versions[row].roll,
                   del   |-> row # 0 /\ versions[row].del]
<1>1. /\ versions \in Seq(Version) /\ Len(versions) \in Nat /\ DOMAIN versions = 1 .. Len(versions)
      /\ row \in 0 .. Len(versions) /\ t \in Nat
      /\ undo \in [Slot -> UndoRec \cup {None}] /\ made \in [Slot -> 0 .. Len(versions)]
  BY DEF IInv, TypeOK
<1>2. /\ versions' = Append(versions, ver) /\ row' = n /\ undo' = [undo EXCEPT ![s] = rec]
      /\ made' = [made EXCEPT ![s] = n] /\ writer' = t
      /\ UNCHANGED <<started, active, snap, page, view, chain>>
  BY DEF change
<1>3. ver \in Version BY <1>1 DEF Version, Ptr
<1>4. /\ versions' \in Seq(Version) /\ Len(versions') = n
      /\ \A m \in DOMAIN versions : versions'[m] = versions[m]
      /\ versions'[n] = ver
  <2> HIDE DEF ver
  <2>1. /\ Append(versions, ver) \in Seq(Version) /\ Len(Append(versions, ver)) = Len(versions) + 1
        /\ \A m \in 1 .. Len(versions) : Append(versions, ver)[m] = versions[m]
        /\ Append(versions, ver)[Len(versions) + 1] = ver
    BY <1>1, <1>3, AppendProperties
  <2> QED BY <2>1, <1>1, <1>2
<1>5. Grows BY <1>4, <1>1 DEF Grows
<1>6. row # 0 => versions[row] \in Version /\ row \in DOMAIN versions
  <2>1. SUFFICES ASSUME row # 0 PROVE versions[row] \in Version /\ row \in DOMAIN versions OBVIOUS
  <2>2. row \in 1 .. Len(versions) BY <1>1, <2>1
  <2> QED BY <2>2, <1>1, ElementOfSeq
<1>7. rec \in UndoRec
  <2>1. (IF row = 0 THEN 0 ELSE versions[row].trx) \in Nat BY <1>6 DEF Version
  <2>2. (IF row = 0 THEN Zero ELSE versions[row].roll) \in Ptr BY <1>6 DEF Version, Ptr
  <2>3. (row # 0 /\ versions[row].del) \in BOOLEAN OBVIOUS
  <2>4. n \in Nat BY <1>1
  <2> QED BY <2>1, <2>2, <2>3, <2>4 DEF UndoRec
<1>8. ServerOK'
  <2>1. undo' \in [Slot -> UndoRec \cup {None}] BY <1>1, <1>2, <1>7
  <2>2. made' \in [Slot -> 0 .. n] BY <1>1, <1>2
  <2>3. row' \in 0 .. n BY <1>1, <1>2
  <2> QED BY <2>1, <2>2, <2>3, <1>2, <1>4 DEF IInv, TypeOK, ServerOK
<1>9. DOMAIN versions' = 1 .. n /\ n \in Nat BY <1>4, <1>1
<1>10. VersionsInv'
  <2>1. SUFFICES ASSUME NEW m \in 1 .. n
        PROVE  versions'[m].prev < m /\ (versions'[m].roll = Zero => versions'[m].prev = 0)
    BY <1>9 DEF VersionsInv
  <2>2. CASE m = n
    <3>1. ver.prev = row /\ ver.roll = s OBVIOUS
    <3>2. s # Zero BY VersionsAssumption
    <3> QED BY <2>2, <3>1, <3>2, <1>4, <1>1
  <2>3. CASE m # n
    <3>1. m \in DOMAIN versions BY <2>3, <1>1
    <3> QED BY <3>1, <1>4 DEF IInv, VersionsInv
  <2> QED BY <2>2, <2>3
<1>11. UndoInv'
  <2>1. SUFFICES ASSUME NEW u \in Slot, undo'[u] # None, undo'[u].of # 0
        PROVE  undo'[u].of \in DOMAIN versions' /\ Restores(versions', undo'[u], undo'[u].of)
    BY DEF UndoInv
  <2>2. CASE u = s
    <3>1. undo'[u] = rec BY <2>2, <1>1, <1>2
    <3>2. rec.of = n /\ versions'[n].prev = row /\ versions'[n].vals = vals BY <1>4
    <3>3. row # 0 => versions'[row] = versions[row] BY <1>4, <1>6
    <3>4. n \in DOMAIN versions' BY <1>9, <1>1
    <3>5. rec.Type = TRX_UNDO_INSERT_REC => row = 0 OBVIOUS
    <3>6. ASSUME rec.Type # TRX_UNDO_INSERT_REC
          PROVE  /\ row # 0
                 /\ rec.TrxID = versions[row].trx /\ rec.Roll = versions[row].roll
                 /\ rec.del = versions[row].del
                 /\ ~rec.Err => \A c \in Col :
                      (IF c \in DOMAIN rec.Upd THEN rec.Upd[c] ELSE vals[c]) = versions[row].vals[c]
      <4>1. row # 0 BY <3>6
      <4>2. versions[row].del \in BOOLEAN BY <4>1, <1>6 DEF Version
      <4> QED BY <4>1, <4>2
    <3> HIDE DEF rec, ver
    <3> QED BY <3>1, <3>2, <3>3, <3>4, <3>5, <3>6 DEF Restores
  <2>3. CASE u # s
    <3>1. undo'[u] = undo[u] BY <2>3, <1>1, <1>2
    <3>2. undo[u].of \in DOMAIN versions /\ Restores(versions, undo[u], undo[u].of)
      BY <3>1, <2>1 DEF IInv, UndoInv
    <3> QED BY <3>1, <3>2, RestoresKept, <1>4, <1>9, <1>1
  <2> QED BY <2>2, <2>3
<1> QED BY <1>2, <1>5, <1>8, <1>10, <1>11, ServerKeeps DEF chain

\* What the server does without a new version.
LEMMA NoVersionKeeps ==
  ASSUME IInv, UNCHANGED <<versions, undo, page, view, chain>>, ServerOK'
  PROVE  IInv'
<1>1. Grows
  <2>1. Len(versions) \in Nat BY DEF IInv, TypeOK
  <2> QED BY <2>1 DEF Grows
<1>2. VersionsInv' BY DEF IInv, VersionsInv
<1>3. UndoInv' BY DEF IInv, UndoInv
<1> QED BY <1>1, <1>2, <1>3, ServerKeeps

LEMMA InsertInv ==
  ASSUME IInv, NEW t, NEW s \in Slot, NEW vals \in Row, Insert(t, s, vals)
  PROVE  IInv'
<1>1. /\ t \in active /\ row = 0
      /\ change(t, vals, FALSE, TRX_UNDO_INSERT_REC, s, FALSE, <<>>)
  BY DEF Insert, mayWrite
<1>2. TRX_UNDO_INSERT_REC \in TRX_UNDO_INSERT_REC .. TRX_UNDO_DEL_MARK_REC
  BY DEF TRX_UNDO_INSERT_REC, TRX_UNDO_DEL_MARK_REC
<1> QED BY <1>1, <1>2, NoOldVal, ChangeKeeps

LEMMA UpdateInv ==
  ASSUME IInv, NEW t, NEW s \in Slot, NEW vals \in Row, NEW err \in BOOLEAN, Update(t, s, vals, err)
  PROVE  IInv'
<1> DEFINE old     == versions[row]
           changed == {c \in Col : vals[c] # old.vals[c]}
           type    == IF old.del THEN TRX_UNDO_UPD_DEL_REC ELSE TRX_UNDO_UPD_EXIST_REC
<1>1. t \in active /\ row # 0 BY DEF Update, mayWrite
<1>2. PICK C \in IF err THEN SUBSET changed \ {changed} ELSE {changed} :
        change(t, vals, FALSE, type, s, err, [c \in C |-> old.vals[c]])
  BY DEF Update
<1>3. C \in SUBSET Col /\ (~err => C = changed) BY <1>2
<1>4. old.vals \in Row
  <2>1. versions \in Seq(Version) /\ row \in 1 .. Len(versions) BY <1>1 DEF IInv, TypeOK
  <2>2. versions[row] \in Version BY <2>1, ElementOfSeq
  <2> QED BY <2>2 DEF Version
<1> DEFINE upd == [c \in C |-> old.vals[c]]
<1>5. upd \in OldVal
  <2>1. upd \in [C -> Val] BY <1>3, <1>4 DEF Row
  <2> QED BY <2>1, <1>3 DEF OldVal
<1>6. /\ type \in TRX_UNDO_INSERT_REC .. TRX_UNDO_DEL_MARK_REC
      /\ type # TRX_UNDO_INSERT_REC
  BY DEF TRX_UNDO_INSERT_REC, TRX_UNDO_DEL_MARK_REC, TRX_UNDO_UPD_DEL_REC, TRX_UNDO_UPD_EXIST_REC
<1>7. ~err => \A c \in Col : (IF c \in DOMAIN upd THEN upd[c] ELSE vals[c]) = old.vals[c]
  <2>1. SUFFICES ASSUME ~err, NEW c \in Col
        PROVE  (IF c \in DOMAIN upd THEN upd[c] ELSE vals[c]) = old.vals[c]
    OBVIOUS
  <2>2. DOMAIN upd = changed BY <1>3, <2>1
  <2>3. CASE c \in changed BY <2>2, <2>3, <1>3, <2>1
  <2>4. CASE c \notin changed BY <2>2, <2>4
  <2> QED BY <2>3, <2>4
<1>8. change(t, vals, FALSE, type, s, err, upd) BY <1>2
<1> HIDE DEF upd, type, changed
<1> QED BY <1>1, <1>5, <1>6, <1>7, <1>8, ChangeKeeps

LEMMA DeleteInv ==
  ASSUME IInv, NEW t, NEW s \in Slot, Delete(t, s)
  PROVE  IInv'
<1>1. /\ t \in active /\ row # 0
      /\ change(t, versions[row].vals, TRUE, TRX_UNDO_DEL_MARK_REC, s, FALSE, <<>>)
  BY DEF Delete, mayWrite
<1>2. versions[row].vals \in Row
  <2>1. versions \in Seq(Version) /\ row \in 1 .. Len(versions) BY <1>1 DEF IInv, TypeOK
  <2>2. versions[row] \in Version BY <2>1, ElementOfSeq
  <2> QED BY <2>2 DEF Version
<1>3. /\ TRX_UNDO_DEL_MARK_REC \in TRX_UNDO_INSERT_REC .. TRX_UNDO_DEL_MARK_REC
      /\ TRX_UNDO_DEL_MARK_REC # TRX_UNDO_INSERT_REC
  BY DEF TRX_UNDO_INSERT_REC, TRX_UNDO_DEL_MARK_REC
<1> QED BY <1>1, <1>2, <1>3, NoOldVal, ChangeKeeps

LEMMA StartInv == ASSUME IInv, Start PROVE IInv'
<1>1. ServerOK'
  <2>1. active' \subseteq 1 .. started' /\ started' \in Nat
    <3>1. started \in Nat /\ active \subseteq 1 .. started BY DEF IInv, TypeOK
    <3>2. started' = started + 1 /\ active' = active \cup {started'} BY DEF Start
    <3> QED BY <3>1, <3>2
  <2>2. writer' \in active' \cup {0} BY DEF IInv, TypeOK, Start
  <2> QED BY <2>1, <2>2 DEF IInv, TypeOK, ServerOK, Start
<1> QED BY <1>1, NoVersionKeeps DEF Start

LEMMA RollBackInv == ASSUME IInv, RollBack PROVE IInv'
<1>1. ServerOK'
  <2>1. versions \in Seq(Version) /\ row \in 1 .. Len(versions) /\ DOMAIN versions = 1 .. Len(versions)
    BY DEF IInv, TypeOK, RollBack
  <2>2. versions[row] \in Version BY <2>1, ElementOfSeq
  <2>3. versions[row].prev \in 0 .. Len(versions)
    <3>1. versions[row].prev \in Nat /\ versions[row].prev < row
      BY <2>1, <2>2 DEF Version, IInv, VersionsInv
    <3> QED BY <3>1, <2>1
  <2>4. made' \in [Slot -> 0 .. Len(versions)]
    <3>1. made' = [made EXCEPT ![versions[row].roll] = 0] BY DEF RollBack
    <3>2. made \in [Slot -> 0 .. Len(versions)] /\ Len(versions) \in Nat BY DEF IInv, TypeOK
    <3>3. made' = [u \in Slot |-> IF u = versions[row].roll THEN 0 ELSE made[u]] BY <3>1, <3>2
    <3> QED BY <3>2, <3>3
  <2> QED BY <2>3, <2>4 DEF IInv, TypeOK, ServerOK, RollBack
<1> QED BY <1>1, NoVersionKeeps DEF RollBack

LEMMA CommitInv == ASSUME IInv, NEW t, Commit(t) PROVE IInv'
<1>1. ServerOK' BY DEF IInv, TypeOK, ServerOK, Commit
<1> QED BY <1>1, NoVersionKeeps DEF Commit

LEMMA PurgeInv == ASSUME IInv, NEW s \in Slot, Purge(s) PROVE IInv'
<1>1. ServerOK'
  <2>1. made' \in [Slot -> 0 .. Len(versions)]
    <3>1. made' = [made EXCEPT ![s] = 0] BY DEF Purge
    <3> QED BY <3>1 DEF IInv, TypeOK
  <2>2. row' \in 0 .. Len(versions) BY DEF IInv, TypeOK, Purge
  <2> QED BY <2>1, <2>2 DEF IInv, TypeOK, ServerOK, Purge
<1> QED BY <1>1, NoVersionKeeps DEF Purge

LEMMA SnapshotInv == ASSUME IInv, Snapshot PROVE IInv'
<1>1. ServerOK'
  <2>1. started \in Nat /\ row \in Nat /\ Len(versions) \in Nat BY DEF IInv, TypeOK
  <2> QED BY <2>1 DEF IInv, TypeOK, ServerOK, Snapshot
<1> QED BY <1>1, NoVersionKeeps DEF Snapshot

LEMMA ServerInv == ASSUME IInv, Server PROVE IInv'
BY InsertInv, UpdateInv, DeleteInv, StartInv, RollBackInv, CommitInv, PurgeInv, SnapshotInv DEF Server

-----------------------------------------------------------------------------
(* The chain.                                                              *)

\* What TypeOK asks of a version shown.
VersionOK(n) ==
  /\ n.trx \in Nat /\ n.del \in BOOLEAN /\ n.at \in Ptr /\ n.next \in Ptr
  /\ DOMAIN n.vals = Col \cup {"DB_TRX_ID", "DB_ROLL_PTR"}

\* What OutInv and TypeOK ask of nodes.
NodesOK(nodes) ==
  /\ IsSeq(nodes)
  /\ \A k \in DOMAIN nodes :
       /\ IsNode(nodes[k])
       /\ k < Len(nodes) => isVersion(nodes[k])
       /\ isVersion(nodes[k]) => VersionOK(nodes[k])

\* The node at k is version w[k] of the row, among the versions vs, from p on.
ShownAs(vs, p, nodes, w, k) ==
  /\ k \in DOMAIN w /\ w[k] \in DOMAIN vs
  /\ w[k] = IF k = 1 THEN p ELSE vs[w[k - 1]].prev
  /\ nodes[k].trx = vs[w[k]].trx /\ nodes[k].del = vs[w[k]].del
  /\ \/ k < Len(nodes) /\ nodes[k + 1].hkey = "undecoded"
     \/ \A c \in Col : nodes[k].vals[c] = vs[w[k]].vals[c]

\* Nodes that end where the row began.
Whole(nodes, w) ==
  nodes[Len(nodes)].hkey \notin {"error", "undecoded"} =>
    /\ {k \in DOMAIN nodes : isVersion(nodes[k])} = DOMAIN w
    /\ versions[w[Len(w)]].prev = 0

\* Reading leaves the server alone.
LEMMA ServerSame ==
  ASSUME IInv, UNCHANGED server
  PROVE  ServerOK' /\ VersionsInv' /\ UndoInv' /\ versions' = versions
BY DEF IInv, TypeOK, ServerOK, VersionsInv, UndoInv, server

\* The nodes there are.
LEMMA NodesThere == ASSUME IInv PROVE NodesOK(out)
BY DEF IInv, TypeOK, OutInv, NodesOK, VersionOK, versionsShown

\* Nodes marked and shown.
LEMMA ShowNodes ==
  ASSUME IInv, UNCHANGED <<server, page, rp, i>>, phase' = "shown", view' \in Nat \cup {None},
         NEW nodes, out' = markVisible(nodes, view'), NodesOK(nodes),
         nodes # <<>>, Len(nodes) <= maxVersions + 2,
         was' \in Seq(0 .. Len(versions)), was' # <<>>, faithful' \in BOOLEAN,
         faithful' => \A k \in DOMAIN nodes : isVersion(nodes[k]) => ShownAs(versions, page, nodes, was', k),
         faithful' /\ i < maxVersions => Whole(nodes, was')
  PROVE  IInv'
<1>1. ServerOK' /\ VersionsInv' /\ UndoInv' /\ versions' = versions BY ServerSame
<1>2. /\ IsSeq(out') /\ DOMAIN out' = DOMAIN nodes /\ Len(out') = Len(nodes) /\ Len(nodes) \in Nat
      /\ \A k \in DOMAIN nodes :
           /\ IsNode(out'[k])
           /\ out'[k].hkey = nodes[k].hkey /\ out'[k].trx = nodes[k].trx /\ out'[k].vals = nodes[k].vals
           /\ out'[k].at = nodes[k].at /\ out'[k].next = nodes[k].next /\ out'[k].del = nodes[k].del
  <2>1. IsSeq(nodes) /\ \A k \in DOMAIN nodes : IsNode(nodes[k]) BY DEF NodesOK
  <2> QED BY <2>1, MarkedNodes, SMTT(30)
<1>3. OutInv'
  <2>1. ASSUME NEW k \in DOMAIN nodes PROVE IsNode(out'[k]) /\ (k < Len(nodes) => isVersion(out'[k]))
    <3>1. k < Len(nodes) => isVersion(nodes[k]) BY DEF NodesOK
    <3> QED BY <3>1, <1>2 DEF isVersion
  <2> QED BY <2>1, <1>2 DEF OutInv, IsSeq, IsNode, isVersion
<1>4. versionsShown' = {k \in DOMAIN nodes : isVersion(nodes[k])}
  BY <1>2 DEF versionsShown, isVersion
<1>5. TypeOK'
  <2>1. \A k \in versionsShown' : VersionOK(out'[k])
    BY <1>2, <1>4 DEF NodesOK, VersionOK
  <2> QED BY <2>1, <1>1 DEF IInv, TypeOK, ServerOK, VersionOK
<1>6. WalkInv'
  <2>1. nodes \in Seq({nodes[k] : k \in DOMAIN nodes}) BY DEF NodesOK, IsSeq
  <2>2. Len(nodes) # 0 BY <2>1, EmptySeq
  <2>3. out' # <<>> BY <2>2, <1>2
  <2> QED BY <2>3 DEF WalkInv
<1>7. VersionsWereTheRow'
  <2>1. SUFFICES ASSUME faithful', NEW k \in versionsShown' PROVE ShownAs(versions', page', out', was', k)
    BY DEF VersionsWereTheRow, ShownAs
  <2>2. k \in DOMAIN nodes /\ isVersion(nodes[k]) /\ ShownAs(versions, page, nodes, was', k) BY <1>4, <2>1
  <2>3. DOMAIN nodes = 1 .. Len(nodes) BY DEF NodesOK, IsSeq
  <2>4. k < Len(nodes) => k + 1 \in DOMAIN nodes BY <2>2, <2>3, <1>2
  <2> QED BY <2>2, <2>4, <1>1, <1>2 DEF ShownAs
<1>8. ChainIsWhole'
  <2>1. SUFFICES ASSUME faithful', i' < maxVersions, out'[Len(out')].hkey \notin {"error", "undecoded"}
        PROVE  versionsShown' = DOMAIN was' /\ versions'[was'[Len(was')]].prev = 0
    BY DEF ChainIsWhole
  <2>2. Whole(nodes, was') BY <2>1
  <2>3. Len(nodes) \in DOMAIN nodes
    <3>1. nodes \in Seq({nodes[k] : k \in DOMAIN nodes}) BY DEF NodesOK, IsSeq
    <3> QED BY <3>1
  <2> QED BY <2>1, <2>2, <2>3, <1>1, <1>2, <1>4 DEF Whole
<1>9. ChainEnds' BY <1>2 DEF ChainEnds
<1>10. MarksFollowView'
  <2>1. \A k \in DOMAIN nodes : isVersion(nodes[k]) => nodes[k].trx \in Nat
    BY DEF NodesOK, VersionOK
  <2>2. LET committed == {k \in DOMAIN out' : isVersion(out'[k]) /\ view' # None /\ out'[k].trx <= view'}
        IN  {k \in {k \in DOMAIN out' : isVersion(out'[k])} : out'[k].note = "sees this"} =
              IF committed = {} THEN {} ELSE {Min(committed)}
    <3>1. IsSeq(nodes) /\ \A k \in DOMAIN nodes : IsNode(nodes[k]) BY DEF NodesOK
    <3>2. ASSUME NEW v \in Nat \cup {None}
          PROVE  LET m == markVisible(nodes, v)
                     committed == {k \in DOMAIN m : isVersion(m[k]) /\ v # None /\ m[k].trx <= v}
                 IN  {k \in {k \in DOMAIN m : isVersion(m[k])} : m[k].note = "sees this"} =
                       IF committed = {} THEN {} ELSE {Min(committed)}
      BY <2>1, <3>1, MarkedVersion, ZenonT(30)
    <3> QED BY <3>2
  <2>3. versionsShown' = {k \in DOMAIN out' : isVersion(out'[k])} BY DEF versionsShown, isVersion
  <2>4. {k \in versionsShown' : view' # None /\ out'[k].trx <= view'}
          = {k \in DOMAIN out' : isVersion(out'[k]) /\ view' # None /\ out'[k].trx <= view'}
    BY <2>3
  <2> QED BY <2>2, <2>3, <2>4 DEF MarksFollowView
<1> QED BY <1>1, <1>3, <1>5, <1>6, <1>7, <1>8, <1>9, <1>10 DEF IInv

\* Where a walk stands.
LEMMA Walking ==
  ASSUME IInv, phase = "walking"
  PROVE  /\ i \in Nat /\ i <= maxVersions /\ maxVersions \in Nat /\ rp \in Ptr
         /\ Len(out) = i + 1 /\ DOMAIN out = 1 .. (i + 1)
         /\ was \in Seq(0 .. Len(versions)) /\ Len(was) = i + 1 /\ DOMAIN was = 1 .. (i + 1)
         /\ NodesOK(out) /\ \A k \in DOMAIN out : isVersion(out[k]) /\ VersionOK(out[k])
         /\ faithful =>
              /\ was[i + 1] \in DOMAIN versions /\ rp = versions[was[i + 1]].roll
              /\ \A k \in DOMAIN out :
                   /\ ShownAs(versions, page, out, was, k)
                   /\ \A c \in Col : out[k].vals[c] = versions[was[k]].vals[c]
<1>1. i \in Nat /\ was \in Seq(0 .. Len(versions)) /\ rp \in Ptr BY DEF IInv, TypeOK
<1>2. i <= maxVersions /\ Len(out) = i + 1 /\ Len(was) = i + 1 BY DEF IInv, WalkInv
<1>3. DOMAIN out = 1 .. Len(out) BY DEF IInv, OutInv, IsSeq
<1>4. DOMAIN was = 1 .. Len(was) BY <1>1
<1>5. NodesOK(out) BY NodesThere
<1>6. \A k \in DOMAIN out : isVersion(out[k]) BY DEF IInv, WalkInv
<1>7. \A k \in DOMAIN out : VersionOK(out[k]) BY <1>5, <1>6 DEF NodesOK
<1>8. ASSUME faithful
      PROVE  /\ was[i + 1] \in DOMAIN versions /\ rp = versions[was[i + 1]].roll
             /\ \A k \in DOMAIN out :
                  /\ ShownAs(versions, page, out, was, k)
                  /\ \A c \in Col : out[k].vals[c] = versions[was[k]].vals[c]
  <2>1. /\ was[i + 1] \in DOMAIN versions /\ rp = versions[was[i + 1]].roll
        /\ \A k \in DOMAIN out : \A c \in Col : out[k].vals[c] = versions[was[k]].vals[c]
    BY <1>2, <1>8 DEF IInv, WalkInv
  <2>2. \A k \in DOMAIN out : ShownAs(versions, page, out, was, k)
    BY <1>6, <1>8 DEF IInv, VersionsWereTheRow, versionsShown, ShownAs
  <2> QED BY <2>1, <2>2
<1> QED BY <1>1, <1>2, <1>3, <1>4, <1>5, <1>6, <1>7, <1>8, VersionsAssumption

\* A node after versions alone.
LEMMA AppendNode ==
  ASSUME NEW s, NodesOK(s), \A k \in DOMAIN s : isVersion(s[k]),
         NEW e, IsNode(e), isVersion(e) => VersionOK(e)
  PROVE  /\ NodesOK(Append(s, e))
         /\ Len(s) \in Nat /\ DOMAIN s = 1 .. Len(s)
         /\ Len(Append(s, e)) = Len(s) + 1 /\ DOMAIN Append(s, e) = 1 .. (Len(s) + 1)
         /\ \A k \in 1 .. Len(s) : Append(s, e)[k] = s[k]
         /\ Append(s, e)[Len(s) + 1] = e
<1>1. /\ IsSeq(Append(s, e)) /\ DOMAIN s = 1 .. Len(s) /\ Len(s) \in Nat
      /\ Len(Append(s, e)) = Len(s) + 1 /\ DOMAIN Append(s, e) = 1 .. (Len(s) + 1)
      /\ \A k \in 1 .. Len(s) : Append(s, e)[k] = s[k]
      /\ Append(s, e)[Len(s) + 1] = e
  BY AppendSeq DEF NodesOK
<1>2. ASSUME NEW k \in 1 .. (Len(s) + 1)
      PROVE  /\ IsNode(Append(s, e)[k])
             /\ k < Len(Append(s, e)) => isVersion(Append(s, e)[k])
             /\ isVersion(Append(s, e)[k]) => VersionOK(Append(s, e)[k])
  <2>1. CASE k = Len(s) + 1
    <3>1. Append(s, e)[k] = e /\ ~(k < Len(Append(s, e))) BY <2>1, <1>1
    <3> QED BY <3>1
  <2>2. CASE k \in 1 .. Len(s) BY <2>2, <1>1 DEF NodesOK
  <2> QED BY <2>1, <2>2, <1>1
<1> QED BY <1>1, <1>2 DEF NodesOK

LEMMA AppendLine ==
  ASSUME NEW s, NodesOK(s), \A k \in DOMAIN s : isVersion(s[k]), NEW hk, hk # "row version", NEW trx
  PROVE  LET r == Append(s, lineNode(hk, trx))
         IN  /\ NodesOK(r) /\ Len(r) = Len(s) + 1 /\ DOMAIN r = 1 .. (Len(s) + 1)
             /\ \A k \in 1 .. Len(s) : r[k] = s[k]
             /\ r[Len(s) + 1].hkey = hk /\ ~isVersion(r[Len(s) + 1])
<1> DEFINE e == lineNode(hk, trx)
<1>1. IsNode(e) /\ e.hkey = hk BY DEF lineNode, IsNode
<1>2. ~isVersion(e) BY <1>1 DEF isVersion
<1> HIDE DEF e
<1>3. /\ NodesOK(Append(s, e))
      /\ Len(Append(s, e)) = Len(s) + 1 /\ DOMAIN Append(s, e) = 1 .. (Len(s) + 1)
      /\ \A k \in 1 .. Len(s) : Append(s, e)[k] = s[k]
      /\ Append(s, e)[Len(s) + 1] = e
  BY <1>1, <1>2, AppendNode
<1> QED BY <1>1, <1>2, <1>3 DEF e

LEMMA AppendVersion ==
  ASSUME NEW s, NodesOK(s), \A k \in DOMAIN s : isVersion(s[k]),
         NEW e, IsNode(e), isVersion(e), VersionOK(e)
  PROVE  LET r == Append(s, e)
         IN  /\ NodesOK(r) /\ Len(r) = Len(s) + 1 /\ DOMAIN r = 1 .. (Len(s) + 1)
             /\ \A k \in 1 .. Len(s) : r[k] = s[k]
             /\ r[Len(s) + 1] = e
             /\ \A k \in DOMAIN r : isVersion(r[k])
<1>1. /\ NodesOK(Append(s, e))
      /\ Len(s) \in Nat /\ DOMAIN s = 1 .. Len(s)
      /\ Len(Append(s, e)) = Len(s) + 1 /\ DOMAIN Append(s, e) = 1 .. (Len(s) + 1)
      /\ \A k \in 1 .. Len(s) : Append(s, e)[k] = s[k]
      /\ Append(s, e)[Len(s) + 1] = e
  BY AppendNode
<1>2. ASSUME NEW k \in DOMAIN Append(s, e) PROVE isVersion(Append(s, e)[k])
  <2>1. CASE k = Len(s) + 1 BY <2>1, <1>1
  <2>2. CASE k \in 1 .. Len(s) BY <2>2, <1>1
  <2> QED BY <2>1, <2>2, <1>1
<1> QED BY <1>1, <1>2

\* The chain with the version a record restores.
Back(rec) == Append(out, versionNode(rec.TrxID, older(rec), rp, rec.Roll, rec.del))

LEMMA WalkOverInv == ASSUME IInv, WalkOver PROVE IInv'
<1>1. phase = "walking" /\ ~more /\ finish(out) /\ UNCHANGED <<server, page, view, was, faithful>>
  BY DEF WalkOver
<1>2. /\ i \in Nat /\ i <= maxVersions /\ maxVersions \in Nat
      /\ Len(out) = i + 1 /\ DOMAIN out = 1 .. (i + 1)
      /\ was \in Seq(0 .. Len(versions)) /\ Len(was) = i + 1 /\ DOMAIN was = 1 .. (i + 1)
      /\ NodesOK(out) /\ \A k \in DOMAIN out : isVersion(out[k])
      /\ faithful =>
           /\ was[i + 1] \in DOMAIN versions /\ rp = versions[was[i + 1]].roll
           /\ \A k \in DOMAIN out : ShownAs(versions, page, out, was, k)
  BY <1>1, Walking
<1>3. faithful /\ i < maxVersions => Whole(out, was)
  <2>1. SUFFICES ASSUME faithful, i < maxVersions PROVE Whole(out, was) OBVIOUS
  <2>2. rp = Zero BY <1>1, <2>1 DEF more
  <2>3. versions[was[i + 1]].prev = 0 BY <2>1, <2>2, <1>2 DEF IInv, VersionsInv
  <2> QED BY <2>3, <1>2 DEF Whole
<1>4. out # <<>> /\ was # <<>> BY <1>2
<1>5. Len(out) <= maxVersions + 2 BY <1>2
<1>6. view' \in Nat \cup {None} /\ faithful' \in BOOLEAN BY <1>1 DEF IInv, TypeOK
<1>7. phase' = "shown" /\ out' = markVisible(out, view') /\ UNCHANGED <<server, page, rp, i>>
  BY <1>1 DEF finish
<1> QED BY <1>1, <1>2, <1>3, <1>4, <1>5, <1>6, <1>7, ShowNodes

LEMMA WalkFailInv == ASSUME IInv, WalkFail PROVE IInv'
<1> DEFINE nodes == Append(out, lineNode("error", 0))
<1>1. phase = "walking" /\ more /\ finish(nodes) /\ UNCHANGED <<server, page, view, was, faithful>>
  BY DEF WalkFail
<1>2. /\ i \in Nat /\ i <= maxVersions /\ maxVersions \in Nat
      /\ Len(out) = i + 1 /\ DOMAIN out = 1 .. (i + 1)
      /\ was \in Seq(0 .. Len(versions)) /\ Len(was) = i + 1
      /\ NodesOK(out) /\ \A k \in DOMAIN out : isVersion(out[k])
      /\ faithful => \A k \in DOMAIN out :
           /\ ShownAs(versions, page, out, was, k)
           /\ \A c \in Col : out[k].vals[c] = versions[was[k]].vals[c]
  BY <1>1, Walking
<1>3. /\ NodesOK(nodes) /\ Len(nodes) = i + 2 /\ DOMAIN nodes = 1 .. (i + 2)
      /\ \A k \in 1 .. (i + 1) : nodes[k] = out[k]
      /\ nodes[i + 2].hkey = "error" /\ ~isVersion(nodes[i + 2])
  <2>1. "error" # "row version" OBVIOUS
  <2>2. LET r == Append(out, lineNode("error", 0))
        IN  /\ NodesOK(r) /\ Len(r) = Len(out) + 1 /\ DOMAIN r = 1 .. (Len(out) + 1)
            /\ \A k \in 1 .. Len(out) : r[k] = out[k]
            /\ r[Len(out) + 1].hkey = "error" /\ ~isVersion(r[Len(out) + 1])
    BY <2>1, <1>2, AppendLine
  <2>3. Len(out) = i + 1 /\ i + 1 + 1 = i + 2 BY <1>2
  <2> QED BY <2>2, <2>3
<1> HIDE DEF nodes
<1>6. ASSUME faithful, NEW k \in DOMAIN nodes, isVersion(nodes[k])
      PROVE  ShownAs(versions, page, nodes, was, k)
  <2>1. k \in 1 .. (i + 1) BY <1>2, <1>3, <1>6
  <2> QED BY <2>1, <1>2, <1>3, <1>6 DEF ShownAs
<1>7. Whole(nodes, was) BY <1>3 DEF Whole
<1>8. nodes # <<>> /\ was # <<>> /\ Len(nodes) <= maxVersions + 2 BY <1>1, <1>2, <1>3 DEF more
<1>9. view' \in Nat \cup {None} /\ faithful' \in BOOLEAN BY <1>1 DEF IInv, TypeOK
<1>10. phase' = "shown" /\ out' = markVisible(nodes, view') /\ UNCHANGED <<server, page, rp, i>>
  BY <1>1 DEF finish
<1> QED BY <1>1, <1>2, <1>3, <1>6, <1>7, <1>8, <1>9, <1>10, ShowNodes

\* A walk that goes on.
LEMMA WalkOn ==
  ASSUME IInv, UNCHANGED <<server, page, view>>, phase' = "walking", page # 0,
         i' \in Nat, i' <= maxVersions, rp' \in Ptr,
         NodesOK(out'), \A k \in DOMAIN out' : isVersion(out'[k]), Len(out') = i' + 1,
         was' \in Seq(0 .. Len(versions)), Len(was') = i' + 1, faithful' \in BOOLEAN,
         faithful' =>
           /\ was'[i' + 1] \in DOMAIN versions /\ rp' = versions[was'[i' + 1]].roll
           /\ \A k \in DOMAIN out' :
                /\ ShownAs(versions, page, out', was', k)
                /\ \A c \in Col : out'[k].vals[c] = versions[was'[k]].vals[c]
  PROVE  IInv'
<1>1. ServerOK' /\ VersionsInv' /\ UndoInv' /\ versions' = versions BY ServerSame
<1>2. OutInv' BY DEF NodesOK, OutInv, isVersion, IsSeq, IsNode
<1>3. TypeOK'
  <2>1. \A k \in versionsShown' : VersionOK(out'[k]) BY DEF versionsShown, isVersion, NodesOK
  <2> QED BY <2>1, <1>1 DEF IInv, TypeOK, ServerOK, VersionOK
<1>4. WalkInv'
  <2>1. was' # <<>> /\ out' # <<>> OBVIOUS
  <2>2. \A k \in DOMAIN out' : isVersion(out[k])' BY DEF isVersion
  <2> QED BY <2>1, <2>2, <1>1 DEF WalkInv
<1>5. VersionsWereTheRow'
  <2>1. ASSUME faithful', NEW k \in versionsShown' PROVE ShownAs(versions', page', out', was', k)
    BY <2>1, <1>1 DEF versionsShown
  <2> QED BY <2>1 DEF VersionsWereTheRow, ShownAs
<1>6. ChainIsWhole' /\ MarksFollowView' BY DEF ChainIsWhole, MarksFollowView
<1>7. ChainEnds' BY VersionsAssumption DEF ChainEnds
<1> QED BY <1>1, <1>2, <1>3, <1>4, <1>5, <1>6, <1>7 DEF IInv

\* What a record read at a roll pointer says of the version the walk stands on.
LEMMA RecordRead ==
  ASSUME IInv, phase = "walking", more, NEW rec \in onDisk(rp)
  PROVE  /\ rec \in UndoRec /\ before \in 0 .. Len(versions)
         /\ faithful /\ rec.of = was[i + 1] =>
              /\ Restores(versions, rec, was[i + 1])
              /\ before = versions[was[i + 1]].prev
              /\ before # 0 => before \in DOMAIN versions
<1> DEFINE n == was[i + 1]
<1>1. /\ was \in Seq(0 .. Len(versions)) /\ Len(was) = i + 1 /\ DOMAIN was = 1 .. (i + 1) /\ i \in Nat
      /\ rp \in Ptr /\ (faithful => n \in DOMAIN versions)
  BY Walking
<1>2. rp # Zero /\ rp \in Slot BY <1>1 DEF more, Ptr
<1>3. rec \in Foreign \/ (rec = undo[rp] /\ undo[rp] # None) BY <1>2 DEF onDisk
<1>4. rec \in UndoRec BY <1>2, <1>3, VersionsAssumption DEF IInv, TypeOK
<1>5. n \in 0 .. Len(versions) BY <1>1
<1>6. versions \in Seq(Version) /\ DOMAIN versions = 1 .. Len(versions) /\ Len(versions) \in Nat
  BY DEF IInv, TypeOK
<1>7. n # 0 => versions[n].prev \in Nat /\ versions[n].prev < n
  <2>1. SUFFICES ASSUME n # 0 PROVE versions[n].prev \in Nat /\ versions[n].prev < n OBVIOUS
  <2>2. n \in 1 .. Len(versions) BY <2>1, <1>5, <1>6
  <2>3. versions[n] \in Version BY <2>2, <1>6, ElementOfSeq
  <2> QED BY <2>2, <2>3, <1>6 DEF Version, IInv, VersionsInv
<1>8. before = IF n = 0 THEN 0 ELSE versions[n].prev BY <1>1 DEF before
<1>9. before \in 0 .. Len(versions) BY <1>5, <1>6, <1>7, <1>8
<1>10. ASSUME faithful, rec.of = n
       PROVE  /\ Restores(versions, rec, n) /\ before = versions[n].prev
              /\ before # 0 => before \in DOMAIN versions
  <2>1. n \in DOMAIN versions /\ n # 0 BY <1>10, <1>1, <1>6
  <2>2. rec = undo[rp] /\ undo[rp] # None BY <2>1, <1>3, <1>10, VersionsAssumption
  <2>3. Restores(versions, rec, n) BY <2>1, <2>2, <1>2, <1>10 DEF IInv, UndoInv
  <2> QED BY <2>1, <2>3, <1>6, <1>8, <1>9
<1> QED BY <1>4, <1>9, <1>10

LEMMA WalkEndInv == ASSUME IInv, NEW rec \in onDisk(rp), WalkStep(rec), endsChain(rec) PROVE IInv'
<1> DEFINE nodes == Append(out, lineNode("no earlier version", rec.TrxID))
<1>1. /\ phase = "walking" /\ more /\ finish(nodes) /\ UNCHANGED <<server, page, view, was>>
      /\ faithful' => faithful /\ rec.of = was[Len(was)]
  BY DEF WalkStep
<1>2. /\ i \in Nat /\ i <= maxVersions /\ maxVersions \in Nat
      /\ Len(out) = i + 1 /\ DOMAIN out = 1 .. (i + 1)
      /\ was \in Seq(0 .. Len(versions)) /\ Len(was) = i + 1 /\ DOMAIN was = 1 .. (i + 1)
      /\ NodesOK(out) /\ \A k \in DOMAIN out : isVersion(out[k])
      /\ faithful => \A k \in DOMAIN out :
           /\ ShownAs(versions, page, out, was, k)
           /\ \A c \in Col : out[k].vals[c] = versions[was[k]].vals[c]
  BY <1>1, Walking
<1>3. /\ NodesOK(nodes) /\ Len(nodes) = i + 2 /\ DOMAIN nodes = 1 .. (i + 2)
      /\ \A k \in 1 .. (i + 1) : nodes[k] = out[k]
      /\ ~isVersion(nodes[i + 2])
  <2>1. "no earlier version" # "row version" OBVIOUS
  <2>2. LET r == Append(out, lineNode("no earlier version", rec.TrxID))
        IN  /\ NodesOK(r) /\ Len(r) = Len(out) + 1 /\ DOMAIN r = 1 .. (Len(out) + 1)
            /\ \A k \in 1 .. Len(out) : r[k] = out[k]
            /\ r[Len(out) + 1].hkey = "no earlier version" /\ ~isVersion(r[Len(out) + 1])
    BY <2>1, <1>2, AppendLine
  <2>3. Len(out) = i + 1 /\ i + 1 + 1 = i + 2 BY <1>2
  <2> QED BY <2>2, <2>3
<1> HIDE DEF nodes
<1>6. ASSUME faithful', NEW k \in DOMAIN nodes, isVersion(nodes[k])
      PROVE  ShownAs(versions, page, nodes, was', k)
  <2>1. k \in 1 .. (i + 1) BY <1>2, <1>3, <1>6
  <2> QED BY <2>1, <1>1, <1>2, <1>3, <1>6 DEF ShownAs
<1>7. ASSUME faithful' PROVE Whole(nodes, was')
  <2>1. Restores(versions, rec, was[i + 1]) BY <1>1, <1>2, <1>7, RecordRead
  <2>2. versions[was[i + 1]].prev = 0 BY <2>1 DEF Restores, endsChain
  <2>3. {k \in DOMAIN nodes : isVersion(nodes[k])} = DOMAIN was BY <1>2, <1>3
  <2> QED BY <2>2, <2>3, <1>1, <1>2 DEF Whole
<1>8. nodes # <<>> /\ was # <<>> /\ Len(nodes) <= maxVersions + 2 BY <1>1, <1>2, <1>3 DEF more
<1>9. view' \in Nat \cup {None} /\ faithful' \in BOOLEAN BY <1>1 DEF IInv, TypeOK, WalkStep
<1>10. phase' = "shown" /\ out' = markVisible(nodes, view') /\ UNCHANGED <<server, page, rp, i>>
  BY <1>1 DEF finish
<1> QED BY <1>1, <1>2, <1>3, <1>6, <1>7, <1>8, <1>9, <1>10, ShowNodes

\* The version a record restores.
LEMMA OlderVersion ==
  ASSUME IInv, NEW rec \in onDisk(rp), WalkStep(rec), ~endsChain(rec)
  PROVE  /\ NodesOK(Back(rec)) /\ Len(Back(rec)) = i + 2 /\ DOMAIN Back(rec) = 1 .. (i + 2)
         /\ \A k \in DOMAIN Back(rec) : isVersion(Back(rec)[k])
         /\ was' \in Seq(0 .. Len(versions)) /\ Len(was') = i + 2
         /\ rec.Roll \in Ptr /\ faithful' \in BOOLEAN
         /\ faithful' =>
              /\ was'[i + 2] \in DOMAIN versions /\ rec.Roll = versions[was'[i + 2]].roll
              /\ \A k \in DOMAIN Back(rec) :
                   /\ k \in DOMAIN was' /\ was'[k] \in DOMAIN versions
                   /\ was'[k] = IF k = 1 THEN page ELSE versions[was'[k - 1]].prev
                   /\ Back(rec)[k].trx = versions[was'[k]].trx /\ Back(rec)[k].del = versions[was'[k]].del
                   /\ k # i + 2 \/ ~rec.Err =>
                        \A c \in Col : Back(rec)[k].vals[c] = versions[was'[k]].vals[c]
<1> DEFINE back == Back(rec)
           b    == versionNode(rec.TrxID, older(rec), rp, rec.Roll, rec.del)
<1>1. /\ phase = "walking" /\ more /\ was' = Append(was, before)
      /\ faithful' => faithful /\ rec.of = was[Len(was)]
  BY DEF WalkStep
<1>2. /\ i \in Nat /\ i <= maxVersions /\ maxVersions \in Nat /\ rp \in Ptr
      /\ Len(out) = i + 1 /\ DOMAIN out = 1 .. (i + 1)
      /\ was \in Seq(0 .. Len(versions)) /\ Len(was) = i + 1 /\ DOMAIN was = 1 .. (i + 1)
      /\ NodesOK(out) /\ \A k \in DOMAIN out : isVersion(out[k]) /\ VersionOK(out[k])
      /\ faithful =>
           \A k \in DOMAIN out :
             /\ ShownAs(versions, page, out, was, k)
             /\ \A c \in Col : out[k].vals[c] = versions[was[k]].vals[c]
  BY <1>1, Walking
<1>3. /\ rec \in UndoRec /\ before \in 0 .. Len(versions)
      /\ faithful' =>
           /\ Restores(versions, rec, was[i + 1])
           /\ before = versions[was[i + 1]].prev
           /\ before # 0 => before \in DOMAIN versions
  BY <1>1, <1>2, RecordRead
<1>4. /\ was' \in Seq(0 .. Len(versions)) /\ Len(was') = i + 2 /\ DOMAIN was' = 1 .. (i + 2)
      /\ \A k \in 1 .. (i + 1) : was'[k] = was[k]
      /\ was'[i + 2] = before
  BY <1>1, <1>2, <1>3, AppendProperties
<1>5. DOMAIN older(rec) = Col \cup {"DB_TRX_ID", "DB_ROLL_PTR"}
      /\ \A c \in Col : older(rec)[c] = IF c \in DOMAIN rec.Upd THEN rec.Upd[c] ELSE out[i + 1].vals[c]
  <2>1. VersionOK(out[i + 1]) BY <1>2
  <2>2. DOMAIN out[i + 1].vals = Col \cup {"DB_TRX_ID", "DB_ROLL_PTR"} BY <2>1 DEF VersionOK
  <2>3. older(rec) = [c \in DOMAIN out[i + 1].vals |->
                        IF c \in DOMAIN rec.Upd THEN rec.Upd[c] ELSE out[i + 1].vals[c]]
    BY <1>2 DEF older, applyUndo
  <2> HIDE DEF b
  <2> QED BY <2>2, <2>3
<1>6. /\ b.trx = rec.TrxID /\ b.vals = older(rec) /\ b.at = rp /\ b.next = rec.Roll /\ b.del = rec.del
      /\ b.hkey = "row version"
  BY DEF versionNode
<1>7. rec.TrxID \in Nat /\ rec.Roll \in Ptr /\ rec.del \in BOOLEAN BY <1>3 DEF UndoRec
<1>8. VersionOK(b) BY <1>2, <1>5, <1>6, <1>7 DEF VersionOK
<1>9. /\ NodesOK(back) /\ Len(back) = i + 2 /\ DOMAIN back = 1 .. (i + 2)
      /\ \A k \in 1 .. (i + 1) : back[k] = out[k]
      /\ back[i + 2] = b /\ \A k \in DOMAIN back : isVersion(back[k])
  <2>1. IsNode(b) /\ isVersion(b) BY DEF versionNode, IsNode, isVersion
  <2>2. back = Append(out, b) BY DEF Back
  <2> HIDE DEF b, back
  <2>3. \A k \in DOMAIN out : isVersion(out[k]) BY <1>2
  <2>4. LET r == Append(out, b)
        IN  /\ NodesOK(r) /\ Len(r) = Len(out) + 1 /\ DOMAIN r = 1 .. (Len(out) + 1)
            /\ \A k \in 1 .. Len(out) : r[k] = out[k]
            /\ r[Len(out) + 1] = b
            /\ \A k \in DOMAIN r : isVersion(r[k])
    BY <2>1, <2>3, <1>2, <1>8, AppendVersion
  <2>5. Len(out) = i + 1 /\ i + 1 + 1 = i + 2 BY <1>2
  <2> QED BY <2>2, <2>4, <2>5
<1> HIDE DEF b, back
<1>11. ASSUME faithful'
       PROVE  /\ before \in DOMAIN versions /\ rec.Roll = versions[before].roll
              /\ rec.TrxID = versions[before].trx /\ rec.del = versions[before].del
              /\ ~rec.Err => \A c \in Col : older(rec)[c] = versions[before].vals[c]
  <2>1. /\ Restores(versions, rec, was[i + 1]) /\ before = versions[was[i + 1]].prev
        /\ before # 0 => before \in DOMAIN versions
    BY <1>3, <1>11
  <2>2. /\ before # 0 /\ rec.TrxID = versions[before].trx /\ rec.Roll = versions[before].roll
        /\ rec.del = versions[before].del
        /\ ~rec.Err => \A c \in Col :
             (IF c \in DOMAIN rec.Upd THEN rec.Upd[c] ELSE versions[was[i + 1]].vals[c]) = versions[before].vals[c]
    BY <2>1 DEF Restores, endsChain
  <2>3. \A c \in Col : out[i + 1].vals[c] = versions[was[i + 1]].vals[c]
    <3>1. i + 1 \in DOMAIN out /\ faithful BY <1>1, <1>2, <1>11
    <3> QED BY <3>1, <1>2
  <2> QED BY <2>1, <2>2, <2>3, <1>5
<1>12. ASSUME faithful', NEW k \in DOMAIN back
       PROVE  /\ k \in DOMAIN was' /\ was'[k] \in DOMAIN versions
              /\ was'[k] = IF k = 1 THEN page ELSE versions[was'[k - 1]].prev
              /\ back[k].trx = versions[was'[k]].trx /\ back[k].del = versions[was'[k]].del
              /\ k # i + 2 \/ ~rec.Err =>
                   \A c \in Col : back[k].vals[c] = versions[was'[k]].vals[c]
  <2>1. CASE k \in 1 .. (i + 1)
    <3>1. /\ ShownAs(versions, page, out, was, k)
          /\ \A c \in Col : out[k].vals[c] = versions[was[k]].vals[c]
      BY <2>1, <1>1, <1>2, <1>12
    <3>2. was'[k] = was[k] /\ back[k] = out[k] /\ k \in DOMAIN was'
          /\ (k # 1 => was'[k - 1] = was[k - 1])
      BY <2>1, <1>2, <1>4, <1>9
    <3> QED BY <3>1, <3>2 DEF ShownAs
  <2>2. CASE k = i + 2
    <3>1. was'[k] = before /\ back[k] = b /\ k # 1 /\ was'[k - 1] = was[i + 1] /\ k \in DOMAIN was'
      BY <2>2, <1>2, <1>4, <1>9
    <3>2. before = versions[was[i + 1]].prev BY <1>3, <1>12
    <3> QED BY <2>2, <3>1, <3>2, <1>6, <1>11, <1>12
  <2> QED BY <2>1, <2>2, <1>2, <1>9
<1>13. faithful' \in BOOLEAN BY DEF IInv, TypeOK, WalkStep
<1>14. faithful' => was'[i + 2] \in DOMAIN versions /\ rec.Roll = versions[was'[i + 2]].roll
  BY <1>4, <1>11
<1> QED BY <1>4, <1>7, <1>9, <1>12, <1>13, <1>14 DEF back

LEMMA WalkUndecodedInv ==
  ASSUME IInv, NEW rec \in onDisk(rp), WalkStep(rec), ~endsChain(rec), rec.Err PROVE IInv'
<1> DEFINE back  == Back(rec)
           nodes == Append(back, lineNode("undecoded", 0))
<1>1. phase = "walking" /\ more /\ finish(nodes) /\ UNCHANGED <<server, page, view>>
  BY DEF WalkStep, Back
<1> HIDE DEF back
<1>2. /\ NodesOK(back) /\ Len(back) = i + 2 /\ DOMAIN back = 1 .. (i + 2)
      /\ \A k \in DOMAIN back : isVersion(back[k])
      /\ was' \in Seq(0 .. Len(versions)) /\ Len(was') = i + 2 /\ faithful' \in BOOLEAN
      /\ faithful' =>
           \A k \in DOMAIN back :
             /\ k \in DOMAIN was' /\ was'[k] \in DOMAIN versions
             /\ was'[k] = IF k = 1 THEN page ELSE versions[was'[k - 1]].prev
             /\ back[k].trx = versions[was'[k]].trx /\ back[k].del = versions[was'[k]].del
             /\ k # i + 2 \/ ~rec.Err =>
                  \A c \in Col : back[k].vals[c] = versions[was'[k]].vals[c]
  BY OlderVersion DEF back
<1>3. i \in Nat /\ maxVersions \in Nat /\ i < maxVersions BY <1>1, Walking DEF more
<1>4. /\ NodesOK(nodes) /\ Len(nodes) = i + 3 /\ DOMAIN nodes = 1 .. (i + 3)
      /\ \A k \in 1 .. (i + 2) : nodes[k] = back[k]
      /\ nodes[i + 3].hkey = "undecoded" /\ ~isVersion(nodes[i + 3])
  <2>1. "undecoded" # "row version" OBVIOUS
  <2>2. LET r == Append(back, lineNode("undecoded", 0))
        IN  /\ NodesOK(r) /\ Len(r) = Len(back) + 1 /\ DOMAIN r = 1 .. (Len(back) + 1)
            /\ \A k \in 1 .. Len(back) : r[k] = back[k]
            /\ r[Len(back) + 1].hkey = "undecoded" /\ ~isVersion(r[Len(back) + 1])
    BY <2>1, <1>2, AppendLine
  <2>3. Len(back) = i + 2 /\ i + 2 + 1 = i + 3 BY <1>2, <1>3
  <2> QED BY <2>2, <2>3
<1> HIDE DEF nodes
<1>7. ASSUME faithful', NEW k \in DOMAIN nodes, isVersion(nodes[k])
      PROVE  ShownAs(versions, page, nodes, was', k)
  <2>1. k \in 1 .. (i + 2) /\ k \in DOMAIN back BY <1>2, <1>3, <1>4, <1>7
  <2>2. nodes[k] = back[k] BY <2>1, <1>4
  <2>3. k = i + 2 => k < Len(nodes) /\ nodes[k + 1].hkey = "undecoded"
    <3>1. i + 2 + 1 = i + 3 /\ i + 2 < i + 3 BY <1>3
    <3> QED BY <3>1, <1>4
  <2> QED BY <2>1, <2>2, <2>3, <1>2, <1>7 DEF ShownAs
<1>8. Whole(nodes, was') BY <1>4 DEF Whole
<1>9. nodes # <<>> /\ was' # <<>> /\ Len(nodes) <= maxVersions + 2 BY <1>2, <1>3, <1>4
<1>10. view' \in Nat \cup {None} BY <1>1 DEF IInv, TypeOK
<1>11. phase' = "shown" /\ out' = markVisible(nodes, view') /\ UNCHANGED <<server, page, rp, i>>
  BY <1>1 DEF finish
<1> QED BY <1>1, <1>2, <1>4, <1>7, <1>8, <1>9, <1>10, <1>11, ShowNodes

LEMMA WalkStepInv == ASSUME IInv, NEW rec \in onDisk(rp), WalkStep(rec) PROVE IInv'
<1>1. CASE endsChain(rec) BY <1>1, WalkEndInv
<1>2. CASE ~endsChain(rec) /\ rec.Err BY <1>2, WalkUndecodedInv
<1>3. CASE ~endsChain(rec) /\ ~rec.Err
  <2> DEFINE back == Back(rec)
  <2>1. /\ phase = "walking" /\ more /\ out' = back /\ rp' = rec.Roll /\ i' = i + 1
        /\ UNCHANGED <<server, page, view, phase>>
    BY <1>3 DEF WalkStep, Back
  <2> HIDE DEF back
  <2>2. /\ NodesOK(back) /\ Len(back) = i + 2
        /\ \A k \in DOMAIN back : isVersion(back[k])
        /\ was' \in Seq(0 .. Len(versions)) /\ Len(was') = i + 2
        /\ rec.Roll \in Ptr /\ faithful' \in BOOLEAN
        /\ faithful' =>
             /\ was'[i + 2] \in DOMAIN versions /\ rec.Roll = versions[was'[i + 2]].roll
             /\ \A k \in DOMAIN back :
                  /\ k \in DOMAIN was' /\ was'[k] \in DOMAIN versions
                  /\ was'[k] = IF k = 1 THEN page ELSE versions[was'[k - 1]].prev
                  /\ back[k].trx = versions[was'[k]].trx /\ back[k].del = versions[was'[k]].del
                  /\ k # i + 2 \/ ~rec.Err =>
                       \A c \in Col : back[k].vals[c] = versions[was'[k]].vals[c]
    BY <1>3, OlderVersion DEF back
  <2>3. i \in Nat /\ maxVersions \in Nat /\ i < maxVersions BY <2>1, Walking DEF more
  <2>4. i' \in Nat /\ i' <= maxVersions /\ i' + 1 = i + 2 BY <2>1, <2>3
  <2>5. page # 0 BY <2>1 DEF IInv, WalkInv
  <2>6. faithful' => \A k \in DOMAIN out' :
          /\ ShownAs(versions, page, out', was', k)
          /\ \A c \in Col : out'[k].vals[c] = versions[was'[k]].vals[c]
    BY <1>3, <2>1, <2>2 DEF ShownAs
  <2> QED BY <2>1, <2>2, <2>4, <2>5, <2>6, WalkOn
<1> QED BY <1>1, <1>2, <1>3

LEMMA OpenPageInv == ASSUME IInv, NEW n \in DOMAIN versions, OpenPage(n) PROVE IInv'
<1>1. /\ page' = n /\ rp' = versions[n].roll /\ i' = 0 /\ out' = <<>>
      /\ phase' \in {"none", "folded"} /\ was' = <<>> /\ faithful' = TRUE
      /\ UNCHANGED <<server, view>>
  BY DEF OpenPage
<1>2. ServerOK' /\ VersionsInv' /\ UndoInv' /\ versions' = versions BY <1>1, ServerSame
<1>3. versions \in Seq(Version) /\ DOMAIN versions = 1 .. Len(versions) /\ Len(versions) \in Nat
  BY DEF IInv, TypeOK
<1>4. n \in 1 .. Len(versions) BY <1>3
<1>5. versions[n].roll \in Ptr
  <2>1. versions[n] \in Version BY <1>3, <1>4, ElementOfSeq
  <2> QED BY <2>1 DEF Version
<1>6. DOMAIN out' = {} /\ Len(out') = 0 /\ IsSeq(out')
  <2>1. IsSeq(<<>>) BY EmptySeq DEF IsSeq
  <2> QED BY <1>1, <2>1 DEF IsSeq
<1>7. versionsShown' = {} BY <1>6 DEF versionsShown
<1>8. TypeOK'
  <2>1. was' \in Seq(0 .. Len(versions)) BY <1>1
  <2>2. page' \in 0 .. Len(versions') BY <1>1, <1>2, <1>3, <1>4
  <2> QED BY <2>1, <2>2, <1>1, <1>2, <1>5, <1>7 DEF IInv, TypeOK, ServerOK
<1>9. OutInv' BY <1>6 DEF OutInv, IsSeq, IsNode, isVersion
<1>10. WalkInv'
  <2>1. page' # 0 /\ rp' = versions'[page'].roll BY <1>1, <1>2, <1>4
  <2> QED BY <2>1, <1>1 DEF WalkInv
<1>11. VersionsWereTheRow' BY <1>7 DEF VersionsWereTheRow
<1>12. ChainIsWhole' /\ MarksFollowView' BY <1>1 DEF ChainIsWhole, MarksFollowView
<1>13. ChainEnds' BY <1>6, VersionsAssumption DEF ChainEnds
<1> QED BY <1>2, <1>8, <1>9, <1>10, <1>11, <1>12, <1>13 DEF IInv

LEMMA ExpandInv == ASSUME IInv, Expand PROVE IInv'
<1> DEFINE b == versionNode(versions[page].trx, rowImage(versions[page]), Zero, versions[page].roll, versions[page].del)
<1>1. /\ phase = "folded" /\ phase' = "walking" /\ was' = <<page>>
      /\ UNCHANGED <<server, page, view, rp, i, faithful>>
  BY DEF Expand
<1>2. out' = <<b>> BY DEF Expand
<1>3. out = <<>> /\ i = 0 /\ page # 0 /\ rp = versions[page].roll BY <1>1 DEF IInv, WalkInv
<1>4. /\ versions \in Seq(Version) /\ DOMAIN versions = 1 .. Len(versions) /\ Len(versions) \in Nat
      /\ page \in 1 .. Len(versions) /\ rp \in Ptr
  BY <1>3 DEF IInv, TypeOK
<1>5. versions[page] \in Version BY <1>4, ElementOfSeq
<1>6. /\ versions[page].trx \in Nat /\ versions[page].del \in BOOLEAN /\ versions[page].roll \in Ptr
      /\ versions[page].vals \in Row
  BY <1>5 DEF Version
<1>7. /\ DOMAIN rowImage(versions[page]) = Col \cup {"DB_TRX_ID", "DB_ROLL_PTR"}
      /\ \A c \in Col : rowImage(versions[page])[c] = versions[page].vals[c]
  BY VersionsAssumption DEF rowImage
<1>8. /\ b.trx = versions[page].trx /\ b.vals = rowImage(versions[page]) /\ b.at = Zero
      /\ b.next = versions[page].roll /\ b.del = versions[page].del /\ b.hkey = "row version"
  BY DEF versionNode
<1>9. IsNode(b) /\ isVersion(b) BY DEF versionNode, IsNode, isVersion
<1>10. VersionOK(b) BY <1>6, <1>7, <1>8 DEF VersionOK, Ptr
<1> HIDE DEF b
<1>11. Len(out') = 1 /\ DOMAIN out' = {1} /\ out'[1] = b BY <1>2
<1>12. NodesOK(out') /\ \A k \in DOMAIN out' : isVersion(out'[k])
  <2>1. IsSeq(out')
    <3>1. out' \in Seq({b}) BY <1>2
    <3>2. {out'[k] : k \in DOMAIN out'} = {b} BY <1>11
    <3> QED BY <3>1, <3>2 DEF IsSeq
  <2> QED BY <2>1, <1>9, <1>10, <1>11 DEF NodesOK
<1>13. Len(was') = 1 /\ was'[1] = page /\ 1 \in DOMAIN was' /\ was' \in Seq(0 .. Len(versions))
  <2>1. page \in 0 .. Len(versions) BY <1>4
  <2> QED BY <1>1, <2>1
<1>14. i' \in Nat /\ i' <= maxVersions /\ i' + 1 = 1 /\ rp' \in Ptr
  BY <1>1, <1>3, <1>4, VersionsAssumption
<1>15. faithful' \in BOOLEAN BY <1>1 DEF IInv, TypeOK
<1>16. /\ was'[i' + 1] \in DOMAIN versions /\ rp' = versions[was'[i' + 1]].roll
       /\ \A k \in DOMAIN out' :
            /\ ShownAs(versions, page, out', was', k)
            /\ \A c \in Col : out'[k].vals[c] = versions[was'[k]].vals[c]
  <2>1. was'[i' + 1] = page /\ page \in DOMAIN versions /\ rp' = versions[page].roll
    BY <1>1, <1>3, <1>4, <1>13, <1>14
  <2>2. \A c \in Col : b.vals[c] = versions[page].vals[c] BY <1>7, <1>8
  <2>3. b.trx = versions[page].trx /\ b.del = versions[page].del BY <1>8
  <2>4. ASSUME NEW k \in DOMAIN out'
        PROVE  ShownAs(versions, page, out', was', k)
               /\ \A c \in Col : out'[k].vals[c] = versions[was'[k]].vals[c]
    <3>1. k = 1 /\ out'[k] = b /\ was'[k] = page /\ k \in DOMAIN was' BY <2>4, <1>11, <1>13
    <3> QED BY <3>1, <2>1, <2>2, <2>3 DEF ShownAs
  <2> QED BY <2>1, <2>4
<1> QED BY <1>1, <1>3, <1>11, <1>12, <1>13, <1>14, <1>15, <1>16, WalkOn

LEMMA SetReadViewInv == ASSUME IInv, NEW v \in Views, setReadView(v) PROVE IInv'
<1>1. /\ phase # "walking" /\ view' = v /\ out' = markVisible(out, v)
      /\ UNCHANGED <<server, page, rp, i, phase, was, faithful>>
  BY DEF setReadView
<1>2. v \in Nat \cup {None} BY VersionsAssumption
<1>3. phase \in {"none", "folded", "shown"} BY <1>1 DEF IInv, TypeOK
<1>4. IsSeq(out) /\ \A k \in DOMAIN out : IsNode(out[k]) BY DEF IInv, OutInv
<1>5. CASE phase = "shown"
  <2>1. NodesOK(out) BY NodesThere
  <2>2. Len(out) <= maxVersions + 2 BY DEF IInv, ChainEnds
  <2>3. was' \in Seq(0 .. Len(versions)) /\ was' # <<>> /\ faithful' \in BOOLEAN
    BY <1>1, <1>5 DEF IInv, TypeOK, WalkInv
  <2>4. faithful' => \A k \in DOMAIN out : isVersion(out[k]) => ShownAs(versions, page, out, was', k)
    BY <1>1 DEF IInv, VersionsWereTheRow, versionsShown, ShownAs
  <2>5. ASSUME faithful', i < maxVersions PROVE Whole(out, was')
    <3>1. versionsShown = {k \in DOMAIN out : isVersion(out[k])} BY DEF versionsShown
    <3> QED BY <3>1, <2>5, <1>1, <1>5 DEF IInv, ChainIsWhole, Whole
  <2>6. phase' = "shown" /\ view' \in Nat \cup {None} /\ out' = markVisible(out, view')
    BY <1>1, <1>2, <1>5
  <2>7. CASE out # <<>> BY <2>1, <2>2, <2>3, <2>4, <2>5, <2>6, <2>7, <1>1, ShowNodes
  <2>8. CASE out = <<>>
    <3>1. out # <<>> BY <1>5 DEF IInv, WalkInv
    <3> QED BY <2>8, <3>1
  <2> QED BY <2>7, <2>8
<1>6. CASE phase \in {"none", "folded"}
  <2>1. out = <<>> BY <1>6 DEF IInv, WalkInv
  <2>2. out' = out
    <3>1. DOMAIN out = {} BY <2>1
    <3>2. DOMAIN markVisible(out, v) = {} BY <3>1 DEF markVisible
    <3>3. markVisible(out, v) = [k \in {} |-> 0] BY <3>1 DEF markVisible
    <3>4. out = [k \in {} |-> 0] BY <2>1
    <3> QED BY <3>3, <3>4, <1>1
  <2>3. ServerOK' /\ VersionsInv' /\ UndoInv' /\ versions' = versions BY <1>1, ServerSame
  <2>4. TypeOK'
    <3>1. versionsShown' = versionsShown BY <2>2 DEF versionsShown
    <3> QED BY <3>1, <2>2, <2>3, <1>1, <1>2 DEF IInv, TypeOK, ServerOK
  <2>5. OutInv' BY <2>2 DEF IInv, OutInv
  <2>6. WalkInv' BY <2>2, <2>3, <1>1, <1>6 DEF IInv, WalkInv
  <2>7. VersionsWereTheRow'
    <3>1. versionsShown' = {} BY <2>1, <2>2 DEF versionsShown
    <3> QED BY <3>1 DEF VersionsWereTheRow
  <2>8. ChainIsWhole' /\ MarksFollowView' BY <1>1, <1>6 DEF ChainIsWhole, MarksFollowView
  <2>9. ChainEnds' BY <2>2 DEF IInv, ChainEnds
  <2> QED BY <2>3, <2>4, <2>5, <2>6, <2>7, <2>8, <2>9 DEF IInv
<1> QED BY <1>3, <1>5, <1>6

-----------------------------------------------------------------------------
(* Theorems.                                                               *)

LEMMA InitInv == ASSUME Init PROVE IInv
<1>1. /\ out = <<>> /\ was = <<>> /\ phase = "none" /\ i = 0 /\ rp = Zero /\ page = 0
      /\ faithful = TRUE /\ view = None /\ undo = [s \in Slot |-> None] /\ made = [s \in Slot |-> 0]
      /\ started = 0 /\ active = {} /\ writer = 0 /\ snap = None /\ row = Len(versions)
  BY DEF Init
<1>2. versions \in Seq(Version) /\ Len(versions) \in {0, 1} /\ VersionsInv
  <2>1. CASE versions = <<>> BY <2>1 DEF VersionsInv
  <2>2. ASSUME NEW vals \in Row,
               versions = <<[vals |-> vals, trx |-> 0, roll |-> Zero, del |-> FALSE, prev |-> 0]>>
        PROVE  versions \in Seq(Version) /\ Len(versions) \in {0, 1} /\ VersionsInv
    <3> DEFINE x == [vals |-> vals, trx |-> 0, roll |-> Zero, del |-> FALSE, prev |-> 0]
    <3>1. x \in Version BY DEF Version, Ptr
    <3>2. x.prev = 0 OBVIOUS
    <3>3. versions = <<x>> BY <2>2
    <3> HIDE DEF x
    <3>4. versions \in Seq(Version) /\ Len(versions) = 1 BY <3>1, <3>3
    <3>5. DOMAIN versions = {1} /\ versions[1] = x BY <3>3
    <3> QED BY <3>2, <3>4, <3>5 DEF VersionsInv
  <2> QED BY <2>1, <2>2 DEF Init
<1>3. DOMAIN out = {} /\ Len(out) = 0 /\ IsSeq(out)
  <2>1. IsSeq(<<>>) BY EmptySeq DEF IsSeq
  <2> QED BY <1>1, <2>1
<1>4. versionsShown = {} BY <1>3 DEF versionsShown
<1>5. TypeOK
  <2>1. was \in Seq(0 .. Len(versions)) BY <1>1
  <2>2. row \in 0 .. Len(versions) /\ 0 \in 0 .. Len(versions) BY <1>1, <1>2
  <2> QED BY <1>1, <1>2, <1>4, <2>1, <2>2 DEF TypeOK, Ptr
<1>6. UndoInv BY <1>1 DEF UndoInv
<1>7. OutInv BY <1>3 DEF OutInv
<1>8. WalkInv BY <1>1 DEF WalkInv
<1>9. VersionsWereTheRow BY <1>4 DEF VersionsWereTheRow
<1>10. ChainIsWhole /\ MarksFollowView BY <1>1 DEF ChainIsWhole, MarksFollowView
<1>11. ChainEnds BY <1>3, VersionsAssumption DEF ChainEnds
<1> QED BY <1>2, <1>5, <1>6, <1>7, <1>8, <1>9, <1>10, <1>11 DEF IInv

LEMMA NextInv == ASSUME IInv, [Next]_vars PROVE IInv'
<1>1. CASE Server BY <1>1, ServerInv
<1>2. CASE \E n \in DOMAIN versions : OpenPage(n) BY <1>2, OpenPageInv
<1>3. CASE walkVersions BY <1>3, ExpandInv, WalkOverInv, WalkFailInv, WalkStepInv DEF walkVersions
<1>4. CASE \E v \in Views : setReadView(v) BY <1>4, SetReadViewInv
<1>5. CASE UNCHANGED vars
  <2>1. UNCHANGED <<server, page, view, chain>> BY <1>5 DEF vars
  <2>2. ServerOK' /\ VersionsInv' /\ UndoInv' /\ versions' = versions BY <2>1, ServerSame
  <2>3. Grows
    <3>1. Len(versions) \in Nat BY DEF IInv, TypeOK
    <3> QED BY <3>1, <2>2 DEF Grows
  <2> QED BY <2>1, <2>2, <2>3, ServerKeeps
<1> QED BY <1>1, <1>2, <1>3, <1>4, <1>5 DEF Next

-----------------------------------------------------------------------------
(* The snapshot: what the read view is set for.                            *)

\* Transactions write after they start, so the versions there were at the
\* snapshot are those of the transactions it counts as committed; and the row, or
\* what a later version was made from, is that of the snapshot, a later one or none.
SnapInv ==
  /\ \A n \in DOMAIN versions : versions[n].trx <= started
  /\ snap # None =>
       /\ snap.trx <= started /\ snap.row <= snap.n /\ snap.n <= Len(versions)
       /\ \A t \in active : t > snap.trx
       /\ \A n \in DOMAIN versions : versions[n].trx <= snap.trx <=> n <= snap.n
       /\ row \in {0, snap.row} \/ row > snap.n
       /\ \A n \in DOMAIN versions : n > snap.n =>
            versions[n].prev \in {0, snap.row} \/ versions[n].prev > snap.n

\* The versions made: those there were and one of an active transaction.
LEMMA ChangeMade ==
  ASSUME IInv, NEW t, NEW vals, NEW del, NEW type, NEW s, NEW err, NEW upd,
         change(t, vals, del, type, s, err, upd)
  PROVE  /\ versions' = Append(versions, [vals |-> vals, trx |-> t, roll |-> s, del |-> del, prev |-> row])
         /\ row' = Len(versions) + 1 /\ UNCHANGED <<started, active, snap>>
BY DEF change

LEMMA ServerTypes ==
  ASSUME IInv
  PROVE  /\ versions \in Seq(Version) /\ Len(versions) \in Nat /\ DOMAIN versions = 1 .. Len(versions)
         /\ row \in Nat /\ row <= Len(versions) /\ started \in Nat
         /\ \A t \in active : t \in Nat /\ t >= 1 /\ t <= started
         /\ \A n \in DOMAIN versions : versions[n].trx \in Nat /\ versions[n].prev \in Nat
         /\ snap # None => snap.trx \in Nat /\ snap.row \in Nat /\ snap.n \in Nat
<1>1. /\ versions \in Seq(Version) /\ Len(versions) \in Nat /\ DOMAIN versions = 1 .. Len(versions)
      /\ row \in 0 .. Len(versions) /\ started \in Nat /\ active \subseteq 1 .. started
      /\ snap = None \/ snap \in [trx : Nat, row : Nat, n : Nat]
  BY DEF IInv, TypeOK
<1>2. \A n \in DOMAIN versions : versions[n] \in Version BY <1>1, ElementOfSeq
<1>3. \A n \in DOMAIN versions : versions[n].trx \in Nat /\ versions[n].prev \in Nat
  BY <1>2 DEF Version
<1> QED BY <1>1, <1>3

LEMMA ChangeSnap ==
  ASSUME IInv, SnapInv, NEW t \in active, NEW vals, NEW del, NEW type, NEW s, NEW err, NEW upd,
         change(t, vals, del, type, s, err, upd)
  PROVE  SnapInv'
<1> DEFINE n == Len(versions) + 1
           x == [vals |-> vals, trx |-> t, roll |-> s, del |-> del, prev |-> row]
<1>1. /\ versions' = Append(versions, x) /\ row' = n /\ UNCHANGED <<started, active, snap>>
  BY ChangeMade
<1>2. /\ versions \in Seq(Version) /\ Len(versions) \in Nat /\ DOMAIN versions = 1 .. Len(versions)
      /\ row \in Nat /\ row <= Len(versions) /\ started \in Nat
      /\ t \in Nat /\ t <= started
      /\ \A m \in DOMAIN versions : versions[m].trx \in Nat /\ versions[m].prev \in Nat
      /\ snap # None => snap.trx \in Nat /\ snap.row \in Nat /\ snap.n \in Nat
  BY ServerTypes
<1>3. x.trx = t /\ x.prev = row OBVIOUS
<1> HIDE DEF x
<1>4. /\ Len(versions') = n /\ DOMAIN versions' = 1 .. n /\ versions'[n] = x
      /\ \A m \in DOMAIN versions : versions'[m] = versions[m]
  BY <1>1, <1>2
<1>5. ASSUME NEW m \in DOMAIN versions' PROVE m \in DOMAIN versions \/ m = n
  BY <1>2, <1>4
<1>6. \A m \in DOMAIN versions' : versions'[m].trx <= started'
  BY <1>1, <1>2, <1>3, <1>4, <1>5 DEF SnapInv
<1>7. ASSUME snap' # None
      PROVE  /\ snap'.trx <= started' /\ snap'.row <= snap'.n /\ snap'.n <= Len(versions')
             /\ \A u \in active' : u > snap'.trx
             /\ \A m \in DOMAIN versions' : versions'[m].trx <= snap'.trx <=> m <= snap'.n
             /\ row' \in {0, snap'.row} \/ row' > snap'.n
             /\ \A m \in DOMAIN versions' : m > snap'.n =>
                  versions'[m].prev \in {0, snap'.row} \/ versions'[m].prev > snap'.n
  <2>1. /\ snap.trx <= started /\ snap.row <= snap.n /\ snap.n <= Len(versions)
        /\ \A u \in active : u > snap.trx
        /\ \A m \in DOMAIN versions : versions[m].trx <= snap.trx <=> m <= snap.n
        /\ row \in {0, snap.row} \/ row > snap.n
        /\ \A m \in DOMAIN versions : m > snap.n =>
             versions[m].prev \in {0, snap.row} \/ versions[m].prev > snap.n
    BY <1>1, <1>7 DEF SnapInv
  <2>2. snap.trx \in Nat /\ snap.row \in Nat /\ snap.n \in Nat /\ snap' = snap BY <1>1, <1>2, <1>7
  <2>3. ~(x.trx <= snap.trx) /\ ~(n <= snap.n) BY <1>2, <1>3, <2>1, <2>2
  <2>4. x.prev \in {0, snap.row} \/ x.prev > snap.n BY <1>3, <2>1
  <2>5. \A m \in DOMAIN versions' : versions'[m].trx <= snap.trx <=> m <= snap.n
    BY <1>4, <1>5, <2>1, <2>3
  <2>6. \A m \in DOMAIN versions' : m > snap.n =>
          versions'[m].prev \in {0, snap.row} \/ versions'[m].prev > snap.n
    BY <1>4, <1>5, <2>1, <2>4
  <2>7. snap.n <= Len(versions') /\ row' > snap.n BY <1>1, <1>2, <1>4, <2>1, <2>2
  <2> QED BY <1>1, <2>1, <2>2, <2>5, <2>6, <2>7
<1> QED BY <1>6, <1>7 DEF SnapInv

\* Where no version is made, only the row, the transactions and the snapshot matter.
LEMMA SameVersionsSnap ==
  ASSUME IInv, SnapInv, UNCHANGED <<versions, snap>>,
         started' \in Nat /\ started <= started',
         \A t \in active' : t \in active \/ (t \in Nat /\ t > started),
         row' = row \/ row' = 0 \/ (snap # None => row' = snap.row \/ row' > snap.n)
  PROVE  SnapInv'
<1>1. /\ started \in Nat /\ started' \in Nat /\ started <= started' /\ versions' = versions /\ snap' = snap
      /\ \A n \in DOMAIN versions : versions[n].trx \in Nat
      /\ \A t \in active : t \in Nat
      /\ snap # None => snap.trx \in Nat
  BY ServerTypes
<1>2. \A n \in DOMAIN versions : versions[n].trx <= started' BY <1>1 DEF SnapInv
<1>3. ASSUME snap # None
      PROVE  /\ snap.trx <= started' /\ \A t \in active' : t > snap.trx
             /\ row' \in {0, snap.row} \/ row' > snap.n
  <2>1. snap.trx <= started /\ (\A t \in active : t > snap.trx)
        /\ (row \in {0, snap.row} \/ row > snap.n)
    BY <1>3 DEF SnapInv
  <2>2. snap.trx <= started' BY <1>1, <1>3, <2>1
  <2>3. ASSUME NEW t \in active' PROVE t > snap.trx
    <3>1. CASE t \in active BY <3>1, <2>1
    <3>2. CASE t \in Nat /\ t > started
      BY <3>2, <1>1, <1>3, <2>1
    <3> QED BY <3>1, <3>2
  <2>4. row' \in {0, snap.row} \/ row' > snap.n BY <1>3, <2>1
  <2> QED BY <2>2, <2>3, <2>4
<1> QED BY <1>1, <1>2, <1>3 DEF SnapInv

LEMMA StartSnap == ASSUME IInv, SnapInv, Start PROVE SnapInv'
<1>1. /\ started \in Nat /\ started' = started + 1 /\ active' = active \cup {started + 1}
      /\ UNCHANGED <<versions, snap>> /\ row' = row
  BY ServerTypes DEF Start
<1>2. started' \in Nat /\ started <= started' BY <1>1
<1>3. \A t \in active' : t \in active \/ (t \in Nat /\ t > started) BY <1>1
<1> QED BY <1>1, <1>2, <1>3, SameVersionsSnap

\* A transaction takes back only what it wrote, and it began after the snapshot.
LEMMA RollBackSnap == ASSUME IInv, SnapInv, RollBack PROVE SnapInv'
<1>1. /\ writer # 0 /\ row # 0 /\ versions[row].trx = writer /\ row' = versions[row].prev
      /\ UNCHANGED <<versions, snap, started, active>>
  BY DEF RollBack
<1>2. /\ DOMAIN versions = 1 .. Len(versions) /\ Len(versions) \in Nat
      /\ row \in Nat /\ row <= Len(versions) /\ started \in Nat
      /\ \A t \in active : t \in Nat
      /\ snap # None => snap.trx \in Nat /\ snap.n \in Nat
  BY ServerTypes
<1>3. writer \in active BY <1>1 DEF IInv, TypeOK
<1>4. row \in DOMAIN versions BY <1>1, <1>2
<1>5. ASSUME snap # None PROVE row' = 0 \/ row' = snap.row \/ row' > snap.n
  <2>1. /\ \A t \in active : t > snap.trx
        /\ \A n \in DOMAIN versions : versions[n].trx <= snap.trx <=> n <= snap.n
        /\ \A n \in DOMAIN versions : n > snap.n =>
             versions[n].prev \in {0, snap.row} \/ versions[n].prev > snap.n
    BY <1>5 DEF SnapInv
  <2>2. ~(versions[row].trx <= snap.trx) BY <2>1, <1>1, <1>2, <1>3, <1>5
  <2>3. row > snap.n BY <2>1, <2>2, <1>2, <1>4, <1>5
  <2> QED BY <2>1, <2>3, <1>1, <1>4
<1>6. started' \in Nat /\ started <= started' BY <1>1, <1>2
<1>7. \A t \in active' : t \in active BY <1>1
<1>8. row' = row \/ row' = 0 \/ (snap # None => row' = snap.row \/ row' > snap.n) BY <1>5
<1> QED BY <1>1, <1>6, <1>7, <1>8, SameVersionsSnap

LEMMA CommitSnap == ASSUME IInv, SnapInv, NEW t, Commit(t) PROVE SnapInv'
<1>1. UNCHANGED <<versions, snap, started>> /\ row' = row /\ \A u \in active' : u \in active
  BY DEF Commit
<1>2. started' \in Nat /\ started <= started' BY <1>1, ServerTypes
<1> QED BY <1>1, <1>2, SameVersionsSnap

LEMMA PurgeSnap == ASSUME IInv, SnapInv, NEW s \in Slot, Purge(s) PROVE SnapInv'
<1>1. /\ UNCHANGED <<versions, snap, started>> /\ (row' = row \/ row' = 0)
      /\ \A u \in active' : u \in active
  BY DEF Purge
<1>2. started' \in Nat /\ started <= started' BY <1>1, ServerTypes
<1> QED BY <1>1, <1>2, SameVersionsSnap

LEMMA SnapshotSnap == ASSUME IInv, SnapInv, Snapshot PROVE SnapInv'
<1>1. /\ active = {} /\ snap' = [trx |-> started, row |-> row, n |-> Len(versions)]
      /\ UNCHANGED <<versions, row, started, active>>
  BY DEF Snapshot
<1>2. snap'.trx = started /\ snap'.row = row /\ snap'.n = Len(versions) BY <1>1
<1>3. /\ DOMAIN versions = 1 .. Len(versions) /\ Len(versions) \in Nat
      /\ row \in Nat /\ row <= Len(versions) /\ started \in Nat
  BY ServerTypes
<1>4. \A n \in DOMAIN versions : versions[n].trx <= started /\ n <= Len(versions) /\ ~(n > Len(versions))
  BY <1>3 DEF SnapInv
<1> QED BY <1>1, <1>2, <1>3, <1>4 DEF SnapInv

LEMMA ServerSnap == ASSUME IInv, SnapInv, Server PROVE SnapInv'
<1>1. ASSUME NEW t \in 1 .. MaxTrx, NEW s \in Slot, NEW vals \in Row, Insert(t, s, vals)
      PROVE  SnapInv'
  <2>1. t \in active /\ change(t, vals, FALSE, TRX_UNDO_INSERT_REC, s, FALSE, <<>>)
    BY <1>1 DEF Insert, mayWrite
  <2> QED BY <2>1, ChangeSnap
<1>2. ASSUME NEW t \in 1 .. MaxTrx, NEW s \in Slot, NEW vals \in Row, NEW err \in BOOLEAN,
             Update(t, s, vals, err)
      PROVE  SnapInv'
  <2>1. t \in active BY <1>2 DEF Update, mayWrite
  <2>2. \E type, upd : change(t, vals, FALSE, type, s, err, upd) BY <1>2 DEF Update
  <2> QED BY <2>1, <2>2, ChangeSnap
<1>3. ASSUME NEW t \in 1 .. MaxTrx, NEW s \in Slot, Delete(t, s) PROVE SnapInv'
  <2>1. t \in active /\ change(t, versions[row].vals, TRUE, TRX_UNDO_DEL_MARK_REC, s, FALSE, <<>>)
    BY <1>3 DEF Delete, mayWrite
  <2> QED BY <2>1, ChangeSnap
<1> QED BY <1>1, <1>2, <1>3, StartSnap, RollBackSnap, CommitSnap, PurgeSnap, SnapshotSnap DEF Server

LEMMA InitSnap == ASSUME Init PROVE SnapInv
<1>1. snap = None /\ started = 0 BY DEF Init
<1>2. \A n \in DOMAIN versions : versions[n].trx = 0
  <2>1. CASE versions = <<>> BY <2>1
  <2>2. ASSUME NEW vals \in Row,
               versions = <<[vals |-> vals, trx |-> 0, roll |-> Zero, del |-> FALSE, prev |-> 0]>>
        PROVE  \A n \in DOMAIN versions : versions[n].trx = 0
    BY <2>2
  <2> QED BY <2>1, <2>2 DEF Init
<1> QED BY <1>1, <1>2 DEF SnapInv

LEMMA NextSnap == ASSUME IInv, SnapInv, [Next]_vars PROVE SnapInv'
<1>1. CASE Server BY <1>1, ServerSnap
<1>2. CASE UNCHANGED server
  <2>1. UNCHANGED <<versions, row, started, active, snap>> BY <1>2 DEF server
  <2> QED BY <2>1 DEF SnapInv
<1>3. Server \/ UNCHANGED server
  <2>1. ASSUME NEW n, OpenPage(n) PROVE UNCHANGED server BY <2>1 DEF OpenPage
  <2>2. ASSUME walkVersions PROVE UNCHANGED server
    BY <2>2 DEF walkVersions, Expand, WalkOver, WalkFail, WalkStep
  <2>3. ASSUME NEW v, setReadView(v) PROVE UNCHANGED server BY <2>3 DEF setReadView
  <2>4. ASSUME UNCHANGED vars PROVE UNCHANGED server BY <2>4 DEF vars
  <2> QED BY <2>1, <2>2, <2>3, <2>4, Zenon DEF Next
<1> QED BY <1>1, <1>2, <1>3

\* The nodes shown before another are of versions that came later.
LEMMA LaterFirst ==
  ASSUME IInv, faithful, NEW m \in versionsShown, NEW k \in versionsShown, m < k
  PROVE  was[k] < was[m]
<1>1. DOMAIN out = 1 .. Len(out) /\ Len(out) \in Nat BY DEF IInv, OutInv, IsSeq
<1>2. m \in Nat /\ k \in Nat /\ m >= 1 /\ versionsShown \subseteq 1 .. Len(out)
  BY <1>1 DEF versionsShown
<1>3. ASSUME NEW j \in versionsShown, j # 1
      PROVE  j - 1 \in versionsShown /\ was[j] = versions[was[j - 1]].prev /\ was[j] < was[j - 1]
  <2>1. j \in 1 .. Len(out) BY <1>2
  <2>2. j - 1 \in DOMAIN out /\ j - 1 < Len(out) BY <1>1, <1>3, <2>1
  <2>3. j - 1 \in versionsShown BY <2>2 DEF IInv, OutInv, versionsShown
  <2>4. was[j] = versions[was[j - 1]].prev /\ was[j - 1] \in DOMAIN versions
    BY <2>3, <1>3 DEF IInv, VersionsWereTheRow
  <2> QED BY <2>3, <2>4 DEF IInv, VersionsInv
<1>4. \A j \in versionsShown : was[j] \in Nat
  <2>1. \A j \in versionsShown : was[j] \in DOMAIN versions BY DEF IInv, VersionsWereTheRow
  <2>2. DOMAIN versions \subseteq Nat
    <3>1. DOMAIN versions = 1 .. Len(versions) /\ Len(versions) \in Nat BY ServerTypes
    <3> QED BY <3>1
  <2> QED BY <2>1, <2>2
<1> DEFINE bad == {j \in versionsShown : m < j /\ ~(was[j] < was[m])}
<1>5. bad = {}
  <2>1. SUFFICES ASSUME bad # {} PROVE FALSE OBVIOUS
  <2>2. bad \in SUBSET Nat
    <3>1. bad \subseteq 1 .. Len(out) BY <1>2
    <3> HIDE DEF bad
    <3> QED BY <3>1, <1>1
  <2>3. PICK j \in bad : \A y \in bad : j <= y
    <3> HIDE DEF bad
    <3> QED BY <2>1, <2>2, LeastOf
  <2>4. j \in versionsShown /\ m < j /\ j \in Nat /\ ~(was[j] < was[m]) BY <2>3, <1>2
  <2>5. j - 1 \in versionsShown /\ was[j] < was[j - 1] BY <2>4, <1>2, <1>3
  <2>6. j - 1 \notin bad BY <2>3, <2>4
  <2>7. j - 1 = m \/ was[j - 1] < was[m] BY <2>4, <2>5, <2>6, <1>2
  <2>8. was[j] \in Nat /\ was[j - 1] \in Nat /\ was[m] \in Nat BY <2>4, <2>5, <1>4
  <2> QED BY <2>4, <2>5, <2>7, <2>8
<1> QED BY <1>5

\* The version marked is that of the snapshot.
LEMMA SnapshotRead == ASSUME IInv, SnapInv PROVE ReadsTheSnapshot
<1>1. SUFFICES ASSUME phase = "shown", faithful, snap # None, view = snap.trx,
                      page = snap.row \/ page > snap.n, NEW k \in versionsShown
               PROVE  out[k].note = "sees this" <=> was[k] = snap.row
  BY DEF ReadsTheSnapshot
<1> DEFINE committed == {j \in versionsShown : view # None /\ out[j].trx <= view}
<1>2. /\ DOMAIN versions = 1 .. Len(versions) /\ Len(versions) \in Nat
      /\ \A n \in DOMAIN versions : versions[n].trx \in Nat /\ versions[n].prev \in Nat
      /\ snap.trx \in Nat /\ snap.row \in Nat /\ snap.n \in Nat /\ view # None
  BY <1>1, ServerTypes, VersionsAssumption
<1>3. /\ snap.row <= snap.n
      /\ \A n \in DOMAIN versions : versions[n].trx <= snap.trx <=> n <= snap.n
      /\ \A n \in DOMAIN versions : n > snap.n =>
           versions[n].prev \in {0, snap.row} \/ versions[n].prev > snap.n
  BY <1>1 DEF SnapInv
<1>4. \A j \in versionsShown :
        /\ j \in Nat /\ j >= 1 /\ was[j] \in DOMAIN versions /\ was[j] \in Nat
        /\ was[j] = IF j = 1 THEN page ELSE versions[was[j - 1]].prev
        /\ out[j].trx = versions[was[j]].trx
  <2>1. DOMAIN out = 1 .. Len(out) /\ Len(out) \in Nat BY DEF IInv, OutInv, IsSeq
  <2>2. \A j \in versionsShown : j \in Nat /\ j >= 1 BY <2>1 DEF versionsShown
  <2>3. \A j \in versionsShown : was[j] \in DOMAIN versions BY <1>1 DEF IInv, VersionsWereTheRow
  <2> QED BY <2>2, <2>3, <1>1, <1>2 DEF IInv, VersionsWereTheRow
<1>5. \A j \in versionsShown : j \in committed <=> was[j] <= snap.n BY <1>1, <1>2, <1>3, <1>4
<1>6. {j \in versionsShown : out[j].note = "sees this"} =
        IF committed = {} THEN {} ELSE {Min(committed)}
  BY <1>1 DEF IInv, MarksFollowView
<1>7. committed \subseteq versionsShown /\ committed \in SUBSET Nat BY <1>4
<1> HIDE DEF committed
<1>8. CASE committed = {}
  <2>1. out[k].note # "sees this" BY <1>6, <1>8
  <2>2. ~(was[k] <= snap.n) BY <1>5, <1>8
  <2> QED BY <2>1, <2>2, <1>3
<1>9. CASE committed # {}
  <2>1. PICK m \in committed : m = Min(committed) /\ \A y \in committed : m <= y
    BY <1>7, <1>9, LeastOf
  <2>2. out[k].note = "sees this" <=> k = m BY <1>6, <1>9, <2>1
  <2>3. m \in versionsShown /\ was[m] <= snap.n /\ m \in Nat /\ m >= 1 BY <2>1, <1>4, <1>5, <1>7
  <2>4. was[m] = snap.row
    <3>1. CASE m = 1
      <4>1. was[m] = page BY <3>1, <2>3, <1>4
      <4> QED BY <4>1, <2>3, <1>1, <1>2, <1>4
    <3>2. CASE m # 1
      <4>1. m - 1 \in versionsShown
        <5>1. DOMAIN out = 1 .. Len(out) /\ Len(out) \in Nat BY DEF IInv, OutInv, IsSeq
        <5>2. m \in 1 .. Len(out) BY <5>1, <2>3 DEF versionsShown
        <5>3. m - 1 \in DOMAIN out /\ m - 1 < Len(out) BY <5>1, <5>2, <3>2
        <5> QED BY <5>3 DEF IInv, OutInv, versionsShown
      <4>2. m - 1 \notin committed BY <2>1, <2>3
      <4>3. was[m - 1] > snap.n /\ was[m - 1] \in DOMAIN versions
        BY <4>1, <4>2, <1>2, <1>4, <1>5
      <4>4. was[m] = versions[was[m - 1]].prev BY <3>2, <2>3, <1>4
      <4>5. was[m] \in {0, snap.row} \/ was[m] > snap.n BY <4>3, <4>4, <1>3
      <4>6. was[m] # 0 BY <2>3, <1>2, <1>4
      <4> QED BY <4>5, <4>6, <2>3, <1>2, <1>4
    <3> QED BY <3>1, <3>2
  <2>5. ASSUME was[k] = snap.row PROVE k = m
    <3>1. k \in committed BY <2>5, <1>3, <1>5
    <3>2. m <= k /\ k \in Nat BY <3>1, <2>1, <1>4
    <3>3. CASE m < k
      <4>1. was[k] < was[m] BY <3>3, <2>3, <1>1, LaterFirst
      <4> QED BY <4>1, <2>4, <2>5, <1>2
    <3> QED BY <3>2, <3>3, <2>3
  <2> QED BY <2>2, <2>4, <2>5
<1> QED BY <1>8, <1>9

-----------------------------------------------------------------------------
\* The inductive invariant holds in every state of the walk, whatever the server does.
THEOREM Invariant == Spec => []IInv
<1>1. Init => IInv BY InitInv
<1>2. IInv /\ [Next]_vars => IInv' BY NextInv
<1> QED BY <1>1, <1>2, PTL DEF Spec

\* Every variable keeps its type, and each version shown has every column of the row.
THEOREM TypeCorrect == Spec => []TypeOK
<1>1. IInv => TypeOK BY DEF IInv
<1> QED BY <1>1, Invariant, PTL

\* walkVersions shows no version that was not the row's, nor leaves one out, as
\* long as it met no record of another row.
THEOREM VersionsShownWereTheRow == Spec => []VersionsWereTheRow
<1>1. IInv => VersionsWereTheRow BY DEF IInv
<1> QED BY <1>1, Invariant, PTL

\* A chain walkVersions ends itself goes back to where the row was inserted or loaded.
THEOREM ChainEndsAtTheInsert == Spec => []ChainIsWhole
<1>1. IInv => ChainIsWhole BY DEF IInv
<1> QED BY <1>1, Invariant, PTL

\* maxVersions bounds the walk, whatever the records read point at.
THEOREM WalksEnd == Spec => []ChainEnds
<1>1. IInv => ChainEnds BY DEF IInv
<1> QED BY <1>1, Invariant, PTL

\* The marks of the read view are those of the view set, walked before or after.
THEOREM MarksAreOfTheView == Spec => []MarksFollowView
<1>1. IInv => MarksFollowView BY DEF IInv
<1> QED BY <1>1, Invariant, PTL

\* The server keeps the versions of the snapshot apart from the later ones.
THEOREM SnapshotInvariant == Spec => [](IInv /\ SnapInv)
<1>1. Init => IInv /\ SnapInv BY InitInv, InitSnap
<1>2. IInv /\ SnapInv /\ [Next]_vars => (IInv /\ SnapInv)' BY NextInv, NextSnap
<1> QED BY <1>1, <1>2, PTL DEF Spec

\* The mark of a read view set to the last transaction of the snapshot is on the
\* version that was the row then, however the later transactions came to it.
THEOREM SnapshotIsRead == Spec => []ReadsTheSnapshot
<1>1. IInv /\ SnapInv => ReadsTheSnapshot BY SnapshotRead
<1> QED BY <1>1, SnapshotInvariant, PTL

===============================================================================
