------------------------------- MODULE Versions -------------------------------
(***************************************************************************)
(* The version chain of a row (tui/versions.go) walked through the undo    *)
(* records on disk, and the read view marked on it, while the server       *)
(* changes the row, rolls back, purges and flushes.                        *)
(*                                                                         *)
(* Every version the row ever had has a number.  A page with the row is    *)
(* named by the version on it; an undo record has the number of the        *)
(* version it undoes, 0 for one written for another row.                   *)
(***************************************************************************)
EXTENDS Integers, Sequences, FiniteSetsExt

CONSTANTS
  Col, Val,
  Slot,       \* places of an undo record: undo tablespace, page and offset
  Zero,       \* RollPtr.Zero: no earlier version
  maxVersions,
  Foreign,    \* the undo records of other rows that may take a place over
  MaxTrx, MaxVersion, \* bounds: transactions started, versions made
  Views,      \* bound: the transactions a read view is set to, or None
  None

TRX_UNDO_INSERT_REC    == 11
TRX_UNDO_UPD_EXIST_REC == 12
TRX_UNDO_UPD_DEL_REC   == 13
TRX_UNDO_DEL_MARK_REC  == 14

Ptr    == Slot \cup {Zero}
Row    == [Col -> Val]
OldVal == UNION {[C -> Val] : C \in SUBSET Col}

Version == [vals : Row, trx : Nat, roll : Ptr, del : BOOLEAN, prev : Nat]
UndoRec == [Type : TRX_UNDO_INSERT_REC .. TRX_UNDO_DEL_MARK_REC, TrxID : Nat, Roll : Ptr,
            del : BOOLEAN, Upd : OldVal, Err : BOOLEAN, of : Nat]

ASSUME VersionsAssumption ==
  /\ Zero \notin Slot /\ None \notin UndoRec /\ None \notin Nat /\ maxVersions \in Nat
  /\ Views \subseteq Nat \cup {None}
  /\ Foreign \subseteq {r \in UndoRec : r.of = 0}
  /\ {"DB_TRX_ID", "DB_ROLL_PTR"} \cap Col = {}

VARIABLES
  versions, \* server: every version made of the row
  row,      \* server: the newest, 0 without a row
  undo,     \* server: the undo record written last, by place
  made,     \* server: the version a record in use undoes, 0 when purged
  started, active, writer, \* server: transactions; the one with the row lock
  snap,     \* server: what the row was when nobody was active
  page,     \* the row on the page shown, 0 without a page
  view,     \* Model.view: the transaction of the read view, None when not set
  rp,       \* walkVersions: the roll pointer to follow
  i,        \* walkVersions: records followed
  out,      \* walkVersions: the nodes shown
  phase,    \* the versions node: "folded", "walking", "shown"
  was,      \* the versions the nodes stand for, those the row had before the page's
  faithful  \* every record followed was the one of the version it was taken for

server == <<versions, row, undo, made, started, active, writer, snap>>
chain  == <<rp, i, out, phase, was, faithful>>
vars   == <<server, page, view, chain>>

-----------------------------------------------------------------------------
(* The server: external, modelled from what the code reads of it.          *)

\* A version and the undo record that restores the one before it.
change(t, vals, del, type, s, err, upd) ==
  LET n == Len(versions) + 1
  IN  /\ n <= MaxVersion
      /\ versions' = Append(versions, [vals |-> vals, trx |-> t, roll |-> s, del |-> del, prev |-> row])
      /\ row' = n
      /\ undo' = [undo EXCEPT ![s] =
           [Type  |-> type, Upd |-> upd, Err |-> err, of |-> n,
            TrxID |-> IF row = 0 THEN 0 ELSE versions[row].trx,
            Roll  |-> IF row = 0 THEN Zero ELSE versions[row].roll,
            del   |-> row # 0 /\ versions[row].del]]
      /\ made' = [made EXCEPT ![s] = n]
      /\ writer' = t
      /\ UNCHANGED <<started, active, snap, page, view, chain>>

mayWrite(t, s) == t \in active /\ writer \in {0, t} /\ made[s] = 0

Insert(t, s, vals) ==
  /\ mayWrite(t, s) /\ row = 0
  /\ change(t, vals, FALSE, TRX_UNDO_INSERT_REC, s, FALSE, <<>>)

\* The old values of the columns that change.  Those of a column kept off-page
\* are in the record but not decoded, which leaves the rest out.
Update(t, s, vals, err) ==
  /\ mayWrite(t, s) /\ row # 0
  /\ LET old     == versions[row]
         changed == {c \in Col : vals[c] # old.vals[c]}
     IN  /\ old.del \/ changed # {}
         /\ err => changed # {}
         /\ \E C \in IF err THEN SUBSET changed \ {changed} ELSE {changed} :
              change(t, vals, FALSE,
                     IF old.del THEN TRX_UNDO_UPD_DEL_REC ELSE TRX_UNDO_UPD_EXIST_REC,
                     s, err, [c \in C |-> old.vals[c]])

Delete(t, s) ==
  /\ mayWrite(t, s) /\ row # 0 /\ ~versions[row].del
  /\ change(t, versions[row].vals, TRUE, TRX_UNDO_DEL_MARK_REC, s, FALSE, <<>>)

Start ==
  /\ started < MaxTrx
  /\ started' = started + 1 /\ active' = active \cup {started'}
  /\ UNCHANGED <<versions, row, undo, made, writer, snap, page, view, chain>>

\* The newest change of the writer is taken back.
RollBack ==
  /\ writer # 0 /\ row # 0 /\ versions[row].trx = writer
  /\ made' = [made EXCEPT ![versions[row].roll] = 0]
  /\ row' = versions[row].prev
  /\ UNCHANGED <<versions, undo, started, active, writer, snap, page, view, chain>>

Commit(t) ==
  /\ t \in active
  /\ active' = active \ {t}
  /\ writer' = IF writer = t THEN 0 ELSE writer
  /\ UNCHANGED <<versions, row, undo, made, started, snap, page, view, chain>>

\* Undo of an insert goes at the commit, the rest from the oldest on; the bytes
\* stay until something else is written there.
Purge(s) ==
  /\ made[s] # 0 /\ versions[made[s]].trx \notin active
  /\ \/ undo[s].Type = TRX_UNDO_INSERT_REC
     \/ \A t \in Slot : made[t] # 0 => made[s] <= made[t]
  /\ made' = [made EXCEPT ![s] = 0]
  \* The row goes with the undo of its delete.
  /\ row' = IF made[s] = row /\ versions[row].del THEN 0 ELSE row
  /\ UNCHANGED <<versions, undo, started, active, writer, snap, page, view, chain>>

Snapshot ==
  /\ snap = None /\ active = {}
  /\ snap' = [trx |-> started, row |-> row, n |-> Len(versions)]
  /\ UNCHANGED <<versions, row, undo, made, started, active, writer, page, view, chain>>

\* What it does while nothing is read can as well come before the next read.
Server ==
  /\ phase \in {"none", "walking"}
  /\ \/ Start \/ RollBack \/ Snapshot
     \/ \E t \in 1 .. MaxTrx : Commit(t)
     \/ \E s \in Slot : Purge(s)
     \/ \E t \in 1 .. MaxTrx, s \in Slot :
          \/ Delete(t, s)
          \/ \E vals \in Row : Insert(t, s, vals) \/ \E err \in BOOLEAN : Update(t, s, vals, err)

-----------------------------------------------------------------------------
(* The chain.                                                              *)

\* A row of the tree: a version with the columns it held, or a line that ends it.
versionNode(trx, vals, at, next, del) ==
  [hkey |-> "row version", trx |-> trx, vals |-> vals, at |-> at, next |-> next,
   del |-> del, note |-> ""]
lineNode(hkey, trx) ==
  [hkey |-> hkey, trx |-> trx, vals |-> <<>>, at |-> Zero, next |-> Zero,
   del |-> FALSE, note |-> ""]

\* The columns of the record as they are on the page, the hidden ones included.
rowImage(v) ==
  [c \in Col \cup {"DB_TRX_ID", "DB_ROLL_PTR"} |->
     IF c = "DB_TRX_ID" THEN v.trx ELSE IF c = "DB_ROLL_PTR" THEN v.roll ELSE v.vals[c]]

\* An undo record holds the value every column it changed had before.
applyUndo_changed(vals, rec) == rec.Upd                               \* Mutant
applyUndo(vals, rec) ==
  [c \in DOMAIN vals |-> IF c \in DOMAIN rec.Upd THEN rec.Upd[c] ELSE vals[c]]

\* The row before the version the walk has come to.
older_current(rec) == applyUndo(out[1].vals, rec)                     \* Mutant
older(rec)         == applyUndo(out[Len(out)].vals, rec)

isVersion(n) == n.hkey = "row version"

\* The newest version of a transaction the read view counts as committed.
tooNew_eq(id, v) == id >= v                                           \* Mutant
tooNew(id, v)    == id > v

markVisible(nodes, v) ==
  LET seen(k) == \E j \in 1 .. k - 1 : isVersion(nodes[j]) /\ ~tooNew(nodes[j].trx, v)
      note(k) ==
        IF v = None THEN ""
        ELSE IF tooNew(nodes[k].trx, v) THEN "too new"
        ELSE IF seen(k) THEN "older" ELSE "sees this"
  IN  [k \in DOMAIN nodes |-> IF isVersion(nodes[k]) THEN [nodes[k] EXCEPT !.note = note(k)] ELSE nodes[k]]

\* Enter on the page, or r: a chain for a record that has an earlier version.
\* The page on disk has any version the row had when it was flushed.
OpenPage(n) ==
  /\ phase # "walking"
  /\ page' = n
  /\ rp' = versions[n].roll /\ i' = 0 /\ out' = <<>>
  /\ phase' = IF rp' = Zero THEN "none" ELSE "folded"
  /\ was' = <<>> /\ faithful' = TRUE
  /\ UNCHANGED <<server, view>>

\* The chain is marked as soon as it is walked.
finish_unmarked(nodes) == out' = nodes /\ phase' = "shown" /\ UNCHANGED <<rp, i>>  \* Mutant
finish(nodes) == out' = markVisible(nodes, view) /\ phase' = "shown" /\ UNCHANGED <<rp, i>>

more_zero == rp # Zero                                                \* Mutant
more      == i < maxVersions /\ rp # Zero

endsChain_exist(rec) == rec.Type # TRX_UNDO_UPD_EXIST_REC              \* Mutant
endsChain(rec)       == rec.Type = TRX_UNDO_INSERT_REC

Expand ==
  /\ phase = "folded"
  /\ LET v == versions[page]
     IN  out' = <<versionNode(v.trx, rowImage(v), Zero, v.roll, v.del)>>
  /\ was' = <<page>>
  /\ phase' = "walking"
  /\ UNCHANGED <<server, page, view, rp, i, faithful>>

WalkOver ==
  /\ phase = "walking" /\ ~more
  /\ finish(out)
  /\ UNCHANGED <<server, page, view, was, faithful>>

\* What is at a place by the time it is read: the record written last, or one of
\* another row, before it is flushed or after it was purged.
onDisk(s) == IF s = Zero THEN {} ELSE ({undo[s]} \ {None}) \cup Foreign

\* No undo tablespace under that number, no undo page, no record there.
WalkFail ==
  /\ phase = "walking" /\ more
  /\ finish(Append(out, lineNode("error", 0)))
  /\ UNCHANGED <<server, page, view, was, faithful>>

\* The version before the one the walk has come to, 0 for none.
before == LET n == was[Len(was)] IN IF n = 0 THEN 0 ELSE versions[n].prev

WalkStep(rec) ==
  /\ phase = "walking" /\ more /\ rec \in onDisk(rp)
  /\ faithful' = (faithful /\ rec.of = was[Len(was)])
  /\ was' = IF endsChain(rec) THEN was ELSE Append(was, before)
  /\ LET back == Append(out, versionNode(rec.TrxID, older(rec), rp, rec.Roll, rec.del))
     IN  IF endsChain(rec) THEN finish(Append(out, lineNode("no earlier version", rec.TrxID)))
         ELSE IF rec.Err THEN finish(Append(back, lineNode("undecoded", 0)))
         ELSE out' = back /\ rp' = rec.Roll /\ i' = i + 1 /\ UNCHANGED phase
  /\ UNCHANGED <<server, page, view>>

\* The v prompt: None clears the view.  A chain that was walked is marked again.
setReadView(v) ==
  /\ phase # "walking"
  /\ view' = v
  /\ out' = markVisible(out, v)
  /\ UNCHANGED <<server, page, rp, i, phase, was, faithful>>
-----------------------------------------------------------------------------

\* No row, or one that was loaded without a transaction.
Init ==
  /\ \/ versions = <<>>
     \/ \E vals \in Row :
          versions = <<[vals |-> vals, trx |-> 0, roll |-> Zero, del |-> FALSE, prev |-> 0]>>
  /\ row = Len(versions)
  /\ undo = [s \in Slot |-> None]
  /\ made = [s \in Slot |-> 0]
  /\ started = 0 /\ active = {} /\ writer = 0 /\ snap = None
  /\ page = 0 /\ view = None
  /\ rp = Zero /\ i = 0 /\ out = <<>> /\ phase = "none" /\ was = <<>> /\ faithful = TRUE

walkVersions == Expand \/ WalkOver \/ WalkFail \/ \E rec \in onDisk(rp) : WalkStep(rec)

Next ==
  \/ Server \/ (\E n \in DOMAIN versions : OpenPage(n)) \/ walkVersions
  \/ \E v \in Views : setReadView(v)

Spec == Init /\ [][Next]_vars

-----------------------------------------------------------------------------
(* Properties.                                                             *)

versionsShown == {k \in DOMAIN out : isVersion(out[k])}

\* Every variable keeps its type; each version shown has every column.
TypeOK ==
  /\ versions \in Seq(Version) /\ row \in 0 .. Len(versions)
  /\ undo \in [Slot -> UndoRec \cup {None}]
  /\ made \in [Slot -> 0 .. Len(versions)]
  /\ started \in Nat /\ active \subseteq 1 .. started /\ writer \in active \cup {0}
  /\ snap = None \/ snap \in [trx : Nat, row : Nat, n : Nat]
  /\ page \in 0 .. Len(versions) /\ view \in Nat \cup {None}
  /\ rp \in Ptr /\ i \in Nat /\ was \in Seq(0 .. Len(versions)) /\ faithful \in BOOLEAN
  /\ phase \in {"none", "folded", "walking", "shown"}
  /\ \A k \in versionsShown :
       /\ out[k].trx \in Nat /\ out[k].del \in BOOLEAN /\ out[k].at \in Ptr /\ out[k].next \in Ptr
       /\ DOMAIN out[k].vals = Col \cup {"DB_TRX_ID", "DB_ROLL_PTR"}

\* As long as no undo record was purged and written over before it was followed,
\* each version shown is the one the row had then, newest first and none left
\* out; all but one whose record could not be decoded whole, which a line says.
VersionsWereTheRow ==
  faithful =>
    \A k \in versionsShown :
      /\ k \in DOMAIN was /\ was[k] \in DOMAIN versions
      /\ was[k] = IF k = 1 THEN page ELSE versions[was[k - 1]].prev
      /\ out[k].trx = versions[was[k]].trx /\ out[k].del = versions[was[k]].del
      /\ \/ k < Len(out) /\ out[k + 1].hkey = "undecoded"
         \/ \A c \in Col : out[k].vals[c] = versions[was[k]].vals[c]

\* A chain that ends without an error, and before maxVersions, ends where the row
\* was inserted or loaded.
ChainIsWhole ==
  /\ phase = "shown" /\ faithful /\ i < maxVersions
  /\ out[Len(out)].hkey \notin {"error", "undecoded"}
  => versionsShown = DOMAIN was /\ versions[was[Len(was)]].prev = 0

\* The walk ends, though the records written over those purged may lead in a circle.
ChainEnds == Len(out) <= maxVersions + 2

\* Whatever the order of walking a chain and setting the view, the marks are of
\* the view set: one version is seen, the newest it counts as committed.
MarksFollowView ==
  phase = "shown" =>
    LET committed == {k \in versionsShown : view # None /\ out[k].trx <= view}
    IN  {k \in versionsShown : out[k].note = "sees this"} =
          IF committed = {} THEN {} ELSE {Min(committed)}

\* A read view of the last transaction started when none was active sees the row
\* as it was then, whatever was written, rolled back and flushed since, in
\* whatever order the later transactions came to the row.
ReadsTheSnapshot ==
  /\ phase = "shown" /\ faithful /\ snap # None /\ view = snap.trx
  /\ page = snap.row \/ page > snap.n
  => \A k \in versionsShown : out[k].note = "sees this" <=> was[k] = snap.row
===============================================================================
