------------------------------- MODULE PageView -------------------------------
(***************************************************************************)
(* One page on the screen: what is read of it, the redo records stepped    *)
(* onto it with n and p (tui/replay.go, innodb/apply.go), and the reload   *)
(* that marks what changed (tui/reload.go), while the server goes on       *)
(* logging, flushing and replacing the file.                               *)
(*                                                                         *)
(* An LSN is the number of records logged for this page: only how page and *)
(* record LSNs compare matters.  The bytes of a page are its rows, each    *)
(* with a value or Gone; a checksum is the contents it was computed over.  *)
(* A record that carries no decoded body (its type is not replayed, or it  *)
(* is cut off at the end of the log) is a "heap" record to Apply.          *)
(* The baseline comparison, which stands in when nothing changed, is left  *)
(* out.                                                                    *)
(***************************************************************************)
EXTENDS Integers, Sequences

CONSTANTS
  Row,    \* the places of a page a record can change
  Front,  \* those in the part of the page a flush writes first
  Val,    \* what a row can hold
  Gone,   \* no row there
  First,  \* the page as it was at LSN 0
  Rec,    \* the records the server may log for the page
  Def,    \* what may be known of the rows: no index definition ("none"), one
          \* whose columns vary in length, or one whose columns are all "fixed",
          \* for which any bytes would do
  MaxLog, \* bound: records logged
  Space,  \* the tablespace the page is in
  Other,  \* the one that takes its file over
  None    \* Go's nil

Cell    == Val \cup {Gone}
Data    == [Row -> Cell]
Page    == [id : {Space, Other}, lsn : Nat, data : Data, sum : Nat \X Data]
Scanned == [from : Nat, to : Nat]
Replay  == [from : Nat, to : Nat, pos : Nat]
Loop    == [p : Page, read : Page, i : Nat, n : Nat]

ASSUME PageViewAssumption ==
  /\ Gone \notin Val
  /\ Front \subseteq Row
  /\ First \in Data
  /\ Rec \subseteq [kind : {"write", "update", "heap"}, row : Row, val : Cell]
  /\ Def \subseteq {"none", "varying", "fixed"} /\ Def # {}
  /\ MaxLog \in Nat
  /\ Space # Other
  /\ None \notin Nat \cup Page \cup Scanned \cup Replay \cup Loop

VARIABLES
  log,      \* server: the records of the page, log[n] the one that ends at LSN n
  ends,     \* server: the LSNs at which a mini-transaction ends
  hist,     \* server: hist[n + 1] is the page after n records
  written,  \* server: the LSN up to which the log is in its files
  disk,     \* server: the page in the tablespace file
  flushed,  \* server: the LSN of the last flush that is complete
  replaced, \* server: a new tablespace has taken the file's path
  page,     \* Model.page
  read,     \* the page as the file gave it when Model.page was made of it
  opener,   \* Model.pageOpen: through the open handle, or by path
  def,      \* Model.pageTable, for what its index definition says of the rows
  redo,     \* Model.redo: the records of the page the scan found
  rep,      \* Model.rep
  loop,     \* replayTo under way: the page so far, and i of n
  diff      \* Model.diff: the rows marked as changed

server == <<log, ends, hist, written, disk, flushed, replaced>>
detail == <<page, read, opener, def, diff>>
vars   == <<server, detail, redo, rep, loop>>

-----------------------------------------------------------------------------
(* The server: external, modelled from what the code relies on.            *)

Version(n) == hist[n + 1]
Sum(p)     == <<p.lsn, p.data>>
Whole(p)   == p.sum = Sum(p)

\* A record the server would log for the page as it is.
legal(r, data) ==
  IF r.kind = "heap" THEN (r.val = Gone) # (data[r.row] = Gone)
                     ELSE r.val # Gone /\ data[r.row] # Gone

Log(r, last) ==
  /\ ~replaced /\ Len(log) < MaxLog
  /\ legal(r, Version(Len(log)))
  /\ log'  = Append(log, r)
  /\ hist' = Append(hist, [Version(Len(log)) EXCEPT ![r.row] = r.val])
  /\ ends' = IF last THEN ends \cup {Len(log) + 1} ELSE ends
  /\ UNCHANGED <<written, disk, flushed, replaced, detail, redo, rep, loop>>

\* The log writer, which stops anywhere.
WriteLog(n) ==
  /\ n \in written + 1 .. Len(log)
  /\ written' = n
  /\ UNCHANGED <<log, ends, hist, disk, flushed, replaced, detail, redo, rep, loop>>

\* A page is flushed at the end of an mtr, after its log, and not at a stroke.
Flush(n) ==
  /\ ~replaced /\ disk.lsn = flushed
  /\ n \in ends /\ flushed < n /\ n <= written
  /\ disk' = [disk EXCEPT
       !.lsn = n, !.sum = <<n, Version(n)>>,
       !.data = [c \in Row |-> IF c \in Front THEN Version(n)[c] ELSE disk.data[c]]]
  /\ UNCHANGED <<log, ends, hist, written, flushed, replaced, detail, redo, rep, loop>>

FlushRest ==
  /\ ~replaced /\ disk.lsn # flushed
  /\ disk'    = [disk EXCEPT !.data = Version(disk.lsn)]
  /\ flushed' = disk.lsn
  /\ UNCHANGED <<log, ends, hist, written, replaced, detail, redo, rep, loop>>

\* TRUNCATE TABLE: a handle keeps the old file, a path leads to the new one.
Truncate ==
  /\ ~replaced
  /\ replaced' = TRUE
  /\ UNCHANGED <<log, ends, hist, written, disk, flushed, detail, redo, rep, loop>>

Server ==
  \/ \E r \in Rec, last \in BOOLEAN : Log(r, last)
  \/ \E n \in 1..MaxLog : WriteLog(n) \/ Flush(n)
  \/ FlushRest \/ Truncate

-----------------------------------------------------------------------------
(* Reading the page, scanning the log.                                     *)

\* The new file's page: never written, or newer than every record.
foreign == {[id |-> Other, lsn |-> n, data |-> First, sum |-> <<n, First>>] : n \in {0, MaxLog + 1}}

\* What pageOpen returns, when it returns a page.
pageOpen(via) == IF via = "path" /\ replaced THEN foreign ELSE {disk}

\* loadRedo: it starts at an mtr no later than the checkpoint, which is no later
\* than what is flushed, and ends wherever the log ends for it.
loadRedo_late == {s \in [from : ends, to : 0..written] : s.from <= s.to} \* Mutant
loadRedo == {s \in [from : ends, to : 0..written] : s.from <= flushed /\ s.from <= s.to}

loadRedoOnce == IF redo # None THEN {redo} ELSE loadRedo

-----------------------------------------------------------------------------
(* Apply.                                                                  *)

ours(p)     == p.id = Space

seen_never(p, n) == FALSE                                             \* Mutant
seen(p, n)       == p.lsn >= n

\* The record the log names parses, with fields of the lengths logged.
parses(r, p) == def # "none" /\ (p.data[r.row] # Gone \/ def = "fixed")

fails(r, n, p) ==
  \/ ~ours(p)
  \/ r.kind = "update" /\ ~seen(p, n) /\ ~parses(r, p)

stamp(p, n, data) == [p EXCEPT !.lsn = n, !.data = data, !.sum = <<n, data>>]

Apply(r, n, p) ==
  IF seen(p, n) \/ r.kind = "heap" THEN p
  ELSE stamp(p, n, [p.data EXCEPT ![r.row] = r.val])

-----------------------------------------------------------------------------
(* The keys of the page detail.                                            *)

idle == loop = None

\* newDiff
changed(old, new)   == {c \in Row : old.data[c] # new.data[c]}

\* openPage (by handle) and jumpToPage (by path).
OpenPage(via, t, p) ==
  /\ idle /\ page = None
  /\ p \in pageOpen(via)
  /\ page' = p /\ read' = p /\ opener' = via /\ def' = t
  /\ rep' = None /\ diff' = {}
  /\ UNCHANGED <<server, redo, loop>>

\* esc
Leave ==
  /\ idle /\ page # None
  /\ page' = None
  /\ UNCHANGED <<server, read, opener, def, diff, redo, rep, loop>>

\* r in the pane of the redo log scans it again.
Rescan(s) ==
  /\ idle /\ page = None
  /\ s \in loadRedo
  /\ redo' = s
  /\ UNCHANGED <<server, detail, rep, loop>>

inRange_negative(pos, r) == pos <= r.to - r.from                      \* Mutant
inRange(pos, r) == 0 <= pos /\ pos <= r.to - r.from

\* replayTo reads the page again; it may not be able to.
startReplay(n) ==
  \/ \E p \in pageOpen(opener) : loop' = [p |-> p, read |-> p, i |-> 0, n |-> n]
  \/ UNCHANGED loop

\* The replay the key finds or binds.  The records are bound before anything
\* can go wrong with the page.
ReplayStep(d, s) ==
  /\ idle /\ page # None
  /\ s \in loadRedoOnce
  /\ rep # None \/ s.from < s.to
  /\ redo' = IF rep # None THEN redo ELSE s
  /\ rep'  = IF rep # None THEN rep ELSE [from |-> s.from, to |-> s.to, pos |-> 0]
  /\ IF inRange(rep'.pos + d, rep') THEN startReplay(rep'.pos + d) ELSE UNCHANGED loop
  /\ UNCHANGED <<server, detail>>

\* No record of the page: the scan is kept, nothing else happens.
ReplayNothing(s) ==
  /\ idle /\ page # None /\ rep = None
  /\ s \in loadRedoOnce /\ s.from = s.to
  /\ redo' = s
  /\ UNCHANGED <<server, detail, rep, loop>>

\* A turn of the loop in replayTo: a record that fails ends it there.
failAt_end(i, n) == n                                                 \* Mutant
failAt(i, n) == i

ReplayTurn ==
  /\ ~idle /\ loop.i < loop.n
  /\ LET n == rep.from + loop.i + 1
     IN  IF fails(log[n], n, loop.p)
         THEN loop' = [loop EXCEPT !.n = failAt(loop.i, loop.n), !.i = failAt(loop.i, loop.n)]
         ELSE loop' = [loop EXCEPT !.p = Apply(log[n], n, loop.p), !.i = loop.i + 1]
  /\ UNCHANGED <<server, detail, redo, rep>>

\* The rest of replayTo, after the loop.
prev == page

ReplayShow ==
  /\ ~idle /\ loop.i >= loop.n
  /\ rep'  = [rep EXCEPT !.pos = loop.n]
  /\ diff' = changed(prev, loop.p)
  /\ page' = loop.p /\ read' = loop.read /\ loop' = None
  /\ UNCHANGED <<server, opener, def, redo>>

\* r
ReloadPage(p) ==
  /\ idle /\ page # None
  /\ p \in pageOpen(opener)
  /\ diff' = changed(page, p) /\ rep' = None
  /\ page' = p /\ read' = p
  /\ UNCHANGED <<server, opener, def, redo, loop>>

-----------------------------------------------------------------------------

Init ==
  /\ log = <<>> /\ ends = {0} /\ hist = <<First>> /\ written = 0
  /\ disk = [id |-> Space, lsn |-> 0, data |-> First, sum |-> <<0, First>>]
  /\ flushed = 0 /\ replaced = FALSE
  /\ page = None /\ read = None /\ opener = "handle" /\ def = None
  /\ redo = None /\ rep = None /\ loop = None /\ diff = {}

Key ==
  \/ \E via \in {"handle", "path"}, t \in Def :
       \E p \in pageOpen(via) : OpenPage(via, t, p)
  \/ Leave
  \/ \E s \in loadRedo : Rescan(s)
  \/ \E s \in loadRedoOnce : ReplayStep(1, s) \/ ReplayStep(-1, s) \/ ReplayNothing(s)
  \/ ReplayTurn \/ ReplayShow
  \/ \E p \in foreign \cup {disk} : ReloadPage(p)

Next == Server \/ Key

Spec == Init /\ [][Next]_vars

-----------------------------------------------------------------------------
(* Properties.                                                             *)

\* Every variable keeps its type; a position is within the records bound.
TypeOK ==
  /\ log \in Seq(Rec) /\ ends \subseteq Nat /\ hist \in Seq(Data)
  /\ written \in Nat /\ flushed \in Nat /\ replaced \in BOOLEAN
  /\ disk \in Page
  /\ page \in Page \cup {None} /\ read \in Page \cup {None}
  /\ opener \in {"handle", "path"} /\ def \in Def \cup {None}
  /\ redo \in Scanned \cup {None}
  /\ rep \in Replay \cup {None}
  /\ loop \in Loop \cup {None}
  /\ diff \subseteq Row

\* No record that is not replayed lies between the file's page and this one.
unbroken(p, r) == \A n \in r.lsn + 1 .. p.lsn : log[n].kind # "heap"

\* The page can be trusted: it is ours, was not read in the middle of a flush,
\* and no record it builds on was passed over.
trusted(p, r) == ours(p) /\ Whole(r) /\ unbroken(p, r)

\* The page shown is one the server had: whatever the server flushed between two
\* steps and however the user went back and forth, its bytes are those its LSN
\* names (apply.go:9-15, "the way recovery does").
PageIsVersion ==
  page # None /\ trusted(page, read) => page.data = Version(page.lsn)

\* What is shown is a version of the page, and none older than the file was when
\* it was last read: the detail implements PageHistory.
lastRead == IF idle THEN read ELSE loop.read

knownVersion ==
  IF lastRead = None THEN None ELSE IF ours(lastRead) THEN lastRead.lsn ELSE None

shownVersion ==
  IF page = None THEN None
  ELSE IF trusted(page, read) THEN [lsn |-> page.lsn, data |-> page.data] ELSE None

History == INSTANCE PageHistory WITH
  Content <- Data, file <- disk.lsn, known <- knownVersion, view <- shownVersion

ShowsHistory == History!Spec

\* At position n the first n records are on the page, but for those not
\* replayed, and no record after them is, but for those the file had; nothing
\* is applied to a page of another tablespace (replay.go:147-151, pos).
ReplayPosition ==
  page # None /\ rep # None =>
    /\ \A n \in rep.from + 1 .. rep.from + rep.pos : log[n].kind # "heap" => seen(page, n)
    /\ page.lsn = read.lsn \/ page.lsn <= rep.from + rep.pos
    /\ page.id = Other => rep.pos = 0

\* With every record stepped, the page is what recovery makes of this file and
\* this log: the newest of the file's page and the last record's.
ReplayRecovers ==
  page # None /\ rep # None /\ rep.pos > 0 /\ rep.pos = rep.to - rep.from
    /\ Whole(read) /\ (\A n \in read.lsn + 1 .. rep.to : log[n].kind # "heap")
  => page.data = Version(IF read.lsn > rep.to THEN read.lsn ELSE rep.to)

\* Replay ends where recovery would: "replay steps the redo records that modified
\* one page onto its bytes, the way recovery does after a crash" (replay.go:9).
\* Recovery takes no part of an mtr that was not logged to its end.
ReplayEndsWithMtr ==
  page # None /\ rep # None /\ rep.pos = rep.to - rep.from /\ trusted(page, read)
  => page.lsn \in ends \/ page.lsn = read.lsn
==============================================================================
