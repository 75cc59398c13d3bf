---------------------------- MODULE PageViewProofs ----------------------------
(***************************************************************************)
(* The page a replay shows is one the server had, at the position it says, *)
(* for any records, any rows and any order of flushes and keys.            *)
(*                                                                         *)
(* The argument is about the page being stepped.  With i records of the    *)
(* scan passed, every one that is replayed is on it (StepsInv), so the     *)
(* next record the page has not seen is the one after the page's LSN, and  *)
(* what it writes turns that version into the next.  It needs that the     *)
(* scan starts no later than what the file has: the checkpoint was not     *)
(* past the last flush when the log was scanned, and the file only gains.  *)
(***************************************************************************)
EXTENDS PageView, TLAPS

\* hist is what the records of log make of the page, and the log is behind both.
LogInv ==
  /\ Len(hist) = Len(log) + 1
  /\ \A n \in 1..Len(log) : Version(n) = [Version(n - 1) EXCEPT ![log[n].row] = log[n].val]
  /\ ends \subseteq 0..Len(log)
  /\ written <= Len(log)

\* The header of a page names a version that was logged before it was flushed.
Flushed(p) ==
  /\ p.lsn <= written
  /\ p.sum = <<p.lsn, Version(p.lsn)>>

DiskInv ==
  /\ disk.id = Space /\ Flushed(disk)
  /\ flushed <= disk.lsn

\* A scan starts at what was flushed by then and ends in what was written.
ScanInv ==
  /\ redo # None => redo.from <= flushed /\ redo.from <= redo.to /\ redo.to <= written
  /\ rep # None  => rep.from <= flushed /\ rep.pos <= rep.to - rep.from /\ rep.to <= written

\* p is the page r read from the file with the first k records passed.
Built(p, r, k) ==
  /\ p.id = r.id /\ r.lsn <= p.lsn
  /\ ours(r) => Flushed(r) /\ p.lsn <= written
  /\ k = 0 => p = r
  /\ ~ours(r) => k = 0
  /\ trusted(p, r) => p.data = Version(p.lsn)

Passed(p, r, k) ==
  /\ p.lsn = r.lsn \/ p.lsn <= rep.from + k
  /\ k > 0 => rep.from <= r.lsn
  /\ \A n \in rep.from + 1 .. rep.from + k : log[n].kind # "heap" => seen(p, n)

PageInv ==
  page # None =>
    /\ read # None
    /\ Built(page, read, IF rep = None THEN 0 ELSE rep.pos)
    /\ rep # None => Passed(page, read, rep.pos)

StepsInv ==
  loop # None =>
    /\ page # None /\ rep # None
    /\ Built(loop.p, loop.read, loop.i) /\ Passed(loop.p, loop.read, loop.i)
    /\ ours(loop.read) => rep.from <= loop.read.lsn
    /\ loop.i <= loop.n /\ loop.n <= rep.to - rep.from

IInv == TypeOK /\ LogInv /\ DiskInv /\ ScanInv /\ PageInv /\ StepsInv

-----------------------------------------------------------------------------

LEMMA InitInv == Init => IInv
<1> SUFFICES ASSUME Init PROVE IInv
  OBVIOUS
<1> USE DEF Init
<1>1. TypeOK
  <2>1. First \in Data
    BY PageViewAssumption
  <2>2. log \in Seq(Rec) /\ hist \in Seq(Data) /\ ends \subseteq Nat
    BY <2>1
  <2>3. disk \in Page
    BY <2>1 DEF Page
  <2> QED BY <2>2, <2>3 DEF TypeOK
<1>2. LogInv /\ DiskInv /\ ScanInv
  BY DEF LogInv, DiskInv, ScanInv, Flushed, Version
<1>3. PageInv /\ StepsInv
  BY DEF PageInv, StepsInv
<1> QED BY <1>1, <1>2, <1>3 DEF IInv

-----------------------------------------------------------------------------

(* What the server does leaves the past of the log alone. *)

\* What is needed of a step for what is known of a page to stay known.
Kept ==
  /\ written <= written' /\ rep' = rep
  /\ \A n \in 0..written : Version(n)' = Version(n)
  /\ \A n \in 1..written : log'[n] = log[n]

LEMMA BuiltKept ==
  ASSUME TypeOK, TypeOK', Kept, NEW p \in Page, NEW r \in Page, NEW k \in Nat, Built(p, r, k)
  PROVE  Built(p, r, k)'
<1>1. ours(r) => Flushed(r)' /\ p.lsn <= written'
  BY SMTT(30) DEF Built, Flushed, Kept, TypeOK, Page, ours
<1>2. ASSUME trusted(p, r)' PROVE p.data = Version(p.lsn)'
  <2>1. ours(p) /\ Whole(r) /\ p.lsn <= written
    BY <1>2 DEF trusted, Built, ours, Whole, Sum
  <2>2. \A n \in r.lsn + 1 .. p.lsn : n \in 1..written
    <3>1. r.lsn \in Nat /\ p.lsn \in Nat BY DEF Page
    <3>2. written \in Nat BY DEF TypeOK
    <3> QED BY <2>1, <3>1, <3>2
  <2>3. unbroken(p, r)
    BY <1>2, <2>2 DEF trusted, unbroken, Kept
  <2> QED BY <2>1, <2>3, SMTT(30) DEF trusted, Built, Kept, TypeOK, Page
<1> QED BY <1>1, <1>2 DEF Built, ours

LEMMA PassedKept ==
  ASSUME TypeOK, TypeOK', Kept, rep # None, ScanInv,
         NEW p \in Page, NEW r \in Page, NEW k \in Nat, k <= rep.to - rep.from, Passed(p, r, k)
  PROVE  Passed(p, r, k)'
<1>1. \A n \in rep.from + 1 .. rep.from + k : n \in 1..written
  BY SMTT(30) DEF TypeOK, ScanInv, Replay
<1> QED BY <1>1 DEF Passed, Kept, seen

\* The page on the screen and the one being stepped are not touched by the server.
LEMMA ServerKeeps ==
  ASSUME IInv, TypeOK', Kept, UNCHANGED <<detail, redo, rep, loop>>, flushed <= flushed'
  PROVE  ScanInv' /\ PageInv' /\ StepsInv'
<1> USE DEF IInv
<1>1. ScanInv'
  BY SMTT(30) DEF ScanInv, Kept, TypeOK, Scanned, Replay
<1>2. ASSUME page # None PROVE PageInv'
  <2>1. page \in Page /\ read \in Page
    BY <1>2 DEF PageInv, TypeOK
  <2>2. CASE rep = None
    <3>1. Built(page, read, 0)'
      BY <1>2, <2>1, <2>2, BuiltKept DEF PageInv, detail
    <3> QED BY <1>2, <2>1, <2>2, <3>1 DEF PageInv, detail
  <2>3. CASE rep # None
    <3>1. rep.pos \in Nat /\ rep.pos <= rep.to - rep.from
      BY <2>3 DEF TypeOK, Replay, ScanInv
    <3>2. Built(page, read, rep.pos) /\ Passed(page, read, rep.pos)
      BY <1>2, <2>3 DEF PageInv
    <3>3. Built(page, read, rep.pos)' /\ Passed(page, read, rep.pos)'
      BY <2>1, <2>3, <3>1, <3>2, BuiltKept, PassedKept DEF detail
    <3> QED BY <1>2, <2>1, <2>3, <3>3 DEF PageInv, detail
  <2> QED BY <2>2, <2>3
<1>3. ASSUME loop # None PROVE StepsInv'
  <2>1. loop.p \in Page /\ loop.read \in Page /\ loop.i \in Nat /\ loop.n \in Nat
    BY <1>3 DEF TypeOK, Loop
  <2>2. rep # None /\ loop.i <= rep.to - rep.from /\ rep.to \in Nat /\ rep.from \in Nat
    BY <1>3, <2>1 DEF StepsInv, TypeOK, Replay
  <2>3. Built(loop.p, loop.read, loop.i) /\ Passed(loop.p, loop.read, loop.i)
    BY <1>3 DEF StepsInv
  <2>4. Built(loop.p, loop.read, loop.i)' /\ Passed(loop.p, loop.read, loop.i)'
    BY <2>1, <2>2, <2>3, BuiltKept, PassedKept
  <2> QED BY <1>3, <2>4 DEF StepsInv, detail, ours
<1>4. page = None => PageInv'
  BY DEF PageInv, detail
<1>5. loop = None => StepsInv'
  BY DEF StepsInv
<1> QED BY <1>1, <1>2, <1>3, <1>4, <1>5

\* A step that logs nothing.
LEMMA SameLog ==
  ASSUME TypeOK, LogInv, UNCHANGED <<log, hist, ends, rep>>,
         written' \in Nat, written <= written', written' <= Len(log)
  PROVE  LogInv' /\ Kept
<1>1. LogInv'
  BY DEF LogInv, Version
<1>2. Kept
  BY DEF Kept, Version
<1> QED BY <1>1, <1>2

LEMMA LogStep ==
  ASSUME IInv, NEW x \in Rec, NEW last \in BOOLEAN, Log(x, last)
  PROVE  IInv' /\ Kept /\ [Version(Len(log)) EXCEPT ![x.row] = x.val] \in Data
<1> USE DEF IInv
<1>0. ends' \subseteq ends \cup {Len(log) + 1}
  <2>1. CASE last
    BY <2>1 DEF Log
  <2>2. CASE ~last
    BY <2>2 DEF Log
  <2> QED BY <2>1, <2>2
<1>1. Len(log) \in Nat /\ Version(Len(log)) \in Data /\ x.row \in Row /\ x.val \in Cell
  BY PageViewAssumption DEF TypeOK, LogInv, Version
<1>2. /\ log' \in Seq(Rec) /\ Len(log') = Len(log) + 1
      /\ log'[Len(log) + 1] = x /\ \A n \in 1..Len(log) : log'[n] = log[n]
  BY DEF TypeOK, Log
<1>3. [Version(Len(log)) EXCEPT ![x.row] = x.val] \in Data
  BY <1>1 DEF Data
<1>4. /\ hist' \in Seq(Data) /\ Len(hist') = Len(hist) + 1
      /\ hist'[Len(hist) + 1] = [Version(Len(log)) EXCEPT ![x.row] = x.val]
      /\ \A n \in 1..Len(hist) : hist'[n] = hist[n]
  BY <1>3 DEF TypeOK, Log
<1>5. \A n \in 0..Len(log) : Version(n)' = Version(n)
  BY <1>1, <1>4 DEF LogInv, Version
<1>6. TypeOK'
  <2>1. ends' \subseteq Nat
    BY <1>1, <1>0 DEF TypeOK
  <2> QED BY <1>2, <1>4, <2>1 DEF TypeOK, detail, Log
<1>7. LogInv'
  <2>1. hist'[Len(log) + 2] = [hist'[Len(log) + 1] EXCEPT ![log'[Len(log) + 1].row] = log'[Len(log) + 1].val]
    <3>1. Len(hist) = Len(log) + 1 /\ Len(hist) \in Nat /\ Len(hist) + 1 = Len(log) + 2
      BY <1>1 DEF LogInv
    <3>2. Version(Len(log)) = hist'[Len(log) + 1]
      BY <1>4, <3>1 DEF Version
    <3> QED BY <1>2, <1>4, <3>1, <3>2
  <2>2. \A n \in 1..Len(log') : Version(n)' = [Version(n - 1)' EXCEPT ![log'[n].row] = log'[n].val]
    <3> SUFFICES ASSUME NEW n \in 1..Len(log')
                 PROVE  hist'[n + 1] = [hist'[n - 1 + 1] EXCEPT ![log'[n].row] = log'[n].val]
      BY DEF Version
    <3>1. CASE n = Len(log) + 1
      <4>1. n + 1 = Len(log) + 2 /\ n - 1 + 1 = Len(log) + 1
        BY <1>1, <3>1
      <4> QED BY <2>1, <3>1, <4>1
    <3>2. CASE n # Len(log) + 1
      <4>1. n \in 1..Len(log) /\ n - 1 \in 0..Len(log) /\ n \in 0..Len(log)
        BY <1>1, <1>2, <3>2
      <4>2. Version(n) = [Version(n - 1) EXCEPT ![log[n].row] = log[n].val]
        BY <4>1 DEF LogInv
      <4> QED BY <1>2, <1>5, <4>1, <4>2 DEF Version
    <3> QED BY <3>1, <3>2
  <2>3. Len(hist') = Len(log') + 1 /\ written' <= Len(log')
    BY <1>1, <1>2, <1>4 DEF LogInv, TypeOK, Log
  <2>4. ends' \subseteq 0..Len(log')
    BY <1>0, <1>1, <1>2 DEF LogInv
  <2> QED BY <2>2, <2>3, <2>4 DEF LogInv
<1>8. Kept
  BY <1>1, <1>2, <1>5 DEF Kept, LogInv, TypeOK, Log
<1>9. DiskInv'
  BY <1>5, <1>1 DEF DiskInv, Flushed, LogInv, TypeOK, Page, Log
<1>10. IInv'
  BY <1>6, <1>7, <1>8, <1>9, ServerKeeps DEF detail, TypeOK, Log
<1> QED BY <1>3, <1>8, <1>10

LEMMA WriteLogStep ==
  ASSUME IInv, NEW n \in Nat, WriteLog(n)
  PROVE  IInv'
<1> USE DEF IInv, WriteLog
<1>1. Len(log) \in Nat /\ written \in Nat /\ n \in Nat
  BY DEF TypeOK
<1>2. TypeOK'
  BY DEF TypeOK, detail
<1>3. LogInv' /\ Kept
  BY <1>1, SameLog
<1>4. DiskInv'
  BY <1>1 DEF DiskInv, Flushed, Version, TypeOK, Page
<1> QED BY <1>2, <1>3, <1>4, ServerKeeps DEF detail, TypeOK

LEMMA FlushStep ==
  ASSUME IInv, NEW n \in Nat, Flush(n)
  PROVE  IInv'
<1> USE DEF IInv, Flush
<1>1. n \in 0..Len(log) /\ Version(n) \in Data
  BY DEF TypeOK, LogInv, Version
<1>2. disk' \in Page
  <2>1. [c \in Row |-> IF c \in Front THEN Version(n)[c] ELSE disk.data[c]] \in Data
    BY <1>1 DEF TypeOK, Page, Data
  <2> QED BY <1>1, <2>1 DEF TypeOK, Page
<1>3. TypeOK'
  BY <1>2 DEF TypeOK, detail
<1>4. LogInv' /\ Kept
  BY SameLog DEF LogInv, TypeOK
<1>5. DiskInv'
  BY <1>1, <1>2 DEF DiskInv, Flushed, Version, TypeOK, Page
<1> QED BY <1>3, <1>4, <1>5, ServerKeeps DEF detail, TypeOK

LEMMA FlushRestStep ==
  ASSUME IInv, FlushRest
  PROVE  IInv'
<1> USE DEF IInv, FlushRest
<1>1. disk.lsn \in 0..Len(log) /\ Version(disk.lsn) \in Data
  BY DEF TypeOK, LogInv, Version, Page, DiskInv, Flushed
<1>2. disk' \in Page
  BY <1>1 DEF TypeOK, Page
<1>3. TypeOK'
  BY <1>1, <1>2 DEF TypeOK, detail
<1>4. LogInv' /\ Kept
  BY SameLog DEF LogInv, TypeOK
<1>5. DiskInv'
  BY <1>1, <1>2 DEF DiskInv, Flushed, Version, TypeOK, Page
<1>6. flushed <= flushed'
  BY <1>1 DEF DiskInv, TypeOK
<1> QED BY <1>3, <1>4, <1>5, <1>6, ServerKeeps DEF detail

LEMMA TruncateStep ==
  ASSUME IInv, Truncate
  PROVE  IInv'
<1> USE DEF IInv, Truncate
<1>1. TypeOK'
  BY DEF TypeOK, detail
<1>2. LogInv' /\ Kept
  BY SameLog DEF LogInv, TypeOK
<1>3. DiskInv'
  BY DEF DiskInv, Flushed, Version
<1> QED BY <1>1, <1>2, <1>3, ServerKeeps DEF detail, TypeOK

-----------------------------------------------------------------------------

(* The keys. *)

\* A key leaves the log and the file as they are.
LEMMA KeyKeeps ==
  ASSUME LogInv, DiskInv, UNCHANGED server
  PROVE  LogInv' /\ DiskInv'
BY DEF LogInv, DiskInv, Flushed, Version, server

\* What a read returns is a page, and of ours what was flushed.
LEMMA ReadInv ==
  ASSUME IInv, NEW via, NEW p \in pageOpen(via)
  PROVE  /\ p \in Page
         /\ ours(p) => Flushed(p) /\ flushed <= p.lsn
         /\ Built(p, p, 0)
<1> USE DEF IInv
<1>1. p = disk \/ p \in foreign
  BY DEF pageOpen
<1>2. CASE p = disk
  <2>1. ours(p) /\ Flushed(p) /\ p \in Page /\ flushed <= p.lsn
    BY <1>2 DEF DiskInv, ours, TypeOK
  <2>2. trusted(p, p) => p.data = Version(p.lsn)
    BY <2>1 DEF trusted, Whole, Sum, Flushed
  <2> QED BY <2>1, <2>2 DEF Built, Flushed, Page, TypeOK
<1>3. CASE p \in foreign
  <2>1. p \in Page /\ ~ours(p)
    BY <1>3, PageViewAssumption DEF foreign, ours, Page
  <2> QED BY <2>1 DEF Built, trusted, Page
<1> QED BY <1>1, <1>2, <1>3

\* What a scan returns.
LEMMA LoadInv ==
  ASSUME IInv, NEW s \in loadRedo \cup loadRedoOnce
  PROVE  s \in Scanned /\ s.from <= flushed /\ s.from <= s.to /\ s.to <= written
<1> USE DEF IInv
<1>1. CASE s \notin loadRedo
  BY <1>1 DEF loadRedoOnce, TypeOK, ScanInv
<1>2. CASE s \in loadRedo
  <2>1. s \in loadRedo /\ ends \subseteq Nat /\ written \in Nat
    BY <1>2 DEF loadRedoOnce, TypeOK
  <2>2. s \in Scanned
    <3>1. s \in [from : ends, to : 0..written]
      BY <2>1 DEF loadRedo
    <3>2. ends \subseteq Nat /\ 0..written \subseteq Nat
      BY <2>1
    <3> QED BY <3>1, <3>2, Zenon DEF Scanned
  <2> QED BY <2>1, <2>2 DEF loadRedo, Scanned
<1> QED BY <1>1, <1>2

\* What is built of a page stays so while log and replay do.
LEMMA SameBuilt ==
  ASSUME UNCHANGED server, NEW p, NEW r, NEW k
  PROVE  /\ Built(p, r, k) => Built(p, r, k)'
         /\ rep'.from = rep.from /\ Passed(p, r, k) => Passed(p, r, k)'
BY DEF Built, Passed, trusted, Flushed, unbroken, Version, server, ours, seen, Whole, Sum

LEMMA OpenPageStep ==
  ASSUME IInv, NEW via \in {"handle", "path"}, NEW t \in Def, NEW p, OpenPage(via, t, p)
  PROVE  IInv'
<1> USE DEF IInv, OpenPage
<1>1. p \in Page /\ p # None /\ Built(p, p, 0)
  BY ReadInv, PageViewAssumption
<1>2. TypeOK'
  BY <1>1 DEF TypeOK, server
<1>3. LogInv' /\ DiskInv'
  BY KeyKeeps
<1>4. Built(p, p, 0)'
  BY <1>1, SameBuilt
<1>5. PageInv'
  BY <1>1, <1>4 DEF PageInv
<1>6. ScanInv' /\ StepsInv'
  BY DEF ScanInv, StepsInv, idle, server
<1> QED BY <1>2, <1>3, <1>5, <1>6

LEMMA LeaveStep ==
  ASSUME IInv, Leave
  PROVE  IInv'
<1> USE DEF IInv, Leave
<1>1. TypeOK'
  BY DEF TypeOK, server
<1>2. LogInv' /\ DiskInv'
  BY KeyKeeps
<1>3. ScanInv' /\ PageInv' /\ StepsInv'
  BY DEF ScanInv, PageInv, StepsInv, idle, server
<1> QED BY <1>1, <1>2, <1>3

LEMMA RescanStep ==
  ASSUME IInv, NEW s \in loadRedo, Rescan(s)
  PROVE  IInv'
<1> USE DEF IInv, Rescan
<1>1. s \in Scanned /\ s.from <= flushed /\ s.from <= s.to /\ s.to <= written
  BY LoadInv
<1>2. TypeOK'
  BY <1>1 DEF TypeOK, server, detail
<1>3. LogInv' /\ DiskInv'
  BY KeyKeeps
<1>4. ScanInv' /\ PageInv' /\ StepsInv'
  BY <1>1 DEF ScanInv, PageInv, StepsInv, idle, server, detail
<1> QED BY <1>2, <1>3, <1>4

LEMMA ReloadPageStep ==
  ASSUME IInv, NEW p, ReloadPage(p)
  PROVE  IInv'
<1> USE DEF IInv, ReloadPage
<1>1. p \in Page /\ p # None /\ Built(p, p, 0)
  BY ReadInv, PageViewAssumption
<1>2. TypeOK'
  BY <1>1 DEF TypeOK, server, changed
<1>3. LogInv' /\ DiskInv'
  BY KeyKeeps
<1>4. Built(p, p, 0)'
  BY <1>1, SameBuilt
<1>5. PageInv'
  BY <1>1, <1>4 DEF PageInv
<1>6. ScanInv' /\ StepsInv'
  BY DEF ScanInv, StepsInv, idle, server
<1> QED BY <1>2, <1>3, <1>5, <1>6

LEMMA ReplayNothingStep ==
  ASSUME IInv, NEW s \in loadRedoOnce, ReplayNothing(s)
  PROVE  IInv'
<1> USE DEF IInv, ReplayNothing
<1>1. s \in Scanned /\ s.from <= flushed /\ s.from <= s.to /\ s.to <= written
  BY LoadInv
<1>2. TypeOK'
  BY <1>1 DEF TypeOK, server, detail
<1>3. LogInv' /\ DiskInv'
  BY KeyKeeps
<1>4. Built(page, read, 0)'
  BY SameBuilt DEF PageInv, detail
<1>5. ScanInv' /\ PageInv' /\ StepsInv'
  BY <1>1, <1>4 DEF ScanInv, PageInv, StepsInv, idle, server, detail
<1> QED BY <1>2, <1>3, <1>5

\* n or p: the records are bound, and with the page read again the loop starts.
LEMMA ReplayStepStep ==
  ASSUME IInv, NEW d \in {1, -1}, NEW s \in loadRedoOnce, ReplayStep(d, s)
  PROVE  IInv' /\ (loop' # None \/ UNCHANGED loop)
<1> USE DEF IInv, ReplayStep
<1>1. s \in Scanned /\ s.from <= flushed /\ s.from <= s.to /\ s.to <= written
  BY LoadInv
<1>2. /\ rep' \in Replay /\ rep' # None
      /\ rep'.from <= flushed /\ rep'.pos <= rep'.to - rep'.from /\ rep'.to <= written
  <2>1. CASE rep # None
    BY <2>1 DEF TypeOK, ScanInv
  <2>2. CASE rep = None
    <3>1. rep' = [from |-> s.from, to |-> s.to, pos |-> 0]
      BY <2>2
    <3>2. rep' \in Replay
      BY <1>1, <3>1 DEF Scanned, Replay
    <3> QED BY <1>1, <3>1, <3>2, PageViewAssumption DEF Scanned
  <2> QED BY <2>1, <2>2
<1>3. redo' \in Scanned \cup {None} /\ (redo' # None => redo'.from <= flushed /\ redo'.from <= redo'.to /\ redo'.to <= written)
  BY <1>1 DEF TypeOK, ScanInv
<1>4. LogInv' /\ DiskInv'
  BY KeyKeeps
<1>5. ScanInv'
  BY <1>2, <1>3 DEF ScanInv, server
<1>6. PageInv'
  <2>1. page' = page /\ read' = read /\ page # None /\ read # None
    BY DEF detail, PageInv
  <2>2. CASE rep # None
    <3>1. Built(page, read, rep.pos)' /\ Passed(page, read, rep.pos)'
      BY <2>1, <2>2, SameBuilt DEF PageInv
    <3> QED BY <2>1, <2>2, <3>1 DEF PageInv
  <2>3. CASE rep = None
    <3>1. Built(page, read, 0)' /\ page = read /\ rep'.pos = 0 /\ rep'.from \in Nat
      BY <2>1, <2>3, <1>1, SameBuilt DEF PageInv, Built, Scanned
    <3>2. Passed(page, read, 0)'
      BY <2>1, <3>1 DEF Passed
    <3> QED BY <1>2, <2>1, <3>1, <3>2 DEF PageInv
  <2> QED BY <2>2, <2>3
<1>7. CASE UNCHANGED loop
  <2>1. TypeOK'
    BY <1>2, <1>3, <1>7 DEF TypeOK, server, detail
  <2> QED BY <1>4, <1>5, <1>6, <1>7, <2>1 DEF StepsInv, idle
<1>8. CASE ~UNCHANGED loop
  <2> DEFINE n == rep'.pos + d
  <2>1. inRange(n, rep') /\ startReplay(n)
    BY <1>8
  <2>2. PICK p \in pageOpen(opener) : loop' = [p |-> p, read |-> p, i |-> 0, n |-> n]
    BY <1>8, <2>1 DEF startReplay
  <2>3. n \in Nat /\ n <= rep'.to - rep'.from
    BY <1>2, <2>1 DEF inRange, Replay
  <2>4. p \in Page /\ Built(p, p, 0) /\ (ours(p) => flushed <= p.lsn)
    BY ReadInv
  <2>5. loop' \in Loop /\ loop' # None
    BY <2>2, <2>3, <2>4, PageViewAssumption DEF Loop
  <2>6. TypeOK'
    BY <1>2, <1>3, <2>5 DEF TypeOK, server, detail
  <2>7. Built(p, p, 0)' /\ Passed(p, p, 0)'
    <3>1. Built(p, p, 0)'
      BY <2>4, SameBuilt
    <3>2. rep'.from \in Nat
      BY <1>2 DEF Replay
    <3> QED BY <3>1, <3>2 DEF Passed
  <2>8. ours(p) => rep'.from <= p.lsn
    BY <1>2, <2>4, SMTT(30) DEF Replay, Page, TypeOK
  <2>9. StepsInv'
    BY <1>2, <2>2, <2>3, <2>5, <2>7, <2>8 DEF StepsInv, detail, ours
  <2> QED BY <1>4, <1>5, <1>6, <2>5, <2>6, <2>9
<1> QED BY <1>7, <1>8

\* What Apply makes of a page is a page, of the same tablespace, and no older.
LEMMA ApplyType ==
  ASSUME NEW r \in Rec, NEW n \in Nat, NEW p \in Page
  PROVE  /\ Apply(r, n, p) \in Page
         /\ Apply(r, n, p).id = p.id
         /\ Apply(r, n, p).lsn = IF seen(p, n) \/ r.kind = "heap" THEN p.lsn ELSE n
         /\ p.lsn <= Apply(r, n, p).lsn
<1>1. r.row \in Row /\ r.val \in Cell
  BY PageViewAssumption
<1>2. CASE seen(p, n) \/ r.kind = "heap"
  BY <1>2 DEF Apply, Page
<1>3. CASE ~(seen(p, n) \/ r.kind = "heap")
  <2>1. Apply(r, n, p) = stamp(p, n, [p.data EXCEPT ![r.row] = r.val])
    BY <1>3 DEF Apply
  <2>2. [p.data EXCEPT ![r.row] = r.val] \in Data
    BY <1>1 DEF Page, Data
  <2>3. stamp(p, n, [p.data EXCEPT ![r.row] = r.val]) \in Page
    BY <2>2 DEF stamp, Page
  <2> QED BY <1>3, <2>1, <2>3 DEF stamp, Page, seen
<1> QED BY <1>2, <1>3

\* One turn of the loop: the record after the k passed goes onto the page.  If
\* the page is a version and lacks the record, it is the version before it.
LEMMA ApplyInv ==
  ASSUME TypeOK, LogInv, rep # None, ScanInv,
         NEW p \in Page, NEW r \in Page, NEW k \in Nat, k < rep.to - rep.from,
         ours(p), rep.from <= r.lsn, Built(p, r, k), Passed(p, r, k)
  PROVE  LET n == rep.from + k + 1
         IN  Built(Apply(log[n], n, p), r, k + 1) /\ Passed(Apply(log[n], n, p), r, k + 1)
<1> DEFINE n == rep.from + k + 1
           q == Apply(log[n], n, p)
<1>1. /\ rep.from \in Nat /\ rep.to \in Nat /\ n \in 1..Len(log) /\ n <= written
      /\ log[n] \in Rec /\ written \in Nat /\ p.lsn \in Nat /\ r.lsn \in Nat
  <2>1. rep.from \in Nat /\ rep.to \in Nat /\ written \in Nat /\ Len(log) \in Nat
    BY DEF TypeOK, Replay
  <2>2. n \in 1..Len(log) /\ n <= written
    BY <2>1 DEF LogInv, ScanInv
  <2>3. log[n] \in Rec
    BY <2>2 DEF TypeOK
  <2> QED BY <2>1, <2>2, <2>3 DEF Page
<1>2. /\ q \in Page /\ q.id = p.id /\ p.lsn <= q.lsn
      /\ q.lsn = IF seen(p, n) \/ log[n].kind = "heap" THEN p.lsn ELSE n
  BY <1>1, ApplyType
<1>3. ours(r) /\ r.lsn <= p.lsn /\ p.lsn <= written /\ Flushed(r) /\ q.id = r.id
  BY <1>2 DEF Built, ours
<1> HIDE DEF q
<1>4. q.lsn \in Nat /\ r.lsn <= q.lsn /\ q.lsn <= written
  BY <1>1, <1>2, <1>3 DEF Page
<1>5. Passed(q, r, k + 1)
  <2>1. q.lsn = r.lsn \/ q.lsn <= rep.from + (k + 1)
    BY <1>1, <1>2, SMTT(30) DEF Passed, seen
  <2>2. \A m \in rep.from + 1 .. rep.from + (k + 1) : log[m].kind # "heap" => seen(q, m)
    <3> SUFFICES ASSUME NEW m \in rep.from + 1 .. rep.from + (k + 1), log[m].kind # "heap"
                 PROVE  seen(q, m)
      OBVIOUS
    <3>1. CASE m = n
      BY <1>1, <1>2, <3>1, SMTT(30) DEF seen
    <3>2. CASE m # n
      <4>1. m \in rep.from + 1 .. rep.from + k
        BY <1>1, <3>2, SMTT(30)
      <4> QED BY <1>1, <1>2, <1>4, <4>1, SMTT(30) DEF Passed, seen
    <3> QED BY <3>1, <3>2
  <2> QED BY <2>1, <2>2 DEF Passed
<1>6. ASSUME trusted(q, r) PROVE q.data = Version(q.lsn)
  <2>1. Whole(r) /\ unbroken(q, r)
    BY <1>6 DEF trusted
  <2>2. \A m \in r.lsn + 1 .. p.lsn : log[m].kind # "heap"
    BY <1>1, <1>2, <1>4, <2>1 DEF unbroken
  <2>3. p.data = Version(p.lsn)
    BY <2>1, <2>2 DEF trusted, unbroken, Built
  <2>4. CASE seen(p, n) \/ log[n].kind = "heap"
    BY <2>3, <2>4 DEF q, Apply
  <2>5. CASE ~(seen(p, n) \/ log[n].kind = "heap")
    <3>1. q.lsn = n /\ p.lsn < n
      BY <1>1, <1>2, <2>5 DEF seen
    <3>2. p.lsn >= rep.from + k
      <4>1. CASE k = 0
        BY <1>1, <1>3, <4>1
      <4>2. CASE k > 0 /\ rep.from + k <= r.lsn
        BY <1>1, <1>3, <4>2
      <4>3. CASE k > 0 /\ rep.from + k > r.lsn
        <5>1. rep.from + k \in r.lsn + 1 .. q.lsn /\ rep.from + k \in rep.from + 1 .. rep.from + k
          <6> DEFINE a == rep.from
                     b == r.lsn
                     c == q.lsn
          <6>1. a \in Nat /\ b \in Nat /\ k \in Nat /\ k > 0 /\ a + k > b /\ c = a + k + 1
            BY <1>1, <3>1, <4>3
          <6> HIDE DEF a, b, c
          <6>2. a + k \in b + 1 .. c /\ a + k \in a + 1 .. a + k BY <6>1
          <6> QED BY <6>2 DEF a, b, c
        <5>2. log[rep.from + k].kind # "heap"
          BY <2>1, <5>1 DEF unbroken
        <5> QED BY <5>1, <5>2 DEF Passed, seen
      <4> QED BY <1>1, <4>1, <4>2, <4>3
    <3>3. p.lsn = n - 1
      <4>1. p.lsn \in Nat /\ rep.from \in Nat
        BY <1>1
      <4> QED BY <3>1, <3>2, <4>1
    <3>4. q.data = [p.data EXCEPT ![log[n].row] = log[n].val]
      BY <2>5 DEF q, Apply, stamp, Page
    <3>5. Version(n) = [Version(n - 1) EXCEPT ![log[n].row] = log[n].val]
      BY <1>1 DEF LogInv
    <3> QED BY <2>3, <3>1, <3>3, <3>4, <3>5
  <2> QED BY <2>4, <2>5
<1>7. Built(q, r, k + 1)
  BY <1>1, <1>3, <1>4, <1>6 DEF Built
<1> QED BY <1>5, <1>7 DEF q

LEMMA ReplayTurnStep ==
  ASSUME IInv, ReplayTurn
  PROVE  IInv' /\ loop # None /\ loop' # None /\ loop'.read = loop.read
<1> USE DEF IInv, ReplayTurn
<1> DEFINE n == rep.from + loop.i + 1
<1>1. /\ loop \in Loop /\ loop.p \in Page /\ loop.read \in Page /\ loop.i \in Nat /\ loop.n \in Nat
      /\ rep # None /\ page # None
      /\ loop.i <= loop.n /\ loop.n <= rep.to - rep.from
      /\ Built(loop.p, loop.read, loop.i) /\ Passed(loop.p, loop.read, loop.i)
      /\ (ours(loop.read) => rep.from <= loop.read.lsn)
  BY DEF TypeOK, Loop, idle, StepsInv
<1>2. rep \in Replay /\ rep.from \in Nat /\ rep.to \in Nat
  BY <1>1 DEF TypeOK, Replay
<1>3. LogInv' /\ DiskInv' /\ ScanInv'
  BY KeyKeeps DEF ScanInv, server
<1>4. PageInv'
  BY SameBuilt DEF PageInv, detail
<1>5. CASE fails(log[n], n, loop.p)
  <2>1. loop' = [loop EXCEPT !.n = loop.i, !.i = loop.i]
    BY <1>5 DEF failAt
  <2>2. /\ loop' \in Loop /\ loop' # None /\ loop'.p = loop.p /\ loop'.read = loop.read
        /\ loop'.i = loop.i /\ loop'.n = loop.i
    BY <1>1, <2>1, PageViewAssumption DEF Loop
  <2>3. TypeOK'
    BY <2>2 DEF TypeOK, server, detail
  <2>5. StepsInv'
    <3>1. Built(loop.p, loop.read, loop.i)' /\ Passed(loop.p, loop.read, loop.i)'
      BY <1>1, <2>2 DEF Built, Passed, trusted, Flushed, unbroken, Version, server, ours, seen, Whole, Sum
    <3>2. (ours(loop.read) => rep.from <= loop.read.lsn)'
      BY <1>1, <2>2 DEF ours
    <3> QED BY <1>1, <1>2, <2>2, <3>1, <3>2 DEF StepsInv, detail
  <2>6. IInv'
    BY <1>3, <1>4, <2>3, <2>5
  <2> QED BY <2>2, <2>6 DEF idle
<1>6. CASE ~fails(log[n], n, loop.p)
  <2> DEFINE q == Apply(log[n], n, loop.p)
  <2>1. ours(loop.p) /\ ours(loop.read)
    BY <1>1, <1>6 DEF fails, Built, ours
  <2>2. loop' = [loop EXCEPT !.p = q, !.i = loop.i + 1]
    BY <1>6
  <2>3. log[n] \in Rec /\ n \in Nat
    BY <1>1, <1>2, SMTT(30) DEF TypeOK, LogInv, ScanInv
  <2>4. q \in Page
    BY <1>1, <2>3, ApplyType
  <2>5. Built(q, loop.read, loop.i + 1) /\ Passed(q, loop.read, loop.i + 1)
    BY <1>1, <1>2, <2>1, ApplyInv
  <2> HIDE DEF q
  <2>6. /\ loop' \in Loop /\ loop' # None /\ loop'.p = q /\ loop'.read = loop.read
        /\ loop'.i = loop.i + 1 /\ loop'.n = loop.n
    <3>1. loop' = [p |-> q, read |-> loop.read, i |-> loop.i + 1, n |-> loop.n]
      BY <1>1, <2>2 DEF Loop
    <3>2. loop' \in Loop
      BY <1>1, <2>4, <3>1 DEF Loop
    <3> QED BY <3>1, <3>2, PageViewAssumption
  <2>7. TypeOK'
    BY <2>6 DEF TypeOK, server, detail
  <2>8. Built(q, loop.read, loop.i + 1) /\ Passed(q, loop.read, loop.i + 1)
    BY <2>5 DEF q
  <2>9. StepsInv'
    <3>1. Built(loop.p, loop.read, loop.i)' /\ Passed(loop.p, loop.read, loop.i)'
      BY <2>6, <2>8 DEF Built, Passed, trusted, Flushed, unbroken, Version, server, ours, seen, Whole, Sum
    <3>2. (ours(loop.read) => rep.from <= loop.read.lsn)'
      BY <1>1, <2>6 DEF ours
    <3>3. loop'.i <= loop'.n
      BY <1>1, <2>6
    <3> QED BY <1>1, <1>2, <2>6, <3>1, <3>2, <3>3 DEF StepsInv, detail
  <2>10. IInv'
    BY <1>3, <1>4, <2>7, <2>9
  <2> QED BY <2>6, <2>10 DEF idle
<1> QED BY <1>5, <1>6

LEMMA ReplayShowStep ==
  ASSUME IInv, ReplayShow
  PROVE  IInv'
<1> USE DEF IInv, ReplayShow
<1>1. /\ loop.p \in Page /\ loop.read \in Page /\ loop.i \in Nat /\ loop.n = loop.i
      /\ rep # None /\ page # None /\ loop.n <= rep.to - rep.from
      /\ Built(loop.p, loop.read, loop.i) /\ Passed(loop.p, loop.read, loop.i)
  BY DEF TypeOK, Loop, idle, StepsInv
<1>2. /\ rep \in Replay /\ rep' \in Replay /\ rep' # None
      /\ rep'.from = rep.from /\ rep'.to = rep.to /\ rep'.pos = loop.i
  BY <1>1, PageViewAssumption DEF TypeOK, Replay
<1>3. TypeOK'
  BY <1>1, <1>2 DEF TypeOK, server, changed
<1>4. LogInv' /\ DiskInv' /\ ScanInv'
  BY <1>1, <1>2, KeyKeeps DEF ScanInv, server
<1>6. PageInv'
  <2>1. Built(page, read, rep.pos)' /\ Passed(page, read, rep.pos)'
    BY <1>1, <1>2 DEF Built, Passed, trusted, Flushed, unbroken, Version, server, ours, seen, Whole, Sum
  <2>2. read' # None
    BY <1>1, PageViewAssumption
  <2> QED BY <1>2, <2>1, <2>2 DEF PageInv
<1>7. StepsInv'
  BY DEF StepsInv
<1> QED BY <1>3, <1>4, <1>6, <1>7

LEMMA NextInv == IInv /\ [Next]_vars => IInv'
<1> SUFFICES ASSUME IInv, [Next]_vars PROVE IInv'
  OBVIOUS
<1>1. ASSUME NEW r \in Rec, NEW last \in BOOLEAN, Log(r, last) PROVE IInv'
  BY <1>1, LogStep
<1>2. ASSUME NEW n \in 1..MaxLog, WriteLog(n) \/ Flush(n) PROVE IInv'
  <2>1. n \in Nat
    BY PageViewAssumption
  <2> QED BY <1>2, <2>1, WriteLogStep, FlushStep
<1>3. CASE FlushRest \/ Truncate
  BY <1>3, FlushRestStep, TruncateStep
<1>4. ASSUME NEW via \in {"handle", "path"}, NEW t \in Def, NEW p \in pageOpen(via), OpenPage(via, t, p)
      PROVE  IInv'
  BY <1>4, OpenPageStep
<1>5. CASE Leave
  BY <1>5, LeaveStep
<1>6. ASSUME NEW s \in loadRedo, Rescan(s) PROVE IInv'
  BY <1>6, RescanStep
<1>7. ASSUME NEW s \in loadRedoOnce, ReplayStep(1, s) \/ ReplayStep(-1, s) \/ ReplayNothing(s)
      PROVE  IInv'
  BY <1>7, ReplayStepStep, ReplayNothingStep
<1>8. CASE ReplayTurn \/ ReplayShow
  BY <1>8, ReplayTurnStep, ReplayShowStep
<1>9. ASSUME NEW p \in foreign \cup {disk}, ReloadPage(p) PROVE IInv'
  BY <1>9, ReloadPageStep
<1>10. CASE UNCHANGED vars
  <2>1. UNCHANGED <<server, detail, redo, rep, loop>>
    BY <1>10 DEF vars
  <2>2. TypeOK'
    BY <2>1 DEF IInv, TypeOK, server, detail
  <2>3. LogInv' /\ Kept /\ DiskInv'
    BY <2>1, SameLog, KeyKeeps DEF IInv, TypeOK, LogInv, server
  <2> QED BY <2>1, <2>2, <2>3, ServerKeeps DEF IInv, TypeOK, server
<1> QED BY <1>1, <1>2, <1>3, <1>4, <1>5, <1>6, <1>7, <1>8, <1>9, <1>10 DEF Next, Server, Key

\* Whatever the server logs and flushes and whatever keys are pressed.
THEOREM ViewInvariant == Spec => []IInv
BY InitInv, NextInv, PTL DEF Spec

\* Every variable keeps its type.
THEOREM ViewTypeCorrect == Spec => []TypeOK
BY ViewInvariant, PTL DEF IInv

\* The page shown is a version the server had (apply.go:9-15).
THEOREM PageShownIsAVersion == Spec => []PageIsVersion
<1>1. IInv => PageIsVersion
  BY DEF IInv, PageInv, Built, PageIsVersion
<1> QED BY <1>1, ViewInvariant, PTL

\* The position counts the records the page has (replay.go:147-151).
THEOREM PositionIsOfThePage == Spec => []ReplayPosition
<1>1. IInv => ReplayPosition
  <2> SUFFICES ASSUME IInv, page # None, rep # None PROVE ReplayPosition
    BY DEF ReplayPosition
  <2>1. Built(page, read, rep.pos) /\ Passed(page, read, rep.pos)
    BY DEF IInv, PageInv
  <2>2. page.id = Other => rep.pos = 0
    BY <2>1, PageViewAssumption DEF Built, ours
  <2> QED BY <2>1, <2>2 DEF Passed, ReplayPosition
<1> QED BY <1>1, ViewInvariant, PTL

\* With every record stepped, the page is the one recovery would make.
THEOREM FullReplayRecovers == Spec => []ReplayRecovers
<1>1. IInv => ReplayRecovers
  <2> SUFFICES ASSUME IInv, page # None, rep # None, rep.pos > 0, rep.pos = rep.to - rep.from,
                      Whole(read), \A n \in read.lsn + 1 .. rep.to : log[n].kind # "heap"
               PROVE  page.data = Version(IF read.lsn > rep.to THEN read.lsn ELSE rep.to)
    BY DEF ReplayRecovers
  <2>1. Built(page, read, rep.pos) /\ Passed(page, read, rep.pos)
    BY DEF IInv, PageInv
  <2>2. /\ rep.from \in Nat /\ rep.to \in Nat /\ rep.pos \in Nat /\ rep.from + rep.pos = rep.to
        /\ page.lsn \in Nat /\ read.lsn \in Nat
    <3>1. rep \in Replay /\ page \in Page /\ read \in Page
      BY DEF IInv, PageInv, TypeOK
    <3>2. rep.from \in Nat /\ rep.to \in Nat /\ rep.pos \in Nat
      BY <3>1 DEF Replay
    <3> QED BY <3>1, <3>2 DEF Page
  <2>3. ours(page) /\ ours(read) /\ read.lsn <= page.lsn
    BY <2>1 DEF Built, ours
  <2>4. page.lsn = IF read.lsn > rep.to THEN read.lsn ELSE rep.to
    <3>1. CASE read.lsn >= rep.to
      <4>1. page.lsn = read.lsn \/ page.lsn <= rep.to
        BY <2>1, <2>2 DEF Passed
      <4> QED BY <2>2, <2>3, <3>1, <4>1
    <3>2. CASE read.lsn < rep.to
      <4>1. rep.to \in read.lsn + 1 .. rep.to /\ rep.to \in rep.from + 1 .. rep.from + rep.pos
        BY <2>2, <3>2
      <4>2. page.lsn >= rep.to
        BY <2>1, <4>1 DEF Passed, seen
      <4> QED BY <2>1, <2>2, <3>2, <4>2 DEF Passed
    <3> QED BY <2>2, <3>1, <3>2
  <2>5. unbroken(page, read)
    <3>1. \A n \in read.lsn + 1 .. page.lsn : n \in read.lsn + 1 .. rep.to
      BY <2>2, <2>4
    <3> QED BY <3>1 DEF unbroken
  <2> QED BY <2>1, <2>3, <2>4, <2>5 DEF Built, trusted
<1> QED BY <1>1, ViewInvariant, PTL

-----------------------------------------------------------------------------

(* The detail implements PageHistory.                                      *)

\* A step that leaves the detail alone shows what was shown.
LEMMA ShownKept ==
  ASSUME IInv, TypeOK', Kept, UNCHANGED <<page, read>>
  PROVE  shownVersion' = shownVersion
<1>1. CASE page = None
  BY <1>1 DEF shownVersion
<1>2. CASE page # None
  <2>1. page \in Page /\ read \in Page /\ written \in Nat
    BY <1>2 DEF IInv, TypeOK, PageInv
  <2>2. ours(page) => page.lsn <= written
    BY <1>2 DEF IInv, PageInv, Built, ours
  <2>3. ours(page) => \A n \in read.lsn + 1 .. page.lsn : n \in 1..written
    BY <2>1, <2>2 DEF Page
  <2>4. trusted(page, read)' <=> trusted(page, read)
    BY <2>3 DEF trusted, unbroken, Kept, ours, Whole, Sum
  <2> QED BY <2>4 DEF shownVersion
<1> QED BY <1>1, <1>2

\* A page built of one read of the file is None or a version no older.
LEMMA BuiltVersion ==
  ASSUME TypeOK, LogInv, NEW p \in Page, NEW r \in Page, NEW k, Built(p, r, k), trusted(p, r)
  PROVE  [lsn |-> p.lsn, data |-> p.data] \in History!Versions(r.lsn) /\ ours(r)
<1>1. p.data = hist[p.lsn + 1] /\ ours(r) /\ r.lsn <= p.lsn /\ p.lsn <= written
  BY DEF Built, trusted, Version, ours
<1>2. p.lsn \in r.lsn .. Len(hist) - 1
  BY <1>1 DEF TypeOK, LogInv, Page
<1> QED BY <1>1, <1>2 DEF History!Versions

\* The file is read or a page built of it shown, and the log stays.
LEMMA LookMaps ==
  ASSUME IInv, UNCHANGED server,
         knownVersion' \in {knownVersion, disk.lsn, None},
         \/ shownVersion' \in {shownVersion, None}
         \/ knownVersion' # None /\ shownVersion' \in History!Versions(knownVersion')
  PROVE  History!Next
BY DEF History!Next, History!Look, server

\* What a read of the file makes known, and of ours that it is the file's version.
LEMMA ReadKnown ==
  ASSUME IInv, NEW via, NEW p \in pageOpen(via)
  PROVE  /\ p \in Page /\ p # None /\ p.lsn # None
         /\ ours(p) => p.lsn = disk.lsn
         /\ trusted(p, p) => [lsn |-> p.lsn, data |-> p.data] \in History!Versions(p.lsn)
<1>1. p \in Page /\ Built(p, p, 0)
  BY ReadInv
<1>2. p = disk \/ p.id = Other
  BY DEF pageOpen, foreign
<1>3. p.lsn # None
  <2>1. p.lsn \in Nat
    BY <1>1 DEF Page
  <2> QED BY <2>1, PageViewAssumption
<1> QED BY <1>1, <1>2, <1>3, BuiltVersion, PageViewAssumption DEF IInv, ours

\* A page of one read of the file takes the place of the one shown.
LEMMA ReadShown ==
  ASSUME IInv, UNCHANGED server, NEW via, NEW p \in pageOpen(via),
         page' = p, read' = p, loop' = None
  PROVE  History!Next
<1>1. p # None /\ (ours(p) => p.lsn = disk.lsn)
  BY ReadKnown
<1>2. knownVersion' = IF ours(p) THEN p.lsn ELSE None
  BY <1>1 DEF knownVersion, lastRead, idle, ours
<1>3. shownVersion' = IF trusted(p, p) THEN [lsn |-> p.lsn, data |-> p.data] ELSE None
  BY <1>1 DEF shownVersion, trusted, unbroken, ours, Whole, Sum, server
<1>4. trusted(p, p) => ours(p) /\ p.lsn # None
  BY ReadKnown DEF trusted
<1>5. knownVersion' = disk.lsn \/ knownVersion' = None
  <2>1. CASE ours(p)
    BY <1>1, <1>2, <2>1
  <2>2. CASE ~ours(p)
    BY <1>2, <2>2
  <2> QED BY <2>1, <2>2
<1>6. CASE trusted(p, p)
  BY <1>2, <1>3, <1>4, <1>5, <1>6, ReadKnown, LookMaps
<1>7. CASE ~trusted(p, p)
  BY <1>3, <1>5, <1>7, LookMaps
<1> QED BY <1>6, <1>7

\* A step that leaves what is read and shown alone.
LEMMA SameShown ==
  ASSUME IInv, TypeOK', Kept, UNCHANGED <<page, read, loop>>
  PROVE  knownVersion' = knownVersion /\ shownVersion' = shownVersion
<1>1. knownVersion' = knownVersion
  BY DEF knownVersion, lastRead, idle
<1> QED BY <1>1, ShownKept

LEMMA ServerMaps ==
  ASSUME IInv, IInv', Server
  PROVE  [History!Next]_(History!vars)
<1>1. ASSUME NEW x \in Rec, NEW last \in BOOLEAN, Log(x, last)
      PROVE  History!Next
  <2>1. Kept /\ [Version(Len(log)) EXCEPT ![x.row] = x.val] \in Data
    BY <1>1, LogStep
  <2>2. knownVersion' = knownVersion /\ shownVersion' = shownVersion
    BY <1>1, <2>1, SameShown DEF Log, detail, IInv
  <2> QED BY <1>1, <2>1, <2>2 DEF History!Next, History!Change, Log
<1>2. ASSUME NEW n \in 1..MaxLog, Flush(n) PROVE History!Next
  <2>1. Kept
    BY <1>2, SameLog DEF Flush, IInv, LogInv, TypeOK
  <2>2. knownVersion' = knownVersion /\ shownVersion' = shownVersion
    BY <1>2, <2>1, SameShown DEF Flush, detail, IInv
  <2>3. disk'.lsn = n /\ n \in disk.lsn + 1 .. Len(hist) - 1
    BY <1>2, PageViewAssumption DEF Flush, IInv, LogInv, TypeOK, Page
  <2> QED BY <1>2, <2>2, <2>3 DEF History!Next, History!Flush, Flush
<1>3. ASSUME \/ \E n \in 1..MaxLog : WriteLog(n)
             \/ FlushRest \/ Truncate
      PROVE  UNCHANGED History!vars
  <2>1. UNCHANGED <<log, hist, ends, rep, page, read, loop>>
    BY <1>3 DEF WriteLog, FlushRest, Truncate, detail
  <2>2. written' \in Nat /\ written <= written' /\ written' <= Len(log)
    BY <1>3 DEF WriteLog, FlushRest, Truncate, IInv, LogInv, TypeOK
  <2>5. disk'.lsn = disk.lsn
    BY <1>3 DEF WriteLog, FlushRest, Truncate, IInv, TypeOK, Page
  <2>3. Kept
    BY <2>1, <2>2, SameLog DEF IInv
  <2>4. knownVersion' = knownVersion /\ shownVersion' = shownVersion
    BY <2>1, <2>3, SameShown DEF IInv
  <2> QED BY <2>1, <2>4, <2>5 DEF History!vars
<1> QED BY <1>1, <1>2, <1>3 DEF Server

\* The keys that read the file or show what was made of it.
LEMMA LookSteps ==
  ASSUME IInv, Key
  PROVE  [History!Next]_(History!vars)
<1>1. ASSUME NEW via, NEW t, NEW p \in pageOpen(via), OpenPage(via, t, p)
      PROVE  History!Next
  BY <1>1, ReadShown DEF OpenPage, idle
<1>2. ASSUME NEW p, ReloadPage(p) PROVE History!Next
  BY <1>2, ReadShown DEF ReloadPage, idle
<1>3. ASSUME Leave PROVE History!Next
  <2>1. UNCHANGED server /\ knownVersion' = knownVersion /\ shownVersion' = None
    BY <1>3 DEF Leave, knownVersion, shownVersion, lastRead, idle
  <2> QED BY <2>1, LookMaps
<1>4. ASSUME NEW s, Rescan(s) \/ ReplayNothing(s) \/ ReplayTurn PROVE UNCHANGED History!vars
  <2>1. UNCHANGED <<server, page, read>>
    BY <1>4 DEF Rescan, ReplayNothing, ReplayTurn, detail
  <2>2. lastRead' = lastRead
    BY <1>4, ReplayTurnStep DEF Rescan, ReplayNothing, lastRead, idle, detail
  <2> QED BY <2>1, <2>2 DEF History!vars, knownVersion, shownVersion, trusted, unbroken, server
<1>5. ASSUME NEW d \in {1, -1}, NEW s \in loadRedoOnce, ReplayStep(d, s)
      PROVE  [History!Next]_(History!vars)
  <2>1. UNCHANGED <<server, page, read>>
    BY <1>5 DEF ReplayStep, detail
  <2>2. shownVersion' = shownVersion
    BY <2>1 DEF shownVersion, trusted, unbroken, server
  <2>3. CASE UNCHANGED loop
    BY <2>1, <2>2, <2>3 DEF History!vars, knownVersion, lastRead, idle, server
  <2>4. ASSUME NEW n, NEW p \in pageOpen(opener), loop' = [p |-> p, read |-> p, i |-> 0, n |-> n],
               loop' # None
        PROVE  History!Next
    <3>1. knownVersion' = IF ours(p) THEN p.lsn ELSE None
      BY <2>4, ReadKnown DEF knownVersion, lastRead, idle, ours
    <3> QED BY <2>1, <2>2, <3>1, ReadKnown, LookMaps
  <2>5. loop' # None \/ UNCHANGED loop
    BY <1>5, ReplayStepStep
  <2> QED BY <1>5, <2>3, <2>4, <2>5 DEF ReplayStep, startReplay
<1>6. ASSUME ReplayShow PROVE History!Next
  <2>1. /\ loop.p \in Page /\ loop.read \in Page /\ loop.read # None /\ loop.p # None
        /\ Built(loop.p, loop.read, loop.i)
    BY <1>6, PageViewAssumption DEF ReplayShow, idle, IInv, TypeOK, StepsInv, Loop
  <2>2. page' = loop.p /\ read' = loop.read /\ loop' = None /\ UNCHANGED server
    BY <1>6 DEF ReplayShow
  <2>3. knownVersion' = knownVersion
    BY <1>6, <2>2 DEF ReplayShow, knownVersion, lastRead, idle
  <2>4. shownVersion' = IF trusted(loop.p, loop.read) THEN [lsn |-> loop.p.lsn, data |-> loop.p.data] ELSE None
    BY <2>1, <2>2 DEF shownVersion, trusted, unbroken, server
  <2>5. ours(loop.read) => knownVersion = loop.read.lsn /\ knownVersion # None
    BY <1>6, <2>1, PageViewAssumption DEF ReplayShow, knownVersion, lastRead, idle, Page
  <2>6. CASE trusted(loop.p, loop.read)
    <3>1. [lsn |-> loop.p.lsn, data |-> loop.p.data] \in History!Versions(loop.read.lsn) /\ ours(loop.read)
      BY <2>1, <2>6, BuiltVersion DEF IInv
    <3>2. shownVersion' \in History!Versions(knownVersion') /\ knownVersion' # None
      BY <2>3, <2>4, <2>5, <2>6, <3>1
    <3> QED BY <2>2, <2>3, <3>2, LookMaps
  <2>7. CASE ~trusted(loop.p, loop.read)
    BY <2>2, <2>3, <2>4, <2>7, LookMaps
  <2> QED BY <2>6, <2>7
<1> QED BY <1>1, <1>2, <1>3, <1>4, <1>5, <1>6 DEF Key

\* Whatever is read, replayed and reloaded, the detail implements PageHistory:
\* it shows versions of the page, none older than the file when last read.
THEOREM DetailShowsHistory == Spec => ShowsHistory
<1>1. Init => History!Init
  BY DEF Init, History!Init, knownVersion, shownVersion, lastRead, idle
<1>2. IInv /\ IInv' /\ [Next]_vars => [History!Next]_(History!vars)
  <2>1. CASE Server
    BY <2>1, ServerMaps
  <2>2. CASE Key
    BY <2>2, LookSteps
  <2>3. CASE UNCHANGED vars
    BY <2>3 DEF vars, server, detail, History!vars, knownVersion, shownVersion, lastRead, idle,
       trusted, unbroken
  <2> QED BY <2>1, <2>2, <2>3 DEF Next
<1> QED BY <1>1, <1>2, ViewInvariant, PTL DEF Spec, ShowsHistory, History!Spec
==============================================================================
