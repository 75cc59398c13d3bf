------------------------------- MODULE RedoScan -------------------------------
(***************************************************************************)
(* The scan of the redo log (innodb/redo.go) and its split into            *)
(* mini-transactions (redorec.go, MTRs) while the server writes the log,    *)
(* makes checkpoints and recycles the files.                               *)
(*                                                                         *)
(* What the log will hold is fixed at the start and the server has written *)
(* some of it: log[k + 1] is its byte k.  The bytes of a record that is    *)
(* longer than one are "long" ones and a "rest".  A block on disk is named *)
(* by which one it is and how much of the log there was when it was        *)
(* written; its header, its data and its LOG_BLOCK_FIRST_REC_GROUP follow. *)
(***************************************************************************)
EXTENDS Integers, Sequences, FiniteSetsExt

CONSTANTS
  Inode,   \* the files the log is kept in, under changing names
  FileLen, \* blocks in a file
  Hdr, Fill, Trl, \* bytes of a block: header, data, trailer
  MaxNo,   \* logBlockMaxNo
  Logs,    \* bound: what the log may come to hold
  Points,  \* bound: the bytes of it at which a checkpoint may be made
  None

BlockSize == Hdr + Fill + Trl

Byte  == {"single", "part", "end", "long", "rest"}
Block == [n : Nat, upto : Nat]
Slots == [{1, 2} -> Nat]
File  == [live : BOOLEAN, start : Nat, slots : Slots, blk : [0 .. FileLen - 1 -> Block \cup {None}]]
Opened      == [inode : Inode, Name : Nat]
RedoFile    == [inode : Inode, Name : Nat, start : Nat, slots : Slots]
streamBlock == [off : Nat, lsn : Nat]
MTR         == [off : Nat, to : Nat, err : {"", "truncated", "not terminated"}]

ASSUME RedoScanAssumption ==
  /\ IsFiniteSet(Inode) /\ FileLen \in Nat \ {0} /\ MaxNo \in Nat \ {0}
  /\ Hdr \in Nat \ {0} /\ Fill \in Nat \ {0} /\ Trl \in Nat \ {0}
  /\ Logs \subseteq Seq(Byte) /\ Points \subseteq Nat
  /\ \A l \in Logs : \A i \in 1 .. Len(l) : l[i] = "rest" <=> i > 1 /\ l[i - 1] = "long"
  /\ None \notin Opened \cup Block

VARIABLES
  log,     \* server: what the log will hold
  written, \* server: how much of it is in the files
  ckpt,    \* server: the newest checkpoint
  file,    \* server: the files by inode; a live one is named by its start
  phase,   \* loadRedo: "idle", "open", "scan", "done" or "failed"
  todo,    \* OpenRedo: the names read and not opened yet
  opening, \* OpenRedo: the file opened, its header not read yet
  Files,   \* Redo.Files
  CheckpointLSN, \* Redo.CheckpointLSN
  blockLSN, \* Scan: the block to read next
  StartLSN, \* LogStream.StartLSN
  blocks,   \* LogStream.blocks
  Buf,      \* LogStream.Buf
  Stop,     \* LogStream.Stop
  known     \* how much of the log was written when the scan began

server == <<log, written, ckpt, file>>
redo   == <<Files, CheckpointLSN>>
stream == <<blockLSN, StartLSN, blocks, Buf, Stop>>
vars   == <<server, phase, todo, opening, redo, stream, known>>

-----------------------------------------------------------------------------
(* The server: external, modelled from what the code relies on.            *)

\* The log sequence number of byte k of the log, and the block it is in.
lsn(k)     == (k \div Fill) * BlockSize + Hdr + (k % Fill)
blockOf(l) == l \div BlockSize

\* An mtr begins at byte k.
begins(k) == k = 0 \/ log[k] \in {"single", "end"}

\* What the header of a block says, and its bytes from one offset to another.
first(b)     == b.n * Fill
dataLen(b)   == IF b.upto >= first(b) + Fill THEN BlockSize ELSE Hdr + b.upto - first(b)
firstGroup(b) ==
  LET at == {k \in first(b) .. b.upto : k < first(b) + Fill /\ begins(k)}
  IN  IF at = {} THEN 0 ELSE Hdr + Min(at) - first(b)
bytes(b, from, to) == SubSeq(log, first(b) + from - Hdr + 1, first(b) + to - Hdr)

covers(f, n) == f.start <= n /\ n < f.start + FileLen
lastBlock    == Max({file[i].start + FileLen : i \in {j \in Inode : file[j].live}})

\* A write of the block the log ends in, up to byte n.
Write(n) ==
  /\ n \in written + 1 .. Len(log) /\ n <= (written \div Fill) * Fill + Fill
  /\ \E i \in Inode :
       /\ file[i].live /\ covers(file[i], written \div Fill)
       /\ file' = [file EXCEPT ![i].blk[written \div Fill - file[i].start] =
                     [n |-> written \div Fill, upto |-> n]]
  /\ written' = n
  /\ UNCHANGED <<log, ckpt, phase, todo, opening, redo, stream, known>>

\* A checkpoint at byte k goes to the file that has it, over the older of its two.
Checkpoint(k) ==
  /\ k \in Points /\ k <= written /\ ckpt < lsn(k)
  /\ \E i \in Inode, s \in {1, 2} :
       /\ file[i].live /\ covers(file[i], blockOf(lsn(k)))
       /\ \A t \in {1, 2} : file[i].slots[s] <= file[i].slots[t]
       /\ file' = [file EXCEPT ![i].slots[s] = lsn(k)]
  /\ ckpt' = lsn(k)
  /\ UNCHANGED <<log, written, phase, todo, opening, redo, stream, known>>

\* A file before the checkpoint is a spare, with the bytes it had, and becomes
\* the next one, which may or may not clear the slots of its header.
Recycle(i) ==
  /\ file[i].live /\ file[i].start + FileLen <= blockOf(ckpt)
  /\ file' = [file EXCEPT ![i].live = FALSE]
  /\ UNCHANGED <<log, written, ckpt, phase, todo, opening, redo, stream, known>>

NewFile(i) ==
  /\ ~file[i].live /\ (lastBlock - 1) * Fill <= written
  /\ \E slots \in {file[i].slots, [s \in {1, 2} |-> 0]} :
       file' = [file EXCEPT ![i].live = TRUE, ![i].start = lastBlock, ![i].slots = slots]
  /\ UNCHANGED <<log, written, ckpt, phase, todo, opening, redo, stream, known>>

\* What it does once the scan is over is nothing to it.
Server ==
  /\ phase \notin {"done", "failed"}
  /\ \/ \E n \in 1 .. Len(log) : Write(n)
     \/ \E k \in Points : Checkpoint(k)
     \/ \E i \in Inode : Recycle(i) \/ NewFile(i)

-----------------------------------------------------------------------------
(* OpenRedo.                                                               *)

lsnToHdrNo(n)   == 1 + (n % MaxNo)
lsnToEpochNo(n) == 1 + (n \div MaxNo)

ReadDir ==
  /\ phase = "idle"
  /\ phase' = "open"
  /\ todo' = {file[i].start : i \in {j \in Inode : file[j].live}}
  /\ known' = written
  /\ UNCHANGED <<server, opening, redo, stream>>

\* A file renamed since then cannot be opened, which fails the whole.
OpenFile(name) ==
  /\ phase = "open" /\ opening = None /\ name \in todo
  /\ todo' = todo \ {name}
  /\ IF \E i \in Inode : file[i].live /\ file[i].start = name
     THEN /\ opening' = [inode |-> CHOOSE i \in Inode : file[i].live /\ file[i].start = name,
                         Name |-> name]
          /\ UNCHANGED phase
     ELSE phase' = "failed" /\ UNCHANGED opening
  /\ UNCHANGED <<server, redo, stream, known>>

ReadHeader ==
  /\ opening # None
  /\ LET f == file[opening.inode]
     IN  Files' = Files \cup {[inode |-> opening.inode, Name |-> opening.Name,
                               start |-> f.start, slots |-> f.slots]}
  /\ opening' = None
  /\ UNCHANGED <<server, phase, todo, CheckpointLSN, stream, known>>

contains(f, l) == covers(f, blockOf(l))

\* The newest checkpoint of the headers read.
valid(f, l) == l > 0 /\ contains(f, l)

checkpoints == UNION {{f.slots[s] : s \in {t \in {1, 2} : valid(f, f.slots[t])}} : f \in Files}

Choose ==
  /\ phase = "open" /\ todo = {} /\ opening = None
  /\ IF checkpoints = {}
     THEN phase' = "failed" /\ UNCHANGED <<CheckpointLSN, blockLSN>>
     ELSE /\ phase' = "scan"
          /\ CheckpointLSN' = Max(checkpoints)
          /\ blockLSN' = blockOf(CheckpointLSN') * BlockSize
  /\ UNCHANGED <<server, todo, opening, Files, StartLSN, blocks, Buf, Stop, known>>

-----------------------------------------------------------------------------
(* Scan.                                                                   *)

fileFor(l) == {f \in Files : contains(f, l)}

\* What is at the place of the block in the file that was opened.
read(f, l) == file[f.inode].blk[blockOf(l) - f.start]

\* The server may be writing it.
torn(f, l) ==
  file[f.inode].start + blockOf(l) - f.start \in {written \div Fill, (written - 1) \div Fill}

HdrNo(b)   == IF b = None THEN 0 ELSE lsnToHdrNo(b.n)
EpochNo(b) == IF b = None THEN 0 ELSE lsnToEpochNo(b.n)

belongs_noEpoch(b, n) == HdrNo(b) = lsnToHdrNo(n)                     \* Mutant
belongs(b, n) == HdrNo(b) = lsnToHdrNo(n) /\ EpochNo(b) = lsnToEpochNo(n)

\* A stream without data is an error.
outcome_done(found) == "done"                                         \* Mutant
outcome(found)      == IF found = <<>> THEN "failed" ELSE "done"

stopped(why) == Stop' = why /\ phase' = outcome(blocks')

\* The reasons to stop before the block is looked into.
StopAt ==
  /\ phase = "scan"
  /\ UNCHANGED <<server, todo, opening, redo, blockLSN, StartLSN, blocks, Buf, known>>
  /\ \/ fileFor(blockLSN) = {} /\ stopped("no file")
     \/ \E f \in fileFor(blockLSN) :
          \/ ~belongs(read(f, blockLSN), blockOf(blockLSN)) /\ stopped("end of log")
          \/ torn(f, blockLSN) /\ stopped("checksum")

\* Where the data wanted of a block begins: in the first one used, at the first
\* mtr; 0 for nowhere.
from_hdr(b) == Hdr                                                    \* Mutant
from(b) ==
  IF blocks # <<>> THEN Hdr
  ELSE IF firstGroup(b) < Hdr \/ firstGroup(b) >= dataLen(b) THEN 0 ELSE firstGroup(b)

upTo(b) == IF dataLen(b) > BlockSize - Trl THEN BlockSize - Trl ELSE dataLen(b)

partial_clamped(b) == upTo(b) < BlockSize                             \* Mutant
partial(b)         == dataLen(b) < BlockSize

Take(b) ==
  LET start == from(b)
      end   == upTo(b)
  IN  /\ StartLSN' = IF blocks = <<>> /\ start # 0 THEN blockLSN + start ELSE StartLSN
      /\ IF start # 0 /\ start < end
         THEN /\ blocks' = Append(blocks, [off |-> Len(Buf), lsn |-> blockLSN + start])
              /\ Buf'    = Buf \o bytes(b, start, end)
         ELSE UNCHANGED <<blocks, Buf>>
      /\ IF partial(b)
         THEN stopped("partial") /\ UNCHANGED blockLSN
         ELSE blockLSN' = blockLSN + BlockSize /\ UNCHANGED <<phase, Stop>>

ScanBlock ==
  /\ phase = "scan"
  /\ \E f \in fileFor(blockLSN) :
       belongs(read(f, blockLSN), blockOf(blockLSN)) /\ Take(read(f, blockLSN))
  /\ UNCHANGED <<server, todo, opening, redo, known>>

-----------------------------------------------------------------------------
(* LSN and MTRs.                                                           *)

LSN(off) ==
  LET before == {i \in 1 .. Len(blocks) : blocks[i].off <= off}
  IN  IF before = {} THEN StartLSN ELSE blocks[Max(before)].lsn + off - blocks[Max(before)].off

\* Where the records from an offset on end that are one mtr, and why there.
closes_end(byte) == byte = "end"                                      \* Mutant
closes(byte)     == byte \in {"single", "end"}

mtr ==
  LET walk[o \in 0 .. Len(Buf)] ==
        IF o = Len(Buf) THEN [to |-> o, err |-> "not terminated"]
        ELSE IF closes(Buf[o + 1]) THEN [to |-> o + 1, err |-> ""]
        ELSE IF Buf[o + 1] = "part" THEN walk[o + 1]
        ELSE IF Buf[o + 1] = "long" /\ o + 2 <= Len(Buf) THEN walk[o + 2]
        ELSE [to |-> o, err |-> "truncated"]
  IN  walk

MTRs ==
  LET split[o \in 0 .. Len(Buf)] ==
        IF o = Len(Buf) THEN <<>>
        ELSE <<[off |-> o, to |-> mtr[o].to, err |-> mtr[o].err]>>
             \o IF mtr[o].err = "" THEN split[mtr[o].to] ELSE <<>>
  IN  split[0]

-----------------------------------------------------------------------------

Init ==
  /\ log \in Logs /\ written = 0 /\ ckpt = lsn(0)
  /\ \E i \in Inode :
       file = [j \in Inode |->
         [live |-> j = i, start |-> 0, slots |-> [s \in {1, 2} |-> IF j = i /\ s = 1 THEN lsn(0) ELSE 0],
          blk |-> [b \in 0 .. FileLen - 1 |-> None]]]
  /\ phase = "idle" /\ todo = {} /\ opening = None
  /\ Files = {} /\ CheckpointLSN = 0
  /\ blockLSN = 0 /\ StartLSN = 0 /\ blocks = <<>> /\ Buf = <<>> /\ Stop = "" /\ known = 0

loadRedo ==
  \/ ReadDir \/ (\E name \in todo : OpenFile(name)) \/ ReadHeader \/ Choose
  \/ StopAt \/ ScanBlock

Next == Server \/ loadRedo

Spec == Init /\ [][Next]_vars

-----------------------------------------------------------------------------
(* Properties.                                                             *)

\* Every variable keeps its type, and a stream returned has data.
TypeOK ==
  /\ log \in Logs /\ written \in 0 .. Len(log) /\ ckpt \in Nat
  /\ file \in [Inode -> File]
  /\ phase \in {"idle", "open", "scan", "done", "failed"}
  /\ todo \subseteq Nat /\ opening \in Opened \cup {None}
  /\ Files \subseteq RedoFile /\ CheckpointLSN \in Nat
  /\ blockLSN \in Nat /\ StartLSN \in Nat /\ Buf \in Seq(Byte)
  /\ blocks \in Seq(streamBlock)
  /\ Stop \in {"", "no file", "end of log", "checksum", "partial"}
  /\ known \in 0 .. Len(log)
  /\ phase = "done" => blocks # <<>>

\* The byte of the log at a log sequence number.
byteAt(l) == blockOf(l) * Fill + (l % BlockSize) - Hdr
base      == byteAt(StartLSN)

\* The stream is a run of the log without a gap, whatever was recycled under the
\* open files, and LSN tells where each byte was.
StreamIsLogged ==
  \A o \in 0 .. Len(Buf) - 1 :
    /\ LSN(o) = lsn(base + o)
    /\ base + o < written /\ Buf[o + 1] = log[base + o + 1]

\* It starts with an mtr, and leaves out none that begins after the checkpoint.
StreamStarts ==
  blocks # <<>> =>
    /\ begins(base)
    /\ \A k \in 0 .. base - 1 : begins(k) => lsn(k) < CheckpointLSN

\* What was in the files when the scan began is in it, unless a block was caught
\* while it was written or a file was taken for another once it was open, be it
\* before its header was read.
ReachesTail ==
  /\ phase \in {"done", "failed"} /\ Stop \notin {"", "checksum"}
  /\ \A f \in Files : file[f.inode].start = f.Name
  => IF blocks # <<>> THEN base + Len(Buf) >= known
     ELSE \A k \in 0 .. known - 1 : begins(k) => lsn(k) < CheckpointLSN

\* A page flushed at the end of an mtr has seen exactly the records before it:
\* what Apply compares, RedoRec.EndLSN, orders as the bytes of the log do.
EndsInOrder ==
  \A o \in 1 .. Len(Buf), k \in 0 .. Len(log) : lsn(k) >= LSN(o) <=> k >= base + o

\* The mtrs found are those logged, each whole, where they were logged, and only the
\* last may be cut off.
MtrsAreLogged ==
  phase = "done" =>
    /\ EndsInOrder
    /\ \A i \in 1 .. Len(MTRs) :
         LET m == MTRs[i]
             inside == {k \in 1 .. Len(Buf) - 1 : begins(base + k)} \cap (m.off + 1 .. m.to - 1)
         IN  /\ m.off = IF i = 1 THEN 0 ELSE MTRs[i - 1].to
             /\ begins(base + m.off) /\ inside = {}
             /\ IF m.err = "" THEN begins(base + m.to)
                ELSE i = Len(MTRs) /\ \A k \in m.off + 1 .. Len(Buf) : ~begins(base + k)
             /\ i = Len(MTRs) /\ m.err = "" => m.to = Len(Buf)
==============================================================================
