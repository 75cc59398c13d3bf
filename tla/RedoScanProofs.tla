---------------------------- MODULE RedoScanProofs ----------------------------
(***************************************************************************)
(* The stream a scan of the redo log returns is a run of the log, for      *)
(* files, blocks and block numbers of any size and whatever the server     *)
(* writes, recycles and renames meanwhile.                                 *)
(*                                                                         *)
(* The argument is that a block says itself which one it is: header number *)
(* and epoch name one block of the log (BlockRead), so it does not matter  *)
(* in which file it was found.  What is left is arithmetic: the data of a  *)
(* full block ends where the next one's begins (StreamInv).                *)
(*                                                                         *)
(* That the stream reaches the end of what was written takes the server:   *)
(* its files have the log from the checkpoint on without a gap (LiveInv),  *)
(* a file keeps its blocks until it is taken for another (HeldInv), and    *)
(* the names read go from a checkpoint one of the headers has to the end   *)
(* (Listed).                                                               *)
(*                                                                         *)
(* The split into mini-transactions needs that the stream begins and goes  *)
(* on with whole records of the log (StreamRecords); it ends where one is  *)
(* cut off (SplitOf).                                                      *)
(***************************************************************************)
EXTENDS RedoScan, NatSets, SequenceTheorems, TLAPS

\* A block has data that was written, and a file is there for the checkpoint.
FileInv ==
  /\ \A i \in Inode, s \in 0 .. FileLen - 1 :
       file[i].blk[s] # None => first(file[i].blk[s]) < file[i].blk[s].upto /\ file[i].blk[s].upto <= written
  /\ \E i \in Inode : file[i].live /\ covers(file[i], blockOf(ckpt))

\* Where the scan stands, at block n of the log: the stream goes on with its first
\* byte, or nothing began between the checkpoint and it.
Stands(n) ==
  /\ blockLSN = n * BlockSize
  /\ blocks # <<>> => base + Len(Buf) = n * Fill
  /\ blocks = <<>> => \A k \in 0 .. n * Fill - 1 : begins(k) => lsn(k) < CheckpointLSN

StreamInv ==
  /\ IsFiniteSet(Files)
  /\ blocks = <<>> <=> Buf = <<>>
  /\ \A i \in DOMAIN blocks : blocks[i].off < Len(Buf)
  /\ blocks # <<>> => base \in Nat
  /\ phase \in {"idle", "open"} => blocks = <<>>
  /\ phase = "scan" => Stands(blockOf(blockLSN))

IInv == TypeOK /\ FileInv /\ StreamInv /\ StreamIsLogged /\ StreamStarts

-----------------------------------------------------------------------------
(* What of the log the files have, and what the scan knows of them.         *)

\* The first byte of block n.
line(n) == n * Fill

\* File i has what was written of each of its blocks.
Held(i) ==
  \A t \in 0 .. FileLen - 1 :
    LET n == file[i].start + t
        b == file[i].blk[t]
    IN  line(n) < written => b # None /\ b.n = n /\ (b.upto >= written \/ b.upto >= line(n + 1))

\* The files of the server, and those the scan has open.
used(i) ==
  file[i].live \/ (opening # None /\ opening.inode = i) \/ \E f \in Files : f.inode = i

\* The live files do not overlap and have the log from the checkpoint to its end;
\* the one with the checkpoint says so.
LiveInv ==
  /\ \A i, j \in Inode : file[i].live /\ file[j].live /\ i # j =>
       file[i].start + FileLen <= file[j].start \/ file[j].start + FileLen <= file[i].start
  /\ \A n \in Nat : blockOf(ckpt) <= n /\ line(n) < written =>
       \E i \in Inode : file[i].live /\ covers(file[i], n)
  /\ ckpt > 0 /\ line(blockOf(ckpt)) <= written
  /\ \E i \in Inode : file[i].live /\ written <= line(file[i].start + FileLen)
  /\ \E i \in Inode, s \in {1, 2} :
       file[i].live /\ covers(file[i], blockOf(ckpt)) /\ file[i].slots[s] = ckpt

\* A file that was opened keeps its blocks until it is taken for another.
HeldInv ==
  \A i \in Inode : used(i) =>
    Held(i) /\ (~file[i].live => line(file[i].start + FileLen) <= written)

\* The names read, whatever became of the files.
Names == todo \cup {f.Name : f \in Files} \cup (IF opening = None THEN {} ELSE {opening.Name})

\* A file gets only later names.
NameInv ==
  /\ opening # None => phase = "open" /\ opening.Name <= file[opening.inode].start
  /\ \A f \in Files : f.Name <= f.start /\ f.start <= file[f.inode].start
  /\ \A m \in Names : \E i \in Inode : file[i].live /\ m < file[i].start + FileLen
  /\ known <= written
  /\ phase \in {"idle", "open", "scan"} => Stop = ""
  /\ phase = "idle" => Files = {}

\* A slot with a checkpoint not before c, in a file of that name.
Newer(c, m, slots) ==
  \E s \in {1, 2} : slots[s] >= c /\ m <= blockOf(slots[s]) /\ blockOf(slots[s]) < m + FileLen

\* The names go from a checkpoint c, the newest when they were read, to the end of
\* the log, and one is of a file that has c or a newer one as long as it has the name.
Listed(c, m) ==
  /\ c > 0 /\ c <= ckpt
  /\ \A n \in Nat : blockOf(c) <= n /\ line(n) < known => \E x \in Names : x <= n /\ n < x + FileLen
  /\ \A i \in Inode : file[i].live /\ file[i].start = m => Newer(c, m, file[i].slots)
  /\ opening # None /\ opening.Name = m /\ file[opening.inode].start = m =>
       Newer(c, m, file[opening.inode].slots)
  /\ \A f \in Files : f.Name = m /\ f.start = m => Newer(c, m, f.slots)

OpenInv == phase = "open" => \E c \in Nat, m \in Names : Listed(c, m)

\* No file was taken for another since it was opened.
NamesHeld == \A f \in Files : file[f.inode].start = f.Name

ScanInv ==
  phase = "scan" =>
    /\ blockOf(CheckpointLSN) <= blockOf(blockLSN)
    /\ NamesHeld => \A n \in Nat : blockOf(CheckpointLSN) <= n /\ line(n) < known =>
                      \E f \in Files : covers(f, n)

TailInv == LiveInv /\ HeldInv /\ NameInv /\ OpenInv /\ ScanInv /\ ReachesTail

-----------------------------------------------------------------------------
(* Numbers.                                                                *)

LEMMA Product == ASSUME NEW F \in Nat, NEW d \in Int, d >= 1 PROVE F * d >= F
<1>1. d - 1 \in Nat OBVIOUS
<1>2. F * (d - 1) >= 0 BY <1>1
<1>3. F * d = F * (d - 1) + F OBVIOUS
<1> QED BY <1>2, <1>3

LEMMA DivMod ==
  ASSUME NEW F \in Nat \ {0}, NEW n \in Nat, NEW j \in 0 .. F - 1
  PROVE  (n * F + j) \div F = n /\ (n * F + j) % F = j
<1> DEFINE a == n * F + j
           q == a \div F
           r == a % F
<1>1. a \in Nat /\ q \in Int /\ r \in 0 .. F - 1 /\ a = F * q + r OBVIOUS
<1> HIDE DEF q, r
<1>2. F * (q - n) = j - r BY <1>1
<1>3. ~(q - n >= 1)
  <2>1. SUFFICES ASSUME q - n >= 1 PROVE FALSE OBVIOUS
  <2>2. F * (q - n) >= F BY <1>1, <2>1, Product
  <2> QED BY <1>1, <1>2, <2>2
<1>4. ~(n - q >= 1)
  <2>1. SUFFICES ASSUME n - q >= 1 PROVE FALSE OBVIOUS
  <2>2. F * (n - q) >= F BY <1>1, <2>1, Product
  <2>3. F * (n - q) = r - j BY <1>1
  <2> QED BY <1>1, <2>3, <2>2
<1>5. q = n BY <1>1, <1>3, <1>4
<1> QED BY <1>1, <1>2, <1>5 DEF q, r

LEMMA DivModOf ==
  ASSUME NEW F \in Nat \ {0}, NEW a \in Nat
  PROVE  a \div F \in Nat /\ a % F \in 0 .. F - 1 /\ a = (a \div F) * F + (a % F)
OBVIOUS

LEMMA DivModSame ==
  ASSUME NEW F \in Nat \ {0}, NEW a \in Nat, NEW b \in Nat, a \div F = b \div F, a % F = b % F
  PROVE  a = b
BY DivModOf

\* Bytes of the log and their log sequence numbers.
LEMMA Sizes == /\ BlockSize \in Nat \ {0} /\ Hdr \in Nat \ {0} /\ Fill \in Nat \ {0}
               /\ BlockSize - Trl = Hdr + Fill /\ Trl \in Nat \ {0}
BY RedoScanAssumption DEF BlockSize

LEMMA LsnOfByte ==
  ASSUME NEW n \in Nat, NEW j \in 0 .. Fill - 1
  PROVE  /\ lsn(n * Fill + j) = n * BlockSize + Hdr + j
         /\ byteAt(n * BlockSize + Hdr + j) = n * Fill + j
<1>1. (n * Fill + j) \div Fill = n /\ (n * Fill + j) % Fill = j BY Sizes, DivMod
<1>2. Hdr + j \in 0 .. BlockSize - 1 BY Sizes
<1>3. (n * BlockSize + (Hdr + j)) \div BlockSize = n /\ (n * BlockSize + (Hdr + j)) % BlockSize = Hdr + j
  BY <1>2, Sizes, DivMod
<1> DEFINE a == n * BlockSize
           b == n * Fill
<1>4. a \in Nat /\ b \in Nat BY Sizes
<1>5. a + (Hdr + j) = a + Hdr + j BY <1>4, Sizes
<1>6. lsn(b + j) = n * BlockSize + Hdr + j BY <1>1 DEF lsn
<1>7. byteAt(a + Hdr + j) = b + (Hdr + j) - Hdr BY <1>3, <1>5 DEF byteAt, blockOf
<1>8. b + (Hdr + j) - Hdr = b + j BY <1>4, Sizes
<1> QED BY <1>6, <1>7, <1>8

LEMMA BlockOfLsn == ASSUME NEW n \in Nat, NEW j \in 0 .. BlockSize - 1
                    PROVE  blockOf(n * BlockSize + j) = n
BY Sizes, DivMod DEF blockOf

LEMMA LsnType == ASSUME NEW k \in Nat PROVE lsn(k) \in Nat
<1>1. k \div Fill \in Nat /\ k % Fill \in 0 .. Fill - 1 BY Sizes, DivModOf
<1>2. (k \div Fill) * BlockSize \in Nat BY <1>1, Sizes
<1> QED BY <1>1, <1>2, Sizes DEF lsn

\* A byte before block n has a lower number than any in it.
LEMMA LsnBefore ==
  ASSUME NEW n \in Nat, NEW k \in Nat, k < n * Fill
  PROVE  lsn(k) < n * BlockSize
<1> DEFINE q == k \div Fill
           r == k % Fill
<1>1. q \in Nat /\ r \in 0 .. Fill - 1 /\ k = q * Fill + r BY Sizes, DivModOf
<1>2. lsn(k) = q * BlockSize + Hdr + r BY DEF lsn
<1> HIDE DEF q, r
<1>3. q < n
  <2>1. SUFFICES ASSUME q >= n PROVE FALSE BY <1>1
  <2>2. PICK d \in Nat : q = n + d
    <3>1. q - n \in Nat /\ q = n + (q - n) BY <2>1, <1>1
    <3> QED BY <3>1
  <2>3. q * Fill = n * Fill + d * Fill BY <2>2, Sizes
  <2>4. d * Fill \in Nat /\ n * Fill \in Nat BY <2>2, Sizes
  <2> QED BY <1>1, <2>3, <2>4, Sizes
<1>4. n - q \in Int /\ n - q >= 1 BY <1>1, <1>3
<1>5. BlockSize * (n - q) >= BlockSize BY <1>4, Sizes, Product
<1>6. BlockSize * (n - q) = n * BlockSize - q * BlockSize BY <1>1, Sizes
<1>7. q * BlockSize \in Nat /\ n * BlockSize \in Nat BY <1>1, Sizes
<1>8. Hdr + r < BlockSize BY <1>1, Sizes
<1> QED BY <1>1, <1>2, <1>5, <1>6, <1>7, <1>8, Sizes

\* The first bytes of blocks.
LEMMA Lines ==
  /\ \A n \in Nat : /\ line(n) \in Nat /\ line(n + 1) \in Nat
                     /\ line(n + 1) = line(n) + Fill /\ line(n) < line(n + 1)
  /\ \A a, b \in Nat : a < b => line(a + 1) <= line(b)
  /\ \A a, b \in Nat : a <= b => line(a) <= line(b)
<1>1. ASSUME NEW n \in Nat
      PROVE  /\ line(n) \in Nat /\ line(n + 1) \in Nat
             /\ line(n + 1) = line(n) + Fill /\ line(n) < line(n + 1)
  <2>1. n * Fill \in Nat /\ (n + 1) * Fill = n * Fill + Fill BY Sizes
  <2> QED BY <2>1, Sizes DEF line
<1>2. ASSUME NEW a \in Nat, NEW b \in Nat, a < b PROVE line(a + 1) <= line(b)
  <2>1. b - a \in Int /\ b - a >= 1 BY <1>2
  <2>2. Fill * (b - a) >= Fill BY <2>1, Sizes, Product
  <2>3. Fill * (b - a) = b * Fill - a * Fill BY Sizes
  <2>4. b * Fill \in Nat /\ a * Fill \in Nat BY Sizes
  <2> QED BY <2>2, <2>3, <2>4, <1>1, Sizes DEF line
<1>3. ASSUME NEW a \in Nat, NEW b \in Nat, a <= b PROVE line(a) <= line(b)
  <2>1. CASE a = b BY <2>1, <1>1
  <2>2. CASE a < b BY <2>2, <1>1, <1>2
  <2> QED BY <2>1, <2>2, <1>3
<1> QED BY <1>1, <1>2, <1>3

\* The order of blocks is that of log sequence numbers.
LEMMA BlockUp ==
  /\ \A a \in Nat : blockOf(a) \in Nat
  /\ \A a, b \in Nat : a <= b => blockOf(a) <= blockOf(b)
<1>1. ASSUME NEW a \in Nat
      PROVE  /\ blockOf(a) \in Nat /\ blockOf(a) * BlockSize \in Nat
             /\ blockOf(a) * BlockSize <= a /\ a < blockOf(a) * BlockSize + BlockSize
  <2> DEFINE q == a \div BlockSize
             r == a % BlockSize
  <2>1. q \in Nat /\ r \in 0 .. BlockSize - 1 /\ a = q * BlockSize + r BY Sizes, DivModOf
  <2>2. blockOf(a) = q BY DEF blockOf
  <2>3. q * BlockSize \in Nat BY <2>1, Sizes
  <2> HIDE DEF q, r
  <2> QED BY <2>1, <2>2, <2>3, Sizes
<1>2. ASSUME NEW a \in Nat, NEW b \in Nat, a <= b, ~(blockOf(a) <= blockOf(b)) PROVE FALSE
  <2>1. PICK p \in Nat : p = blockOf(a) BY <1>1
  <2>2. PICK q \in Nat : q = blockOf(b) BY <1>1
  <2>3. p - q \in Int /\ p - q >= 1 BY <1>2, <2>1, <2>2
  <2>4. BlockSize * (p - q) >= BlockSize BY <2>3, Sizes, Product
  <2>5. BlockSize * (p - q) = p * BlockSize - q * BlockSize BY Sizes
  <2>6. p * BlockSize <= a /\ b < q * BlockSize + BlockSize
        /\ p * BlockSize \in Nat /\ q * BlockSize \in Nat
    BY <1>1, <2>1, <2>2
  <2> QED BY <2>4, <2>5, <2>6, <1>2, Sizes
<1> QED BY <1>1, <1>2

\* The block that byte w of the log is in.
LEMMA LineOf ==
  \A w \in Nat : w \div Fill \in Nat /\ line(w \div Fill) <= w /\ w < line(w \div Fill + 1)
<1> SUFFICES ASSUME NEW w \in Nat
             PROVE  w \div Fill \in Nat /\ line(w \div Fill) <= w /\ w < line(w \div Fill + 1)
  OBVIOUS
<1> DEFINE q == w \div Fill
           r == w % Fill
<1>1. q \in Nat /\ r \in 0 .. Fill - 1 /\ w = q * Fill + r BY Sizes, DivModOf
<1> HIDE DEF q, r
<1>2. line(q) \in Nat /\ line(q + 1) = line(q) + Fill BY <1>1, Lines
<1>3. line(q) = q * Fill BY DEF line
<1>4. line(q) <= w /\ w < line(q + 1) BY <1>1, <1>2, <1>3, Sizes
<1> QED BY <1>1, <1>4 DEF q

LEMMA BlockOfByte == \A k \in Nat : blockOf(lsn(k)) = k \div Fill /\ lsn(k) > 0
<1> SUFFICES ASSUME NEW k \in Nat PROVE blockOf(lsn(k)) = k \div Fill /\ lsn(k) > 0 OBVIOUS
<1>1. PICK q \in Nat : q = k \div Fill BY Sizes, DivModOf
<1>2. PICK r \in 0 .. Fill - 1 : r = k % Fill BY Sizes, DivModOf
<1>3. Hdr + r \in 0 .. BlockSize - 1 /\ Hdr + r > 0 BY Sizes
<1>4. q * BlockSize \in Nat BY Sizes
<1>5. lsn(k) = q * BlockSize + (Hdr + r) BY <1>1, <1>2, <1>4, Sizes DEF lsn
<1>6. blockOf(q * BlockSize + (Hdr + r)) = q BY <1>3, BlockOfLsn
<1>7. q * BlockSize + (Hdr + r) > 0 BY <1>3, <1>4
<1> QED BY <1>1, <1>5, <1>6, <1>7

-----------------------------------------------------------------------------
(* A block that is read.                                                   *)

\* A block found where block n is looked for, with its numbers, is block n.
LEMMA BlockRead ==
  ASSUME IInv, NEW f \in fileFor(blockLSN), NEW n \in Nat, n = blockOf(blockLSN),
         belongs(read(f, blockLSN), n)
  PROVE  LET b == read(f, blockLSN)
         IN  /\ b \in Block /\ b.n = n
             /\ first(b) = n * Fill /\ first(b) < b.upto /\ b.upto <= written
<1> DEFINE b == read(f, blockLSN)
<1>1. f \in RedoFile /\ f.start <= n /\ n < f.start + FileLen
  BY DEF IInv, TypeOK, fileFor, contains, covers
<1>2. f.inode \in Inode /\ f.start \in Nat BY <1>1 DEF RedoFile
<1>3. n - f.start \in 0 .. FileLen - 1 BY <1>1, <1>2, RedoScanAssumption
<1>4. file[f.inode] \in File BY <1>2 DEF IInv, TypeOK
<1>5. b = file[f.inode].blk[n - f.start] BY DEF read
<1>6. b \in Block \cup {None} BY <1>3, <1>4, <1>5 DEF File
<1>7. b # None => first(b) < b.upto /\ b.upto <= written
  BY <1>2, <1>3, <1>5 DEF IInv, FileInv
<1> HIDE DEF b
<1>8. HdrNo(b) = lsnToHdrNo(n) /\ EpochNo(b) = lsnToEpochNo(n) BY DEF belongs, b
<1>9. n % MaxNo \in Nat BY DivModOf, RedoScanAssumption
<1>10. b # None
  <2>1. lsnToHdrNo(n) # 0 BY <1>9 DEF lsnToHdrNo
  <2> QED BY <2>1, <1>8 DEF HdrNo
<1>11. b \in Block /\ b.n \in Nat BY <1>6, <1>10 DEF Block
<1>12. b.n = n
  <2>1. lsnToHdrNo(b.n) = lsnToHdrNo(n) /\ lsnToEpochNo(b.n) = lsnToEpochNo(n)
    BY <1>8, <1>10 DEF HdrNo, EpochNo
  <2>2. /\ b.n % MaxNo \in Nat /\ n % MaxNo \in Nat
        /\ b.n \div MaxNo \in Nat /\ n \div MaxNo \in Nat
    <3>1. MaxNo \in Nat \ {0} BY RedoScanAssumption
    <3>2. b.n % MaxNo \in 0 .. MaxNo - 1 /\ b.n \div MaxNo \in Nat BY <3>1, <1>11, DivModOf
    <3>3. n % MaxNo \in 0 .. MaxNo - 1 /\ n \div MaxNo \in Nat BY <3>1, DivModOf
    <3> QED BY <3>1, <3>2, <3>3
  <2>3. b.n % MaxNo = n % MaxNo BY <2>1, <2>2 DEF lsnToHdrNo
  <2>4. b.n \div MaxNo = n \div MaxNo BY <2>1, <2>2 DEF lsnToEpochNo
  <2> QED BY <2>3, <2>4, <1>11, DivModSame, RedoScanAssumption
<1> QED BY <1>7, <1>10, <1>11, <1>12 DEF first, b

\* What is taken of a block: bytes that were written, to its end if it is full, and
\* from the first mtr on if it is the first one used.
LEMMA TakenOf ==
  ASSUME NEW b \in Block, first(b) < b.upto
  PROVE  /\ first(b) \in Nat
         /\ upTo(b) \in Hdr + 1 .. Hdr + Fill
         /\ first(b) + upTo(b) - Hdr <= b.upto
         /\ ~partial(b) => upTo(b) = Hdr + Fill
         /\ from(b) = 0 \/ from(b) \in Hdr .. upTo(b) - 1
         /\ blocks # <<>> => from(b) = Hdr
         /\ blocks = <<>> /\ from(b) # 0 =>
              /\ begins(first(b) + from(b) - Hdr)
              /\ \A k \in first(b) .. first(b) + from(b) - Hdr - 1 : ~begins(k)
         /\ blocks = <<>> /\ from(b) = 0 /\ ~partial(b) =>
              \A k \in first(b) .. first(b) + Fill - 1 : ~begins(k)
<1> DEFINE F  == first(b)
           at == {k \in F .. b.upto : k < F + Fill /\ begins(k)}
<1>1. b.n \in Nat /\ b.upto \in Nat BY DEF Block
<1>2. F \in Nat BY <1>1, Sizes DEF first
<1>3. /\ b.upto >= F + Fill => dataLen(b) = BlockSize
      /\ b.upto < F + Fill => dataLen(b) = Hdr + b.upto - F
  BY <1>1, <1>2, Sizes DEF dataLen
<1> HIDE DEF F
<1>4. F < b.upto BY DEF F
<1>5. dataLen(b) \in Hdr + 1 .. BlockSize BY <1>1, <1>2, <1>3, <1>4, Sizes
<1>6. /\ b.upto >= F + Fill => upTo(b) = Hdr + Fill /\ ~partial(b)
      /\ b.upto < F + Fill => upTo(b) = Hdr + b.upto - F /\ partial(b)
  BY <1>1, <1>2, <1>3, <1>4, Sizes DEF upTo, partial
<1>7. /\ upTo(b) \in Hdr + 1 .. Hdr + Fill /\ F + upTo(b) - Hdr <= b.upto
      /\ ~partial(b) => upTo(b) = Hdr + Fill /\ b.upto >= F + Fill
  BY <1>1, <1>2, <1>4, <1>6, Sizes
<1>8. firstGroup(b) = IF at = {} THEN 0 ELSE Hdr + Min(at) - F BY DEF firstGroup, F
<1>9. at \subseteq Nat BY <1>1, <1>2
<1> HIDE DEF at
<1>10. at # {} =>
         /\ Min(at) \in F .. b.upto /\ Min(at) < F + Fill /\ begins(Min(at))
         /\ \A y \in at : Min(at) <= y
  <2>1. SUFFICES ASSUME at # {}
        PROVE  /\ Min(at) \in F .. b.upto /\ Min(at) < F + Fill /\ begins(Min(at))
               /\ \A y \in at : Min(at) <= y
    OBVIOUS
  <2>2. Min(at) \in at /\ \A y \in at : Min(at) <= y BY <2>1, <1>9, LeastOf
  <2> QED BY <2>2 DEF at
<1>11. blocks # <<>> => from(b) = Hdr BY DEF from
<1>12. ASSUME blocks = <<>>
       PROVE  /\ from(b) = 0 \/ (at # {} /\ from(b) = Hdr + Min(at) - F /\ from(b) \in Hdr .. upTo(b) - 1)
              /\ from(b) = 0 /\ ~partial(b) => at = {}
  <2>1. CASE at = {} 
    <3>1. firstGroup(b) = 0 BY <2>1, <1>8
    <3> QED BY <3>1, <2>1, <1>12, Sizes DEF from
  <2>2. CASE at # {}
    <3>1. firstGroup(b) = Hdr + Min(at) - F BY <2>2, <1>8
    <3>2. Min(at) \in F .. b.upto /\ Min(at) < F + Fill BY <2>2, <1>10
    <3>3. firstGroup(b) \in Hdr .. Hdr + Fill - 1 BY <3>1, <3>2, <1>1, <1>2, Sizes
    <3>4. from(b) = IF firstGroup(b) >= dataLen(b) THEN 0 ELSE firstGroup(b)
      BY <1>12, <3>3, Sizes DEF from
    <3>5. CASE b.upto >= F + Fill
      <4>1. from(b) = firstGroup(b) BY <3>3, <3>4, <3>5, <1>3, Sizes
      <4>2. from(b) # 0 /\ upTo(b) = Hdr + Fill BY <4>1, <3>3, <3>5, <1>6, Sizes
      <4>3. from(b) \in Hdr .. upTo(b) - 1 BY <4>1, <4>2, <3>3, Sizes
      <4> QED BY <4>1, <4>2, <4>3, <3>1, <2>2
    <3>6. CASE b.upto < F + Fill
      <4>1. partial(b) /\ upTo(b) = Hdr + b.upto - F /\ dataLen(b) = upTo(b) BY <3>6, <1>3, <1>6
      <4>2. from(b) = 0 \/ (from(b) = firstGroup(b) /\ firstGroup(b) < upTo(b))
        BY <4>1, <3>3, <3>4, <1>7, Sizes
      <4> QED BY <4>1, <4>2, <3>1, <3>3, <2>2, <1>7, Sizes
    <3> QED BY <3>5, <3>6, <1>1, <1>2, Sizes
  <2> QED BY <2>1, <2>2
<1>13. ASSUME blocks = <<>>, from(b) # 0
       PROVE  /\ begins(F + from(b) - Hdr)
              /\ \A k \in F .. F + from(b) - Hdr - 1 : ~begins(k)
  <2>1. at # {} /\ from(b) = Hdr + Min(at) - F BY <1>12, <1>13
  <2>2. /\ Min(at) \in F .. b.upto /\ Min(at) < F + Fill /\ begins(Min(at))
        /\ \A y \in at : Min(at) <= y
    BY <2>1, <1>10
  <2>3. F + from(b) - Hdr = Min(at) BY <2>1, <2>2, <1>1, <1>2, Sizes
  <2>4. ASSUME NEW k \in F .. Min(at) - 1 PROVE ~begins(k)
    <3>1. k \in F .. b.upto /\ k < F + Fill /\ ~(Min(at) <= k) BY <2>2, <1>1, <1>2, Sizes
    <3>2. k \notin at BY <3>1, <2>2
    <3> QED BY <3>1, <3>2 DEF at
  <2>5. F + from(b) - Hdr - 1 = Min(at) - 1
    <3>1. from(b) \in Int BY <1>12, <1>13, <1>7, Sizes
    <3> QED BY <3>1, <2>3, <1>2, Sizes
  <2> HIDE DEF F
  <2> QED BY <2>2, <2>3, <2>4, <2>5
<1>14. ASSUME blocks = <<>>, from(b) = 0, ~partial(b), NEW k \in F .. F + Fill - 1
       PROVE  ~begins(k)
  <2>1. at = {} BY <1>12, <1>14
  <2>2. k \in F .. b.upto /\ k < F + Fill BY <1>14, <1>7, <1>1, <1>2, Sizes
  <2> QED BY <2>1, <2>2 DEF at
<1>15. from(b) = 0 \/ from(b) \in Hdr .. upTo(b) - 1
  <2>1. CASE blocks # <<>> BY <2>1, <1>11, <1>7, Sizes
  <2>2. CASE blocks = <<>> BY <2>2, <1>12
  <2> QED BY <2>1, <2>2
<1> QED BY <1>2, <1>7, <1>11, <1>13, <1>14, <1>15 DEF F

\* The bytes taken are those of the log.
LEMMA BytesOf ==
  ASSUME NEW b, first(b) \in Nat, log \in Seq(Byte),
         NEW x \in Nat, NEW y \in Nat, Hdr <= x, x < y, first(b) + y - Hdr <= Len(log)
  PROVE  /\ bytes(b, x, y) \in Seq(Byte) /\ Len(bytes(b, x, y)) = y - x
         /\ \A j \in 1 .. y - x : bytes(b, x, y)[j] = log[first(b) + x - Hdr + j]
<1> DEFINE m == first(b) + x - Hdr + 1
           n == first(b) + y - Hdr
<1>1. m \in 1 .. n /\ n \in 1 .. Len(log) /\ n - m + 1 = y - x BY Sizes, SMTT(30)
<1>2. bytes(b, x, y) = SubSeq(log, m, n) BY DEF bytes
<1> HIDE DEF m, n
<1>3. /\ SubSeq(log, m, n) \in Seq(Byte) /\ Len(SubSeq(log, m, n)) = n - m + 1
      /\ \A j \in 1 .. n - m + 1 : SubSeq(log, m, n)[j] = log[m + j - 1]
  BY <1>1, SubSeqProperties
<1>4. \A j \in 1 .. y - x : m + j - 1 = first(b) + x - Hdr + j BY Sizes DEF m
<1> QED BY <1>1, <1>2, <1>3, <1>4

-----------------------------------------------------------------------------
(* The server.                                                             *)

\* The server's part of TypeOK.
ServerOK ==
  log \in Logs /\ written \in 0 .. Len(log) /\ ckpt \in Nat /\ file \in [Inode -> File]

LEMMA LogType == ASSUME IInv PROVE log \in Seq(Byte) /\ Len(log) \in Nat /\ written \in Nat
<1>1. log \in Seq(Byte) BY RedoScanAssumption DEF IInv, TypeOK
<1>2. Len(log) \in Nat BY <1>1
<1>3. written \in 0 .. Len(log) BY DEF IInv, TypeOK
<1> QED BY <1>1, <1>2, <1>3

LEMMA Types ==
  ASSUME IInv
  PROVE  /\ written \in Nat /\ ckpt \in Nat /\ known \in Nat /\ FileLen \in Nat \ {0}
         /\ \A i \in Inode : /\ file[i] \in File /\ file[i].start \in Nat /\ file[i].live \in BOOLEAN
                             /\ file[i].start + FileLen \in Nat
                             /\ \A s \in {1, 2} : file[i].slots[s] \in Nat
         /\ \A f \in Files : f.inode \in Inode /\ f.Name \in Nat /\ f.start \in Nat
         /\ opening # None => opening.inode \in Inode /\ opening.Name \in Nat
         /\ todo \subseteq Nat /\ Names \subseteq Nat
<1>1. FileLen \in Nat \ {0} BY RedoScanAssumption
<1>2. written \in Nat /\ ckpt \in Nat /\ known \in Nat
  <2>1. Len(log) \in Nat /\ written \in Nat BY LogType
  <2>2. known \in 0 .. Len(log) /\ ckpt \in Nat BY DEF IInv, TypeOK
  <2> QED BY <2>1, <2>2
<1>3. ASSUME NEW i \in Inode
      PROVE  /\ file[i] \in File /\ file[i].start \in Nat /\ file[i].live \in BOOLEAN
             /\ file[i].start + FileLen \in Nat
             /\ \A s \in {1, 2} : file[i].slots[s] \in Nat
  <2>1. file[i] \in File BY DEF IInv, TypeOK
  <2>2. file[i].start \in Nat /\ file[i].live \in BOOLEAN /\ \A s \in {1, 2} : file[i].slots[s] \in Nat
    BY <2>1 DEF File, Slots
  <2> QED BY <2>1, <2>2, <1>1
<1>4. \A f \in Files : f.inode \in Inode /\ f.Name \in Nat /\ f.start \in Nat
  BY DEF IInv, TypeOK, RedoFile
<1>5. opening # None => opening.inode \in Inode /\ opening.Name \in Nat
  BY DEF IInv, TypeOK, Opened
<1>6. todo \subseteq Nat BY DEF IInv, TypeOK
<1>7. Names \subseteq Nat BY <1>4, <1>5, <1>6 DEF Names
<1> QED BY <1>1, <1>2, <1>3, <1>4, <1>5, <1>6, <1>7

\* The next file begins behind every live one.
LEMMA LastBlock ==
  ASSUME IInv
  PROVE  lastBlock \in Nat /\ \A k \in Inode : file[k].live => file[k].start + FileLen <= lastBlock
<1> DEFINE S == {l \in Inode : file[l].live}
           T == {file[k].start + FileLen : k \in S}
           g == [k \in S |-> file[k].start + FileLen]
<1>1. \A k \in Inode : file[k].start + FileLen \in Nat BY Types
<1>2. PICK j \in Inode : file[j].live BY DEF IInv, FileInv
<1>3. T \in SUBSET Nat /\ T # {} BY <1>1, <1>2
<1>4. IsFiniteSet(S) BY RedoScanAssumption, FS_Subset
<1>5. IsFiniteSet(T)
  <2>1. g \in [S -> T] /\ \A t \in T : \E k \in S : g[k] = t OBVIOUS
  <2> HIDE DEF S, T, g
  <2>2. g \in Surjection(S, T) BY <2>1 DEF Surjection
  <2> QED BY <1>4, <2>2, FS_Surjection
<1>6. lastBlock = Max(T) BY DEF lastBlock
<1>7. \A k \in Inode : file[k].live => file[k].start + FileLen \in T OBVIOUS
<1> HIDE DEF T
<1>8. Max(T) \in T /\ \A y \in T : y <= Max(T) BY <1>3, <1>5, FiniteGreatest
<1> QED BY <1>3, <1>6, <1>7, <1>8

\* A stream that was read stays a run of the log.
LEMMA ServerKeeps ==
  ASSUME IInv, UNCHANGED <<log, phase, todo, opening, redo, stream, known>>,
         ServerOK', FileInv', written <= written'
  PROVE  IInv'
<1>1. TypeOK' BY DEF IInv, TypeOK, ServerOK, redo, stream
<1>2. base' = base BY DEF base, byteAt, blockOf, stream
<1>3. StreamInv'
  <2>1. \A n : Stands(n) => Stands(n)' BY <1>2 DEF Stands, stream, redo, begins, lsn
  <2> QED BY <1>2, <2>1 DEF IInv, StreamInv, stream, redo
<1>4. StreamIsLogged'
  <2>1. SUFFICES ASSUME NEW o \in 0 .. Len(Buf) - 1
        PROVE  LSN(o)' = lsn(base + o) /\ base + o < written' /\ Buf[o + 1] = log[base + o + 1]
    BY <1>2 DEF StreamIsLogged, stream, lsn
  <2>2. LSN(o)' = LSN(o) BY DEF LSN, stream
  <2>3. LSN(o) = lsn(base + o) /\ base + o < written /\ Buf[o + 1] = log[base + o + 1]
    BY <2>1 DEF IInv, StreamIsLogged
  <2>4. base + o \in Int
    <3>1. blocks # <<>> BY <2>1 DEF IInv, StreamInv
    <3> QED BY <3>1, <2>1 DEF IInv, StreamInv
  <2>5. written \in Int /\ written' \in Int BY LogType DEF ServerOK
  <2> QED BY <2>2, <2>3, <2>4, <2>5
<1>5. StreamStarts' BY <1>2 DEF IInv, StreamStarts, stream, redo, begins, lsn
<1> QED BY <1>1, <1>3, <1>4, <1>5 DEF IInv

\* The block that is written, and where.
LEMMA WriteAt ==
  ASSUME IInv, NEW n \in 1 .. Len(log), Write(n)
  PROVE  /\ n \in Nat /\ n > written /\ n \in 0 .. Len(log) /\ written' = n
         /\ UNCHANGED <<log, ckpt, phase, todo, opening, redo, stream, known>>
         /\ file' \in [Inode -> File]
         /\ \A j \in Inode :
              /\ file'[j].live = file[j].live /\ file'[j].start = file[j].start
              /\ file'[j].slots = file[j].slots
         /\ \E i \in Inode :
              /\ file[i].live /\ covers(file[i], written \div Fill)
              /\ \A j \in Inode, t \in 0 .. FileLen - 1 :
                   file'[j].blk[t] = IF j = i /\ file[i].start + t = written \div Fill
                                     THEN [n |-> written \div Fill, upto |-> n] ELSE file[j].blk[t]
<1> DEFINE q == written \div Fill
<1>1. /\ n \in written + 1 .. Len(log) /\ written' = n
      /\ UNCHANGED <<log, ckpt, phase, todo, opening, redo, stream, known>>
  BY DEF Write
<1>2. PICK i \in Inode :
        /\ file[i].live /\ covers(file[i], q)
        /\ file' = [file EXCEPT ![i].blk[q - file[i].start] = [n |-> q, upto |-> n]]
  BY DEF Write
<1>3. written \in Nat /\ file \in [Inode -> File] /\ Len(log) \in Nat BY LogType DEF IInv, TypeOK
<1>4. q \in Nat BY <1>3, Sizes, DivModOf
<1> HIDE DEF q
<1>5. n \in Nat /\ n > written /\ n \in 0 .. Len(log) BY <1>1, <1>3
<1> DEFINE b == [n |-> q, upto |-> n]
           s == q - file[i].start
<1>6. b \in Block BY <1>4, <1>5 DEF Block
<1>7. file[i].start \in Nat /\ s \in 0 .. FileLen - 1
  <2>1. file[i].start \in Nat BY <1>2, <1>3 DEF File
  <2> QED BY <2>1, <1>2, <1>4, RedoScanAssumption, SMTT(30) DEF covers
<1>8. \A t \in 0 .. FileLen - 1 : file[i].start + t = q <=> t = s BY <1>4, <1>7, RedoScanAssumption
<1> HIDE DEF b, s
<1>9. file' = [file EXCEPT ![i] = [file[i] EXCEPT !.blk = [file[i].blk EXCEPT ![s] = b]]]
  BY <1>2 DEF b, s
<1>10. file[i] \in File BY <1>2, <1>3
<1> DEFINE h == [file[i] EXCEPT !.blk = [file[i].blk EXCEPT ![s] = b]]
<1>11. /\ h \in File /\ h.live = file[i].live /\ h.start = file[i].start /\ h.slots = file[i].slots
       /\ h.blk = [file[i].blk EXCEPT ![s] = b]
  BY <1>6, <1>7, <1>10 DEF File
<1>12. file' = [file EXCEPT ![i] = h] BY <1>9
<1> HIDE DEF h
<1>13. file' \in [Inode -> File] BY <1>2, <1>3, <1>11, <1>12
<1>14. \A j \in Inode : /\ file'[j].live = file[j].live /\ file'[j].start = file[j].start
                        /\ file'[j].slots = file[j].slots
  BY <1>3, <1>11, <1>12
<1>15. \A j \in Inode, t \in 0 .. FileLen - 1 :
         file'[j].blk[t] = IF j = i /\ file[i].start + t = q THEN b ELSE file[j].blk[t]
  <2>1. file'[i].blk = [file[i].blk EXCEPT ![s] = b] BY <1>2, <1>3, <1>11, <1>12
  <2>2. \A j \in Inode : j # i => file'[j].blk = file[j].blk BY <1>3, <1>12
  <2>3. file[i].blk \in [0 .. FileLen - 1 -> Block \cup {None}] BY <1>10 DEF File
  <2>4. \A t \in 0 .. FileLen - 1 : file'[i].blk[t] = IF t = s THEN b ELSE file[i].blk[t]
    BY <2>1, <2>3
  <2> QED BY <2>2, <2>4, <1>8
<1> QED BY <1>1, <1>2, <1>5, <1>13, <1>14, <1>15 DEF b, q

LEMMA WriteInv == ASSUME IInv, NEW n \in 1 .. Len(log), Write(n) PROVE IInv'
<1>1. PICK q \in Nat : q = written \div Fill /\ q * Fill <= written
  <2>1. written \in Nat BY LogType
  <2>2. PICK q \in Nat : q = written \div Fill BY <2>1, Sizes, DivModOf
  <2>3. written % Fill \in 0 .. Fill - 1 /\ written = q * Fill + (written % Fill)
    BY <2>1, <2>2, Sizes, DivModOf
  <2>4. q * Fill \in Nat BY Sizes
  <2> QED BY <2>2, <2>3, <2>4, Sizes
<1>2. /\ n \in Nat /\ n > written /\ n \in 0 .. Len(log) /\ written' = n /\ file' \in [Inode -> File]
      /\ UNCHANGED <<log, ckpt, phase, todo, opening, redo, stream, known>>
      /\ \A j \in Inode : file'[j].live = file[j].live /\ file'[j].start = file[j].start
  BY WriteAt
<1>3. PICK i \in Inode : \A j \in Inode, t \in 0 .. FileLen - 1 :
        file'[j].blk[t] = IF j = i /\ file[i].start + t = q THEN [n |-> q, upto |-> n] ELSE file[j].blk[t]
  BY <1>1, WriteAt
<1>4. written \in Nat BY LogType
<1>5. ServerOK'
  <2>1. log' \in Logs /\ ckpt' \in Nat BY <1>2 DEF IInv, TypeOK
  <2> QED BY <2>1, <1>2 DEF ServerOK
<1>6. ASSUME NEW j \in Inode, NEW t \in 0 .. FileLen - 1, file'[j].blk[t] # None
      PROVE  first(file'[j].blk[t]) < file'[j].blk[t].upto /\ file'[j].blk[t].upto <= written'
  <2>1. CASE j = i /\ file[i].start + t = q
    <3>1. PICK b : b = [n |-> q, upto |-> n] OBVIOUS
    <3>2. file'[j].blk[t] = b BY <3>1, <2>1, <1>3
    <3>3. first(b) = q * Fill /\ b.upto = n BY <3>1 DEF first
    <3>4. q * Fill \in Nat BY Sizes
    <3> QED BY <3>2, <3>3, <3>4, <1>1, <1>2, <1>4
  <2>2. CASE ~(j = i /\ file[i].start + t = q)
    <3>1. file'[j].blk[t] = file[j].blk[t] BY <2>2, <1>3
    <3>2. first(file[j].blk[t]) < file[j].blk[t].upto /\ file[j].blk[t].upto <= written
      BY <3>1, <1>6 DEF IInv, FileInv
    <3>3. file[j].blk[t] \in Block
      <4>1. file[j] \in File BY DEF IInv, TypeOK
      <4>2. file[j].blk[t] \in Block \cup {None} BY <4>1 DEF File
      <4> QED BY <4>2, <3>1, <1>6
    <3>4. file[j].blk[t].upto \in Nat BY <3>3 DEF Block
    <3> QED BY <3>1, <3>2, <3>4, <1>2, <1>4
  <2> QED BY <2>1, <2>2
<1>7. \E j \in Inode : file'[j].live /\ covers(file'[j], blockOf(ckpt'))
  BY <1>2 DEF IInv, FileInv, covers
<1>8. FileInv' BY <1>6, <1>7 DEF FileInv, first, covers, blockOf
<1> QED BY <1>2, <1>4, <1>5, <1>8, ServerKeeps

\* Blocks stay what they are while files get other names and headers.
LEMMA SameBlocks ==
  ASSUME IInv, file' \in [Inode -> File], \A j \in Inode : file'[j].blk = file[j].blk, UNCHANGED written
  PROVE  \A j \in Inode, t \in 0 .. FileLen - 1 :
           (file[j].blk[t] # None
              => first(file[j].blk[t]) < file[j].blk[t].upto /\ file[j].blk[t].upto <= written)'
BY DEF IInv, FileInv, first

LEMMA CheckpointInv == ASSUME IInv, NEW k \in Points, Checkpoint(k) PROVE IInv'
<1>1. /\ ckpt' = lsn(k) /\ k \in Nat
      /\ UNCHANGED <<log, written, phase, todo, opening, redo, stream, known>>
  BY RedoScanAssumption DEF Checkpoint
<1>2. PICK i \in Inode, s \in {1, 2} :
        /\ file[i].live /\ covers(file[i], blockOf(lsn(k)))
        /\ file' = [file EXCEPT ![i].slots[s] = lsn(k)]
  BY DEF Checkpoint
<1>3. file \in [Inode -> File] /\ file[i] \in File BY <1>2 DEF IInv, TypeOK
<1>4. lsn(k) \in Nat BY <1>1, LsnType
<1> DEFINE h == [file[i] EXCEPT !.slots = [file[i].slots EXCEPT ![s] = lsn(k)]]
<1>5. file' = [file EXCEPT ![i] = h] BY <1>2
<1>6. h \in File /\ h.live = file[i].live /\ h.start = file[i].start /\ h.blk = file[i].blk
  BY <1>2, <1>3, <1>4 DEF File, Slots
<1> HIDE DEF h
<1>7. /\ file' \in [Inode -> File]
      /\ \A j \in Inode : file'[j].live = file[j].live /\ file'[j].start = file[j].start /\ file'[j].blk = file[j].blk
  BY <1>2, <1>3, <1>5, <1>6
<1>8. ServerOK' BY <1>1, <1>4, <1>7 DEF IInv, TypeOK, ServerOK
<1>9. FileInv'
  <2>1. file'[i].live /\ covers(file'[i], blockOf(ckpt')) BY <1>1, <1>2, <1>7 DEF covers
  <2> QED BY <2>1, <1>1, <1>7, SameBlocks DEF FileInv, covers, blockOf
<1>10. written <= written' BY <1>1, LogType
<1> QED BY <1>1, <1>8, <1>9, <1>10, ServerKeeps

LEMMA RecycleInv == ASSUME IInv, NEW i \in Inode, Recycle(i) PROVE IInv'
<1>1. /\ file[i].start + FileLen <= blockOf(ckpt) /\ file' = [file EXCEPT ![i].live = FALSE]
      /\ UNCHANGED <<log, written, ckpt, phase, todo, opening, redo, stream, known>>
  BY DEF Recycle
<1>2. file \in [Inode -> File] /\ file[i] \in File /\ file[i].start \in Nat BY DEF IInv, TypeOK, File
<1> DEFINE h == [file[i] EXCEPT !.live = FALSE]
<1>3. file' = [file EXCEPT ![i] = h] BY <1>1
<1>4. h \in File /\ h.start = file[i].start /\ h.blk = file[i].blk BY <1>2 DEF File
<1> HIDE DEF h
<1>5. /\ file' \in [Inode -> File]
      /\ \A j \in Inode : file'[j].start = file[j].start /\ file'[j].blk = file[j].blk
      /\ \A j \in Inode : j # i => file'[j].live = file[j].live
  BY <1>2, <1>3, <1>4
<1>6. PICK j \in Inode : file[j].live /\ covers(file[j], blockOf(ckpt)) BY DEF IInv, FileInv
<1>7. blockOf(ckpt) \in Int
  <2>1. ckpt \in Nat BY DEF IInv, TypeOK
  <2> QED BY <2>1, Sizes, DivModOf DEF blockOf
<1>8. j # i BY <1>1, <1>2, <1>6, <1>7, RedoScanAssumption DEF covers
<1>9. file'[j].live /\ covers(file'[j], blockOf(ckpt')) BY <1>1, <1>5, <1>6, <1>8 DEF covers
<1>10. FileInv' BY <1>1, <1>5, <1>9, SameBlocks DEF FileInv, covers, blockOf
<1>11. ServerOK' BY <1>1, <1>5 DEF IInv, TypeOK, ServerOK
<1>12. written <= written' BY <1>1, LogType
<1> QED BY <1>1, <1>10, <1>11, <1>12, ServerKeeps

LEMMA NewFileInv == ASSUME IInv, NEW i \in Inode, NewFile(i) PROVE IInv'
<1>1. /\ ~file[i].live
      /\ UNCHANGED <<log, written, ckpt, phase, todo, opening, redo, stream, known>>
  BY DEF NewFile
<1>2. PICK slots \in {file[i].slots, [s \in {1, 2} |-> 0]} :
        file' = [file EXCEPT ![i].live = TRUE, ![i].start = lastBlock, ![i].slots = slots]
  BY DEF NewFile
<1>3. file \in [Inode -> File] /\ file[i] \in File BY DEF IInv, TypeOK
<1>4. PICK j \in Inode : file[j].live /\ covers(file[j], blockOf(ckpt)) BY DEF IInv, FileInv
<1>5. lastBlock \in Nat BY LastBlock
<1> DEFINE h == [file[i] EXCEPT !.live = TRUE, !.start = lastBlock, !.slots = slots]
<1>6. file' = [file EXCEPT ![i] = h] BY <1>2
<1>7. slots \in Slots BY <1>2, <1>3 DEF Slots, File
<1>8. h \in File /\ h.blk = file[i].blk BY <1>3, <1>5, <1>7 DEF File
<1> HIDE DEF h
<1>9. /\ file' \in [Inode -> File]
      /\ \A k \in Inode : file'[k].blk = file[k].blk
      /\ \A k \in Inode : k # i => file'[k] = file[k]
  BY <1>3, <1>6, <1>8
<1>10. file'[j].live /\ covers(file'[j], blockOf(ckpt')) BY <1>1, <1>4, <1>9 DEF covers
<1>11. FileInv' BY <1>1, <1>9, <1>10, SameBlocks DEF FileInv, covers, blockOf
<1>12. ServerOK' BY <1>1, <1>9 DEF IInv, TypeOK, ServerOK
<1>13. written <= written' BY <1>1, LogType
<1> QED BY <1>1, <1>11, <1>12, <1>13, ServerKeeps

LEMMA ServerInv == ASSUME IInv, Server PROVE IInv'
BY WriteInv, CheckpointInv, RecycleInv, NewFileInv DEF Server

-----------------------------------------------------------------------------
(* OpenRedo.                                                               *)

\* Before the scan there is no stream.
LEMMA OpenKeeps ==
  ASSUME IInv, UNCHANGED <<server, stream>>, TypeOK', IsFiniteSet(Files'),
         blocks # <<>> => CheckpointLSN' = CheckpointLSN,
         phase' \in {"idle", "open"} => blocks = <<>>,
         phase' = "scan" => Stands(blockOf(blockLSN))'
  PROVE  IInv'
<1>1. base' = base BY DEF base, byteAt, blockOf, stream
<1>2. FileInv' BY DEF IInv, FileInv, server, first, covers, blockOf
<1>3. StreamInv' BY <1>1 DEF IInv, StreamInv, stream
<1>4. StreamIsLogged'
  <2>1. \A o : LSN(o)' = LSN(o) BY DEF LSN, stream
  <2> QED BY <1>1, <2>1 DEF IInv, StreamIsLogged, stream, server, lsn
<1>5. StreamStarts' BY <1>1 DEF IInv, StreamStarts, stream, server, begins, lsn
<1> QED BY <1>2, <1>3, <1>4, <1>5 DEF IInv

LEMMA ReadDirInv == ASSUME IInv, ReadDir PROVE IInv'
<1>1. /\ phase = "idle" /\ phase' = "open" /\ known' = written
      /\ todo' = {file[i].start : i \in {j \in Inode : file[j].live}}
      /\ UNCHANGED <<server, opening, redo, stream>>
  BY DEF ReadDir
<1>2. \A i \in Inode : file[i].start \in Nat BY DEF IInv, TypeOK, File
<1>3. todo' \subseteq Nat BY <1>1, <1>2
<1>4. TypeOK' BY <1>1, <1>3 DEF IInv, TypeOK, server, redo, stream
<1>5. blocks = <<>> /\ IsFiniteSet(Files') BY <1>1 DEF IInv, StreamInv, redo
<1> QED BY <1>1, <1>4, <1>5, OpenKeeps DEF redo

LEMMA OpenFileInv == ASSUME IInv, NEW name \in todo, OpenFile(name) PROVE IInv'
<1>1. /\ phase = "open" /\ phase' \in {"open", "failed"} /\ todo' \subseteq todo
      /\ UNCHANGED <<server, redo, stream, known>>
  BY DEF OpenFile
<1>2. opening' \in Opened \cup {None}
  <2>1. name \in Nat /\ opening \in Opened \cup {None} BY DEF IInv, TypeOK
  <2>2. CASE \E i \in Inode : file[i].live /\ file[i].start = name
    <3>1. PICK i \in Inode : i = CHOOSE j \in Inode : file[j].live /\ file[j].start = name BY <2>2
    <3>2. opening' = [inode |-> i, Name |-> name] BY <2>2, <3>1 DEF OpenFile
    <3> QED BY <3>2, <2>1 DEF Opened
  <2>3. CASE ~\E i \in Inode : file[i].live /\ file[i].start = name BY <2>1, <2>3 DEF OpenFile
  <2> QED BY <2>2, <2>3
<1>3. TypeOK' BY <1>1, <1>2 DEF IInv, TypeOK, server, redo, stream
<1>4. blocks = <<>> /\ IsFiniteSet(Files') BY <1>1 DEF IInv, StreamInv, redo
<1> QED BY <1>1, <1>3, <1>4, OpenKeeps DEF redo

LEMMA ReadHeaderInv == ASSUME IInv, ReadHeader PROVE IInv'
<1> DEFINE h == [inode |-> opening.inode, Name |-> opening.Name,
                 start |-> file[opening.inode].start, slots |-> file[opening.inode].slots]
<1>1. /\ opening # None /\ Files' = Files \cup {h} /\ opening' = None
      /\ UNCHANGED <<server, phase, todo, CheckpointLSN, stream, known>>
  BY DEF ReadHeader
<1>2. opening \in Opened /\ file[opening.inode] \in File BY <1>1 DEF IInv, TypeOK, Opened
<1>3. h \in RedoFile BY <1>2 DEF File, RedoFile, Opened
<1> HIDE DEF h
<1>4. TypeOK' BY <1>1, <1>3 DEF IInv, TypeOK, server, stream
<1>5. IsFiniteSet(Files') BY <1>1, FS_AddElement DEF IInv, StreamInv
<1>6. phase = "scan" => Stands(blockOf(blockLSN))'
  <2>1. \A n : Stands(n) => Stands(n)'
    BY <1>1 DEF Stands, stream, server, base, byteAt, blockOf, begins, lsn
  <2>2. blockOf(blockLSN)' = blockOf(blockLSN) BY <1>1 DEF blockOf, stream
  <2> QED BY <2>1, <2>2 DEF IInv, StreamInv
<1>7. phase \in {"idle", "open"} => blocks = <<>> BY DEF IInv, StreamInv
<1> QED BY <1>1, <1>4, <1>5, <1>6, <1>7, OpenKeeps

\* The newest of the checkpoints the headers have.
LEMMA CheckpointsOf ==
  ASSUME IInv
  PROVE  /\ checkpoints \in SUBSET Nat
         /\ checkpoints # {} => Max(checkpoints) \in checkpoints /\ \A y \in checkpoints : y <= Max(checkpoints)
<1> DEFINE S == Files \X {1, 2}
           T == {p[1].slots[p[2]] : p \in S}
           g == [p \in S |-> p[1].slots[p[2]]]
<1>1. \A f \in Files, s \in {1, 2} : f.slots[s] \in Nat BY DEF IInv, TypeOK, RedoFile, Slots
<1>2. IsFiniteSet(S)
  <2>1. IsFiniteSet({1, 2})
    <3>1. IsFiniteSet(1 .. 2) BY FS_Interval, 1 \in Int, 2 \in Int
    <3>2. 1 .. 2 = {1, 2} OBVIOUS
    <3> QED BY <3>1, <3>2
  <2>2. IsFiniteSet(Files) BY DEF IInv, StreamInv
  <2> QED BY <2>1, <2>2, FS_Product
<1>3. IsFiniteSet(T)
  <2>1. g \in [S -> T] /\ \A t \in T : \E p \in S : g[p] = t OBVIOUS
  <2> HIDE DEF S, T, g
  <2>2. g \in Surjection(S, T) BY <2>1 DEF Surjection
  <2> QED BY <1>2, <2>2, FS_Surjection
<1>4. checkpoints \subseteq T
  <2>1. ASSUME NEW c \in checkpoints PROVE c \in T
    <3>1. PICK f \in Files, s \in {1, 2} : c = f.slots[s] BY DEF checkpoints
    <3>2. <<f, s>> \in S /\ <<f, s>>[1] = f /\ <<f, s>>[2] = s OBVIOUS
    <3> HIDE DEF S
    <3> QED BY <3>1, <3>2
  <2> QED BY <2>1
<1>5. checkpoints \in SUBSET Nat BY <1>1 DEF checkpoints
<1> HIDE DEF T
<1>6. IsFiniteSet(checkpoints) BY <1>3, <1>4, FS_Subset
<1>7. checkpoints # {} => Max(checkpoints) \in checkpoints /\ \A y \in checkpoints : y <= Max(checkpoints)
  BY <1>5, <1>6, FiniteGreatest
<1> QED BY <1>5, <1>7

LEMMA ChooseInv == ASSUME IInv, Choose PROVE IInv'
<1>1. /\ phase = "open" /\ phase' \in {"failed", "scan"}
      /\ UNCHANGED <<server, todo, opening, Files, StartLSN, blocks, Buf, Stop, known>>
  BY DEF Choose
<1>2. blocks = <<>> /\ Buf = <<>> BY <1>1 DEF IInv, StreamInv
<1>3. checkpoints \in SUBSET Nat /\ (checkpoints # {} => Max(checkpoints) \in Nat)
  <2>1. checkpoints # {} => Max(checkpoints) \in checkpoints BY CheckpointsOf
  <2> QED BY <2>1, CheckpointsOf
<1>4. CASE checkpoints = {}
  <2>1. phase' = "failed" /\ UNCHANGED <<CheckpointLSN, blockLSN>> BY <1>4 DEF Choose
  <2>2. TypeOK' BY <1>1, <2>1 DEF IInv, TypeOK, server
  <2>3. IsFiniteSet(Files') BY <1>1 DEF IInv, StreamInv
  <2> QED BY <1>1, <1>2, <2>1, <2>2, <2>3, OpenKeeps DEF stream
<1>5. CASE checkpoints # {}
  <2>1. phase' = "scan" /\ CheckpointLSN' = Max(checkpoints) /\ blockLSN' = blockOf(CheckpointLSN') * BlockSize
    BY <1>5 DEF Choose
  <2>2. CheckpointLSN' \in Nat BY <1>3, <1>5, <2>1
  <2>3. PICK n \in Nat : /\ blockLSN' = n * BlockSize
                         /\ n * BlockSize <= CheckpointLSN' /\ n * BlockSize \in Nat
    <3> DEFINE m == blockOf(CheckpointLSN')
    <3>1. /\ m \in Nat /\ CheckpointLSN' % BlockSize \in 0 .. BlockSize - 1
          /\ CheckpointLSN' = m * BlockSize + (CheckpointLSN' % BlockSize)
      BY <2>2, Sizes, DivModOf DEF blockOf
    <3>2. m * BlockSize <= CheckpointLSN' /\ m * BlockSize \in Nat BY <3>1, Sizes
    <3> QED BY <3>1, <3>2, <2>1
  <2>4. TypeOK' BY <1>1, <2>1, <2>2, <2>3 DEF IInv, TypeOK, server
  <2>5. blockOf(blockLSN') = n
    <3>1. 0 \in 0 .. BlockSize - 1 /\ n * BlockSize + 0 = n * BlockSize BY <2>3, Sizes
    <3> QED BY <3>1, <2>3, BlockOfLsn
  <2>6. \A k \in 0 .. n * Fill - 1 : lsn(k) < CheckpointLSN'
    <3>1. SUFFICES ASSUME NEW k \in 0 .. n * Fill - 1 PROVE lsn(k) < CheckpointLSN' OBVIOUS
    <3>2. n * Fill \in Nat BY <2>3, Sizes
    <3>3. k \in Nat /\ k < n * Fill BY <3>1, <3>2
    <3>4. lsn(k) < n * BlockSize /\ lsn(k) \in Nat BY <3>3, <2>3, LsnBefore, LsnType
    <3> QED BY <3>4, <2>2, <2>3
  <2>7. Stands(n)' BY <1>1, <1>2, <2>3, <2>6 DEF Stands, lsn
  <2>8. Stands(blockOf(blockLSN))'
    <3>1. blockOf(blockLSN)' = n BY <2>5 DEF blockOf
    <3> QED BY <2>7, <3>1
  <2>9. IsFiniteSet(Files') BY <1>1 DEF IInv, StreamInv
  <2>10. StreamInv' BY <1>1, <1>2, <2>1, <2>8, <2>9 DEF StreamInv
  <2>11. FileInv' BY <1>1 DEF IInv, FileInv, server, first, covers, blockOf
  <2>12. StreamIsLogged'
    <3>1. Len(Buf') = 0 BY <1>1, <1>2
    <3> QED BY <3>1 DEF StreamIsLogged
  <2>13. StreamStarts' BY <1>1, <1>2 DEF StreamStarts
  <2> QED BY <2>4, <2>10, <2>11, <2>12, <2>13 DEF IInv
<1> QED BY <1>4, <1>5

-----------------------------------------------------------------------------
(* Scan.                                                                   *)

\* A step that takes no data.
LEMMA StreamStays ==
  ASSUME IInv, UNCHANGED <<server, redo, StartLSN, blocks, Buf>>, TypeOK',
         phase' \notin {"idle", "open"},
         NEW n, phase' = "scan" => blockOf(blockLSN)' = n /\ Stands(n)'
  PROVE  IInv'
<1>1. base' = base BY DEF base, byteAt, blockOf
<1>2. FileInv' BY DEF IInv, FileInv, server, first, covers, blockOf
<1>3. StreamInv'
  <2>1. phase' = "scan" => Stands(blockOf(blockLSN))' OBVIOUS
  <2> QED BY <1>1, <2>1 DEF IInv, StreamInv, redo
<1>4. StreamIsLogged'
  <2>1. \A o : LSN(o)' = LSN(o) BY DEF LSN
  <2> QED BY <1>1, <2>1 DEF IInv, StreamIsLogged, server, lsn
<1>5. StreamStarts' BY <1>1 DEF IInv, StreamStarts, server, redo, begins, lsn
<1> QED BY <1>2, <1>3, <1>4, <1>5 DEF IInv

LEMMA StopAtInv == ASSUME IInv, StopAt PROVE IInv'
<1>1. /\ UNCHANGED <<server, todo, opening, redo, blockLSN, StartLSN, blocks, Buf, known>>
      /\ phase' = outcome(blocks') /\ Stop' \in {"no file", "end of log", "checksum"}
  BY DEF StopAt, stopped
<1>2. phase' \in {"failed", "done"} /\ (phase' = "done" => blocks' # <<>>) BY <1>1 DEF outcome
<1>3. TypeOK' BY <1>1, <1>2 DEF IInv, TypeOK, server, redo
<1> QED BY <1>1, <1>2, <1>3, StreamStays

\* LSN once a block was taken: the bytes before it keep their numbers.
LEMMA LsnAppended ==
  ASSUME blocks \in Seq(streamBlock), NEW d \in Nat, NEW l \in Nat,
         blocks' = Append(blocks, [off |-> d, lsn |-> l]), NEW o \in Nat
  PROVE  /\ o < d /\ StartLSN' = StartLSN => LSN(o)' = LSN(o)
         /\ o >= d => LSN(o)' = l + o - d
<1> DEFINE m == Len(blocks)
           S == {i \in 1 .. m : blocks[i].off <= o}
           T == {i \in 1 .. Len(blocks') : blocks'[i].off <= o}
<1>1. m \in Nat OBVIOUS
<1>2. /\ Len(blocks') = m + 1 /\ blocks'[m + 1] = [off |-> d, lsn |-> l]
      /\ \A i \in 1 .. m : blocks'[i] = blocks[i]
  OBVIOUS
<1>3. LSN(o) = IF S = {} THEN StartLSN ELSE blocks[Max(S)].lsn + o - blocks[Max(S)].off BY DEF LSN
<1>4. LSN(o)' = IF T = {} THEN StartLSN' ELSE blocks'[Max(T)].lsn + o - blocks'[Max(T)].off BY DEF LSN
<1>5. ASSUME o < d, StartLSN' = StartLSN PROVE LSN(o)' = LSN(o)
  <2>1. S = T
    <3>1. \A i \in 1 .. m + 1 : i \in T <=> i \in S
      <4>1. ~(blocks'[m + 1].off <= o) BY <1>2, <1>5
      <4>2. m + 1 \notin T /\ m + 1 \notin S BY <1>1, <1>2, <4>1
      <4>3. \A i \in 1 .. m : i \in T <=> i \in S BY <1>1, <1>2
      <4> QED BY <1>1, <4>2, <4>3
    <3>2. S \subseteq 1 .. m + 1 /\ T \subseteq 1 .. m + 1 BY <1>1, <1>2
    <3> HIDE DEF S, T
    <3> QED BY <3>1, <3>2
  <2>2. CASE S = {} BY <2>1, <2>2, <1>3, <1>4, <1>5
  <2>3. CASE S # {}
    <3>1. S \in SUBSET (0 .. m) BY <1>1
    <3>2. Max(S) \in S BY <3>1, <2>3, <1>1, GreatestOf
    <3>3. blocks'[Max(S)] = blocks[Max(S)] BY <3>2, <1>2
    <3> QED BY <2>1, <2>3, <3>3, <1>3, <1>4
  <2> QED BY <2>2, <2>3
<1>6. ASSUME o >= d PROVE LSN(o)' = l + o - d
  <2>1. m + 1 \in T BY <1>1, <1>2, <1>6
  <2>2. T \in SUBSET (0 .. m + 1) /\ \A i \in T : i <= m + 1 BY <1>1, <1>2
  <2> HIDE DEF T
  <2> HIDE DEF m
  <2>3. m + 1 \in Nat /\ T # {} BY <2>1, <1>1
  <2>4. Max(T) \in T /\ \A y \in T : y <= Max(T) BY <2>2, <2>3, GreatestOf
  <2>5. Max(T) = m + 1
    <3>1. Max(T) \in 0 .. m + 1 /\ Max(T) <= m + 1 /\ m + 1 <= Max(T) BY <2>1, <2>2, <2>4
    <3> QED BY <3>1, <1>1
  <2> QED BY <2>1, <2>5, <1>2, <1>4 DEF m
<1> QED BY <1>5, <1>6


\* A block without data for the stream: nothing of it was wanted yet.
LEMMA SkipInv ==
  ASSUME IInv, ScanBlock, NEW n \in Nat, blockLSN = n * BlockSize, Stands(n),
         NEW b \in Block, first(b) = n * Fill, first(b) < b.upto, Take(b), from(b) = 0
  PROVE  IInv'
<1>1. blocks = <<>>
  <2>1. blocks # <<>> => from(b) = Hdr BY TakenOf
  <2> QED BY <2>1, Sizes
<1>2. UNCHANGED <<server, todo, opening, redo, known, StartLSN, blocks, Buf>> BY <1>1 DEF ScanBlock, Take
<1>3. phase = "scan" BY DEF ScanBlock
<1>4. CASE partial(b)
  <2>1. phase' = "failed" /\ Stop' = "partial" /\ UNCHANGED blockLSN
    BY <1>1, <1>2, <1>4 DEF Take, stopped, outcome
  <2>2. TypeOK' BY <1>2, <2>1 DEF IInv, TypeOK, server, redo
  <2> QED BY <1>2, <2>1, <2>2, StreamStays
<1>5. CASE ~partial(b)
  <2>1. blockLSN' = blockLSN + BlockSize /\ UNCHANGED <<phase, Stop>> BY <1>5 DEF Take
  <2>2. /\ n + 1 \in Nat /\ blockLSN' = (n + 1) * BlockSize /\ blockLSN' \in Nat
        /\ n * Fill \in Nat /\ (n + 1) * Fill = n * Fill + Fill
    BY <2>1, Sizes
  <2>3. TypeOK' BY <1>2, <2>1, <2>2 DEF IInv, TypeOK, server, redo
  <2>4. ASSUME NEW k \in 0 .. (n + 1) * Fill - 1, begins(k) PROVE lsn(k) < CheckpointLSN
    <3>1. k \in 0 .. n * Fill - 1 \/ k \in first(b) .. first(b) + Fill - 1 BY <2>2, Sizes
    <3>2. k \notin first(b) .. first(b) + Fill - 1 BY <1>1, <1>5, <2>4, TakenOf
    <3> QED BY <3>1, <3>2, <2>4, <1>1 DEF Stands
  <2>5. Stands(n + 1)' BY <1>1, <1>2, <2>2, <2>4 DEF Stands, server, redo, begins, lsn
  <2>6. blockOf(blockLSN)' = n + 1
    <3>1. 0 \in 0 .. BlockSize - 1 /\ (n + 1) * BlockSize + 0 = (n + 1) * BlockSize BY <2>2, Sizes
    <3>2. blockOf(blockLSN') = n + 1 BY <2>2, <3>1, BlockOfLsn
    <3> QED BY <3>2 DEF blockOf
  <2> QED BY <1>2, <1>3, <2>1, <2>3, <2>5, <2>6, StreamStays
<1> QED BY <1>4, <1>5


\* The place in the log of what a block adds: behind what the stream had.
LEMMA AddedAt ==
  ASSUME IInv, phase = "scan", NEW n \in Nat, blockLSN = n * BlockSize, Stands(n),
         NEW b \in Block, first(b) = n * Fill, first(b) < b.upto, Take(b), from(b) # 0
  PROVE  /\ n * Fill + (from(b) - Hdr) = base' + Len(Buf) /\ base' \in Nat
         /\ blocks # <<>> => base' = base /\ StartLSN' = StartLSN
         /\ blocks = <<>> => Len(Buf) = 0
         /\ StartLSN' \in Nat
<1> DEFINE j == from(b) - Hdr
<1>1. from(b) \in Hdr .. upTo(b) - 1 /\ upTo(b) \in Hdr + 1 .. Hdr + Fill BY TakenOf
<1>2. j \in 0 .. Fill - 1 /\ from(b) = Hdr + j BY <1>1, Sizes
<1>3. n * Fill \in Nat /\ n * BlockSize \in Nat BY Sizes
<1>4. StartLSN' = IF blocks = <<>> THEN blockLSN + from(b) ELSE StartLSN BY DEF Take
<1>5. CASE blocks = <<>>
  <2>1. StartLSN' = n * BlockSize + Hdr + j BY <1>2, <1>3, <1>4, <1>5, Sizes
  <2>2. byteAt(n * BlockSize + Hdr + j) = n * Fill + j BY <1>2, LsnOfByte
  <2>3. base' = n * Fill + j BY <2>1, <2>2 DEF base, byteAt, blockOf
  <2>4. Len(Buf) = 0 BY <1>5 DEF IInv, StreamInv
  <2>5. base' \in Nat /\ n * Fill + j = base' + Len(Buf) BY <2>3, <2>4, <1>2, <1>3
  <2>6. StartLSN' \in Nat BY <2>1, <1>2, <1>3, Sizes
  <2> QED BY <2>4, <2>5, <2>6, <1>5
<1>6. CASE blocks # <<>>
  <2>1. StartLSN' = StartLSN BY <1>4, <1>6
  <2>2. base' = base BY <2>1 DEF base, byteAt, blockOf
  <2>3. base \in Nat /\ StartLSN \in Nat BY <1>6 DEF IInv, StreamInv, TypeOK
  <2>4. base + Len(Buf) = n * Fill BY <1>6 DEF Stands
  <2>5. j = 0
    <3>1. from(b) = Hdr BY <1>6, TakenOf
    <3> QED BY <3>1, Sizes
  <2> QED BY <2>1, <2>2, <2>3, <2>4, <2>5, <1>3, <1>6
<1> QED BY <1>5, <1>6

\* A block with data for the stream.
LEMMA AddInv ==
  ASSUME IInv, ScanBlock, NEW n \in Nat, blockLSN = n * BlockSize, Stands(n),
         NEW b \in Block, first(b) = n * Fill, first(b) < b.upto, b.upto <= written,
         Take(b), from(b) # 0
  PROVE  IInv'
<1> DEFINE x == from(b)
           y == upTo(b)
           d == Len(Buf)
           j == x - Hdr
           new == bytes(b, x, y)
<1>1. /\ x \in Hdr .. y - 1 /\ y \in Hdr + 1 .. Hdr + Fill /\ first(b) + y - Hdr <= b.upto
      /\ first(b) \in Nat /\ (~partial(b) => y = Hdr + Fill)
  BY TakenOf
<1>2. x \in Nat /\ y \in Nat /\ Hdr <= x /\ x < y /\ j \in 0 .. Fill - 1 /\ x = Hdr + j BY <1>1, Sizes
<1>3. log \in Seq(Byte) /\ written \in Nat /\ Len(log) \in Nat /\ written <= Len(log)
  <2>1. log \in Seq(Byte) /\ Len(log) \in Nat /\ written \in Nat BY LogType
  <2>2. written \in 0 .. Len(log) BY DEF IInv, TypeOK
  <2> QED BY <2>1, <2>2
<1>4. b.upto \in Nat /\ first(b) + y - Hdr <= written /\ first(b) + y - Hdr <= Len(log)
  <2>1. b.upto \in Nat BY DEF Block
  <2> QED BY <2>1, <1>1, <1>2, <1>3, Sizes, SMTT(30)
<1>5. /\ new \in Seq(Byte) /\ Len(new) = y - x
      /\ \A i \in 1 .. y - x : new[i] = log[n * Fill + j + i]
  <2>1. /\ new \in Seq(Byte) /\ Len(new) = y - x
        /\ \A i \in 1 .. y - x : new[i] = log[first(b) + x - Hdr + i]
    <3>1. first(b) \in Nat /\ first(b) + y - Hdr <= Len(log) BY <1>1, <1>4
    <3> HIDE DEF x, y, new
    <3>2. /\ bytes(b, x, y) \in Seq(Byte) /\ Len(bytes(b, x, y)) = y - x
          /\ \A i \in 1 .. y - x : bytes(b, x, y)[i] = log[first(b) + x - Hdr + i]
      BY <3>1, <1>2, <1>3, BytesOf
    <3> QED BY <3>2 DEF new
  <2>2. first(b) + x - Hdr = n * Fill + j BY <1>1, <1>2, Sizes
  <2> QED BY <2>1, <2>2
<1>6. phase = "scan" /\ UNCHANGED <<server, todo, opening, redo, known>> BY DEF ScanBlock
<1>7. /\ blocks' = Append(blocks, [off |-> d, lsn |-> blockLSN + x])
      /\ Buf' = Buf \o new
  BY <1>2 DEF Take
<1>8. /\ n * Fill + j = base' + d /\ base' \in Nat /\ StartLSN' \in Nat
      /\ blocks # <<>> => base' = base /\ StartLSN' = StartLSN
      /\ blocks = <<>> => d = 0
  BY <1>6, AddedAt
<1>9. n * Fill \in Nat /\ n * BlockSize \in Nat /\ blockLSN + x \in Nat BY <1>2, Sizes
<1> HIDE DEF new, x, y, j
<1>10. Buf \in Seq(Byte) /\ blocks \in Seq(streamBlock) /\ d \in Nat /\ Len(blocks) \in Nat
  <2>1. Buf \in Seq(Byte) /\ blocks \in Seq(streamBlock) BY DEF IInv, TypeOK
  <2> QED BY <2>1
<1>11. /\ Buf' \in Seq(Byte) /\ Len(Buf') = d + (y - x)
       /\ \A i \in 1 .. d : Buf'[i] = Buf[i]
       /\ \A i \in 1 .. y - x : Buf'[d + i] = new[i]
  <2> HIDE DEF d
  <2>1. Len(new) \in Nat /\ Len(new) = y - x BY <1>2, <1>5
  <2>2. /\ Buf \o new \in Seq(Byte) /\ Len(Buf \o new) = Len(Buf) + Len(new)
        /\ \A i \in 1 .. Len(Buf) + Len(new) :
             (Buf \o new)[i] = IF i <= Len(Buf) THEN Buf[i] ELSE new[i - Len(Buf)]
    BY <1>5, <1>10, ConcatProperties
  <2>3. d = Len(Buf) BY DEF d
  <2>4. \A i \in 1 .. d : Buf'[i] = Buf[i] BY <2>1, <2>2, <2>3, <1>7, <1>10
  <2>5. ASSUME NEW i \in 1 .. y - x PROVE Buf'[d + i] = new[i]
    <3>1. d + i \in 1 .. Len(Buf) + Len(new) /\ ~(d + i <= Len(Buf)) /\ d + i - Len(Buf) = i
      BY <2>1, <2>3, <1>10, <1>2, SMTT(30)
    <3>2. \A k \in 1 .. Len(Buf) + Len(new) : ~(k <= Len(Buf)) => Buf'[k] = new[k - Len(Buf)]
      BY <2>2, <1>7
    <3>3. PICK k \in 1 .. Len(Buf) + Len(new) : k = d + i BY <3>1
    <3>4. ~(k <= Len(Buf)) /\ k - Len(Buf) = i BY <2>1, <2>3, <3>3, <1>2, <1>10
    <3>5. Buf'[k] = new[k - Len(Buf)] BY <3>2, <3>4
    <3> QED BY <3>3, <3>4, <3>5
  <2> QED BY <2>1, <2>2, <2>3, <2>4, <2>5, <1>7
<1>12. blocks' \in Seq(streamBlock) /\ Len(blocks') = Len(blocks) + 1 /\ blocks' # <<>>
       /\ (\A i \in 1 .. Len(blocks) : blocks'[i] = blocks[i])
       /\ blocks'[Len(blocks) + 1].off = d
  <2> DEFINE e == [off |-> d, lsn |-> blockLSN + x]
  <2>1. e \in streamBlock /\ e.off = d BY <1>9, <1>10 DEF streamBlock
  <2> HIDE DEF e
  <2>2. /\ Append(blocks, e) \in Seq(streamBlock) /\ Len(Append(blocks, e)) = Len(blocks) + 1
        /\ \A i \in 1 .. Len(blocks) : Append(blocks, e)[i] = blocks[i]
        /\ Append(blocks, e)[Len(blocks) + 1] = e
    BY <2>1, <1>10, AppendProperties
  <2>3. blocks' = Append(blocks, e) BY <1>7 DEF e
  <2>4. Append(blocks, e) # <<>> BY <2>2, <1>10
  <2> QED BY <2>1, <2>2, <2>3, <2>4
<1>13. /\ phase' \in {"scan", "done"} /\ blockLSN' \in Nat /\ Stop' \in {Stop, "partial"}
       /\ phase' = "scan" => ~partial(b) /\ blockLSN' = blockLSN + BlockSize
  <2>1. CASE partial(b)
    <3>1. Stop' = "partial" /\ phase' = "done" /\ blockLSN' = blockLSN
      BY <2>1, <1>12 DEF Take, stopped, outcome
    <3>2. blockLSN \in Nat BY <1>9
    <3> QED BY <3>1, <3>2
  <2>2. CASE ~partial(b)
    <3>1. blockLSN' = blockLSN + BlockSize /\ UNCHANGED <<phase, Stop>> BY <2>2 DEF Take
    <3>2. blockLSN + BlockSize \in Nat BY <1>9, Sizes
    <3> QED BY <3>1, <3>2, <2>2, <1>6
  <2> QED BY <2>1, <2>2
<1>14. TypeOK' BY <1>6, <1>8, <1>11, <1>12, <1>13 DEF IInv, TypeOK, server, redo
<1>15. FileInv' BY <1>6 DEF IInv, FileInv, server, first, covers, blockOf
<1>16. StreamInv'
  <2>1. Buf' # <<>> /\ IsFiniteSet(Files')
    <3>1. Len(Buf') # 0 BY <1>2, <1>10, <1>11
    <3> QED BY <3>1, <1>6 DEF IInv, StreamInv, redo
  <2>2. ASSUME NEW i \in DOMAIN blocks' PROVE blocks'[i].off < Len(Buf')
    <3>1. i \in 1 .. Len(blocks) \/ i = Len(blocks) + 1 BY <1>10, <1>12
    <3>2. CASE i \in 1 .. Len(blocks)
      <4>1. blocks[i] \in streamBlock /\ i \in DOMAIN blocks BY <3>2, <1>10
      <4>2. blocks[i].off < d /\ blocks[i].off \in Nat BY <4>1 DEF IInv, StreamInv, streamBlock
      <4>3. blocks'[i].off = blocks[i].off BY <3>2, <1>12
      <4>4. d < Len(Buf') /\ Len(Buf') \in Nat
        <5> HIDE DEF d
        <5> QED BY <1>2, <1>10, <1>11
      <4> HIDE DEF d
      <4> QED BY <4>2, <4>3, <4>4, <1>10
    <3>3. CASE i = Len(blocks) + 1 BY <3>3, <1>2, <1>10, <1>11, <1>12
    <3> QED BY <3>1, <3>2, <3>3
  <2>3. phase' = "scan" => Stands(blockOf(blockLSN))'
    <3>1. SUFFICES ASSUME phase' = "scan" PROVE Stands(blockOf(blockLSN))' OBVIOUS
    <3>2. ~partial(b) /\ blockLSN' = (n + 1) * BlockSize /\ n + 1 \in Nat BY <3>1, <1>13, Sizes
    <3>3. y = Hdr + Fill BY <3>2, <1>1 DEF y
    <3>4. base' + Len(Buf') = (n + 1) * Fill
      <4> HIDE DEF d
      <4>1. (n + 1) * Fill = n * Fill + Fill BY Sizes
      <4>2. y - x = Fill - j BY <3>3, <1>2, Sizes
      <4>3. base' + Len(Buf') = (base' + d) + (Fill - j)
        <5>1. Len(Buf') = d + (Fill - j) BY <4>2, <1>11
        <5> QED BY <5>1, <1>2, <1>8, <1>10, Sizes
      <4>4. (n * Fill + j) + (Fill - j) = n * Fill + Fill BY <1>2, <1>9, Sizes
      <4> QED BY <4>1, <4>3, <4>4, <1>8
    <3>5. Stands(n + 1)' BY <3>2, <3>4, <1>12 DEF Stands
    <3>6. blockOf(blockLSN)' = n + 1
      <4>1. 0 \in 0 .. BlockSize - 1 /\ (n + 1) * BlockSize + 0 = (n + 1) * BlockSize BY <3>2, Sizes
      <4>2. blockOf(blockLSN') = n + 1 BY <3>2, <4>1, BlockOfLsn
      <4> QED BY <4>2 DEF blockOf
    <3> QED BY <3>5, <3>6
  <2> QED BY <2>1, <2>2, <2>3, <1>8, <1>12, <1>13 DEF StreamInv
<1>17. StreamIsLogged'
  <2>1. SUFFICES ASSUME NEW o \in 0 .. Len(Buf') - 1
        PROVE  LSN(o)' = lsn(base' + o) /\ base' + o < written /\ Buf'[o + 1] = log[base' + o + 1]
    BY <1>6 DEF StreamIsLogged, server, lsn
  <2>2. o \in Nat /\ o < d + (y - x) BY <1>2, <1>10, <1>11
  <2>3. /\ o < d /\ StartLSN' = StartLSN => LSN(o)' = LSN(o)
        /\ o >= d => LSN(o)' = blockLSN + x + o - d
    BY <2>2, <1>7, <1>9, <1>10, LsnAppended
  <2>4. CASE o < d
    <3>1. blocks # <<>> BY <2>2, <2>4, <1>8
    <3>2. LSN(o)' = LSN(o) /\ base' = base BY <3>1, <2>3, <2>4, <1>8
    <3>3. LSN(o) = lsn(base + o) /\ base + o < written /\ Buf[o + 1] = log[base + o + 1]
      BY <2>2, <2>4, <1>10 DEF IInv, StreamIsLogged
    <3>4. Buf'[o + 1] = Buf[o + 1] BY <2>2, <2>4, <1>10, <1>11
    <3> QED BY <3>2, <3>3, <3>4
  <2>5. CASE o >= d
    <3> DEFINE i == o - d
    <3>1. i \in 0 .. y - x - 1 /\ o = d + i BY <2>2, <2>5, <1>2, <1>10, SMTT(30)
    <3> HIDE DEF i
    <3>2. j + i \in 0 .. Fill - 1 BY <3>1, <1>1, <1>2, Sizes, SMTT(30) DEF y
    <3>3. lsn(n * Fill + (j + i)) = n * BlockSize + Hdr + (j + i) BY <3>2, LsnOfByte
    <3>4. base' + o = n * Fill + (j + i)
      <4> HIDE DEF d
      <4>1. i \in Int /\ j \in Int BY <3>1, <1>2
      <4>2. base' + o = (base' + d) + i BY <4>1, <3>1, <1>8, <1>10
      <4>3. (n * Fill + j) + i = n * Fill + (j + i) BY <4>1, <1>9
      <4> QED BY <4>2, <4>3, <1>8
    <3>5. LSN(o)' = n * BlockSize + Hdr + (j + i) BY <2>3, <2>5, <3>1, <1>2, <1>9, <1>10, Sizes
    <3>6. base' + o < written
      <4>1. n * Fill + y - Hdr <= written BY <1>4 DEF y
      <4> QED BY <4>1, <3>1, <3>4, <1>2, <1>3, <1>9, Sizes, SMTT(30)
    <3>7. Buf'[o + 1] = log[base' + o + 1]
      <4>1. i + 1 \in 1 .. y - x /\ o + 1 = d + (i + 1) BY <3>1, <1>2, <1>10, SMTT(30)
      <4>2. Buf'[o + 1] = log[n * Fill + j + (i + 1)] BY <4>1, <1>5, <1>11
      <4>3. base' + o + 1 = n * Fill + j + (i + 1)
        <5>1. i \in Int /\ j \in Int BY <3>1, <1>2
        <5> QED BY <5>1, <3>4, <1>9, SMTT(30)
      <4> QED BY <4>2, <4>3
    <3> QED BY <3>3, <3>4, <3>5, <3>6, <3>7
  <2> QED BY <2>2, <2>4, <2>5, <1>10
<1>18. StreamStarts'
  <2>1. CASE blocks # <<>>
    <3>1. base' = base BY <2>1, <1>8
    <3> QED BY <3>1, <2>1, <1>6 DEF IInv, StreamStarts, server, redo, begins, lsn
  <2>2. CASE blocks = <<>>
    <3>1. base' = n * Fill + j BY <2>2, <1>2, <1>8, <1>9
    <3>2. first(b) + x - Hdr = n * Fill + j BY <1>1, <1>2, <1>9, Sizes
    <3>3. begins(n * Fill + j) /\ \A k \in n * Fill .. n * Fill + j - 1 : ~begins(k)
      <4>1. /\ begins(first(b) + x - Hdr)
            /\ \A k \in first(b) .. first(b) + x - Hdr - 1 : ~begins(k)
        BY <2>2, TakenOf DEF x
      <4>2. begins(n * Fill + j) BY <4>1, <3>2 DEF begins
      <4>3. first(b) + x - Hdr - 1 = n * Fill + j - 1 BY <1>1, <1>2, <1>9, Sizes
      <4>4. n * Fill .. n * Fill + j - 1 = first(b) .. first(b) + x - Hdr - 1 BY <4>3
      <4> QED BY <4>1, <4>2, <4>4 DEF begins
    <3>4. ASSUME NEW k \in 0 .. base' - 1, begins(k) PROVE lsn(k) < CheckpointLSN
      <4>1. k \in 0 .. n * Fill - 1 \/ k \in n * Fill .. n * Fill + j - 1 BY <3>1, <3>4, <1>2, <1>9
      <4>2. k \in 0 .. n * Fill - 1 BY <4>1, <3>3, <3>4
      <4> QED BY <4>2, <2>2, <3>4 DEF Stands
    <3> QED BY <3>1, <3>3, <3>4, <1>6 DEF StreamStarts, server, redo, begins, lsn
  <2> QED BY <2>1, <2>2
<1> QED BY <1>14, <1>15, <1>16, <1>17, <1>18 DEF IInv


LEMMA ScanBlockInv == ASSUME IInv, ScanBlock PROVE IInv'
<1>1. PICK f \in fileFor(blockLSN) :
        belongs(read(f, blockLSN), blockOf(blockLSN)) /\ Take(read(f, blockLSN))
  BY DEF ScanBlock
<1>2. PICK n \in Nat : n = blockOf(blockLSN)
  <2>1. blockLSN \in Nat BY DEF IInv, TypeOK
  <2> QED BY <2>1, Sizes, DivModOf DEF blockOf
<1>3. Stands(n) /\ blockLSN = n * BlockSize
  <2>1. phase = "scan" BY DEF ScanBlock
  <2> QED BY <2>1, <1>2 DEF IInv, StreamInv, Stands
<1>4. PICK b : b = read(f, blockLSN) OBVIOUS
<1>5. b \in Block /\ first(b) = n * Fill /\ first(b) < b.upto /\ b.upto <= written
  BY <1>1, <1>2, <1>4, BlockRead
<1>6. Take(b) BY <1>1, <1>4
<1>7. CASE from(b) = 0 BY <1>3, <1>5, <1>6, <1>7, SkipInv
<1>8. CASE from(b) # 0 BY <1>3, <1>5, <1>6, <1>8, AddInv
<1> QED BY <1>7, <1>8

-----------------------------------------------------------------------------
(* To the end of the log: the server.                                      *)

\* What the scan knows stays true while files get later names and newer checkpoints.
LEMMA ServerTail ==
  ASSUME IInv, TailInv, UNCHANGED <<log, phase, todo, opening, redo, stream, known>>,
         phase \notin {"done", "failed"}, LiveInv', HeldInv', ckpt <= ckpt', written <= written',
         written' \in Nat, ckpt' \in Nat, \A i \in Inode : file'[i].start \in Nat,
         \A i \in Inode : used(i) => file[i].start <= file'[i].start,
         \A m \in Names : \E i \in Inode : file'[i].live /\ m < file'[i].start + FileLen,
         \A m \in Names, i \in Inode : file'[i].start = m =>
           /\ file[i].start = m /\ (file'[i].live => file[i].live)
           /\ \A c \in Nat : c <= ckpt /\ Newer(c, m, file[i].slots) => Newer(c, m, file'[i].slots)
  PROVE  TailInv'
<1>1. Names' = Names BY DEF Names, redo
<1>2. NameInv'
  <2>1. opening' # None => phase' = "open" /\ opening'.Name <= file'[opening'.inode].start
    <3>1. SUFFICES ASSUME opening # None
          PROVE  phase = "open" /\ opening.Name <= file'[opening.inode].start
      OBVIOUS
    <3>2. phase = "open" /\ opening.Name <= file[opening.inode].start BY <3>1 DEF TailInv, NameInv
    <3>3. opening.inode \in Inode /\ opening.Name \in Nat BY <3>1, Types
    <3>4. file[opening.inode].start \in Nat /\ file'[opening.inode].start \in Nat BY <3>3, Types
    <3>5. file[opening.inode].start <= file'[opening.inode].start BY <3>1, <3>3 DEF used
    <3> QED BY <3>2, <3>3, <3>4, <3>5
  <2>2. \A f \in Files' : f.Name <= f.start /\ f.start <= file'[f.inode].start
    <3>1. SUFFICES ASSUME NEW f \in Files PROVE f.Name <= f.start /\ f.start <= file'[f.inode].start
      BY DEF redo
    <3>2. f.Name <= f.start /\ f.start <= file[f.inode].start BY DEF TailInv, NameInv
    <3>3. f.inode \in Inode /\ f.start \in Nat BY Types
    <3>4. file[f.inode].start \in Nat /\ file'[f.inode].start \in Nat BY <3>3, Types
    <3>5. file[f.inode].start <= file'[f.inode].start BY <3>3 DEF used
    <3> QED BY <3>2, <3>3, <3>4, <3>5
  <2>3. \A m \in Names' : \E i \in Inode : file'[i].live /\ m < file'[i].start + FileLen BY <1>1
  <2>4. known' <= written'
    <3>1. known <= written BY DEF TailInv, NameInv
    <3> QED BY <3>1, Types
  <2>5. /\ phase' \in {"idle", "open", "scan"} => Stop' = ""
        /\ phase' = "idle" => Files' = {}
    BY DEF TailInv, NameInv, redo, stream
  <2> QED BY <2>1, <2>2, <2>3, <2>4, <2>5 DEF NameInv
<1>3. OpenInv'
  <2>1. SUFFICES ASSUME phase = "open" PROVE \E c \in Nat, m \in Names : Listed(c, m)'
    BY <1>1 DEF OpenInv
  <2>2. PICK c \in Nat, m \in Names : Listed(c, m) BY <2>1 DEF TailInv, OpenInv
  <2>3. c > 0 /\ c <= ckpt' BY <2>2, Types DEF Listed
  <2>4. ASSUME NEW n \in Nat, blockOf(c) <= n, line(n) < known'
        PROVE  \E x \in Names' : x <= n /\ n < x + FileLen
    BY <2>2, <2>4, <1>1 DEF Listed
  <2>5. ASSUME NEW i \in Inode, file'[i].live, file'[i].start = m PROVE Newer(c, m, file'[i].slots)
    <3>1. file[i].start = m /\ file[i].live BY <2>5
    <3>2. Newer(c, m, file[i].slots) /\ c <= ckpt BY <3>1, <2>2 DEF Listed
    <3> QED BY <3>2, <2>5
  <2>6. ASSUME opening # None, opening.Name = m, file'[opening.inode].start = m
        PROVE  Newer(c, m, file'[opening.inode].slots)
    <3>1. opening.inode \in Inode BY <2>6, Types
    <3>2. PICK i \in Inode : i = opening.inode BY <3>1
    <3>3. file[i].start = m BY <2>6, <3>2
    <3>4. Newer(c, m, file[i].slots) /\ c <= ckpt BY <3>2, <3>3, <2>2, <2>6 DEF Listed
    <3> QED BY <3>2, <3>4, <2>6
  <2>7. \A f \in Files' : f.Name = m /\ f.start = m => Newer(c, m, f.slots)
    BY <2>2 DEF Listed, redo
  <2>8. Listed(c, m)' BY <2>3, <2>4, <2>5, <2>6, <2>7 DEF Listed
  <2> QED BY <2>8
<1>4. ScanInv'
  <2>1. ASSUME NamesHeld' PROVE NamesHeld
    <3>1. SUFFICES ASSUME NEW f \in Files PROVE file[f.inode].start = f.Name BY DEF NamesHeld
    <3>2. file'[f.inode].start = f.Name BY <2>1 DEF NamesHeld, redo
    <3>3. f.Name <= f.start /\ f.start <= file[f.inode].start BY DEF TailInv, NameInv
    <3>4. f.inode \in Inode /\ f.start \in Nat /\ f.Name \in Nat BY Types
    <3>5. file[f.inode].start \in Nat /\ file[f.inode].start <= file'[f.inode].start
      BY <3>4, Types DEF used
    <3> QED BY <3>2, <3>3, <3>4, <3>5
  <2>2. ASSUME phase = "scan" PROVE blockOf(CheckpointLSN') <= blockOf(blockLSN')
    BY <2>2 DEF TailInv, ScanInv, redo, stream
  <2>3. ASSUME phase = "scan", NamesHeld', NEW n \in Nat, blockOf(CheckpointLSN') <= n, line(n) < known'
        PROVE  \E f \in Files' : covers(f, n)
    BY <2>1, <2>3 DEF TailInv, ScanInv, redo
  <2> QED BY <2>2, <2>3 DEF ScanInv
<1>5. ReachesTail' BY DEF ReachesTail
<1> QED BY <1>2, <1>3, <1>4, <1>5 DEF TailInv

LEMMA WriteTail ==
  ASSUME IInv, TailInv, phase \notin {"done", "failed"}, NEW w \in 1 .. Len(log), Write(w)
  PROVE  TailInv'
<1>1. /\ w \in Nat /\ w > written /\ written' = w
      /\ UNCHANGED <<log, ckpt, phase, todo, opening, redo, stream, known>>
      /\ \A j \in Inode : /\ file'[j].live = file[j].live /\ file'[j].start = file[j].start
                          /\ file'[j].slots = file[j].slots
  BY WriteAt
<1>2. PICK q \in Nat : q = written \div Fill BY Types, LineOf
<1>3. PICK i \in Inode :
        /\ file[i].live /\ covers(file[i], q)
        /\ \A j \in Inode, t \in 0 .. FileLen - 1 :
             file'[j].blk[t] = IF j = i /\ file[i].start + t = q THEN [n |-> q, upto |-> w] ELSE file[j].blk[t]
  BY <1>2, WriteAt
<1>4. line(q) <= written /\ written < line(q + 1) BY <1>2, Types, LineOf
<1>5. w <= line(q + 1)
  <2>1. w <= q * Fill + Fill BY <1>2 DEF Write
  <2>2. line(q + 1) = line(q) + Fill BY Lines
  <2> QED BY <2>1, <2>2 DEF line
<1>6. written \in Nat /\ line(q) \in Nat /\ line(q + 1) \in Nat /\ q + 1 \in Nat
  <2>1. written \in Nat BY Types
  <2>2. line(q) \in Nat /\ line(q + 1) \in Nat BY Lines
  <2>3. q + 1 \in Nat OBVIOUS
  <2> QED BY <2>1, <2>2, <2>3
\* Only block q is new.
<1>7. ASSUME NEW n \in Nat, line(n) < w PROVE n <= q
  <2>1. CASE n > q
    <3>1. line(q + 1) <= line(n) /\ line(n) \in Nat BY <2>1, Lines
    <3> QED BY <3>1, <1>1, <1>5, <1>6, <1>7
  <2> QED BY <2>1
<1>8. ASSUME NEW n \in Nat, n < q PROVE line(n) < written /\ line(n + 1) <= written
  <2>1. line(n + 1) <= line(q) /\ line(n) < line(n + 1) /\ line(n) \in Nat /\ line(n + 1) \in Nat
    BY <1>8, Lines
  <2> QED BY <2>1, <1>4, <1>6
<1>9. file[i].start \in Nat /\ FileLen \in Nat \ {0} BY Types
<1>10. LiveInv'
  <2>1. \A j, k \in Inode : file'[j].live /\ file'[k].live /\ j # k =>
          file'[j].start + FileLen <= file'[k].start \/ file'[k].start + FileLen <= file'[j].start
    BY <1>1 DEF TailInv, LiveInv
  <2>2. ASSUME NEW n \in Nat, blockOf(ckpt) <= n, line(n) < w
        PROVE  \E j \in Inode : file[j].live /\ covers(file[j], n)
    <3>1. CASE n = q BY <3>1, <1>3
    <3>2. CASE n < q
      <4>1. line(n) < written BY <3>2, <1>8
      <4> QED BY <4>1, <2>2 DEF TailInv, LiveInv
    <3> QED BY <2>2, <3>1, <3>2, <1>7
  <2>3. \A n \in Nat : blockOf(ckpt') <= n /\ line(n) < written' =>
          \E j \in Inode : file'[j].live /\ covers(file'[j], n)
    BY <2>2, <1>1 DEF covers
  <2>4. ckpt' > 0 /\ line(blockOf(ckpt')) <= written'
    <3>1. ckpt > 0 /\ line(blockOf(ckpt)) <= written BY DEF TailInv, LiveInv
    <3>2. line(blockOf(ckpt)) \in Nat BY Types, BlockUp, Lines
    <3> QED BY <3>1, <3>2, <1>1, <1>6
  <2>5. \E j \in Inode : file'[j].live /\ written' <= line(file'[j].start + FileLen)
    <3>1. PICK e \in Nat : e = file[i].start + FileLen BY <1>9
    <3>2. q < e BY <3>1, <1>3 DEF covers
    <3>3. line(q + 1) <= line(e) /\ line(e) \in Nat BY <3>2, Lines
    <3>4. w <= line(file[i].start + FileLen) BY <3>1, <3>3, <1>1, <1>5, <1>6
    <3> QED BY <3>4, <1>1, <1>3
  <2>6. \E j \in Inode, s \in {1, 2} :
          file'[j].live /\ covers(file'[j], blockOf(ckpt')) /\ file'[j].slots[s] = ckpt'
    BY <1>1 DEF TailInv, LiveInv, covers
  <2> QED BY <2>1, <2>3, <2>4, <2>5, <2>6 DEF LiveInv
<1>11. HeldInv'
  <2>1. ASSUME NEW j \in Inode, used(j)' PROVE used(j) BY <1>1, <2>1 DEF used, redo
  <2>2. ASSUME NEW j \in Inode, used(j), NEW t \in 0 .. FileLen - 1, line(file[j].start + t) < w
        PROVE  LET n == file[j].start + t
                   b == file'[j].blk[t]
               IN  b # None /\ b.n = n /\ (b.upto >= w \/ b.upto >= line(n + 1))
    <3>1. PICK n \in Nat : n = file[j].start + t
      <4>1. file[j].start \in Nat BY Types
      <4>2. file[j].start + t \in Nat BY <4>1, <1>9
      <4> QED BY <4>2
    <3>2. n <= q BY <3>1, <2>2, <1>7
    <3>3. CASE n < q
      <4>1. line(n) < written /\ line(n + 1) <= written /\ line(n + 1) \in Nat BY <3>3, <1>8, Lines
      <4>2. PICK b : b = file[j].blk[t] OBVIOUS
      <4>3. b # None /\ b.n = n /\ (b.upto >= written \/ b.upto >= line(n + 1))
        BY <4>1, <4>2, <3>1, <2>2 DEF TailInv, HeldInv, Held
      <4>4. b.upto \in Nat
        <5>1. file[j] \in File BY Types
        <5>2. b \in Block \cup {None} BY <5>1, <4>2 DEF File
        <5> QED BY <5>2, <4>3 DEF Block
      <4>5. b.upto >= line(n + 1) BY <4>1, <4>3, <4>4, <1>6
      <4>6. file'[j].blk[t] = b
        <5>1. CASE j = i
          <6>1. ~(file[i].start + t = q) BY <5>1, <3>1, <3>3
          <6> QED BY <6>1, <4>2, <1>3
        <5>2. CASE j # i BY <5>2, <4>2, <1>3
        <5> QED BY <5>1, <5>2
      <4> QED BY <4>3, <4>5, <4>6, <3>1
    <3>4. CASE n = q
      <4>1. file[j].start \in Nat /\ file[j].start <= q /\ q < file[j].start + FileLen
        <5>1. file[j].start \in Nat BY Types
        <5>2. q = file[j].start + t BY <3>1, <3>4
        <5> QED BY <5>1, <5>2, <1>9
      <4>2. j = i
        <5>1. CASE file[j].live
          <6>1. file[i].start <= q /\ q < file[i].start + FileLen BY <1>3 DEF covers
          <6>2. j # i => file[j].start + FileLen <= file[i].start \/ file[i].start + FileLen <= file[j].start
            BY <5>1, <1>3 DEF TailInv, LiveInv
          <6> QED BY <6>1, <6>2, <4>1, <1>9, SMTT(30)
        <5>2. CASE ~file[j].live
          <6>1. PICK e \in Nat : e = file[j].start + FileLen BY <4>1, <1>9
          <6>2. line(e) <= written BY <6>1, <5>2, <2>2 DEF TailInv, HeldInv
          <6>3. line(q + 1) <= line(e) /\ line(e) \in Nat BY <6>1, <4>1, Lines
          <6> QED BY <6>2, <6>3, <1>4, <1>6
        <5> QED BY <5>1, <5>2
      <4>3. file'[j].blk[t] = [n |-> q, upto |-> w] BY <4>2, <3>1, <3>4, <1>3
      <4>4. [n |-> q, upto |-> w] # None
        <5>1. [n |-> q, upto |-> w] \in Block BY <1>1 DEF Block
        <5> QED BY <5>1, RedoScanAssumption
      <4> QED BY <4>3, <4>4, <3>1, <3>4, <1>1
    <3> QED BY <3>2, <3>3, <3>4
  <2>3. ASSUME NEW j \in Inode, used(j), ~file[j].live PROVE line(file[j].start + FileLen) <= w
    <3>1. PICK e \in Nat : e = file[j].start + FileLen BY Types
    <3>2. line(e) <= written /\ line(e) \in Nat BY <3>1, <2>3, Lines DEF TailInv, HeldInv
    <3> QED BY <3>1, <3>2, <1>1, <1>6
  <2>4. ASSUME NEW j \in Inode, used(j)' PROVE Held(j)' BY <2>1, <2>2, <2>4, <1>1 DEF Held
  <2> QED BY <2>1, <2>3, <2>4, <1>1 DEF HeldInv
<1>12. \A m \in Names : \E j \in Inode : file'[j].live /\ m < file'[j].start + FileLen
  BY <1>1 DEF TailInv, NameInv
<1>13. /\ ckpt <= ckpt' /\ written <= written' /\ written' \in Nat /\ ckpt' \in Nat
       /\ \A j \in Inode : file'[j].start \in Nat /\ file[j].start <= file'[j].start
  BY <1>1, Types
<1>14. \A m \in Names, j \in Inode : file'[j].start = m =>
         /\ file[j].start = m /\ (file'[j].live => file[j].live)
         /\ \A c \in Nat : c <= ckpt /\ Newer(c, m, file[j].slots) => Newer(c, m, file'[j].slots)
  BY <1>1
<1> QED BY <1>1, <1>10, <1>11, <1>12, <1>13, <1>14, ServerTail

LEMMA CheckpointTail ==
  ASSUME IInv, TailInv, phase \notin {"done", "failed"}, NEW k \in Points, Checkpoint(k)
  PROVE  TailInv'
<1>1. /\ ckpt' = lsn(k) /\ k \in Nat /\ k <= written /\ ckpt < lsn(k)
      /\ UNCHANGED <<log, written, phase, todo, opening, redo, stream, known>>
  BY RedoScanAssumption DEF Checkpoint
<1>2. PICK i \in Inode, s \in {1, 2} :
        /\ file[i].live /\ covers(file[i], blockOf(lsn(k)))
        /\ file' = [file EXCEPT ![i].slots[s] = lsn(k)]
  BY DEF Checkpoint
<1>3. file \in [Inode -> File] /\ file[i] \in File BY DEF IInv, TypeOK
<1>4. lsn(k) \in Nat /\ lsn(k) > 0 BY <1>1, LsnType, BlockOfByte
<1> DEFINE h == [file[i] EXCEPT !.slots = [file[i].slots EXCEPT ![s] = lsn(k)]]
<1>5. file' = [file EXCEPT ![i] = h] BY <1>2
<1>6. /\ h.live = file[i].live /\ h.start = file[i].start /\ h.blk = file[i].blk
      /\ h.slots = [file[i].slots EXCEPT ![s] = lsn(k)]
      /\ file[i].slots \in Slots
  BY <1>3 DEF File
<1> HIDE DEF h
<1>7. /\ \A j \in Inode : /\ file'[j].live = file[j].live /\ file'[j].start = file[j].start
                          /\ file'[j].blk = file[j].blk
      /\ \A j \in Inode : j # i => file'[j].slots = file[j].slots
      /\ file'[i].slots[s] = lsn(k)
  BY <1>2, <1>3, <1>5, <1>6 DEF Slots
<1>8. PICK c0 \in Nat : c0 = blockOf(ckpt) BY Types, BlockUp
<1>9. PICK c1 \in Nat : c1 = blockOf(lsn(k)) BY <1>4, BlockUp
<1>10. c0 <= c1
  <2>1. ckpt \in Nat /\ ckpt <= lsn(k) BY <1>1, <1>4, Types
  <2> QED BY <2>1, <1>4, <1>8, <1>9, BlockUp
<1>11. line(c1) <= written
  <2>1. c1 = k \div Fill BY <1>1, <1>9, BlockOfByte
  <2>2. line(c1) <= k BY <2>1, <1>1, LineOf
  <2>3. line(c1) \in Nat /\ written \in Nat BY Lines, Types
  <2> QED BY <2>2, <2>3, <1>1
<1>12. LiveInv'
  <2>1. \A j, l \in Inode : file'[j].live /\ file'[l].live /\ j # l =>
          file'[j].start + FileLen <= file'[l].start \/ file'[l].start + FileLen <= file'[j].start
    BY <1>7 DEF TailInv, LiveInv
  <2>2. ASSUME NEW n \in Nat, c1 <= n, line(n) < written
        PROVE  \E j \in Inode : file'[j].live /\ covers(file'[j], n)
    <3>1. c0 <= n BY <2>2, <1>10
    <3>2. PICK j \in Inode : file[j].live /\ covers(file[j], n) BY <3>1, <2>2, <1>8 DEF TailInv, LiveInv
    <3> QED BY <3>2, <1>7 DEF covers
  <2>3. \E j \in Inode : file'[j].live /\ written' <= line(file'[j].start + FileLen)
    BY <1>1, <1>7 DEF TailInv, LiveInv
  <2>4. file'[i].live /\ covers(file'[i], blockOf(ckpt')) /\ file'[i].slots[s] = ckpt'
    BY <1>1, <1>2, <1>7 DEF covers
  <2>5. blockOf(ckpt') = c1 /\ ckpt' > 0 BY <1>1, <1>4, <1>9
  <2> QED BY <2>1, <2>2, <2>3, <2>4, <2>5, <1>1, <1>11 DEF LiveInv
<1>13. HeldInv'
  <2>1. ASSUME NEW j \in Inode, used(j)' PROVE used(j) BY <1>1, <1>7, <2>1 DEF used, redo
  <2>2. ASSUME NEW j \in Inode, used(j)' PROVE Held(j)'
    <3>1. Held(j) BY <2>1, <2>2 DEF TailInv, HeldInv
    <3> QED BY <3>1, <1>1, <1>7 DEF Held
  <2>3. ASSUME NEW j \in Inode, used(j)', ~file'[j].live
        PROVE  line(file'[j].start + FileLen) <= written'
    BY <2>1, <2>3, <1>1, <1>7 DEF TailInv, HeldInv
  <2> QED BY <2>2, <2>3 DEF HeldInv
<1>14. ASSUME NEW m \in Names, NEW j \in Inode, file'[j].start = m,
              NEW c \in Nat, c <= ckpt, Newer(c, m, file[j].slots)
       PROVE  Newer(c, m, file'[j].slots)
  <2>1. CASE j = i
    <3>1. c <= lsn(k) BY <1>1, <1>4, <1>14, Types
    <3>2. m <= blockOf(lsn(k)) /\ blockOf(lsn(k)) < m + FileLen BY <2>1, <1>2, <1>7, <1>14 DEF covers
    <3>3. file'[j].slots[s] = lsn(k) BY <2>1, <1>7
    <3>4. file'[j].slots[s] >= c BY <3>1, <3>3, <1>4
    <3> QED BY <3>2, <3>3, <3>4 DEF Newer
  <2>2. CASE j # i BY <2>2, <1>7, <1>14
  <2> QED BY <2>1, <2>2
<1>15. \A m \in Names : \E j \in Inode : file'[j].live /\ m < file'[j].start + FileLen
  BY <1>7 DEF TailInv, NameInv
<1>16. /\ ckpt <= ckpt' /\ written <= written' /\ written' \in Nat /\ ckpt' \in Nat
       /\ \A j \in Inode : file'[j].start \in Nat /\ file[j].start <= file'[j].start
  BY <1>1, <1>4, <1>7, Types
<1>17. \A m \in Names, j \in Inode : file'[j].start = m => file[j].start = m /\ (file'[j].live => file[j].live)
  BY <1>7
<1> QED BY <1>1, <1>12, <1>13, <1>14, <1>15, <1>16, <1>17, ServerTail

LEMMA RecycleTail ==
  ASSUME IInv, TailInv, phase \notin {"done", "failed"}, NEW i \in Inode, Recycle(i)
  PROVE  TailInv'
<1>1. /\ file[i].live /\ file[i].start + FileLen <= blockOf(ckpt)
      /\ file' = [file EXCEPT ![i].live = FALSE]
      /\ UNCHANGED <<log, written, ckpt, phase, todo, opening, redo, stream, known>>
  BY DEF Recycle
<1>2. file \in [Inode -> File] /\ file[i] \in File BY DEF IInv, TypeOK
<1> DEFINE h == [file[i] EXCEPT !.live = FALSE]
<1>3. file' = [file EXCEPT ![i] = h] BY <1>1
<1>4. h.start = file[i].start /\ h.blk = file[i].blk /\ h.slots = file[i].slots /\ ~h.live BY <1>2 DEF File
<1> HIDE DEF h
<1>5. /\ \A j \in Inode : /\ file'[j].start = file[j].start /\ file'[j].blk = file[j].blk
                          /\ file'[j].slots = file[j].slots
      /\ \A j \in Inode : j # i => file'[j].live = file[j].live
      /\ ~file'[i].live
  BY <1>2, <1>3, <1>4
<1>6. PICK c \in Nat : c = blockOf(ckpt) BY Types, BlockUp
<1>7. PICK e \in Nat : e = file[i].start + FileLen BY Types
<1>8. e <= c /\ line(c) <= written /\ line(c) \in Nat /\ line(e) \in Nat /\ written \in Nat
  <2>1. e <= c BY <1>1, <1>6, <1>7
  <2>2. line(c) <= written BY <1>6 DEF TailInv, LiveInv
  <2> QED BY <2>1, <2>2, Lines, Types
\* The file with the checkpoint stays.
<1>9. PICK k \in Inode, s \in {1, 2} : file[k].live /\ covers(file[k], c) /\ file[k].slots[s] = ckpt
  BY <1>6 DEF TailInv, LiveInv
<1>10. PICK d \in Nat : d = file[k].start + FileLen BY Types
<1>11. k # i /\ c < d
  <2>1. c < d BY <1>9, <1>10 DEF covers
  <2> QED BY <2>1, <1>7, <1>8, <1>10
<1>12. file'[k].live /\ file'[k].start + FileLen = d BY <1>5, <1>9, <1>10, <1>11
<1>13. LiveInv'
  <2>1. \A j, l \in Inode : file'[j].live /\ file'[l].live /\ j # l =>
          file'[j].start + FileLen <= file'[l].start \/ file'[l].start + FileLen <= file'[j].start
    BY <1>1, <1>5 DEF TailInv, LiveInv
  <2>2. ASSUME NEW n \in Nat, c <= n, line(n) < written
        PROVE  \E j \in Inode : file'[j].live /\ covers(file'[j], n)
    <3>1. PICK j \in Inode : file[j].live /\ covers(file[j], n) BY <2>2, <1>6 DEF TailInv, LiveInv
    <3>2. j # i
      <4>1. n < file[j].start + FileLen BY <3>1 DEF covers
      <4> QED BY <4>1, <2>2, <1>7, <1>8
    <3> QED BY <3>1, <3>2, <1>5 DEF covers
  <2>3. \E j \in Inode : file'[j].live /\ written <= line(file'[j].start + FileLen)
    <3>1. PICK j \in Inode : file[j].live /\ written <= line(file[j].start + FileLen)
      BY DEF TailInv, LiveInv
    <3>2. CASE j # i BY <3>1, <3>2, <1>5
    <3>3. CASE j = i
      <4>1. written <= line(e) BY <3>1, <3>3, <1>7
      <4>2. line(e) <= line(c) BY <1>8, Lines
      <4>3. line(c) <= line(d) BY <1>11, Lines
      <4>4. line(d) \in Nat BY Lines
      <4>5. written <= line(d) BY <4>1, <4>2, <4>3, <4>4, <1>8
      <4> QED BY <4>5, <1>12
    <3> QED BY <3>2, <3>3
  <2>4. file'[k].live /\ covers(file'[k], c) /\ file'[k].slots[s] = ckpt BY <1>5, <1>9, <1>12 DEF covers
  <2>5. ckpt > 0 BY DEF TailInv, LiveInv
  <2> QED BY <2>1, <2>2, <2>3, <2>4, <2>5, <1>1, <1>6, <1>8 DEF LiveInv
<1>14. HeldInv'
  <2>1. ASSUME NEW j \in Inode, used(j)' PROVE used(j)
    <3>1. CASE j = i BY <3>1, <1>1 DEF used
    <3>2. CASE j # i BY <3>2, <2>1, <1>1, <1>5 DEF used, redo
    <3> QED BY <3>1, <3>2
  <2>2. ASSUME NEW j \in Inode, used(j)' PROVE Held(j)'
    <3>1. Held(j) BY <2>1, <2>2 DEF TailInv, HeldInv
    <3> QED BY <3>1, <1>1, <1>5 DEF Held
  <2>3. ASSUME NEW j \in Inode, used(j)', ~file'[j].live
        PROVE  line(file'[j].start + FileLen) <= written'
    <3>1. CASE j = i
      <4>1. line(e) <= line(c) BY <1>8, Lines
      <4> QED BY <4>1, <3>1, <1>1, <1>5, <1>7, <1>8
    <3>2. CASE j # i BY <3>2, <2>1, <2>3, <1>1, <1>5 DEF TailInv, HeldInv
    <3> QED BY <3>1, <3>2
  <2> QED BY <2>2, <2>3 DEF HeldInv
<1>15. ASSUME NEW m \in Names PROVE \E j \in Inode : file'[j].live /\ m < file'[j].start + FileLen
  <2>1. PICK j \in Inode : file[j].live /\ m < file[j].start + FileLen BY DEF TailInv, NameInv
  <2>2. CASE j # i BY <2>1, <2>2, <1>5
  <2>3. CASE j = i
    <3>1. m \in Nat /\ m < e BY <2>1, <2>3, <1>7, Types
    <3>2. m < d BY <3>1, <1>8, <1>11
    <3> QED BY <3>2, <1>12
  <2> QED BY <2>2, <2>3
<1>16. /\ ckpt <= ckpt' /\ written <= written' /\ written' \in Nat /\ ckpt' \in Nat
       /\ \A j \in Inode : file'[j].start \in Nat /\ file[j].start <= file'[j].start
  BY <1>1, <1>5, Types
<1>17. \A m \in Names, j \in Inode : file'[j].start = m =>
         /\ file[j].start = m /\ (file'[j].live => file[j].live)
         /\ \A x \in Nat : x <= ckpt /\ Newer(x, m, file[j].slots) => Newer(x, m, file'[j].slots)
  BY <1>1, <1>5
<1> QED BY <1>1, <1>13, <1>14, <1>15, <1>16, <1>17, ServerTail

LEMMA NewFileTail ==
  ASSUME IInv, TailInv, phase \notin {"done", "failed"}, NEW i \in Inode, NewFile(i)
  PROVE  TailInv'
<1>1. /\ ~file[i].live
      /\ UNCHANGED <<log, written, ckpt, phase, todo, opening, redo, stream, known>>
  BY DEF NewFile
<1>2. PICK slots :
        file' = [file EXCEPT ![i].live = TRUE, ![i].start = lastBlock, ![i].slots = slots]
  BY DEF NewFile
<1>3. file \in [Inode -> File] /\ file[i] \in File BY DEF IInv, TypeOK
<1>4. PICK e \in Nat : e = lastBlock BY LastBlock
<1>5. \A k \in Inode : file[k].live => file[k].start + FileLen <= e BY <1>4, LastBlock
<1> DEFINE h == [file[i] EXCEPT !.live = TRUE, !.start = lastBlock, !.slots = slots]
<1>6. file' = [file EXCEPT ![i] = h] BY <1>2
<1>7. h.live /\ h.start = e /\ h.blk = file[i].blk BY <1>3, <1>4 DEF File
<1> HIDE DEF h
<1>8. /\ file'[i].live /\ file'[i].start = e
      /\ \A j \in Inode : j # i => file'[j] = file[j]
  BY <1>3, <1>6, <1>7
\* What is written ends before it.
<1>9. written <= line(e) /\ line(e) \in Nat /\ written \in Nat
  <2>1. PICK j \in Inode : file[j].live /\ written <= line(file[j].start + FileLen) BY DEF TailInv, LiveInv
  <2>2. PICK d \in Nat : d = file[j].start + FileLen BY Types
  <2>3. d <= e BY <2>1, <2>2, <1>5
  <2>4. line(d) <= line(e) /\ line(d) \in Nat /\ line(e) \in Nat BY <2>3, Lines
  <2> QED BY <2>1, <2>2, <2>4, Types
<1>10. LiveInv'
  <2>1. ASSUME NEW j \in Inode, NEW l \in Inode, file'[j].live, file'[l].live, j # l
        PROVE  file'[j].start + FileLen <= file'[l].start \/ file'[l].start + FileLen <= file'[j].start
    <3>1. CASE j = i
      <4>1. l # i /\ file[l].live /\ file'[l].start = file[l].start BY <3>1, <2>1, <1>8
      <4> QED BY <3>1, <4>1, <1>5, <1>8
    <3>2. CASE l = i
      <4>1. j # i /\ file[j].live /\ file'[j].start = file[j].start BY <3>2, <2>1, <1>8
      <4> QED BY <3>2, <4>1, <1>5, <1>8
    <3>3. CASE j # i /\ l # i BY <3>3, <2>1, <1>8 DEF TailInv, LiveInv
    <3> QED BY <3>1, <3>2, <3>3
  <2>2. ASSUME NEW n \in Nat, blockOf(ckpt) <= n, line(n) < written
        PROVE  \E j \in Inode : file'[j].live /\ covers(file'[j], n)
    <3>1. PICK j \in Inode : file[j].live /\ covers(file[j], n) BY <2>2 DEF TailInv, LiveInv
    <3> QED BY <3>1, <1>1, <1>8
  <2>3. ckpt > 0 /\ line(blockOf(ckpt)) <= written BY DEF TailInv, LiveInv
  <2>4. \E j \in Inode : file'[j].live /\ written <= line(file'[j].start + FileLen)
    <3>1. PICK j \in Inode : file[j].live /\ written <= line(file[j].start + FileLen) BY DEF TailInv, LiveInv
    <3> QED BY <3>1, <1>1, <1>8
  <2>5. \E j \in Inode, s \in {1, 2} :
          file'[j].live /\ covers(file'[j], blockOf(ckpt)) /\ file'[j].slots[s] = ckpt
    <3>1. PICK j \in Inode, s \in {1, 2} :
            file[j].live /\ covers(file[j], blockOf(ckpt)) /\ file[j].slots[s] = ckpt
      BY DEF TailInv, LiveInv
    <3> QED BY <3>1, <1>1, <1>8
  <2> QED BY <2>1, <2>2, <2>3, <2>4, <2>5, <1>1 DEF LiveInv
<1>11. HeldInv'
  <2>1. Held(i)'
    <3>1. ASSUME NEW t \in 0 .. FileLen - 1 PROVE ~(line(e + t) < written)
      <4>1. PICK n \in Nat : n = e + t /\ e <= n BY RedoScanAssumption
      <4>2. line(e) <= line(n) /\ line(n) \in Nat BY <4>1, Lines
      <4> QED BY <4>1, <4>2, <1>9
    <3> QED BY <3>1, <1>1, <1>8 DEF Held
  <2>2. ASSUME NEW j \in Inode, j # i, used(j)'
        PROVE  Held(j)' /\ (~file'[j].live => line(file'[j].start + FileLen) <= written')
    <3>1. used(j) BY <2>2, <1>1, <1>8 DEF used, redo
    <3>2. Held(j) /\ (~file[j].live => line(file[j].start + FileLen) <= written)
      BY <3>1 DEF TailInv, HeldInv
    <3> QED BY <3>2, <2>2, <1>1, <1>8 DEF Held
  <2> QED BY <2>1, <2>2, <1>8 DEF HeldInv
<1>12. ASSUME NEW m \in Names PROVE m \in Nat /\ m < e
  <2>1. PICK j \in Inode : file[j].live /\ m < file[j].start + FileLen BY DEF TailInv, NameInv
  <2>2. m \in Nat /\ file[j].start + FileLen \in Nat BY Types
  <2> QED BY <2>1, <2>2, <1>5
<1>13. \A m \in Names : \E j \in Inode : file'[j].live /\ m < file'[j].start + FileLen
  <2>1. SUFFICES ASSUME NEW m \in Names PROVE m < file'[i].start + FileLen BY <1>8
  <2> QED BY <1>8, <1>12, RedoScanAssumption
<1>14. ASSUME NEW m \in Names, NEW j \in Inode, file'[j].start = m
       PROVE  /\ file[j].start = m /\ (file'[j].live => file[j].live)
              /\ \A c \in Nat : c <= ckpt /\ Newer(c, m, file[j].slots) => Newer(c, m, file'[j].slots)
  <2>1. j # i BY <1>8, <1>12, <1>14
  <2> QED BY <2>1, <1>8, <1>14
<1>15. ASSUME NEW j \in Inode, used(j) PROVE file[j].start <= file'[j].start
  <2>1. CASE j = i
    <3>1. PICK d \in Nat : d = file[i].start + FileLen BY Types
    <3>2. line(d) <= written /\ line(d) \in Nat BY <3>1, <2>1, <1>1, <1>15, Lines DEF TailInv, HeldInv
    <3>3. d <= e
      <4>1. CASE e < d
        <5>1. line(e + 1) <= line(d) /\ line(e) < line(e + 1) /\ line(e + 1) \in Nat BY <4>1, Lines
        <5> QED BY <5>1, <3>2, <1>9
      <4> QED BY <4>1
    <3> QED BY <3>1, <3>3, <2>1, <1>8, Types
  <2>2. CASE j # i BY <2>2, <1>8, Types
  <2> QED BY <2>1, <2>2
<1>16. /\ ckpt <= ckpt' /\ written <= written' /\ written' \in Nat /\ ckpt' \in Nat
       /\ \A j \in Inode : file'[j].start \in Nat
  <2>1. ASSUME NEW j \in Inode PROVE file'[j].start \in Nat
    <3>1. CASE j = i BY <3>1, <1>8
    <3>2. CASE j # i BY <3>2, <1>8, Types
    <3> QED BY <3>1, <3>2
  <2> QED BY <2>1, <1>1, Types
<1> QED BY <1>1, <1>10, <1>11, <1>13, <1>14, <1>15, <1>16, ServerTail

-----------------------------------------------------------------------------
(* To the end of the log: OpenRedo and Scan.                                *)

\* What the server keeps, while it does nothing.
LEMMA ServerSame ==
  ASSUME TailInv, UNCHANGED server, \A i \in Inode : used(i)' => used(i)
  PROVE  LiveInv' /\ HeldInv'
<1>1. LiveInv' BY DEF TailInv, LiveInv, server, covers
<1>2. ASSUME NEW i \in Inode, used(i)'
      PROVE  Held(i)' /\ (~file'[i].live => line(file'[i].start + FileLen) <= written')
  <2>1. Held(i) /\ (~file[i].live => line(file[i].start + FileLen) <= written)
    BY <1>2 DEF TailInv, HeldInv
  <2> QED BY <2>1 DEF Held, server
<1> QED BY <1>1, <1>2 DEF HeldInv

LEMMA ReadDirTail == ASSUME IInv, TailInv, ReadDir PROVE TailInv'
<1>1. /\ phase = "idle" /\ phase' = "open" /\ known' = written
      /\ todo' = {file[i].start : i \in {j \in Inode : file[j].live}}
      /\ UNCHANGED <<server, opening, redo, stream>>
  BY DEF ReadDir
<1>2. opening = None /\ opening' = None /\ Files = {} /\ Files' = {} /\ Stop = "" /\ Stop' = ""
  BY <1>1 DEF TailInv, NameInv, redo, stream
<1>3. LiveInv' /\ HeldInv' BY <1>1, <1>2, ServerSame DEF used, server
<1>4. Names' = {file[i].start : i \in {j \in Inode : file[j].live}} BY <1>1, <1>2 DEF Names
<1>5. UNCHANGED <<file, ckpt, written>> BY <1>1 DEF server
<1>6. NameInv'
  <2>1. ASSUME NEW m \in Names' PROVE \E i \in Inode : file'[i].live /\ m < file'[i].start + FileLen
    <3>1. PICK i \in Inode : file[i].live /\ m = file[i].start BY <1>4
    <3>2. m < file[i].start + FileLen BY <3>1, Types
    <3> QED BY <3>1, <3>2, <1>5
  <2>2. known' <= written' BY <1>1, <1>5, Types
  <2> QED BY <2>1, <2>2, <1>1, <1>2 DEF NameInv
<1>7. OpenInv'
  <2>1. PICK i \in Inode, s \in {1, 2} : file[i].live /\ covers(file[i], blockOf(ckpt)) /\ file[i].slots[s] = ckpt
    BY DEF TailInv, LiveInv
  <2>2. PICK m \in Nat : m = file[i].start BY Types
  <2>3. m \in Names' BY <2>1, <2>2, <1>4
  <2>4. Newer(ckpt, m, file[i].slots)
    <3>1. file[i].slots[s] >= ckpt BY <2>1, Types
    <3>2. m <= blockOf(ckpt) /\ blockOf(ckpt) < m + FileLen BY <2>1, <2>2 DEF covers
    <3> QED BY <3>1, <3>2, <2>1 DEF Newer
  <2>5. ASSUME NEW j \in Inode, file'[j].live, file'[j].start = m PROVE Newer(ckpt, m, file'[j].slots)
    <3>1. file[j].live /\ file[j].start = m BY <2>5, <1>5
    <3>2. j = i
      <4>1. i # j => m + FileLen <= m BY <2>1, <2>2, <3>1 DEF TailInv, LiveInv
      <4> QED BY <4>1, RedoScanAssumption
    <3> QED BY <3>2, <2>4, <1>5
  <2>6. ASSUME NEW n \in Nat, blockOf(ckpt) <= n, line(n) < written
        PROVE  \E x \in Names' : x <= n /\ n < x + FileLen
    <3>1. PICK j \in Inode : file[j].live /\ covers(file[j], n) BY <2>6 DEF TailInv, LiveInv
    <3>2. file[j].start \in Names' BY <3>1, <1>4
    <3> QED BY <3>1, <3>2 DEF covers
  <2>7. ckpt > 0 /\ ckpt \in Nat /\ ckpt <= ckpt' BY <1>5, Types DEF TailInv, LiveInv
  <2>8. Listed(ckpt, m)'
    <3>1. PICK c \in Nat : c = ckpt BY <2>7
    <3>2. Listed(c, m)' BY <3>1, <2>5, <2>6, <2>7, <1>1, <1>2, <1>5 DEF Listed
    <3> QED BY <3>1, <3>2, <1>5
  <2>9. PICK c \in Nat : c = ckpt BY <2>7
  <2>10. Listed(c, m)' BY <2>8, <2>9, <1>5
  <2> QED BY <2>3, <2>10 DEF OpenInv
<1>8. ScanInv' /\ ReachesTail' BY <1>1, <1>2 DEF ScanInv, ReachesTail
<1> QED BY <1>3, <1>6, <1>7, <1>8 DEF TailInv

LEMMA OpenFileTail == ASSUME IInv, TailInv, NEW name \in todo, OpenFile(name) PROVE TailInv'
<1>1. /\ phase = "open" /\ opening = None /\ todo' = todo \ {name}
      /\ UNCHANGED <<server, redo, stream, known>>
  BY DEF OpenFile
<1>2. UNCHANGED <<file, ckpt, written, Files, Stop>> BY <1>1 DEF server, redo, stream
<1>3. Stop = "" BY <1>1 DEF TailInv, NameInv
<1>4. name \in Names BY DEF Names
<1>5. CASE \E i \in Inode : file[i].live /\ file[i].start = name
  <2>1. PICK i \in Inode : i = CHOOSE j \in Inode : file[j].live /\ file[j].start = name BY <1>5
  <2>2. file[i].live /\ file[i].start = name BY <2>1, <1>5
  <2>3. opening' = [inode |-> i, Name |-> name] /\ phase' = phase BY <1>5, <2>1 DEF OpenFile
  <2>4. opening' # None /\ opening'.inode = i /\ opening'.Name = name
    <3>1. name \in Nat BY <1>4, Types
    <3>2. opening' \in Opened BY <3>1, <2>3 DEF Opened
    <3> QED BY <3>2, <2>3, RedoScanAssumption
  <2>5. LiveInv' /\ HeldInv'
    <3>1. \A j \in Inode : used(j)' => used(j) BY <2>2, <2>4, <1>2 DEF used
    <3> QED BY <3>1, <1>1, ServerSame
  <2>6. Names' = Names BY <2>4, <1>1, <1>2 DEF Names
  <2>7. NameInv'
    <3>1. opening' # None => phase' = "open" /\ opening'.Name <= file'[opening'.inode].start
      BY <1>1, <1>2, <1>4, <2>2, <2>3, <2>4, Types
    <3> QED BY <3>1, <2>3, <2>6, <1>1, <1>2, <1>3 DEF TailInv, NameInv
  <2>8. PICK c \in Nat, m \in Names : Listed(c, m) BY <1>1 DEF TailInv, OpenInv
  <2>9. Listed(c, m)'
    <3>1. file[i].start = m => Newer(c, m, file[i].slots) BY <2>2, <2>8 DEF Listed
    <3> QED BY <3>1, <2>4, <2>6, <2>8, <1>1, <1>2 DEF Listed
  <2>10. OpenInv' BY <2>6, <2>8, <2>9 DEF OpenInv
  <2>11. ScanInv' /\ ReachesTail' BY <2>3, <1>1, <1>2, <1>3 DEF ScanInv, ReachesTail
  <2> QED BY <2>5, <2>7, <2>10, <2>11 DEF TailInv
<1>6. CASE ~\E i \in Inode : file[i].live /\ file[i].start = name
  <2>1. phase' = "failed" /\ opening' = None BY <1>1, <1>6 DEF OpenFile
  <2>2. LiveInv' /\ HeldInv'
    <3>1. \A j \in Inode : used(j)' => used(j) BY <2>1, <1>2 DEF used
    <3> QED BY <3>1, <1>1, ServerSame
  <2>3. Names' \subseteq Names BY <2>1, <1>1, <1>2 DEF Names
  <2>4. NameInv' BY <2>1, <2>3, <1>1, <1>2 DEF TailInv, NameInv
  <2>5. OpenInv' /\ ScanInv' /\ ReachesTail' BY <2>1, <1>2, <1>3 DEF OpenInv, ScanInv, ReachesTail
  <2> QED BY <2>2, <2>4, <2>5 DEF TailInv
<1> QED BY <1>5, <1>6

LEMMA ReadHeaderTail == ASSUME IInv, TailInv, ReadHeader PROVE TailInv'
<1> DEFINE h == [inode |-> opening.inode, Name |-> opening.Name,
                 start |-> file[opening.inode].start, slots |-> file[opening.inode].slots]
<1>1. /\ opening # None /\ Files' = Files \cup {h} /\ opening' = None
      /\ UNCHANGED <<server, phase, todo, CheckpointLSN, stream, known>>
  BY DEF ReadHeader
<1>2. /\ h.inode = opening.inode /\ h.Name = opening.Name
      /\ h.start = file[opening.inode].start /\ h.slots = file[opening.inode].slots
  OBVIOUS
<1> HIDE DEF h
<1>3. UNCHANGED <<file, ckpt, written, Stop>> BY <1>1 DEF server, stream
<1>4. phase = "open" /\ Stop = "" /\ opening.Name <= file[opening.inode].start
  BY <1>1 DEF TailInv, NameInv
<1>5. opening.inode \in Inode /\ opening.Name \in Nat /\ file[opening.inode].start \in Nat
  BY <1>1, Types
<1>6. LiveInv' /\ HeldInv'
  <2>1. \A j \in Inode : used(j)' => used(j) BY <1>1, <1>2, <1>3 DEF used
  <2> QED BY <2>1, <1>1, ServerSame
<1>7. Names' = Names BY <1>1, <1>2 DEF Names
<1>8. NameInv'
  <2>1. ASSUME NEW f \in Files' PROVE f.Name <= f.start /\ f.start <= file'[f.inode].start
    <3>1. CASE f \in Files BY <3>1, <1>3 DEF TailInv, NameInv
    <3>2. CASE f = h
      <4>1. f.Name = opening.Name /\ f.start = file[opening.inode].start BY <3>2, <1>2
      <4>2. file'[f.inode].start = file[opening.inode].start BY <3>2, <1>2, <1>3
      <4>3. PICK d \in Nat : d = file[opening.inode].start BY <1>5
      <4>4. PICK e \in Nat : e = opening.Name BY <1>5
      <4>5. e <= d BY <4>3, <4>4, <1>4
      <4>6. f.Name = e /\ f.start = d /\ file'[f.inode].start = d BY <4>1, <4>2, <4>3, <4>4
      <4> QED BY <4>5, <4>6
    <3> QED BY <3>1, <3>2, <1>1
  <2> QED BY <2>1, <1>1, <1>3, <1>4, <1>7 DEF TailInv, NameInv
<1>9. OpenInv'
  <2>1. PICK c \in Nat, m \in Names : Listed(c, m) BY <1>4 DEF TailInv, OpenInv
  <2>2. ASSUME NEW f \in Files', f.Name = m, f.start = m PROVE Newer(c, m, f.slots)
    <3>1. CASE f \in Files BY <3>1, <2>1, <2>2 DEF Listed
    <3>2. CASE f = h BY <3>2, <2>1, <2>2, <1>1, <1>2 DEF Listed
    <3> QED BY <3>1, <3>2, <1>1
  <2>3. Listed(c, m)' BY <2>1, <2>2, <1>1, <1>3, <1>7 DEF Listed
  <2> QED BY <2>1, <2>3, <1>7 DEF OpenInv
<1>10. ScanInv' /\ ReachesTail' BY <1>1, <1>3, <1>4 DEF ScanInv, ReachesTail
<1> QED BY <1>6, <1>8, <1>9, <1>10 DEF TailInv

LEMMA ChooseTail == ASSUME IInv, TailInv, Choose PROVE TailInv'
<1>1. /\ phase = "open" /\ todo = {} /\ opening = None /\ phase' \in {"failed", "scan"}
      /\ UNCHANGED <<server, todo, opening, Files, StartLSN, blocks, Buf, Stop, known>>
  BY DEF Choose
<1>2. UNCHANGED <<file, ckpt, written>> BY <1>1 DEF server
<1>3. Stop = "" BY <1>1 DEF TailInv, NameInv
<1>4. LiveInv' /\ HeldInv'
  <2>1. \A j \in Inode : used(j)' => used(j) BY <1>1, <1>2 DEF used
  <2> QED BY <2>1, <1>1, ServerSame
<1>5. Names' = Names /\ Names = {f.Name : f \in Files} BY <1>1 DEF Names
<1>6. NameInv' BY <1>1, <1>2, <1>3, <1>5 DEF TailInv, NameInv
<1>7. OpenInv' /\ ReachesTail' BY <1>1, <1>3 DEF OpenInv, ReachesTail
<1>8. ASSUME phase' = "scan" PROVE ScanInv'
  <2>1. /\ checkpoints # {} /\ CheckpointLSN' = Max(checkpoints)
        /\ blockLSN' = blockOf(CheckpointLSN') * BlockSize
    BY <1>8 DEF Choose
  <2>2. /\ checkpoints \subseteq Nat /\ Max(checkpoints) \in checkpoints
        /\ \A y \in checkpoints : y <= Max(checkpoints)
    BY <2>1, CheckpointsOf
  <2>3. PICK l \in Nat : l = CheckpointLSN' BY <2>1, <2>2
  <2>4. PICK k \in Nat : k = blockOf(l) BY BlockUp
  <2>5. blockOf(blockLSN') = k
    <3>1. 0 \in 0 .. BlockSize - 1 /\ k * BlockSize + 0 = k * BlockSize BY Sizes
    <3>2. blockOf(k * BlockSize) = k BY <3>1, BlockOfLsn
    <3> QED BY <3>2, <2>1, <2>3, <2>4
  <2>6. ASSUME NamesHeld', NEW n \in Nat, k <= n, line(n) < known PROVE \E f \in Files : covers(f, n)
    <3>1. ASSUME NEW f \in Files PROVE f.start = f.Name /\ f.Name \in Nat
      <4>1. file[f.inode].start = f.Name BY <2>6, <1>1, <1>2 DEF NamesHeld
      <4>2. f.Name <= f.start /\ f.start <= file[f.inode].start BY DEF TailInv, NameInv
      <4>3. f.start \in Nat /\ f.Name \in Nat BY Types
      <4> QED BY <4>1, <4>2, <4>3
    <3>2. PICK c \in Nat, m \in Names : Listed(c, m) BY <1>1 DEF TailInv, OpenInv
    <3>3. PICK g \in Files : g.Name = m BY <1>5
    <3>4. g.start = m /\ m \in Nat BY <3>1, <3>3
    <3>5. Newer(c, m, g.slots) /\ c > 0 BY <3>2, <3>3, <3>4 DEF Listed
    <3>6. PICK s \in {1, 2} : g.slots[s] >= c /\ m <= blockOf(g.slots[s]) /\ blockOf(g.slots[s]) < m + FileLen
      BY <3>5 DEF Newer
    <3>7. PICK x \in Nat : x = g.slots[s]
      <4>1. g \in RedoFile BY DEF IInv, TypeOK
      <4> QED BY <4>1 DEF RedoFile, Slots
    <3>8. valid(g, x) BY <3>4, <3>5, <3>6, <3>7 DEF valid, contains, covers
    <3>9. x \in checkpoints BY <3>7, <3>8 DEF checkpoints
    <3>10. c <= l BY <3>6, <3>7, <3>9, <2>1, <2>2, <2>3
    <3>11. PICK b \in Nat : b = blockOf(c) BY BlockUp
    <3>12. b <= k BY <3>10, <3>11, <2>4, BlockUp
    <3>13. PICK y \in Names : y <= n /\ n < y + FileLen
      <4>1. blockOf(c) <= n BY <3>11, <3>12, <2>6
      <4> QED BY <4>1, <3>2, <2>6 DEF Listed
    <3>14. PICK f \in Files : f.Name = y BY <1>5
    <3>15. covers(f, n) BY <3>1, <3>13, <3>14 DEF covers
    <3> QED BY <3>15
  <2> QED BY <2>3, <2>4, <2>5, <2>6, <1>1 DEF ScanInv
<1>9. ScanInv' BY <1>8 DEF ScanInv
<1> QED BY <1>4, <1>6, <1>7, <1>9 DEF TailInv

\* While it scans, a file with its name has the blocks its header says.
LEMMA AsNamed ==
  ASSUME IInv, TailInv, NamesHeld, NEW f \in Files, NEW n \in Nat, covers(f, n), line(n) < written
  PROVE  LET b == file[f.inode].blk[n - f.start]
         IN  b # None /\ b.n = n /\ (b.upto >= written \/ b.upto >= line(n + 1))
<1>1. PICK i \in Inode : i = f.inode BY Types
<1>2. f.start = file[i].start /\ f.start \in Nat
  <2>1. file[i].start = f.Name BY <1>1 DEF NamesHeld
  <2>2. f.Name <= f.start /\ f.start <= file[i].start BY <1>1 DEF TailInv, NameInv
  <2>3. f.start \in Nat /\ f.Name \in Nat BY Types
  <2> QED BY <2>1, <2>2, <2>3
<1>3. PICK t \in 0 .. FileLen - 1 : t = n - f.start
  <2>1. f.start <= n /\ n < f.start + FileLen BY DEF covers
  <2> QED BY <2>1, <1>2, RedoScanAssumption
<1>4. file[i].start + t = n BY <1>2, <1>3
<1>5. Held(i) BY <1>1 DEF TailInv, HeldInv, used
<1>6. PICK b : b = file[i].blk[t] OBVIOUS
<1>7. b # None /\ b.n = n /\ (b.upto >= written \/ b.upto >= line(n + 1))
  BY <1>4, <1>5, <1>6 DEF Held
<1> QED BY <1>1, <1>3, <1>6, <1>7

\* A step of the scan leaves the server and the files as they are.
LEMMA ScanKeeps ==
  ASSUME TailInv, UNCHANGED <<server, todo, opening, redo, known>>, phase = "scan",
         phase' \in {"scan", "done", "failed"}, phase' = "scan" => UNCHANGED Stop
  PROVE  LiveInv' /\ HeldInv' /\ NameInv' /\ OpenInv' /\ (NamesHeld' <=> NamesHeld)
<1>1. UNCHANGED <<file, ckpt, written, Files>> BY DEF server, redo
<1>2. LiveInv' /\ HeldInv'
  <2>1. \A j \in Inode : used(j)' => used(j) BY <1>1 DEF used
  <2> QED BY <2>1, ServerSame
<1>3. opening = None BY DEF TailInv, NameInv
<1>4. Names' = Names BY <1>1 DEF Names
<1>5. NameInv' BY <1>1, <1>3, <1>4 DEF TailInv, NameInv
<1> QED BY <1>1, <1>2, <1>5 DEF OpenInv, NamesHeld

LEMMA StopAtTail == ASSUME IInv, TailInv, StopAt PROVE TailInv'
<1>1. /\ phase = "scan"
      /\ UNCHANGED <<server, todo, opening, redo, blockLSN, StartLSN, blocks, Buf, known>>
      /\ phase' = outcome(blocks')
  BY DEF StopAt, stopped
<1>2. phase' \in {"failed", "done"} BY <1>1 DEF outcome
<1>3. LiveInv' /\ HeldInv' /\ NameInv' /\ OpenInv' /\ (NamesHeld' <=> NamesHeld)
  BY <1>1, <1>2, ScanKeeps
<1>4. ScanInv' BY <1>2 DEF ScanInv
<1>5. PICK n \in Nat : n = blockOf(blockLSN)
  <2>1. blockLSN \in Nat BY DEF IInv, TypeOK
  <2> QED BY <2>1, BlockUp
<1>6. Stands(n) BY <1>1, <1>5 DEF IInv, StreamInv
<1>7. ASSUME NamesHeld, Stop' \notin {"", "checksum"} PROVE known <= line(n)
  <2>1. CASE fileFor(blockLSN) = {}
    <3>1. CASE line(n) < known
      <4>1. PICK f \in Files : covers(f, n) BY <3>1, <1>1, <1>5, <1>7 DEF TailInv, ScanInv
      <4>2. f \in fileFor(blockLSN) BY <4>1, <1>5 DEF fileFor, contains
      <4> QED BY <4>2, <2>1
    <3> QED BY <3>1, Types, Lines
  <2>2. CASE fileFor(blockLSN) # {}
    <3>1. PICK f \in fileFor(blockLSN) : ~belongs(read(f, blockLSN), n)
      BY <2>2, <1>5, <1>7 DEF StopAt, stopped
    <3>2. f \in Files /\ covers(f, n) BY <3>1, <1>5 DEF fileFor, contains
    <3>3. CASE line(n) < written
      <4>1. PICK b : b = file[f.inode].blk[n - f.start] OBVIOUS
      <4>2. b # None /\ b.n = n BY <4>1, <3>2, <3>3, <1>7, AsNamed
      <4>3. read(f, blockLSN) = b BY <4>1, <1>5 DEF read
      <4>4. belongs(b, n) BY <4>2 DEF belongs, HdrNo, EpochNo
      <4> QED BY <3>1, <4>3, <4>4
    <3>4. known <= written BY DEF TailInv, NameInv
    <3> QED BY <3>3, <3>4, Types, Lines
  <2> QED BY <2>1, <2>2
<1>8. ReachesTail'
  <2>1. base' = base BY <1>1 DEF base, byteAt
  <2>2. ASSUME NamesHeld, Stop' \notin {"", "checksum"}, blocks # <<>> PROVE base + Len(Buf) >= known
    <3>1. base + Len(Buf) = line(n) BY <2>2, <1>6 DEF Stands, line
    <3> QED BY <3>1, <2>2, <1>7, Types, Lines
  <2>3. ASSUME NamesHeld, Stop' \notin {"", "checksum"}, blocks = <<>>, NEW k \in 0 .. known - 1, begins(k)
        PROVE  lsn(k) < CheckpointLSN
    <3>1. known <= line(n) /\ known \in Nat /\ line(n) \in Nat BY <2>3, <1>7, Types, Lines
    <3>2. k \in 0 .. line(n) - 1 BY <3>1
    <3> QED BY <3>2, <2>3, <1>6 DEF Stands, line
  <2>4. NamesHeld' => NamesHeld BY <1>3
  <2>5. UNCHANGED <<log, Files, CheckpointLSN, blocks, Buf, known>> BY <1>1 DEF server, redo
  <2> QED BY <2>1, <2>2, <2>3, <2>4, <2>5 DEF ReachesTail, NamesHeld, begins
<1> QED BY <1>3, <1>4, <1>8 DEF TailInv

\* What is taken of a block that is not full: all it has.
LEMMA PartialOf ==
  ASSUME NEW b \in Block, first(b) < b.upto, partial(b)
  PROVE  /\ b.upto < first(b) + Fill /\ upTo(b) = Hdr + b.upto - first(b)
         /\ blocks = <<>> /\ from(b) = 0 => \A k \in first(b) .. b.upto - 1 : ~begins(k)
<1> DEFINE at == {k \in first(b) .. b.upto : k < first(b) + Fill /\ begins(k)}
<1>1. PICK u \in Nat : u = b.upto BY DEF Block
<1>2. PICK F \in Nat : F = first(b)
  <2>1. b.n \in Nat BY DEF Block
  <2> QED BY <2>1, Sizes DEF first
<1>3. u < F + Fill /\ dataLen(b) = Hdr + u - F BY <1>1, <1>2, Sizes DEF partial, dataLen
<1>4. upTo(b) = Hdr + u - F BY <1>1, <1>2, <1>3, Sizes DEF upTo
<1>5. ASSUME blocks = <<>>, from(b) = 0, NEW k \in F .. u - 1, begins(k) PROVE FALSE
  <2>1. k \in at
    <3>1. k \in F .. u /\ k < F + Fill BY <1>3, <1>5, Sizes
    <3> QED BY <3>1, <1>1, <1>2, <1>5
  <2>2. at \in SUBSET Nat BY <1>1, <1>2
  <2>3. firstGroup(b) = Hdr + Min(at) - F BY <2>1, <1>2 DEF firstGroup
  <2>4. Min(at) \in at /\ \A y \in at : Min(at) <= y
    <3> HIDE DEF at
    <3> QED BY <2>1, <2>2, LeastOf
  <2>5. Min(at) \in F .. u BY <2>4, <1>1, <1>2
  <2>6. Min(at) <= k BY <2>1, <2>4
  <2> HIDE DEF at
  <2>7. firstGroup(b) >= Hdr /\ firstGroup(b) < dataLen(b)
    <3>1. PICK m \in F .. u : m = Min(at) BY <2>5
    <3>2. m < u BY <3>1, <2>6, <1>5
    <3> QED BY <3>1, <3>2, <2>3, <1>3, Sizes
  <2>8. from(b) = firstGroup(b) /\ firstGroup(b) # 0
    <3>1. firstGroup(b) \in Int BY <2>3, <2>5, <1>2, Sizes
    <3>2. dataLen(b) \in Int BY <1>1, <1>2, <1>3, Sizes
    <3> QED BY <3>1, <3>2, <2>7, <1>5, Sizes DEF from
  <2> QED BY <2>8, <1>5
<1> QED BY <1>1, <1>2, <1>3, <1>4, <1>5

LEMMA ScanBlockTail == ASSUME IInv, TailInv, ScanBlock PROVE TailInv'
<1>1. phase = "scan" /\ UNCHANGED <<server, todo, opening, redo, known>> BY DEF ScanBlock
<1>2. PICK f \in fileFor(blockLSN) :
        belongs(read(f, blockLSN), blockOf(blockLSN)) /\ Take(read(f, blockLSN))
  BY DEF ScanBlock
<1>3. PICK n \in Nat : n = blockOf(blockLSN)
  <2>1. blockLSN \in Nat BY DEF IInv, TypeOK
  <2> QED BY <2>1, BlockUp
<1>4. Stands(n) /\ blockLSN = n * BlockSize BY <1>1, <1>3 DEF IInv, StreamInv, Stands
<1>5. PICK b : b = read(f, blockLSN) OBVIOUS
<1>6. b \in Block /\ first(b) = line(n) /\ first(b) < b.upto /\ b.upto <= written
  BY <1>2, <1>3, <1>5, BlockRead DEF line
<1>7. Take(b) BY <1>2, <1>5
<1>8. f \in Files /\ covers(f, n) BY <1>3 DEF fileFor, contains
<1>9. UNCHANGED <<log, Files, CheckpointLSN, known>> BY <1>1 DEF server, redo
<1>10. CASE ~partial(b)
  <2>1. blockLSN' = blockLSN + BlockSize /\ UNCHANGED <<phase, Stop>> BY <1>7, <1>10 DEF Take
  <2>2. LiveInv' /\ HeldInv' /\ NameInv' /\ OpenInv' /\ (NamesHeld' <=> NamesHeld)
    BY <2>1, <1>1, ScanKeeps
  <2>3. blockOf(blockLSN') = n + 1
    <3>1. n + 1 \in Nat /\ blockLSN' = (n + 1) * BlockSize BY <2>1, <1>4, Sizes
    <3>2. 0 \in 0 .. BlockSize - 1 /\ (n + 1) * BlockSize + 0 = (n + 1) * BlockSize BY <3>1, Sizes
    <3> QED BY <3>1, <3>2, BlockOfLsn
  <2>4. ScanInv'
    <3>1. PICK c \in Nat : c = blockOf(CheckpointLSN)
      <4>1. CheckpointLSN \in Nat BY DEF IInv, TypeOK
      <4> QED BY <4>1, BlockUp
    <3>2. c <= n + 1 BY <3>1, <1>1, <1>3 DEF TailInv, ScanInv
    <3> QED BY <3>1, <3>2, <2>2, <2>3, <1>1, <1>9 DEF TailInv, ScanInv
  <2>5. ReachesTail' BY <2>1, <1>1 DEF ReachesTail
  <2> QED BY <2>2, <2>4, <2>5 DEF TailInv
<1>11. CASE partial(b)
  <2>1. Stop' = "partial" /\ phase' = outcome(blocks') BY <1>7, <1>11 DEF Take, stopped
  <2>2. phase' \in {"done", "failed"} BY <2>1 DEF outcome
  <2>3. LiveInv' /\ HeldInv' /\ NameInv' /\ OpenInv' /\ (NamesHeld' <=> NamesHeld)
    BY <2>2, <1>1, ScanKeeps
  <2>4. ScanInv' BY <2>2 DEF ScanInv
  <2>5. PICK u \in Nat : u = b.upto BY <1>6 DEF Block
  <2>6. PICK F \in Nat : F = line(n) BY Lines
  <2>7. u < F + Fill /\ upTo(b) = Hdr + u - F BY <2>5, <2>6, <1>6, <1>11, PartialOf
  <2>8. F < u /\ u <= written /\ written \in Nat /\ known \in Nat /\ known <= written
    <3>1. known <= written BY DEF TailInv, NameInv
    <3> QED BY <3>1, <2>5, <2>6, <1>6, Types
\* A block that is not full is the one the log ends in.
  <2>9. NamesHeld => u = written /\ known <= u
    <3>1. SUFFICES ASSUME NamesHeld PROVE u = written BY <2>8
    <3>2. line(n) < written BY <2>6, <2>8
    <3>3. b = file[f.inode].blk[n - f.start] BY <1>3, <1>5 DEF read
    <3>4. b.upto >= written \/ b.upto >= line(n + 1) BY <3>1, <3>2, <3>3, <1>8, AsNamed
    <3>5. line(n + 1) = F + Fill BY <2>6, Lines
    <3> QED BY <3>4, <3>5, <2>5, <2>7, <2>8, Sizes
  <2>10. CASE from(b) # 0
    <3>1. /\ from(b) \in Hdr .. upTo(b) - 1 /\ upTo(b) \in Hdr + 1 .. Hdr + Fill
          /\ first(b) + upTo(b) - Hdr <= b.upto
      BY <2>10, <1>6, TakenOf
    <3>2. PICK x \in Nat : x = from(b) /\ Hdr <= x BY <3>1, Sizes
    <3>3. PICK y \in Nat : y = upTo(b) /\ x < y BY <3>1, <3>2, Sizes
    <3>4. Buf' = Buf \o bytes(b, x, y) /\ blocks' = Append(blocks, [off |-> Len(Buf), lsn |-> blockLSN + x])
      BY <2>10, <3>2, <3>3, <1>7 DEF Take
    <3>5. line(n) + (x - Hdr) = base' + Len(Buf) /\ base' \in Nat
      BY <2>10, <3>2, <1>1, <1>4, <1>6, <1>7, AddedAt DEF line
    <3>6. Len(bytes(b, x, y)) = y - x /\ bytes(b, x, y) \in Seq(Byte)
      <4>1. log \in Seq(Byte) /\ Len(log) \in Nat BY LogType
      <4>2. written <= Len(log)
        <5>1. written \in 0 .. Len(log) BY DEF IInv, TypeOK
        <5> QED BY <5>1, <4>1
      <4>3. first(b) \in Nat /\ first(b) + y - Hdr <= Len(log)
        <5>1. F + y - Hdr <= u BY <3>1, <3>3, <2>5, <2>6, <1>6
        <5> QED BY <5>1, <4>1, <4>2, <2>6, <2>8, <3>3, <1>6, Sizes
      <4> QED BY <3>2, <3>3, <4>1, <4>3, BytesOf
    <3>7. Buf \in Seq(Byte) /\ Len(Buf) \in Nat
      <4>1. Buf \in Seq(Byte) BY DEF IInv, TypeOK
      <4> QED BY <4>1
    <3>8. Len(Buf') = Len(Buf) + (y - x)
      <4>1. Len(Buf \o bytes(b, x, y)) = Len(Buf) + Len(bytes(b, x, y)) BY <3>6, <3>7, ConcatProperties
      <4> QED BY <4>1, <3>4, <3>6
    <3>9. base' + Len(Buf') = u
      <4>1. PICK d \in Nat : d = Len(Buf) BY <3>7
      <4>2. PICK a \in Nat : a = base' BY <3>5
      <4>3. F + (x - Hdr) = a + d /\ y = Hdr + u - F BY <4>1, <4>2, <3>3, <3>5, <2>6, <2>7
      <4>4. a + (d + (y - x)) = u BY <4>3, <2>5, <2>6, <3>2, <3>3, Sizes
      <4> QED BY <4>1, <4>2, <4>4, <3>8
    <3>10. blocks' # <<>>
      <4>1. blocks \in Seq(streamBlock) BY DEF IInv, TypeOK
      <4> QED BY <4>1, <3>4
    <3>11. NamesHeld => base' + Len(Buf') >= known BY <3>9, <2>8, <2>9
    <3>12. ReachesTail' BY <3>10, <3>11, <2>3, <1>9 DEF ReachesTail, NamesHeld
    <3> QED BY <3>12, <2>3, <2>4 DEF TailInv
  <2>11. CASE from(b) = 0
    <3>1. blocks = <<>>
      <4>1. blocks # <<>> => from(b) = Hdr BY <1>6, TakenOf
      <4> QED BY <4>1, <2>11, Sizes
    <3>2. blocks' = <<>> BY <3>1, <2>11, <1>7 DEF Take
    <3>3. ASSUME NamesHeld, NEW k \in 0 .. known - 1, begins(k) PROVE lsn(k) < CheckpointLSN
      <4>1. k \in 0 .. F - 1 \/ k \in F .. u - 1 BY <3>3, <2>8, <2>9
      <4>2. k \notin F .. u - 1
        <5>1. \A j \in first(b) .. b.upto - 1 : ~begins(j) BY <3>1, <2>11, <1>6, <1>11, PartialOf
        <5> QED BY <5>1, <3>3, <2>5, <2>6, <1>6
      <4>3. k \in 0 .. n * Fill - 1 BY <4>1, <4>2, <2>6 DEF line
      <4> QED BY <4>3, <3>1, <3>3, <1>4 DEF Stands
    <3>4. ReachesTail'
      <4>1. ASSUME NamesHeld', NEW k \in 0 .. known' - 1, begins(k)' PROVE lsn(k)' < CheckpointLSN'
        <5>1. NamesHeld /\ k \in 0 .. known - 1 /\ begins(k) BY <4>1, <2>3, <1>9 DEF begins
        <5>2. lsn(k) < CheckpointLSN BY <5>1, <3>3
        <5> QED BY <5>2, <1>9 DEF lsn
      <4> QED BY <4>1, <3>2 DEF ReachesTail, NamesHeld
    <3> QED BY <3>4, <2>3, <2>4 DEF TailInv
  <2> QED BY <2>10, <2>11
<1> QED BY <1>10, <1>11

-----------------------------------------------------------------------------
(* The split into mtrs.  The two recursions go to higher offsets only, so   *)
(* there are functions as they say (MtrIs, SplitIs), and what holds of them *)
(* is shown from the end of the stream down (Downward).                     *)

\* A record begins at an offset of the stream; an mtr does.
whole(o)  == o = Len(Buf) \/ Buf[o + 1] # "rest"
starts(o) == o = 0 \/ closes(Buf[o])

\* The stream has whole records of the log, but for the last, and shows where its
\* mtrs end.
Records ==
  /\ Buf \in Seq(Byte) /\ Len(Buf) \in Nat
  /\ whole(0)
  /\ \A i \in 1 .. Len(Buf) - 1 : Buf[i + 1] = "rest" <=> Buf[i] = "long"

\* What is found from offset o on, up to t: the first mtr from there, or none that ends.
WalkIs(o, t, found) ==
  /\ t \in o .. Len(Buf)
  /\ found => t > o /\ closes(Buf[t]) /\ \A k \in o + 1 .. t - 1 : ~closes(Buf[k])
  /\ ~found => \A k \in o + 1 .. Len(Buf) : ~closes(Buf[k])

none      == ""
fails(e)  == e \in {"truncated", "not terminated"}
ended(m)  == m.err = none
errs      == {"", "truncated", "not terminated"}
Walked(o) == WalkIs(o, mtr[o].to, ended(mtr[o])) /\ mtr[o].err \in errs

\* The step of the recursion in mtr, and of that in MTRs.
mtrAt(f, o) ==
  IF o = Len(Buf) THEN [to |-> o, err |-> "not terminated"]
  ELSE IF closes(Buf[o + 1]) THEN [to |-> o + 1, err |-> ""]
  ELSE IF Buf[o + 1] = "part" THEN f[o + 1]
  ELSE IF Buf[o + 1] = "long" /\ o + 2 <= Len(Buf) THEN f[o + 2]
  ELSE [to |-> o, err |-> "truncated"]

splitAt(f, o) ==
  IF o = Len(Buf) THEN <<>>
  ELSE <<[off |-> o, to |-> mtr[o].to, err |-> mtr[o].err]>>
       \o IF ended(mtr[o]) THEN f[mtr[o].to] ELSE <<>>

split == CHOOSE f : f = [o \in 0 .. Len(Buf) |-> splitAt(f, o)]

\* An mtr found: it begins at an mtr of the log and no record before its last one
\* closes it.
Found(m) ==
  /\ m.off \in 0 .. Len(Buf) /\ m.to \in m.off .. Len(Buf) /\ starts(m.off)
  /\ \A k \in m.off + 1 .. m.to - 1 : ~closes(Buf[k])
  /\ ended(m) => m.to > 0 /\ closes(Buf[m.to])
  /\ ~ended(m) => \A k \in m.off + 1 .. Len(Buf) : ~closes(Buf[k])

\* The mtrs found from offset o on.
Splits(s, o) ==
  /\ s \in Seq(MTR)
  /\ o = Len(Buf) => s = <<>>
  /\ o # Len(Buf) => s # <<>> /\ s[1].off = o
  /\ \A i \in 1 .. Len(s) :
       /\ Found(s[i])
       /\ i > 1 => s[i].off = s[i - 1].to
       /\ ~ended(s[i]) => i = Len(s)
       /\ i = Len(s) /\ ended(s[i]) => s[i].to = Len(Buf)

\* A mini-transaction's fields, whatever its error.
LEMMA Fields ==
  /\ \A t, e : [to |-> t, err |-> e].to = t /\ [to |-> t, err |-> e].err = e
  /\ \A o, t, e : /\ [off |-> o, to |-> t, err |-> e].off = o
                  /\ [off |-> o, to |-> t, err |-> e].to = t
                  /\ [off |-> o, to |-> t, err |-> e].err = e
  /\ \A E : \A o \in Nat, t \in Nat, e \in E :
       [off |-> o, to |-> t, err |-> e] \in [off : Nat, to : Nat, err : E]
OBVIOUS

\* An error is none or one that ends the split.
LEMMA Ends == none \in errs /\ \A e : fails(e) => e \in errs /\ e # none
<1>1. \A e : fails(e) => e \in errs /\ e # none BY Zenon DEF fails, errs, none
<1> QED BY <1>1, Zenon DEF errs, none

\* Where no record closes an mtr, none ends.
LEMMA NoneEnds ==
  ASSUME Len(Buf) \in Nat, NEW o \in 0 .. Len(Buf), NEW e, fails(e), mtr[o] = [to |-> o, err |-> e],
         \A k \in o + 1 .. Len(Buf) : ~closes(Buf[k])
  PROVE  Walked(o)
<1>1. mtr[o].to = o /\ mtr[o].err = e BY Fields
<1>2. WalkIs(o, o, FALSE) BY DEF WalkIs
<1>3. e \in errs /\ e # none BY Ends, Zenon
<1>4. ended(mtr[o]) = FALSE BY <1>1, <1>3, Zenon DEF ended
<1>5. WalkIs(o, o, ended(mtr[o])) BY <1>2, <1>4, Zenon
<1> QED BY <1>1, <1>3, <1>5, Zenon DEF Walked

\* There is a function as the recursion says.
LEMMA MtrIs == ASSUME Len(Buf) \in Nat PROVE \A o \in 0 .. Len(Buf) : mtr[o] = mtrAt(mtr, o)
<1> DEFINE L == Len(Buf)
           from0(g, o) == \A x \in o .. L : g[x] = mtrAt(g, x)
           P == {o \in 0 .. L : \E g : g = [x \in 0 .. L |-> g[x]] /\ from0(g, o)}
<1>1. mtr = CHOOSE f : f = [o \in 0 .. L |-> mtrAt(f, o)] BY DEF mtr, mtrAt
<1>2. ASSUME NEW o \in 0 .. L, \A p \in o + 1 .. L : p \in P PROVE o \in P
  <2>1. PICK f : o # L => from0(f, o + 1)
    <3>1. CASE o = L BY <3>1
    <3>2. CASE o # L
      <4>1. o + 1 \in P BY <3>2, <1>2
      <4> QED BY <4>1
    <3> QED BY <3>1, <3>2
  <2> DEFINE g == [x \in 0 .. L |-> IF x = o THEN mtrAt(f, o) ELSE f[x]]
  <2>2. \A x \in o .. L, p \in 0 .. L : p > x => g[p] = f[p] OBVIOUS
  <2>3. \A x \in o .. L : mtrAt(g, x) = mtrAt(f, x)
    <3>1. SUFFICES ASSUME NEW x \in o .. L PROVE mtrAt(g, x) = mtrAt(f, x) OBVIOUS
    <3>2. x # L => g[x + 1] = f[x + 1] BY <2>2
    <3>3. x + 2 <= L => g[x + 2] = f[x + 2] BY <2>2
    <3> HIDE DEF g
    <3> QED BY <3>2, <3>3 DEF mtrAt
  <2>4. \A x \in o .. L : g[x] = mtrAt(g, x)
    <3>1. SUFFICES ASSUME NEW x \in o .. L PROVE g[x] = mtrAt(f, x) BY <2>3
    <3>2. CASE x = o BY <3>2
    <3>3. CASE x # o
      <4>1. x \in o + 1 .. L /\ o # L BY <3>3
      <4>2. f[x] = mtrAt(f, x) BY <4>1, <2>1
      <4> QED BY <3>3, <4>2
    <3> QED BY <3>2, <3>3
  <2>5. g = [x \in 0 .. L |-> g[x]] OBVIOUS
  <2> HIDE DEF g
  <2> QED BY <2>4, <2>5
<1>3. 0 \in P
  <2>1. 0 \in 0 .. L OBVIOUS
  <2> HIDE DEF P
  <2>2. \A o \in 0 .. L : o \in P BY <1>2, Downward
  <2> QED BY <2>1, <2>2
<1>4. PICK g : g = [x \in 0 .. L |-> g[x]] /\ \A x \in 0 .. L : g[x] = mtrAt(g, x) BY <1>3
<1>5. g = [o \in 0 .. L |-> mtrAt(g, o)]
  <2>1. [x \in 0 .. L |-> g[x]] = [o \in 0 .. L |-> mtrAt(g, o)] BY <1>4
  <2> QED BY <2>1, <1>4
<1>6. mtr = [o \in 0 .. L |-> mtrAt(mtr, o)] BY <1>1, <1>5
<1>7. PICK f : f = mtr OBVIOUS
<1>8. f = [o \in 0 .. L |-> mtrAt(f, o)] BY <1>6, <1>7
<1>9. \A o \in 0 .. L : f[o] = mtrAt(f, o) BY <1>8
<1> QED BY <1>7, <1>9

\* A walk ends where the first record ends that closes an mtr.
LEMMA WalkOf == ASSUME Records PROVE \A o \in 0 .. Len(Buf) : whole(o) => Walked(o)
<1> DEFINE P == {o \in 0 .. Len(Buf) : whole(o) => Walked(o)}
<1>1. PICK L \in Nat : L = Len(Buf) BY DEF Records
<1>2. \A o \in 0 .. L : mtr[o] = mtrAt(mtr, o) BY <1>1, MtrIs
<1>3. ASSUME NEW o \in 0 .. L, \A p \in o + 1 .. L : p \in P, whole(o) PROVE Walked(o)
  <2>1. CASE o = L
    <3>1. mtr[o] = [to |-> o, err |-> "not terminated"] BY <2>1, <1>1, <1>2 DEF mtrAt
    <3>2. PICK e : fails(e) /\ mtr[o] = [to |-> o, err |-> e] BY <3>1, Zenon DEF fails
    <3>3. \A k \in o + 1 .. L : FALSE BY <2>1
    <3> QED BY <3>2, <3>3, <1>1, NoneEnds
  <2>2. CASE o # L /\ closes(Buf[o + 1])
    <3>1. mtr[o] = [to |-> o + 1, err |-> ""] BY <2>2, <1>1, <1>2 DEF mtrAt
    <3>2. o + 1 \in o .. L /\ o + 1 > o /\ \A k \in o + 1 .. (o + 1) - 1 : FALSE BY <2>2
    <3>3. mtr[o] = [to |-> o + 1, err |-> none] BY <3>1, Zenon DEF none
    <3>4. mtr[o].to = o + 1 /\ ended(mtr[o]) BY <3>3, Fields DEF ended
    <3>5. mtr[o].err \in errs BY <3>4, Ends, Zenon DEF ended
    <3>6. WalkIs(o, o + 1, TRUE) BY <3>2, <2>2, <1>1 DEF WalkIs
    <3>7. WalkIs(o, o + 1, ended(mtr[o])) BY <3>4, <3>6, Zenon
    <3> QED BY <3>4, <3>5, <3>7, Zenon DEF Walked
  <2>3. ASSUME o # L, ~closes(Buf[o + 1]), Buf[o + 1] = "part" PROVE Walked(o)
    <3>1. mtr[o] = mtr[o + 1] BY <2>3, <1>1, <1>2 DEF mtrAt
    <3>2. whole(o + 1)
      <4>1. CASE o + 1 = L BY <4>1, <1>1 DEF whole
      <4>2. CASE o + 1 # L
        <5>1. o + 1 \in 1 .. Len(Buf) - 1 BY <4>2, <2>3, <1>1
        <5>2. Buf[o + 1 + 1] # "rest" BY <5>1, <2>3 DEF Records
        <5> QED BY <5>2 DEF whole
      <4> QED BY <4>1, <4>2
    <3>3. Walked(o + 1)
      <4>1. o + 1 \in o + 1 .. L BY <2>3
      <4>2. o + 1 \in P BY <4>1, <1>3
      <4> QED BY <4>2, <3>2
    <3>4. PICK t \in o + 1 .. L : t = mtr[o + 1].to BY <3>3, <1>1 DEF Walked, WalkIs
    <3>5. WalkIs(o + 1, t, ended(mtr[o + 1])) BY <3>3, <3>4 DEF Walked
    <3>6. /\ \A k \in o + 1 .. L : k = o + 1 \/ k \in o + 1 + 1 .. L
          /\ \A k \in o + 1 .. t - 1 : k = o + 1 \/ k \in o + 1 + 1 .. t - 1
          /\ t \in o .. L /\ (t > o + 1 => t > o)
      OBVIOUS
    <3>7. WalkIs(o, t, ended(mtr[o + 1])) BY <3>5, <3>6, <2>3, <1>1 DEF WalkIs
    <3> QED BY <3>1, <3>3, <3>4, <3>7, Zenon DEF Walked
  <2>4. ASSUME o # L, ~closes(Buf[o + 1]), Buf[o + 1] # "part", Buf[o + 1] = "long", o + 2 <= L
        PROVE  Walked(o)
    <3>1. mtr[o] = mtr[o + 2] BY <2>4, <1>1, <1>2 DEF mtrAt
    <3>2. o + 1 \in 1 .. Len(Buf) - 1 /\ o + 1 + 1 = o + 2 BY <2>4, <1>1
    <3>3. Buf[o + 2] = "rest"
      <4>1. Buf[o + 1 + 1] = "rest" BY <3>2, <2>4 DEF Records
      <4> QED BY <4>1, <3>2
    <3>4. ~closes(Buf[o + 2]) BY <3>3 DEF closes
    <3>5. whole(o + 2)
      <4>1. CASE o + 2 = L BY <4>1, <1>1 DEF whole
      <4>2. CASE o + 2 # L
        <5>1. o + 2 \in 1 .. Len(Buf) - 1 BY <4>2, <2>4, <1>1
        <5>2. Buf[o + 2 + 1] # "rest" BY <5>1, <3>3 DEF Records
        <5> QED BY <5>2 DEF whole
      <4> QED BY <4>1, <4>2
    <3>6. Walked(o + 2)
      <4>1. o + 2 \in o + 1 .. L BY <2>4
      <4>2. o + 2 \in P BY <4>1, <1>3
      <4> QED BY <4>2, <3>5
    <3>7. PICK t \in o + 2 .. L : t = mtr[o + 2].to BY <3>6, <1>1 DEF Walked, WalkIs
    <3>8. WalkIs(o + 2, t, ended(mtr[o + 2])) BY <3>6, <3>7 DEF Walked
    <3>9.  /\ \A k \in o + 1 .. L : k = o + 1 \/ k = o + 2 \/ k \in o + 2 + 1 .. L
           /\ \A k \in o + 1 .. t - 1 : k = o + 1 \/ k = o + 2 \/ k \in o + 2 + 1 .. t - 1
           /\ t \in o .. L /\ (t > o + 2 => t > o)
      OBVIOUS
    <3>10. WalkIs(o, t, ended(mtr[o + 2])) BY <3>4, <3>8, <3>9, <2>4, <1>1 DEF WalkIs
    <3> QED BY <3>1, <3>6, <3>7, <3>10, Zenon DEF Walked
  <2>5. ASSUME o # L, ~closes(Buf[o + 1]), Buf[o + 1] # "part", ~(Buf[o + 1] = "long" /\ o + 2 <= L)
        PROVE  Walked(o)
    <3>1. mtr[o] = [to |-> o, err |-> "truncated"] BY <2>5, <1>1, <1>2 DEF mtrAt
    <3>2. o + 1 \in 1 .. Len(Buf) /\ Buf[o + 1] \in Byte BY <2>5, <1>1 DEF Records
    <3>3. Buf[o + 1] = "long" BY <3>2, <2>5, <1>1, <1>3 DEF whole, Byte, closes
    <3>4. o + 1 = L BY <3>3, <2>5
    <3>5. \A k \in o + 1 .. L : k = o + 1 BY <3>4
    <3>6. PICK e : fails(e) /\ mtr[o] = [to |-> o, err |-> e] BY <3>1, Zenon DEF fails
    <3> QED BY <3>5, <3>6, <2>5, <1>1, NoneEnds
  <2> QED BY <2>1, <2>2, <2>3, <2>4, <2>5
<1>4. ASSUME NEW o \in 0 .. L, \A p \in o + 1 .. L : p \in P PROVE o \in P BY <1>1, <1>3, <1>4
<1> HIDE DEF P
<1>5. \A o \in 0 .. L : o \in P BY <1>4, Downward
<1> QED BY <1>1, <1>5 DEF P

\* An mtr that ends does so after it begins.
LEMMA WalkEnds ==
  ASSUME Len(Buf) \in Nat PROVE \A o \in 0 .. Len(Buf) : ended(mtr[o]) => mtr[o].to \in o + 1 .. Len(Buf)
<1> DEFINE Ok(o) == ended(mtr[o]) => mtr[o].to \in o + 1 .. Len(Buf)
           P == {o \in 0 .. Len(Buf) : Ok(o)}
<1>1. PICK L \in Nat : L = Len(Buf) OBVIOUS
<1>2. \A o \in 0 .. L : mtr[o] = mtrAt(mtr, o) BY <1>1, MtrIs
<1>3. ASSUME NEW o \in 0 .. L, NEW t, NEW e, fails(e), mtr[o] = [to |-> t, err |-> e] PROVE Ok(o)
  <2>1. mtr[o].err = e BY <1>3, Fields
  <2>2. e # none BY <1>3, Ends
  <2> QED BY <2>1, <2>2 DEF ended
<1>4. ASSUME NEW o \in 0 .. L, \A p \in o + 1 .. L : p \in P PROVE Ok(o)
  <2>1. CASE o = L
    <3>1. mtr[o] = [to |-> o, err |-> "not terminated"] BY <2>1, <1>1, <1>2 DEF mtrAt
    <3>2. PICK e : fails(e) /\ mtr[o] = [to |-> o, err |-> e] BY <3>1, Zenon DEF fails
    <3> QED BY <3>2, <1>3
  <2>2. CASE o # L /\ closes(Buf[o + 1])
    <3>1. mtr[o] = [to |-> o + 1, err |-> ""] BY <2>2, <1>1, <1>2 DEF mtrAt
    <3>2. PICK e : mtr[o] = [to |-> o + 1, err |-> e] BY <3>1, Zenon
    <3>3. mtr[o].to = o + 1 BY <3>2, Fields
    <3>4. o + 1 \in o + 1 .. L BY <2>2
    <3> QED BY <3>3, <3>4, <1>1
  <2>3. ASSUME o # L, ~closes(Buf[o + 1]), Buf[o + 1] = "part" PROVE Ok(o)
    <3>1. mtr[o] = mtr[o + 1] BY <2>3, <1>1, <1>2 DEF mtrAt
    <3>2. o + 1 \in o + 1 .. L BY <2>3
    <3>3. Ok(o + 1) BY <3>2, <1>4
    <3>4. \A t \in o + 1 + 1 .. L : t \in o + 1 .. L OBVIOUS
    <3> QED BY <3>1, <3>3, <3>4, <1>1
  <2>4. ASSUME o # L, ~closes(Buf[o + 1]), Buf[o + 1] # "part", Buf[o + 1] = "long", o + 2 <= L
        PROVE  Ok(o)
    <3>1. mtr[o] = mtr[o + 2] BY <2>4, <1>1, <1>2 DEF mtrAt
    <3>2. o + 2 \in o + 1 .. L BY <2>4
    <3>3. Ok(o + 2) BY <3>2, <1>4
    <3>4. \A t \in o + 2 + 1 .. L : t \in o + 1 .. L OBVIOUS
    <3> QED BY <3>1, <3>3, <3>4, <1>1
  <2>5. ASSUME o # L, ~closes(Buf[o + 1]), Buf[o + 1] # "part", ~(Buf[o + 1] = "long" /\ o + 2 <= L)
        PROVE  Ok(o)
    <3>1. mtr[o] = [to |-> o, err |-> "truncated"] BY <2>5, <1>1, <1>2 DEF mtrAt
    <3>2. PICK e : fails(e) /\ mtr[o] = [to |-> o, err |-> e] BY <3>1, Zenon DEF fails
    <3> QED BY <3>2, <1>3
  <2> QED BY <2>1, <2>2, <2>3, <2>4, <2>5
<1>5. ASSUME NEW o \in 0 .. L, \A p \in o + 1 .. L : p \in P PROVE o \in P BY <1>1, <1>4, <1>5
<1> HIDE DEF P
<1>6. \A o \in 0 .. L : o \in P BY <1>5, Downward
<1> QED BY <1>1, <1>6 DEF P

\* There is a split as the recursion says.
LEMMA SplitIs ==
  ASSUME Len(Buf) \in Nat
  PROVE  MTRs = split[0] /\ \A o \in 0 .. Len(Buf) : split[o] = splitAt(split, o)
<1> DEFINE L == Len(Buf)
           from0(g, o) == \A x \in o .. L : g[x] = splitAt(g, x)
           P == {o \in 0 .. L : \E g : g = [x \in 0 .. L |-> g[x]] /\ from0(g, o)}
<1>1. MTRs = split[0] BY Zenon DEF MTRs, split, splitAt, ended, none
<1>2. ASSUME NEW o \in 0 .. L, \A p \in o + 1 .. L : p \in P PROVE o \in P
  <2>1. PICK f : o # L => from0(f, o + 1)
    <3>1. CASE o = L BY <3>1
    <3>2. CASE o # L
      <4>1. o + 1 \in P BY <3>2, <1>2
      <4> QED BY <4>1
    <3> QED BY <3>1, <3>2
  <2> DEFINE g == [x \in 0 .. L |-> IF x = o THEN splitAt(f, o) ELSE f[x]]
  <2>2. \A x \in o .. L : \A p \in x + 1 .. L : g[p] = f[p] OBVIOUS
  <2>3. \A x \in o .. L : splitAt(g, x) = splitAt(f, x)
    <3>1. SUFFICES ASSUME NEW x \in o .. L PROVE splitAt(g, x) = splitAt(f, x) OBVIOUS
    <3>2. ended(mtr[x]) => mtr[x].to \in x + 1 .. L BY WalkEnds
    <3>3. ended(mtr[x]) => g[mtr[x].to] = f[mtr[x].to] BY <3>2, <2>2
    <3> HIDE DEF g
    <3> QED BY <3>3, Zenon DEF splitAt
  <2>4. \A x \in o .. L : g[x] = splitAt(g, x)
    <3>1. SUFFICES ASSUME NEW x \in o .. L PROVE g[x] = splitAt(f, x) BY <2>3
    <3>2. CASE x = o BY <3>2
    <3>3. CASE x # o
      <4>1. x \in o + 1 .. L /\ o # L BY <3>3
      <4>2. f[x] = splitAt(f, x) BY <4>1, <2>1
      <4> QED BY <3>3, <4>2
    <3> QED BY <3>2, <3>3
  <2>5. g = [x \in 0 .. L |-> g[x]] OBVIOUS
  <2> HIDE DEF g
  <2> QED BY <2>4, <2>5
<1>3. 0 \in P
  <2>1. 0 \in 0 .. L OBVIOUS
  <2> HIDE DEF P
  <2>2. \A o \in 0 .. L : o \in P BY <1>2, Downward
  <2> QED BY <2>1, <2>2
<1>4. PICK g : g = [x \in 0 .. L |-> g[x]] /\ \A x \in 0 .. L : g[x] = splitAt(g, x) BY <1>3
<1>5. g = [o \in 0 .. L |-> splitAt(g, o)]
  <2>1. [x \in 0 .. L |-> g[x]] = [o \in 0 .. L |-> splitAt(g, o)] BY <1>4
  <2> QED BY <2>1, <1>4
<1>6. split = [o \in 0 .. L |-> splitAt(split, o)] BY <1>5 DEF split
<1>7. PICK f : f = split OBVIOUS
<1>8. f = [o \in 0 .. L |-> splitAt(f, o)] BY <1>6, <1>7
<1>9. \A o \in 0 .. L : f[o] = splitAt(f, o) BY <1>8
<1> QED BY <1>1, <1>7, <1>9
\* The first mtr found and those after it.
LEMMA OneMore ==
  ASSUME Len(Buf) \in Nat, NEW o \in 0 .. Len(Buf) - 1, NEW m \in MTR, m.off = o, Found(m), ended(m),
         NEW s, Splits(s, m.to)
  PROVE  Splits(<<m>> \o s, o)
<1>1. PICK n \in Nat : n = Len(s) BY DEF Splits
<1>2. PICK r : r = <<m>> \o s OBVIOUS
<1>3. s \in Seq(MTR) BY DEF Splits
<1>4. /\ r \in Seq(MTR) /\ Len(r) = n + 1 /\ r # <<>> /\ r[1] = m
      /\ \A i \in 1 .. n + 1 : i # 1 => r[i] = s[i - 1]
  BY <1>1, <1>2, <1>3
<1>5. /\ m.to = Len(Buf) => n = 0
      /\ m.to # Len(Buf) => n > 0 /\ s[1].off = m.to
  BY <1>1, <1>3 DEF Splits
<1>6. \A i \in 1 .. n + 1 : /\ Found(r[i])
                            /\ i > 1 => r[i].off = r[i - 1].to
                            /\ ~ended(r[i]) => i = n + 1
                            /\ i = n + 1 /\ ended(r[i]) => r[i].to = Len(Buf)
  <2>1. SUFFICES ASSUME NEW i \in 1 .. n + 1
                 PROVE  /\ Found(r[i])
                        /\ i > 1 => r[i].off = r[i - 1].to
                        /\ ~ended(r[i]) => i = n + 1
                        /\ i = n + 1 /\ ended(r[i]) => r[i].to = Len(Buf)
    OBVIOUS
  <2>2. CASE i = 1
    <3>1. r[i] = m BY <2>2, <1>4
    <3>2. n = 0 => m.to = Len(Buf) BY <1>5
    <3> QED BY <3>1, <3>2, <2>2
  <2>3. CASE i # 1
    <3>1. i - 1 \in 1 .. n /\ r[i] = s[i - 1] BY <2>3, <1>4
    <3>2. PICK j \in 1 .. n : j = i - 1 BY <3>1
    <3>3. /\ Found(s[j])
          /\ j > 1 => s[j].off = s[j - 1].to
          /\ ~ended(s[j]) => j = n
          /\ j = n /\ ended(s[j]) => s[j].to = Len(Buf)
      BY <1>1 DEF Splits
    <3>4. r[i].off = r[i - 1].to
      <4>1. CASE j = 1
        <5>1. r[i - 1] = m /\ n # 0 BY <4>1, <3>2, <1>4
        <5>2. s[j].off = m.to BY <5>1, <4>1, <1>5
        <5> QED BY <5>1, <5>2, <3>1, <3>2
      <4>2. CASE j # 1
        <5>1. i - 1 \in 1 .. n + 1 /\ i - 1 # 1 /\ (i - 1) - 1 = j - 1 BY <4>2, <3>2
        <5>2. r[i - 1] = s[j - 1] BY <5>1, <1>4
        <5>3. j > 1 BY <4>2
        <5> QED BY <5>2, <5>3, <3>1, <3>2, <3>3
      <4> QED BY <4>1, <4>2
    <3>5. j = n <=> i = n + 1 BY <3>2
    <3> QED BY <3>1, <3>2, <3>3, <3>4, <3>5
  <2> QED BY <2>2, <2>3
<1>7. Splits(r, o)
  <2>1. r # <<>> /\ r[1].off = o BY <1>4
  <2> QED BY <2>1, <1>4, <1>6 DEF Splits
<1> QED BY <1>2, <1>7

\* An mtr that does not end is the last.
LEMMA LastOne ==
  ASSUME Len(Buf) \in Nat, NEW o \in 0 .. Len(Buf) - 1, NEW m \in MTR, m.off = o, Found(m), ~ended(m)
  PROVE  Splits(<<m>> \o <<>>, o)
<1>1. PICK r : r = <<m>> \o <<>> OBVIOUS
<1>2. r \in Seq(MTR) /\ Len(r) = 1 /\ r # <<>> /\ r[1] = m BY <1>1
<1>3. \A i \in 1 .. 1 : i = 1 OBVIOUS
<1>4. Splits(r, o) BY <1>2, <1>3 DEF Splits
<1> QED BY <1>1, <1>4

\* From where an mtr of the log begins, the mtrs of the log are found.
LEMMA SplitOf ==
  ASSUME Records PROVE \A o \in 0 .. Len(Buf) : whole(o) /\ starts(o) => Splits(split[o], o)
<1> DEFINE Ok(o) == whole(o) /\ starts(o) => Splits(split[o], o)
           P == {o \in 0 .. Len(Buf) : Ok(o)}
<1>1. PICK L \in Nat : L = Len(Buf) BY DEF Records
<1>2. \A o \in 0 .. L : split[o] = splitAt(split, o) BY <1>1, SplitIs
<1>3. ASSUME NEW o \in 0 .. L, \A p \in o + 1 .. L : p \in P, whole(o), starts(o)
      PROVE  Splits(split[o], o)
  <2>1. CASE o = L
    <3>1. split[o] = <<>> BY <2>1, <1>1, <1>2 DEF splitAt
    <3>2. <<>> \in Seq(MTR) /\ \A i \in 1 .. Len(<<>>) : FALSE OBVIOUS
    <3>3. Splits(<<>>, o) BY <3>2, <2>1, <1>1 DEF Splits
    <3> QED BY <3>1, <3>3
  <2>2. CASE o # L
    <3>1. Walked(o) BY <1>1, <1>3, WalkOf
    <3>2. PICK t \in o .. L : t = mtr[o].to BY <3>1, <1>1 DEF Walked, WalkIs
    <3>3. PICK e \in errs : e = mtr[o].err BY <3>1 DEF Walked
    <3>4. PICK m : m = [off |-> o, to |-> t, err |-> e] OBVIOUS
    <3>5. m.off = o /\ m.to = t /\ m.err = e BY <3>4, Fields
    <3>6. m \in MTR
      <4>1. o \in Nat /\ t \in Nat OBVIOUS
      <4>2. [off |-> o, to |-> t, err |-> e] \in [off : Nat, to : Nat, err : errs] BY <4>1, Fields
      <4>3. MTR = [off : Nat, to : Nat, err : errs] BY Zenon DEF MTR, errs
      <4> QED BY <4>2, <4>3, <3>4, Zenon
    <3>7. ended(m) = ended(mtr[o]) BY <3>3, <3>5 DEF ended
    <3>8. Found(m)
      <4>1. WalkIs(o, t, ended(mtr[o])) BY <3>1, <3>2 DEF Walked
      <4>2. WalkIs(o, t, ended(m)) BY <4>1, <3>7, Zenon
      <4>3. o \in 0 .. Len(Buf) /\ t \in o .. Len(Buf) BY <1>1
      <4> QED BY <4>2, <4>3, <3>5, <1>3 DEF Found, WalkIs
    <3>9. split[o] = <<m>> \o IF ended(m) THEN split[t] ELSE <<>>
      <4>1. split[o] = splitAt(split, o) BY <1>2
      <4> QED BY <4>1, <2>2, <1>1, <3>2, <3>3, <3>4, <3>7, Zenon DEF splitAt
    <3>10. o \in 0 .. Len(Buf) - 1 BY <2>2, <1>1
    <3>11. CASE ended(m)
      <4>1. t > 0 /\ closes(Buf[t]) /\ t > o
        <5>1. WalkIs(o, t, ended(mtr[o])) BY <3>1, <3>2 DEF Walked
        <5>2. WalkIs(o, t, TRUE) BY <5>1, <3>7, <3>11, Zenon
        <5> QED BY <5>2, <3>8, <3>11, <3>5 DEF Found, WalkIs
      <4>2. starts(t) BY <4>1 DEF starts
      <4>3. whole(t)
        <5>1. CASE t = L BY <5>1, <1>1 DEF whole
        <5>2. CASE t # L
          <6>1. t \in 1 .. Len(Buf) - 1 BY <5>2, <4>1, <1>1
          <6>2. Buf[t] # "long" BY <4>1 DEF closes
          <6>3. Buf[t + 1] # "rest" BY <6>1, <6>2 DEF Records
          <6> QED BY <6>3 DEF whole
        <5> QED BY <5>1, <5>2
      <4>4. t \in o + 1 .. L BY <4>1
      <4>5. Splits(split[t], t) BY <4>4, <4>2, <4>3, <1>3
      <4>6. Splits(<<m>> \o split[t], o)
        <5>1. PICK s : s = split[t] OBVIOUS
        <5>2. Splits(s, m.to) BY <4>5, <5>1, <3>5
        <5>3. Splits(<<m>> \o s, o) BY <5>2, <3>5, <3>6, <3>8, <3>10, <3>11, <1>1, OneMore
        <5> QED BY <5>1, <5>3
      <4> QED BY <4>6, <3>9, <3>11
    <3>12. CASE ~ended(m)
      <4>1. Splits(<<m>> \o <<>>, o) BY <3>5, <3>6, <3>8, <3>10, <3>12, <1>1, LastOne
      <4> QED BY <4>1, <3>9, <3>12
    <3> QED BY <3>11, <3>12
  <2> QED BY <2>1, <2>2
<1>4. ASSUME NEW o \in 0 .. L, \A p \in o + 1 .. L : p \in P PROVE o \in P BY <1>1, <1>3, <1>4
<1> HIDE DEF P
<1>5. \A o \in 0 .. L : o \in P BY <1>4, Downward
<1> QED BY <1>1, <1>5 DEF P
\* A later byte has a higher log sequence number.
LEMMA LsnOrder == \A a, b \in Nat : a < b => lsn(a) < lsn(b)
<1>1. SUFFICES ASSUME NEW a \in Nat, NEW b \in Nat, a < b PROVE lsn(a) < lsn(b) OBVIOUS
<1>2. PICK q \in Nat, j \in 0 .. Fill - 1 : b = q * Fill + j
  <2>1. b \div Fill \in Nat /\ b % Fill \in 0 .. Fill - 1 /\ b = (b \div Fill) * Fill + (b % Fill)
    BY Sizes, DivModOf
  <2> QED BY <2>1, Zenon
<1>3. PICK l \in Nat : l = q * Fill BY Sizes
<1>4. PICK p \in Nat : p = q * BlockSize BY Sizes
<1>5. lsn(b) = p + Hdr + j BY <1>2, <1>4, LsnOfByte
<1>6. CASE a < l
  <2>1. lsn(a) < p /\ lsn(a) \in Nat BY <1>3, <1>4, <1>6, LsnBefore, LsnType
  <2> QED BY <2>1, <1>5, Sizes
<1>7. CASE a >= l
  <2>1. PICK i \in 0 .. Fill - 1 : a = l + i /\ i < j
    <3>1. a - l \in 0 .. Fill - 1 /\ a = l + (a - l) /\ a - l < j BY <1>1, <1>2, <1>3, <1>7, Sizes
    <3> QED BY <3>1
  <2>2. lsn(a) = p + Hdr + i BY <2>1, <1>3, <1>4, LsnOfByte
  <2> QED BY <2>1, <2>2, <1>5, Sizes
<1> QED BY <1>6, <1>7

\* The stream shows the records and the mtrs of the log.
LEMMA StreamRecords ==
  ASSUME IInv, blocks # <<>>
  PROVE  /\ Records /\ base \in Nat /\ Len(Buf) > 0 /\ begins(base)
         /\ \A k \in 1 .. Len(Buf) : begins(base + k) <=> closes(Buf[k])
<1>1. PICK B \in Nat : B = base BY DEF IInv, StreamInv
<1>2. Buf \in Seq(Byte) /\ Buf # <<>> BY DEF IInv, TypeOK, StreamInv
<1>3. PICK n \in Nat : n = Len(Buf) /\ n > 0 BY <1>2
<1>4. log \in Seq(Byte) /\ Len(log) \in Nat /\ written \in Nat /\ written <= Len(log)
  <2>1. written \in 0 .. Len(log) BY Zenon DEF IInv, TypeOK
  <2> QED BY <2>1, LogType
<1>5. \A k \in 1 .. n : B + k \in 1 .. Len(log) /\ Buf[k] = log[B + k]
  <2>1. SUFFICES ASSUME NEW k \in 1 .. n PROVE B + k \in 1 .. Len(log) /\ Buf[k] = log[B + k] OBVIOUS
  <2>2. PICK o \in 0 .. Len(Buf) - 1 : o = k - 1 BY <1>3
  <2>3. B + o < written /\ Buf[o + 1] = log[B + o + 1] BY <1>1 DEF IInv, StreamIsLogged
  <2>4. o + 1 = k /\ B + o + 1 = B + k BY <2>2
  <2> QED BY <2>2, <2>3, <2>4, <1>4
<1>6. \A i \in 1 .. Len(log) : log[i] = "rest" <=> i > 1 /\ log[i - 1] = "long"
  BY RedoScanAssumption DEF IInv, TypeOK
<1>7. begins(B) BY <1>1 DEF IInv, StreamStarts
<1>8. \A k \in 1 .. n : begins(B + k) <=> closes(Buf[k]) BY <1>5 DEF begins, closes
<1>9. whole(0)
  <2>1. B + 1 \in 1 .. Len(log) /\ Buf[1] = log[B + 1] BY <1>3, <1>5
  <2>2. B = 0 \/ log[B] # "long" BY <1>7 DEF begins
  <2>3. ~(B + 1 > 1 /\ log[(B + 1) - 1] = "long") BY <2>2
  <2>4. log[B + 1] # "rest" BY <2>1, <2>3, <1>6
  <2>5. Buf[0 + 1] # "rest" BY <2>1, <2>4
  <2> QED BY <2>5 DEF whole
<1>10. \A i \in 1 .. n - 1 : Buf[i + 1] = "rest" <=> Buf[i] = "long"
  <2>1. SUFFICES ASSUME NEW i \in 1 .. n - 1 PROVE Buf[i + 1] = "rest" <=> Buf[i] = "long" OBVIOUS
  <2>2. i \in 1 .. n /\ i + 1 \in 1 .. n OBVIOUS
  <2>3. Buf[i] = log[B + i] /\ Buf[i + 1] = log[B + (i + 1)] /\ B + (i + 1) \in 1 .. Len(log) BY <2>2, <1>5
  <2>4. B + (i + 1) > 1 /\ (B + (i + 1)) - 1 = B + i OBVIOUS
  <2>5. log[B + (i + 1)] = "rest" <=> log[B + i] = "long" BY <2>3, <2>4, <1>6
  <2> QED BY <2>3, <2>5
<1>11. Records BY <1>2, <1>3, <1>9, <1>10 DEF Records
<1> QED BY <1>1, <1>3, <1>7, <1>8, <1>11

\* The stream ends right after its last byte.
LEMMA Ended ==
  ASSUME IInv, blocks # <<>> PROVE LSN(Len(Buf)) = LSN(Len(Buf) - 1) + 1
<1> DEFINE D == DOMAIN blocks
           before(o) == {i \in D : blocks[i].off <= o}
<1>1. Buf \in Seq(Byte) /\ Buf # <<>> /\ blocks \in Seq(streamBlock) BY DEF IInv, TypeOK, StreamInv
<1>2. PICK n \in Nat : n = Len(Buf) /\ n > 0 BY <1>1
<1>3. PICK c \in Nat : c = Len(blocks) /\ c > 0 /\ D = 1 .. c BY <1>1
<1>4. \A i \in 1 .. c : blocks[i].off \in Nat /\ blocks[i].off < n /\ blocks[i].lsn \in Nat
  <2>1. SUFFICES ASSUME NEW i \in 1 .. c
                 PROVE  blocks[i].off \in Nat /\ blocks[i].off < n /\ blocks[i].lsn \in Nat
    OBVIOUS
  <2>2. blocks[i] \in streamBlock BY <1>1, <1>3
  <2>3. blocks[i].off < n BY <1>2, <1>3 DEF IInv, StreamInv
  <2> QED BY <2>2, <2>3 DEF streamBlock
<1>5. /\ {i \in 1 .. Len(blocks) : blocks[i].off <= n} = 1 .. c
      /\ {i \in 1 .. Len(blocks) : blocks[i].off <= n - 1} = 1 .. c
  BY <1>3, <1>4
<1>6. 1 .. c # {} BY <1>3
<1>7. PICK m : m = Max(1 .. c) OBVIOUS
<1>8. m \in 1 .. c
  <2>1. 1 .. c \in SUBSET (0 .. c) BY <1>3
  <2> QED BY <2>1, <1>6, <1>7, GreatestOf
<1>9. /\ LSN(n) = blocks[m].lsn + n - blocks[m].off
      /\ LSN(n - 1) = blocks[m].lsn + (n - 1) - blocks[m].off
  BY <1>5, <1>6, <1>7 DEF LSN
<1> QED BY <1>2, <1>4, <1>8, <1>9

\* What is logged at or after the end of the stream's first o bytes is
\* what follows them.
LEMMA InOrder == ASSUME IInv, blocks # <<>> PROVE EndsInOrder
<1>1. PICK B \in Nat : B = base BY DEF IInv, StreamInv
<1>2. Buf \in Seq(Byte) /\ Buf # <<>> BY DEF IInv, TypeOK, StreamInv
<1>3. PICK n \in Nat : n = Len(Buf) /\ n > 0 BY <1>2
<1>4. Len(log) \in Nat BY LogType
<1>5. \A o \in 0 .. n - 1 : LSN(o) = lsn(B + o) BY <1>1, <1>3 DEF IInv, StreamIsLogged
<1>6. \A a \in Nat : lsn(a) \in Nat BY LsnType
<1>7. ASSUME NEW a \in Nat, NEW b \in Nat PROVE (lsn(a) >= lsn(b) <=> a >= b) /\ (lsn(a) > lsn(b) <=> a > b)
  <2>1. a < b => lsn(a) < lsn(b) BY LsnOrder
  <2>2. b < a => lsn(b) < lsn(a) BY LsnOrder
  <2>3. a = b => lsn(a) = lsn(b) OBVIOUS
  <2>4. PICK x \in Nat, y \in Nat : x = lsn(a) /\ y = lsn(b) BY <1>6
  <2> QED BY <2>1, <2>2, <2>3, <2>4
<1>8. ASSUME NEW o \in 1 .. n, NEW k \in 0 .. Len(log) PROVE lsn(k) >= LSN(o) <=> k >= B + o
  <2>1. k \in Nat BY <1>4
  <2>2. CASE o < n
    <3>1. LSN(o) = lsn(B + o) /\ B + o \in Nat BY <2>2, <1>5
    <3> QED BY <3>1, <2>1, <1>7
  <2>3. CASE o = n
    <3>1. LSN(o) = LSN(n - 1) + 1 BY <2>3, <1>3, Ended
    <3>2. PICK p \in Nat : p = B + (n - 1) BY <1>3
    <3>3. LSN(n - 1) = lsn(p) BY <3>2, <1>3, <1>5
    <3>4. lsn(k) > lsn(p) <=> k > p BY <2>1, <1>7
    <3>5. k > p <=> k >= B + o BY <2>1, <2>3, <3>2
    <3>6. PICK x \in Nat, y \in Nat : x = lsn(k) /\ y = lsn(p) BY <1>6, <2>1
    <3> QED BY <3>1, <3>3, <3>4, <3>5, <3>6
  <2> QED BY <2>2, <2>3
<1> QED BY <1>1, <1>3, <1>8 DEF EndsInOrder

\* The invariant says what the split finds.
LEMMA MtrsOf == ASSUME IInv PROVE MtrsAreLogged
<1>1. SUFFICES ASSUME phase = "done" PROVE MtrsAreLogged BY DEF MtrsAreLogged
<1>2. blocks # <<>> BY <1>1 DEF IInv, TypeOK
<1>3. Records /\ begins(base) /\ \A k \in 1 .. Len(Buf) : begins(base + k) <=> closes(Buf[k])
  BY <1>2, StreamRecords
<1>4. PICK B \in Nat : B = base BY <1>2, StreamRecords
<1>5. PICK n \in Nat : n = Len(Buf) /\ n > 0 BY <1>2, <1>3, StreamRecords DEF Records
<1>6. PICK s : s = MTRs OBVIOUS
<1>7. Splits(s, 0)
  <2>1. 0 \in 0 .. Len(Buf) /\ whole(0) /\ starts(0) BY <1>3, <1>5 DEF Records, starts
  <2>2. Splits(split[0], 0) BY <2>1, <1>3, SplitOf
  <2> QED BY <2>2, <1>5, <1>6, SplitIs
<1>8. s # <<>> /\ s[1].off = 0 BY <1>5, <1>7 DEF Splits
<1>9. ASSUME NEW i \in 1 .. Len(s)
      PROVE  /\ s[i].off = IF i = 1 THEN 0 ELSE s[i - 1].to
             /\ begins(base + s[i].off)
             /\ {k \in 1 .. Len(Buf) - 1 : begins(base + k)} \cap (s[i].off + 1 .. s[i].to - 1) = {}
             /\ IF ended(s[i]) THEN begins(base + s[i].to)
                ELSE i = Len(s) /\ \A k \in s[i].off + 1 .. Len(Buf) : ~begins(base + k)
             /\ i = Len(s) /\ ended(s[i]) => s[i].to = Len(Buf)
  <2>1. PICK m : m = s[i] OBVIOUS
  <2>2. Found(m) BY <2>1, <1>7 DEF Splits
  <2>3. PICK o \in 0 .. n : o = m.off BY <2>2, <1>5 DEF Found
  <2>4. PICK t \in o .. n : t = m.to BY <2>2, <2>3, <1>5 DEF Found
  <2>5. s[i].off = IF i = 1 THEN 0 ELSE s[i - 1].to
    <3>1. Len(s) \in Nat BY <1>7 DEF Splits
    <3>2. i > 1 => s[i].off = s[i - 1].to BY <1>7 DEF Splits
    <3>3. i = 1 \/ i > 1 BY <3>1
    <3> QED BY <3>2, <3>3, <1>8
  <2>6. begins(B + o)
    <3>1. o = 0 \/ closes(Buf[o]) BY <2>2, <2>3 DEF Found, starts
    <3>2. CASE o = 0 BY <3>2, <1>3, <1>4
    <3>3. CASE o # 0
      <4>1. o \in 1 .. Len(Buf) BY <3>3, <1>5
      <4> QED BY <4>1, <3>1, <3>3, <1>3, <1>4
    <3> QED BY <3>2, <3>3
  <2>7. \A k \in 1 .. n - 1 : begins(B + k) => k \notin o + 1 .. t - 1
    <3>1. \A k \in o + 1 .. t - 1 : ~closes(Buf[k]) BY <2>2, <2>3, <2>4 DEF Found
    <3>2. \A k \in 1 .. n - 1 : k \in 1 .. Len(Buf) BY <1>5
    <3> QED BY <3>1, <3>2, <1>3, <1>4
  <2>8. ended(m) => begins(B + t)
    <3>1. ended(m) => t > 0 /\ closes(Buf[t]) BY <2>2, <2>4 DEF Found
    <3>2. t > 0 => t \in 1 .. Len(Buf) BY <1>5
    <3> QED BY <3>1, <3>2, <1>3, <1>4
  <2>9. ~ended(m) => i = Len(s) /\ \A k \in o + 1 .. n : ~begins(B + k)
    <3>1. ~ended(m) => i = Len(s) BY <2>1, <1>7 DEF Splits
    <3>2. ~ended(m) => \A k \in o + 1 .. n : ~closes(Buf[k]) BY <2>2, <2>3, <1>5 DEF Found
    <3>3. \A k \in o + 1 .. n : k \in 1 .. Len(Buf) BY <1>5
    <3> QED BY <3>1, <3>2, <3>3, <1>3, <1>4
  <2>10. i = Len(s) /\ ended(m) => t = n BY <2>1, <2>4, <1>5, <1>7 DEF Splits
  <2> QED BY <2>1, <2>3, <2>4, <2>5, <2>6, <2>7, <2>8, <2>9, <2>10, <1>4, <1>5
<1>10. EndsInOrder BY <1>2, InOrder
<1> QED BY <1>6, <1>9, <1>10, Zenon DEF MtrsAreLogged, ended, none

-----------------------------------------------------------------------------
(* The whole.                                                              *)

LEMMA InitInv == ASSUME Init PROVE IInv
<1>1. /\ log \in Logs /\ written = 0 /\ ckpt = lsn(0)
      /\ phase = "idle" /\ todo = {} /\ opening = None
      /\ Files = {} /\ CheckpointLSN = 0
      /\ blockLSN = 0 /\ StartLSN = 0 /\ blocks = <<>> /\ Buf = <<>> /\ Stop = "" /\ known = 0
  BY DEF Init
<1>2. PICK i \in Inode :
        file = [j \in Inode |->
          [live |-> j = i, start |-> 0, slots |-> [s \in {1, 2} |-> IF j = i /\ s = 1 THEN lsn(0) ELSE 0],
           blk |-> [b \in 0 .. FileLen - 1 |-> None]]]
  BY DEF Init
<1>3. lsn(0) \in Nat BY LsnType
<1>4. log \in Seq(Byte) /\ Len(log) \in Nat
  <2>1. log \in Seq(Byte) BY <1>1, RedoScanAssumption
  <2> QED BY <2>1
<1>5. ASSUME NEW j \in Inode PROVE file[j] \in File
  <2>1. [s \in {1, 2} |-> IF j = i /\ s = 1 THEN lsn(0) ELSE 0] \in Slots BY <1>3 DEF Slots
  <2>2. [b \in 0 .. FileLen - 1 |-> None] \in [0 .. FileLen - 1 -> Block \cup {None}] OBVIOUS
  <2>3. (j = i) \in BOOLEAN OBVIOUS
  <2> QED BY <2>1, <2>2, <2>3, <1>2 DEF File
<1>6. file \in [Inode -> File] BY <1>2, <1>5
<1>7. TypeOK
  <2>1. blocks \in Seq(streamBlock) /\ Buf \in Seq(Byte) /\ Files \subseteq RedoFile
    <3>1. blocks = <<>> /\ Buf = <<>> /\ Files = {} BY <1>1
    <3>2. <<>> \in Seq(streamBlock) /\ <<>> \in Seq(Byte) OBVIOUS
    <3> QED BY <3>1, <3>2, Zenon
  <2>2. written \in 0 .. Len(log) /\ known \in 0 .. Len(log)
    <3>1. written = 0 /\ known = 0 BY <1>1
    <3> QED BY <3>1, <1>4
  <2>3. ckpt \in Nat BY <1>1, <1>3
  <2> QED BY <1>1, <1>6, <2>1, <2>2, <2>3 DEF TypeOK
<1>8. FileInv
  <2>1. file[i].live /\ file[i].start = 0 BY <1>2
  <2>2. blockOf(ckpt) = 0
    <3>1. 0 \in 0 .. Fill - 1 /\ 0 * Fill + 0 = 0 /\ 0 * BlockSize + Hdr + 0 = Hdr BY Sizes
    <3>2. lsn(0 * Fill + 0) = 0 * BlockSize + Hdr + 0 BY <3>1, LsnOfByte
    <3>3. lsn(0) = Hdr BY <3>1, <3>2
    <3>4. Hdr \in 0 .. BlockSize - 1 /\ 0 * BlockSize + Hdr = Hdr BY Sizes
    <3>5. blockOf(0 * BlockSize + Hdr) = 0 BY <3>4, BlockOfLsn
    <3> QED BY <3>3, <3>4, <3>5, <1>1
  <2>3. covers(file[i], blockOf(ckpt)) BY <2>1, <2>2, RedoScanAssumption DEF covers
  <2>4. \A j \in Inode, s \in 0 .. FileLen - 1 : file[j].blk[s] = None BY <1>2
  <2> QED BY <2>1, <2>3, <2>4 DEF FileInv
<1>9. StreamInv
  <2>1. IsFiniteSet(Files) BY <1>1, FS_EmptySet
  <2>2. phase = "idle" /\ blocks = <<>> /\ Buf = <<>> BY <1>1
  <2>3. DOMAIN blocks = {} BY <2>2
  <2> QED BY <2>1, <2>2, <2>3 DEF StreamInv
<1>10. StreamIsLogged
  <2>1. Len(Buf) = 0 BY <1>1
  <2> QED BY <2>1 DEF StreamIsLogged
<1>11. StreamStarts BY <1>1 DEF StreamStarts
<1> QED BY <1>7, <1>8, <1>9, <1>10, <1>11 DEF IInv

LEMMA NextInv == ASSUME IInv, [Next]_vars PROVE IInv'
<1>1. CASE Next
  BY <1>1, ServerInv, ReadDirInv, OpenFileInv, ReadHeaderInv, ChooseInv, StopAtInv, ScanBlockInv
  DEF Next, loadRedo
<1>2. CASE UNCHANGED vars
  <2>1. UNCHANGED <<log, phase, todo, opening, redo, stream, known, written, file, ckpt>>
    BY <1>2 DEF vars, server
  <2>2. ServerOK' BY <2>1 DEF IInv, TypeOK, ServerOK
  <2>3. FileInv' BY <2>1 DEF IInv, FileInv, first, covers, blockOf
  <2>4. written <= written' BY <2>1, LogType
  <2> QED BY <2>1, <2>2, <2>3, <2>4, ServerKeeps
<1> QED BY <1>1, <1>2

LEMMA InitTail == ASSUME Init PROVE TailInv
<1>1. /\ written = 0 /\ ckpt = lsn(0) /\ phase = "idle" /\ todo = {} /\ opening = None
      /\ Files = {} /\ Stop = "" /\ known = 0
  BY DEF Init
<1>2. PICK i \in Inode :
        file = [j \in Inode |->
          [live |-> j = i, start |-> 0, slots |-> [s \in {1, 2} |-> IF j = i /\ s = 1 THEN lsn(0) ELSE 0],
           blk |-> [b \in 0 .. FileLen - 1 |-> None]]]
  BY DEF Init
<1>3. \A j \in Inode : file[j].start = 0 /\ (file[j].live <=> j = i) BY <1>2
<1>4. blockOf(ckpt) = 0 /\ ckpt > 0
  <2>1. 0 \div Fill = 0
    <3>1. 0 \in 0 .. Fill - 1 /\ 0 * Fill + 0 = 0 BY Sizes
    <3>2. (0 * Fill + 0) \div Fill = 0 BY <3>1, Sizes, DivMod
    <3> QED BY <3>1, <3>2
  <2> QED BY <2>1, <1>1, BlockOfByte
<1>5. line(0) = 0 /\ \A n \in Nat : ~(line(n) < written)
  <2>1. line(0) = 0 BY Sizes DEF line
  <2>2. ASSUME NEW n \in Nat PROVE ~(line(n) < written)
    <3>1. line(n) \in Nat BY Lines
    <3>2. written = 0 BY <1>1
    <3> QED BY <3>1, <3>2
  <2> QED BY <2>1, <2>2
<1>6. covers(file[i], 0) /\ file[i].slots[1] = ckpt
  <2>1. covers(file[i], 0) BY <1>3, RedoScanAssumption DEF covers
  <2>2. file[i].slots = [s \in {1, 2} |-> IF i = i /\ s = 1 THEN lsn(0) ELSE 0] BY <1>2
  <2>3. file[i].slots[1] = lsn(0) BY <2>2
  <2> QED BY <2>1, <2>3, <1>1
<1>7. LiveInv
  <2>1. written <= line(file[i].start + FileLen)
    <3>1. file[i].start + FileLen \in Nat BY <1>3, RedoScanAssumption
    <3>2. line(file[i].start + FileLen) \in Nat BY <3>1, Lines
    <3>3. written = 0 BY <1>1
    <3> QED BY <3>2, <3>3
  <2>2. line(blockOf(ckpt)) <= written
    <3>1. written = 0 BY <1>1
    <3> QED BY <3>1, <1>4, <1>5
  <2> QED BY <2>1, <2>2, <1>3, <1>4, <1>5, <1>6 DEF LiveInv
<1>8. HeldInv
  <2>1. ASSUME NEW j \in Inode PROVE Held(j)
    <3>1. \A t \in 0 .. FileLen - 1 : file[j].start + t \in Nat BY <1>3
    <3> QED BY <3>1, <1>5 DEF Held
  <2>2. \A j \in Inode : line(file[j].start + FileLen) <= written \/ file[j].live \/ ~used(j)
    BY <1>1 DEF used
  <2> QED BY <2>1, <2>2 DEF HeldInv
<1>9. Names = {} BY <1>1 DEF Names
<1>10. NameInv
  <2>1. known <= written
    <3>1. known = 0 /\ written = 0 BY <1>1
    <3> QED BY <3>1
  <2>2. opening = None /\ Files = {} /\ Stop = "" BY <1>1
  <2> QED BY <2>1, <2>2, <1>9 DEF NameInv
<1>11. OpenInv /\ ScanInv /\ ReachesTail BY <1>1 DEF OpenInv, ScanInv, ReachesTail
<1> QED BY <1>7, <1>8, <1>10, <1>11 DEF TailInv

LEMMA NextTail == ASSUME IInv, TailInv, [Next]_vars PROVE TailInv'
<1>1. CASE Server
  <2>1. phase \notin {"done", "failed"} BY <1>1 DEF Server
  <2> QED BY <2>1, <1>1, WriteTail, CheckpointTail, RecycleTail, NewFileTail DEF Server
<1>2. CASE loadRedo
  BY <1>2, ReadDirTail, OpenFileTail, ReadHeaderTail, ChooseTail, StopAtTail, ScanBlockTail DEF loadRedo
<1>3. CASE UNCHANGED vars
  <2>1. /\ UNCHANGED <<log, written, ckpt, file, phase, todo, opening, Files, CheckpointLSN>>
        /\ UNCHANGED <<blockLSN, StartLSN, blocks, Buf, Stop, known, server>>
    BY <1>3 DEF vars, server, redo, stream
  <2>2. LiveInv' /\ HeldInv' BY <2>1, ServerSame DEF used
  <2>3. Names' = Names BY <2>1 DEF Names
  <2>4. NameInv' BY <2>1, <2>3 DEF TailInv, NameInv
  <2>5. OpenInv'
    <3>1. \A c, m : Listed(c, m) => Listed(c, m)' BY <2>1, <2>3 DEF Listed
    <3> QED BY <3>1, <2>1, <2>3 DEF TailInv, OpenInv
  <2>6. ScanInv' BY <2>1 DEF TailInv, ScanInv, NamesHeld
  <2>7. ReachesTail'
    <3>1. base' = base BY <2>1 DEF base, byteAt
    <3> QED BY <3>1, <2>1 DEF TailInv, ReachesTail, begins
  <2> QED BY <2>2, <2>4, <2>5, <2>6, <2>7 DEF TailInv
<1> QED BY <1>1, <1>2, <1>3 DEF Next

\* The scan stays in step with the blocks it has read, in every state.
THEOREM Invariant == Spec => []IInv
<1>1. Init => IInv BY InitInv
<1>2. IInv /\ [Next]_vars => IInv' BY NextInv
<1> QED BY <1>1, <1>2, PTL DEF Spec

\* Every variable keeps its type, and OpenRedo and Scan return no stream without data.
THEOREM TypeCorrect == Spec => []TypeOK
<1>1. IInv => TypeOK BY DEF IInv
<1> QED BY <1>1, Invariant, PTL

\* LogStream is a run of the log without a gap and its LSN says where each byte was,
\* whichever blocks are overwritten and whichever files recycled while Scan reads.
THEOREM StreamIsARunOfTheLog == Spec => []StreamIsLogged
<1>1. IInv => StreamIsLogged BY DEF IInv
<1> QED BY <1>1, Invariant, PTL

\* The stream starts with an mtr, and Scan leaves out none that begins at or after
\* the checkpoint: first-record-group offsets are enough to find it.
THEOREM StreamBeginsAtTheCheckpoint == Spec => []StreamStarts
<1>1. IInv => StreamStarts BY DEF IInv
<1> QED BY <1>1, Invariant, PTL

\* The files the scan has open hold the log from a checkpoint on to where it ended
\* when their names were read, until one of them is taken for another.
THEOREM TailInvariant == Spec => [](IInv /\ TailInv)
<1>1. Init => IInv /\ TailInv BY InitInv, InitTail
<1>2. IInv /\ TailInv /\ [Next]_vars => IInv' /\ TailInv' BY NextInv, NextTail
<1> QED BY <1>1, <1>2, PTL DEF Spec

\* The scan returns what was in the files when it began, whatever is written, made a
\* checkpoint of and recycled meanwhile, as long as every file opened keeps its name
\* and no block is caught while it is written.
THEOREM ScanReachesTheTail == Spec => []ReachesTail
<1>1. TailInv => ReachesTail BY DEF TailInv
<1> QED BY <1>1, TailInvariant, PTL

\* MTRs splits the stream into the mini-transactions that were logged, each where it
\* was, and only the last may lack its end; the end of each orders with the records
\* of the log as their bytes do.
THEOREM MtrsAreTheLoggedOnes == Spec => []MtrsAreLogged
<1>1. Spec => []IInv BY Invariant
<1>2. IInv => MtrsAreLogged BY MtrsOf
<1> QED BY <1>1, <1>2, PTL
=============================================================================
