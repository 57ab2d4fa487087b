----------------------------- MODULE AtomProofs ------------------------------
(***************************************************************************)
(* Proofs about Atom, for any processes, bytes, block size and file below  *)
(* the size at which block numbers wrap round.                             *)
(*                                                                         *)
(* The inductive invariant IInv adds to the types who may have the file    *)
(* open beside whom (LockInv), where the rest of a write falls (WriteInv), *)
(* and that what an awrite has added to the file reads as zeros (TailInv), *)
(* which makes cutting it off again a step that nobody can see.            *)
(*                                                                         *)
(* What aread gives is shown turn by turn of its loop: the blocks it goes  *)
(* through follow one another and end with what was asked for (PartIs),    *)
(* and what it takes from each is what the process has there (PartReads).  *)
(* SizeInv, that the file ends before any block behind all that can be     *)
(* written, keeps the numbers of these blocks from wrapping round.         *)
(***************************************************************************)
EXTENDS Atom, WellFoundedInduction, TLAPS

\* What can be read at k: zeros past the end.
ByteAt(d, k) == IF k < Len(d) THEN d[k + 1] ELSE 0

Writer(p) == af[p].pc \in {"open", "write", "close"}

AfileType(a) == DOMAIN a = {"pc", "file_size", "dirty", "req"} /\ AfileOK(a)

Types == disk \in Seq(Byte) /\ DOMAIN af = Procs /\ \A p \in Procs : AfileType(af[p])

\* Who has the exclusive lock is alone; who has not has changed nothing.
LockInv == \A p \in Procs : /\ Writer(p) => \A q \in Procs : q # p => Unlocked(q)
                            /\ ~Writer(p) => DOMAIN af[p].dirty = {}

WriteInv == \A p \in Procs : af[p].pc = "write" =>
               af[p].req.left > 0 /\ af[p].req.pos + af[p].req.left <= MaxSize

TailInv == \A p \in Procs : af[p].pc \in {"open", "write"} =>
              \A k \in Nat : k >= af[p].file_size => ByteAt(disk, k) = 0

IInv == Types /\ LockInv /\ WriteInv /\ TailInv /\ EitherEndHasRoom

-----------------------------------------------------------------------------
(* Positions and blocks                                                    *)

\* A position is in one block, at one offset.
LEMMA PosInBlock ==
  ASSUME NEW k \in Nat
  PROVE  /\ k \div ABLOCKSIZE \in Nat /\ k % ABLOCKSIZE \in 0 .. ABLOCKSIZE - 1
         /\ k = (k \div ABLOCKSIZE) * ABLOCKSIZE + (k % ABLOCKSIZE)
<1> DEFINE B == ABLOCKSIZE
<1>1. B \in Nat /\ B > 0
  BY SizesAssumption
<1> HIDE DEF B
<1>2. /\ k \div B \in Nat /\ k % B \in 0 .. B - 1
      /\ k = (k \div B) * B + (k % B)
  BY <1>1
<1> QED
  BY <1>2 DEF B

\* The block and the offset of a position are the only ones it has.
LEMMA BlockOfPos ==
  ASSUME NEW b \in Nat, NEW i \in 0 .. ABLOCKSIZE - 1, NEW k \in Nat, k = b * ABLOCKSIZE + i
  PROVE  k \div ABLOCKSIZE = b /\ k % ABLOCKSIZE = i
<1> DEFINE B == ABLOCKSIZE
           q == k \div ABLOCKSIZE
           r == k % ABLOCKSIZE
<1>1. B \in Nat /\ B > 0
  BY SizesAssumption
<1>2. q \in Nat /\ r \in 0 .. B - 1 /\ k = q * B + r
  BY PosInBlock
<1>3. i \in 0 .. B - 1 /\ k = b * B + i
  OBVIOUS
<1> HIDE DEF B, q, r
<1>4. ~(q < b)
  <2>1. ASSUME q < b PROVE FALSE
    <3>1. q + 1 <= b
      BY <1>2, <2>1
    <3>2. (q + 1) * B <= b * B
      BY <1>1, <1>2, <3>1
    <3>3. (q + 1) * B = q * B + B
      BY <1>1, <1>2
    <3>4. q * B \in Nat /\ b * B \in Nat
      BY <1>1, <1>2
    <3> QED
      BY <1>1, <1>2, <1>3, <3>2, <3>3, <3>4
  <2> QED
    BY <2>1
<1>5. ~(q > b)
  <2>1. ASSUME q > b PROVE FALSE
    <3>1. b + 1 <= q
      BY <1>2, <2>1
    <3>2. (b + 1) * B <= q * B
      BY <1>1, <1>2, <3>1
    <3>3. (b + 1) * B = b * B + B
      BY <1>1
    <3>4. q * B \in Nat /\ b * B \in Nat
      BY <1>1, <1>2
    <3> QED
      BY <1>1, <1>2, <1>3, <3>2, <3>3, <3>4
  <2> QED
    BY <2>1
<1>6. q = b
  BY <1>2, <1>4, <1>5
<1> QED
  BY <1>1, <1>2, <1>3, <1>6 DEF q, r

\* A block ends before a position in a later one.
LEMMA InBlock ==
  ASSUME NEW b \in Nat, NEW k \in Nat
  PROVE  /\ (b + 1) * ABLOCKSIZE \in Nat
         /\ k \div ABLOCKSIZE = b => k < (b + 1) * ABLOCKSIZE
         /\ k \div ABLOCKSIZE <= b => k < (b + 1) * ABLOCKSIZE
<1> DEFINE B == ABLOCKSIZE
           q == k \div ABLOCKSIZE
           r == k % ABLOCKSIZE
<1>1. B \in Nat /\ B > 0
  BY SizesAssumption
<1>2. q \in Nat /\ r \in 0 .. B - 1 /\ k = q * B + r
  BY PosInBlock
<1> HIDE DEF B, q, r
<1>3. (b + 1) * B \in Nat
  BY <1>1
<1>4. ASSUME q <= b PROVE k < (b + 1) * B
  <2>1. q * B <= b * B
    BY <1>1, <1>2, <1>4
  <2>2. (b + 1) * B = b * B + B
    BY <1>1
  <2>3. q * B \in Nat /\ b * B \in Nat
    BY <1>1, <1>2
  <2> QED
    BY <1>1, <1>2, <2>1, <2>2, <2>3
<1> QED
  BY <1>2, <1>3, <1>4 DEF B, q

\* Below the size where block numbers wrap round, block_num is the number of the block.
LEMMA NoWrap ==
  ASSUME NEW pos \in Nat, pos < MaxSize
  PROVE  BlockOf(pos) = pos \div ABLOCKSIZE /\ BlockOf(pos) \in 0 .. BlockNums - 1
<1> DEFINE B == ABLOCKSIZE
           q == pos \div ABLOCKSIZE
           N == BlockNums
<1>1. B \in Nat /\ B > 0 /\ N \in Nat /\ N > 0 /\ MaxSize \in Nat
  BY SizesAssumption
<1>2. q \in Nat /\ q * B <= pos
  <2>1. q \in Nat /\ pos % B \in 0 .. B - 1 /\ pos = q * B + (pos % B)
    BY PosInBlock
  <2>2. q * B \in Nat
    BY <1>1, <2>1
  <2> QED
    BY <1>1, <2>1, <2>2
<1>3. MaxSize <= (N - 1) * B
  BY BelowWrap
<1> HIDE DEF B, q, N
<1>4. q < N
  <2>1. ASSUME N <= q PROVE FALSE
    <3>1. (N - 1) * B <= q * B
      BY <1>1, <1>2, <2>1
    <3>2. q * B \in Nat /\ (N - 1) * B \in Nat
      BY <1>1, <1>2
    <3> QED
      BY <1>1, <1>2, <1>3, <3>1, <3>2
  <2> QED
    BY <1>1, <1>2, <2>1
<1>5. q % N = q
  BY <1>1, <1>2, <1>4
<1> QED
  BY <1>1, <1>2, <1>4, <1>5 DEF BlockOf, q, N

-----------------------------------------------------------------------------
(* Reading and writing the file                                            *)

\* A byte of the file.
LEMMA ByteThere ==
  ASSUME NEW d \in Seq(Byte), NEW k \in Nat
  PROVE  ByteAt(d, k) \in Byte
  BY DEF ByteAt, Byte

\* The longer of two files.
LEMMA MaxOfTwo ==
  ASSUME NEW a \in Nat, NEW b \in Nat
  PROVE  Max({a, b}) = IF a >= b THEN a ELSE b
  BY DEF Max

\* read gives the block, with zeros past the end.
LEMMA BlockRead ==
  ASSUME disk \in Seq(Byte), NEW b \in Nat
  PROVE  /\ ReadBlock(b) \in Block
         /\ \A k \in Nat : k \div ABLOCKSIZE = b =>
               ReadBlock(b)[k % ABLOCKSIZE] = ByteAt(disk, k)
<1> DEFINE B == ABLOCKSIZE
           Pos(i) == b * B + i
<1>1. B \in Nat /\ B > 0 /\ Len(disk) \in Nat
  BY SizesAssumption
<1>2. ASSUME NEW i \in 0 .. B - 1
      PROVE  Pos(i) \in Nat /\ ReadBlock(b)[i] = ByteAt(disk, Pos(i))
  <2>1. b * B \in Nat
    BY <1>1
  <2>2. ReadBlock(b)[i] = LET k == b * B + i + 1 IN IF k <= Len(disk) THEN disk[k] ELSE 0
    BY DEF ReadBlock
  <2> HIDE DEF B
  <2>3. /\ Pos(i) \in Nat /\ Pos(i) + 1 = b * B + i + 1
        /\ Pos(i) < Len(disk) <=> b * B + i + 1 <= Len(disk)
    BY <1>1, <2>1
  <2> HIDE DEF Pos
  <2> QED
    BY <2>2, <2>3 DEF ByteAt
<1>3. ReadBlock(b) = [i \in 0 .. B - 1 |-> ReadBlock(b)[i]]
  BY DEF ReadBlock
<1>4. \A i \in 0 .. B - 1 : ReadBlock(b)[i] \in Byte
  BY <1>2, ByteThere
<1>5. ReadBlock(b) \in Block
  BY <1>3, <1>4 DEF Block
<1>6. ASSUME NEW k \in Nat, k \div B = b PROVE ReadBlock(b)[k % B] = ByteAt(disk, k)
  <2>1. k % B \in 0 .. B - 1 /\ k = Pos(k % B)
    BY <1>6, PosInBlock
  <2> HIDE DEF Pos, B
  <2> QED
    BY <1>2, <2>1
<1> QED
  BY <1>5, <1>6

\* write changes the bytes of one block, and makes the file long enough for it.
LEMMA BlockWritten ==
  ASSUME disk \in Seq(Byte), NEW b \in Nat, NEW blk \in Block
  PROVE  LET d == WriteBlock(b, blk)
         IN  /\ d \in Seq(Byte) /\ Len(d) \in Nat
             /\ Len(d) >= Len(disk) /\ Len(d) >= (b + 1) * ABLOCKSIZE
             /\ Len(d) = Len(disk) \/ Len(d) = (b + 1) * ABLOCKSIZE
             /\ \A k \in Nat : ByteAt(d, k) = IF k \div ABLOCKSIZE = b THEN blk[k % ABLOCKSIZE]
                                              ELSE ByteAt(disk, k)
<1> DEFINE B == ABLOCKSIZE
           e == (b + 1) * ABLOCKSIZE
           L == IF Len(disk) >= e THEN Len(disk) ELSE e
           d == WriteBlock(b, blk)
           new(k) == IF k \div B = b THEN blk[k % B] ELSE ByteAt(disk, k)
<1>1. B \in Nat /\ B > 0 /\ Len(disk) \in Nat /\ e \in Nat
  BY SizesAssumption, InBlock
<1>2. Max({Len(disk), e}) = L
  BY <1>1, MaxOfTwo
<1>3. d = [k \in 1 .. L |-> IF (k - 1) \div B = b THEN blk[(k - 1) % B]
                            ELSE IF k <= Len(disk) THEN disk[k] ELSE 0]
  BY <1>2 DEF WriteBlock
<1> HIDE DEF d
<1>4. L \in Nat /\ L >= Len(disk) /\ L >= e /\ (L = Len(disk) \/ L = e)
  BY <1>1
<1>5. \A k \in Nat : k \div B = b => k < e
  BY InBlock
<1>6. \A k \in Nat : new(k) \in Byte
  <2> SUFFICES ASSUME NEW k \in Nat PROVE new(k) \in Byte
    OBVIOUS
  <2>1. k % B \in 0 .. B - 1
    BY PosInBlock
  <2>2. blk[k % B] \in Byte
    BY <2>1 DEF Block
  <2> QED
    BY <2>2, ByteThere
<1> HIDE DEF L, e
<1>7. \A k \in Nat : k < L => d[k + 1] = new(k)
  <2> SUFFICES ASSUME NEW k \in Nat, k < L PROVE d[k + 1] = new(k)
    OBVIOUS
  <2>1. k + 1 \in 1 .. L /\ k + 1 - 1 = k /\ (k + 1 <= Len(disk) <=> k < Len(disk))
    BY <1>1, <1>4
  <2>2. d[k + 1] = IF k \div B = b THEN blk[k % B]
                   ELSE IF k + 1 <= Len(disk) THEN disk[k + 1] ELSE 0
    BY <1>3, <2>1
  <2> QED
    BY <2>1, <2>2 DEF ByteAt
<1>8. d \in Seq(Byte) /\ Len(d) = L
  <2>1. \A j \in 1 .. L : d[j] \in Byte
    <3> SUFFICES ASSUME NEW j \in 1 .. L PROVE d[j] \in Byte
      OBVIOUS
    <3>1. j - 1 \in Nat /\ j - 1 < L /\ (j - 1) + 1 = j
      BY <1>4
    <3> HIDE DEF new
    <3>2. d[(j - 1) + 1] = new(j - 1) /\ new(j - 1) \in Byte
      BY <1>6, <1>7, <3>1
    <3> QED
      BY <3>1, <3>2
  <2>2. d = [j \in 1 .. L |-> d[j]]
    BY <1>3
  <2>3. d \in [1 .. L -> Byte]
    BY <2>1, <2>2
  <2> QED
    BY <1>4, <2>3
<1>9. ASSUME NEW k \in Nat PROVE ByteAt(d, k) = new(k)
  <2>1. CASE k < L
    BY <1>7, <1>8, <2>1 DEF ByteAt
  <2>2. CASE ~(k < L)
    <3>1. ~(k < e) /\ ~(k < Len(disk))
      BY <1>1, <1>4, <2>2
    <3>2. ~(k \div B = b)
      BY <1>5, <3>1
    <3> QED
      BY <1>8, <2>2, <3>1, <3>2 DEF ByteAt
  <2> QED
    BY <2>1, <2>2
<1> QED
  BY <1>4, <1>8, <1>9 DEF d, e

\* ftruncate.
LEMMA CutBack ==
  ASSUME NEW d \in Seq(Byte), NEW n \in Nat, n <= Len(d),
         \A k \in Nat : k >= n => ByteAt(d, k) = 0
  PROVE  LET r == SubSeq(d, 1, n)
         IN  r \in Seq(Byte) /\ \A k \in Nat : ByteAt(r, k) = ByteAt(d, k)
<1> DEFINE r == SubSeq(d, 1, n)
<1>1. r \in Seq(Byte) /\ Len(r) = n /\ \A j \in 1 .. n : r[j] = d[j]
  OBVIOUS
<1> HIDE DEF r
<1>2. ASSUME NEW k \in Nat PROVE ByteAt(r, k) = ByteAt(d, k)
  <2>1. CASE k < n
    <3>1. k + 1 \in 1 .. n /\ k < Len(d)
      BY <2>1
    <3> QED
      BY <1>1, <2>1, <3>1 DEF ByteAt
  <2>2. CASE ~(k < n)
    <3>1. ByteAt(d, k) = 0
      BY <2>2
    <3> QED
      BY <1>1, <2>2, <3>1 DEF ByteAt
  <2> QED
    BY <2>1, <2>2
<1> QED
  BY <1>1, <1>2 DEF r

-----------------------------------------------------------------------------
(* The invariant                                                           *)

\* A step of one process, to a2: it may change the file if it is alone.
LEMMA StepIs ==
  ASSUME IInv, NEW p \in Procs, NEW a2, af' = [af EXCEPT ![p] = a2], AfileType(a2),
         disk' \in Seq(Byte),
         disk' = disk \/ \A q \in Procs : q # p => Unlocked(q),
         a2.pc # "none" => \A q \in Procs : q # p => ~Writer(q),
         a2.pc \in {"open", "write", "close"} => \A q \in Procs : q # p => Unlocked(q),
         a2.pc \notin {"open", "write", "close"} => DOMAIN a2.dirty = {},
         a2.pc = "write" => a2.req.left > 0 /\ a2.req.pos + a2.req.left <= MaxSize,
         \A b \in DOMAIN a2.dirty : (b + 1) * ABLOCKSIZE <= Len(disk'),
         a2.pc \in {"open", "write"} =>
            /\ a2.file_size <= Len(disk')
            /\ \A k \in Nat : k >= a2.file_size => ByteAt(disk', k) = 0
  PROVE  IInv'
<1>1. /\ DOMAIN af = Procs /\ \A q \in Procs : AfileType(af[q])
  BY DEF IInv, Types
<1>2. /\ DOMAIN af' = Procs /\ af'[p] = a2 /\ \A q \in Procs : q # p => af'[q] = af[q]
  BY <1>1
<1>3. \A q \in Procs : q # p /\ Unlocked(q) => /\ ~Writer(q) /\ DOMAIN af[q].dirty = {}
                                             /\ af[q].pc \notin {"open", "write", "close"}
  BY DEF IInv, LockInv, Unlocked, Writer
<1>4. Types'
  <2>1. \A q \in Procs : AfileType(af'[q])
    BY <1>1, <1>2
  <2> QED
    BY <1>2, <2>1 DEF Types, AfileType, AfileOK, Byte, Block
<1>5. LockInv'
  <2>1. ASSUME NEW q \in Procs
        PROVE  /\ af'[q].pc \in {"open", "write", "close"} =>
                     \A o \in Procs : o # q => af'[o].pc = "none"
               /\ af'[q].pc \notin {"open", "write", "close"} => DOMAIN af'[q].dirty = {}
    <3>1. CASE q = p
      BY <1>2, <3>1 DEF Unlocked
    <3>2. CASE q # p
      <4>1. af'[q] = af[q]
        BY <1>2, <3>2
      <4>2. ASSUME af[q].pc \in {"open", "write", "close"} PROVE a2.pc = "none"
        BY <3>2, <4>2 DEF Writer
      <4>3. /\ Writer(q) => \A o \in Procs : o # q => Unlocked(o)
            /\ ~Writer(q) => DOMAIN af[q].dirty = {}
        BY DEF IInv, LockInv
      <4> QED
        BY <1>2, <3>2, <4>1, <4>2, <4>3 DEF Writer, Unlocked
    <3> QED
      BY <3>1, <3>2
  <2> QED
    BY <2>1 DEF LockInv, Writer, Unlocked
<1>6. WriteInv'
  <2>1. ASSUME NEW q \in Procs, af'[q].pc = "write"
        PROVE  af'[q].req.left > 0 /\ af'[q].req.pos + af'[q].req.left <= MaxSize
    BY <1>2, <2>1 DEF IInv, WriteInv
  <2> QED
    BY <2>1 DEF WriteInv
<1>7. ASSUME NEW q \in Procs
      PROVE  /\ \A b \in DOMAIN af'[q].dirty : (b + 1) * ABLOCKSIZE <= Len(disk')
             /\ af'[q].pc \in {"open", "write"} =>
                   /\ af'[q].file_size <= Len(disk')
                   /\ \A k \in Nat : k >= af'[q].file_size => ByteAt(disk', k) = 0
  <2>1. CASE q = p
    BY <1>2, <2>1
  <2>2. CASE q # p /\ disk' = disk
    <3>1. af'[q] = af[q]
      BY <1>2, <2>2
    <3>2. /\ \A b \in DOMAIN af[q].dirty : (b + 1) * ABLOCKSIZE <= Len(disk)
          /\ af[q].pc \in {"open", "write"} =>
                /\ af[q].file_size <= Len(disk)
                /\ \A k \in Nat : k >= af[q].file_size => ByteAt(disk, k) = 0
      BY DEF IInv, TailInv, EitherEndHasRoom
    <3> QED
      BY <2>2, <3>1, <3>2
  <2>3. CASE q # p /\ Unlocked(q)
    BY <1>2, <1>3, <2>3
  <2> QED
    BY <2>1, <2>2, <2>3
<1>8. TailInv'
  BY <1>7 DEF TailInv, ByteAt
<1>9. EitherEndHasRoom'
  BY <1>7 DEF EitherEndHasRoom
<1> QED
  BY <1>4, <1>5, <1>6, <1>8, <1>9 DEF IInv

\* What is known of one process.
LEMMA AfileKnown ==
  ASSUME IInv, NEW p \in Procs
  PROVE  /\ disk \in Seq(Byte) /\ Len(disk) \in Nat /\ DOMAIN af = Procs /\ AfileType(af[p])
         /\ Writer(p) => \A q \in Procs : q # p => Unlocked(q)
         /\ ~Writer(p) => DOMAIN af[p].dirty = {}
         /\ af[p].pc # "none" => \A q \in Procs : q # p => ~Writer(q)
         /\ \A b \in DOMAIN af[p].dirty : (b + 1) * ABLOCKSIZE <= Len(disk)
         /\ af[p].pc \in {"open", "write"} =>
               /\ af[p].file_size <= Len(disk)
               /\ \A k \in Nat : k >= af[p].file_size => ByteAt(disk, k) = 0
<1>1. /\ disk \in Seq(Byte) /\ Len(disk) \in Nat /\ DOMAIN af = Procs /\ AfileType(af[p])
  BY DEF IInv, Types
<1>2. /\ Writer(p) => \A q \in Procs : q # p => Unlocked(q)
      /\ ~Writer(p) => DOMAIN af[p].dirty = {}
  BY DEF IInv, LockInv
<1>3. af[p].pc # "none" => \A q \in Procs : q # p => ~Writer(q)
  BY DEF IInv, LockInv, Unlocked
<1>4. /\ \A b \in DOMAIN af[p].dirty : (b + 1) * ABLOCKSIZE <= Len(disk)
      /\ af[p].pc \in {"open", "write"} => af[p].file_size <= Len(disk)
  BY DEF IInv, EitherEndHasRoom
<1>5. af[p].pc \in {"open", "write"} =>
         \A k \in Nat : k >= af[p].file_size => ByteAt(disk, k) = 0
  BY DEF IInv, TailInv
<1> QED
  BY <1>1, <1>2, <1>3, <1>4, <1>5

\* A process that has not opened the file.
LEMMA ClosedType ==
  /\ AfileType(Closed) /\ Closed.pc = "none" /\ DOMAIN Closed.dirty = {}
  /\ \A n \in Nat : LET a == [Closed EXCEPT !.pc = "open", !.file_size = n]
                    IN  AfileType(a) /\ a.pc = "open" /\ a.file_size = n /\ DOMAIN a.dirty = {}
<1>1. DOMAIN Closed = {"pc", "file_size", "dirty", "req"} /\ Closed.pc = "none"
      /\ Closed.file_size = 0 /\ Closed.dirty = << >> /\ Closed.req = NoWrite
  BY DEF Closed
<1>2. NoWrite \in [pos : Nat, left : Nat, byte : Byte]
  BY DEF NoWrite, Byte
<1>3. DOMAIN Closed.dirty = {}
  BY <1>1
<1>4. AfileType(Closed)
  BY <1>1, <1>2, <1>3 DEF AfileType, AfileOK
<1>5. ASSUME NEW n \in Nat
      PROVE  LET a == [Closed EXCEPT !.pc = "open", !.file_size = n]
             IN  AfileType(a) /\ a.pc = "open" /\ a.file_size = n /\ DOMAIN a.dirty = {}
  BY <1>1, <1>2, <1>3 DEF AfileType, AfileOK
<1> QED
  BY <1>1, <1>3, <1>4, <1>5

\* A process lets go of the file, which stays as it is.
LEMMA LetsGo ==
  ASSUME IInv, NEW p \in Procs, af' = [af EXCEPT ![p] = Closed], disk' = disk
  PROVE  IInv'
<1>1. AfileType(Closed) /\ Closed.pc = "none" /\ DOMAIN Closed.dirty = {}
  BY ClosedType
<1>2. disk' \in Seq(Byte)
  BY AfileKnown
<1> QED
  BY <1>1, <1>2, StepIs

\* aopen.
LEMMA AopenKeeps ==
  ASSUME IInv, NEW p \in Procs, Aopen(p)
  PROVE  IInv'
<1> DEFINE a2 == [Closed EXCEPT !.pc = "open", !.file_size = Len(disk)]
<1>1. (\A q \in Procs : Unlocked(q)) /\ af' = [af EXCEPT ![p] = a2] /\ disk' = disk
  BY DEF Aopen
<1>2. disk \in Seq(Byte) /\ Len(disk) \in Nat
  BY AfileKnown
<1>3. AfileType(a2) /\ a2.pc = "open" /\ a2.file_size = Len(disk) /\ DOMAIN a2.dirty = {}
  BY <1>2, ClosedType
<1>4. \A k \in Nat : k >= Len(disk) => ByteAt(disk, k) = 0
  BY <1>2 DEF ByteAt
<1>5. \A q \in Procs : ~Writer(q)
  BY <1>1 DEF Unlocked, Writer
<1> HIDE DEF a2
<1> QED
  <2>1. disk' \in Seq(Byte) /\ Len(disk') = Len(disk)
    BY <1>1, <1>2
  <2>2. \A k \in Nat : k >= a2.file_size => ByteAt(disk', k) = 0
    BY <1>1, <1>3, <1>4
  <2>3. \A b \in DOMAIN a2.dirty : (b + 1) * ABLOCKSIZE <= Len(disk')
    BY <1>3
  <2>4. a2.file_size <= Len(disk')
    BY <1>2, <1>3, <2>1
  <2> QED
    BY <1>1, <1>3, <1>5, <2>1, <2>2, <2>3, <2>4, StepIs

\* start_read.
LEMMA StartReadKeeps ==
  ASSUME IInv, NEW p \in Procs, StartRead(p)
  PROVE  IInv'
<1> DEFINE a2 == [af[p] EXCEPT !.pc = "shared"]
<1>1. /\ Unlocked(p) /\ \A q \in Procs : Unlocked(q) \/ Shared(q)
      /\ af' = [af EXCEPT ![p] = a2] /\ disk' = disk
  BY DEF StartRead
<1>2. /\ disk \in Seq(Byte) /\ AfileType(af[p]) /\ (~Writer(p) => DOMAIN af[p].dirty = {})
  BY AfileKnown
<1>3. \A q \in Procs : ~Writer(q)
  BY <1>1 DEF Unlocked, Shared, Writer
<1>4. AfileType(a2) /\ a2.pc = "shared" /\ DOMAIN a2.dirty = {}
  BY <1>2, <1>3 DEF AfileType, AfileOK
<1> HIDE DEF a2
<1> QED
  BY <1>1, <1>2, <1>3, <1>4, StepIs

\* A step of a writer that changes neither the file nor what it has in memory.
LEMMA WriterGoesOn ==
  ASSUME IInv, NEW p \in Procs, af[p].pc \in {"open", "write"}, disk' = disk,
         NEW a2, af' = [af EXCEPT ![p] = a2],
         DOMAIN a2 = {"pc", "file_size", "dirty", "req"}, a2.dirty = af[p].dirty,
         a2.file_size = af[p].file_size, a2.pc \in {"open", "write", "close"},
         a2.req \in [pos : Nat, left : Nat, byte : Byte],
         a2.pc = "write" => a2.req.left > 0 /\ a2.req.pos + a2.req.left <= MaxSize
  PROVE  IInv'
<1>1. /\ disk \in Seq(Byte) /\ AfileType(af[p]) /\ Writer(p)
      /\ \A q \in Procs : q # p => Unlocked(q) /\ ~Writer(q)
      /\ \A b \in DOMAIN af[p].dirty : (b + 1) * ABLOCKSIZE <= Len(disk)
      /\ af[p].file_size <= Len(disk)
      /\ \A k \in Nat : k >= af[p].file_size => ByteAt(disk, k) = 0
  BY AfileKnown DEF Writer, Unlocked
<1>2. AfileType(a2)
  BY <1>1 DEF AfileType, AfileOK
<1> QED
  BY <1>1, <1>2, StepIs

\* A call of awrite ...
LEMMA AwriteKeeps ==
  ASSUME IInv, NEW p \in Procs, NEW pos \in 0 .. MaxSize - 1, NEW n \in 1 .. MaxBytes,
         NEW byte \in Bytes, pos + n <= MaxSize, Awrite(p, pos, n, byte)
  PROVE  IInv'
<1> DEFINE req == [pos |-> pos, left |-> n, byte |-> byte]
           a2 == [af[p] EXCEPT !.pc = "write", !.req = req]
<1>1. af[p].pc = "open" /\ disk' = disk /\ DOMAIN af = Procs /\ AfileType(af[p])
  BY AfileKnown DEF Awrite
<1>2. af' = [af EXCEPT ![p] = a2]
  BY <1>1 DEF Awrite
<1>3. pos \in Nat /\ n \in Nat /\ n > 0 /\ MaxSize \in Nat
  BY SizesAssumption
<1>4. req \in [pos : Nat, left : Nat, byte : Byte] /\ req.left = n /\ req.pos = pos
  BY <1>3 DEF Byte
<1> HIDE DEF req
<1>5. /\ DOMAIN a2 = {"pc", "file_size", "dirty", "req"} /\ a2.dirty = af[p].dirty
      /\ a2.file_size = af[p].file_size /\ a2.pc = "write" /\ a2.req = req
  BY <1>1 DEF AfileType
<1> HIDE DEF a2
<1> QED
  BY <1>1, <1>2, <1>3, <1>4, <1>5, WriterGoesOn

\* ... that finds no room for a block.
LEMMA AwriteFailsKeeps ==
  ASSUME IInv, NEW p \in Procs, AwriteFails(p)
  PROVE  IInv'
<1> DEFINE a2 == [af[p] EXCEPT !.pc = "open", !.req = NoWrite]
<1>1. af[p].pc = "write" /\ disk' = disk /\ DOMAIN af = Procs /\ AfileType(af[p])
  BY AfileKnown DEF AwriteFails
<1>2. af' = [af EXCEPT ![p] = a2]
  BY <1>1 DEF AwriteFails
<1>3. NoWrite \in [pos : Nat, left : Nat, byte : Byte]
  BY DEF NoWrite, Byte
<1>4. /\ DOMAIN a2 = {"pc", "file_size", "dirty", "req"} /\ a2.dirty = af[p].dirty
      /\ a2.file_size = af[p].file_size /\ a2.pc = "open" /\ a2.req = NoWrite
  BY <1>1 DEF AfileType
<1> HIDE DEF a2
<1> QED
  BY <1>1, <1>2, <1>3, <1>4, WriterGoesOn

\* aclose starts.
LEMMA AcloseKeeps ==
  ASSUME IInv, NEW p \in Procs, Aclose(p)
  PROVE  IInv'
<1> DEFINE a2 == [af[p] EXCEPT !.pc = "close"]
<1>1. af[p].pc = "open" /\ disk' = disk /\ DOMAIN af = Procs /\ AfileType(af[p])
  BY AfileKnown DEF Aclose
<1>2. af' = [af EXCEPT ![p] = a2]
  BY <1>1 DEF Aclose
<1>3. /\ DOMAIN a2 = {"pc", "file_size", "dirty", "req"} /\ a2.dirty = af[p].dirty
      /\ a2.file_size = af[p].file_size /\ a2.pc = "close" /\ a2.req = af[p].req
  BY <1>1 DEF AfileType
<1>4. af[p].req \in [pos : Nat, left : Nat, byte : Byte]
  BY <1>1 DEF AfileType, AfileOK
<1> HIDE DEF a2
<1> QED
  BY <1>1, <1>2, <1>3, <1>4, WriterGoesOn

\* The part of a write that goes to one block.
LEMMA TowriteIs ==
  ASSUME IInv, NEW p \in Procs, af[p].pc = "write"
  PROVE  LET req == af[p].req
             n == Towrite(req)
             offset == req.pos % ABLOCKSIZE
         IN  /\ req.pos \in Nat /\ req.left \in Nat /\ req.byte \in Byte
             /\ req.pos + req.left <= MaxSize /\ req.pos < MaxSize /\ MaxSize \in Nat
             /\ n \in Nat /\ n > 0 /\ n <= req.left
             /\ offset \in Nat /\ offset + n <= ABLOCKSIZE /\ ABLOCKSIZE \in Nat
             /\ BlockOf(req.pos) = req.pos \div ABLOCKSIZE
             /\ BlockOf(req.pos) \in Nat /\ BlockOf(req.pos) \in 0 .. BlockNums - 1
<1> DEFINE req == af[p].req
           offset == req.pos % ABLOCKSIZE
           n == Towrite(req)
<1>1. AfileType(af[p])
  BY AfileKnown
<1>2. req \in [pos : Nat, left : Nat, byte : Byte]
  BY <1>1 DEF AfileType, AfileOK
<1>3. req.left > 0 /\ req.pos + req.left <= MaxSize
  BY DEF IInv, WriteInv
<1> HIDE DEF req
<1>4. /\ req.pos \in Nat /\ req.left \in Nat /\ req.byte \in Byte /\ MaxSize \in Nat
      /\ ABLOCKSIZE \in Nat /\ BlockNums \in Nat
  BY <1>2, SizesAssumption
<1>5. req.pos < MaxSize
  BY <1>3, <1>4
<1>6. offset \in 0 .. ABLOCKSIZE - 1
  BY <1>4, PosInBlock
<1>7. BlockOf(req.pos) = req.pos \div ABLOCKSIZE /\ BlockOf(req.pos) \in 0 .. BlockNums - 1
  BY <1>4, <1>5, NoWrap
<1>8. n = IF req.left < ABLOCKSIZE - offset THEN req.left ELSE ABLOCKSIZE - offset
  BY DEF Towrite
<1> HIDE DEF n, offset
<1>9. n \in Nat /\ n > 0 /\ n <= req.left /\ offset \in Nat /\ offset + n <= ABLOCKSIZE
  BY <1>3, <1>4, <1>6, <1>8
<1>10. BlockOf(req.pos) \in Nat
  BY <1>4, <1>7
<1> QED
  BY <1>3, <1>4, <1>5, <1>7, <1>9, <1>10 DEF n, offset, req

\* One turn of awrite's loop, in memory and in the file.
LEMMA AwriteBlockIs ==
  ASSUME IInv, NEW p \in Procs, AwriteBlock(p)
  PROVE  LET a == af[p]
             c == af'[p]
             bn == a.req.pos \div ABLOCKSIZE
             offset == a.req.pos % ABLOCKSIZE
             n == Towrite(a.req)
         IN  /\ a.pc = "write" /\ af' = [af EXCEPT ![p] = c] /\ AfileType(c)
             /\ c.pc \in {"open", "write"} /\ c.file_size = a.file_size
             /\ c.pc = "write" => c.req.left > 0 /\ c.req.pos + c.req.left <= MaxSize
             /\ DOMAIN c.dirty = DOMAIN a.dirty \cup {bn}
             /\ \A b \in DOMAIN a.dirty : b # bn => c.dirty[b] = a.dirty[b]
             /\ \A k \in Nat : k \div ABLOCKSIZE = bn =>
                   c.dirty[bn][k % ABLOCKSIZE] =
                     IF k % ABLOCKSIZE \in offset .. offset + n - 1 THEN a.req.byte
                     ELSE IF bn \in DOMAIN a.dirty THEN a.dirty[bn][k % ABLOCKSIZE]
                     ELSE ByteAt(disk, k)
             /\ disk' \in Seq(Byte) /\ Len(disk') \in Nat /\ Len(disk') >= Len(disk)
             /\ (bn + 1) * ABLOCKSIZE <= Len(disk')
             /\ \A k \in Nat : ByteAt(disk', k) = ByteAt(disk, k)
<1> DEFINE a == af[p]
           bn == BlockOf(a.req.pos)
           offset == a.req.pos % ABLOCKSIZE
           n == Towrite(a.req)
           found == bn \in DOMAIN a.dirty
           bptr == IF found THEN a.dirty[bn] ELSE ReadBlock(bn)
           written == [i \in DOMAIN bptr |->
                        IF i \in offset .. offset + n - 1 THEN a.req.byte ELSE bptr[i]]
           left == a.req.left - n
           req2 == IF left = 0 THEN NoWrite ELSE [a.req EXCEPT !.pos = @ + n, !.left = left]
           dirty2 == [b \in DOMAIN a.dirty \cup {bn} |-> IF b = bn THEN written ELSE a.dirty[b]]
           c == [a EXCEPT !.dirty = dirty2, !.pc = IF left = 0 THEN "open" ELSE "write",
                          !.req = req2]
<1>1. /\ a.pc = "write" /\ af' = [af EXCEPT ![p] = c]
      /\ disk' = IF found THEN disk ELSE WriteBlock(bn, bptr)
  BY DEF AwriteBlock
<1>2. /\ disk \in Seq(Byte) /\ Len(disk) \in Nat /\ DOMAIN af = Procs /\ AfileType(a)
      /\ \A b \in DOMAIN a.dirty : (b + 1) * ABLOCKSIZE <= Len(disk)
  BY AfileKnown
<1>3. /\ DOMAIN a = {"pc", "file_size", "dirty", "req"} /\ a.file_size \in Nat
      /\ DOMAIN a.dirty \subseteq 0 .. BlockNums - 1
      /\ \A b \in DOMAIN a.dirty : a.dirty[b] \in Block
      /\ a.req \in [pos : Nat, left : Nat, byte : Byte]
  BY <1>2 DEF AfileType, AfileOK
<1>4. /\ a.req.pos \in Nat /\ a.req.left \in Nat /\ a.req.byte \in Byte
      /\ a.req.pos + a.req.left <= MaxSize /\ MaxSize \in Nat
      /\ n \in Nat /\ n > 0 /\ n <= a.req.left
      /\ bn = a.req.pos \div ABLOCKSIZE /\ bn \in Nat /\ bn \in 0 .. BlockNums - 1
  BY <1>1, TowriteIs
<1> HIDE DEF a, n, bn, offset
<1>5. /\ ReadBlock(bn) \in Block
      /\ \A k \in Nat : k \div ABLOCKSIZE = bn => ReadBlock(bn)[k % ABLOCKSIZE] = ByteAt(disk, k)
  BY <1>2, <1>4, BlockRead
<1>6. bptr \in Block
  BY <1>3, <1>5
<1>7. \A k \in Nat : k \div ABLOCKSIZE = bn =>
         bptr[k % ABLOCKSIZE] = IF bn \in DOMAIN a.dirty THEN a.dirty[bn][k % ABLOCKSIZE]
                                ELSE ByteAt(disk, k)
  BY <1>5
<1>8. /\ disk' \in Seq(Byte) /\ Len(disk') \in Nat /\ Len(disk') >= Len(disk)
      /\ (bn + 1) * ABLOCKSIZE <= Len(disk')
      /\ \A k \in Nat : ByteAt(disk', k) = ByteAt(disk, k)
  <2>1. CASE found
    BY <1>1, <1>2, <2>1
  <2>2. CASE ~found
    <3>1. disk' = WriteBlock(bn, ReadBlock(bn))
      BY <1>1, <2>2
    <3>2. /\ disk' \in Seq(Byte) /\ Len(disk') \in Nat /\ Len(disk') >= Len(disk)
          /\ Len(disk') >= (bn + 1) * ABLOCKSIZE
          /\ \A k \in Nat : ByteAt(disk', k) = IF k \div ABLOCKSIZE = bn
                                              THEN ReadBlock(bn)[k % ABLOCKSIZE]
                                              ELSE ByteAt(disk, k)
      <4>1. bn \in Nat /\ ReadBlock(bn) \in Block /\ disk \in Seq(Byte)
        BY <1>2, <1>4, <1>5
      <4> QED
        BY <3>1, <4>1, BlockWritten
    <3>3. (bn + 1) * ABLOCKSIZE \in Nat
      BY <1>4, InBlock
    <3>4. (bn + 1) * ABLOCKSIZE <= Len(disk')
      BY <3>2, <3>3
    <3> QED
      BY <1>5, <3>2, <3>4
  <2> QED
    BY <2>1, <2>2
<1> HIDE DEF bptr
<1>9. /\ DOMAIN bptr = 0 .. ABLOCKSIZE - 1 /\ \A i \in DOMAIN bptr : bptr[i] \in Byte
  BY <1>6 DEF Block
<1>10. written \in Block /\ \A i \in DOMAIN bptr :
          written[i] = IF i \in offset .. offset + n - 1 THEN a.req.byte ELSE bptr[i]
  <2>1. \A i \in DOMAIN bptr :
          (IF i \in offset .. offset + n - 1 THEN a.req.byte ELSE bptr[i]) \in Byte
    BY <1>4, <1>9
  <2>2. written \in [DOMAIN bptr -> Byte]
    BY <2>1
  <2> QED
    BY <1>9, <2>2 DEF Block
<1> HIDE DEF written
<1>11. /\ DOMAIN dirty2 = DOMAIN a.dirty \cup {bn} /\ dirty2[bn] = written
       /\ \A b \in DOMAIN a.dirty : b # bn => dirty2[b] = a.dirty[b]
  OBVIOUS
<1> HIDE DEF dirty2
<1>12. /\ \A b \in DOMAIN dirty2 : dirty2[b] \in Block
       /\ DOMAIN dirty2 \subseteq 0 .. BlockNums - 1
  BY <1>3, <1>4, <1>10, <1>11
<1>13. left \in Nat
  BY <1>4
<1>14. /\ req2 \in [pos : Nat, left : Nat, byte : Byte]
       /\ left # 0 => req2.left > 0 /\ req2.pos + req2.left <= MaxSize
  <2>1. CASE left = 0
    <3>1. req2 = NoWrite
      BY <2>1
    <3> QED
      BY <2>1, <3>1 DEF NoWrite, Byte
  <2>2. CASE left # 0
    <3>1. req2 = [a.req EXCEPT !.pos = a.req.pos + n, !.left = left]
      BY <2>2
    <3>2. a.req.pos + n \in Nat
      BY <1>4
    <3> HIDE DEF req2
    <3>3. /\ req2.left = left /\ req2.pos = a.req.pos + n
          /\ req2 \in [pos : Nat, left : Nat, byte : Byte]
      BY <1>3, <1>13, <3>1, <3>2
    <3>4. left > 0 /\ a.req.pos + n + left <= MaxSize
      BY <1>4, <2>2
    <3> QED
      BY <3>3, <3>4
  <2> QED
    BY <2>1, <2>2
<1> HIDE DEF req2
<1>15. /\ DOMAIN c = {"pc", "file_size", "dirty", "req"} /\ c.dirty = dirty2 /\ c.req = req2
       /\ c.file_size = a.file_size /\ c.pc = IF left = 0 THEN "open" ELSE "write"
  BY <1>3
<1> HIDE DEF c, left
<1>16. AfileType(c)
  BY <1>3, <1>12, <1>14, <1>15 DEF AfileType, AfileOK
<1>17. af'[p] = c
  BY <1>1, <1>2
<1>18. \A k \in Nat : k \div ABLOCKSIZE = bn =>
         dirty2[bn][k % ABLOCKSIZE] =
           IF k % ABLOCKSIZE \in offset .. offset + n - 1 THEN a.req.byte
           ELSE IF bn \in DOMAIN a.dirty THEN a.dirty[bn][k % ABLOCKSIZE] ELSE ByteAt(disk, k)
  <2> SUFFICES ASSUME NEW k \in Nat, k \div ABLOCKSIZE = bn
               PROVE  dirty2[bn][k % ABLOCKSIZE] =
                        IF k % ABLOCKSIZE \in offset .. offset + n - 1 THEN a.req.byte
                        ELSE IF bn \in DOMAIN a.dirty THEN a.dirty[bn][k % ABLOCKSIZE]
                        ELSE ByteAt(disk, k)
    OBVIOUS
  <2>1. k % ABLOCKSIZE \in DOMAIN bptr
    BY <1>9, PosInBlock
  <2> QED
    BY <1>7, <1>10, <1>11, <2>1
<1>19. af' = [af EXCEPT ![p] = af'[p]]
  BY <1>1, <1>17
<1>20. bn = af[p].req.pos \div ABLOCKSIZE
  BY <1>4 DEF a
<1> QED
  BY <1>1, <1>8, <1>11, <1>14, <1>15, <1>16, <1>17, <1>18, <1>19, <1>20 DEF a, n, offset

\* A block in memory is a block that the file has already.
LEMMA AwriteBlockKeeps ==
  ASSUME IInv, NEW p \in Procs, AwriteBlock(p)
  PROVE  IInv'
<1> DEFINE a == af[p]
           c == af'[p]
           bn == a.req.pos \div ABLOCKSIZE
<1>1. /\ a.pc = "write" /\ af' = [af EXCEPT ![p] = c] /\ AfileType(c)
      /\ c.pc \in {"open", "write"} /\ c.file_size = a.file_size
      /\ c.pc = "write" => c.req.left > 0 /\ c.req.pos + c.req.left <= MaxSize
      /\ DOMAIN c.dirty = DOMAIN a.dirty \cup {bn}
      /\ disk' \in Seq(Byte) /\ Len(disk') \in Nat /\ Len(disk') >= Len(disk)
      /\ (bn + 1) * ABLOCKSIZE <= Len(disk')
      /\ \A k \in Nat : ByteAt(disk', k) = ByteAt(disk, k)
  BY AwriteBlockIs
<1>2. /\ AfileType(a) /\ Len(disk) \in Nat
      /\ Writer(p) => \A q \in Procs : q # p => Unlocked(q)
      /\ \A b \in DOMAIN a.dirty : (b + 1) * ABLOCKSIZE <= Len(disk)
      /\ a.pc \in {"open", "write"} => /\ a.file_size <= Len(disk)
                                       /\ \A k \in Nat : k >= a.file_size => ByteAt(disk, k) = 0
  BY AfileKnown
<1>3. \A q \in Procs : q # p => Unlocked(q) /\ ~Writer(q)
  BY <1>1, <1>2 DEF Writer, Unlocked
<1>4. a.file_size \in Nat /\ \A b \in DOMAIN a.dirty : b \in Nat
  BY <1>2 DEF AfileType, AfileOK
<1> HIDE DEF a, c, bn
<1>5. \A b \in DOMAIN c.dirty : (b + 1) * ABLOCKSIZE <= Len(disk')
  <2> SUFFICES ASSUME NEW b \in DOMAIN c.dirty PROVE (b + 1) * ABLOCKSIZE <= Len(disk')
    OBVIOUS
  <2>1. CASE b = bn
    BY <1>1, <2>1
  <2>2. CASE b \in DOMAIN a.dirty
    <3>1. b \in Nat /\ (b + 1) * ABLOCKSIZE <= Len(disk)
      BY <1>2, <1>4, <2>2
    <3>2. (b + 1) * ABLOCKSIZE \in Nat
      BY <3>1, InBlock
    <3> QED
      BY <1>1, <1>2, <3>1, <3>2
  <2> QED
    BY <1>1, <2>1, <2>2
<1>6. /\ c.file_size <= Len(disk')
      /\ \A k \in Nat : k >= c.file_size => ByteAt(disk', k) = 0
  BY <1>1, <1>2, <1>4
<1> QED
  BY <1>1, <1>3, <1>5, <1>6, StepIs

\* One turn of aclose's loop.
LEMMA AcloseBlockIs ==
  ASSUME IInv, NEW p \in Procs, NEW b \in DOMAIN af[p].dirty, AcloseBlock(p, b)
  PROVE  LET a == af[p]
             c == af'[p]
         IN  /\ a.pc = "close" /\ af' = [af EXCEPT ![p] = c] /\ AfileType(c) /\ c.pc = "close"
             /\ DOMAIN c.dirty = DOMAIN a.dirty \ {b}
             /\ \A d \in DOMAIN c.dirty : c.dirty[d] = a.dirty[d]
             /\ disk' \in Seq(Byte) /\ Len(disk') \in Nat /\ Len(disk') >= Len(disk)
             /\ \A k \in Nat : ByteAt(disk', k) = IF k \div ABLOCKSIZE = b
                                                 THEN a.dirty[b][k % ABLOCKSIZE]
                                                 ELSE ByteAt(disk, k)
<1> DEFINE a == af[p]
           dirty2 == [d \in DOMAIN a.dirty \ {b} |-> a.dirty[d]]
           c == [a EXCEPT !.dirty = dirty2]
<1>1. /\ disk \in Seq(Byte) /\ Len(disk) \in Nat /\ DOMAIN af = Procs /\ AfileType(a)
  BY AfileKnown
<1>2. a.pc = "close" /\ disk' = WriteBlock(b, a.dirty[b])
  BY DEF AcloseBlock
<1>3. af' = [af EXCEPT ![p] = c]
  BY <1>1 DEF AcloseBlock
<1>4. /\ DOMAIN a = {"pc", "file_size", "dirty", "req"} /\ a.file_size \in Nat
      /\ DOMAIN a.dirty \subseteq 0 .. BlockNums - 1
      /\ \A d \in DOMAIN a.dirty : a.dirty[d] \in Block
      /\ a.req \in [pos : Nat, left : Nat, byte : Byte]
  BY <1>1 DEF AfileType, AfileOK
<1>5. b \in Nat /\ a.dirty[b] \in Block
  BY <1>4, SizesAssumption
<1>6. /\ disk' \in Seq(Byte) /\ Len(disk') \in Nat /\ Len(disk') >= Len(disk)
      /\ \A k \in Nat : ByteAt(disk', k) = IF k \div ABLOCKSIZE = b
                                          THEN a.dirty[b][k % ABLOCKSIZE] ELSE ByteAt(disk, k)
  BY <1>1, <1>2, <1>5, BlockWritten
<1>7. /\ DOMAIN dirty2 = DOMAIN a.dirty \ {b}
      /\ \A d \in DOMAIN dirty2 : dirty2[d] = a.dirty[d]
  OBVIOUS
<1> HIDE DEF dirty2
<1>8. /\ DOMAIN c = {"pc", "file_size", "dirty", "req"} /\ c.dirty = dirty2 /\ c.req = a.req
      /\ c.file_size = a.file_size /\ c.pc = a.pc
  BY <1>4
<1> HIDE DEF c
<1>9. AfileType(c)
  BY <1>2, <1>4, <1>7, <1>8 DEF AfileType, AfileOK
<1>10. af'[p] = c
  BY <1>1, <1>3
<1> QED
  BY <1>2, <1>3, <1>6, <1>7, <1>8, <1>9, <1>10

\* A block fewer in memory.
LEMMA AcloseBlockKeeps ==
  ASSUME IInv, NEW p \in Procs, NEW b \in DOMAIN af[p].dirty, AcloseBlock(p, b)
  PROVE  IInv'
<1> DEFINE a == af[p]
           c == af'[p]
<1>1. /\ a.pc = "close" /\ af' = [af EXCEPT ![p] = c] /\ AfileType(c) /\ c.pc = "close"
      /\ DOMAIN c.dirty = DOMAIN a.dirty \ {b}
      /\ disk' \in Seq(Byte) /\ Len(disk') \in Nat /\ Len(disk') >= Len(disk)
  BY AcloseBlockIs
<1>2. /\ AfileType(a) /\ Len(disk) \in Nat
      /\ Writer(p) => \A q \in Procs : q # p => Unlocked(q)
      /\ \A d \in DOMAIN a.dirty : (d + 1) * ABLOCKSIZE <= Len(disk)
  BY AfileKnown
<1>3. \A q \in Procs : q # p => Unlocked(q) /\ ~Writer(q)
  BY <1>1, <1>2 DEF Writer, Unlocked
<1>4. \A d \in DOMAIN a.dirty : d \in Nat
  BY <1>2 DEF AfileType, AfileOK
<1> HIDE DEF a, c
<1>5. \A d \in DOMAIN c.dirty : (d + 1) * ABLOCKSIZE <= Len(disk')
  <2> SUFFICES ASSUME NEW d \in DOMAIN c.dirty PROVE (d + 1) * ABLOCKSIZE <= Len(disk')
    OBVIOUS
  <2>1. d \in Nat /\ (d + 1) * ABLOCKSIZE <= Len(disk)
    BY <1>1, <1>2, <1>4
  <2>2. (d + 1) * ABLOCKSIZE \in Nat
    BY <2>1, InBlock
  <2> QED
    BY <1>1, <1>2, <2>1, <2>2
<1> QED
  BY <1>1, <1>3, <1>5, StepIs

\* aabort: the file is cut back to the length it had.
LEMMA AabortIs ==
  ASSUME IInv, NEW p \in Procs, Aabort(p)
  PROVE  /\ disk' \in Seq(Byte) /\ \A k \in Nat : ByteAt(disk', k) = ByteAt(disk, k)
         /\ af[p].pc = "open" /\ af' = [af EXCEPT ![p] = Closed]
<1>1. /\ af[p].pc = "open" /\ disk' = SubSeq(disk, 1, af[p].file_size)
      /\ af' = [af EXCEPT ![p] = Closed]
  BY DEF Aabort
<1>2. /\ disk \in Seq(Byte) /\ AfileType(af[p])
      /\ af[p].pc \in {"open", "write"} =>
            /\ af[p].file_size <= Len(disk)
            /\ \A k \in Nat : k >= af[p].file_size => ByteAt(disk, k) = 0
  BY AfileKnown
<1>3. af[p].file_size \in Nat
  BY <1>2 DEF AfileType, AfileOK
<1>4. disk' \in Seq(Byte) /\ \A k \in Nat : ByteAt(disk', k) = ByteAt(disk, k)
  BY <1>1, <1>2, <1>3, CutBack
<1> QED
  BY <1>1, <1>4

\* aabort.
LEMMA AabortKeeps ==
  ASSUME IInv, NEW p \in Procs, Aabort(p)
  PROVE  IInv'
<1>1. disk' \in Seq(Byte) /\ af[p].pc = "open" /\ af' = [af EXCEPT ![p] = Closed]
  BY AabortIs
<1>2. Writer(p) => \A q \in Procs : q # p => Unlocked(q)
  BY AfileKnown
<1>3. \A q \in Procs : q # p => Unlocked(q)
  BY <1>1, <1>2 DEF Writer
<1>4. AfileType(Closed) /\ Closed.pc = "none" /\ DOMAIN Closed.dirty = {}
  BY ClosedType
<1> QED
  BY <1>1, <1>3, <1>4, StepIs

\* At the start nobody has the file open.
LEMMA Initially == Init => IInv
<1>1. SUFFICES ASSUME Init PROVE IInv
  OBVIOUS
<1>2. disk \in Seq(Byte) /\ af = [p \in Procs |-> Closed]
  BY <1>1, SizesAssumption DEF Init, Byte
<1>3. AfileType(Closed) /\ Closed.pc = "none" /\ DOMAIN Closed.dirty = {}
  BY ClosedType
<1> QED
  BY <1>2, <1>3 DEF IInv, Types, LockInv, WriteInv, TailInv, EitherEndHasRoom, Writer, Unlocked

\* Every step keeps the invariant.
LEMMA StepKeeps == IInv /\ [Next]_vars => IInv'
<1>1. SUFFICES ASSUME IInv, [Next]_vars PROVE IInv'
  OBVIOUS
<1>2. ASSUME NEW p \in Procs,
             FinishRead(p) \/ AcloseUnlock(p) \/ Crash(p)
      PROVE  IInv'
  <2>1. af' = [af EXCEPT ![p] = Closed] /\ disk' = disk
    BY <1>2 DEF FinishRead, AcloseUnlock, Crash
  <2> QED
    BY <1>1, <2>1, LetsGo
<1>3. ASSUME NEW p \in Procs, Aopen(p) \/ StartRead(p) \/ Aclose(p) \/ Aabort(p)
      PROVE  IInv'
  BY <1>1, <1>3, AopenKeeps, StartReadKeeps, AcloseKeeps, AabortKeeps
<1>4. ASSUME NEW p \in Procs, NEW pos \in 0 .. MaxSize - 1, NEW n \in 1 .. MaxBytes,
             NEW byte \in Bytes, pos + n <= MaxSize, Awrite(p, pos, n, byte)
      PROVE  IInv'
  BY <1>1, <1>4, AwriteKeeps
<1>5. ASSUME NEW p \in Procs, AwriteBlock(p) \/ AwriteFails(p)
      PROVE  IInv'
  BY <1>1, <1>5, AwriteBlockKeeps, AwriteFailsKeeps
<1>6. ASSUME NEW p \in Procs, NEW b \in DOMAIN af[p].dirty, AcloseBlock(p, b)
      PROVE  IInv'
  BY <1>1, <1>6, AcloseBlockKeeps
<1>7. CASE UNCHANGED vars
  BY <1>1, <1>7 DEF vars, IInv, Types, LockInv, WriteInv, TailInv, EitherEndHasRoom, Writer,
                    Unlocked, AfileType, AfileOK, ByteAt
<1> QED
  BY <1>1, <1>2, <1>3, <1>4, <1>5, <1>6, <1>7 DEF Next, Work

\* The inductive invariant holds in every reachable state.
THEOREM Invariance == Spec => []IInv
  BY Initially, StepKeeps, PTL DEF Spec

\* The descriptors of atom.c are of their types; awrite's loop never has less than
\* nothing left to write.
THEOREM TypeCorrect == Spec => []TypeOK
<1>1. IInv => TypeOK
  BY DEF IInv, Types, AfileType, TypeOK
<1> QED
  BY <1>1, Invariance, PTL

\* aclose never needs more room than the file has, and aabort can always cut it back.
THEOREM RoomAtEitherEnd == Spec => []EitherEndHasRoom
  BY Invariance, PTL DEF IInv

-----------------------------------------------------------------------------
(* The refinement                                                          *)

\* Positions are numbers, and go past the end of every write.
LEMMA PositionsAre ==
  /\ Positions \subseteq Nat /\ 0 \in Positions
  /\ \A k \in Nat : k <= MaxSize => k \in Positions
<1> DEFINE B == ABLOCKSIZE
           q == MaxSize \div B
           e == (q + 1) * B
<1>1. B \in Nat /\ B > 0 /\ MaxSize \in Nat
  BY SizesAssumption
<1>2. q \in Nat /\ MaxSize % B \in 0 .. B - 1 /\ MaxSize = q * B + (MaxSize % B)
  BY <1>1, PosInBlock
<1>3. e \in Nat /\ MaxSize < e
  BY <1>1, <1>2, InBlock
<1>4. Positions = 0 .. e - 1
  BY DEF Positions
<1> HIDE DEF e
<1> QED
  BY <1>1, <1>3, <1>4

\* A view at a position.
LEMMA ImageAt ==
  ASSUME NEW p \in Procs
  PROVE  /\ DOMAIN Image(p) = Positions /\ Image(p) # << >>
         /\ Image(p) = [k \in Positions |-> Image(p)[k]]
         /\ \A k \in Positions : Image(p)[k] = IF k \div ABLOCKSIZE \in DOMAIN af[p].dirty
                                               THEN af[p].dirty[k \div ABLOCKSIZE][k % ABLOCKSIZE]
                                               ELSE ByteAt(disk, k)
<1>1. Image(p) = [k \in Positions |->
                    IF k \div ABLOCKSIZE \in DOMAIN af[p].dirty
                    THEN af[p].dirty[k \div ABLOCKSIZE][k % ABLOCKSIZE]
                    ELSE ByteAt(disk, k)]
  BY DEF Image, ByteAt
<1>2. DOMAIN Image(p) = Positions /\ 0 \in Positions
  BY <1>1, PositionsAre
<1>3. Image(p) # << >>
  BY <1>2
<1> QED
  BY <1>1, <1>2, <1>3

\* The contents, while nobody closes the file ...
LEMMA ContentsOpen ==
  ASSUME \A q \in Procs : af[q].pc # "close"
  PROVE  Contents = [k \in Positions |-> ByteAt(disk, k)]
  BY DEF Contents, ByteAt

\* ... and while somebody does.
LEMMA ContentsClosing ==
  ASSUME IInv, NEW p \in Procs, af[p].pc = "close"
  PROVE  Contents = Image(p)
<1>1. \A q \in Procs : af[q].pc = "close" => q = p
  BY DEF IInv, LockInv, Writer, Unlocked
<1>2. (CHOOSE q \in Procs : af[q].pc = "close") = p
  BY <1>1
<1>3. Contents = [k \in Positions |-> Image(p)[k]]
  BY <1>2 DEF Contents
<1> QED
  BY <1>3, ImageAt

\* The same, after a step.
LEMMA ContentsClosingNext ==
  ASSUME IInv', NEW p \in Procs, af'[p].pc = "close"
  PROVE  Contents' = Image(p)'
<1>1. \A q \in Procs : af'[q].pc = "close" => q = p
  BY DEF IInv, LockInv, Writer, Unlocked
<1>2. (CHOOSE q \in Procs : af'[q].pc = "close") = p
  BY <1>1
<1>3. Contents' = [k \in Positions |-> Image(p)'[k]]
  BY <1>2 DEF Contents
<1>4. Image(p)' = [k \in Positions |-> Image(p)'[k]]
  BY DEF Image
<1> QED
  BY <1>3, <1>4

\* Who has no view, and who has one.
LEMMA ViewAt ==
  /\ DOMAIN View = Procs
  /\ \A p \in Procs : View[p] = IF af[p].pc \in {"shared", "open", "write"} THEN Image(p) ELSE << >>
  BY DEF View

\* A step of one process: the others see what they saw.
LEMMA OthersSee ==
  ASSUME IInv, NEW p \in Procs, NEW a2, af' = [af EXCEPT ![p] = a2],
         \/ \A k \in Nat : ByteAt(disk', k) = ByteAt(disk, k)
         \/ \A q \in Procs : q # p => Unlocked(q)
  PROVE  /\ af'[p] = a2 /\ \A q \in Procs : q # p => af'[q] = af[q]
         /\ \A q \in Procs : q # p => View'[q] = View[q]
<1>1. DOMAIN af = Procs
  BY AfileKnown
<1>2. af'[p] = a2 /\ \A q \in Procs : q # p => af'[q] = af[q]
  BY <1>1
<1>3. ASSUME NEW q \in Procs, q # p PROVE View'[q] = View[q]
  <2>1. af'[q] = af[q]
    BY <1>2, <1>3
  <2>2. /\ View[q] = IF af[q].pc \in {"shared", "open", "write"} THEN Image(q) ELSE << >>
        /\ View'[q] = IF af'[q].pc \in {"shared", "open", "write"} THEN Image(q)' ELSE << >>
    BY ViewAt DEF View
  <2>3. CASE \A k \in Nat : ByteAt(disk', k) = ByteAt(disk, k)
    <3>1. Image(q)' = Image(q)
      <4>1. ASSUME NEW k \in Positions
            PROVE  (IF k < Len(disk) THEN disk[k + 1] ELSE 0)
                 = IF k < Len(disk') THEN disk'[k + 1] ELSE 0
        BY <2>3, PositionsAre DEF ByteAt
      <4> QED
        BY <2>1, <4>1 DEF Image
    <3> QED
      BY <2>1, <2>2, <3>1
  <2>4. CASE Unlocked(q)
    BY <2>1, <2>2, <2>4 DEF Unlocked
  <2> QED
    BY <1>3, <2>3, <2>4
<1> QED
  BY <1>2, <1>3

\* A view that changes is the one of the process that took the step.
LEMMA OneViewChanges ==
  ASSUME NEW p \in Procs, NEW v, View'[p] = v, \A q \in Procs : q # p => View'[q] = View[q]
  PROVE  View' = [View EXCEPT ![p] = v]
<1>1. DOMAIN View = Procs /\ DOMAIN View' = Procs
  BY DEF View
<1>2. View = [q \in Procs |-> View[q]] /\ View' = [q \in Procs |-> View'[q]]
  BY DEF View
<1> HIDE DEF View
<1> QED
  BY <1>1, <1>2

\* A step that cannot be seen.
LEMMA NoViewChanges ==
  ASSUME NEW p \in Procs, View'[p] = View[p], \A q \in Procs : q # p => View'[q] = View[q]
  PROVE  View' = View
<1>1. View = [q \in Procs |-> View[q]] /\ View' = [q \in Procs |-> View'[q]]
  BY DEF View
<1> HIDE DEF View
<1> QED
  BY <1>1

\* A step in which nothing that can be read changes, and nobody is inside aclose.
LEMMA ContentsStay ==
  ASSUME IInv, NEW p \in Procs, NEW a2, af' = [af EXCEPT ![p] = a2],
         \A k \in Nat : ByteAt(disk', k) = ByteAt(disk, k),
         \A q \in Procs : af[q].pc # "close", a2.pc # "close"
  PROVE  /\ Contents = [k \in Positions |-> ByteAt(disk, k)]
         /\ Contents' = Contents
<1>1. \A q \in Procs : af'[q].pc # "close"
  BY OthersSee
<1>2. Contents = [k \in Positions |-> ByteAt(disk, k)]
  BY ContentsOpen
<1>3. Contents' = [k \in Positions |-> ByteAt(disk', k)]
  BY <1>1 DEF Contents, ByteAt
<1>4. \A k \in Positions : ByteAt(disk', k) = ByteAt(disk, k)
  BY PositionsAre
<1> QED
  BY <1>2, <1>3, <1>4

\* aopen and start_read begin a view ...
LEMMA OpensBegin ==
  ASSUME IInv, NEW p \in Procs, Aopen(p) \/ StartRead(p)
  PROVE  File!Begin(p)
<1> DEFINE a2 == IF Aopen(p) THEN [Closed EXCEPT !.pc = "open", !.file_size = Len(disk)]
                 ELSE [af[p] EXCEPT !.pc = "shared"]
<1>1. /\ disk' = disk /\ Unlocked(p) /\ \A q \in Procs : Unlocked(q) \/ Shared(q)
      /\ af' = [af EXCEPT ![p] = a2]
  BY DEF Aopen, StartRead
<1>2. AfileType(af[p]) /\ (~Writer(p) => DOMAIN af[p].dirty = {})
  BY AfileKnown
<1>3. a2.pc \in {"shared", "open"} /\ DOMAIN a2.dirty = {}
  <2>1. /\ af[p].pc = "none" /\ DOMAIN af[p].dirty = {}
        /\ DOMAIN af[p] = {"pc", "file_size", "dirty", "req"}
    BY <1>1, <1>2 DEF Unlocked, Writer, AfileType
  <2> QED
    BY <2>1, ClosedType DEF Closed
<1> HIDE DEF a2
<1>4. \A q \in Procs : af[q].pc # "close"
  BY <1>1 DEF Unlocked, Shared
<1>5. Contents = [k \in Positions |-> ByteAt(disk, k)] /\ Contents' = Contents
  BY <1>1, <1>3, <1>4, ContentsStay
<1>6. af'[p] = a2 /\ \A q \in Procs : q # p => View'[q] = View[q]
  BY <1>1, OthersSee
<1>7. View[p] = << >>
  BY <1>1, ViewAt DEF Unlocked
<1>8. View'[p] = Contents
  <2>1. View'[p] = Image(p)'
    BY <1>3, <1>6 DEF View
  <2>2. Image(p)' = [k \in Positions |-> ByteAt(disk, k)]
    BY <1>1, <1>3, <1>6 DEF Image, ByteAt
  <2> QED
    BY <1>5, <2>1, <2>2
<1>9. View' = [View EXCEPT ![p] = Contents]
  BY <1>6, <1>8, OneViewChanges
<1> QED
  BY <1>5, <1>7, <1>9 DEF File!Begin

\* ... and a reader that has finished, an abort or a death drops it.
LEMMA LeavesDrop ==
  ASSUME IInv, NEW p \in Procs, FinishRead(p) \/ Aabort(p) \/ Crash(p)
  PROVE  File!Drop(p)
<1>1. /\ af' = [af EXCEPT ![p] = Closed] /\ af[p].pc \in {"shared", "open", "write"}
      /\ \A k \in Nat : ByteAt(disk', k) = ByteAt(disk, k)
  <2>1. CASE Aabort(p)
    BY <2>1, AabortIs
  <2>2. CASE FinishRead(p)
    BY <2>2 DEF FinishRead, Shared
  <2>3. CASE Crash(p)
    <3>1. af[p].pc \in {"none", "shared", "open", "write", "close"}
      BY AfileKnown DEF AfileType, AfileOK
    <3> QED
      BY <2>3, <3>1 DEF Crash
  <2> QED
    BY <2>1, <2>2, <2>3
<1>2. \A q \in Procs : af[q].pc # "close"
  <2>1. \A q \in Procs : q # p => ~Writer(q)
    BY <1>1, AfileKnown
  <2> QED
    BY <1>1, <2>1 DEF Writer
<1>3. Closed.pc = "none"
  BY ClosedType
<1>4. Contents' = Contents
  BY <1>1, <1>2, <1>3, ContentsStay
<1>5. af'[p] = Closed /\ \A q \in Procs : q # p => View'[q] = View[q]
  BY <1>1, OthersSee
<1>6. View[p] # << >>
  BY <1>1, ViewAt, ImageAt
<1>7. View'[p] = << >>
  BY <1>3, <1>5 DEF View
<1>8. View' = [View EXCEPT ![p] = << >>]
  BY <1>5, <1>7, OneViewChanges
<1> QED
  BY <1>4, <1>6, <1>8 DEF File!Drop

\* Starting a write, and failing to reserve quota for a block, cannot be seen.
LEMMA WriteStutters ==
  ASSUME IInv, NEW p \in Procs, NEW a2, af' = [af EXCEPT ![p] = a2], disk' = disk,
         af[p].pc \in {"open", "write"}, a2.pc \in {"open", "write"}, a2.dirty = af[p].dirty
  PROVE  Contents' = Contents /\ View' = View
<1>1. \A q \in Procs : af[q].pc # "close"
  <2>1. \A q \in Procs : q # p => ~Writer(q)
    BY AfileKnown
  <2> QED
    BY <2>1 DEF Writer
<1>2. Contents' = Contents
  BY <1>1, ContentsStay
<1>3. af'[p] = a2 /\ \A q \in Procs : q # p => View'[q] = View[q]
  BY OthersSee
<1>4. View'[p] = View[p]
  <2>1. View[p] = Image(p) /\ View'[p] = Image(p)'
    BY <1>3, ViewAt DEF View
  <2>2. Image(p)' = Image(p)
    BY <1>3 DEF Image
  <2> QED
    BY <2>1, <2>2
<1> QED
  BY <1>2, <1>3, <1>4, NoViewChanges

\* aclose starts: the view becomes the contents.
LEMMA AcloseCommits ==
  ASSUME IInv, NEW p \in Procs, Aclose(p)
  PROVE  File!Commit(p)
<1> DEFINE a2 == [af[p] EXCEPT !.pc = "close"]
<1>1. af[p].pc = "open" /\ af' = [af EXCEPT ![p] = a2] /\ disk' = disk
  BY DEF Aclose
<1>2. AfileType(af[p]) /\ DOMAIN af = Procs /\ (Writer(p) => \A q \in Procs : q # p => Unlocked(q))
  BY AfileKnown
<1>3. a2.pc = "close" /\ a2.dirty = af[p].dirty
  BY <1>2 DEF AfileType
<1> HIDE DEF a2
<1>4. \A q \in Procs : q # p => Unlocked(q)
  BY <1>1, <1>2 DEF Writer
<1>5. af'[p] = a2 /\ \A q \in Procs : q # p => af'[q] = af[q] /\ View'[q] = View[q]
  BY <1>1, OthersSee
<1>6. View[p] = Image(p) /\ View[p] # << >>
  BY <1>1, ViewAt, ImageAt
<1>7. \A q \in Procs \ {p} : View[q] = << >>
  BY <1>4, ViewAt DEF Unlocked
<1>8. View'[p] = << >>
  BY <1>3, <1>5 DEF View
<1>9. View' = [View EXCEPT ![p] = << >>]
  BY <1>5, <1>8, OneViewChanges
<1>10. Image(p)' = Image(p)
  BY <1>1, <1>3, <1>5 DEF Image
<1>11. Contents' = Image(p)
  <2>1. IInv'
    BY AcloseKeeps
  <2>2. Contents' = Image(p)'
    BY <1>3, <1>5, <2>1, ContentsClosingNext
  <2> QED
    BY <1>10, <2>2
<1> QED
  BY <1>6, <1>7, <1>9, <1>11 DEF File!Commit

\* What aclose does then cannot be seen any more.
LEMMA AcloseBlockStutters ==
  ASSUME IInv, NEW p \in Procs, NEW b \in DOMAIN af[p].dirty, AcloseBlock(p, b)
  PROVE  Contents' = Contents /\ View' = View
<1> DEFINE a == af[p]
           c == af'[p]
<1>1. /\ a.pc = "close" /\ af' = [af EXCEPT ![p] = c] /\ c.pc = "close"
      /\ DOMAIN c.dirty = DOMAIN a.dirty \ {b}
      /\ \A d \in DOMAIN c.dirty : c.dirty[d] = a.dirty[d]
      /\ \A k \in Nat : ByteAt(disk', k) = IF k \div ABLOCKSIZE = b
                                          THEN a.dirty[b][k % ABLOCKSIZE]
                                          ELSE ByteAt(disk, k)
  BY AcloseBlockIs
<1>2. \A q \in Procs : q # p => Unlocked(q)
  BY <1>1, AfileKnown DEF Writer
<1>3. \A q \in Procs : q # p => View'[q] = View[q]
  BY <1>1, <1>2, OthersSee
<1>4. View'[p] = View[p]
  BY <1>1, ViewAt DEF View
<1>5. \A k \in Positions : Image(p)'[k] = Image(p)[k]
  <2> SUFFICES ASSUME NEW k \in Positions PROVE Image(p)'[k] = Image(p)[k]
    OBVIOUS
  <2> DEFINE n == k \div ABLOCKSIZE
             i == k % ABLOCKSIZE
  <2>1. /\ Image(p)[k] = IF n \in DOMAIN a.dirty THEN a.dirty[n][i] ELSE ByteAt(disk, k)
        /\ Image(p)'[k] = IF n \in DOMAIN c.dirty THEN c.dirty[n][i] ELSE ByteAt(disk', k)
    BY DEF Image, ByteAt
  <2>2. ByteAt(disk', k) = IF n = b THEN a.dirty[b][i] ELSE ByteAt(disk, k)
    BY <1>1, PositionsAre
  <2> HIDE DEF n, i, a, c
  <2> QED
    BY <1>1, <2>1, <2>2 DEF a
<1>6. Image(p)' = Image(p)
  <2>1. /\ Image(p) = [k \in Positions |-> Image(p)[k]]
        /\ Image(p)' = [k \in Positions |-> Image(p)'[k]]
    BY DEF Image
  <2> QED
    BY <1>5, <2>1
<1>7. Contents = Image(p)
  BY <1>1, ContentsClosing
<1>8. Contents' = Image(p)'
  <2>1. IInv'
    BY AcloseBlockKeeps
  <2>2. Contents' = Image(p)'
    BY <1>1, <2>1, ContentsClosingNext
  <2> QED
    BY <2>2
<1> QED
  BY <1>3, <1>4, <1>6, <1>7, <1>8, NoViewChanges

\* Nor can the unlock.
LEMMA AcloseUnlockStutters ==
  ASSUME IInv, NEW p \in Procs, AcloseUnlock(p)
  PROVE  Contents' = Contents /\ View' = View
<1>1. /\ af[p].pc = "close" /\ DOMAIN af[p].dirty = {}
      /\ af' = [af EXCEPT ![p] = Closed] /\ disk' = disk
  BY DEF AcloseUnlock
<1>2. Closed.pc = "none"
  BY ClosedType
<1>3. \A q \in Procs : q # p => Unlocked(q)
  BY <1>1, AfileKnown DEF Writer
<1>4. /\ af'[p] = Closed /\ \A q \in Procs : q # p => af'[q] = af[q]
      /\ \A q \in Procs : q # p => View'[q] = View[q]
  BY <1>1, OthersSee
<1>5. View'[p] = View[p]
  BY <1>1, <1>2, <1>4, ViewAt DEF View
<1>6. Contents = Image(p)
  BY <1>1, ContentsClosing
<1>7. Image(p) = [k \in Positions |-> ByteAt(disk, k)]
  BY <1>1 DEF Image, ByteAt
<1>8. \A q \in Procs : af'[q].pc # "close"
  BY <1>2, <1>3, <1>4 DEF Unlocked
<1>9. Contents' = [k \in Positions |-> ByteAt(disk, k)]
  BY <1>1, <1>8 DEF Contents, ByteAt
<1> QED
  BY <1>4, <1>5, <1>6, <1>7, <1>9, NoViewChanges

\* One turn of awrite's loop changes one stretch of the view.
LEMMA Stretch ==
  ASSUME NEW pos \in Nat, NEW n \in Nat, n > 0,
         (pos % ABLOCKSIZE) + n <= ABLOCKSIZE, NEW k \in Nat
  PROVE  k \in pos .. pos + n - 1 <=>
            /\ k \div ABLOCKSIZE = pos \div ABLOCKSIZE
            /\ k % ABLOCKSIZE \in (pos % ABLOCKSIZE) .. (pos % ABLOCKSIZE) + n - 1
<1> DEFINE B == ABLOCKSIZE
           b == pos \div B
           o == pos % B
<1>1. B \in Nat /\ B > 0
  BY SizesAssumption
<1>2. b \in Nat /\ o \in 0 .. B - 1 /\ pos = b * B + o /\ b * B \in Nat
  BY <1>1, PosInBlock
<1>3. k \div B \in Nat /\ k % B \in 0 .. B - 1 /\ k = (k \div B) * B + (k % B)
  BY PosInBlock
<1>4. o + n <= B
  OBVIOUS
<1>5. ASSUME k \in pos .. pos + n - 1
      PROVE  k \div B = b /\ k % B \in o .. o + n - 1
  <2> DEFINE i == k - b * B
  <2> HIDE DEF b, o, B
  <2>1. i \in 0 .. B - 1 /\ k = b * B + i /\ i \in o .. o + n - 1
    BY <1>1, <1>2, <1>4, <1>5
  <2> HIDE DEF i
  <2>2. k \div B = b /\ k % B = i
    BY <1>2, <2>1, BlockOfPos DEF B
  <2> QED
    BY <2>1, <2>2
<1>6. ASSUME k \div B = b, k % B \in o .. o + n - 1
      PROVE  k \in pos .. pos + n - 1
  <2>1. k = b * B + (k % B)
    BY <1>3, <1>6
  <2> DEFINE i == k % B
  <2>2. i \in o .. o + n - 1 /\ k = b * B + i
    BY <1>6, <2>1
  <2> HIDE DEF b, o, B, i
  <2> QED
    BY <1>1, <1>2, <2>2
<1> QED
  BY <1>5, <1>6

\* A turn of awrite's loop changes the view as the atomic file says.
LEMMA AwriteBlockChanges ==
  ASSUME IInv, NEW p \in Procs, AwriteBlock(p)
  PROVE  LET a == af[p]
         IN  /\ a.req.pos \in DOMAIN Contents
             /\ a.req.pos + Towrite(a.req) - 1 \in DOMAIN Contents /\ a.req.byte \in Byte
             /\ File!Change(p, a.req.pos, a.req.pos + Towrite(a.req) - 1, a.req.byte)
<1> DEFINE a == af[p]
           c == af'[p]
           pos == a.req.pos
           bn == a.req.pos \div ABLOCKSIZE
           offset == a.req.pos % ABLOCKSIZE
           n == Towrite(a.req)
           to == pos + n - 1
<1>1. /\ a.pc = "write" /\ af' = [af EXCEPT ![p] = c] /\ c.pc \in {"open", "write"}
      /\ DOMAIN c.dirty = DOMAIN a.dirty \cup {bn}
      /\ \A b \in DOMAIN a.dirty : b # bn => c.dirty[b] = a.dirty[b]
      /\ \A k \in Nat : ByteAt(disk', k) = ByteAt(disk, k)
  BY AwriteBlockIs
<1>2. \A k \in Nat : k \div ABLOCKSIZE = bn =>
         c.dirty[bn][k % ABLOCKSIZE] =
           IF k % ABLOCKSIZE \in offset .. offset + n - 1 THEN a.req.byte
           ELSE IF bn \in DOMAIN a.dirty THEN a.dirty[bn][k % ABLOCKSIZE]
           ELSE ByteAt(disk, k)
  BY AwriteBlockIs
<1>3. /\ pos \in Nat /\ a.req.left \in Nat /\ a.req.byte \in Byte
      /\ pos + a.req.left <= MaxSize /\ MaxSize \in Nat
      /\ n \in Nat /\ n > 0 /\ n <= a.req.left
      /\ offset + n <= ABLOCKSIZE /\ bn \in Nat
  BY <1>1, TowriteIs
<1>4. \A q \in Procs : q # p => Unlocked(q)
  BY <1>1, AfileKnown DEF Writer
<1>5. \A q \in Procs : af[q].pc # "close"
  BY <1>1, <1>4 DEF Unlocked
<1>6. Contents = [k \in Positions |-> ByteAt(disk, k)] /\ Contents' = Contents
  BY <1>1, <1>5, ContentsStay
<1>7. \A q \in Procs : q # p => View'[q] = View[q]
  BY <1>1, OthersSee
<1>8. View[p] = Image(p) /\ View[p] # << >> /\ View'[p] = Image(p)'
  BY <1>1, ViewAt, ImageAt DEF View
<1>9. \A q \in Procs \ {p} : View[q] = << >>
  BY <1>4, ViewAt DEF Unlocked
<1>10. ASSUME NEW k \in Positions
       PROVE  Image(p)'[k] = IF k \in pos .. to THEN a.req.byte ELSE Image(p)[k]
  <2> DEFINE m == k \div ABLOCKSIZE
             i == k % ABLOCKSIZE
  <2>1. k \in Nat
    BY PositionsAre
  <2>2. /\ Image(p)[k] = IF m \in DOMAIN a.dirty THEN a.dirty[m][i] ELSE ByteAt(disk, k)
        /\ Image(p)'[k] = IF m \in DOMAIN c.dirty THEN c.dirty[m][i] ELSE ByteAt(disk', k)
    BY DEF Image, ByteAt
  <2>3. ByteAt(disk', k) = ByteAt(disk, k)
    BY <1>1, <2>1
  <2>4. k \in pos .. to <=> m = bn /\ i \in offset .. offset + n - 1
    BY <1>3, <2>1, Stretch
  <2>5. m = bn => c.dirty[bn][i] = IF i \in offset .. offset + n - 1 THEN a.req.byte
                                   ELSE IF bn \in DOMAIN a.dirty THEN a.dirty[bn][i]
                                   ELSE ByteAt(disk, k)
    BY <1>2, <2>1
  <2> HIDE DEF m, i, a, c, bn, offset, n, pos, to
  <2>6. CASE m = bn
    BY <1>1, <2>2, <2>4, <2>5, <2>6
  <2>7. CASE m # bn
    BY <1>1, <2>2, <2>3, <2>4, <2>7
  <2> QED
    BY <2>6, <2>7
<1>11. Image(p)' = [k \in DOMAIN View[p] |-> IF k \in pos .. to THEN a.req.byte ELSE View[p][k]]
  <2>1. Image(p)' = [k \in Positions |-> Image(p)'[k]]
    BY DEF Image
  <2>2. DOMAIN View[p] = Positions
    BY <1>8, ImageAt
  <2> HIDE DEF a, pos, to
  <2> QED
    BY <1>8, <1>10, <2>1, <2>2
<1>12. View' = [View EXCEPT ![p] = [k \in DOMAIN View[p] |->
                                      IF k \in pos .. to THEN a.req.byte ELSE View[p][k]]]
  BY <1>7, <1>8, <1>11, OneViewChanges
<1>13. pos \in DOMAIN Contents /\ to \in DOMAIN Contents
  <2>1. pos \in Nat /\ pos <= MaxSize /\ to \in Nat /\ to <= MaxSize
    BY <1>3
  <2>2. pos \in Positions /\ to \in Positions
    BY <2>1, PositionsAre
  <2> QED
    BY <1>6, <2>2
<1>14. File!Change(p, pos, to, a.req.byte)
  <2> HIDE DEF a, pos, to
  <2> QED
    BY <1>6, <1>8, <1>9, <1>12, ViewAt DEF File!Change
<1> QED
  BY <1>3, <1>13, <1>14

\* At the start there is the file, and nobody has it open.
LEMMA FileInitially == Init => File!FileInit
<1>1. SUFFICES ASSUME Init PROVE File!FileInit
  OBVIOUS
<1>2. disk = FirstContents /\ \A p \in Procs : af[p].pc = "none"
  BY <1>1, ClosedType DEF Init
<1>3. Contents = [k \in Positions |-> IF k < Len(FirstContents) THEN FirstContents[k + 1] ELSE 0]
  BY <1>2 DEF Contents
<1>4. View = [p \in Procs |-> << >>]
  BY <1>2 DEF View
<1> QED
  BY <1>3, <1>4 DEF File!FileInit

\* Every step is one of the atomic file, or cannot be seen.
LEMMA FileStep == IInv /\ [Next]_vars => [File!FileNext]_(File!fileVars)
<1>1. SUFFICES ASSUME IInv, [Next]_vars
               PROVE  File!FileNext \/ (Contents' = Contents /\ View' = View)
  BY DEF File!fileVars
<1>2. ASSUME NEW p \in Procs, Aopen(p) \/ StartRead(p) PROVE File!FileNext
  BY <1>1, <1>2, OpensBegin DEF File!FileNext
<1>3. ASSUME NEW p \in Procs, FinishRead(p) \/ Aabort(p) \/ Crash(p) PROVE File!FileNext
  BY <1>1, <1>3, LeavesDrop DEF File!FileNext
<1>4. ASSUME NEW p \in Procs, Aclose(p) PROVE File!FileNext
  BY <1>1, <1>4, AcloseCommits DEF File!FileNext
<1>5. ASSUME NEW p \in Procs, AwriteBlock(p) PROVE File!FileNext
  <2> DEFINE from == af[p].req.pos
             to == af[p].req.pos + Towrite(af[p].req) - 1
             byte == af[p].req.byte
  <2>1. /\ from \in DOMAIN Contents /\ to \in DOMAIN Contents /\ byte \in Byte
        /\ File!Change(p, from, to, byte)
    BY <1>1, <1>5, AwriteBlockChanges
  <2> HIDE DEF from, to, byte
  <2> QED
    BY <2>1 DEF File!FileNext
<1>6. ASSUME NEW p \in Procs, NEW pos \in 0 .. MaxSize - 1, NEW n \in 1 .. MaxBytes,
             NEW byte \in Bytes, Awrite(p, pos, n, byte)
      PROVE  Contents' = Contents /\ View' = View
  <2> DEFINE a2 == [af[p] EXCEPT !.pc = "write", !.req = [pos |-> pos, left |-> n, byte |-> byte]]
  <2>1. af[p].pc = "open" /\ af' = [af EXCEPT ![p] = a2] /\ disk' = disk
    BY <1>6 DEF Awrite
  <2>2. a2.pc = "write" /\ a2.dirty = af[p].dirty
    <3>1. AfileType(af[p])
      BY <1>1, AfileKnown
    <3> QED
      BY <3>1 DEF AfileType
  <2> HIDE DEF a2
  <2> QED
    BY <1>1, <2>1, <2>2, WriteStutters
<1>7. ASSUME NEW p \in Procs, AwriteFails(p)
      PROVE  Contents' = Contents /\ View' = View
  <2> DEFINE a2 == [af[p] EXCEPT !.pc = "open", !.req = NoWrite]
  <2>1. af[p].pc = "write" /\ af' = [af EXCEPT ![p] = a2] /\ disk' = disk
    BY <1>7 DEF AwriteFails
  <2>2. a2.pc = "open" /\ a2.dirty = af[p].dirty
    <3>1. AfileType(af[p])
      BY <1>1, AfileKnown
    <3> QED
      BY <3>1 DEF AfileType
  <2> HIDE DEF a2
  <2> QED
    BY <1>1, <2>1, <2>2, WriteStutters
<1>8. ASSUME NEW p \in Procs, AcloseUnlock(p) PROVE Contents' = Contents /\ View' = View
  BY <1>1, <1>8, AcloseUnlockStutters
<1>9. ASSUME NEW p \in Procs, NEW b \in DOMAIN af[p].dirty, AcloseBlock(p, b)
      PROVE  Contents' = Contents /\ View' = View
  BY <1>1, <1>9, AcloseBlockStutters
<1>10. CASE UNCHANGED vars
  <2>1. Contents' = Contents /\ View' = View
    BY <1>10 DEF vars, Contents, View, Image
  <2> QED
    BY <2>1
<1> QED
  BY <1>1, <1>2, <1>3, <1>4, <1>5, <1>6, <1>7, <1>8, <1>9, <1>10 DEF Next, Work

\* atom.c implements the atomic file: whatever the processes that have it open do, one
\* after another or beside each other, and wherever one dies outside aclose, the file
\* changes only as a whole, when an aclose starts.
THEOREM AtomIsAtomicFile == Spec => IsAtomic
  BY Invariance, FileInitially, FileStep, PTL DEF Spec, IsAtomic, File!FileSpec


-----------------------------------------------------------------------------
(* The size of the file                                                    *)

\* The file ends before every block that starts behind all that can be written.
SizeInv == \A b \in Nat : b * ABLOCKSIZE >= MaxSize => Len(disk) <= b * ABLOCKSIZE

\* A block that starts before another ends before it starts.
LEMMA BlockBefore ==
  ASSUME NEW b \in Nat, NEW c \in Nat, b * ABLOCKSIZE < c * ABLOCKSIZE
  PROVE  (b + 1) * ABLOCKSIZE <= c * ABLOCKSIZE
<1> DEFINE B == ABLOCKSIZE
<1>1. B \in Nat /\ B > 0
  BY SizesAssumption
<1>2. b * B < c * B
  OBVIOUS
<1> HIDE DEF B
<1>3. b < c
  <2> SUFFICES ASSUME c <= b PROVE FALSE
    OBVIOUS
  <2>1. c * B <= b * B
    BY <1>1
  <2>2. c * B \in Nat /\ b * B \in Nat
    BY <1>1
  <2> QED BY <1>2, <2>1, <2>2
<1>4. b + 1 <= c
  BY <1>3
<1>5. (b + 1) * B <= c * B
  BY <1>1, <1>4
<1> QED BY <1>5 DEF B

\* A step keeps the file in its size.
LEMMA SizeKeeps ==
  ASSUME IInv, SizeInv, [Next]_vars
  PROVE  SizeInv'
<1>1. Len(disk) \in Nat /\ disk \in Seq(Byte)
  BY DEF IInv, Types
<1>2. CASE disk' = disk
  BY <1>2 DEF SizeInv
<1>3. ASSUME NEW p \in Procs, NEW b \in DOMAIN af[p].dirty, AcloseBlock(p, b) PROVE SizeInv'
  <2>1. disk' = WriteBlock(b, af[p].dirty[b])
    BY <1>3 DEF AcloseBlock
  <2>2. /\ (b + 1) * ABLOCKSIZE <= Len(disk) /\ b \in 0 .. BlockNums - 1
        /\ af[p].dirty[b] \in Block
    BY <1>3, AfileKnown DEF AfileType, AfileOK
  <2>3. b \in Nat
    BY <2>2, SizesAssumption
  <2>4. /\ Len(disk') >= Len(disk)
        /\ Len(disk') = Len(disk) \/ Len(disk') = (b + 1) * ABLOCKSIZE
    BY <1>1, <2>1, <2>2, <2>3, BlockWritten
  <2>5. Len(disk') = Len(disk)
    <3>1. (b + 1) * ABLOCKSIZE \in Nat
      BY <2>3, InBlock
    <3> QED BY <1>1, <2>2, <2>4, <3>1
  <2> QED BY <2>5 DEF SizeInv
<1>4. ASSUME NEW p \in Procs, Aabort(p) PROVE SizeInv'
  <2>1. disk' = SubSeq(disk, 1, af[p].file_size) /\ af[p].pc = "open"
    BY <1>4 DEF Aabort
  <2>2. af[p].file_size \in Nat /\ af[p].file_size <= Len(disk)
    BY <1>4, <2>1, AfileKnown DEF AfileType, AfileOK
  <2>3. Len(disk') = af[p].file_size
    BY <1>1, <2>1, <2>2
  <2>4. ASSUME NEW b \in Nat, b * ABLOCKSIZE >= MaxSize PROVE Len(disk') <= b * ABLOCKSIZE
    <3>1. Len(disk) <= b * ABLOCKSIZE /\ b * ABLOCKSIZE \in Nat
      BY <2>4, SizesAssumption DEF SizeInv
    <3> QED BY <1>1, <2>2, <2>3, <3>1
  <2> QED BY <2>4 DEF SizeInv
<1>5. ASSUME NEW p \in Procs, AwriteBlock(p) PROVE SizeInv'
  <2> DEFINE req == af[p].req
             bn == BlockOf(af[p].req.pos)
  <2>1. af[p].pc = "write"
    BY <1>5 DEF AwriteBlock
  <2>2. /\ req.pos \in Nat /\ req.pos < MaxSize /\ MaxSize \in Nat
        /\ bn = req.pos \div ABLOCKSIZE /\ bn \in Nat
    BY <1>5, <2>1, TowriteIs
  <2>3. CASE bn \in DOMAIN af[p].dirty
    <3>1. disk' = disk
      BY <1>5, <2>3 DEF AwriteBlock
    <3> QED BY <1>2, <3>1
  <2>4. CASE bn \notin DOMAIN af[p].dirty
    <3>1. disk' = WriteBlock(bn, ReadBlock(bn))
      BY <1>5, <2>4 DEF AwriteBlock
    <3>2. ReadBlock(bn) \in Block
      BY <1>1, <2>2, BlockRead
    <3>3. Len(disk') = Len(disk) \/ Len(disk') = (bn + 1) * ABLOCKSIZE
      BY <1>1, <2>2, <3>1, <3>2, BlockWritten
    <3>4. bn * ABLOCKSIZE <= req.pos /\ bn * ABLOCKSIZE \in Nat
      <4>1. /\ req.pos % ABLOCKSIZE \in 0 .. ABLOCKSIZE - 1
            /\ req.pos = (req.pos \div ABLOCKSIZE) * ABLOCKSIZE + (req.pos % ABLOCKSIZE)
        BY <2>2, PosInBlock
      <4>2. bn * ABLOCKSIZE \in Nat
        BY <2>2, SizesAssumption
      <4> QED BY <2>2, <4>1, <4>2, SizesAssumption
    <3>5. ASSUME NEW b \in Nat, b * ABLOCKSIZE >= MaxSize PROVE Len(disk') <= b * ABLOCKSIZE
      <4>1. Len(disk) <= b * ABLOCKSIZE /\ b * ABLOCKSIZE \in Nat
        BY <3>5, SizesAssumption DEF SizeInv
      <4>2. bn * ABLOCKSIZE < b * ABLOCKSIZE
        BY <2>2, <3>4, <3>5, <4>1
      <4>3. (bn + 1) * ABLOCKSIZE <= b * ABLOCKSIZE
        BY <2>2, <4>2, BlockBefore
      <4> QED BY <3>3, <4>1, <4>3
    <3> QED BY <3>5 DEF SizeInv
  <2> QED BY <2>3, <2>4
<1>6. \/ disk' = disk
      \/ \E p \in Procs : \/ AwriteBlock(p) \/ Aabort(p)
                          \/ \E b \in DOMAIN af[p].dirty : AcloseBlock(p, b)
  BY DEF Next, Work, vars, Aopen, StartRead, FinishRead, Aclose, Crash, Awrite, AwriteFails,
         AcloseUnlock
<1> QED BY <1>2, <1>3, <1>4, <1>5, <1>6

\* The file is no longer than that.
LEMMA SizeInvariance == Spec => []SizeInv
<1>1. Init => SizeInv
  BY SizesAssumption DEF Init, SizeInv
<1>2. IInv /\ SizeInv /\ [Next]_vars => SizeInv'
  BY SizeKeeps
<1> QED BY <1>1, <1>2, Invariance, PTL DEF Spec

-----------------------------------------------------------------------------
(* aread                                                                   *)

\* The blocks that aread goes through, and what it takes from one of them.
ReadBlocks(pos, n) ==
    LET first == pos \div ABLOCKSIZE
    IN  [i \in 1 .. ((pos + n - 1) \div ABLOCKSIZE) - first + 1 |-> first + i - 1]
ReadOffset(pos, b) == IF b = pos \div ABLOCKSIZE THEN pos % ABLOCKSIZE ELSE 0
ReadDone(pos, b) == IF b = pos \div ABLOCKSIZE THEN 0 ELSE b * ABLOCKSIZE - pos
ToRead(pos, n, b) == Min({n - ReadDone(pos, b), ABLOCKSIZE - ReadOffset(pos, b)})
ReadPart(p, pos, n, b) ==
    [i \in 1 .. ToRead(pos, n, b) |->
       IF b % BlockNums \in DOMAIN af[p].dirty
       THEN af[p].dirty[b % BlockNums][ReadOffset(pos, b) + i - 1]
       ELSE disk[b * ABLOCKSIZE + ReadOffset(pos, b) + i]]

\* What aread has after each turn of its loop.
ReadTurn(parts, p, pos, n, k) ==
    IF k = 0 THEN << >> ELSE parts[k - 1] \o ReadPart(p, pos, n, ReadBlocks(pos, n)[k])
IsParts(parts, p, pos, n) ==
    parts = [k \in 0 .. Len(ReadBlocks(pos, n)) |-> ReadTurn(parts, p, pos, n, k)]

\* aread is the last of its turns.
LEMMA AreadIs ==
  ASSUME NEW p, NEW pos, NEW n
  PROVE  Aread(p, pos, n) = (CHOOSE parts : IsParts(parts, p, pos, n))[Len(ReadBlocks(pos, n))]
BY DEF Aread, IsParts, ReadTurn, ReadPart, ToRead, ReadDone, ReadOffset, ReadBlocks

\* The smaller of two numbers.
LEMMA MinOfTwo ==
  ASSUME NEW a \in Nat, NEW b \in Nat
  PROVE  Min({a, b}) = IF a <= b THEN a ELSE b
BY DEF Min

\* How far aread has come after k blocks.
ReadUpTo(pos, n, k) ==
    IF k = 0 THEN 0
    ELSE LET e == (pos \div ABLOCKSIZE + k) * ABLOCKSIZE - pos IN IF n <= e THEN n ELSE e

\* The blocks, and that they take aread to the end.
LEMMA BlocksAre ==
  ASSUME NEW pos \in Nat, NEW n \in Nat, n > 0
  PROVE  LET m == Len(ReadBlocks(pos, n))
             first == pos \div ABLOCKSIZE
         IN  /\ m \in Nat /\ m > 0 /\ first \in Nat
             /\ \A k \in 1 .. m : /\ ReadBlocks(pos, n)[k] = first + k - 1
                                  /\ (first + k - 1) * ABLOCKSIZE <= pos + n - 1
             /\ ReadUpTo(pos, n, m) = n
<1> DEFINE B == ABLOCKSIZE
           first == pos \div ABLOCKSIZE
           end == pos + n - 1
           last == end \div ABLOCKSIZE
           m == last - first + 1
<1>1. B \in Nat /\ B > 0 /\ end \in Nat /\ pos <= end
  BY SizesAssumption
<1>2. /\ first \in Nat /\ pos % B \in 0 .. B - 1 /\ pos = first * B + (pos % B)
      /\ last \in Nat /\ end % B \in 0 .. B - 1 /\ end = last * B + (end % B)
  BY <1>1, PosInBlock
<1>3. end < (last + 1) * B /\ (last + 1) * B \in Nat
  BY <1>1, <1>2, InBlock
<1>4. first <= last
  <2> SUFFICES ASSUME last + 1 <= first PROVE FALSE
    BY <1>2
  <2> HIDE DEF B, first, last, end
  <2>1. (last + 1) * B <= first * B /\ first * B \in Nat
    BY <1>1, <1>2
  <2> QED BY <1>1, <1>2, <1>3, <2>1
<1>5. m \in Nat /\ m > 0
  BY <1>2, <1>4
<1>6. ReadBlocks(pos, n) = [i \in 1 .. m |-> first + i - 1]
  BY DEF ReadBlocks
<1>7. Len(ReadBlocks(pos, n)) = m
  <2> HIDE DEF m, first
  <2> QED BY <1>5, <1>6
<1>8. ASSUME NEW k \in 1 .. m PROVE (first + k - 1) * B <= end
  <2> HIDE DEF B, first, last, end
  <2>1. first + k - 1 \in Nat /\ first + k - 1 <= last
    BY <1>2, <1>4
  <2>2. (first + k - 1) * B <= last * B /\ (first + k - 1) * B \in Nat /\ last * B \in Nat
    BY <1>1, <1>2, <2>1
  <2> QED BY <1>1, <1>2, <2>2
<1>9. ReadUpTo(pos, n, m) = n
  <2>1. first + m = last + 1
    BY <1>2
  <2>2. n <= (last + 1) * B - pos
    BY <1>3
  <2>3. ReadUpTo(pos, n, m) = LET e == (first + m) * B - pos IN IF n <= e THEN n ELSE e
    BY <1>5 DEF ReadUpTo
  <2> HIDE DEF m, first, last, end, B
  <2> QED BY <2>1, <2>2, <2>3
<1> QED BY <1>2, <1>5, <1>6, <1>7, <1>8, <1>9

\* What aread takes from a block: it begins where it was, and ends with the block or
\* with what was asked for.
LEMMA PartIs ==
  ASSUME NEW pos \in Nat, NEW n \in Nat, n > 0, NEW k \in 1 .. Len(ReadBlocks(pos, n))
  PROVE  LET b == ReadBlocks(pos, n)[k]
             o == ReadOffset(pos, b)
             t == ToRead(pos, n, b)
         IN  /\ b \in Nat /\ o \in Nat /\ t \in Nat /\ o + t <= ABLOCKSIZE
             /\ ReadUpTo(pos, n, k - 1) \in Nat
             /\ b * ABLOCKSIZE + o = pos + ReadUpTo(pos, n, k - 1)
             /\ ReadUpTo(pos, n, k) = ReadUpTo(pos, n, k - 1) + t
             /\ ReadUpTo(pos, n, k) <= n
<1> DEFINE B == ABLOCKSIZE
           first == pos \div ABLOCKSIZE
           b == first + k - 1
           o == ReadOffset(pos, b)
           done == ReadDone(pos, b)
           t == ToRead(pos, n, b)
           f == first * ABLOCKSIZE
           e == b * ABLOCKSIZE
           r == pos % ABLOCKSIZE
<1>1. B \in Nat /\ B > 0
  BY SizesAssumption
<1>2. /\ k \in Nat /\ k > 0 /\ first \in Nat /\ b \in Nat
      /\ ReadBlocks(pos, n)[k] = b /\ e <= pos + n - 1
  <2>1. /\ Len(ReadBlocks(pos, n)) \in Nat /\ first \in Nat
        /\ ReadBlocks(pos, n)[k] = b /\ e <= pos + n - 1
    BY BlocksAre
  <2>2. k \in Nat /\ k > 0
    BY <2>1
  <2> QED BY <2>1, <2>2
<1>3. r \in 0 .. B - 1 /\ pos = f + r
  BY PosInBlock
<1>4. f \in Nat /\ e \in Nat
  <2> HIDE DEF b, first
  <2> QED BY <1>1, <1>2
<1>5. (b + 1) * B = e + B
  <2> HIDE DEF b
  <2> QED BY <1>1, <1>2
<1>6. first + k = b + 1
  BY <1>2
<1>7. ReadUpTo(pos, n, k) = IF n <= e + B - pos THEN n ELSE e + B - pos
  <2> DEFINE x == (first + k) * ABLOCKSIZE
  <2>1. ReadUpTo(pos, n, k) = IF n <= x - pos THEN n ELSE x - pos
    BY <1>2 DEF ReadUpTo
  <2>2. x = e + B
    BY <1>5, <1>6, Zenon
  <2> HIDE DEF x, B, b, first, e
  <2> QED BY <1>1, <1>4, <2>1, <2>2
<1>8. t = Min({n - done, B - o})
  BY DEF ToRead
<1>9. CASE k = 1
  <2>1. b = first /\ e = f /\ o = r /\ done = 0
    BY <1>2, <1>9 DEF ReadOffset, ReadDone
  <2>2. ReadUpTo(pos, n, k - 1) = 0
    BY <1>9 DEF ReadUpTo
  <2> HIDE DEF B, b, first, e, f, r, o, done, t
  <2>3. n - done \in Nat /\ B - o \in Nat /\ n - done = n
    BY <1>1, <1>3, <2>1
  <2>4. t = IF n <= B - o THEN n ELSE B - o
    BY <1>8, <2>3, MinOfTwo
  <2>5. e + B - pos = B - o
    BY <1>1, <1>3, <1>4, <2>1
  <2>6. e + o = pos /\ o \in Nat
    BY <1>1, <1>3, <1>4, <2>1
  <2>7. /\ b \in Nat /\ o \in Nat /\ t \in Nat /\ o + t <= B
        /\ e + o = pos + ReadUpTo(pos, n, k - 1) /\ ReadUpTo(pos, n, k - 1) \in Nat
        /\ ReadUpTo(pos, n, k) = ReadUpTo(pos, n, k - 1) + t
        /\ ReadUpTo(pos, n, k) <= n
    BY <1>1, <1>2, <1>7, <2>2, <2>3, <2>4, <2>5, <2>6
  <2> QED BY <1>2, <2>7 DEF B, b, e, o, t, first
<1>10. CASE k # 1
  <2>1. b # first /\ o = 0 /\ done = e - pos
    BY <1>2, <1>10 DEF ReadOffset, ReadDone
  <2>2. pos <= e
    <3>1. pos < (first + 1) * B /\ (first + 1) * B \in Nat
      BY <1>2, InBlock
    <3>3. b >= first + 1
      <4> HIDE DEF first
      <4> QED BY <1>2, <1>10
    <3> HIDE DEF B, b, first
    <3>2. (first + 1) * B <= b * B
      BY <1>1, <1>2, <3>3
    <3> QED BY <1>4, <3>1, <3>2 DEF B
  <2>3. ReadUpTo(pos, n, k - 1) = e - pos
    <3>1. k - 1 # 0 /\ first + (k - 1) = b
      BY <1>2, <1>10
    <3>2. ReadUpTo(pos, n, k - 1) =
            IF n <= (first + (k - 1)) * B - pos THEN n ELSE (first + (k - 1)) * B - pos
      BY <3>1 DEF ReadUpTo
    <3>3. ReadUpTo(pos, n, k - 1) = IF n <= e - pos THEN n ELSE e - pos
      <4> HIDE DEF b, first
      <4> QED BY <3>1, <3>2
    <3> HIDE DEF B, b, first, e
    <3> QED BY <1>2, <1>4, <2>2, <3>3
  <2> HIDE DEF B, b, first, e, f, r, o, done, t
  <2>4. n - done \in Nat /\ B - o \in Nat /\ B - o = B
    BY <1>1, <1>2, <1>4, <2>1, <2>2
  <2>5. t = IF n - done <= B THEN n - done ELSE B
    BY <1>8, <2>4, MinOfTwo
  <2>6. /\ b \in Nat /\ o \in Nat /\ t \in Nat /\ o + t <= B
        /\ e + o = pos + ReadUpTo(pos, n, k - 1) /\ ReadUpTo(pos, n, k - 1) \in Nat
        /\ ReadUpTo(pos, n, k) = ReadUpTo(pos, n, k - 1) + t
        /\ ReadUpTo(pos, n, k) <= n
    BY <1>1, <1>2, <1>4, <1>7, <2>1, <2>2, <2>3, <2>4, <2>5
  <2> QED BY <1>2, <2>6 DEF B, b, e, o, t, first
<1> QED BY <1>9, <1>10

\* What p reads of a block is what the process itself has of it.
LEMMA PartReads ==
  ASSUME IInv, SizeInv, NEW p \in Procs, NEW pos \in Nat, NEW n \in Nat, n > 0,
         pos + n <= Len(disk), NEW k \in 1 .. Len(ReadBlocks(pos, n))
  PROVE  LET part == ReadPart(p, pos, n, ReadBlocks(pos, n)[k])
             done == ReadUpTo(pos, n, k - 1)
         IN  /\ part \in Seq(Byte) /\ Len(part) = ReadUpTo(pos, n, k) - done
             /\ \A i \in 1 .. Len(part) : part[i] = Image(p)[pos + done + i - 1]
<1> DEFINE B == ABLOCKSIZE
           b == ReadBlocks(pos, n)[k]
           o == ReadOffset(pos, b)
           t == ToRead(pos, n, b)
           done == ReadUpTo(pos, n, k - 1)
           part == ReadPart(p, pos, n, b)
<1>1. /\ b \in Nat /\ o \in Nat /\ t \in Nat /\ o + t <= B /\ done \in Nat
      /\ b * B + o = pos + done
      /\ ReadUpTo(pos, n, k) = done + t /\ done + t <= n
  BY PartIs
<1>2. /\ disk \in Seq(Byte) /\ Len(disk) \in Nat /\ AfileType(af[p])
      /\ B \in Nat /\ B > 0 /\ MaxSize \in Nat /\ BlockNums \in Nat /\ BlockNums > 0
  BY AfileKnown, SizesAssumption
<1>3. part = [i \in 1 .. t |->
                IF b % BlockNums \in DOMAIN af[p].dirty
                THEN af[p].dirty[b % BlockNums][o + i - 1]
                ELSE disk[b * B + o + i]]
  BY DEF ReadPart
<1> HIDE DEF b, o, t, done, part
<1>4. ASSUME NEW i \in 1 .. t
      PROVE  part[i] = Image(p)[pos + done + i - 1] /\ part[i] \in Byte
  <2> DEFINE j == pos + done + i - 1
             c == o + i - 1
  <2>1. j \in Nat /\ j < Len(disk) /\ c \in 0 .. B - 1
    BY <1>1, <1>2
  <2>2. j = b * B + c
    <3>1. b * B \in Nat
      BY <1>1, <1>2
    <3> QED BY <1>1, <3>1
  <2>3. j \div B = b /\ j % B = c
    BY <1>1, <2>1, <2>2, BlockOfPos
  <2>4. b * B <= j /\ b * B \in Nat
    <3>1. b * B \in Nat
      BY <1>1, <1>2
    <3> HIDE DEF j, c
    <3> QED BY <2>1, <2>2, <3>1
  <2>5. b % BlockNums = b
    <3>1. BlockNums - 1 \in Nat
      BY <1>2
    <3>2. Len(disk) <= (BlockNums - 1) * B /\ (BlockNums - 1) * B \in Nat
      <4>1. (BlockNums - 1) * B >= MaxSize
        BY <1>2, <3>1, BelowWrap
      <4>2. (BlockNums - 1) * B \in Nat
        BY <1>2, <3>1
      <4> QED BY <3>1, <4>1, <4>2 DEF SizeInv
    <3>3. b * B < (BlockNums - 1) * B
      <4> HIDE DEF j
      <4> QED BY <1>2, <2>1, <2>4, <3>2
    <3>4. b < BlockNums - 1
      <4> SUFFICES ASSUME BlockNums - 1 <= b PROVE FALSE
        BY <1>1, <3>1
      <4> HIDE DEF B
      <4>1. (BlockNums - 1) * B <= b * B
        BY <1>1, <1>2, <3>1
      <4> QED BY <2>4, <3>2, <3>3, <4>1
    <3> QED BY <1>1, <1>2, <3>4
  <2>6. j \in Positions
    <3> DEFINE q == MaxSize \div B
    <3>1. q \in Nat /\ MaxSize < (q + 1) * B /\ (q + 1) * B \in Nat
      BY <1>2, PosInBlock, InBlock
    <3>2. q + 1 \in Nat /\ (q + 1) * B >= MaxSize
      BY <1>2, <3>1
    <3>3. Len(disk) <= (q + 1) * B
      BY <3>2 DEF SizeInv
    <3>4. Positions = 0 .. (q + 1) * B - 1
      BY DEF Positions
    <3> HIDE DEF q, B, j
    <3> QED BY <1>2, <2>1, <3>1, <3>3, <3>4
  <2>7. Image(p)[j] = IF b \in DOMAIN af[p].dirty THEN af[p].dirty[b][c] ELSE ByteAt(disk, j)
    BY <2>3, <2>6, ImageAt
  <2>8. ByteAt(disk, j) = disk[j + 1] /\ ByteAt(disk, j) \in Byte
    BY <1>2, <2>1, ByteThere DEF ByteAt
  <2>9. b * B + o + i = j + 1
    <3>1. b * B \in Nat
      BY <2>4
    <3> QED BY <1>1, <3>1
  <2>10. part[i] = IF b \in DOMAIN af[p].dirty THEN af[p].dirty[b][c] ELSE disk[j + 1]
    <3> HIDE DEF j
    <3> QED BY <1>3, <2>5, <2>9
  <2>11. b \in DOMAIN af[p].dirty => af[p].dirty[b][c] \in Byte
    BY <1>2, <2>1 DEF AfileType, AfileOK, Block
  <2> HIDE DEF c
  <2> QED BY <2>7, <2>8, <2>10, <2>11
<1>5. part \in Seq(Byte) /\ Len(part) = t
  <2>1. part = [i \in 1 .. t |-> part[i]]
    BY <1>3
  <2>2. part \in [1 .. t -> Byte]
    BY <1>4, <2>1
  <2> QED BY <1>1, <2>2
<1>6. Len(part) = ReadUpTo(pos, n, k) - done
  BY <1>1, <1>5
<1> QED BY <1>4, <1>5, <1>6 DEF part, b, done

\* Induction over the natural numbers, for a set of them.
LEMMA Counting ==
  ASSUME NEW T, 0 \in T, \A n \in Nat : n \in T => n + 1 \in T
  PROVE  Nat \subseteq T
<1> SUFFICES ASSUME NEW z \in Nat, z \notin T PROVE FALSE
  OBVIOUS
<1> DEFINE U == {n \in Nat : n \notin T}
<1> DEFINE R == OpToRel(<, Nat)
<1>1. \A x, y \in Nat : x < y => <<x, y>> \in R
  BY DEF OpToRel
<1>2. PICK n \in U : \A y \in U : <<y, n>> \notin R
  <2>1. IsWellFoundedOn(R, Nat)
    BY NatLessThanWellFounded
  <2>2. U \subseteq Nat /\ U # {}
    OBVIOUS
  <2> QED BY <2>1, <2>2, WFMin
<1>3. n \in Nat /\ n # 0 /\ n - 1 \in Nat /\ n - 1 < n /\ (n - 1) + 1 = n
  OBVIOUS
<1>4. n - 1 \in T
  BY <1>1, <1>2, <1>3
<1> QED BY <1>3, <1>4

\* What p's file has from pos on, n bytes of it.
Wanted(p, pos, n) == [i \in 1 .. n |-> Image(p)[pos + i - 1]]

\* Two sequences, one behind the other.
LEMMA PutTogether ==
  ASSUME NEW S, NEW a \in Seq(S), NEW b \in Seq(S)
  PROVE  /\ a \o b \in Seq(S) /\ Len(a \o b) = Len(a) + Len(b)
         /\ Len(a) \in Nat /\ Len(b) \in Nat
         /\ \A i \in 1 .. Len(a) + Len(b) :
               (a \o b)[i] = IF i <= Len(a) THEN a[i] ELSE b[i - Len(a)]
OBVIOUS

\* One turn more.
LEMMA OneTurn ==
  ASSUME IInv, SizeInv, NEW p \in Procs, NEW pos \in Nat, NEW n \in Nat, n > 0,
         pos + n <= Len(disk), NEW k \in 1 .. Len(ReadBlocks(pos, n)),
         Wanted(p, pos, ReadUpTo(pos, n, k - 1)) \in Seq(Byte)
  PROVE  /\ Wanted(p, pos, ReadUpTo(pos, n, k - 1)) \o ReadPart(p, pos, n, ReadBlocks(pos, n)[k])
              = Wanted(p, pos, ReadUpTo(pos, n, k))
         /\ Wanted(p, pos, ReadUpTo(pos, n, k)) \in Seq(Byte)
<1> DEFINE part == ReadPart(p, pos, n, ReadBlocks(pos, n)[k])
           done == ReadUpTo(pos, n, k - 1)
           next == ReadUpTo(pos, n, k)
           s == Wanted(p, pos, done)
<1>1. /\ part \in Seq(Byte) /\ Len(part) = next - done
      /\ \A i \in 1 .. Len(part) : part[i] = Image(p)[pos + done + i - 1]
  BY PartReads
<1>2. done \in Nat /\ next \in Nat /\ done <= next
  <2> DEFINE t == ToRead(pos, n, ReadBlocks(pos, n)[k])
  <2>1. done \in Nat /\ t \in Nat /\ next = done + t
    BY PartIs
  <2> HIDE DEF done, t, next
  <2> QED BY <2>1
<1>3. s \in Seq(Byte)
  OBVIOUS
<1> HIDE DEF part, done, next
<1>4. s = [i \in 1 .. done |-> Image(p)[pos + i - 1]]
  BY DEF Wanted
<1>5. Len(s) = done
  <2> HIDE DEF s
  <2> QED BY <1>2, <1>4
<1>6. \A i \in 1 .. done : s[i] = Image(p)[pos + i - 1]
  BY <1>4
<1> HIDE DEF s
<1> DEFINE g == [i \in 1 .. next |-> Image(p)[pos + i - 1]]
<1>7. \A i \in 1 .. done : s[i] = g[i]
  BY <1>2, <1>6
<1>8. ASSUME NEW i \in 1 .. next - done PROVE part[i] = g[done + i]
  <2>1. /\ done + i \in 1 .. next /\ i \in 1 .. Len(part)
        /\ pos + (done + i) - 1 = pos + done + i - 1
    BY <1>1, <1>2
  <2>2. part[i] = Image(p)[pos + done + i - 1]
    BY <1>1, <2>1
  <2>3. g[done + i] = Image(p)[pos + (done + i) - 1]
    BY <2>1
  <2> QED BY <2>1, <2>2, <2>3
<1>9. Wanted(p, pos, next) = [i \in 1 .. next |-> g[i]]
  BY DEF Wanted
<1> HIDE DEF g
<1>10. s \o part \in Seq(Byte) /\ s \o part = [i \in 1 .. next |-> g[i]]
  <2> DEFINE c == s \o part
  <2>1. /\ c \in Seq(Byte) /\ Len(c) = Len(s) + Len(part)
        /\ \A i \in 1 .. Len(s) + Len(part) :
              c[i] = IF i <= Len(s) THEN s[i] ELSE part[i - Len(s)]
    BY <1>1, <1>3, PutTogether
  <2>2. Len(s) + Len(part) = next
    BY <1>1, <1>2, <1>5
  <2> HIDE DEF c
  <2>3. ASSUME NEW i \in 1 .. next PROVE c[i] = g[i]
    <3>1. CASE i <= done
      BY <1>2, <1>5, <1>7, <2>1, <2>2, <3>1
    <3>2. CASE ~(i <= done)
      <4>1. i - done \in 1 .. next - done /\ done + (i - done) = i
        BY <1>2, <3>2
      <4>2. part[i - done] = g[done + (i - done)]
        BY <1>8, <4>1
      <4> QED BY <1>5, <2>1, <2>2, <3>2, <4>1, <4>2
    <3> QED BY <3>1, <3>2
  <2>4. c = [i \in 1 .. next |-> c[i]]
    BY <1>2, <2>1, <2>2
  <2>5. c = [i \in 1 .. next |-> g[i]]
    BY <2>3, <2>4
  <2> QED BY <2>1, <2>5 DEF c
<1> QED BY <1>9, <1>10 DEF s, part, done, next

\* aread gives what is wanted, whatever blocks it is in.
LEMMA AreadGives ==
  ASSUME IInv, SizeInv, NEW p \in Procs, NEW pos \in Nat, NEW n \in Nat, n > 0,
         pos + n <= Len(disk)
  PROVE  Aread(p, pos, n) = Wanted(p, pos, n)
<1> DEFINE m == Len(ReadBlocks(pos, n))
           W(k) == Wanted(p, pos, ReadUpTo(pos, n, k))
           Part(k) == ReadPart(p, pos, n, ReadBlocks(pos, n)[k])
<1>1. m \in Nat /\ m > 0 /\ ReadUpTo(pos, n, m) = n
  BY BlocksAre
<1>2. W(0) = << >> /\ W(0) \in Seq(Byte)
  <2>1. W(0) = << >>
    BY DEF Wanted, ReadUpTo
  <2>2. << >> \in Seq(Byte)
    OBVIOUS
  <2> QED BY <2>1, <2>2, Zenon
<1>3. \A k \in 1 .. m : W(k - 1) \in Seq(Byte) => W(k - 1) \o Part(k) = W(k) /\ W(k) \in Seq(Byte)
  BY OneTurn
<1> HIDE DEF m, W, Part
<1>4. \A k \in 0 .. m : W(k) \in Seq(Byte)
  <2> DEFINE T == {k \in Nat : k <= m => W(k) \in Seq(Byte)}
  <2>1. 0 \in T
    BY <1>2
  <2>2. ASSUME NEW k \in Nat, k \in T PROVE k + 1 \in T
    <3> SUFFICES ASSUME k + 1 <= m PROVE W(k + 1) \in Seq(Byte)
      OBVIOUS
    <3>1. k + 1 \in 1 .. m /\ (k + 1) - 1 = k /\ k <= m
      BY <1>1, <2>2
    <3> QED BY <1>3, <2>2, <3>1
  <2>3. Nat \subseteq T
    <3> HIDE DEF T
    <3> QED BY <2>1, <2>2, Counting
  <2> QED BY <1>1, <2>3
<1> DEFINE all == [k \in 0 .. m |-> W(k)]
<1>5. IsParts(all, p, pos, n)
  <2>1. ASSUME NEW k \in 0 .. m PROVE W(k) = ReadTurn(all, p, pos, n, k)
    <3>1. CASE k = 0
      BY <1>2, <3>1 DEF ReadTurn
    <3>2. CASE k # 0
      <4>1. k \in 1 .. m /\ k - 1 \in 0 .. m
        BY <1>1, <3>2
      <4>2. all[k - 1] = W(k - 1)
        BY <4>1
      <4>3. ReadTurn(all, p, pos, n, k) = all[k - 1] \o Part(k)
        BY <3>2 DEF ReadTurn, Part
      <4> QED BY <1>3, <1>4, <4>1, <4>2, <4>3
    <3> QED BY <3>1, <3>2
  <2>2. all = [k \in 0 .. m |-> ReadTurn(all, p, pos, n, k)]
    BY <2>1, Zenon
  <2> QED BY <2>2 DEF IsParts, m
<1>6. ASSUME NEW parts, IsParts(parts, p, pos, n) PROVE parts[m] = W(m)
  <2> DEFINE T == {k \in Nat : k <= m => parts[k] = W(k)}
  <2>1. \A k \in 0 .. m : parts[k] = ReadTurn(parts, p, pos, n, k)
    BY <1>6 DEF IsParts, m
  <2>2. 0 \in T
    BY <1>1, <1>2, <2>1 DEF ReadTurn
  <2>3. ASSUME NEW k \in Nat, k \in T PROVE k + 1 \in T
    <3> SUFFICES ASSUME k + 1 <= m PROVE parts[k + 1] = W(k + 1)
      OBVIOUS
    <3>1. /\ k + 1 \in 1 .. m /\ k + 1 \in 0 .. m /\ k \in 0 .. m /\ (k + 1) - 1 = k
          /\ k + 1 # 0 /\ k <= m
      BY <1>1, <2>3
    <3>2. parts[k + 1] = parts[(k + 1) - 1] \o Part(k + 1)
      BY <2>1, <3>1 DEF ReadTurn, Part
    <3>3. parts[k] = W(k) /\ W(k) \in Seq(Byte)
      BY <1>4, <2>3, <3>1
    <3> QED BY <1>3, <3>1, <3>2, <3>3
  <2>4. Nat \subseteq T
    <3> HIDE DEF T
    <3> QED BY <2>2, <2>3, Counting
  <2> QED BY <1>1, <2>4
<1>7. IsParts(CHOOSE parts : IsParts(parts, p, pos, n), p, pos, n)
  <2> HIDE DEF all
  <2> QED BY <1>5
<1>8. Aread(p, pos, n) = (CHOOSE parts : IsParts(parts, p, pos, n))[m]
  BY AreadIs DEF m
<1>9. Aread(p, pos, n) = W(m)
  BY <1>6, <1>7, <1>8
<1> QED BY <1>1, <1>9 DEF W

\* aread gives what the process itself has written, and the file elsewhere.
THEOREM ReadsItsOwnWrites == Spec => []ReadsOwnWrites
<1>1. ASSUME IInv, SizeInv PROVE ReadsOwnWrites
  <2> SUFFICES ASSUME NEW p \in Procs, NEW pos \in 0 .. Len(disk) - 1,
                      NEW n \in 1 .. Len(disk) - pos
               PROVE  Aread(p, pos, n) = [i \in 1 .. n |-> Image(p)[pos + i - 1]]
    BY DEF ReadsOwnWrites
  <2>1. Len(disk) \in Nat
    BY <1>1 DEF IInv, Types
  <2>2. pos \in Nat /\ n \in Nat /\ n > 0 /\ pos + n <= Len(disk)
    BY <2>1
  <2>3. Aread(p, pos, n) = Wanted(p, pos, n)
    BY <1>1, <2>2, AreadGives
  <2> QED BY <2>3 DEF Wanted
<1> QED BY <1>1, Invariance, SizeInvariance, PTL

=============================================================================
