-------------------------------- MODULE Atom --------------------------------
(***************************************************************************)
(* atom.c: "atomic" files, which the discuss server keeps its control      *)
(* files in.  aopen takes the exclusive fcntl lock; awrite copies the      *)
(* blocks it touches into memory and first writes each of them back as it  *)
(* was, to reserve quota, which may make the file longer; aclose writes    *)
(* the blocks and unlocks; aabort cuts the file back to its old length.    *)
(* Readers (start_read in coreutil.c) take the shared lock and read the    *)
(* file itself.                                                            *)
(*                                                                         *)
(* The file is a sequence of bytes; position pos of the code is element    *)
(* pos + 1.  awrite and aclose are one step per block.  The caller's       *)
(* buffer is nbytes copies of one byte.  The blocks are written by aclose  *)
(* in any order, which covers the order of its directory list.             *)
(***************************************************************************)
EXTENDS Integers, Sequences, FiniteSetsExt

CONSTANTS Procs,
          Bytes,          \* what can be written; 0 is what calloc gives
          ABLOCKSIZE,
          BlockNums,      \* 2^16: block_num is an unsigned short
          FirstContents,  \* the file at the start
          MaxSize,        \* bound: length of the file, in bytes
          MaxBytes        \* bound: length of one awrite

ASSUME SizesAssumption ==
    /\ ABLOCKSIZE \in Nat \ {0} /\ BlockNums \in Nat \ {0}
    /\ MaxSize \in Nat /\ MaxBytes \in Nat
    /\ FirstContents \in Seq(Bytes \cup {0}) /\ Len(FirstContents) <= MaxSize

\* The file stays below 32 megabytes: beyond that block_num wraps round to the
\* superblock's block, and a loop up to block 65535 (bn <= bend) never ends.
ASSUME BelowWrap == MaxSize <= (BlockNums - 1) * ABLOCKSIZE

VARIABLES disk,           \* the file
          af              \* process -> its afile

vars == << disk, af >>

Byte == Bytes \cup {0}
Block == [0 .. ABLOCKSIZE - 1 -> Byte]

\* (block_num) (pos / ABLOCKSIZE)
BlockOf(pos) == (pos \div ABLOCKSIZE) % BlockNums

NoWrite == [pos |-> 0, left |-> 0, byte |-> 0]

Closed == [pc |-> "none", file_size |-> 0, dirty |-> << >>, req |-> NoWrite]

AfileOK(a) ==
    /\ a.pc \in {"none", "shared", "open", "write", "close"}
    /\ a.file_size \in Nat
    /\ DOMAIN a.dirty \subseteq 0 .. BlockNums - 1
    /\ \A b \in DOMAIN a.dirty : a.dirty[b] \in Block
    /\ a.req \in [pos : Nat, left : Nat, byte : Byte]

\* Types: in particular the loop of awrite never has less than nothing left to write.
TypeOK == disk \in Seq(Byte) /\ DOMAIN af = Procs /\ \A p \in Procs : AfileOK(af[p])

Init == disk = FirstContents /\ af = [p \in Procs |-> Closed]

-----------------------------------------------------------------------------
(* read, write and ftruncate on the file *)

\* What read gives of block b into a buffer of zeros.
ReadBlock(b) ==
    [i \in 0 .. ABLOCKSIZE - 1 |->
       LET k == b * ABLOCKSIZE + i + 1 IN IF k <= Len(disk) THEN disk[k] ELSE 0]

\* The file after block blk is written at b: a write past the end fills with zeros.
WriteBlock(b, blk) ==
    [k \in 1 .. Max({Len(disk), (b + 1) * ABLOCKSIZE}) |->
       IF (k - 1) \div ABLOCKSIZE = b THEN blk[(k - 1) % ABLOCKSIZE]
       ELSE IF k <= Len(disk) THEN disk[k] ELSE 0]

-----------------------------------------------------------------------------
Unlocked(p) == af[p].pc = "none"
Shared(p) == af[p].pc = "shared"

\* Variant: the length is taken in whole blocks.
AopenRounded(p) ==
    /\ \A q \in Procs : Unlocked(q)
    /\ af' = [af EXCEPT ![p] = [Closed EXCEPT !.pc = "open",
                 !.file_size = ((Len(disk) + ABLOCKSIZE - 1) \div ABLOCKSIZE) * ABLOCKSIZE]]
    /\ UNCHANGED disk

Aopen(p) ==
    /\ \A q \in Procs : Unlocked(q)
    /\ af' = [af EXCEPT ![p] = [Closed EXCEPT !.pc = "open", !.file_size = Len(disk)]]
    /\ UNCHANGED disk

\* Variant: a reader that does not wait for a writer.
StartReadAtOnce(p) ==
    /\ Unlocked(p)
    /\ af' = [af EXCEPT ![p].pc = "shared"]
    /\ UNCHANGED disk

StartRead(p) ==
    /\ Unlocked(p) /\ \A q \in Procs : Unlocked(q) \/ Shared(q)
    /\ af' = [af EXCEPT ![p].pc = "shared"]
    /\ UNCHANGED disk

FinishRead(p) ==
    /\ Shared(p)
    /\ af' = [af EXCEPT ![p] = Closed]
    /\ UNCHANGED disk

\* A call of awrite; its loop is AwriteBlock.
Awrite(p, pos, nbytes, byte) ==
    /\ af[p].pc = "open"
    /\ af' = [af EXCEPT ![p].pc = "write",
                        ![p].req = [pos |-> pos, left |-> nbytes, byte |-> byte]]
    /\ UNCHANGED disk

\* Variant: always up to the end of the block.
TowriteAll(req) == ABLOCKSIZE - (req.pos % ABLOCKSIZE)

\* How much of the write goes to the first block it touches.
Towrite(req) ==
    LET room == ABLOCKSIZE - (req.pos % ABLOCKSIZE)
    IN  IF req.left < room THEN req.left ELSE room

\* Variant: the block is not written back first.
AwriteBlockInMemory(p) ==
    LET a == af[p]
        bn == BlockOf(a.req.pos)
        offset == a.req.pos % ABLOCKSIZE
        n == Towrite(a.req)
        bptr == IF bn \in DOMAIN a.dirty THEN a.dirty[bn] ELSE ReadBlock(bn)
        written == [i \in DOMAIN bptr |-> IF i \in offset .. offset + n - 1 THEN a.req.byte ELSE bptr[i]]
        left == a.req.left - n
        rest == [a.req EXCEPT !.pos = @ + n, !.left = left]
    IN  /\ a.pc = "write"
        /\ af' = [af EXCEPT ![p] = [a EXCEPT
                    !.dirty = [b \in DOMAIN @ \cup {bn} |-> IF b = bn THEN written ELSE @[b]],
                    !.pc = IF left = 0 THEN "open" ELSE "write",
                    !.req = IF left = 0 THEN NoWrite ELSE rest]]
        /\ UNCHANGED disk

\* One turn of awrite's loop.
AwriteBlock(p) ==
    LET a == af[p]
        bn == BlockOf(a.req.pos)
        offset == a.req.pos % ABLOCKSIZE
        n == Towrite(a.req)
        found == bn \in DOMAIN a.dirty
        bptr == IF found THEN a.dirty[bn] ELSE ReadBlock(bn)
        written == [i \in DOMAIN bptr |-> IF i \in offset .. offset + n - 1 THEN a.req.byte ELSE bptr[i]]
        left == a.req.left - n
        rest == [a.req EXCEPT !.pos = @ + n, !.left = left]
    IN  /\ a.pc = "write"
        /\ disk' = IF found THEN disk ELSE WriteBlock(bn, bptr)
        /\ af' = [af EXCEPT ![p] = [a EXCEPT
                    !.dirty = [b \in DOMAIN @ \cup {bn} |-> IF b = bn THEN written ELSE @[b]],
                    !.pc = IF left = 0 THEN "open" ELSE "write",
                    !.req = IF left = 0 THEN NoWrite ELSE rest]]

\* The write that reserves quota fails: awrite returns, with the blocks before
\* this one changed in memory.
AwriteFails(p) ==
    /\ af[p].pc = "write" /\ BlockOf(af[p].req.pos) \notin DOMAIN af[p].dirty
    /\ af' = [af EXCEPT ![p].pc = "open", ![p].req = NoWrite]
    /\ UNCHANGED disk

Aclose(p) ==
    /\ af[p].pc = "open"
    /\ af' = [af EXCEPT ![p].pc = "close"]
    /\ UNCHANGED disk

\* aclose's loop over the dirty blocks.
AcloseBlock(p, b) ==
    /\ af[p].pc = "close" /\ b \in DOMAIN af[p].dirty
    /\ disk' = WriteBlock(b, af[p].dirty[b])
    /\ af' = [af EXCEPT ![p].dirty = [c \in DOMAIN @ \ {b} |-> @[c]]]

AcloseUnlock(p) ==
    /\ af[p].pc = "close" /\ DOMAIN af[p].dirty = {}
    /\ af' = [af EXCEPT ![p] = Closed]
    /\ UNCHANGED disk

Aabort(p) ==
    /\ af[p].pc = "open"
    /\ disk' = SubSeq(disk, 1, af[p].file_size)
    /\ af' = [af EXCEPT ![p] = Closed]

\* The process dies, and the kernel drops its lock.  Not inside aclose: atom.c is
\* "banking on the fact that system crashes during the atomic close is not likely".
Crash(p) ==
    /\ af[p].pc \notin {"none", "close"}
    /\ af' = [af EXCEPT ![p] = Closed]
    /\ UNCHANGED disk

Work(p) ==
    \/ AwriteBlock(p) \/ AwriteFails(p)
    \/ \E b \in DOMAIN af[p].dirty : AcloseBlock(p, b)
    \/ AcloseUnlock(p)

Next ==
    \E p \in Procs :
       \/ Aopen(p) \/ StartRead(p) \/ FinishRead(p) \/ Aclose(p) \/ Aabort(p) \/ Crash(p)
       \/ \E pos \in 0 .. MaxSize - 1, n \in 1 .. MaxBytes, byte \in Bytes :
             pos + n <= MaxSize /\ Awrite(p, pos, n, byte)
       \/ Work(p)

Spec == Init /\ [][Next]_vars

-----------------------------------------------------------------------------
(* aread: what process p reads at pos while it has the file open *)

\* Variant: past the process's own changes.
AreadFile(p, pos, nbytes) == [i \in 1 .. nbytes |-> disk[pos + i]]

\* The turns of its loop as a fold over the blocks pos is in up to the last one.
Aread(p, pos, nbytes) ==
    LET first == pos \div ABLOCKSIZE
        blocks == [i \in 1 .. ((pos + nbytes - 1) \div ABLOCKSIZE) - first + 1 |->
                     first + i - 1]
        Offset(b) == IF b = first THEN pos % ABLOCKSIZE ELSE 0
        Done(b) == IF b = first THEN 0 ELSE b * ABLOCKSIZE - pos
        Toread(b) == Min({nbytes - Done(b), ABLOCKSIZE - Offset(b)})
        Part(b) == [i \in 1 .. Toread(b) |->
                      IF b % BlockNums \in DOMAIN af[p].dirty
                      THEN af[p].dirty[b % BlockNums][Offset(b) + i - 1]
                      ELSE disk[b * ABLOCKSIZE + Offset(b) + i]]
        Parts[k \in 0 .. Len(blocks)] == IF k = 0 THEN << >> ELSE Parts[k - 1] \o Part(blocks[k])
    IN  Parts[Len(blocks)]

-----------------------------------------------------------------------------
(* Properties *)

Positions == 0 .. (MaxSize \div ABLOCKSIZE + 1) * ABLOCKSIZE - 1

\* The file with p's changes, zeros past its end.
Image(p) ==
    [k \in Positions |->
       IF k \div ABLOCKSIZE \in DOMAIN af[p].dirty
       THEN af[p].dirty[k \div ABLOCKSIZE][k % ABLOCKSIZE]
       ELSE IF k < Len(disk) THEN disk[k + 1] ELSE 0]

\* The changes count as made when aclose starts, since it is not interrupted.
Contents ==
    [k \in Positions |->
       IF \E p \in Procs : af[p].pc = "close"
       THEN Image(CHOOSE p \in Procs : af[p].pc = "close")[k]
       ELSE IF k < Len(disk) THEN disk[k + 1] ELSE 0]

\* What a process that has the file open works on.
View == [p \in Procs |-> IF af[p].pc \in {"shared", "open", "write"} THEN Image(p) ELSE << >>]

File == INSTANCE AtomicFile WITH
    NoView <- << >>,
    Start <- [k \in Positions |-> IF k < Len(FirstContents) THEN FirstContents[k + 1] ELSE 0],
    contents <- Contents,
    view <- View

\* atom.c: "If the system crashes before this happens, the old version will still
\* be around.  If the system crashes after this happens, the new version will be
\* around."  Also: an abort, or an awrite that fails, changes nothing that can be
\* read, and what a reader sees under the shared lock does not change.
IsAtomic == File!FileSpec

\* aread gives what the process itself has written, and the file elsewhere, however
\* the range falls on the blocks.
ReadsOwnWrites ==
    \A p \in Procs : af[p].pc = "open" =>
       \A pos \in 0 .. Len(disk) - 1 : \A n \in 1 .. Len(disk) - pos :
          Aread(p, pos, n) = [i \in 1 .. n |-> Image(p)[pos + i - 1]]

\* "write block back out, thus reserving quota": when aclose comes to write a
\* block, the file already has all of it, so that it cannot run out of space.  And
\* an abort can always cut the file back to the length it had: the file is never
\* shorter than it was when it was opened.
EitherEndHasRoom ==
    \A p \in Procs :
       /\ \A b \in DOMAIN af[p].dirty : (b + 1) * ABLOCKSIZE <= Len(disk)
       /\ af[p].pc \in {"open", "write"} => af[p].file_size <= Len(disk)

=============================================================================
