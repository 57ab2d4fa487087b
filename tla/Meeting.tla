------------------------------ MODULE Meeting ------------------------------
(***************************************************************************)
(* One meeting of the discuss server, server/core.c, as its callers change *)
(* it.  An operation takes the exclusive lock on the control file (aopen), *)
(* works on it and writes it back (aclose) before it lets go of the lock,  *)
(* so add, delete and set flags are one step each.  retrieve_trn is        *)
(* followed through its four search loops, one block read per step: "op"   *)
(* is the call in progress and holds the lock, so nothing else happens to  *)
(* the meeting meanwhile, except that the server may die.                  *)
(*                                                                         *)
(* A call that the server refuses (no such transaction, deleted, not       *)
(* deleted, expunged, no access) changes neither file: no step.            *)
(***************************************************************************)
EXTENDS MeetingOps

CONSTANTS MaxTrn,       \* bound: transaction numbers given out
          MaxAppends    \* bound: entries in the transactions file

ASSUME BoundsAssumption == MaxTrn \in Nat /\ MaxAppends \in Nat

VARIABLES mtg,          \* the meeting's files
          op            \* retrieve_trn in progress

vars == << mtg, op >>

Idle == [pc |-> "idle", t |-> 0, pref |-> 0, nref |-> 0, prev |-> 0, next |-> 0]

OpType == [pc : {"idle", "pref", "nref", "prev", "next", "write"},
           t : Nat, pref : Nat, nref : Nat, prev : Nat, next : Nat]

\* Types: add_trn and expunge_trn leave exactly highest blocks, retrieve_trn stays at
\* or above 0 in all four searches.
TypeOK == MtgType(mtg) /\ op \in OpType

Init == mtg = EmptyMeeting /\ op = Idle

Unlocked == op.pc = "idle"

RoomForTrn == mtg.highest < MaxTrn /\ Len(mtg.trns) < MaxAppends

-----------------------------------------------------------------------------
\* add_trn and add_trn2, through add_trn_priv.
Add(reply, flags) ==
    /\ Unlocked /\ RoomForTrn
    /\ CanReply(mtg, reply)
    /\ mtg' = AddTrn(mtg, reply, flags)
    /\ UNCHANGED op

\* A write fails, or the server dies after it has begun to append.
FailAdd(reply, whole) ==
    /\ Unlocked /\ RoomForTrn
    /\ CanReply(mtg, reply)
    /\ mtg' = AbortAdd(mtg, reply, whole)
    /\ UNCHANGED op

\* Called by the expunge and recover programs as they build a meeting.
Expunge(pref, chain, flags) ==
    /\ Unlocked /\ mtg.highest < MaxTrn
    /\ mtg' = ExpungeTrn(mtg, pref, chain, flags)
    /\ UNCHANGED op

SetFlags(t, flags) ==
    /\ Unlocked /\ CanDelete(mtg, t)
    /\ mtg' = SetTrnFlags(mtg, t, flags)
    /\ UNCHANGED op

Delete(t) ==
    /\ Unlocked /\ CanDelete(mtg, t)
    /\ mtg' = DeleteTrn(mtg, t)
    /\ UNCHANGED op

-----------------------------------------------------------------------------
(* retrieve_trn *)

\* Variant: next starts beside t even when nothing comes after it.
StartRetrievePastEnd(t) ==
    LET chain == mtg.blk[mtg.blk[t].trn_chain]
    IN  /\ Unlocked /\ CanRetrieve(mtg, t)
        /\ op' = [pc |-> "pref", t |-> t,
                  pref |-> IF chain.chain_fref > t THEN 0 ELSE chain.chain_fref,
                  nref |-> IF chain.chain_lref < t THEN 0 ELSE chain.chain_lref,
                  prev |-> IF mtg.first > t \/ mtg.first = 0 THEN 0 ELSE t - 1,
                  next |-> t + 1]
        /\ UNCHANGED mtg

\* Where the searches start: pref and nref at the ends of the chain, prev and
\* next beside the transaction, or 0 when there is nothing on that side.
StartRetrieve(t) ==
    LET chain == mtg.blk[mtg.blk[t].trn_chain]
    IN  /\ Unlocked /\ CanRetrieve(mtg, t)
        /\ op' = [pc |-> "pref", t |-> t,
                  pref |-> IF chain.chain_fref > t THEN 0 ELSE chain.chain_fref,
                  nref |-> IF chain.chain_lref < t THEN 0 ELSE chain.chain_lref,
                  prev |-> IF mtg.first > t \/ mtg.first = 0 THEN 0 ELSE t - 1,
                  next |-> IF mtg.last < t THEN 0 ELSE t + 1]
        /\ UNCHANGED mtg

\* Variant: the head of the chain is taken for the one before t.
SearchPrefHead ==
    /\ op.pc = "pref"
    /\ op' = [op EXCEPT !.pc = "nref"]
    /\ UNCHANGED mtg

\* "advance until we get past us"
SearchPref ==
    LET nref == mtg.blk[op.pref].nref
    IN  /\ op.pc = "pref"
        /\ op' = IF op.pref # 0 /\ nref <= op.t /\ nref # 0
                 THEN [op EXCEPT !.pref = nref]
                 ELSE [op EXCEPT !.pc = "nref"]
        /\ UNCHANGED mtg

\* Variant: the loop reads the same block again.
SearchNrefStuck ==
    LET pref == mtg.blk[op.nref].pref
    IN  /\ op.pc = "nref"
        /\ op' = IF op.nref # 0 /\ pref >= op.t THEN op ELSE [op EXCEPT !.pc = "prev"]
        /\ UNCHANGED mtg

\* The same from the other end.
SearchNref ==
    LET pref == mtg.blk[op.nref].pref
    IN  /\ op.pc = "nref"
        /\ op' = IF op.nref # 0 /\ pref >= op.t
                 THEN [op EXCEPT !.nref = pref]
                 ELSE [op EXCEPT !.pc = "prev"]
        /\ UNCHANGED mtg

\* Down and up over deleted transactions.
SearchPrev ==
    /\ op.pc = "prev"
    /\ op' = IF op.prev # 0 /\ mtg.blk[op.prev].deleted
             THEN [op EXCEPT !.prev = @ - 1]
             ELSE [op EXCEPT !.pc = "next"]
    /\ UNCHANGED mtg

SearchNext ==
    /\ op.pc = "next"
    /\ op' = IF op.next # 0 /\ mtg.blk[op.next].deleted
             THEN [op EXCEPT !.next = @ + 1]
             ELSE [op EXCEPT !.pc = "write"]
    /\ UNCHANGED mtg

FinishRetrieve ==
    /\ op.pc = "write"
    /\ mtg' = RelinkTrn(mtg, op.t, op)
    /\ op' = Idle

\* The server dies before aclose: its changes were only in memory, and the
\* kernel drops its lock.
ServerDies ==
    /\ ~Unlocked
    /\ op' = Idle
    /\ UNCHANGED mtg

Search == SearchPref \/ SearchNref \/ SearchPrev \/ SearchNext \/ FinishRetrieve

Next ==
    \/ \E reply \in 0 .. MaxTrn : \/ \E flags \in TrnFlags : Add(reply, flags)
                                  \/ \E whole \in BOOLEAN : FailAdd(reply, whole)
    \/ \E pref, chain \in Junk, flags \in TrnFlags : Expunge(pref, chain, flags)
    \/ \E t \in 1 .. MaxTrn : \/ \E flags \in TrnFlags : SetFlags(t, flags)
                              \/ Delete(t)
                              \/ StartRetrieve(t)
    \/ Search
    \/ ServerDies

Spec == Init /\ [][Next]_vars

\* A call that holds the lock keeps running: the server process is never blocked.
FairSpec == Spec /\ WF_vars(Search)

-----------------------------------------------------------------------------
(* Properties *)

\* Links and ends of the meeting and of its chains, whatever order adds,
\* deletes, retrieves and expunged numbers come in.
LinksOK == MeetingLinked(mtg) /\ ChainsLinked(mtg)

\* There is a block for every chain number given out, and every transaction with
\* text is in a chain of the meeting, junk in the blocks of expunged ones or not.
ChainNumbersOK == ChainNumbers(mtg)

\* What recover.c relies on to rebuild a meeting from its transactions file.
LogOK == TrnLog(mtg) /\ ChainsRecorded(mtg)

\* Every search of retrieve_trn reads only blocks that exist: read_chain never
\* returns NO_SUCH_TRN in its loops, and so no retrieve is given up half way.
SearchInRange ==
    ~Unlocked => {op.pref, op.nref, op.prev, op.next} \subseteq 0 .. mtg.highest

\* Half-way through its searches, retrieve_trn has in pref (and prev, nref, next)
\* a transaction on the right side of t with nothing missed so far; once a loop is
\* over it has the neighbour itself, in t's chain and among all transactions.
SearchInv ==
    LET t == op.t
        C == ChainMembers(mtg, mtg.blk[t].trn_chain)
        L == Live(mtg)
    IN  ~Unlocked =>
          /\ CanRetrieve(mtg, t)
          /\ IF op.pc = "pref"
             THEN \/ op.pref = 0 /\ \A j \in C : j >= t
                  \/ op.pref \in C /\ op.pref < t
             ELSE IsPred(C, t, op.pref)
          /\ IF op.pc \in {"pref", "nref"}
             THEN \/ op.nref = 0 /\ \A j \in C : j <= t
                  \/ op.nref \in C /\ op.nref > t
             ELSE IsSucc(C, t, op.nref)
          /\ IF op.pc \in {"pref", "nref", "prev"}
             THEN op.prev < t /\ \A j \in L : j < t => j <= op.prev
             ELSE IsPred(L, t, op.prev)
          /\ IF op.pc # "write"
             THEN \/ op.next = 0 /\ \A j \in L : j <= t
                  \/ op.next \in t + 1 .. mtg.last /\ \A j \in L : j > t => j >= op.next
             ELSE IsSucc(L, t, op.next)

\* retrieve_trn's searches find the true neighbours, and stay among the blocks that
\* there are on the way.
SearchOK == SearchInv /\ SearchInRange

\* A number once given out keeps its transaction, its chain and its text.
NumbersAreForGood ==
    [][ /\ mtg'.highest >= mtg.highest
        /\ \A i \in Trns(mtg) : /\ mtg'.blk[i].trn_addr = mtg.blk[i].trn_addr
                                /\ mtg'.blk[i].trn_chain = mtg.blk[i].trn_chain
        /\ \A i \in Stored(mtg) :
             mtg'.trns[mtg.blk[i].trn_addr] = mtg.trns[mtg.blk[i].trn_addr] ]_mtg

\* The loops of retrieve_trn end, and with them its lock on the meeting.
RetrieveEnds == ~Unlocked ~> Unlocked

\* The thread of each number given out; an expunged one has none.
Threads(m) == [i \in Trns(m) |-> IF m.blk[i].trn_addr = 0 THEN 0 ELSE m.blk[i].trn_chain]

\* A meeting is a Conference: in particular a retrieve, however many steps its
\* searches take, brings back one transaction in its own thread and moves nothing else.
Conf == INSTANCE Conference WITH
          count <- mtg.highest, threads <- Threads(mtg), shown <- Live(mtg)

IsConference == Conf!ConfSpec

=============================================================================
