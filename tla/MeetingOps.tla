----------------------------- MODULE MeetingOps -----------------------------
(***************************************************************************)
(* The two files of one discuss meeting as a value, and the operations of  *)
(* server/core.c on it as functions from one such value to the next.       *)
(*                                                                         *)
(* A meeting value m stands for the control file (superblock and chain     *)
(* blocks) and the transactions file:                                      *)
(*   first, last     first and last transaction that is not deleted        *)
(*   highest         highest transaction number given out                  *)
(*   highest_chain   highest chain number given out                        *)
(*   created         date_created # 0; cleared when a meeting is removed   *)
(*   highest_trn_addr  address of the last transaction added               *)
(*   blk             the chain blocks 1 .. highest ("lowest" is always 1)  *)
(*   trns            the transactions file, one entry per append           *)
(* Block k describes two things at once: transaction k (prev, next, pref,  *)
(* nref, trn_chain, trn_addr, deleted, flags) and chain k (chain_fref,     *)
(* chain_lref).  An address in the transactions file is the position of an *)
(* entry; the file starts with a trn_base, so 0 is the address of no       *)
(* transaction and stands for "expunged".                                  *)
(***************************************************************************)
EXTENDS Integers, Sequences

CONSTANTS TrnFlags,     \* the values of the user-settable transaction flags
          Junk          \* what an uninitialised trn_nums on the stack may hold

ASSUME JunkAssumption == Junk \subseteq Int

ChainBlk == [prev : Nat, next : Nat, pref : Int, nref : Nat,
             trn_chain : Int, trn_addr : Nat, deleted : BOOLEAN, flags : TrnFlags,
             chain_fref : Nat, chain_lref : Nat]

\* A header in the transactions file.  An add that failed may leave a header
\* behind, or only a part of one (whole = FALSE).
TrnHdr == [whole : BOOLEAN, current : Nat, orig_pref : Nat, prev_trn : Nat]

MtgType(m) ==
    /\ m \in [first : Nat, last : Nat, highest : Nat, highest_chain : Nat,
              created : BOOLEAN, highest_trn_addr : Nat,
              blk : [1 .. m.highest -> ChainBlk], trns : Seq(TrnHdr)]

\* create_mtg_priv: a meeting with no transactions.
EmptyMeeting ==
    [first |-> 0, last |-> 0, highest |-> 0, highest_chain |-> 0,
     created |-> TRUE, highest_trn_addr |-> 0, blk |-> [i \in 1 .. 0 |-> 0], trns |-> << >>]

\* chain_addr/read_chain: the transactions whose chain block can be read.
Trns(m) == 1 .. m.highest

Live(m) == {i \in Trns(m) : ~m.blk[i].deleted}
Stored(m) == {i \in Trns(m) : m.blk[i].trn_addr # 0}
ChainMembers(m, c) == {i \in Live(m) : m.blk[i].trn_chain = c}

-----------------------------------------------------------------------------
(* add_trn_priv *)

\* The checks on reply_trn, which must be readable and not deleted.
CanReply(m, reply) == reply # 0 => reply \in Live(m)

\* The chain the new transaction joins: that of the transaction replied to,
\* or a new one.
AddChain(m, reply) ==
    IF reply # 0 THEN m.blk[reply].trn_chain ELSE m.highest_chain + 1

\* Its pref: the last transaction of the chain, not the one replied to.
AddPref(m, reply) ==
    IF reply # 0 THEN m.blk[AddChain(m, reply)].chain_lref ELSE 0

\* Variant: prev_trn is whatever precedes it in the file, a failed add included.
AddHdrAfterAny(m, reply) ==
    [whole |-> TRUE, current |-> m.highest + 1, orig_pref |-> AddPref(m, reply),
     prev_trn |-> Len(m.trns)]

\* The header appended to the transactions file.
AddHdr(m, reply) ==
    [whole |-> TRUE, current |-> m.highest + 1, orig_pref |-> AddPref(m, reply),
     prev_trn |-> m.highest_trn_addr]

\* The chain block of the new transaction as it is first written.
AddBlk(m, reply, flags) ==
    [prev |-> m.last, next |-> 0, pref |-> AddPref(m, reply), nref |-> 0,
     trn_chain |-> AddChain(m, reply), trn_addr |-> Len(m.trns) + 1,
     deleted |-> FALSE, flags |-> flags, chain_fref |-> 0, chain_lref |-> 0]

\* Block i after the add: lref (and fref) of the chain, nref of pref and next
\* of prev are brought up to date.
AddedBlk(m, reply, flags, i) ==
    LET n == m.highest + 1
        c == AddChain(m, reply)
        pref == AddPref(m, reply)
        written == IF i = n THEN AddBlk(m, reply, flags) ELSE m.blk[i]
    IN  [written EXCEPT !.chain_lref = IF i = c THEN n ELSE @,
                        !.chain_fref = IF i = c /\ pref = 0 THEN n ELSE @,
                        !.nref = IF reply # 0 /\ i = pref THEN n ELSE @,
                        !.next = IF i = m.last THEN n ELSE @]

\* Variant: a new thread that does not use up its chain number.
AddTrnSameChain(m, reply, flags) ==
    [m EXCEPT !.highest = m.highest + 1,
              !.last = m.highest + 1,
              !.first = IF @ = 0 THEN m.highest + 1 ELSE @,
              !.highest_trn_addr = Len(m.trns) + 1,
              !.blk = [i \in 1 .. m.highest + 1 |-> AddedBlk(m, reply, flags, i)],
              !.trns = Append(@, AddHdr(m, reply))]

\* The superblock, the chain blocks and the transactions file after the add.  The
\* number is the next one: a user asks for none, and expunge and recover, which
\* do (desired_trn), ask for exactly that one as they go through 1, 2, 3...
AddTrn(m, reply, flags) ==
    [m EXCEPT !.highest = m.highest + 1,
              !.highest_chain = IF reply = 0 THEN AddChain(m, reply) ELSE @,
              !.last = m.highest + 1,
              !.first = IF @ = 0 THEN m.highest + 1 ELSE @,
              !.highest_trn_addr = Len(m.trns) + 1,
              !.blk = [i \in 1 .. m.highest + 1 |-> AddedBlk(m, reply, flags, i)],
              !.trns = Append(@, AddHdr(m, reply))]

\* werror: a write to the transactions file failed.  core_abort throws the
\* changes to the control file away, but what was appended stays: the header,
\* or a part of it.
AbortAdd(m, reply, whole) ==
    [m EXCEPT !.trns = Append(@, [AddHdr(m, reply) EXCEPT !.whole = whole])]

-----------------------------------------------------------------------------
(* expunge_trn: a chain block for a number that has no transaction.  pref  *)
(* and trn_chain are never set (they are what the stack held), and the     *)
(* flags are whatever the stack held with CB_DELETED or-ed in.             *)

\* Variant: super.highest is not moved on.
ExpungeTrnSameHighest(m, pref, chain, flags) ==
    LET n == m.highest + 1
        hole == [prev |-> 0, next |-> 0, pref |-> pref, nref |-> 0,
                 trn_chain |-> chain, trn_addr |-> 0, deleted |-> TRUE, flags |-> flags,
                 chain_fref |-> 0, chain_lref |-> 0]
    IN  [m EXCEPT !.blk = [i \in 1 .. n |-> IF i = n THEN hole ELSE m.blk[i]]]

ExpungeTrn(m, pref, chain, flags) ==
    LET n == m.highest + 1
        hole == [prev |-> 0, next |-> 0, pref |-> pref, nref |-> 0,
                 trn_chain |-> chain, trn_addr |-> 0, deleted |-> TRUE, flags |-> flags,
                 chain_fref |-> 0, chain_lref |-> 0]
    IN  [m EXCEPT !.highest = n,
                  !.blk = [i \in 1 .. n |-> IF i = n THEN hole ELSE m.blk[i]]]

-----------------------------------------------------------------------------
(* set_trn_flags, delete_trn *)

\* Both refuse a deleted or expunged transaction with DELETED_TRN.
CanDelete(m, t) == t \in Trns(m) /\ ~m.blk[t].deleted /\ m.blk[t].trn_addr # 0

SetTrnFlags(m, t, flags) == [m EXCEPT !.blk[t].flags = flags]

\* Variant: the text is given up as well, as if t were expunged.
UnlinkedBlkNoText(m, t, i) ==
    [m.blk[i] EXCEPT !.deleted = (i = t) \/ @,
                     !.trn_addr = IF i = t THEN 0 ELSE @]

\* Block i after transaction t is unlinked from the meeting and from its chain;
\* t's own links stay as they were.
UnlinkedBlk(m, t, i) ==
    LET cb == m.blk[t]
    IN  [m.blk[i] EXCEPT
           !.deleted = (i = t) \/ @,
           !.next = IF i = cb.prev THEN cb.next ELSE @,
           !.prev = IF i = cb.next THEN cb.prev ELSE @,
           !.nref = IF i = cb.pref THEN cb.nref ELSE @,
           !.pref = IF i = cb.nref THEN cb.pref ELSE @,
           !.chain_lref = IF i = cb.trn_chain /\ cb.nref = 0 THEN cb.pref ELSE @,
           !.chain_fref = IF i = cb.trn_chain /\ cb.pref = 0 THEN cb.nref ELSE @]

DeleteTrn(m, t) ==
    [m EXCEPT !.blk = [i \in Trns(m) |-> UnlinkedBlk(m, t, i)],
              !.first = IF m.blk[t].prev = 0 THEN m.blk[t].next ELSE @,
              !.last = IF m.blk[t].next = 0 THEN m.blk[t].prev ELSE @]

-----------------------------------------------------------------------------
(* retrieve_trn *)

\* Refused with TRN_NOT_DELETED or EXPUNGED_TRN otherwise.
CanRetrieve(m, t) == t \in Trns(m) /\ m.blk[t].deleted /\ m.blk[t].trn_addr # 0

\* Variant: the block after t in its chain is not told of t.
RelinkedBlkOneWay(m, t, nb, i) ==
    LET c == m.blk[t].trn_chain
    IN  [m.blk[i] EXCEPT
           !.deleted = (i # t) /\ @,
           !.next = IF i = t THEN nb.next ELSE IF i = nb.prev THEN t ELSE @,
           !.prev = IF i = t THEN nb.prev ELSE IF i = nb.next THEN t ELSE @,
           !.nref = IF i = t THEN nb.nref ELSE IF i = nb.pref THEN t ELSE @,
           !.pref = IF i = t THEN nb.pref ELSE @,
           !.chain_lref = IF i = c /\ nb.nref = 0 THEN t ELSE @,
           !.chain_fref = IF i = c /\ nb.pref = 0 THEN t ELSE @]

\* Block i once the four neighbours nb of t have been found and t is linked in.
RelinkedBlk(m, t, nb, i) ==
    LET c == m.blk[t].trn_chain
    IN  [m.blk[i] EXCEPT
           !.deleted = (i # t) /\ @,
           !.next = IF i = t THEN nb.next ELSE IF i = nb.prev THEN t ELSE @,
           !.prev = IF i = t THEN nb.prev ELSE IF i = nb.next THEN t ELSE @,
           !.nref = IF i = t THEN nb.nref ELSE IF i = nb.pref THEN t ELSE @,
           !.pref = IF i = t THEN nb.pref ELSE IF i = nb.nref THEN t ELSE @,
           !.chain_lref = IF i = c /\ nb.nref = 0 THEN t ELSE @,
           !.chain_fref = IF i = c /\ nb.pref = 0 THEN t ELSE @]

RelinkTrn(m, t, nb) ==
    [m EXCEPT !.blk = [i \in Trns(m) |-> RelinkedBlk(m, t, nb, i)],
              !.first = IF nb.prev = 0 THEN t ELSE @,
              !.last = IF nb.next = 0 THEN t ELSE @]

-----------------------------------------------------------------------------
(* What the links are for: neighbours in a set of transaction numbers.     *)

IsSucc(S, i, n) == \/ n = 0 /\ \A j \in S : j <= i
                   \/ n \in S /\ n > i /\ \A j \in S : j > i => j >= n
IsPred(S, i, p) == \/ p = 0 /\ \A j \in S : j >= i
                   \/ p \in S /\ p < i /\ \A j \in S : j < i => j <= p
IsFirst(S, f) == \/ f = 0 /\ S = {}
                 \/ f \in S /\ \A j \in S : j >= f
IsLast(S, l) == \/ l = 0 /\ S = {}
                \/ l \in S /\ \A j \in S : j <= l

\* Following next or prev from any transaction that is not deleted visits the
\* transactions that are not deleted, in order, and first and last are the ends.
MeetingLinked(m) ==
    /\ IsFirst(Live(m), m.first)
    /\ IsLast(Live(m), m.last)
    /\ \A i \in Live(m) : /\ IsSucc(Live(m), i, m.blk[i].next)
                          /\ IsPred(Live(m), i, m.blk[i].prev)

\* The same for nref and pref within a chain; fref and lref are its ends.  A
\* chain with no transactions left, or not used yet, has neither.
ChainsLinked(m) ==
    /\ \A c \in Trns(m) : /\ IsFirst(ChainMembers(m, c), m.blk[c].chain_fref)
                          /\ IsLast(ChainMembers(m, c), m.blk[c].chain_lref)
    /\ \A i \in Live(m) :
          /\ IsSucc(ChainMembers(m, m.blk[i].trn_chain), i, m.blk[i].nref)
          /\ IsPred(ChainMembers(m, m.blk[i].trn_chain), i, m.blk[i].pref)

\* mtg.h: "we will never have more chains than transactions", so that block k
\* can describe chain k; and every transaction that has text is in a chain.
ChainNumbers(m) ==
    /\ m.highest_chain <= m.highest
    /\ Live(m) \subseteq Stored(m)
    /\ \A i \in Stored(m) : m.blk[i].trn_chain \in 1 .. m.highest_chain

\* Each stored transaction has its own header in the transactions file, and the
\* prev_trn links lead from the last one added back through all of them in
\* descending order, past what failed adds have left behind.
TrnLog(m) ==
    LET Addr(i) == IF i = 0 THEN 0 ELSE m.blk[i].trn_addr
    IN  /\ \A i \in Stored(m) :
             /\ Addr(i) \in 1 .. Len(m.trns)
             /\ m.trns[Addr(i)].whole
             /\ m.trns[Addr(i)].current = i
             /\ \E p \in Stored(m) \cup {0} :
                   IsPred(Stored(m), i, p) /\ m.trns[Addr(i)].prev_trn = Addr(p)
        /\ \E l \in Stored(m) \cup {0} :
             IsLast(Stored(m), l) /\ m.highest_trn_addr = Addr(l)

\* mtg.h: the header "remembers what pref was (so that chains can be
\* reconstructed)": it leads to an earlier stored transaction of the same chain,
\* and each chain has only one transaction whose header leads nowhere.
ChainsRecorded(m) ==
    LET OrigPref(i) == m.trns[m.blk[i].trn_addr].orig_pref
    IN  /\ \A i \in Stored(m) : OrigPref(i) # 0 =>
             /\ OrigPref(i) < i
             /\ OrigPref(i) \in Stored(m)
             /\ m.blk[OrigPref(i)].trn_chain = m.blk[i].trn_chain
        /\ \A i, j \in Stored(m) :
             (OrigPref(i) = 0 /\ OrigPref(j) = 0 /\ i # j)
               => m.blk[i].trn_chain # m.blk[j].trn_chain

=============================================================================
