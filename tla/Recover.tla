------------------------------ MODULE Recover ------------------------------
(***************************************************************************)
(* The recover program (server/recover.c): from the transactions file of a *)
(* meeting whose control file is lost it makes the meeting anew.  It looks *)
(* for the last header in the file, follows prev_trn from there to find    *)
(* where each transaction is, and then adds them to a new meeting one by   *)
(* one, with a chain block of an expunged transaction for every number it  *)
(* has not found.                                                          *)
(*                                                                         *)
(* The new meeting is made at its final place, so that servers let users   *)
(* post to it and delete from it while the program is still adding.        *)
(*                                                                         *)
(* What looks like a header inside the text of a transaction is left out.  *)
(***************************************************************************)
EXTENDS MeetingOps, FiniteSets

CONSTANTS MaxTrn,       \* bound: transaction numbers of the old meeting
          MaxFile,      \* bound: entries of its transactions file
          MaxPosts      \* bound: what users post to the new meeting meanwhile

ASSUME NoFlagsAssumption == 0 \in TrnFlags
ASSUME BoundsAssumption == MaxTrn \in Nat /\ MaxFile \in Nat /\ MaxPosts \in Nat

VARIABLES old,      \* the meeting as it was when its control file was lost
          rec,      \* the program: pc, current_pos, num_trns, trn_pos, i
          new,      \* the meeting it makes
          from,     \* for each number of new, the entry of old.trns it was made
                    \* from, 0 for none
          users     \* what users have done to new: posts made, and whether any
                    \* transaction was deleted

vars == <<old, rec, new, from, users>>

Addr(i) == old.blk[i].trn_addr
Addresses == {Addr(i) : i \in Stored(old)}

Init ==
    /\ old = EmptyMeeting
    /\ rec = [pc |-> "not started", current_pos |-> 0, num_trns |-> 0, trn_pos |-> << >>, i |-> 0]
    /\ new = EmptyMeeting
    /\ from = << >>
    /\ users = [posts |-> 0, deleted |-> FALSE]

-----------------------------------------------------------------------------
(* The history of the old meeting: the operations of core.c on its files.  *)

Lives == rec.pc = "not started" /\ UNCHANGED <<rec, new, from, users>>
Room == old.highest < MaxTrn /\ Len(old.trns) < MaxFile

Add(reply, flags) ==
    /\ Lives /\ Room
    /\ CanReply(old, reply)
    /\ old' = AddTrn(old, reply, flags)

\* A write failed, or the server died before aclose: the control file does not
\* know of what is in the transactions file.
LostAdd(reply, whole) ==
    /\ Lives /\ Room
    /\ CanReply(old, reply)
    /\ old' = AbortAdd(old, reply, whole)

\* A number the expunge program has left out; the file it writes has no failed
\* adds in it yet.
Hole(pref, chain, flags) ==
    /\ Lives
    /\ old.highest < MaxTrn
    /\ Len(old.trns) = Cardinality(Stored(old))
    /\ old' = ExpungeTrn(old, pref, chain, flags)

Delete(t) ==
    /\ Lives
    /\ CanDelete(old, t)
    /\ old' = DeleteTrn(old, t)

-----------------------------------------------------------------------------
(* recover.c *)

Exits(how) == rec' = [rec EXCEPT !.pc = how]

\* main and read_header: the parameters are read from the trn_base, and the new
\* meeting is created; then an empty file is the end of it.
CreateMtg ==
    /\ rec.pc = "not started"
    /\ Exits(IF old.trns = << >> THEN "done" ELSE "scan")
    /\ UNCHANGED <<old, new, from, users>>

\* The entries maybe_read_trn_hdr can take for a transaction when it reads the
\* file from its end: the last one that is in the meeting, and behind it the
\* header of an add that was lost, if what the header speaks of is there too.
MayLookWhole == {k \in DOMAIN old.trns :
                    old.trns[k].whole /\ \A a \in Addresses : a <= k}

\* Variant: the array is not cleared.
ReadLastTrnNotZeroed ==
    /\ rec.pc = "scan"
    /\ \E k \in MayLookWhole :
          rec' = [rec EXCEPT !.pc = "walk", !.current_pos = k,
                             !.num_trns = old.trns[k].current]
    /\ UNCHANGED <<old, new, from, users>>

\* read_last_trn, and the array of positions zeroed.  The entry trn_pos[num_trns] is
\* one that the code uses and has not allocated: recover.c asks for th.current ints and
\* goes up to index th.current.  Here that entry exists and keeps its value; where the
\* memory behind the array is written by others, the program ends (Killed).
ReadLastTrn ==
    /\ rec.pc = "scan"
    /\ \E k \in MayLookWhole :
          rec' = [rec EXCEPT !.pc = "walk", !.current_pos = k,
                             !.num_trns = old.trns[k].current,
                             !.trn_pos = [i \in 1 .. old.trns[k].current |-> 0]]
    /\ UNCHANGED <<old, new, from, users>>

\* No header found: th and current_pos are those of the last bytes tried, and
\* read_trn_hdr gives up.
NothingFound ==
    /\ rec.pc = "scan"
    /\ Addresses = {}
    /\ Exits("failed")
    /\ UNCHANGED <<old, new, from, users>>

\* The loop that fills trn_pos, one header at a time.
Walk ==
    /\ rec.pc = "walk"
    /\ LET th == old.trns[rec.current_pos] IN
       IF rec.current_pos = 0 THEN rec' = [rec EXCEPT !.pc = "save", !.i = 1]
       ELSE IF th.whole
         THEN rec' = [rec EXCEPT !.trn_pos[th.current] = rec.current_pos,
                                 !.current_pos = th.prev_trn]
         ELSE Exits("failed")
    /\ UNCHANGED <<old, new, from, users>>

Saving == rec.pc = "save" /\ rec.i <= rec.num_trns
Hdr == old.trns[rec.trn_pos[rec.i]]
NextNumber == rec' = [rec EXCEPT !.i = @ + 1]

\* Variant: each transaction starts a thread of its own.
SaveTrnNoThread ==
    /\ Saving /\ rec.trn_pos[rec.i] # 0
    /\ new' = AddTrn(new, 0, 0)
    /\ from' = Append(from, rec.trn_pos[rec.i])
    /\ NextNumber
    /\ UNCHANGED <<old, users>>

\* save_trn: add_trn_priv with the header's orig_pref as the transaction replied
\* to, its own number as the desired one, which it gets only if that number is
\* still free, and no flags.
SaveTrn ==
    /\ Saving /\ rec.trn_pos[rec.i] # 0
    /\ CanReply(new, Hdr.orig_pref)
    /\ new' = AddTrn(new, Hdr.orig_pref, 0)
    /\ from' = Append(from, rec.trn_pos[rec.i])
    /\ NextNumber
    /\ UNCHANGED <<old, users>>

\* add_trn_priv refuses a reply to a deleted transaction, or its write fails.
SaveFails ==
    /\ Saving /\ rec.trn_pos[rec.i] # 0
    /\ \/ ~CanReply(new, Hdr.orig_pref) /\ UNCHANGED new
       \/ /\ CanReply(new, Hdr.orig_pref)
          /\ \E whole \in BOOLEAN : new' = AbortAdd(new, Hdr.orig_pref, whole)
    /\ Exits("failed")
    /\ UNCHANGED <<old, from, users>>

\* Variant: numbers that are not found are passed over.
SaveHoleNot(pref, chain, flags) ==
    /\ Saving /\ rec.trn_pos[rec.i] = 0
    /\ NextNumber
    /\ UNCHANGED <<old, new, from, users>>

SaveHole(pref, chain, flags) ==
    /\ Saving /\ rec.trn_pos[rec.i] = 0
    /\ new' = ExpungeTrn(new, pref, chain, flags)
    /\ from' = Append(from, 0)
    /\ NextNumber
    /\ UNCHANGED <<old, users>>

Finish ==
    /\ rec.pc = "save" /\ rec.i > rec.num_trns
    /\ Exits("done")
    /\ UNCHANGED <<old, new, from, users>>

\* The new meeting stays where it is, and another run is refused by
\* create_mtg_priv.
Killed ==
    /\ rec.pc \in {"scan", "walk", "save"}
    /\ Exits("failed")
    /\ UNCHANGED <<old, new, from, users>>

-----------------------------------------------------------------------------
(* A server's users at the new meeting, from the moment it is created.     *)

Post(reply, flags) ==
    /\ rec.pc \notin {"not started", "done", "failed"}
    /\ users.posts < MaxPosts
    /\ CanReply(new, reply)
    /\ new' = AddTrn(new, reply, flags)
    /\ from' = Append(from, 0)
    /\ users' = [users EXCEPT !.posts = @ + 1]
    /\ UNCHANGED <<old, rec>>

PostDelete(t) ==
    /\ rec.pc \notin {"not started", "done", "failed"}
    /\ ~users.deleted
    /\ MaxPosts > 0
    /\ CanDelete(new, t)
    /\ new' = DeleteTrn(new, t)
    /\ users' = [users EXCEPT !.deleted = TRUE]
    /\ UNCHANGED <<old, rec, from>>

-----------------------------------------------------------------------------
History ==
    \/ \E reply \in Live(old) \cup {0}, f \in TrnFlags : Add(reply, f)
    \/ \E reply \in Live(old) \cup {0}, whole \in BOOLEAN : LostAdd(reply, whole)
    \/ \E p, c \in Junk, f \in TrnFlags : Hole(p, c, f)
    \/ \E t \in Trns(old) : Delete(t)

Recovery ==
    \/ CreateMtg \/ ReadLastTrn \/ NothingFound \/ Walk
    \/ SaveTrn \/ SaveFails
    \/ \E p, c \in Junk, f \in TrnFlags : SaveHole(p, c, f)
    \/ Finish \/ Killed

Users ==
    \/ \E reply \in Live(new) \cup {0}, f \in TrnFlags : Post(reply, f)
    \/ \E t \in Trns(new) : PostDelete(t)

Next == History \/ Recovery \/ Users

Spec == Init /\ [][Next]_vars

-----------------------------------------------------------------------------
\* Types; the positions that recover.c goes to are inside the transactions file.  (Of
\* the size of trn_pos it says nothing: see ReadLastTrn.)
TypeOK ==
    /\ MtgType(old) /\ MtgType(new)
    /\ rec \in [pc : {"not started", "scan", "walk", "save", "done", "failed"},
                current_pos : 0 .. Len(old.trns), num_trns : 0 .. MaxTrn,
                trn_pos : [1 .. rec.num_trns -> 0 .. Len(old.trns)], i : 0 .. MaxTrn + 1]
    /\ from \in [Trns(new) -> 0 .. Len(old.trns)]
    /\ users \in [posts : 0 .. MaxPosts, deleted : BOOLEAN]

\* At every step of the rebuilding, after a failure and with users at it, the new
\* meeting is one the server can work on: its links and threads are consistent,
\* and its own transactions file could be recovered from.
NewLinked ==
    /\ MeetingLinked(new)
    /\ ChainsLinked(new)
    /\ ChainNumbers(new)
    /\ TrnLog(new)
    /\ ChainsRecorded(new)

\* If nobody touches the new meeting meanwhile and the program ends well, each
\* transaction of the old one that had not been expunged, deleted or not, is
\* there with its own number and text, live, and two of them are in one thread
\* exactly if they were (mtg.h: "so that chains can be reconstructed").  Besides
\* them there is at most one, an add that had been lost.
RecoveredWhole ==
    (rec.pc = "done" /\ users.posts = 0 /\ ~users.deleted) =>
        /\ Stored(old) \subseteq Live(new)
        /\ \A i \in Stored(old) : from[i] = Addr(i)
        /\ \A i, j \in Stored(old) :
              old.blk[i].trn_chain = old.blk[j].trn_chain
                <=> new.blk[i].trn_chain = new.blk[j].trn_chain
        /\ Stored(new) \ Stored(old) \subseteq {old.highest + 1}

\* Whatever users do at the new meeting meanwhile, if the program ends well no
\* text is lost: each is added once, under its own number or a higher one, and
\* in the old order.
TextsKept ==
    rec.pc = "done" =>
        \A i \in Stored(old) : \E n \in Stored(new) :
            /\ from[n] = Addr(i) /\ n >= i
            /\ \A k \in Trns(new) : from[k] # 0 =>
                  /\ (k < n => from[k] < from[n])
                  /\ (k > n => from[k] > from[n])

=============================================================================
