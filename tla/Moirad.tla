------------------------------- MODULE Moirad -------------------------------
(***************************************************************************)
(* The Moira server (third/moira/server) changing list members, and the    *)
(* updates it passes on to other systems (increment.pc, mr_main.c): each   *)
(* row that appears or goes is queued when the query commits, and then a   *)
(* program is run for it, one at a time, that does the same elsewhere, for *)
(* instance in AFS groups.  A program that takes too long is not waited    *)
(* for any longer, but goes on.                                            *)
(*                                                                         *)
(* One other system.  The server is one process and a query one            *)
(* transaction, so a query is one step; so is starting a program, since    *)
(* SIGCHLD is blocked during it.  A queue is a sequence of sets: the order *)
(* of one query's updates is left open, they are for different rows.       *)
(***************************************************************************)
EXTENDS Imembers, Sequences, SequencesExt

CONSTANT Budgets   \* bounds: how many queries, how many queries' updates waiting
                   \* when one is made, how many faults

VARIABLES im,        \* the table
          cut,       \* whether a delete has passed over rows that did not fit
          sq,        \* incremental_sq: updates of the transaction
          exec,      \* incremental_exec: updates to be carried out
          inc,       \* inc_running; whether inc_started is INC_TIMEOUT ago; inc_pid's
                     \* update, NoUpdate if it is no program
          old,       \* updates of programs that run but are not inc_pid
          ext,       \* the members the other system has
          lost,      \* rows whose last update was not carried out, or not in its turn
          left       \* queries and faults left, for the bounds

moiradVars == <<im, cut, sq, exec, inc, old, ext, lost, left>>

NoUpdate == [row |-> << >>, on |-> FALSE]
NotRunning == [running |-> FALSE, overdue |-> FALSE, upd |-> NoUpdate]

MoiradInit ==
    /\ im = NoRows /\ cut = FALSE
    /\ sq = << >> /\ exec = << >> /\ inc = NotRunning /\ old = {}
    /\ ext = {} /\ lost = {}
    /\ left \in Budgets

Counted == /\ left.queries > 0 /\ Len(exec) <= left.exec
           /\ left' = [left EXCEPT !.queries = @ - 1]
Trouble == left.faults > 0 /\ left' = [left EXCEPT !.faults = @ - 1]

RowsOf(queue) == {u.row : u \in UNION ToSet(queue)}
SetTo(rows, upd) == IF upd.on THEN rows \cup {upd.row} ELSE rows \ {upd.row}

-----------------------------------------------------------------------------
(* Queries *)

\* incremental_after for each new row, incremental_clear_after for each that goes.
Updates(new) ==
    {[row |-> r, on |-> TRUE] : r \in Present(new) \ Present(im)}
    \cup {[row |-> r, on |-> FALSE] : r \in Present(im) \ Present(new)}

\* The transaction is committed, and incremental_update puts its updates behind
\* those that wait.  (It may start the next program at once: StartUpdate.)
Commit(new, updates) ==
    /\ im' = new /\ sq' = << >>
    /\ exec' = exec \o sq \o (IF updates = {} THEN << >> ELSE <<updates>>)
    /\ UNCHANGED <<inc, old, ext, lost>>

AddMemberToList(l, m) ==
    /\ Counted
    /\ CanAdd(im, l, m)
    /\ Commit(AddMember(im, l, m), Updates(AddMember(im, l, m)))
    /\ UNCHANGED cut

DeleteMemberFromList(l, m) ==
    /\ Counted
    /\ \E D \in Fetched(im, m) :
          /\ CanDelete(im, l, m, D)
          /\ Commit(DeleteMember(im, l, m, D), Updates(DeleteMember(im, l, m, D)))
          /\ cut' = (cut \/ D # Descendants(im, m))

\* An update without a row before it, although the row was there.
TagMemberOfList(l, m) ==
    /\ Counted
    /\ <<l, m>> \in Present(im)
    /\ Commit(im, {[row |-> <<l, m>>, on |-> TRUE]})
    /\ UNCHANGED cut

\* Variant: incremental_flush is left out.
QueryFailsKeeps(l, m) ==
    /\ Counted
    /\ Loops(im, l, m, Descendants(im, m))
    /\ sq' = <<Updates(AddMember(im, l, m))>>
    /\ UNCHANGED <<im, cut, exec, inc, old, ext, lost>>

\* The loop is noticed when other rows have been changed and queued: all of it is
\* undone (ROLLBACK and incremental_flush).
QueryFails(l, m) ==
    /\ Counted
    /\ Loops(im, l, m, Descendants(im, m))
    /\ sq' = << >>
    /\ UNCHANGED <<im, cut, exec, inc, old, ext, lost>>

-----------------------------------------------------------------------------
(* next_incremental, and the programs it runs *)

\* The program of inc_pid is forgotten.
Forgotten == old \cup ({inc.upd} \ {NoUpdate})

\* u is the next update, and is taken from the queue.
Removed(u) ==
    /\ inc.running => inc.overdue
    /\ exec # << >> /\ u \in Head(exec)
    /\ exec' = IF Head(exec) = {u} THEN Tail(exec) ELSE [exec EXCEPT ![1] = @ \ {u}]

\* Variant: inc_running is not set.
StartUpdateNotRunning(u) ==
    /\ Removed(u)
    /\ inc' = [inc EXCEPT !.overdue = FALSE, !.upd = u]
    /\ old' = Forgotten
    /\ UNCHANGED <<im, cut, sq, ext, lost, left>>

StartUpdate(u) ==
    /\ Removed(u)
    /\ inc' = [running |-> TRUE, overdue |-> FALSE, upd |-> u]
    /\ old' = Forgotten
    /\ UNCHANGED <<im, cut, sq, ext, lost, left>>

\* vfork fails: inc_pid is -1, and the update is gone.
StartFails(u) ==
    /\ Removed(u) /\ Trouble
    /\ inc' = [inc EXCEPT !.upd = NoUpdate]
    /\ old' = Forgotten
    /\ lost' = lost \cup {u.row}
    /\ UNCHANGED <<im, cut, sq, ext>>

\* The program carries the update out and ends; reapchild sees which one it was.
UpdateCarried ==
    /\ inc.upd # NoUpdate
    /\ inc' = NotRunning
    /\ ext' = SetTo(ext, inc.upd)
    /\ lost' = lost \ {inc.upd.row}
    /\ UNCHANGED <<im, cut, sq, exec, old, left>>

\* Or it ends without having carried it out: that is reported to the operators.
UpdateFailed ==
    /\ inc.upd # NoUpdate /\ Trouble
    /\ inc' = NotRunning
    /\ lost' = lost \cup {inc.upd.row}
    /\ UNCHANGED <<im, cut, sq, exec, old, ext>>

\* Three minutes have passed.
Overdue ==
    /\ inc.running /\ ~inc.overdue /\ Trouble
    /\ inc' = [inc EXCEPT !.overdue = TRUE]
    /\ UNCHANGED <<im, cut, sq, exec, old, ext, lost>>

\* A forgotten program carries its update out after all, or ends without it.
Late(u, done) ==
    /\ u \in old
    /\ old' = old \ {u}
    /\ ext' = IF done THEN SetTo(ext, u) ELSE ext
    /\ lost' = lost \cup {u.row}
    /\ UNCHANGED <<im, cut, sq, exec, inc, left>>

\* The server ends and is started again.  Queued updates are in memory only.
Restart ==
    /\ Trouble
    /\ sq' = << >> /\ exec' = << >> /\ inc' = NotRunning
    /\ old' = Forgotten
    /\ lost' = lost \cup RowsOf(exec)
    /\ UNCHANGED <<im, cut, ext>>

-----------------------------------------------------------------------------
Queries == \E l \in Lists, m \in Members :
              \/ AddMemberToList(l, m) \/ DeleteMemberFromList(l, m)
              \/ TagMemberOfList(l, m) \/ QueryFails(l, m)

Programs == UpdateCarried \/ UpdateFailed \/ \E u \in old, done \in BOOLEAN : Late(u, done)

Starts == \E u \in UNION ToSet(exec) : StartUpdate(u) \/ StartFails(u)

MoiradNext == Queries \/ Programs \/ Starts \/ Overdue \/ Restart

MoiradSpec == MoiradInit /\ [][MoiradNext]_moiradVars
-----------------------------------------------------------------------------
\* Types; updates that wait are for rows, and a program is known to run whenever
\* inc_pid has something left to do.
MoiradTypeOK ==
    /\ im.ref \in [Rows -> Nat] /\ im.direct \subseteq Present(im) /\ cut \in BOOLEAN
    /\ \A u \in (UNION ToSet(sq \o exec)) \cup old : u.row \in Rows /\ u.on \in BOOLEAN
    /\ inc.upd # NoUpdate => inc.running /\ inc.upd.row \in Rows
    /\ ext \subseteq Rows /\ lost \subseteq Rows

\* The flattened table is right after any adds and deletes ("do list flattening as we
\* go!"): a member has a row in exactly the lists that lead to it, with the number of
\* ways, and no list is in itself.  Only a delete whose rows did not fit into the
\* arrays ends that, and it gives no error.
Flattened == ~cut => IsFlattened(im)

\* The other system follows the table: for each row, the last update that waits or
\* is under way says what the table says, and if there is none the other system has
\* it; but for updates that failed, were lost with the server, or came late, and that
\* only until the next one for the same row.
FollowsTable ==
    LET waiting == <<{inc.upd} \ {NoUpdate}>> \o exec
    IN  \A r \in Rows :
          LET k == SelectLastInSeq(waiting, LAMBDA updates : r \in {u.row : u \in updates})
          IN  IF k # 0 THEN [row |-> r, on |-> r \in Present(im)] \in waiting[k]
              ELSE r \in lost \/ (\E u \in old : u.row = r) \/ (r \in ext <=> r \in Present(im))

=============================================================================
