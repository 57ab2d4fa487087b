----------------------------- MODULE MCExpunge -----------------------------
(* Meetings to expunge, small but with threads that a copy could split or merge. *)
EXTENDS Expunge, TLC

Symmetry == Permutations(Servers)

One == AddTrn(EmptyMeeting, 0, 0)
Two == AddTrn(One, 1, 0)

\* A thread of two, and a reply whose thread's head is deleted.
Meetings == {[meeting |-> m, calls |-> 1, runs |-> 1] : m \in {Two, DeleteTrn(Two, 1)}}

\* Two threads, one with its middle deleted; and a small meeting to be expunged twice.
Threads == DeleteTrn(AddTrn(AddTrn(Two, 0, 0), 2, 0), 2)
ThreadsAndTwice == {[meeting |-> Threads, calls |-> 2, runs |-> 1],
                    [meeting |-> One, calls |-> 1, runs |-> 2]}
Small == {[meeting |-> One, calls |-> 2, runs |-> 1]}

=============================================================================
