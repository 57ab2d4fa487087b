----------------------------- MODULE Conference -----------------------------
(***************************************************************************)
(* What a meeting promises its users: transactions numbered from 1, each   *)
(* in one thread for good, that can be removed and brought back.  A number *)
(* with thread NoThread has no transaction.  How transactions are linked,  *)
(* and how a removed one is linked in again, is the implementation's.      *)
(***************************************************************************)
EXTENDS Integers

VARIABLES count,        \* how many numbers have been given out
          threads,      \* the thread of each
          shown         \* the transactions that are not deleted

confVars == << count, threads, shown >>

NoThread == 0

ConfInit == count = 0 /\ threads = [i \in 1 .. 0 |-> NoThread] /\ shown = {}

\* The next number is given out, in thread c.
GiveOut(c) ==
    /\ count' = count + 1
    /\ threads' = [i \in 1 .. count + 1 |-> IF i = count + 1 THEN c ELSE threads[i]]

Post(c) ==
    /\ \A i \in 1 .. count : threads[i] # c
    /\ GiveOut(c)
    /\ shown' = shown \cup {count + 1}

Reply(t) ==
    /\ t \in shown
    /\ GiveOut(threads[t])
    /\ shown' = shown \cup {count + 1}

Hole == GiveOut(NoThread) /\ UNCHANGED shown

Remove(t) ==
    /\ t \in shown
    /\ shown' = shown \ {t}
    /\ UNCHANGED << count, threads >>

Restore(t) ==
    /\ t \notin shown /\ threads[t] # NoThread
    /\ shown' = shown \cup {t}
    /\ UNCHANGED << count, threads >>

ConfNext ==
    \/ \E c \in 1 .. count + 1 : Post(c)
    \/ Hole
    \/ \E t \in 1 .. count : Reply(t) \/ Remove(t) \/ Restore(t)

ConfSpec == ConfInit /\ [][ConfNext]_confVars

=============================================================================
