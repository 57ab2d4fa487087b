------------------------------ MODULE MCMoirad ------------------------------
(* A few lists that can be in one another, and users. *)
EXTENDS Moirad, TLC

Symmetry == Permutations(Lists) \cup Permutations(Others)

\* Tables of up to seven changes, among them a list too full for the arrays; and the
\* ways three or four changes can be passed on.
TableAndQueue == {[queries |-> 7, exec |-> 0, faults |-> 0],
                  [queries |-> 4, exec |-> 2, faults |-> 1],
                  [queries |-> 3, exec |-> 2, faults |-> 2]}

=============================================================================
