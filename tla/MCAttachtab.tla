---------------------------- MODULE MCAttachtab -----------------------------
\* A few processes on one workstation, and one locker.
EXTENDS Attachtab, TLC

Symmetry == Permutations(Procs)

=============================================================================
