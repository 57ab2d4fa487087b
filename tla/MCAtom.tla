------------------------------ MODULE MCAtom ------------------------------
(* A file of one byte in blocks of two: its block is not full, the next one is not there. *)
EXTENDS Atom

First == << 1 >>

=============================================================================
