------------------------------- MODULE MCDcm -------------------------------
(* A service of two hosts. *)
EXTENDS Dcm

CONSTANTS h1, h2

TwoHosts == << h1, h2 >>

=============================================================================
