----------------------------- MODULE MCMeeting -----------------------------
(* Model-checking instances of Meeting. *)
EXTENDS Meeting

=============================================================================
