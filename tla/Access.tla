------------------------------- MODULE Access -------------------------------
(***************************************************************************)
(* What set_access and delete_access promise (server/acl_core.c, "Routines *)
(* provided"): a meeting gives modes of access to principals, and to       *)
(* everybody who is not named; one call changes what one name is given,    *)
(* and only someone who may control the meeting, and still may afterwards, *)
(* can make it.                                                            *)
(***************************************************************************)
EXTENDS Integers

CONSTANTS Principals,   \* who calls or is named
          Everybody,    \* the name "*"
          Modes,        \* the letters of access modes, "c" (control) among them
          FirstGiven    \* what a new meeting may give

VARIABLE given          \* modes for each name that is given any

Names == Principals \cup {Everybody}
ModesOf(g, p) ==
    IF p \in DOMAIN g THEN g[p] ELSE IF Everybody \in DOMAIN g THEN g[Everybody] ELSE {}
Controls(g, p) == "c" \in ModesOf(g, p)

SetAccess(p, modes) ==
    given' = [q \in DOMAIN given \cup {p} |-> IF q = p THEN modes ELSE given[q]]

DeleteAccess(p) ==
    /\ p \in DOMAIN given
    /\ given' = [q \in DOMAIN given \ {p} |-> given[q]]

Init == given \in FirstGiven

Next == /\ given' # given
        /\ \E caller \in Principals, p \in Names :
             /\ Controls(given, caller) /\ Controls(given', caller)
             /\ DeleteAccess(p) \/ \E modes \in SUBSET Modes : SetAccess(p, modes)

Spec == Init /\ [][Next]_given

=============================================================================
