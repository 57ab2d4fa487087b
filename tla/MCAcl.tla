------------------------------- MODULE MCAcl --------------------------------
\* Two server processes, for the chairman and for a user, who at first controls
\* the meeting because everybody does.
EXTENDS Acl

CONSTANTS s1, s2, chair, user, star

CallerOf == s1 :> chair @@ s2 :> user

OpenMeeting == <<[principal |-> chair, modes |-> {"c", "w"}],
                 [principal |-> star, modes |-> {"c", "w"}]>>

=============================================================================
