--------------------------- MODULE MCCommunityServer ---------------------------
(***************************************************************************)
(* Small instances of CommunityServer for TLC.                             *)
(***************************************************************************)
EXTENDS CommunityServer

CONSTANTS owner, ann, s1, s2

OneSlot  == {s1}
TwoSlots == {s1, s2}
Two      == {owner, ann}

\* The Member role is lifted above all others.
Lift == {<<1, [permissions |-> {"VIEW_CHANNEL", "BAN_MEMBERS", "MANAGE_ROLES"},
               position |-> 5]>>}
NoEdits == {}
=============================================================================
