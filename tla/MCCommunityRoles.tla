--------------------------- MODULE MCCommunityRoles ---------------------------
(* Small instances of CommunityRoles for TLC. *)
EXTENDS CommunityRoles

CONSTANTS owner, ann, general

TwoPeople == {owner, ann}
General   == {general}

\* The masks that roles and overwrites are given.
Grants == {{}, {"VIEW_CHANNEL", "MANAGE_ROLES"}, {"SEND_MESSAGES", TopBit}}
=============================================================================
