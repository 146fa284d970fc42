-------------------------- MODULE MCCommunityClient --------------------------
(* One user's messages.                                                     *)
EXTENDS CommunityClient
CONSTANTS m1, m2
Messages == {m1, m2}
NoMessage == {}
OneMessage == {m1}
Everything == MishapKinds
=============================================================================
