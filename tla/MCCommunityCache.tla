--------------------------- MODULE MCCommunityCache ---------------------------
(* The kinds of upset that a run lets happen.                               *)
EXTENDS CommunityCache
Everything == UpsetKinds
=============================================================================
