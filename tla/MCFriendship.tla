---------------------------- MODULE MCFriendship ----------------------------
(***************************************************************************)
(* Two clients for TLC; what one of them does the other can do as well.    *)
(***************************************************************************)
EXTENDS Friendship, TLC

CONSTANTS ann, bob

Both == {ann, bob}

Symmetric == Permutations(Both)
=============================================================================
