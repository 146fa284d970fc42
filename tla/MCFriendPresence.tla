--------------------------- MODULE MCFriendPresence ---------------------------
EXTENDS FriendPresence
=============================================================================
