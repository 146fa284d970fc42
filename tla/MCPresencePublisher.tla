------------------------- MODULE MCPresencePublisher -------------------------
EXTENDS PresencePublisher
=============================================================================
