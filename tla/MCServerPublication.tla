------------------------- MODULE MCServerPublication -------------------------
(* Small instances of ServerPublication for TLC. *)
EXTENDS ServerPublication

OneHandler  == {"s1"}
TwoHandlers == {"s1", "s2"}
=============================================================================
