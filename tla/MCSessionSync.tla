--------------------------- MODULE MCSessionSync ---------------------------
(* Model-checking instances of SessionSync. *)
EXTENDS SessionSync, TLC
=============================================================================
