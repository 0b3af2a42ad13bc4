--------------------------- MODULE MCSessionStore ---------------------------
(* Model-checking instance of SessionStore: two requests beside the sweep.  *)
EXTENDS SessionStore

CONSTANTS w1, w2, hA, hB

MCWorker == {w1, w2}
MCBody == {hA, hB}
MCOneBody == {hA}
=============================================================================
