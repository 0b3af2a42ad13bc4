---------------------------- MODULE MCIndexLock ----------------------------
(* Model-checking instances of IndexLock: three contending processes.       *)
EXTENDS IndexLock

CONSTANTS p1, p2, p3

MCProc == {p1, p2, p3}
=============================================================================
