--------------------------- MODULE MCSummaryQueue ---------------------------
(* Model-checking instance of SummaryQueue: two sweeps, two sessions.       *)
EXTENDS SummaryQueue

CONSTANTS w1, w2, s1, s2

MCSweep == {w1, w2}
MCSession == {s1, s2}
=============================================================================
