---------------------------- MODULE MCLedgerFile ----------------------------
(* Model-checking instance of LedgerFile: two processes, two rows.          *)
EXTENDS LedgerFile

CONSTANTS p1, p2, r1, r2, a

MCProc == {p1, p2}
MCRow == {r1, r2}
MCValue == {a}
=============================================================================
