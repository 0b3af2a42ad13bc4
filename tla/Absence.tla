------------------------------ MODULE Absence ------------------------------
(* The value that stands for an absent ledger row, hash, envelope, rebuild   *)
(* or request.                                                               *)
CONSTANT None
=============================================================================
