--------------------------- MODULE MCSyncSchedule ---------------------------
(* Model-checking instances of SyncSchedule: one MCP process.              *)
EXTENDS SyncSchedule

CONSTANT m1

OneMcp == {m1}
Housekeeping == {"housekeeping"}
=============================================================================
