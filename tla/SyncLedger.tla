----------------------------- MODULE SyncLedger -----------------------------
(***************************************************************************)
(* One session's row of the collector's sync ledger for one server         *)
(* (cli/src/sync-ledger.ts): what an acknowledgement writes, and which     *)
(* kind of sync the row calls for.                                         *)
(*                                                                         *)
(* Byte offsets are counted in records.  `o` and `s` are one field: every  *)
(* caller of markSynced in sync-client.ts passes the same value for both.  *)
(* F = 0 stands for an absent F, h = None for an absent hash.              *)
(***************************************************************************)
EXTENDS Naturals, Sequences, Absence


Row == [m: Nat, v: Nat, o: Nat, h: Seq(Nat) \cup {None}, F: Nat, k: BOOLEAN]

ASSUME NoRowAssumption == None \notin Row

BlankRow == [m |-> 0, v |-> 0, o |-> 0, h |-> None, F |-> 0, k |-> FALSE]

-----------------------------------------------------------------------------
(* The rows callers hand to markSynced. *)

Mark(m, v, h) ==
    [m |-> m, v |-> v, h |-> h, o |-> 0,
     acked |-> FALSE, full |-> FALSE, final |-> FALSE, head |-> FALSE]

FullMark(m, v, h, o) == [Mark(m, v, h) EXCEPT !.o = o, !.acked = TRUE, !.full = TRUE]
UnchangedMark(m, v, h, o) == [Mark(m, v, h) EXCEPT !.o = o, !.acked = TRUE]
AppendMark(m, v, o, final) == [Mark(m, v, None) EXCEPT !.o = o, !.acked = TRUE, !.final = final]
HeadMark(m, v, o) == [Mark(m, v, None) EXCEPT !.o = o, !.acked = TRUE, !.head = TRUE]

\* Mutant: an append counts as a whole sync.
MarkSyncedAllCover(row, mark) ==
    LET prev == IF row = None THEN BlankRow ELSE row
        o == IF mark.acked THEN mark.o ELSE prev.o
    IN  [m |-> mark.m, v |-> mark.v, o |-> o, h |-> mark.h,
         F |-> IF mark.acked /\ o > 0 THEN o ELSE prev.F,
         k |-> mark.head]

\* markSynced: only an acknowledged mark moves the cursor; a full sync, or the
\* append that completes a chunked one, records what a whole sync covered.
MarkSynced(row, mark) ==
    LET prev == IF row = None THEN BlankRow ELSE row
        o == IF mark.acked THEN mark.o ELSE prev.o
        completes == mark.acked /\ mark.final /\ prev.k
        covers == (mark.acked /\ mark.full) \/ completes
    IN  [m |-> mark.m, v |-> mark.v, o |-> o, h |-> mark.h,
         F |-> IF covers /\ o > 0 THEN o ELSE prev.F,
         k |-> mark.head \/ (prev.k /\ ~covers)]

\* forgetFullCoverage: the part of a full sync that ships later has failed.
ForgetFullCoverage(row) ==
    IF row = None THEN row ELSE [row EXCEPT !.F = 0, !.h = None]

-----------------------------------------------------------------------------
(* Classification *)

FullCoveredOffset(row) ==
    IF row.F > 0 THEN row.F ELSE IF row.h # None THEN row.o ELSE 0

Shrank(row, size) == row.o > 0 /\ size > 0 /\ size < row.o
Grew(row, size) == row.o > 0 /\ size > row.o

\* Mutants: off by one; never.
SettlesLater(row, size, quiet) ==
    row.o > 0 /\ size = row.o /\ ~row.k /\ FullCoveredOffset(row) + 1 < row.o /\ quiet
SettlesNever(row, size, quiet) == FALSE

\* Appends have landed since the last whole sync and the session is quiet.
Settles(row, size, quiet) ==
    /\ row.o > 0 /\ size = row.o /\ ~row.k
    /\ FullCoveredOffset(row) < row.o
    /\ quiet

\* syncMode for an append-only transcript; `quiet`: no write for SETTLE_QUIET_MS.
SyncMode(row, mtime, size, ver, quiet) ==
    CASE row = None -> "full"
      [] row # None /\ (row.v < ver \/ Shrank(row, size)) -> "full"
      [] row # None /\ row.v >= ver /\ Grew(row, size) -> "append"
      [] OTHER -> IF ~Settles(row, size, quiet) /\ row.m >= mtime THEN "skip" ELSE "full"
=============================================================================
