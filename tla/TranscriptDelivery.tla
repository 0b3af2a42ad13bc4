------------------------- MODULE TranscriptDelivery -------------------------
(***************************************************************************)
(* What sync promises of one session: the server holds only records the    *)
(* tool wrote, never gives one up, and in the end holds them all.          *)
(***************************************************************************)
EXTENDS Naturals

CONSTANT MaxRecords   \* bound: records the tool writes

VARIABLES written,    \* how many records the tool has written
          stored      \* the records the server holds

Init == written = 1 /\ stored = {}

Write == written < MaxRecords /\ written' = written + 1 /\ UNCHANGED stored

Store ==
    /\ \E S \in SUBSET (1..written) : stored' = stored \cup S
    /\ UNCHANGED written

Next == Write \/ Store

\* Every record written reaches the server.
Delivered == \A r \in 1..MaxRecords : r <= written ~> r \in stored

\* Nothing invented and nothing given up; and all of it in the end.
SafeSpec == Init /\ [][Next]_<<written, stored>>
Spec == SafeSpec /\ Delivered
=============================================================================
