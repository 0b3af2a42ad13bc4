------------------------------- MODULE Shadow -------------------------------
(***************************************************************************)
(* The shadow archive (engine/src/transcript/shadow.ts): the fullest state *)
(* of a transcript this device has ever exported.  A transcript is a       *)
(* sequence of records; a record is a number, in the order of writing.     *)
(***************************************************************************)
EXTENDS Naturals, Sequences, Functions

\* Mutant: the longer of the two, as mergeContainer does for whole-file tools.
MergeLonger(shadow, current) == IF Len(current) >= Len(shadow) THEN current ELSE shadow

\* mergeLineText: a current file that holds every shadow record is adopted as it
\* is, one that only lost records leaves the shadow as it is; when each side lacks
\* records of the other, every shadow record in place, then what only the file has.
Merge(shadow, current) ==
    CASE Range(shadow) \subseteq Range(current) -> current
      [] Range(current) \subseteq Range(shadow) /\ ~(Range(shadow) \subseteq Range(current)) -> shadow
      [] OTHER -> shadow \o SelectSeq(current, LAMBDA r : r \notin Range(shadow))
=============================================================================
