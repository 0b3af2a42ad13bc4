-------------------------- MODULE IndexLock_proofs --------------------------
(***************************************************************************)
(* Proofs about IndexLock, for any number of processes and of crashes.     *)
(***************************************************************************)
EXTENDS IndexLock, TLAPS

\* A dead process is nowhere in the protocol.
DeadAreIdle == \A p \in Proc : pc[p] # "idle" => p \in alive

\* A verdict "its creator is dead" stays true of the marker it was given on:
\* the creator's pid may come back, but it owns nothing while the marker stands.
VerdictHolds ==
    \A q \in judged : Present /\ pc[file.creator] \notin Owning

\* Short of a misfire the marker on disk is the owner's own.
OwnerHasMarker ==
    misfire \/ \A p \in Proc : pc[p] \in Owning => Present /\ file.creator = p

IInv == TypeOK /\ DeadAreIdle /\ VerdictHolds /\ OwnerHasMarker

LEMMA InitIInv == Init => IInv
<1> SUFFICES ASSUME Init  PROVE IInv
  OBVIOUS
<1> USE DEF Init, PC, Owning
<1>1. TypeOK
  <2>1. file \in Marker \cup {NoFile} /\ alive \subseteq Proc /\ pc \in [Proc -> PC]
    OBVIOUS
  <2>2. ageSeen \in [Proc -> BOOLEAN] /\ judged = {} /\ misfire \in BOOLEAN
    BY Zenon
  <2>3. crashes \in 0..MaxCrashes  BY MaxCrashesAssumption
  <2> QED  BY <2>1, <2>2, <2>3 DEF TypeOK
<1>2. DeadAreIdle /\ VerdictHolds /\ OwnerHasMarker
  BY DEF DeadAreIdle, VerdictHolds, OwnerHasMarker
<1> QED  BY <1>1, <1>2 DEF IInv

LEMMA StepIInv == ASSUME IInv, NEW p \in Proc, Step(p) PROVE IInv'
<1> USE DEF IInv, TypeOK, DeadAreIdle, VerdictHolds, OwnerHasMarker, PC, Owning,
            Present, GoTo
<1>1. CASE Stat(p)
  <2>1. TypeOK' /\ DeadAreIdle'  BY <1>1 DEF Stat, Marker
  <2>2. VerdictHolds' /\ OwnerHasMarker'  BY <1>1 DEF Stat, Marker
  <2> QED  BY <2>1, <2>2
<1>2. CASE Read(p)
  <2>1. TypeOK' /\ DeadAreIdle'  BY <1>2 DEF Read, Readable, Takeable
  <2>2. VerdictHolds'  BY <1>2 DEF Read, Readable, Takeable, Marker
  <2>3. OwnerHasMarker'  BY <1>2 DEF Read, Readable, Takeable
  <2> QED  BY <2>1, <2>2, <2>3
<1>3. CASE Remove(p)
  <2>1. TypeOK' /\ DeadAreIdle' /\ VerdictHolds'  BY <1>3 DEF Remove
  <2>2. OwnerHasMarker'
    <3>1. SUFFICES ASSUME ~misfire', NEW q \in Proc, pc'[q] \in Owning  PROVE FALSE
      BY <1>3 DEF Remove
    <3>2. pc[q] \in Owning /\ Present /\ file.creator = q /\ ~misfire
      BY <1>3, <3>1 DEF Remove
    <3>3. p \notin judged  BY <3>2
    <3> QED  BY <1>3, <3>1, <3>2, <3>3 DEF Remove
  <2> QED  BY <2>1, <2>2
<1>4. CASE Open(p)
  <2>1. CASE Present
    <3>1. TypeOK' /\ DeadAreIdle'  BY <1>4, <2>1 DEF Open
    <3>2. VerdictHolds' /\ OwnerHasMarker'  BY <1>4, <2>1 DEF Open, Marker
    <3> QED  BY <3>1, <3>2
  <2>2. CASE ~Present
    <3>1. judged = {}  BY <2>2
    <3>2. file' = [creator |-> p, written |-> FALSE, aged |-> FALSE]
      BY <1>4, <2>2 DEF Open
    <3>3. file' \in Marker /\ file' # NoFile /\ file'.creator = p
      <4>1. file' \in Marker /\ file'.creator = p  BY <3>2 DEF Marker
      <4> QED  BY <4>1, NoFileAssumption
    <3>4. TypeOK' /\ DeadAreIdle' /\ VerdictHolds'
      BY <1>4, <2>2, <3>1, <3>3 DEF Open
    <3>5. misfire \/ \A q \in Proc : pc[q] \notin Owning  BY <2>2
    <3>6. OwnerHasMarker'  BY <1>4, <2>2, <3>3, <3>5 DEF Open
    <3> QED  BY <3>4, <3>6
  <2> QED  BY <2>1, <2>2
<1>5. CASE Write(p)
  <2>1. /\ file' \in Marker \cup {NoFile}
        /\ Present' = Present
        /\ Present => file'.creator = file.creator
    <3>1. CASE Present /\ file.creator = p
      <4>1. file \in Marker /\ file' = [file EXCEPT !.written = TRUE]
        BY <1>5, <3>1 DEF Write
      <4>2. file' \in Marker /\ file'.creator = file.creator  BY <4>1 DEF Marker
      <4> QED  BY <3>1, <4>2, NoFileAssumption
    <3>2. CASE ~(Present /\ file.creator = p)  BY <1>5, <3>2 DEF Write
    <3> QED  BY <3>1, <3>2
  <2>2. TypeOK' /\ DeadAreIdle'  BY <1>5, <2>1 DEF Write
  <2>3. VerdictHolds'  BY <1>5, <2>1 DEF Write, Marker
  <2>4. OwnerHasMarker'  BY <1>5, <2>1 DEF Write
  <2> QED  BY <2>2, <2>3, <2>4
<1>6. CASE Release(p)
  <2>1. TypeOK' /\ DeadAreIdle'  BY <1>6 DEF Release
  <2>2. VerdictHolds'  BY <1>6 DEF Release, Marker
  <2>3. OwnerHasMarker'  BY <1>6 DEF Release
  <2> QED  BY <2>1, <2>2, <2>3
<1>7. CASE Unlink(p)
  <2>1. TypeOK' /\ DeadAreIdle' /\ VerdictHolds'  BY <1>7 DEF Unlink
  <2>2. OwnerHasMarker'  BY <1>7 DEF Unlink
  <2> QED  BY <2>1, <2>2
<1> QED  BY <1>1, <1>2, <1>3, <1>4, <1>5, <1>6, <1>7 DEF Step

LEMMA EnvironmentIInv ==
  ASSUME IInv, \/ \E p \in Proc : Crash(p) \/ Reuse(p)
               \/ Age
  PROVE  IInv'
<1> USE DEF IInv, TypeOK, DeadAreIdle, VerdictHolds, OwnerHasMarker, PC, Owning,
            Present, GoTo
<1>1. ASSUME NEW p \in Proc, Crash(p)  PROVE IInv'
  <2>1. crashes + 1 \in 0..MaxCrashes  BY <1>1, MaxCrashesAssumption DEF Crash
  <2>2. TypeOK' /\ DeadAreIdle'  BY <1>1, <2>1 DEF Crash
  <2>3. VerdictHolds'  BY <1>1 DEF Crash, Marker
  <2>4. OwnerHasMarker'  BY <1>1 DEF Crash
  <2> QED  BY <2>2, <2>3, <2>4
<1>2. ASSUME NEW p \in Proc, Reuse(p)  PROVE IInv'
  BY <1>2 DEF Reuse
<1>3. CASE Age
  <2>1. file \in Marker /\ file' = [file EXCEPT !.aged = TRUE]  BY <1>3 DEF Age
  <2>2. file' \in Marker /\ file'.creator = file.creator  BY <2>1 DEF Marker
  <2>3. file' # NoFile  BY <2>2, NoFileAssumption
  <2> QED  BY <1>3, <2>2, <2>3 DEF Age
<1> QED  BY <1>1, <1>2, <1>3

LEMMA NextIInv == IInv /\ [Next]_vars => IInv'
<1> SUFFICES ASSUME IInv, [Next]_vars  PROVE IInv'
  OBVIOUS
<1>1. CASE Next  BY <1>1, StepIInv, EnvironmentIInv DEF Next
<1>2. CASE UNCHANGED vars
  BY <1>2 DEF vars, IInv, TypeOK, DeadAreIdle, VerdictHolds, OwnerHasMarker, Present
<1> QED  BY <1>1, <1>2

\* The inductive invariant holds in every behaviour.
THEOREM Invariance == Spec => []IInv
  BY InitIInv, NextIInv, PTL DEF Spec

\* Type correctness, with verdicts held only on the way to a removal.
THEOREM TypeCorrect == Spec => []TypeOK
<1>1. IInv => TypeOK  BY DEF IInv
<1> QED  BY <1>1, Invariance, PTL

\* A release unlinks nobody else's marker, short of a misfired takeover.
THEOREM ReleaseSafe == Spec => []ReleaseIsOwn
<1>1. IInv => ReleaseIsOwn
  BY DEF IInv, TypeOK, OwnerHasMarker, ReleaseIsOwn, Owners
<1> QED  BY <1>1, Invariance, PTL

\* Two writers coexist only after a takeover robbed a marker it had not judged
\* dead: for any number of contenders, deaths and reused pids.
THEOREM Exclusion == Spec => []ExclusiveUnlessMisfire
<1>1. IInv => ExclusiveUnlessMisfire
  BY DEF IInv, TypeOK, OwnerHasMarker, ExclusiveUnlessMisfire, Owners
<1> QED  BY <1>1, Invariance, PTL
=============================================================================
