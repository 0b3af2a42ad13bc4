------------------------ MODULE SummaryQueue_proofs ------------------------
(***************************************************************************)
(* For any number of sweeps and sessions, any limits, and any number of    *)
(* failures: who may work at a session beside its holder, that a generated *)
(* summary is not generated again, and that a sweep keeps to its budget.   *)
(***************************************************************************)
EXTENDS SummaryQueue, FiniteSetTheorems, TLAPS

(* What a sweep holds at which step.                                       *)
Shape(job) ==
    /\ job.busy # {} => job.pc = "work"
    /\ job.cand # {} => job.pc = "lock"
    /\ job.rows # {} => job.pc = "commit"
    /\ job.run \subseteq job.busy
    /\ Cardinality(job.run) <= job.lanes
    /\ job.made + Cardinality(job.busy) <= job.budget
    /\ job.pc = "idle" => job.made = 0

WellShaped == \A w \in Sweep : Shape(sweep[w])

(* A session somebody works at is leased, and not for longer than he works *)
(* at it; or another who worked at it has finished, or failed since.       *)
LeaseHeld ==
    \A v \in Sweep, s \in Session : s \in sweep[v].busy =>
        \/ lease[s] # None /\ lease[s] <= sweep[v].claimed
        \/ lease[s] = None /\ summary[s] = "generated"
        \/ lease[s] = None /\ attempts[s] > 0 /\ failed[s] <= sweep[v].claimed

(* A session a sweep is about to claim has no holder within his lease, but *)
(* those who have claimed since its select.                                *)
FoundFree ==
    \A v, w \in Sweep, s \in Session :
        v # w /\ s \in sweep[v].busy /\ (s \in sweep[w].cand \/ s \in sweep[w].rows)
            => sweep[v].claimed > Lease \/ v \in sweep[w].crossed

(* A locked row stays pending.                                             *)
RowsPending ==
    \A w \in Sweep, s \in Session : s \in sweep[w].rows => summary[s] # "generated"

IInv == TypeOK /\ WellShaped /\ LeaseHeld /\ FoundFree /\ RowsPending

-----------------------------------------------------------------------------
(* Numbers and sets *)

LEMMA NumberTypes ==
    /\ Batch \in Nat /\ TickCap \in Nat /\ Lanes \in Nat /\ Timeout \in Nat /\ Lease \in Nat
    /\ Backoff \in Nat /\ Window \in Nat /\ MaxAttempts \in Nat /\ Cap \in Nat
    /\ Uncapped \in Nat /\ MaxAge \in Nat /\ MaxFails \in Nat /\ MaxChanges \in Nat
  BY NumbersAssumption DEF Numbers

LEMMA Older_ ==
    ASSUME NEW a \in Age
    PROVE  Older(a) \in Age /\ a <= Older(a) /\ \A b \in Age : b <= a => Older(b) <= Older(a)
  BY NumberTypes DEF Age, Older

LEMMA Zero == 0 \in Age
  BY NumberTypes DEF Age

LEMMA Sizes ==
    ASSUME NEW S \in SUBSET Session
    PROVE  IsFiniteSet(S) /\ Cardinality(S) \in Nat
  BY FiniteAssumption, FS_Subset, FS_CardinalityType

LEMMA Smaller ==
    ASSUME NEW S \in SUBSET Session, NEW T \in SUBSET S
    PROVE  Cardinality(T) <= Cardinality(S)
  BY Sizes, FS_Subset

LEMMA Without ==
    ASSUME NEW S \in SUBSET Session, NEW s \in S
    PROVE  Cardinality(S \ {s}) = Cardinality(S) - 1
  BY Sizes, FS_RemoveElement

LEMMA With ==
    ASSUME NEW S \in SUBSET Session, NEW s
    PROVE  Cardinality(S \cup {s}) <= Cardinality(S) + 1
  BY Sizes, FS_AddElement

LEMMA Nothing == Cardinality({}) = 0
  BY FS_EmptySet

LEMMA IdleShaped == Idle \in Local /\ Shape(Idle)
<1>1. "idle" \in PC /\ {} \in Sessions /\ 0 \in 0..Lanes
  BY NumberTypes DEF PC, Sessions
<1> QED  BY <1>1, Zero, Nothing DEF Idle, Local, Shape

LEMMA Steps == {"idle", "begin", "claim", "lock", "commit", "work"} = PC
  BY DEF PC

-----------------------------------------------------------------------------
(* The local variables of sweeps *)

\* What the sweep is next, after it is done with a batch.
LEMMA NextBatchShaped ==
    ASSUME NEW job \in Local, Shape(job), job.busy = {}, job.cand = {}, job.rows = {}
    PROVE  /\ NextBatch(job) \in Local /\ Shape(NextBatch(job))
           /\ NextBatch(job).busy = {} /\ NextBatch(job).cand = {} /\ NextBatch(job).rows = {}
<1> DEFINE next == [job EXCEPT !.pc = "claim"]
<1>1. CASE job.seen < TickCap /\ ~job.spent
  <2>1. NextBatch(job) = next
    BY <1>1 DEF NextBatch
  <2>2. next \in Local
    BY Steps DEF Local
  <2>3. Shape(next) /\ next.busy = {} /\ next.cand = {} /\ next.rows = {}
    BY DEF Shape, Local
  <2> QED  BY <2>1, <2>2, <2>3
<1>2. CASE ~(job.seen < TickCap /\ ~job.spent)
  <2>1. NextBatch(job) = Idle
    BY <1>2 DEF NextBatch
  <2> QED  BY <2>1, IdleShaped DEF Idle
<1> QED  BY <1>1, <1>2

\* A sweep that has claimed R holds R, and nothing else.
LEMMA ClaimedShaped ==
    ASSUME NEW job \in Local, Shape(job), job.pc = "commit", NEW R \in SUBSET job.rows,
           R = {} \/ Cardinality(R) <= job.budget - job.made
    PROVE  /\ Claimed(job, R) \in Local /\ Shape(Claimed(job, R))
           /\ Claimed(job, R).busy \subseteq R
           /\ Claimed(job, R).busy # {} => Claimed(job, R).claimed = 0
           /\ Claimed(job, R).cand = {} /\ Claimed(job, R).rows = {}
<1> DEFINE next == [job EXCEPT
               !.seen = @ + Cardinality(job.rows), !.spent = @ \/ R # job.rows \ job.trivial,
               !.rows = {}, !.trivial = {}, !.crossed = {}]
           work == [next EXCEPT !.pc = "work", !.busy = R, !.claimed = 0, !.lanes = Lanes]
<1>1. job.busy = {} /\ job.cand = {} /\ job.run = {}
  BY DEF Shape
<1>2. Cardinality(job.rows) \in Nat /\ job.rows \in SUBSET Session /\ R \in SUBSET Session
  BY Sizes DEF Local, Sessions
<1>3. next \in Local
  <2>1. job.seen + Cardinality(job.rows) \in Nat
    BY <1>2 DEF Local
  <2>2. (job.spent \/ R # job.rows \ job.trivial) \in BOOLEAN
    BY DEF Local
  <2>3. {} \in Sessions /\ {} \in SUBSET Sweep
    BY DEF Sessions
  <2> QED  BY <2>1, <2>2, <2>3 DEF Local
<1>4. next.busy = {} /\ next.cand = {} /\ next.rows = {} /\ next.run = {} /\ next.pc = "commit"
  BY <1>1 DEF Local
<1>5. Shape(next)
  BY <1>1 DEF Shape, Local
<1>6. CASE job.rows = {}
  BY <1>6, IdleShaped DEF Claimed, Idle
<1>7. CASE job.rows # {} /\ R = {}
  <2>1. Claimed(job, R) = NextBatch(next)
    BY <1>7 DEF Claimed
  <2> QED  BY <2>1, <1>3, <1>4, <1>5, NextBatchShaped
<1>8. CASE job.rows # {} /\ R # {}
  <2>1. Claimed(job, R) = work
    BY <1>8 DEF Claimed
  <2>2. work \in Local
    <3>1. R \in Sessions /\ "work" \in PC /\ Lanes \in 0..Lanes
      BY <1>2, Steps, NumberTypes DEF Sessions
    <3> HIDE DEF next
    <3> QED  BY <1>3, <3>1, Zero DEF Local
  <2>3. work.busy = R /\ work.claimed = 0 /\ work.run = {} /\ work.cand = {} /\ work.rows = {}
        /\ work.pc = "work" /\ work.lanes = Lanes
        /\ work.made = job.made /\ work.budget = job.budget
    BY <1>3, <1>4 DEF Local
  <2>4. job.made + Cardinality(R) <= job.budget
    BY <1>8, <1>2, Sizes DEF Local
  <2>5. Shape(work)
    BY <2>3, <2>4, Nothing, NumberTypes DEF Shape
  <2> QED  BY <2>1, <2>2, <2>3, <2>5
<1> QED  BY <1>6, <1>7, <1>8

\* A step of a sweep that claims nothing.
Quiet(old, new) ==
    /\ new.busy \subseteq old.busy
    /\ new.busy # {} => new.claimed = old.claimed
    /\ new.cand \cup new.rows \subseteq old.cand \cup old.rows
    /\ new.cand \cup new.rows # {} => new.crossed = old.crossed
    /\ \A s \in new.rows \ old.rows : summary[s] # "generated"

QuietStep ==
    /\ sweep' \in [Sweep -> Local] /\ WellShaped'
    /\ \A v \in Sweep : Quiet(sweep[v], sweep'[v])

LEMMA QuietUpdate ==
    ASSUME TypeOK, WellShaped, NEW w \in Sweep, NEW new \in Local, Shape(new),
           Quiet(sweep[w], new), sweep' = [sweep EXCEPT ![w] = new]
    PROVE  QuietStep
<1>1. \A v \in Sweep : sweep'[v] = IF v = w THEN new ELSE sweep[v]
  BY DEF TypeOK
<1>2. sweep' \in [Sweep -> Local]
  BY DEF TypeOK
<1>3. \A v \in Sweep : Quiet(sweep[v], sweep[v])
  BY DEF Quiet
<1>4. WellShaped'
  BY <1>1 DEF WellShaped, Shape
<1> QED  BY <1>1, <1>2, <1>3, <1>4 DEF QuietStep

LEMMA SweepStarts ==
    ASSUME TypeOK, WellShaped, NEW w \in Sweep, ReadBudget(w) \/ Begin(w) \/ Lock(w) \/ Crash(w)
    PROVE  QuietStep
<1> DEFINE job == sweep[w]
<1>a. job \in Local /\ Shape(job)
  BY DEF TypeOK, WellShaped
<1>1. CASE ReadBudget(w)
  <2>1. PICK b \in {Remaining, Uncapped} :
          sweep' = [sweep EXCEPT ![w].pc = "begin", ![w].budget = b]
    BY <1>1 DEF ReadBudget
  <2>2. Remaining \in Nat
    <3>1. counted \in SUBSET Session
      BY DEF TypeOK
    <3> QED  BY <3>1, Sizes, NumberTypes DEF Remaining
  <2>3. b \in Nat
    BY <2>1, <2>2, NumberTypes
  <2> DEFINE new == [job EXCEPT !.pc = "begin", !.budget = b]
  <2>4. new \in Local
    BY <1>a, <2>3, Steps DEF Local
  <2>5. job.busy = {} /\ job.cand = {} /\ job.rows = {} /\ job.made = 0
    BY <1>1, <1>a DEF ReadBudget, At, Shape
  <2>6. /\ new.pc = "begin" /\ new.budget = b /\ new.run = job.run /\ new.lanes = job.lanes
        /\ new.busy = {} /\ new.cand = {} /\ new.rows = {} /\ new.made = 0
    BY <1>a, <2>5 DEF Local
  <2>9. Shape(new)
    <3> HIDE DEF new
    <3> QED  BY <1>a, <2>3, <2>5, <2>6, Nothing DEF Shape
  <2>7. Quiet(job, new)
    BY <2>6 DEF Quiet
  <2>8. sweep' = [sweep EXCEPT ![w] = new]
    BY <2>1
  <2> HIDE DEF new
  <2> QED  BY <2>4, <2>7, <2>8, <2>9, QuietUpdate
<1>2. CASE Begin(w)
  <2> DEFINE new == [job EXCEPT !.pc = "claim", !.since = 0]
  <2>1. new \in Local
    BY <1>a, Zero, Steps DEF Local
  <2>2. Shape(new) /\ Quiet(job, new)
    BY <1>2, <1>a DEF Begin, At, Shape, Quiet, Local
  <2>3. sweep' = [sweep EXCEPT ![w] = new]
    BY <1>2 DEF Begin
  <2> HIDE DEF new
  <2> QED  BY <2>1, <2>2, <2>3, QuietUpdate
<1>3. CASE Lock(w)
  <2>1. PICK R \in SUBSET {s \in job.cand : ~Locked(s) /\ Pending(s, s \in job.trivial)} :
          sweep' = [sweep EXCEPT ![w].pc = "commit", ![w].rows = R, ![w].cand = {}]
    BY <1>3 DEF Lock
  <2> DEFINE new == [job EXCEPT !.pc = "commit", !.rows = R, !.cand = {}]
  <2>2. R \in Sessions /\ {} \in Sessions
    BY <1>a, <2>1 DEF Sessions, Local
  <2>3. new \in Local
    BY <1>a, <2>2, Steps DEF Local
  <2>4. job.busy = {} /\ job.rows = {}
    BY <1>3, <1>a DEF Lock, At, Shape
  <2>5. Shape(new)
    BY <1>a, <2>4 DEF Shape, Local
  <2>6. \A s \in R : s \in job.cand /\ summary[s] # "generated"
    BY <2>1 DEF Pending
  <2>7. Quiet(job, new)
    BY <1>a, <2>4, <2>6 DEF Quiet, Local
  <2>8. sweep' = [sweep EXCEPT ![w] = new]
    BY <2>1
  <2> HIDE DEF new
  <2> QED  BY <2>3, <2>5, <2>7, <2>8, QuietUpdate
<1>4. CASE Crash(w)
  <2>1. Quiet(job, Idle)
    BY DEF Quiet, Idle
  <2> QED  BY <1>4, <2>1, IdleShaped, QuietUpdate DEF Crash
<1> QED  BY <1>1, <1>2, <1>3, <1>4

LEMMA BatchingStep ==
    ASSUME TypeOK, WellShaped, NEW w \in Sweep, Batching(w)
    PROVE  QuietStep
<1> DEFINE job == sweep[w]
<1>a. job \in Local /\ Shape(job)
  BY DEF TypeOK, WellShaped
<1>b. job.busy \in SUBSET Session /\ job.run \in SUBSET Session /\ job.lanes \in Nat
  BY <1>a, NumberTypes DEF Local, Sessions
<1>1. CASE Ask(w)
  <2>1. PICK t \in job.busy \ job.run : sweep' = [sweep EXCEPT ![w].run = @ \cup {t}]
    BY <1>1 DEF Ask
  <2> DEFINE new == [job EXCEPT !.run = @ \cup {t}]
  <2>2. job.run \cup {t} \in Sessions /\ job.run \cup {t} \subseteq job.busy
    BY <1>a, <1>b, <2>1 DEF Sessions, Shape
  <2>3. Cardinality(job.run \cup {t}) <= job.lanes
    <3>1. Cardinality(job.run) < job.lanes
      BY <1>1 DEF Ask, CanAsk
    <3> DEFINE T == job.run \cup {t}
    <3>2. T \in SUBSET Session
      BY <2>2 DEF Sessions
    <3>3. Cardinality(T) \in Nat
      <4> HIDE DEF T
      <4> QED  BY <3>2, Sizes
    <3>4. Cardinality(job.run) \in Nat
      <4>1. \A S \in SUBSET Session : Cardinality(S) \in Nat
        BY Sizes
      <4> QED  BY <4>1, <1>b
    <3>5. Cardinality(T) <= Cardinality(job.run) + 1
      <4>1. \A S \in SUBSET Session : \A x : Cardinality(S \cup {x}) <= Cardinality(S) + 1
        BY With
      <4> QED  BY <4>1, <1>b
    <3> HIDE DEF T
    <3>6. Cardinality(T) <= job.lanes
      BY <3>1, <3>3, <3>4, <3>5, <1>b
    <3> QED  BY <3>6 DEF T
  <2>4. new \in Local
    BY <1>a, <2>2 DEF Local
  <2>5. Shape(new)
    BY <1>a, <2>2, <2>3 DEF Shape, Local
  <2>6. Quiet(job, new)
    BY <1>a DEF Quiet, Local
  <2>7. sweep' = [sweep EXCEPT ![w] = new]
    BY <2>1
  <2> HIDE DEF new
  <2> QED  BY <2>4, <2>5, <2>6, <2>7, QuietUpdate
<1>2. CASE EndBatch(w)
  <2> DEFINE over == [job EXCEPT !.busy = {}, !.claimed = 0]
  <2>1. over \in Local
    BY <1>a, Zero DEF Local, Sessions
  <2>2. job.run = {} /\ job.cand = {} /\ job.rows = {}
    BY <1>2, <1>a DEF EndBatch, BatchOver, At, Shape
  <2>3. job.made <= job.budget
    <3>1. Cardinality(job.busy) \in Nat
      BY <1>b, Sizes
    <3> QED  BY <3>1, <1>a DEF Shape, Local
  <2>8. /\ over.busy = {} /\ over.cand = {} /\ over.rows = {} /\ over.run = {}
        /\ over.pc = "work" /\ over.lanes = job.lanes
        /\ over.made = job.made /\ over.budget = job.budget
    BY <1>a, <1>2, <2>2 DEF Local, EndBatch, At
  <2>4. Shape(over) /\ over.busy = {} /\ over.cand = {} /\ over.rows = {}
    <3> HIDE DEF over
    <3>1. job.made \in Nat
      BY <1>a DEF Local
    <3> QED  BY <1>b, <2>8, <2>3, <3>1, Nothing DEF Shape
  <2> DEFINE new == NextBatch(over)
  <2>5. /\ new \in Local /\ Shape(new)
        /\ new.busy = {} /\ new.cand = {} /\ new.rows = {}
    BY <2>1, <2>4, NextBatchShaped
  <2>6. Quiet(job, new)
    BY <2>5 DEF Quiet
  <2>7. sweep' = [sweep EXCEPT ![w] = new]
    BY <1>2 DEF EndBatch
  <2> HIDE DEF new
  <2> QED  BY <2>5, <2>6, <2>7, QuietUpdate
<1> QED  BY <1>1, <1>2 DEF Batching

LEMMA AnswerStep ==
    ASSUME TypeOK, WellShaped, NEW w \in Sweep, NEW s \in Session,
           Succeed(w, s) \/ Fail(w, s) \/ LaneThrows(w, s)
    PROVE  QuietStep
<1> DEFINE job == sweep[w]
<1>a. job \in Local /\ Shape(job)
  BY DEF TypeOK, WellShaped
<1>b. job.busy \in SUBSET Session /\ job.run \in SUBSET Session /\ job.lanes \in Nat
  BY <1>a, NumberTypes DEF Local, Sessions
<1>c. ASSUME s \in job.run
      PROVE  /\ Finished(job, s) \in Local
             /\ Finished(job, s).run = job.run \ {s} /\ Finished(job, s).busy = job.busy \ {s}
             /\ Cardinality(job.run \ {s}) = Cardinality(job.run) - 1
             /\ Cardinality(job.busy \ {s}) = Cardinality(job.busy) - 1
             /\ Cardinality(job.run) \in Nat /\ Cardinality(job.busy) \in Nat
  <2>1. s \in job.busy
    BY <1>a, <1>c DEF Shape
  <2>2. job.run \ {s} \in Sessions /\ job.busy \ {s} \in Sessions
    BY <1>b DEF Sessions
  <2>3. [job.asked EXCEPT ![s] = 0] \in [Session -> Nat]
    BY <1>a DEF Local
  <2>4. Finished(job, s) \in Local
    BY <1>a, <2>2, <2>3 DEF Finished, Local
  <2>5. Finished(job, s).run = job.run \ {s} /\ Finished(job, s).busy = job.busy \ {s}
    BY <1>a DEF Finished, Local
  <2> QED  BY <1>b, <1>c, <2>1, <2>4, <2>5, Without, Sizes
<1>3. CASE Succeed(w, s)
  <2> DEFINE new == [Finished(job, s) EXCEPT !.made = @ + 1]
  <2>1. s \in job.run
    BY <1>3 DEF Succeed
  <2>2. new \in Local
    BY <1>c, <2>1 DEF Local
  <2>3. Shape(new)
    BY <1>a, <1>b, <1>c, <2>1 DEF Shape, Local, Finished
  <2>4. Quiet(job, new)
    BY <1>a DEF Quiet, Local, Finished
  <2>5. sweep' = [sweep EXCEPT ![w] = new]
    BY <1>3 DEF Succeed
  <2> HIDE DEF new
  <2> QED  BY <2>2, <2>3, <2>4, <2>5, QuietUpdate
<1>4. CASE Fail(w, s)
  <2> DEFINE new == Finished(job, s)
  <2>1. s \in job.run
    BY <1>4 DEF Fail
  <2>2. Shape(new)
    BY <1>a, <1>b, <1>c, <2>1 DEF Shape, Local, Finished
  <2>3. Quiet(job, new)
    BY <1>a DEF Quiet, Local, Finished
  <2>4. sweep' = [sweep EXCEPT ![w] = new]
    BY <1>4 DEF Fail
  <2>5. new \in Local
    BY <1>c, <2>1
  <2> HIDE DEF new
  <2> QED  BY <2>2, <2>3, <2>4, <2>5, QuietUpdate
<1>5. CASE LaneThrows(w, s)
  <2> DEFINE new == [Finished(job, s) EXCEPT !.lanes = @ - 1, !.spent = TRUE]
  <2>1. s \in job.run
    BY <1>5 DEF LaneThrows
  <2>2. job.lanes >= 1
    <3>1. Cardinality(job.run \ {s}) \in Nat
      BY <1>b, Sizes
    <3> QED  BY <3>1, <1>a, <1>b, <1>c, <2>1 DEF Shape
  <2>3. job.lanes - 1 \in 0..Lanes /\ Finished(job, s).lanes = job.lanes
    BY <1>a, <2>2, NumberTypes DEF Local, Finished
  <2>4. new \in Local
    BY <1>c, <2>1, <2>3 DEF Local
  <2>5. Shape(new)
    BY <1>a, <1>b, <1>c, <2>1, <2>2 DEF Shape, Local, Finished
  <2>6. Quiet(job, new)
    BY <1>a DEF Quiet, Local, Finished
  <2>7. sweep' = [sweep EXCEPT ![w] = new]
    BY <1>5 DEF LaneThrows
  <2> HIDE DEF new
  <2> QED  BY <2>4, <2>5, <2>6, <2>7, QuietUpdate
<1> QED  BY <1>3, <1>4, <1>5

-----------------------------------------------------------------------------
(* The tables *)

QuietTables ==
    /\ lease' \in [Session -> Age \cup {None}]
    /\ attempts' \in [Session -> Nat] /\ failed' \in [Session -> Age]
    /\ summary' \in [Session -> {"none", "short", "generated"}]
    /\ counted' \subseteq {s \in Session : summary'[s] = "generated"}
    /\ big' \subseteq Session /\ started' \subseteq Sweep
    /\ fails' \in Nat /\ changes' \in Nat

\* No row that is locked gets its summary in this step.
GeneratedUnlocked ==
    \A s \in Session : summary'[s] = "generated" /\ summary[s] # "generated" =>
        \A w \in Sweep : s \notin sweep'[w].rows

\* What the sweeps have in common survives a step that claims nothing.
LEMMA QuietKeeps ==
    ASSUME IInv, QuietStep, QuietTables, GeneratedUnlocked, LeaseHeld'
    PROVE  IInv'
<1>1. TypeOK'
  BY DEF QuietStep, QuietTables, TypeOK
<1>2. FoundFree'
  BY DEF IInv, QuietStep, Quiet, FoundFree
<1>3. RowsPending'
  <2> SUFFICES ASSUME NEW w \in Sweep, NEW s \in Session, s \in sweep'[w].rows
               PROVE  summary'[s] # "generated"
    BY DEF RowsPending
  <2>1. summary[s] # "generated"
    BY DEF IInv, RowsPending, QuietStep, Quiet
  <2> QED  BY <2>1 DEF GeneratedUnlocked
<1> QED  BY <1>1, <1>2, <1>3 DEF IInv, QuietStep

\* A lease survives a step that changes neither it nor the errors.
LEMMA LeaseKept ==
    ASSUME IInv, QuietStep, UNCHANGED <<lease, attempts, failed>>,
           \A s \in Session : summary[s] = "generated" => summary'[s] = "generated"
    PROVE  LeaseHeld'
<1> SUFFICES ASSUME NEW v \in Sweep, NEW s \in Session, s \in sweep'[v].busy
             PROVE  \/ lease[s] # None /\ lease[s] <= sweep'[v].claimed
                    \/ lease[s] = None /\ summary'[s] = "generated"
                    \/ lease[s] = None /\ attempts[s] > 0 /\ failed[s] <= sweep'[v].claimed
  BY DEF LeaseHeld
<1>1. s \in sweep[v].busy /\ sweep'[v].claimed = sweep[v].claimed
  BY DEF QuietStep, Quiet
<1> QED  BY <1>1 DEF IInv, LeaseHeld

LEMMA SweepsAlone ==
    ASSUME TypeOK, WellShaped, UNCHANGED sweep
    PROVE  QuietStep
  BY DEF TypeOK, WellShaped, QuietStep, Quiet, Shape

\* Steps of a sweep that leave the tables.
LEMMA OwnKeeps ==
    ASSUME IInv, NEW w \in Sweep,
           \/ ReadBudget(w) \/ Begin(w) \/ Lock(w) \/ Crash(w) \/ Batching(w)
           \/ \E s \in Session : LaneThrows(w, s)
    PROVE  IInv'
<1>1. QuietStep
  BY SweepStarts, BatchingStep, AnswerStep DEF IInv
<1>2. UNCHANGED tables
  BY DEF ReadBudget, Begin, Lock, Crash, Batching, Ask, EndBatch, LaneThrows
<1>3. started' \subseteq Sweep /\ fails' \in Nat /\ changes' \in Nat
  <2>1. CASE ReadBudget(w)
    BY <2>1 DEF ReadBudget, Failure, IInv, TypeOK
  <2>2. CASE Begin(w) \/ Lock(w) \/ Batching(w)
    BY <2>2 DEF Begin, Lock, Batching, Ask, EndBatch, IInv, TypeOK
  <2>3. CASE Crash(w) \/ \E s \in Session : LaneThrows(w, s)
    <3>1. Failure /\ UNCHANGED started
      BY <2>3 DEF Crash, LaneThrows
    <3> QED  BY <3>1 DEF Failure, IInv, TypeOK
  <2> QED  BY <2>1, <2>2, <2>3
<1>4. QuietTables
  BY <1>2, <1>3 DEF tables, QuietTables, IInv, TypeOK
<1>5. LeaseHeld'
  BY <1>1, <1>2, LeaseKept DEF tables
<1>6. GeneratedUnlocked
  BY <1>2 DEF tables, GeneratedUnlocked
<1> QED  BY <1>1, <1>4, <1>5, <1>6, QuietKeeps

LEMMA AnswerKeeps ==
    ASSUME IInv, NEW w \in Sweep, NEW s \in Session, Succeed(w, s) \/ Fail(w, s)
    PROVE  IInv'
<1>1. QuietStep
  BY AnswerStep DEF IInv
<1>2. QuietTables
  <2>1. CASE Succeed(w, s)
    BY <2>1, Zero DEF Succeed, QuietTables, IInv, TypeOK
  <2>2. CASE Fail(w, s)
    BY <2>2, Zero DEF Fail, Failure, QuietTables, IInv, TypeOK
  <2> QED  BY <2>1, <2>2
<1>3. LeaseHeld'
  <2> SUFFICES ASSUME NEW v \in Sweep, NEW t \in Session, t \in sweep'[v].busy
               PROVE  \/ lease'[t] # None /\ lease'[t] <= sweep'[v].claimed
                      \/ lease'[t] = None /\ summary'[t] = "generated"
                      \/ lease'[t] = None /\ attempts'[t] > 0 /\ failed'[t] <= sweep'[v].claimed
    BY DEF LeaseHeld
  <2>1. t \in sweep[v].busy /\ sweep'[v].claimed = sweep[v].claimed
    BY <1>1 DEF QuietStep, Quiet
  <2>2. CASE t # s
    <3>1. /\ lease'[t] = lease[t] /\ attempts'[t] = attempts[t] /\ failed'[t] = failed[t]
          /\ summary'[t] = summary[t]
      BY <2>2 DEF Succeed, Fail, IInv, TypeOK
    <3> QED  BY <2>1, <3>1 DEF IInv, LeaseHeld
  <2>3. CASE t = s /\ Succeed(w, s)
    BY <2>3 DEF Succeed, IInv, TypeOK
  <2>4. CASE t = s /\ Fail(w, s)
    <3>1. sweep'[v].claimed >= 0
      BY <1>1, NumberTypes DEF QuietStep, Local, Age
    <3>2. lease'[s] = None /\ attempts'[s] = attempts[s] + 1 /\ failed'[s] = 0
      BY <2>4 DEF Fail, IInv, TypeOK
    <3> QED  BY <2>4, <3>1, <3>2 DEF IInv, TypeOK
  <2> QED  BY <2>2, <2>3, <2>4
<1>4. GeneratedUnlocked
  <2>1. CASE Fail(w, s)
    BY <2>1 DEF Fail, GeneratedUnlocked
  <2>2. CASE Succeed(w, s)
    <3>1. \A v \in Sweep : sweep'[v].rows = sweep[v].rows
      BY <2>2 DEF Succeed, Finished, IInv, TypeOK, Local
    <3>2. \A v \in Sweep : s \notin sweep[v].rows
      BY <2>2 DEF Succeed, Locked, At, IInv, WellShaped, Shape
    <3>3. \A t \in Session : t # s => summary'[t] = summary[t]
      BY <2>2 DEF Succeed, IInv, TypeOK
    <3> QED  BY <3>1, <3>2, <3>3 DEF GeneratedUnlocked
  <2> QED  BY <2>1, <2>2
<1> QED  BY <1>1, <1>2, <1>3, <1>4, QuietKeeps

LEMMA OthersKeep ==
    ASSUME IInv, NEW s \in Session,
           Resync(s) \/ Regenerate(s) \/ RegenerateFails(s) \/ HourOver(s)
    PROVE  IInv'
<1>1. QuietStep /\ UNCHANGED sweep
  BY SweepsAlone DEF IInv, Resync, Regenerate, RegenerateFails, HourOver
<1>2. QuietTables
  <2>1. CASE Resync(s)
    BY <2>1 DEF Resync, NewCounts, Change, QuietTables, IInv, TypeOK
  <2>2. CASE Regenerate(s)
    BY <2>2, Zero DEF Regenerate, Change, QuietTables, IInv, TypeOK
  <2>3. CASE RegenerateFails(s)
    BY <2>3, Zero DEF RegenerateFails, Change, QuietTables, IInv, TypeOK
  <2>4. CASE HourOver(s)
    BY <2>4 DEF HourOver, QuietTables, IInv, TypeOK
  <2> QED  BY <2>1, <2>2, <2>3, <2>4
<1>3. LeaseHeld'
  <2>1. CASE Resync(s) \/ HourOver(s)
    BY <2>1, <1>1, LeaseKept DEF Resync, HourOver
  <2>2. CASE Regenerate(s) \/ RegenerateFails(s)
    <3> SUFFICES ASSUME NEW v \in Sweep, NEW t \in Session, t \in sweep[v].busy
                 PROVE  \/ lease[t] # None /\ lease[t] <= sweep[v].claimed
                        \/ lease[t] = None /\ summary'[t] = "generated"
                        \/ lease[t] = None /\ attempts'[t] > 0 /\ failed'[t] <= sweep[v].claimed
      BY <1>1, <2>2 DEF LeaseHeld, Regenerate, RegenerateFails
    <3>1. CASE t # s
      <4>1. /\ attempts'[t] = attempts[t] /\ failed'[t] = failed[t] /\ summary'[t] = summary[t]
        BY <2>2, <3>1 DEF Regenerate, RegenerateFails, IInv, TypeOK
      <4> QED  BY <4>1 DEF IInv, LeaseHeld
    <3>2. CASE t = s /\ Regenerate(s)
      BY <3>2 DEF Regenerate, IInv, TypeOK, LeaseHeld
    <3>3. CASE t = s /\ RegenerateFails(s)
      <4>1. sweep[v].claimed >= 0
        BY NumberTypes DEF IInv, TypeOK, Local, Age
      <4>2. attempts'[s] = attempts[s] + 1 /\ failed'[s] = 0 /\ attempts[s] \in Nat
        BY <3>3 DEF RegenerateFails, IInv, TypeOK
      <4> QED  BY <3>3, <4>1, <4>2 DEF IInv, LeaseHeld
    <3> QED  BY <2>2, <3>1, <3>2, <3>3
  <2> QED  BY <2>1, <2>2
<1>4. GeneratedUnlocked
  <2>1. CASE Resync(s) \/ RegenerateFails(s) \/ HourOver(s)
    BY <2>1 DEF Resync, RegenerateFails, HourOver, GeneratedUnlocked
  <2>2. CASE Regenerate(s)
    <3>1. \A v \in Sweep : s \notin sweep[v].rows
      BY <2>2 DEF Regenerate, Locked, At, IInv, WellShaped, Shape
    <3>2. \A t \in Session : t # s => summary'[t] = summary[t]
      BY <2>2 DEF Regenerate, IInv, TypeOK
    <3> QED  BY <1>1, <3>1, <3>2 DEF GeneratedUnlocked
  <2> QED  BY <2>1, <2>2
<1> QED  BY <1>1, <1>2, <1>3, <1>4, QuietKeeps

\* What a select finds has no holder within his lease: he would have a lease still,
\* or the session its summary, or an error that has not waited for the backoff.
LEMMA SelectKeeps ==
    ASSUME IInv, NEW w \in Sweep, Select(w)
    PROVE  IInv'
<1> DEFINE found ==
        {s \in Session : Pending(s, s \notin big) /\ Free(w, s) /\ ~Deferred(w, s)}
           job == sweep[w]
           new == [job EXCEPT !.pc = "lock", !.cand = found, !.trivial = found \ big,
                              !.crossed = {}]
<1>1. sweep' = [sweep EXCEPT ![w] = new] /\ UNCHANGED <<tables, started, fails, changes>>
  BY DEF Select
<1>2. job \in Local /\ Shape(job) /\ job.pc = "claim"
  BY DEF IInv, TypeOK, WellShaped, Select, At
<1>3. found \in Sessions /\ found \ big \in Sessions /\ {} \in SUBSET Sweep
  BY DEF Sessions
<1>4. new \in Local
  <2> HIDE DEF found
  <2> QED  BY <1>2, <1>3, Steps DEF Local
<1>5. /\ new.pc = "lock" /\ new.busy = {} /\ new.rows = {} /\ new.cand = found
      /\ new.run = job.run /\ new.lanes = job.lanes /\ new.made = job.made
      /\ new.budget = job.budget
  BY <1>2 DEF Local, Shape
<1>6. Shape(new)
  <2> HIDE DEF new
  <2> QED  BY <1>2, <1>5 DEF Shape
<1>7. \A v \in Sweep : sweep'[v] = IF v = w THEN new ELSE sweep[v]
  BY <1>1 DEF IInv, TypeOK
<1>8. TypeOK' /\ WellShaped'
  <2> HIDE DEF new
  <2>1. sweep' \in [Sweep -> Local]
    BY <1>1, <1>4 DEF IInv, TypeOK
  <2>2. TypeOK'
    BY <1>1, <2>1 DEF IInv, TypeOK, tables
  <2> QED  BY <2>2, <1>6, <1>7 DEF IInv, WellShaped, Shape
<1>9. LeaseHeld'
  <2> HIDE DEF new
  <2> QED  BY <1>1, <1>5, <1>7 DEF IInv, LeaseHeld, tables
<1>10. RowsPending'
  <2> HIDE DEF new
  <2> QED  BY <1>1, <1>5, <1>7 DEF IInv, RowsPending, tables
<1>11. ASSUME NEW v \in Sweep, NEW s \in found, v # w, s \in sweep[v].busy
       PROVE  sweep[v].claimed > Lease
  <2>1. /\ sweep[v].claimed \in Nat /\ job.since \in Nat /\ failed[s] \in Nat
        /\ lease[s] \in Nat \cup {None}
    BY <1>2, NumberTypes DEF IInv, TypeOK, Local, Age
  <2>2. summary[s] # "generated"
    BY DEF Pending
  <2>3. CASE lease[s] # None
    <3>1. lease[s] <= sweep[v].claimed
      BY <1>11, <2>3 DEF IInv, LeaseHeld
    <3>2. lease[s] > job.since + Lease
      BY <2>3 DEF Free
    <3> QED  BY <2>1, <2>3, <3>1, <3>2, NumberTypes
  <2>4. CASE lease[s] = None
    <3>1. attempts[s] > 0 /\ failed[s] <= sweep[v].claimed
      BY <1>11, <2>2, <2>4 DEF IInv, LeaseHeld
    <3>2. ~(failed[s] < job.since + Backoff)
      BY <3>1 DEF Deferred
    <3> QED  BY <2>1, <3>1, <3>2, NumberTypes, BackoffAssumption
  <2> QED  BY <2>3, <2>4
<1>12. FoundFree'
  <2> SUFFICES ASSUME NEW v \in Sweep, NEW u \in Sweep, NEW s \in Session,
                      v # u, s \in sweep'[v].busy,
                      s \in sweep'[u].cand \/ s \in sweep'[u].rows
               PROVE  sweep'[v].claimed > Lease \/ v \in sweep'[u].crossed
    BY DEF FoundFree
  <2> HIDE DEF new, found
  <2>1. v # w /\ sweep'[v] = sweep[v]
    BY <1>5, <1>7
  <2>2. CASE u = w
    BY <1>5, <1>7, <1>11, <2>1, <2>2
  <2>3. CASE u # w
    BY <1>7, <2>1, <2>3 DEF IInv, FoundFree
  <2> QED  BY <2>2, <2>3
<1> QED  BY <1>8, <1>9, <1>10, <1>12 DEF IInv

\* A claim.
LEMMA CommitKeeps ==
    ASSUME IInv, NEW w \in Sweep, Commit(w)
    PROVE  IInv'
<1> DEFINE job == sweep[w]
<1>1. PICK R \in SUBSET (job.rows \ job.trivial) :
        /\ R = {} \/ InBudget(w, R)
        /\ lease' = [s \in Session |-> IF s \in R THEN 0 ELSE lease[s]]
        /\ sweep' = [v \in Sweep |->
               IF v = w THEN Claimed(job, R)
               ELSE IF sweep[v].pc \in {"lock", "commit"}
                 THEN [sweep[v] EXCEPT !.crossed = @ \cup {w}] ELSE sweep[v]]
  BY DEF Commit
<1> DEFINE new == Claimed(job, R)
<1>2. job \in Local /\ Shape(job) /\ job.pc = "commit"
  BY DEF IInv, TypeOK, WellShaped, Commit, At
<1>3. /\ new \in Local /\ Shape(new) /\ new.busy \subseteq R
      /\ new.busy # {} => new.claimed = 0
      /\ new.cand = {} /\ new.rows = {}
  <2>1. R \in SUBSET job.rows /\ (R = {} \/ Cardinality(R) <= job.budget - job.made)
    BY <1>1 DEF InBudget
  <2> QED  BY <1>2, <2>1, ClaimedShaped
<1> HIDE DEF new
<1>4. sweep'[w] = new
  BY <1>1 DEF new
<1>5. ASSUME NEW v \in Sweep, v # w
      PROVE  /\ sweep'[v] \in Local /\ Shape(sweep'[v])
             /\ sweep'[v].busy = sweep[v].busy /\ sweep'[v].claimed = sweep[v].claimed
             /\ sweep'[v].cand = sweep[v].cand /\ sweep'[v].rows = sweep[v].rows
             /\ sweep[v].crossed \subseteq sweep'[v].crossed
             /\ sweep[v].cand \cup sweep[v].rows # {} => w \in sweep'[v].crossed
  <2>1. sweep[v] \in Local /\ Shape(sweep[v])
    BY DEF IInv, TypeOK, WellShaped
  <2>2. CASE sweep[v].pc \in {"lock", "commit"}
    <3> DEFINE told == [sweep[v] EXCEPT !.crossed = @ \cup {w}]
    <3>1. sweep'[v] = told
      BY <1>1, <1>5, <2>2
    <3>2. told \in Local
      BY <2>1 DEF Local
    <3>3. Shape(told)
      BY <2>1 DEF Local, Shape
    <3>4. /\ told.busy = sweep[v].busy /\ told.claimed = sweep[v].claimed
          /\ told.cand = sweep[v].cand /\ told.rows = sweep[v].rows
          /\ told.crossed = sweep[v].crossed \cup {w}
      BY <2>1 DEF Local
    <3> QED  BY <3>1, <3>2, <3>3, <3>4
  <2>3. CASE sweep[v].pc \notin {"lock", "commit"}
    <3>1. sweep'[v] = sweep[v]
      BY <1>1, <1>5, <2>3
    <3> QED  BY <2>1, <2>3, <3>1 DEF Shape
  <2> QED  BY <2>2, <2>3
<1>6. TypeOK'
  <2>1. sweep' \in [Sweep -> Local]
    BY <1>1, <1>3, <1>4, <1>5
  <2>2. lease' \in [Session -> Age \cup {None}]
    BY <1>1, Zero DEF IInv, TypeOK
  <2>3. summary' \in [Session -> {"none", "short", "generated"}]
    BY DEF Commit, IInv, TypeOK
  <2>4. \A s \in Session : summary[s] = "generated" => summary'[s] = "generated"
    BY DEF Commit, IInv, TypeOK
  <2>5. UNCHANGED <<big, attempts, failed, counted, started, fails, changes>>
    BY DEF Commit
  <2> QED  BY <2>1, <2>2, <2>3, <2>4, <2>5 DEF IInv, TypeOK
<1>7. WellShaped'
  <2>1. \A v \in Sweep : Shape(sweep'[v])
    BY <1>3, <1>4, <1>5
  <2> QED  BY <2>1 DEF WellShaped, Shape
<1>8. LeaseHeld'
  <2> SUFFICES ASSUME NEW v \in Sweep, NEW s \in Session, s \in sweep'[v].busy
               PROVE  \/ lease'[s] # None /\ lease'[s] <= sweep'[v].claimed
                      \/ lease'[s] = None /\ summary'[s] = "generated"
                      \/ lease'[s] = None /\ attempts'[s] > 0 /\ failed'[s] <= sweep'[v].claimed
    BY DEF LeaseHeld
  <2>1. CASE s \in R
    <3>1. lease'[s] = 0 /\ 0 # None
      BY <1>1, <2>1, NoneAssumption
    <3>2. sweep'[v].claimed >= 0
      <4>1. sweep'[v] \in Local
        BY <1>6 DEF TypeOK
      <4> QED  BY <4>1, NumberTypes DEF Local, Age
    <3> QED  BY <3>1, <3>2
  <2>2. CASE s \notin R
    <3>1. v # w
      BY <1>3, <1>4, <2>2
    <3>2. s \in sweep[v].busy /\ sweep'[v].claimed = sweep[v].claimed
      BY <1>5, <3>1
    <3>3. lease'[s] = lease[s] /\ attempts' = attempts /\ failed' = failed
      BY <1>1, <2>2 DEF Commit
    <3>4. summary[s] = "generated" => summary'[s] = "generated"
      BY DEF Commit, IInv, TypeOK
    <3> QED  BY <3>2, <3>3, <3>4 DEF IInv, LeaseHeld
  <2> QED  BY <2>1, <2>2
<1>9. FoundFree'
  <2> SUFFICES ASSUME NEW v \in Sweep, NEW u \in Sweep, NEW s \in Session,
                      v # u, s \in sweep'[v].busy,
                      s \in sweep'[u].cand \/ s \in sweep'[u].rows
               PROVE  sweep'[v].claimed > Lease \/ v \in sweep'[u].crossed
    BY DEF FoundFree
  <2>1. u # w
    BY <1>3, <1>4
  <2>2. s \in sweep[u].cand \cup sweep[u].rows /\ sweep[u].crossed \subseteq sweep'[u].crossed
    BY <1>5, <2>1
  <2>3. CASE v = w
    BY <1>5, <2>1, <2>2, <2>3
  <2>4. CASE v # w
    <3>1. s \in sweep[v].busy /\ sweep'[v].claimed = sweep[v].claimed
      BY <1>5, <2>4
    <3> QED  BY <2>2, <3>1 DEF IInv, FoundFree
  <2> QED  BY <2>3, <2>4
<1>10. RowsPending'
  <2> SUFFICES ASSUME NEW v \in Sweep, NEW s \in Session, s \in sweep'[v].rows
               PROVE  summary'[s] # "generated"
    BY DEF RowsPending
  <2>1. v # w
    BY <1>3, <1>4
  <2>2. summary[s] # "generated"
    BY <1>5, <2>1 DEF IInv, RowsPending
  <2> QED  BY <2>2 DEF Commit
<1> QED  BY <1>6, <1>7, <1>8, <1>9, <1>10 DEF IInv

\* Time passes for leases, errors and sweeps alike.
LEMMA PassKeeps ==
    ASSUME IInv, Pass
    PROVE  IInv'
<1>1. ASSUME NEW v \in Sweep
      PROVE  /\ sweep'[v] \in Local /\ Shape(sweep'[v])
             /\ sweep'[v].busy = sweep[v].busy
             /\ sweep'[v].cand = sweep[v].cand /\ sweep'[v].rows = sweep[v].rows
             /\ sweep'[v].crossed = sweep[v].crossed
             /\ sweep[v].busy # {} => sweep'[v].claimed = Older(sweep[v].claimed)
  <2> DEFINE job == sweep[v]
             asked == [s \in Session |-> IF s \in job.run THEN job.asked[s] + 1 ELSE job.asked[s]]
             aged == [job EXCEPT !.since = Older(@), !.claimed = Older(@), !.asked = asked]
  <2>1. job \in Local /\ Shape(job)
    BY DEF IInv, TypeOK, WellShaped
  <2>2. sweep'[v] = Aged(job)
    BY DEF Pass
  <2>3. CASE job.pc = "idle"
    <3>1. Aged(job) = job
      BY <2>3 DEF Aged
    <3>2. job.busy = {}
      BY <2>1, <2>3 DEF Shape
    <3> QED  BY <2>1, <2>2, <3>1, <3>2
  <2>4. CASE job.pc # "idle"
    <3>1. Aged(job) = aged
      BY <2>4 DEF Aged
    <3>2. job.since \in Age /\ job.claimed \in Age
      BY <2>1 DEF Local
    <3>3. Older(job.since) \in Age /\ Older(job.claimed) \in Age
      BY <3>2, Older_
    <3>4. asked \in [Session -> Nat]
      BY <2>1 DEF Local
    <3>5. aged \in Local
      <4> HIDE DEF asked
      <4> QED  BY <2>1, <3>3, <3>4 DEF Local
    <3>6. /\ aged.pc = job.pc /\ aged.busy = job.busy /\ aged.cand = job.cand
          /\ aged.rows = job.rows /\ aged.run = job.run /\ aged.lanes = job.lanes
          /\ aged.made = job.made /\ aged.budget = job.budget /\ aged.crossed = job.crossed
          /\ aged.claimed = Older(job.claimed)
      <4> HIDE DEF asked
      <4> QED  BY <2>1 DEF Local
    <3> HIDE DEF aged
    <3>7. Shape(aged)
      BY <2>1, <3>6 DEF Shape
    <3> QED  BY <2>2, <3>1, <3>5, <3>6, <3>7
  <2> QED  BY <2>3, <2>4
<1>2. \A s \in Session : /\ lease[s] = None => lease'[s] = None
                         /\ lease[s] # None => lease[s] \in Age /\ lease'[s] = Older(lease[s])
  BY DEF Pass, IInv, TypeOK
<1>3. \A s \in Session : attempts[s] > 0 => failed'[s] = Older(failed[s])
  BY DEF Pass
<1>4. UNCHANGED <<summary, big, attempts, counted, fails, changes>> /\ started' = {}
  BY DEF Pass
<1>5. TypeOK'
  <2>1. sweep' \in [Sweep -> Local]
    <3>1. DOMAIN sweep' = Sweep /\ sweep' = [v \in Sweep |-> sweep'[v]]
      BY DEF Pass
    <3> QED  BY <1>1, <3>1
  <2>2. lease' \in [Session -> Age \cup {None}]
    BY Older_ DEF Pass, IInv, TypeOK
  <2>3. failed' \in [Session -> Age]
    BY Older_ DEF Pass, IInv, TypeOK
  <2> QED  BY <1>4, <2>1, <2>2, <2>3 DEF IInv, TypeOK
<1>6. WellShaped'
  <2>1. \A v \in Sweep : Shape(sweep'[v])
    BY <1>1
  <2> QED  BY <2>1 DEF WellShaped, Shape
<1>a. ASSUME NEW v \in Sweep, NEW s \in Session, s \in sweep'[v].busy
      PROVE  /\ s \in sweep[v].busy /\ sweep[v].claimed \in Age
             /\ sweep'[v].claimed = Older(sweep[v].claimed)
  BY <1>1, <1>a DEF IInv, TypeOK, Local
<1>7. LeaseHeld'
  <2> SUFFICES ASSUME NEW v \in Sweep, NEW s \in Session, s \in sweep'[v].busy
               PROVE  \/ lease'[s] # None /\ lease'[s] <= sweep'[v].claimed
                      \/ lease'[s] = None /\ summary'[s] = "generated"
                      \/ lease'[s] = None /\ attempts'[s] > 0 /\ failed'[s] <= sweep'[v].claimed
    BY DEF LeaseHeld
  <2>1. CASE lease[s] # None
    <3>1. lease[s] <= sweep[v].claimed
      BY <1>a, <2>1 DEF IInv, LeaseHeld
    <3>2. lease'[s] \in Age /\ lease'[s] <= sweep'[v].claimed
      BY <1>a, <1>2, <2>1, <3>1, Older_
    <3>3. lease'[s] # None
      BY <3>2, NoneAssumption, NumberTypes DEF Age
    <3> QED  BY <3>2, <3>3
  <2>2. CASE lease[s] = None /\ summary[s] = "generated"
    BY <1>2, <1>4, <2>2
  <2>3. CASE lease[s] = None /\ attempts[s] > 0 /\ failed[s] <= sweep[v].claimed
    <3>1. failed[s] \in Age
      BY DEF IInv, TypeOK
    <3>2. failed'[s] <= sweep'[v].claimed
      BY <1>a, <1>3, <2>3, <3>1, Older_
    <3> QED  BY <1>2, <1>4, <2>3, <3>2
  <2> QED  BY <1>a, <2>1, <2>2, <2>3 DEF IInv, LeaseHeld
<1>8. FoundFree'
  <2> SUFFICES ASSUME NEW v \in Sweep, NEW u \in Sweep, NEW s \in Session,
                      v # u, s \in sweep'[v].busy,
                      s \in sweep'[u].cand \/ s \in sweep'[u].rows
               PROVE  sweep'[v].claimed > Lease \/ v \in sweep'[u].crossed
    BY DEF FoundFree
  <2>1. sweep[v].claimed > Lease \/ v \in sweep[u].crossed
    BY <1>1, <1>a DEF IInv, FoundFree
  <2>2. sweep[v].claimed <= sweep'[v].claimed /\ sweep'[v].claimed \in Age
    BY <1>a, Older_
  <2>3. sweep[v].claimed \in Nat /\ sweep'[v].claimed \in Nat
    BY <1>a, <2>2, NumberTypes DEF Age
  <2> QED  BY <1>1, <2>1, <2>2, <2>3, NumberTypes
<1>9. RowsPending'
  BY <1>1, <1>4 DEF IInv, RowsPending
<1> QED  BY <1>5, <1>6, <1>7, <1>8, <1>9 DEF IInv

-----------------------------------------------------------------------------
(* The theorems *)

LEMMA InitIInv == Init => IInv
<1> SUFFICES ASSUME Init PROVE IInv
  OBVIOUS
<1>1. \A w \in Sweep : sweep[w] = Idle
  BY DEF Init
<1>2. sweep \in [Sweep -> Local]
  BY IdleShaped DEF Init
<1>3. TypeOK
  BY <1>2, Zero DEF Init, TypeOK
<1>4. Idle.busy = {} /\ Idle.rows = {} /\ Idle.cand = {}
  BY DEF Idle
<1>5. WellShaped
  <2> SUFFICES ASSUME NEW w \in Sweep PROVE Shape(sweep[w])
    BY DEF WellShaped
  <2>1. sweep[w] = Idle
    BY <1>1
  <2> QED  BY <2>1, IdleShaped
<1> QED  BY <1>1, <1>3, <1>4, <1>5 DEF IInv, LeaseHeld, FoundFree, RowsPending

LEMMA NextIInv == IInv /\ [Next]_vars => IInv'
<1> SUFFICES ASSUME IInv, [Next]_vars PROVE IInv'
  OBVIOUS
<1>1. CASE \E w \in Sweep :
             ReadBudget(w) \/ Claim(w) \/ Batching(w) \/ Answer(w) \/ Crash(w)
  <2>1. PICK w \in Sweep : ReadBudget(w) \/ Claim(w) \/ Batching(w) \/ Answer(w) \/ Crash(w)
    BY <1>1
  <2>2. CASE ReadBudget(w) \/ Begin(w) \/ Lock(w) \/ Crash(w) \/ Batching(w)
    BY <2>2, OwnKeeps
  <2>3. CASE Select(w)
    BY <2>3, SelectKeeps
  <2>4. CASE Commit(w)
    BY <2>4, CommitKeeps
  <2>5. CASE Answer(w)
    <3>1. PICK s \in Session : Succeed(w, s) \/ Fail(w, s) \/ LaneThrows(w, s)
      BY <2>5 DEF Answer
    <3>2. CASE Succeed(w, s) \/ Fail(w, s)
      BY <3>2, AnswerKeeps
    <3>3. CASE LaneThrows(w, s)
      BY <3>3, OwnKeeps
    <3> QED  BY <3>1, <3>2, <3>3
  <2> QED  BY <2>1, <2>2, <2>3, <2>4, <2>5 DEF Claim
<1>2. CASE \E s \in Session : Resync(s) \/ Regenerate(s) \/ RegenerateFails(s) \/ HourOver(s)
  BY <1>2, OthersKeep
<1>3. CASE Pass
  BY <1>3, PassKeeps
<1>4. CASE UNCHANGED vars
  BY <1>4 DEF vars, tables, IInv, TypeOK, WellShaped, Shape, LeaseHeld, FoundFree, RowsPending
<1> QED  BY <1>1, <1>2, <1>3, <1>4 DEF Next

\* A sweep takes up only sessions of the rows it has locked.
LEMMA BusyIsRows ==
    ASSUME IInv, [Next]_vars, NEW w \in Sweep, NEW s \in Session,
           s \in sweep'[w].busy, s \notin sweep[w].busy
    PROVE  s \in sweep[w].rows
<1>1. ASSUME QuietStep PROVE FALSE
  BY <1>1 DEF QuietStep, Quiet
<1>2. CASE \E v \in Sweep : Commit(v)
  <2>1. PICK v \in Sweep : Commit(v)
    BY <1>2
  <2> DEFINE job == sweep[v]
  <2>2. PICK R \in SUBSET (job.rows \ job.trivial) :
          /\ R = {} \/ InBudget(v, R)
          /\ sweep' = [u \in Sweep |->
                 IF u = v THEN Claimed(job, R)
                 ELSE IF sweep[u].pc \in {"lock", "commit"}
                   THEN [sweep[u] EXCEPT !.crossed = @ \cup {v}] ELSE sweep[u]]
    BY <2>1 DEF Commit
  <2>3. CASE w = v
    <3>1. job \in Local /\ Shape(job) /\ job.pc = "commit"
      BY <2>1 DEF IInv, TypeOK, WellShaped, Commit, At
    <3>2. R \in SUBSET job.rows /\ (R = {} \/ Cardinality(R) <= job.budget - job.made)
      BY <2>2 DEF InBudget
    <3>3. Claimed(job, R).busy \subseteq R
      BY <3>1, <3>2, ClaimedShaped
    <3> QED  BY <2>2, <2>3, <3>3
  <2>4. CASE w # v
    <3>1. sweep[w] \in Local
      BY DEF IInv, TypeOK
    <3>2. \/ sweep'[w] = [sweep[w] EXCEPT !.crossed = @ \cup {v}]
          \/ sweep'[w] = sweep[w]
      BY <2>2, <2>4
    <3>3. sweep'[w].busy = sweep[w].busy
      BY <3>1, <3>2 DEF Local
    <3> QED  BY <3>3
  <2> QED  BY <2>3, <2>4
<1>3. CASE \E v \in Sweep : Select(v)
  <2>1. PICK v \in Sweep : Select(v)
    BY <1>3
  <2> DEFINE found ==
        {t \in Session : Pending(t, t \notin big) /\ Free(v, t) /\ ~Deferred(v, t)}
  <2>2. sweep' = [sweep EXCEPT ![v].pc = "lock", ![v].cand = found, ![v].trivial = found \ big,
                               ![v].crossed = {}]
    BY <2>1 DEF Select
  <2> HIDE DEF found
  <2>3. sweep[w] \in Local /\ sweep \in [Sweep -> Local]
    BY DEF IInv, TypeOK
  <2>4. sweep'[w].busy = sweep[w].busy
    BY <2>2, <2>3 DEF Local
  <2> QED  BY <2>4
<1>4. CASE Pass
  <2>1. sweep[w] \in Local /\ sweep'[w] = Aged(sweep[w])
    BY <1>4 DEF Pass, IInv, TypeOK
  <2>2. Aged(sweep[w]).busy = sweep[w].busy
    BY <2>1 DEF Aged, Local
  <2> QED  BY <2>1, <2>2
<1>5. CASE \E v \in Sweep : ReadBudget(v) \/ Begin(v) \/ Lock(v) \/ Crash(v) \/ Batching(v)
  BY <1>1, <1>5, SweepStarts, BatchingStep DEF IInv
<1>6. CASE \E v \in Sweep : Answer(v)
  BY <1>1, <1>6, AnswerStep DEF IInv, Answer
<1>7. CASE \/ UNCHANGED vars
           \/ \E t \in Session : Resync(t) \/ Regenerate(t) \/ RegenerateFails(t) \/ HourOver(t)
  BY <1>7 DEF vars, Resync, Regenerate, RegenerateFails, HourOver
<1> QED  BY <1>2, <1>3, <1>4, <1>5, <1>6, <1>7 DEF Next, Claim

\* A generated summary stays.
LEMMA GeneratedStays ==
    ASSUME IInv, [Next]_vars, NEW s \in Session, summary[s] = "generated"
    PROVE  summary'[s] = "generated"
<1>1. CASE \E w \in Sweep :
             ReadBudget(w) \/ Claim(w) \/ Batching(w) \/ Answer(w) \/ Crash(w)
  <2>1. PICK w \in Sweep : ReadBudget(w) \/ Claim(w) \/ Batching(w) \/ Answer(w) \/ Crash(w)
    BY <1>1
  <2>2. CASE ReadBudget(w) \/ Claim(w) \/ Batching(w) \/ Crash(w)
    BY <2>2 DEF ReadBudget, Claim, Begin, Select, Lock, Commit, Batching, Ask, EndBatch, Crash,
                tables, IInv, TypeOK
  <2>3. CASE Answer(w)
    BY <2>3 DEF Answer, Succeed, Fail, LaneThrows, tables, IInv, TypeOK
  <2> QED  BY <2>1, <2>2, <2>3
<1>2. CASE \E t \in Session : Resync(t) \/ Regenerate(t) \/ RegenerateFails(t) \/ HourOver(t)
  BY <1>2 DEF Resync, Regenerate, RegenerateFails, HourOver, IInv, TypeOK
<1>3. CASE Pass \/ UNCHANGED vars
  BY <1>3 DEF Pass, vars, tables
<1> QED  BY <1>1, <1>2, <1>3 DEF Next

\* For every instance the invariant above holds in every state.
THEOREM Invariance == Spec => []IInv
<1>1. Init => IInv
  BY InitIInv
<1>2. IInv /\ [Next]_vars => IInv'
  BY NextIInv
<1> QED  BY <1>1, <1>2, PTL DEF Spec

\* The tables and the variables of the sweeps keep their types; only generated
\* summaries count for the hour.
THEOREM TypeCorrect == Spec => []TypeOK
<1>1. IInv => TypeOK
  BY DEF IInv
<1> QED  BY <1>1, Invariance, PTL

\* The budget of a sweep (summary-worker.ts 373, 445-457) holds over all its batches.
THEOREM WithinBudget == Spec => []SweepWithinBudget
<1>1. IInv => SweepWithinBudget
  BY DEF IInv, WellShaped, Shape, SweepWithinBudget
<1> QED  BY <1>1, Invariance, PTL

\* A second sweep works at a session only past an overrun lease, or when its claim
\* and that of the first have crossed (410-481), as the backoff is longer than a lease.
THEOREM OnlyOverdue == Spec => OnlyOverdueDoubled
<1>1. IInv /\ [Next]_vars =>
        \A v, w \in Sweep, s \in Session :
            v # w /\ s \in sweep'[w].busy \ sweep[w].busy /\ s \in sweep[v].busy
                => sweep[v].claimed > Lease \/ v \in sweep[w].crossed
  BY BusyIsRows DEF IInv, FoundFree
<1> QED  BY <1>1, Invariance, PTL DEF Spec, OnlyOverdueDoubled

\* No sync takes a generated summary away, and no claim gets its session, also one
\* that has selected it before (caches.ts 142-174, summary-worker.ts 441).
THEOREM KeepsGenerated == Spec => GeneratedIsKept
<1>1. IInv /\ [Next]_vars =>
        \A s \in Session : summary[s] = "generated" =>
            /\ summary'[s] = "generated"
            /\ \A w \in Sweep : s \in sweep'[w].busy => s \in sweep[w].busy
  BY BusyIsRows, GeneratedStays DEF IInv, RowsPending
<1> QED  BY <1>1, Invariance, PTL DEF Spec, GeneratedIsKept
=============================================================================
