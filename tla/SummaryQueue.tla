---------------------------- MODULE SummaryQueue ----------------------------
(***************************************************************************)
(* The queue of sessions that want a summary, and the sweeps of several    *)
(* server processes that work it off (server/src/services/                 *)
(* summary-worker.ts, the Postgres path).                                  *)
(*                                                                         *)
(* A sweep claims a batch in a short transaction: it selects the pending   *)
(* rows FOR UPDATE SKIP LOCKED, stamps leases in a table of their own, and *)
(* commits.  Its lanes then ask the LLM outside of any transaction, and    *)
(* each result is one transaction more.  The select sees what is committed *)
(* when it starts and locks its rows later; a row that was changed         *)
(* meanwhile is judged again, and a lease is not part of the row.          *)
(*                                                                         *)
(* Time is kept as ages, which grow together and stop at MaxAge.  One      *)
(* tenant; a sweep that has thrown while lanes of it still work, and the   *)
(* next sweep of its process, are two.                                     *)
(***************************************************************************)
EXTENDS Integers, FiniteSets

CONSTANTS
    Sweep,        \* sweeps at work at a time
    Session,
    None,         \* no lease
    Batch,        \* CLAIM_BATCH
    TickCap,      \* TICK_CAP: sessions one sweep touches
    Lanes,        \* LLM calls of a sweep at a time
    Timeout,      \* summarizeBounded
    Lease,        \* LEASE_MS
    Backoff,      \* distance of two attempts
    Window,       \* RETRY_WINDOW_MS
    MaxAttempts,  \* attempts before a session is parked for the window
    Cap,          \* LLM summaries of an hour
    Uncapped,     \* a budget no sweep uses up
    MaxAge,       \* bound: ages are not told apart from here on
    MaxFails,     \* bound: attempts, queries and transactions that fail, sweeps that die
    MaxChanges    \* bound: syncs, and summaries asked for by a user

Numbers ==
    {Batch, TickCap, Lanes, Timeout, Lease, Backoff, Window, MaxAttempts, Cap, Uncapped, MaxAge,
     MaxFails, MaxChanges}
ASSUME NumbersAssumption == Numbers \subseteq Nat /\ Batch > 0 /\ Lanes > 0
ASSUME NoneAssumption == None \notin Nat
ASSUME FiniteAssumption == IsFiniteSet(Session)

\* So by default; the environment can set either by itself.
ASSUME BackoffAssumption == Lease < Backoff

(* The tables, one row per session. *)
VARIABLES
    summary,   \* session_metadata: none, the first prompt of a short session, or generated
    big,       \* sessions that are not trivial by their counts in memory_metadata
    lease,     \* summary_leases: age of the claim; or None
    attempts,  \* summary_errors: failed attempts
    failed,    \*   and the age of the last
    counted    \* sessions with a generated summary that is dated within the hour

tables == <<summary, big, lease, attempts, failed, counted>>

VARIABLES
    sweep,     \* per sweep: its local variables
    started,   \* sweeps that have started since time last passed
    fails, changes

vars == <<tables, sweep, started, fails, changes>>

PC == {"idle", "begin", "claim", "lock", "commit", "work"}
Age == 0..MaxAge
Sessions == SUBSET Session

Local ==
    [pc : PC,                  \* its next step
     since : Age,              \* age of its `now`
     budget : Nat,             \* maxReal
     made : Nat,               \* realGenerated
     seen : Nat,               \* totalSeen
     spent : BOOLEAN,          \* budgetExhausted, or a lane has thrown
     cand : Sessions,          \* rows its select has found
     trivial : Sessions,       \*   and which of them have the counts of a trivial session
     rows : Sessions,          \* rows it has locked
     busy : Sessions,          \* sessions it has claimed and is not done with
     claimed : Age,            \* age of the claim of busy
     run : Sessions,           \* those of busy the LLM is asked for
     asked : [Session -> Nat], \* age of these calls
     lanes : 0..Lanes,         \* lanes that have not thrown
     crossed : SUBSET Sweep]   \* observation: who has committed a claim since its select began

Idle ==
    [pc |-> "idle", since |-> 0, budget |-> 0, made |-> 0, seen |-> 0, spent |-> FALSE,
     cand |-> {}, trivial |-> {}, rows |-> {}, busy |-> {}, claimed |-> 0, run |-> {},
     asked |-> [s \in Session |-> 0], lanes |-> 0, crossed |-> {}]

Init ==
    /\ summary = [s \in Session |-> "none"]
    /\ big \in SUBSET Session
    /\ lease = [s \in Session |-> None]
    /\ attempts = [s \in Session |-> 0] /\ failed = [s \in Session |-> 0]
    /\ counted = {}
    /\ sweep = [w \in Sweep |-> Idle] /\ started = {}
    /\ fails = 0 /\ changes = 0

At(w, l) == sweep[w].pc = l

Failure == fails < MaxFails /\ fails' = fails + 1 /\ UNCHANGED changes
Change == changes < MaxChanges /\ changes' = changes + 1 /\ UNCHANGED fails

\* A row is locked from the select to the commit of a claim.
Locked(s) == \E w \in Sweep : At(w, "commit") /\ s \in sweep[w].rows

-----------------------------------------------------------------------------
(* The sweep of one tenant *)

Remaining == IF Cardinality(counted) < Cap THEN Cap - Cardinality(counted) ELSE 0

\* The timer; what the hour has left.  A probe that fails leaves no cap.
ReadBudget(w) ==
    /\ At(w, "idle") /\ w \notin started
    /\ started' = started \cup {w}
    /\ \/ sweep' = [sweep EXCEPT ![w].pc = "begin", ![w].budget = Remaining]
          /\ UNCHANGED <<fails, changes>>
       \/ sweep' = [sweep EXCEPT ![w].pc = "begin", ![w].budget = Uncapped]
          /\ Failure
    /\ UNCHANGED tables

\* generateMissingSummaries: the time all floors are counted from.
Begin(w) ==
    /\ At(w, "begin")
    /\ sweep' = [sweep EXCEPT ![w].pc = "claim", ![w].since = 0]
    /\ UNCHANGED <<tables, started, fails, changes>>

\* Mutant: a session stamped as short stays short.
PendingBlank(s, isTrivial) == summary[s] = "none"

Pending(s, isTrivial) == summary[s] = "none" \/ (summary[s] = "short" /\ ~isTrivial)

\* Mutant: a lease does not keep others out.
FreeAlways(w, s) == TRUE

\* claimed_at < now - LEASE_MS.
Free(w, s) == lease[s] = None \/ lease[s] > sweep[w].since + Lease

\* Too short ago, or too often and not long ago.
Deferred(w, s) ==
    /\ attempts[s] > 0
    /\ \/ failed[s] < sweep[w].since + Backoff
       \/ attempts[s] >= MaxAttempts /\ failed[s] < sweep[w].since + Window

\* The select starts: what it sees is fixed.
Select(w) ==
    LET found == {s \in Session : Pending(s, s \notin big) /\ Free(w, s) /\ ~Deferred(w, s)}
    IN  /\ At(w, "claim")
        /\ sweep' = [sweep EXCEPT ![w].pc = "lock", ![w].cand = found, ![w].trivial = found \ big,
                                  ![w].crossed = {}]
        /\ UNCHANGED <<tables, started, fails, changes>>

\* LIMIT rows are locked; a locked one is skipped, a changed one judged again.
Lock(w) ==
    LET open == {s \in sweep[w].cand : ~Locked(s) /\ Pending(s, s \in sweep[w].trivial)}
    IN  /\ At(w, "lock")
        /\ \E R \in SUBSET open :
             /\ Cardinality(R) <= Batch
             /\ Cardinality(R) = Batch \/ R = open
             /\ sweep' = [sweep EXCEPT ![w].pc = "commit", ![w].rows = R, ![w].cand = {}]
        /\ UNCHANGED <<tables, started, fails, changes>>

\* Mutant: what the sweep has generated does not count.
InBudgetOfBatch(w, R) == Cardinality(R) <= sweep[w].budget

\* The budget of the batch: maxReal - realGenerated.
InBudget(w, R) == Cardinality(R) <= sweep[w].budget - sweep[w].made

\* while (totalSeen < TICK_CAP && !budgetExhausted): the next batch, or the end.
NextBatch(job) ==
    IF job.seen < TickCap /\ ~job.spent THEN [job EXCEPT !.pc = "claim"] ELSE Idle

\* The sweep that has leased R of the rows: to work, or on when there is nothing.
Claimed(job, R) ==
    IF job.rows = {} THEN Idle
    ELSE LET next == [job EXCEPT
                 !.seen = @ + Cardinality(job.rows), !.spent = @ \/ R # job.rows \ job.trivial,
                 !.rows = {}, !.trivial = {}, !.crossed = {}]
         IN  IF R = {} THEN NextBatch(next)
             ELSE [next EXCEPT !.pc = "work", !.busy = R, !.claimed = 0, !.lanes = Lanes]

\* Trivial sessions get their first prompt, the others a lease, as far as the
\* budget goes; COMMIT.
Commit(w) ==
    LET job == sweep[w]
        wanted == job.rows \ job.trivial
    IN  /\ At(w, "commit")
        /\ \E R \in SUBSET wanted :
             /\ R = {} \/ InBudget(w, R)
             /\ \A s \in wanted \ R : ~InBudget(w, R \cup {s})
             /\ lease' = [s \in Session |-> IF s \in R THEN 0 ELSE lease[s]]
             /\ sweep' = [v \in Sweep |->
                    IF v = w THEN Claimed(job, R)
                    ELSE IF sweep[v].pc \in {"lock", "commit"}
                      THEN [sweep[v] EXCEPT !.crossed = @ \cup {w}] ELSE sweep[v]]
        /\ summary' = [s \in Session |->
               IF s \in job.rows \cap job.trivial /\ summary[s] = "none" THEN "short"
               ELSE summary[s]]
        /\ UNCHANGED <<big, attempts, failed, counted, started, fails, changes>>

-----------------------------------------------------------------------------
(* The lanes *)

CanAsk(job) == job.busy # job.run /\ Cardinality(job.run) < job.lanes

Ask(w) ==
    /\ At(w, "work") /\ CanAsk(sweep[w])
    /\ \E s \in sweep[w].busy \ sweep[w].run :
         sweep' = [sweep EXCEPT ![w].run = @ \cup {s}]
    /\ UNCHANGED <<tables, started, fails, changes>>

\* The lane is done with s.
Finished(job, s) ==
    [job EXCEPT !.run = @ \ {s}, !.busy = @ \ {s}, !.asked[s] = 0]

\* persist({ok: true}): whoever holds the lease now.
Succeed(w, s) ==
    /\ s \in sweep[w].run /\ ~Locked(s)
    /\ summary' = [summary EXCEPT ![s] = "generated"]
    /\ counted' = counted \cup {s}
    /\ lease' = [lease EXCEPT ![s] = None]
    /\ attempts' = [attempts EXCEPT ![s] = 0] /\ failed' = [failed EXCEPT ![s] = 0]
    /\ sweep' = [sweep EXCEPT ![w] = [Finished(sweep[w], s) EXCEPT !.made = @ + 1]]
    /\ UNCHANGED <<big, started, fails, changes>>

\* persist({ok: false}): no content, an error, a timeout, or an answer not stored.
Fail(w, s) ==
    /\ s \in sweep[w].run /\ Failure
    /\ lease' = [lease EXCEPT ![s] = None]
    /\ attempts' = [attempts EXCEPT ![s] = @ + 1] /\ failed' = [failed EXCEPT ![s] = 0]
    /\ sweep' = [sweep EXCEPT ![w] = Finished(@, s)]
    /\ UNCHANGED <<summary, big, counted, started>>

\* That transaction throws: the lane ends, the others go on, and the sweep is over
\* when they are.
LaneThrows(w, s) ==
    /\ s \in sweep[w].run /\ Failure
    /\ sweep' = [sweep EXCEPT ![w] =
           [Finished(sweep[w], s) EXCEPT !.lanes = @ - 1, !.spent = TRUE]]
    /\ UNCHANGED <<tables, started>>

BatchOver(job) == job.run = {} /\ (job.busy = {} \/ job.lanes = 0)

EndBatch(w) ==
    /\ At(w, "work") /\ BatchOver(sweep[w])
    /\ sweep' = [sweep EXCEPT ![w] = NextBatch([@ EXCEPT !.busy = {}, !.claimed = 0])]
    /\ UNCHANGED <<tables, started, fails, changes>>

\* A query throws, or the process dies: the transaction is rolled back, the leases stay.
Crash(w) ==
    /\ ~At(w, "idle") /\ Failure
    /\ sweep' = [sweep EXCEPT ![w] = Idle]
    /\ UNCHANGED <<tables, started>>

-----------------------------------------------------------------------------
(* Others *)

NewCounts(s) == big' \in {big \cup {s}, big \ {s}}

\* Mutant: the collector's empty summary replaces the stored one.
ResyncBlank(s) ==
    /\ Change /\ ~Locked(s) /\ NewCounts(s)
    /\ summary' = [summary EXCEPT ![s] = "none"]
    /\ counted' = counted \ {s}
    /\ UNCHANGED <<lease, attempts, failed, sweep, started>>

\* Mutant: the first prompt of a short session is dated as well.
ResyncCounted(s) ==
    /\ Change /\ ~Locked(s) /\ NewCounts(s)
    /\ counted' = counted \cup {s}
    /\ UNCHANGED <<summary, lease, attempts, failed, sweep, started>>

\* A sync of the session: new counts, a new date, and the summary is kept.
Resync(s) ==
    /\ Change /\ ~Locked(s) /\ NewCounts(s)
    /\ counted' = IF summary[s] = "generated" THEN counted \cup {s} ELSE counted
    /\ UNCHANGED <<summary, lease, attempts, failed, sweep, started>>

\* POST regenerate-summary: it takes no lease.
Regenerate(s) ==
    /\ Change /\ ~Locked(s)
    /\ summary' = [summary EXCEPT ![s] = "generated"]
    /\ counted' = counted \cup {s}
    /\ attempts' = [attempts EXCEPT ![s] = 0] /\ failed' = [failed EXCEPT ![s] = 0]
    /\ UNCHANGED <<big, lease, sweep, started>>

RegenerateFails(s) ==
    /\ Change
    /\ attempts' = [attempts EXCEPT ![s] = @ + 1] /\ failed' = [failed EXCEPT ![s] = 0]
    /\ UNCHANGED <<summary, big, lease, counted, sweep, started>>

\* A summary is an hour old.
HourOver(s) ==
    /\ s \in counted
    /\ counted' = counted \ {s}
    /\ UNCHANGED <<summary, big, lease, attempts, failed, sweep, started, fails, changes>>

\* A transaction, or a call that is over, takes no time.
Due(job) ==
    \/ job.pc \notin {"idle", "work"}
    \/ /\ job.pc = "work"
       /\ CanAsk(job) \/ BatchOver(job) \/ \E s \in job.run : job.asked[s] >= Timeout

Older(a) == IF a < MaxAge THEN a + 1 ELSE a

Aged(job) ==
    IF job.pc = "idle" THEN job
    ELSE [job EXCEPT !.since = Older(@), !.claimed = Older(@),
                     !.asked = [s \in Session |-> IF s \in job.run THEN @[s] + 1 ELSE @[s]]]

Pass ==
    /\ \A w \in Sweep : ~Due(sweep[w])
    /\ started' = {}
    /\ lease' = [s \in Session |-> IF lease[s] = None THEN None ELSE Older(lease[s])]
    /\ failed' = [s \in Session |-> IF attempts[s] > 0 THEN Older(failed[s]) ELSE failed[s]]
    /\ sweep' = [w \in Sweep |-> Aged(sweep[w])]
    /\ UNCHANGED <<summary, big, attempts, counted, fails, changes>>

-----------------------------------------------------------------------------

Claim(w) == Begin(w) \/ Select(w) \/ Lock(w) \/ Commit(w)
Answer(w) == \E s \in Session : Succeed(w, s) \/ Fail(w, s) \/ LaneThrows(w, s)
Batching(w) == Ask(w) \/ EndBatch(w)

Next ==
    \/ \E w \in Sweep : ReadBudget(w) \/ Claim(w) \/ Batching(w) \/ Answer(w) \/ Crash(w)
    \/ \E s \in Session : Resync(s) \/ Regenerate(s) \/ RegenerateFails(s) \/ HourOver(s)
    \/ Pass

Spec == Init /\ [][Next]_vars

(* The timer comes round, queries and calls end, and time passes.           *)
FairSpec ==
    /\ Spec
    /\ \A w \in Sweep :
         WF_vars(ReadBudget(w)) /\ WF_vars(Claim(w)) /\ WF_vars(Batching(w)) /\ WF_vars(Answer(w))
    /\ \A s \in Session : WF_vars(HourOver(s))
    /\ SF_vars(Pass)

-----------------------------------------------------------------------------
(* Properties *)

TypeOK ==
    /\ summary \in [Session -> {"none", "short", "generated"}]
    /\ big \subseteq Session
    /\ lease \in [Session -> Age \cup {None}]
    /\ attempts \in [Session -> Nat] /\ failed \in [Session -> Age]
    /\ counted \subseteq {s \in Session : summary[s] = "generated"}
    /\ sweep \in [Sweep -> Local] /\ started \subseteq Sweep
    /\ fails \in Nat /\ changes \in Nat

\* A session that a sweep is still working at is claimed again only when the
\* lease of that sweep has run out, or by a claim whose select began before the
\* lease was committed ("Safe across N replicas (SKIP LOCKED + lease)", 347),
\* also after an overdue sweep has deleted the lease of its successor.
OnlyOverdueDoubled ==
    [][\A v, w \in Sweep, s \in Session :
          v # w /\ s \in sweep'[w].busy \ sweep[w].busy /\ s \in sweep[v].busy
              => sweep[v].claimed > Lease \/ v \in sweep[w].crossed]_vars

\* A sweep never generates more than the budget it read, over all its batches and
\* whatever fails ("Max REAL (LLM) summaries to produce this sweep", 255).
SweepWithinBudget ==
    \A w \in Sweep : sweep[w].made + Cardinality(sweep[w].busy) <= sweep[w].budget

\* A generated summary stays, and no sweep claims its session any more: not after
\* a sync ("a full re-sync of a session that grew wrote '' over the summary",
\* caches.ts 168-171), and not by a claim whose select saw the row before it was
\* generated.  It says nothing of a sweep that holds the session already when a
\* user has it generated: that sweep still asks the LLM, and its answer replaces
\* the user's.
GeneratedIsKept ==
    [][\A s \in Session : summary[s] = "generated" =>
          /\ summary'[s] = "generated"
          /\ \A w \in Sweep : s \in sweep'[w].busy => s \in sweep[w].busy]_vars

\* "nothing strands" (345-346): every session has its summary in the end, a
\* generated one if it is not trivial, although sweeps die and attempts fail.
NothingStrands ==
    <>[](\A s \in Session : summary[s] = "generated" \/ (summary[s] = "short" /\ s \notin big))
=============================================================================
