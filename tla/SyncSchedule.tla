---------------------------- MODULE SyncSchedule ----------------------------
(***************************************************************************)
(* Who walks the transcripts of one machine, when, and how far: the watch  *)
(* service's queue (cli/auto-indexer/indexer.ts), the supervisor of each   *)
(* MCP process (cli/src/sync-supervisor.ts) and syncIncremental            *)
(* (cli/src/sync-client.ts), which lets one walk run at a time and skips   *)
(* otherwise.                                                              *)
(*                                                                         *)
(* Work is what some session still has to send: "recent" when the session  *)
(* is within the window a 'changed' walk lists, "old" when only a 'full'   *)
(* walk still lists it.  A session falls out of the window when walks it   *)
(* failed in have moved lastSyncAt past it.                                *)
(***************************************************************************)
EXTENDS Naturals, Sequences

CONSTANTS
    None,         \* nothing: an idle queue, a free lock, no owner, no tick
    Service,      \* the watch service, as a holder of the sync lock
    Mcp,          \* the MCP processes
    Sweeps,       \* the background tasks this machine has switched on
    MaxChanges,   \* bound: file changes
    MaxFailures,  \* bound: walks in which something fails
    MaxToggles    \* bound: times a process starts or stops

Queue == INSTANCE TickQueue WITH Idle <- None

ASSUME MachineAssumption ==
    /\ None \notin Mcp \cup {Service} \cup Queue!Task /\ Service \notin Mcp
    /\ Sweeps \subseteq {"codeIndex", "housekeeping"}
ASSUME BoundsAssumption == MaxChanges \in Nat /\ MaxFailures \in Nat /\ MaxToggles \in Nat

VARIABLES
    service,    \* is the watch service running
    debounce,   \* its debounce timer is armed
    queue,      \* its tick queue
    owner,      \* per MCP process: who owned sync at its last check
    ticking,    \* per MCP process: the scope of the pass in flight
    lock,       \* who holds the sync lock: whoever is walking
    unsent,     \* the work there is
    taken,      \* the work the walk in progress has listed
    missed,     \* a walk that failed for recent work has moved lastSyncAt
    unheard,    \* file changes reported to the queue that no sync run has started for
    changes, failures, toggles

machine == <<owner, ticking>>
daemon == <<service, debounce, queue>>
walk == <<lock, taken>>
bounds == <<changes, failures, toggles>>
vars == <<daemon, machine, walk, unsent, missed, unheard, bounds>>

Scope == {"changed", "full"}
Work == {"recent", "old"}

Init ==
    /\ service \in BOOLEAN /\ debounce = FALSE /\ queue = Queue!EmptyQueue
    /\ owner = [m \in Mcp |-> None] /\ ticking = [m \in Mcp |-> None]
    /\ lock = None /\ unsent = {} /\ taken = {} /\ missed = FALSE
    /\ unheard = FALSE
    /\ changes = 0 /\ failures = 0 /\ toggles = 0

-----------------------------------------------------------------------------
(* The world *)

\* A transcript is written; the watcher arms the debounce timer.
FileChange ==
    /\ changes < MaxChanges
    /\ changes' = changes + 1
    /\ unsent' = unsent \cup {"recent"}
    /\ debounce' = service
    /\ UNCHANGED <<service, queue, machine, walk, missed, unheard, failures, toggles>>

\* lastSyncAt, less the overlap, passes a session that walks keep failing for.
LeaveWindow ==
    /\ missed /\ "recent" \in unsent
    /\ unsent' = (unsent \ {"recent"}) \cup {"old"}
    /\ missed' = FALSE
    /\ UNCHANGED <<daemon, machine, walk, unheard, bounds>>

ServiceStart ==
    /\ ~service /\ toggles < MaxToggles
    /\ service' = TRUE /\ toggles' = toggles + 1
    /\ UNCHANGED <<debounce, queue, machine, walk, unsent, missed, unheard, changes, failures>>

\* A walk dies with its process; the lock is a dead process's, and is taken over.
AbandonWalk(holder) ==
    IF lock = holder
      THEN lock' = None /\ taken' = {} /\ unsent' = unsent \cup taken
      ELSE UNCHANGED <<walk, unsent>>

\* The service loses its queue and its timers.
ServiceStop ==
    /\ service /\ toggles < MaxToggles
    /\ service' = FALSE /\ toggles' = toggles + 1
    /\ debounce' = FALSE /\ queue' = Queue!EmptyQueue /\ unheard' = FALSE
    /\ AbandonWalk(Service)
    /\ UNCHANGED <<machine, missed, changes, failures>>

\* An MCP process ends, and another one starts.
McpRestart(m) ==
    /\ toggles < MaxToggles
    /\ toggles' = toggles + 1
    /\ owner' = [owner EXCEPT ![m] = None] /\ ticking' = [ticking EXCEPT ![m] = None]
    /\ AbandonWalk(m)
    /\ UNCHANGED <<daemon, missed, unheard, changes, failures>>

-----------------------------------------------------------------------------
(* The watch service's timers *)

\* A sync run that starts has heard of every change reported so far.
Hear(before, after, asks) ==
    IF Queue!Runs(after, "sync") /\ ~Queue!Runs(before, "sync") THEN FALSE ELSE unheard \/ asks

Ask(task, asks) ==
    /\ service
    /\ queue' = Queue!Request(queue, task)
    /\ unheard' = Hear(queue, queue', asks)
    /\ UNCHANGED <<service, machine, walk, unsent, missed, bounds>>

Debounced == debounce /\ debounce' = FALSE /\ Ask([kind |-> "sync", run |-> "changed"], TRUE)

\* The heartbeat, and the kick after startup.
Heartbeat == UNCHANGED debounce /\ Ask([kind |-> "sync", run |-> "full"], FALSE)

\* Armed again only when the task has run.
IntentPoll ==
    /\ ~Queue!Runs(queue, "intents") /\ ~Queue!Waits(queue, "intents")
    /\ UNCHANGED debounce
    /\ Ask([kind |-> "intents", run |-> "drain"], FALSE)

Sweep ==
    /\ UNCHANGED debounce
    /\ \E kind \in Sweeps : Ask([kind |-> kind, run |-> "sweep"], FALSE)

-----------------------------------------------------------------------------
(* syncIncremental: one walk at a time *)

\* Mutant: the window bounds every walk.
BeginWalkInWindow(holder, scope) ==
    /\ lock = None
    /\ lock' = holder
    /\ taken' = unsent \cap {"recent"}
    /\ unsent' = unsent \ taken'

\* 'full' lists every session, 'changed' those in the window.
BeginWalk(holder, scope) ==
    /\ lock = None
    /\ lock' = holder
    /\ taken' = {w \in unsent : scope = "full" \/ w = "recent"}
    /\ unsent' = unsent \ taken'

\* All of it is sent; or the walk throws, or some target or session of it fails
\* and lastSyncAt moves all the same.
EndWalk ==
    /\ lock' = None /\ taken' = {}
    /\ \/ UNCHANGED <<unsent, missed, failures>>
       \/ /\ failures < MaxFailures /\ failures' = failures + 1
          /\ unsent' = unsent \cup taken
          /\ missed' \in {missed, missed \/ "recent" \in taken}

Running(runs) == queue.running # None /\ queue.running.run \in runs

\* The run's closure is over, and the queue moves on.
TaskDone ==
    /\ queue' = Queue!Finish(queue)
    /\ unheard' = Hear([queue EXCEPT !.running = None], queue', FALSE)
    /\ UNCHANGED <<service, debounce>>

\* shipToServer; a drain that applied an intent ships inline, in full.
ServiceBegins ==
    /\ \/ Running(Scope) /\ BeginWalk(Service, queue.running.run)
       \/ Running({"drain"}) /\ BeginWalk(Service, "full")
    /\ UNCHANGED <<daemon, machine, missed, unheard, bounds>>

\* 'lock-held': the tick is skipped.
ServiceSkips ==
    /\ Running(Scope \cup {"drain"}) /\ lock \notin {None, Service}
    /\ TaskDone
    /\ UNCHANGED <<machine, walk, unsent, missed, bounds>>

ServiceEnds ==
    /\ lock = Service
    /\ EndWalk /\ TaskDone
    /\ UNCHANGED <<machine, changes, toggles>>

\* A drain that applied nothing, and the other tasks, ship nothing.
TaskEnds ==
    /\ Running({"drain", "sweep"}) /\ lock # Service
    /\ TaskDone
    /\ UNCHANGED <<machine, walk, unsent, missed, bounds>>

-----------------------------------------------------------------------------
(* The supervisor of an MCP process *)

\* The service owns sync while it runs.
StandBy(m) ==
    /\ service
    /\ owner' = [owner EXCEPT ![m] = Service]
    /\ UNCHANGED <<daemon, ticking, walk, unsent, missed, unheard, bounds>>

\* Mutant: a process that has stood by once stands by for good.
TakeOverAtStart(m) ==
    /\ ~service /\ owner[m] # Service
    /\ owner' = [owner EXCEPT ![m] = m]
    /\ ticking' = [ticking EXCEPT ![m] =
           IF @ # None THEN @ ELSE IF owner[m] = m THEN "changed" ELSE "full"]
    /\ UNCHANGED <<daemon, walk, unsent, missed, unheard, bounds>>

\* Otherwise this process does; a pass right after taking over is a full one.
TakeOver(m) ==
    /\ ~service
    /\ owner' = [owner EXCEPT ![m] = m]
    /\ ticking' = [ticking EXCEPT ![m] =
           IF @ # None THEN @ ELSE IF owner[m] = m THEN "changed" ELSE "full"]
    /\ UNCHANGED <<daemon, walk, unsent, missed, unheard, bounds>>

McpBegins(m) ==
    /\ ticking[m] # None
    /\ BeginWalk(m, ticking[m])
    /\ UNCHANGED <<daemon, machine, missed, unheard, bounds>>

McpSkips(m) ==
    /\ ticking[m] # None /\ lock \notin {None, m}
    /\ ticking' = [ticking EXCEPT ![m] = None]
    /\ UNCHANGED <<daemon, owner, walk, unsent, missed, unheard, bounds>>

McpEnds(m) ==
    /\ lock = m
    /\ EndWalk
    /\ ticking' = [ticking EXCEPT ![m] = None]
    /\ UNCHANGED <<daemon, owner, unheard, changes, toggles>>

-----------------------------------------------------------------------------
World ==
    \/ FileChange \/ LeaveWindow \/ ServiceStart \/ ServiceStop
    \/ \E m \in Mcp : McpRestart(m)
Timers == Debounced \/ Heartbeat \/ IntentPoll \/ Sweep
Tasks == ServiceBegins \/ ServiceSkips \/ ServiceEnds \/ TaskEnds
Check(m) == StandBy(m) \/ TakeOver(m)
Tick(m) == McpBegins(m) \/ McpSkips(m) \/ McpEnds(m)

Next == World \/ Timers \/ Tasks \/ \E m \in Mcp : Check(m) \/ Tick(m)

Spec == Init /\ [][Next]_vars

SyncIdle == ~Queue!Runs(queue, "sync") /\ ~Queue!Waits(queue, "sync")

\* Timers fire, intervals come round, and what has been started ends.
FairSpec ==
    /\ Spec
    /\ WF_vars(Debounced) /\ SF_vars(SyncIdle /\ Heartbeat) /\ WF_vars(Tasks)
    /\ \A m \in Mcp : WF_vars(Check(m)) /\ WF_vars(Tick(m))

-----------------------------------------------------------------------------
\* Type invariant; the queue never lets a task wait while nothing runs.
TypeOK ==
    /\ service \in BOOLEAN /\ debounce \in BOOLEAN
    /\ queue.waiting \in Seq(Queue!Task) /\ queue.running \in Queue!Task \cup {None}
    /\ queue.rerun \subseteq Queue!Kind
    /\ owner \in [Mcp -> Mcp \cup {Service, None}] /\ ticking \in [Mcp -> Scope \cup {None}]
    /\ lock \in Mcp \cup {Service, None} /\ unsent \subseteq Work /\ taken \subseteq Work
    /\ missed \in BOOLEAN /\ unheard \in BOOLEAN
    /\ changes \in 0..MaxChanges /\ failures \in 0..MaxFailures /\ toggles \in 0..MaxToggles
    /\ queue.waiting # <<>> => queue.running # None

\* tick-queue.ts 62-63: "a file change during a walk must not be lost": a change
\* that was reported to the queue has a sync run ahead of it.
ChangeHasARunAhead == unheard => Queue!Waits(queue, "sync") \/ "sync" \in queue.rerun

\* A task starts only when no more urgent kind waits.
MostUrgentFirst ==
    [][queue'.running # None /\ queue'.running # queue.running
         => \A i \in DOMAIN queue'.waiting :
                Queue!Priority(queue'.running.kind) <= Queue!Priority(queue'.waiting[i].kind)]_queue

\* Recent work is picked up whoever runs, and although the service comes and goes:
\* no process keeps standing by for a service that has stopped.
ChangeIsPickedUp == "recent" \in unsent ~> "recent" \notin unsent

\* sync-client.ts 1147-1153: while the service runs, its full walks bring in the
\* sessions that failed and have left the window too, as long as the walks do not
\* fill all the time between heartbeats.
ServiceSendsAll == <>[]service /\ []<>SyncIdle => <>[](unsent = {})
=============================================================================
