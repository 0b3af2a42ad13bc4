----------------------------- MODULE TickQueue -----------------------------
(***************************************************************************)
(* The daemon's queue of background tasks (cli/src/tick-queue.ts).  One    *)
(* task runs at a time, the most urgent of those that wait; a kind waits   *)
(* at most once; a kind asked for while it runs is run once more.          *)
(* request, and the end of a task, run to completion in one turn of the    *)
(* event loop, so each is an operator on the queue.                        *)
(***************************************************************************)
EXTENDS Naturals, SequencesExt

CONSTANT Idle   \* nothing runs

Kind == {"sync", "intents", "codeIndex", "housekeeping"}

\* TICK_PRIORITY: the lower, the more urgent.
Priority(kind) ==
    CASE kind = "sync" -> 10
      [] kind = "intents" -> 20
      [] kind = "codeIndex" -> 30
      [] kind = "housekeeping" -> 40

\* A task: its kind, and what its closure does.
Task == [kind: Kind, run: {"changed", "full", "drain", "sweep"}]

EmptyQueue == [waiting |-> <<>>, running |-> Idle, rerun |-> {}]

\* Mutant: first come, first served.
NextFifo(waiting) == CHOOSE i \in DOMAIN waiting : \A j \in DOMAIN waiting : i <= j

\* The most urgent task, the first to arrive of those as urgent.
Next(waiting) ==
    CHOOSE i \in DOMAIN waiting :
        \A j \in DOMAIN waiting :
            \/ Priority(waiting[i].kind) < Priority(waiting[j].kind)
            \/ Priority(waiting[i].kind) = Priority(waiting[j].kind) /\ i <= j

Pump(queue) ==
    IF queue.running # Idle \/ queue.waiting = <<>> THEN queue
    ELSE LET i == Next(queue.waiting)
         IN  [queue EXCEPT !.running = queue.waiting[i], !.waiting = RemoveAt(queue.waiting, i)]

Waits(queue, kind) == \E i \in DOMAIN queue.waiting : queue.waiting[i].kind = kind
Runs(queue, kind) == queue.running # Idle /\ queue.running.kind = kind

\* Mutant: a kind asked for while it runs is dropped.
RequestOnce(queue, task) ==
    IF Runs(queue, task.kind) \/ Waits(queue, task.kind) THEN queue
    ELSE Pump([queue EXCEPT !.waiting = Append(@, task)])

Request(queue, task) ==
    CASE Runs(queue, task.kind) -> [queue EXCEPT !.rerun = @ \cup {task.kind}]
      [] ~Runs(queue, task.kind) /\ Waits(queue, task.kind) -> queue
      [] OTHER -> Pump([queue EXCEPT !.waiting = Append(@, task)])

\* Mutant: the end of a task does not start the next one.
FinishAndRest(queue) ==
    LET again == queue.running.kind \in queue.rerun
        waiting == IF again THEN Append(queue.waiting, queue.running) ELSE queue.waiting
    IN  [waiting |-> waiting, running |-> Idle, rerun |-> queue.rerun \ {queue.running.kind}]

\* A task ends, well or not: the same closure goes to the back of the queue if its
\* kind was asked for meanwhile, and the next task starts.
Finish(queue) ==
    LET again == queue.running.kind \in queue.rerun
        waiting == IF again THEN Append(queue.waiting, queue.running) ELSE queue.waiting
    IN  Pump([waiting |-> waiting, running |-> Idle,
              rerun |-> queue.rerun \ {queue.running.kind}])
=============================================================================
