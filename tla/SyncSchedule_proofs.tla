------------------------ MODULE SyncSchedule_proofs ------------------------
(***************************************************************************)
(* For any number of MCP processes and any bounds: the tick queue loses no *)
(* file change, starts the most urgent task first, and never rests while a *)
(* task waits.                                                             *)
(***************************************************************************)
EXTENDS SyncSchedule, SequenceTheorems, WellFoundedInduction, TLAPS

QueueType ==
    [waiting : Seq(Queue!Task), running : Queue!Task \cup {None}, rerun : SUBSET Queue!Kind]

(* The service walks only from within a task that ships.                   *)
WalksInTask == lock = Service => Running(Scope \cup {"drain"})

IInv == TypeOK /\ queue \in QueueType /\ WalksInTask /\ ChangeHasARunAhead

-----------------------------------------------------------------------------
(* Sequences *)

LEMMA Least ==
    ASSUME NEW T \in SUBSET Nat, T # {}
    PROVE  \E x \in T : \A y \in T : x <= y
<1>1. PICK x \in T : \A y \in T : ~(<<y, x>> \in OpToRel(<, Nat))
  BY WFMin, NatLessThanWellFounded
<1>2. \A y \in T : ~(y < x)
  BY <1>1 DEF OpToRel
<1> QED  BY <1>2

LEMMA Removed ==
    ASSUME NEW S, NEW s \in Seq(S), NEW i \in 1..Len(s)
    PROVE  /\ Queue!RemoveAt(s, i) \in Seq(S)
           /\ DOMAIN Queue!RemoveAt(s, i) = 1..(Len(s) - 1)
           /\ \A k \in 1..(Len(s) - 1) :
                Queue!RemoveAt(s, i)[k] = IF k < i THEN s[k] ELSE s[k + 1]
<1> DEFINE before == SubSeq(s, 1, i - 1)
           after == SubSeq(s, i + 1, Len(s))
<1>1. Len(s) \in Nat /\ i \in Nat /\ i >= 1 /\ i <= Len(s) /\ \A k \in 1..Len(s) : s[k] \in S
  BY LenProperties
<1>2. /\ before \in Seq(S) /\ Len(before) = i - 1
      /\ \A k \in 1..(i - 1) : before[k] = s[k]
  BY <1>1, SubSeqProperties
<1>3. /\ after \in Seq(S) /\ Len(after) = Len(s) - i
      /\ \A k \in 1..(Len(s) - i) : after[k] = s[i + k]
  BY <1>1, SubSeqProperties
<1>4. Queue!RemoveAt(s, i) = before \o after
  BY DEF Queue!RemoveAt
<1> HIDE DEF before, after
<1>5. /\ before \o after \in Seq(S) /\ Len(before \o after) = Len(before) + Len(after)
      /\ \A k \in 1..(Len(before) + Len(after)) :
           (before \o after)[k] = IF k <= Len(before) THEN before[k] ELSE after[k - Len(before)]
  BY <1>2, <1>3, ConcatProperties
<1>6. Len(before) + Len(after) = Len(s) - 1
  BY <1>1, <1>2, <1>3
<1>7. ASSUME NEW k \in 1..(Len(s) - 1)
      PROVE  (before \o after)[k] = IF k < i THEN s[k] ELSE s[k + 1]
  <2>1. CASE k < i
    <3>1. k \in 1..(i - 1) /\ k <= Len(before)
      BY <1>1, <1>2, <2>1
    <3> QED  BY <1>2, <1>5, <1>6, <2>1, <3>1
  <2>2. CASE k >= i
    <3>1. k - (i - 1) \in 1..(Len(s) - i) /\ ~(k <= Len(before)) /\ k - Len(before) = k - (i - 1)
      BY <1>1, <1>2, <2>2
    <3>2. (before \o after)[k] = after[k - (i - 1)]
      BY <1>5, <1>6, <3>1
    <3>3. after[k - (i - 1)] = s[i + (k - (i - 1))]
      BY <1>1, <1>3, <3>1
    <3>4. i + (k - (i - 1)) = k + 1 /\ ~(k < i)
      BY <1>1, <2>2
    <3>5. s[i + (k - (i - 1))] = s[k + 1]
      BY <3>4
    <3>6. (before \o after)[k] = s[k + 1]
      BY <3>2, <3>3, <3>5
    <3>7. (IF k < i THEN s[k] ELSE s[k + 1]) = s[k + 1]
      BY <3>4
    <3> QED  BY <3>6, <3>7
  <2>3. k < i \/ k >= i
    BY <1>1
  <2> QED  BY <2>1, <2>2, <2>3
<1> QED  BY <1>4, <1>5, <1>6, <1>7, LenProperties

-----------------------------------------------------------------------------
(* The queue *)

LEMMA PriorityIsNat == \A kind \in Queue!Kind : Queue!Priority(kind) \in Nat
  BY DEF Queue!Kind, Queue!Priority

LEMMA NoneIsNoTask == None \notin Queue!Task
  BY MachineAssumption

\* The task that starts is in the queue, and none there is more urgent (tick-queue.ts 76).
LEMMA Chosen ==
    ASSUME NEW waiting \in Seq(Queue!Task), waiting # <<>>
    PROVE  /\ Queue!Next(waiting) \in 1..Len(waiting)
           /\ \A j \in 1..Len(waiting) :
                Queue!Priority(waiting[Queue!Next(waiting)].kind)
                  <= Queue!Priority(waiting[j].kind)
<1> DEFINE at(i) == Queue!Priority(waiting[i].kind)
           Urgent(i) == \A j \in DOMAIN waiting : at(i) < at(j) \/ (at(i) = at(j) /\ i <= j)
<1>1. DOMAIN waiting = 1..Len(waiting) /\ Len(waiting) \in Nat \ {0}
  BY LenProperties, EmptySeq
<1>2. \A i \in DOMAIN waiting : at(i) \in Nat
  <2> SUFFICES ASSUME NEW i \in DOMAIN waiting PROVE at(i) \in Nat
    OBVIOUS
  <2>1. waiting[i] \in Queue!Task
    BY <1>1, ElementOfSeq
  <2>2. waiting[i].kind \in Queue!Kind
    BY <2>1 DEF Queue!Task
  <2> QED  BY <2>2, PriorityIsNat
<1> HIDE DEF at
<1>3. PICK p \in {at(i) : i \in DOMAIN waiting} : \A q \in {at(i) : i \in DOMAIN waiting} : p <= q
  <2>1. {at(i) : i \in DOMAIN waiting} \in SUBSET Nat /\ {at(i) : i \in DOMAIN waiting} # {}
    BY <1>1, <1>2
  <2> QED  BY <2>1, Least
<1>4. PICK i \in {k \in DOMAIN waiting : at(k) = p} :
        \A j \in {k \in DOMAIN waiting : at(k) = p} : i <= j
  <2>1. {k \in DOMAIN waiting : at(k) = p} \in SUBSET Nat
    BY <1>1
  <2>2. {k \in DOMAIN waiting : at(k) = p} # {}
    BY <1>3
  <2> QED  BY <2>1, <2>2, Least
<1>5. i \in DOMAIN waiting /\ Urgent(i)
  <2> SUFFICES ASSUME NEW j \in DOMAIN waiting
               PROVE  at(i) < at(j) \/ (at(i) = at(j) /\ i <= j)
    BY <1>4
  <2>1. at(i) = p /\ p <= at(j)
    BY <1>3, <1>4
  <2>2. at(i) \in Nat /\ at(j) \in Nat
    BY <1>2, <1>4
  <2>3. CASE at(j) = p
    BY <1>4, <2>1, <2>3
  <2> QED  BY <2>1, <2>2, <2>3
<1>6. Queue!Next(waiting) = CHOOSE k \in DOMAIN waiting : Urgent(k)
  BY DEF Queue!Next, at
<1> DEFINE n == CHOOSE k \in DOMAIN waiting : Urgent(k)
<1>7. n \in DOMAIN waiting /\ Urgent(n)
  <2> HIDE DEF Urgent
  <2> QED  BY <1>5
<1> HIDE DEF n
<1>8. \A j \in DOMAIN waiting : at(n) <= at(j)
  BY <1>2, <1>7
<1> QED  BY <1>1, <1>6, <1>7, <1>8 DEF at, n

\* A queue at rest starts a task that waits, and keeps the others.
Served(before, after) ==
    /\ after \in QueueType /\ after.rerun = before.rerun
    /\ after.waiting # <<>> => after.running # None
    /\ before.running # None => after = before
    /\ \A kind \in Queue!Kind :
         Queue!Waits(before, kind) => Queue!Waits(after, kind) \/ Queue!Runs(after, kind)
    /\ before.running = None /\ after.running # None =>
         \A i \in DOMAIN after.waiting :
             Queue!Priority(after.running.kind) <= Queue!Priority(after.waiting[i].kind)

LEMMA PumpServes ==
    ASSUME NEW q \in QueueType
    PROVE  Served(q, Queue!Pump(q))
<1>1. CASE q.running # None \/ q.waiting = <<>>
  <2>1. Queue!Pump(q) = q
    BY <1>1 DEF Queue!Pump
  <2> QED  BY <1>1, <2>1 DEF Served
<1>2. CASE q.running = None /\ q.waiting # <<>>
  <2> DEFINE i == Queue!Next(q.waiting)
             left == Queue!RemoveAt(q.waiting, i)
             next == [q EXCEPT !.running = q.waiting[i], !.waiting = left]
  <2>1. Queue!Pump(q) = next
    BY <1>2 DEF Queue!Pump
  <2>2. /\ i \in 1..Len(q.waiting)
        /\ \A j \in 1..Len(q.waiting) :
             Queue!Priority(q.waiting[i].kind) <= Queue!Priority(q.waiting[j].kind)
    BY <1>2, Chosen DEF QueueType
  <2>3. Len(q.waiting) \in Nat /\ DOMAIN q.waiting = 1..Len(q.waiting)
    BY LenProperties DEF QueueType
  <2>4. q.waiting[i] \in Queue!Task
    BY <2>2, ElementOfSeq DEF QueueType
  <2> HIDE DEF i
  <2>5. /\ left \in Seq(Queue!Task) /\ DOMAIN left = 1..(Len(q.waiting) - 1)
        /\ \A k \in 1..(Len(q.waiting) - 1) :
             left[k] = IF k < i THEN q.waiting[k] ELSE q.waiting[k + 1]
    BY <2>2, Removed DEF QueueType
  <2> HIDE DEF left
  <2>6. next \in QueueType
    BY <2>4, <2>5 DEF QueueType
  <2>7. next.running = q.waiting[i] /\ next.waiting = left /\ next.rerun = q.rerun
    BY DEF QueueType
  <2>8. next.running # None
    BY <2>4, <2>7, NoneIsNoTask
  <2>9. ASSUME NEW kind \in Queue!Kind, Queue!Waits(q, kind)
        PROVE  Queue!Waits(next, kind) \/ Queue!Runs(next, kind)
    <3>1. PICK j \in 1..Len(q.waiting) : q.waiting[j].kind = kind
      BY <2>3, <2>9 DEF Queue!Waits
    <3>2. CASE j = i
      BY <2>7, <2>8, <3>1, <3>2 DEF Queue!Runs
    <3>3. CASE j < i
      <4>1. j \in 1..(Len(q.waiting) - 1) /\ left[j] = q.waiting[j]
        BY <2>2, <2>3, <2>5, <3>3
      <4> QED  BY <2>5, <2>7, <3>1, <4>1 DEF Queue!Waits
    <3>4. CASE j > i
      <4>1. j - 1 \in 1..(Len(q.waiting) - 1) /\ left[j - 1] = q.waiting[j]
        BY <2>2, <2>3, <2>5, <3>4
      <4> QED  BY <2>5, <2>7, <3>1, <4>1 DEF Queue!Waits
    <3> QED  BY <2>2, <3>2, <3>3, <3>4
  <2>10. \A k \in DOMAIN left :
           Queue!Priority(q.waiting[i].kind) <= Queue!Priority(left[k].kind)
    <3> SUFFICES ASSUME NEW k \in DOMAIN left
                 PROVE  Queue!Priority(q.waiting[i].kind) <= Queue!Priority(left[k].kind)
      OBVIOUS
    <3>1. \E j \in 1..Len(q.waiting) : left[k] = q.waiting[j]
      BY <2>3, <2>5
    <3> QED  BY <2>2, <3>1
  <2> HIDE DEF next
  <2> QED  BY <1>2, <2>1, <2>6, <2>7, <2>8, <2>9, <2>10 DEF Served
<1> QED  BY <1>1, <1>2

\* A request is heard: its kind runs, waits, or runs again; and no other is lost.
Heard(before, after, kind) ==
    /\ after \in QueueType
    /\ after.waiting # <<>> => after.running # None
    /\ before.running # None => after.running = before.running
    /\ Queue!Waits(after, kind) \/ kind \in after.rerun
         \/ (Queue!Runs(after, kind) /\ ~Queue!Runs(before, kind))
    /\ before.rerun \subseteq after.rerun
    /\ \A k \in Queue!Kind :
         Queue!Waits(before, k) =>
            Queue!Waits(after, k) \/ (Queue!Runs(after, k) /\ before.running = None)
    /\ after.running # None /\ after.running # before.running =>
         \A i \in DOMAIN after.waiting :
             Queue!Priority(after.running.kind) <= Queue!Priority(after.waiting[i].kind)

LEMMA RequestHeard ==
    ASSUME NEW q \in QueueType, q.waiting # <<>> => q.running # None, NEW task \in Queue!Task
    PROVE  Heard(q, Queue!Request(q, task), task.kind)
<1>a. task.kind \in Queue!Kind
  BY DEF Queue!Task
<1>1. CASE Queue!Runs(q, task.kind)
  <2> DEFINE new == [q EXCEPT !.rerun = @ \cup {task.kind}]
  <2>1. Queue!Request(q, task) = new
    BY <1>1 DEF Queue!Request
  <2>2. new \in QueueType
    BY <1>a DEF QueueType
  <2>3. /\ new.waiting = q.waiting /\ new.running = q.running
        /\ new.rerun = q.rerun \cup {task.kind}
    BY DEF QueueType
  <2> HIDE DEF new
  <2> QED  BY <2>1, <2>2, <2>3 DEF Heard, Queue!Waits
<1>2. CASE ~Queue!Runs(q, task.kind) /\ Queue!Waits(q, task.kind)
  <2>1. Queue!Request(q, task) = q
    BY <1>2 DEF Queue!Request
  <2> QED  BY <1>2, <2>1 DEF Heard
<1>3. CASE ~Queue!Runs(q, task.kind) /\ ~Queue!Waits(q, task.kind)
  <2> DEFINE asked == [q EXCEPT !.waiting = Append(@, task)]
             new == Queue!Pump(asked)
  <2>1. Queue!Request(q, task) = new
    BY <1>3 DEF Queue!Request
  <2>2. /\ Append(q.waiting, task) \in Seq(Queue!Task)
        /\ Len(Append(q.waiting, task)) = Len(q.waiting) + 1 /\ Len(q.waiting) \in Nat
        /\ \A i \in 1..Len(q.waiting) : Append(q.waiting, task)[i] = q.waiting[i]
        /\ Append(q.waiting, task)[Len(q.waiting) + 1] = task
        /\ DOMAIN q.waiting = 1..Len(q.waiting)
        /\ DOMAIN Append(q.waiting, task) = 1..(Len(q.waiting) + 1)
    BY AppendProperties, LenProperties DEF QueueType
  <2>3. asked \in QueueType
    BY <2>2 DEF QueueType
  <2>4. /\ asked.waiting = Append(q.waiting, task) /\ asked.running = q.running
        /\ asked.rerun = q.rerun
    BY DEF QueueType
  <2> HIDE DEF asked
  <2>5. Served(asked, new)
    BY <2>3, PumpServes
  <2>6. Queue!Waits(asked, task.kind)
    BY <2>2, <2>4 DEF Queue!Waits
  <2>7. \A k \in Queue!Kind : Queue!Waits(q, k) => Queue!Waits(asked, k)
    BY <2>2, <2>4 DEF Queue!Waits
  <2> HIDE DEF new
  <2>8. Queue!Waits(new, task.kind) \/ Queue!Runs(new, task.kind)
    BY <1>a, <2>5, <2>6 DEF Served
  <2>9. q.running # None =>
          /\ new.running = q.running
          /\ \A k \in Queue!Kind : Queue!Waits(q, k) => Queue!Waits(new, k)
    BY <2>4, <2>5, <2>7 DEF Served
  <2> QED  BY <1>3, <2>1, <2>4, <2>5, <2>7, <2>8, <2>9 DEF Served, Heard
<1> QED  BY <1>1, <1>2, <1>3

\* A task that ends makes room; what was asked for meanwhile waits or runs.
LEMMA FinishServes ==
    ASSUME NEW q \in QueueType, q.running # None
    PROVE  LET new == Queue!Finish(q)
           IN  /\ new \in QueueType
               /\ new.waiting # <<>> => new.running # None
               /\ \A k \in Queue!Kind : Queue!Waits(q, k) \/ k \in q.rerun =>
                    Queue!Waits(new, k) \/ Queue!Runs(new, k) \/ k \in new.rerun
               /\ new.running # None =>
                    \A i \in DOMAIN new.waiting :
                       Queue!Priority(new.running.kind) <= Queue!Priority(new.waiting[i].kind)
<1> DEFINE again == q.running.kind \in q.rerun
           waiting == IF again THEN Append(q.waiting, q.running) ELSE q.waiting
           over == [waiting |-> waiting, running |-> None, rerun |-> q.rerun \ {q.running.kind}]
           new == Queue!Pump(over)
<1>1. Queue!Finish(q) = new
  BY DEF Queue!Finish
<1>2. q.running \in Queue!Task /\ q.rerun \subseteq Queue!Kind /\ q.waiting \in Seq(Queue!Task)
  BY DEF QueueType
<1>3. /\ Append(q.waiting, q.running) \in Seq(Queue!Task)
      /\ Len(Append(q.waiting, q.running)) = Len(q.waiting) + 1 /\ Len(q.waiting) \in Nat
      /\ \A i \in 1..Len(q.waiting) : Append(q.waiting, q.running)[i] = q.waiting[i]
      /\ Append(q.waiting, q.running)[Len(q.waiting) + 1] = q.running
      /\ DOMAIN q.waiting = 1..Len(q.waiting)
      /\ DOMAIN Append(q.waiting, q.running) = 1..(Len(q.waiting) + 1)
  BY <1>2, AppendProperties, LenProperties
<1>4. over \in QueueType
  BY <1>2, <1>3 DEF QueueType
<1>5. ASSUME NEW k \in Queue!Kind, Queue!Waits(q, k) \/ k \in q.rerun
      PROVE  Queue!Waits(over, k) \/ k \in over.rerun
  <2>1. CASE Queue!Waits(q, k)
    <3>1. PICK i \in 1..Len(q.waiting) : q.waiting[i].kind = k
      BY <1>3, <2>1 DEF Queue!Waits
    <3>2. i \in DOMAIN waiting /\ waiting[i].kind = k
      BY <1>3, <3>1
    <3> QED  BY <3>2 DEF Queue!Waits
  <2>2. CASE k \in q.rerun /\ k = q.running.kind
    <3>1. Len(q.waiting) + 1 \in DOMAIN waiting /\ waiting[Len(q.waiting) + 1] = q.running
      BY <1>3, <2>2
    <3> QED  BY <2>2, <3>1 DEF Queue!Waits
  <2>3. CASE k \in q.rerun /\ k # q.running.kind
    BY <2>3
  <2> QED  BY <1>5, <2>1, <2>2, <2>3
<1>6. over.running = None
  OBVIOUS
<1> HIDE DEF over
<1>7. Served(over, new)
  BY <1>4, PumpServes
<1> HIDE DEF new
<1> QED  BY <1>1, <1>5, <1>6, <1>7 DEF Served
-----------------------------------------------------------------------------
(* Observations of the queue that the walk and the hearing rest on *)

\* What MostUrgentFirst says of a step.
StartsMostUrgent ==
    queue'.running # None /\ queue'.running # queue.running =>
        \A i \in DOMAIN queue'.waiting :
            Queue!Priority(queue'.running.kind) <= Queue!Priority(queue'.waiting[i].kind)

LEMMA InitIInv == Init => IInv
<1> SUFFICES ASSUME Init PROVE IInv
  OBVIOUS
<1>1. <<>> \in Seq(Queue!Task)
  BY EmptySeq
<1>2. queue \in QueueType /\ queue.waiting = <<>> /\ queue.running = None /\ queue.rerun = {}
  BY <1>1 DEF Init, Queue!EmptyQueue, QueueType
<1>3. TypeOK
  <2>1. /\ queue.waiting \in Seq(Queue!Task) /\ queue.running \in Queue!Task \cup {None}
        /\ queue.rerun \subseteq Queue!Kind /\ (queue.waiting # <<>> => queue.running # None)
    BY <1>1, <1>2
  <2>2. /\ owner \in [Mcp -> Mcp \cup {Service, None}]
        /\ ticking \in [Mcp -> Scope \cup {None}]
    BY DEF Init
  <2>3. changes \in 0..MaxChanges /\ failures \in 0..MaxFailures /\ toggles \in 0..MaxToggles
    BY BoundsAssumption DEF Init
  <2> QED  BY <2>1, <2>2, <2>3 DEF Init, TypeOK
<1>4. WalksInTask
  BY MachineAssumption DEF Init, WalksInTask
<1>5. ChangeHasARunAhead
  BY DEF Init, ChangeHasARunAhead
<1> QED  BY <1>2, <1>3, <1>4, <1>5 DEF IInv

\* A step that changes neither the queue nor the hearing, nor gives the service the lock.
LEMMA QueueKept ==
    ASSUME IInv, UNCHANGED <<queue, unheard>>, lock' = lock \/ lock' # Service
    PROVE  (queue \in QueueType /\ WalksInTask /\ ChangeHasARunAhead)'
<1>1. (queue \in QueueType)'
  BY DEF IInv
<1>2. WalksInTask'
  BY MachineAssumption DEF IInv, WalksInTask, Running
<1>3. ChangeHasARunAhead'
  BY DEF IInv, ChangeHasARunAhead, Queue!Waits
<1> QED  BY <1>1, <1>2, <1>3

-----------------------------------------------------------------------------
(* The timers *)

\* What the queue does with a request: nothing is lost, the most urgent task starts.
LEMMA AskKeeps ==
    ASSUME IInv, NEW task \in Queue!Task, NEW asks \in BOOLEAN, Ask(task, asks),
           asks => task.kind = "sync", debounce' \in BOOLEAN
    PROVE  /\ IInv'
           /\ StartsMostUrgent
<1>1. Heard(queue, queue', task.kind)
  BY RequestHeard DEF IInv, TypeOK, Ask
<1>2. TypeOK'
  <2>1. unheard' \in BOOLEAN
    BY DEF Ask, Hear, IInv, TypeOK
  <2> QED  BY <1>1, <2>1 DEF Heard, QueueType, Ask, machine, walk, bounds, IInv, TypeOK
<1>3. WalksInTask'
  BY <1>1 DEF IInv, WalksInTask, Running, Heard, Ask, walk
<1>4. ChangeHasARunAhead'
  <2> SUFFICES ASSUME unheard'
               PROVE  Queue!Waits(queue', "sync") \/ "sync" \in queue'.rerun
    BY DEF ChangeHasARunAhead, Queue!Waits
  <2>1. ~(Queue!Runs(queue', "sync") /\ ~Queue!Runs(queue, "sync")) /\ (unheard \/ asks)
    BY DEF Ask, Hear
  <2>2. CASE asks
    BY <1>1, <2>1, <2>2 DEF Heard
  <2>3. CASE unheard
    <3>1. Queue!Waits(queue, "sync") \/ "sync" \in queue.rerun
      BY <2>3 DEF IInv, ChangeHasARunAhead
    <3>2. CASE "sync" \in queue.rerun
      BY <1>1, <3>2 DEF Heard
    <3>3. CASE Queue!Waits(queue, "sync")
      <4>1. \/ Queue!Waits(queue', "sync")
            \/ Queue!Runs(queue', "sync") /\ queue.running = None
        BY <1>1, <3>3 DEF Heard, Queue!Kind
      <4> QED  BY <2>1, <4>1 DEF Queue!Runs
    <3> QED  BY <3>1, <3>2, <3>3
  <2> QED  BY <2>1, <2>2, <2>3
<1>5. (queue \in QueueType)'
  BY <1>1 DEF Heard
<1> QED  BY <1>1, <1>2, <1>3, <1>4, <1>5 DEF Heard, IInv, StartsMostUrgent

LEMMA TimersKeep == IInv /\ Timers => IInv' /\ StartsMostUrgent
<1> SUFFICES ASSUME IInv, Timers PROVE IInv' /\ StartsMostUrgent
  OBVIOUS
<1>0. debounce \in BOOLEAN
  BY DEF IInv, TypeOK
<1>1. CASE Debounced
  <2> DEFINE task == [kind |-> "sync", run |-> "changed"]
  <2>1. task \in Queue!Task /\ task.kind = "sync"
    BY DEF Queue!Task, Queue!Kind
  <2>2. Ask(task, TRUE) /\ debounce' \in BOOLEAN
    BY <1>1 DEF Debounced
  <2> HIDE DEF task
  <2> QED  BY <2>1, <2>2, AskKeeps
<1>2. CASE Heartbeat
  <2> DEFINE task == [kind |-> "sync", run |-> "full"]
  <2>1. task \in Queue!Task
    BY DEF Queue!Task, Queue!Kind
  <2>2. Ask(task, FALSE) /\ debounce' \in BOOLEAN
    BY <1>0, <1>2 DEF Heartbeat
  <2> HIDE DEF task
  <2> QED  BY <2>1, <2>2, AskKeeps
<1>3. CASE IntentPoll
  <2> DEFINE task == [kind |-> "intents", run |-> "drain"]
  <2>1. task \in Queue!Task
    BY DEF Queue!Task, Queue!Kind
  <2>2. Ask(task, FALSE) /\ debounce' \in BOOLEAN
    BY <1>0, <1>3 DEF IntentPoll
  <2> HIDE DEF task
  <2> QED  BY <2>1, <2>2, AskKeeps
<1>4. CASE Sweep
  <2>1. PICK kind \in Sweeps : Ask([kind |-> kind, run |-> "sweep"], FALSE)
    BY <1>4 DEF Sweep
  <2> DEFINE task == [kind |-> kind, run |-> "sweep"]
  <2>2. task \in Queue!Task
    BY MachineAssumption DEF Queue!Task, Queue!Kind
  <2>3. Ask(task, FALSE) /\ debounce' \in BOOLEAN
    BY <1>0, <1>4, <2>1 DEF Sweep
  <2> HIDE DEF task
  <2> QED  BY <2>2, <2>3, AskKeeps
<1> QED  BY <1>1, <1>2, <1>3, <1>4 DEF Timers

-----------------------------------------------------------------------------
(* The walks *)

LEMMA WalkBegins ==
    ASSUME TypeOK, NEW holder \in Mcp \cup {Service}, NEW scope, BeginWalk(holder, scope)
    PROVE  lock' \in Mcp \cup {Service, None} /\ unsent' \subseteq Work /\ taken' \subseteq Work
BY DEF BeginWalk, TypeOK

LEMMA WalkEnds ==
    ASSUME TypeOK, EndWalk
    PROVE  /\ lock' \in Mcp \cup {Service, None} /\ unsent' \subseteq Work /\ taken' \subseteq Work
           /\ missed' \in BOOLEAN /\ failures' \in 0..MaxFailures
<1>1. lock' \in Mcp \cup {Service, None} /\ taken' \subseteq Work /\ unsent' \subseteq Work
  BY DEF EndWalk, TypeOK
<1>2. missed' \in BOOLEAN
  BY DEF EndWalk, TypeOK
<1>3. failures' \in 0..MaxFailures
  BY BoundsAssumption DEF EndWalk, TypeOK
<1> QED  BY <1>1, <1>2, <1>3

LEMMA WalkAbandoned ==
    ASSUME TypeOK, NEW holder, AbandonWalk(holder)
    PROVE  /\ lock' \in Mcp \cup {Service, None} /\ unsent' \subseteq Work /\ taken' \subseteq Work
           /\ lock' = lock \/ lock' = None
           /\ lock' # holder \/ holder = None
BY DEF AbandonWalk, walk, TypeOK

-----------------------------------------------------------------------------
(* The tasks *)

\* The end of a task loses nothing that was asked for meanwhile.
LEMMA DoneKeeps ==
    ASSUME IInv, queue.running # None, TaskDone, lock' # Service
    PROVE  /\ (queue \in QueueType /\ WalksInTask /\ ChangeHasARunAhead)'
           /\ unheard' \in BOOLEAN /\ service' \in BOOLEAN /\ debounce' \in BOOLEAN
           /\ queue'.waiting # <<>> => queue'.running # None
           /\ StartsMostUrgent
<1>1. /\ queue' \in QueueType
      /\ queue'.waiting # <<>> => queue'.running # None
      /\ \A k \in Queue!Kind : Queue!Waits(queue, k) \/ k \in queue.rerun =>
           Queue!Waits(queue', k) \/ Queue!Runs(queue', k) \/ k \in queue'.rerun
      /\ queue'.running # None =>
           \A i \in DOMAIN queue'.waiting :
              Queue!Priority(queue'.running.kind) <= Queue!Priority(queue'.waiting[i].kind)
  BY FinishServes DEF IInv, TaskDone
<1>2. ~Queue!Runs([queue EXCEPT !.running = None], "sync")
  BY DEF Queue!Runs, IInv, QueueType
<1>3. unheard' = IF Queue!Runs(queue', "sync") THEN FALSE ELSE unheard
  BY <1>2 DEF TaskDone, Hear, IInv, TypeOK
<1>4. ChangeHasARunAhead'
  <2> SUFFICES ASSUME unheard'
               PROVE  Queue!Waits(queue', "sync") \/ "sync" \in queue'.rerun
    BY DEF ChangeHasARunAhead, Queue!Waits
  <2>1. unheard /\ ~Queue!Runs(queue', "sync")
    BY <1>3
  <2>2. Queue!Waits(queue, "sync") \/ "sync" \in queue.rerun
    BY <2>1 DEF IInv, ChangeHasARunAhead
  <2> QED  BY <1>1, <2>1, <2>2 DEF Queue!Kind
<1>5. WalksInTask'
  BY DEF WalksInTask
<1>6. unheard' \in BOOLEAN
  BY <1>3 DEF IInv, TypeOK
<1>7. service' \in BOOLEAN /\ debounce' \in BOOLEAN
  BY DEF TaskDone, IInv, TypeOK
<1> QED  BY <1>1, <1>4, <1>5, <1>6, <1>7 DEF StartsMostUrgent

LEMMA TasksKeep == IInv /\ Tasks => IInv' /\ StartsMostUrgent
<1> SUFFICES ASSUME IInv, Tasks PROVE IInv' /\ StartsMostUrgent
  OBVIOUS
<1>0. TypeOK /\ WalksInTask
  BY DEF IInv
<1>1. CASE ServiceBegins
  <2>1. /\ UNCHANGED <<service, debounce, queue, owner, ticking, missed, unheard,
                      changes, failures, toggles>>
        /\ Running(Scope \cup {"drain"})
        /\ \E scope : BeginWalk(Service, scope)
    BY <1>1 DEF ServiceBegins, daemon, machine, bounds, Running
  <2>2. lock' \in Mcp \cup {Service, None} /\ unsent' \subseteq Work /\ taken' \subseteq Work
    BY <1>0, <2>1, WalkBegins
  <2>3. TypeOK'
    BY <1>0, <2>1, <2>2 DEF TypeOK
  <2>4. WalksInTask'
    BY <2>1 DEF WalksInTask, Running
  <2>5. ChangeHasARunAhead' /\ (queue \in QueueType)'
    BY <2>1 DEF IInv, ChangeHasARunAhead, Queue!Waits
  <2> QED  BY <2>1, <2>3, <2>4, <2>5 DEF IInv, StartsMostUrgent
<1>2. CASE ServiceSkips
  <2>1. /\ UNCHANGED <<owner, ticking, lock, taken, unsent, missed, changes, failures, toggles>>
        /\ lock' # Service /\ queue.running # None /\ TaskDone
    BY <1>2 DEF ServiceSkips, machine, walk, bounds, Running
  <2>2. /\ (queue \in QueueType /\ WalksInTask /\ ChangeHasARunAhead)'
        /\ unheard' \in BOOLEAN /\ service' \in BOOLEAN /\ debounce' \in BOOLEAN
        /\ queue'.waiting # <<>> => queue'.running # None
        /\ StartsMostUrgent
    BY <2>1, DoneKeeps
  <2>3. TypeOK'
    BY <1>0, <2>1, <2>2 DEF TypeOK, QueueType
  <2> QED  BY <2>2, <2>3 DEF IInv
<1>3. CASE ServiceEnds
  <2>1. /\ UNCHANGED <<owner, ticking, changes, toggles>>
        /\ EndWalk /\ TaskDone /\ lock = Service
    BY <1>3 DEF ServiceEnds, machine
  <2>2. lock' # Service /\ queue.running # None
    BY <1>0, <2>1, MachineAssumption DEF EndWalk, WalksInTask, Running
  <2>3. /\ (queue \in QueueType /\ WalksInTask /\ ChangeHasARunAhead)'
        /\ unheard' \in BOOLEAN /\ service' \in BOOLEAN /\ debounce' \in BOOLEAN
        /\ queue'.waiting # <<>> => queue'.running # None
        /\ StartsMostUrgent
    BY <2>1, <2>2, DoneKeeps
  <2>4. TypeOK'
    BY <1>0, <2>1, <2>3, WalkEnds DEF TypeOK, QueueType
  <2> QED  BY <2>3, <2>4 DEF IInv
<1>4. CASE TaskEnds
  <2>1. /\ UNCHANGED <<owner, ticking, lock, taken, unsent, missed, changes, failures, toggles>>
        /\ lock' # Service /\ queue.running # None /\ TaskDone
    BY <1>4 DEF TaskEnds, machine, walk, bounds, Running
  <2>2. /\ (queue \in QueueType /\ WalksInTask /\ ChangeHasARunAhead)'
        /\ unheard' \in BOOLEAN /\ service' \in BOOLEAN /\ debounce' \in BOOLEAN
        /\ queue'.waiting # <<>> => queue'.running # None
        /\ StartsMostUrgent
    BY <2>1, DoneKeeps
  <2>3. TypeOK'
    BY <1>0, <2>1, <2>2 DEF TypeOK, QueueType
  <2> QED  BY <2>2, <2>3 DEF IInv
<1> QED  BY <1>1, <1>2, <1>3, <1>4 DEF Tasks

-----------------------------------------------------------------------------
(* The world, and the MCP processes *)

LEMMA WorldKeeps == IInv /\ World => IInv' /\ StartsMostUrgent
<1> SUFFICES ASSUME IInv, World PROVE IInv' /\ StartsMostUrgent
  OBVIOUS
<1>0. TypeOK
  BY DEF IInv
<1> USE DEF machine, daemon, walk, bounds
<1>1. CASE FileChange
  <2>1. TypeOK'
    BY <1>0, <1>1, BoundsAssumption DEF FileChange, TypeOK, Work
  <2> QED  BY <1>1, <2>1, QueueKept DEF FileChange, IInv, StartsMostUrgent
<1>2. CASE LeaveWindow
  <2>1. TypeOK'
    BY <1>0, <1>2 DEF LeaveWindow, TypeOK, Work
  <2> QED  BY <1>2, <2>1, QueueKept DEF LeaveWindow, IInv, StartsMostUrgent
<1>3. CASE ServiceStart
  <2>1. TypeOK'
    BY <1>0, <1>3, BoundsAssumption DEF ServiceStart, TypeOK
  <2> QED  BY <1>3, <2>1, QueueKept DEF ServiceStart, IInv, StartsMostUrgent
<1>4. CASE ServiceStop
  <2>1. /\ AbandonWalk(Service) /\ queue' = Queue!EmptyQueue /\ ~unheard'
        /\ UNCHANGED <<owner, ticking, missed, changes, failures>>
        /\ service' = FALSE /\ debounce' = FALSE /\ unheard' = FALSE
    BY <1>4 DEF ServiceStop
  <2>2. /\ lock' \in Mcp \cup {Service, None} /\ unsent' \subseteq Work
        /\ taken' \subseteq Work /\ lock' # Service
    BY <1>0, <2>1, WalkAbandoned, MachineAssumption
  <2>3. /\ queue'.waiting = <<>> /\ queue'.running = None /\ queue'.rerun = {}
        /\ queue' \in QueueType /\ <<>> \in Seq(Queue!Task)
    BY <2>1, EmptySeq DEF Queue!EmptyQueue, QueueType
  <2>4. toggles' \in 0..MaxToggles
    BY <1>0, <1>4, BoundsAssumption DEF ServiceStop, TypeOK
  <2>5. TypeOK'
    BY <1>0, <2>1, <2>2, <2>3, <2>4 DEF TypeOK
  <2>6. WalksInTask' /\ ChangeHasARunAhead'
    BY <2>1, <2>2 DEF WalksInTask, ChangeHasARunAhead
  <2> QED  BY <2>3, <2>5, <2>6 DEF IInv, StartsMostUrgent
<1>5. ASSUME NEW m \in Mcp, McpRestart(m)
      PROVE  IInv' /\ StartsMostUrgent
  <2>1. /\ lock' \in Mcp \cup {Service, None} /\ unsent' \subseteq Work
        /\ taken' \subseteq Work /\ (lock' = lock \/ lock' = None)
    BY <1>0, <1>5, WalkAbandoned DEF McpRestart
  <2>2. TypeOK'
    BY <1>0, <1>5, <2>1, BoundsAssumption DEF McpRestart, TypeOK
  <2> QED  BY <1>5, <2>1, <2>2, QueueKept, MachineAssumption DEF McpRestart, IInv, StartsMostUrgent
<1> QED  BY <1>1, <1>2, <1>3, <1>4, <1>5 DEF World

LEMMA SupervisorKeeps ==
    ASSUME IInv, NEW m \in Mcp, Check(m) \/ Tick(m)
    PROVE  IInv' /\ StartsMostUrgent
<1>0. TypeOK
  BY DEF IInv
<1> USE DEF machine, daemon, walk, bounds
<1>1. CASE StandBy(m)
  <2>1. TypeOK'
    BY <1>0, <1>1 DEF StandBy, TypeOK
  <2> QED  BY <1>1, <2>1, QueueKept DEF StandBy, IInv, StartsMostUrgent
<1>2. CASE TakeOver(m)
  <2>1. TypeOK'
    BY <1>0, <1>2 DEF TakeOver, TypeOK, Scope
  <2> QED  BY <1>2, <2>1, QueueKept DEF TakeOver, IInv, StartsMostUrgent
<1>3. CASE McpBegins(m)
  <2>1. lock' \in Mcp \cup {Service, None} /\ unsent' \subseteq Work /\ taken' \subseteq Work
    BY <1>0, <1>3, WalkBegins DEF McpBegins
  <2>2. TypeOK'
    BY <1>0, <1>3, <2>1 DEF McpBegins, TypeOK
  <2>3. lock' # Service
    BY <1>3, MachineAssumption DEF McpBegins, BeginWalk
  <2> QED  BY <1>3, <2>2, <2>3, QueueKept DEF McpBegins, IInv, StartsMostUrgent
<1>4. CASE McpSkips(m)
  <2>1. TypeOK'
    BY <1>0, <1>4 DEF McpSkips, TypeOK
  <2> QED  BY <1>4, <2>1, QueueKept DEF McpSkips, IInv, StartsMostUrgent
<1>5. CASE McpEnds(m)
  <2>1. TypeOK'
    BY <1>0, <1>5, WalkEnds DEF McpEnds, TypeOK
  <2>2. lock' # Service
    BY <1>5, MachineAssumption DEF McpEnds, EndWalk
  <2> QED  BY <1>5, <2>1, <2>2, QueueKept DEF McpEnds, IInv, StartsMostUrgent
<1> QED  BY <1>1, <1>2, <1>3, <1>4, <1>5 DEF Check, Tick

LEMMA StepKeeps == IInv /\ [Next]_vars => IInv' /\ (queue' # queue => StartsMostUrgent)
<1> SUFFICES ASSUME IInv, [Next]_vars PROVE IInv' /\ (queue' # queue => StartsMostUrgent)
  OBVIOUS
<1>1. CASE World
  BY <1>1, WorldKeeps
<1>2. CASE Timers
  BY <1>2, TimersKeep
<1>3. CASE Tasks
  BY <1>3, TasksKeep
<1>4. ASSUME NEW m \in Mcp, Check(m) \/ Tick(m)
      PROVE  IInv' /\ (queue' # queue => StartsMostUrgent)
  BY <1>4, SupervisorKeeps
<1>5. CASE UNCHANGED vars
  <2>1. UNCHANGED <<service, debounce, queue, owner, ticking, lock, taken, unsent, missed,
                    unheard, changes, failures, toggles>>
    BY <1>5 DEF vars, daemon, machine, walk, bounds
  <2>2. TypeOK'
    BY <2>1 DEF IInv, TypeOK
  <2> QED  BY <2>1, <2>2, QueueKept DEF IInv
<1> QED  BY <1>1, <1>2, <1>3, <1>4, <1>5 DEF Next

-----------------------------------------------------------------------------
\* The invariant: what is waiting is kept, and a change that nobody has heard of has a
\* sync run ahead of it, in every state of every machine.
THEOREM Invariance == Spec => []IInv
<1>1. Init => IInv
  BY InitIInv
<1>2. IInv /\ [Next]_vars => IInv'
  BY StepKeeps
<1> QED  BY <1>1, <1>2, PTL DEF Spec

\* Everything keeps its type, and the queue never rests while a task waits (tick-queue.ts
\* pump).
THEOREM TypeCorrect == Spec => []TypeOK
<1>1. IInv => TypeOK
  BY DEF IInv
<1> QED  BY <1>1, Invariance, PTL

\* A file change during a walk is not lost (tick-queue.ts 62-63).
THEOREM ChangeHeard == Spec => []ChangeHasARunAhead
<1>1. IInv => ChangeHasARunAhead
  BY DEF IInv
<1> QED  BY <1>1, Invariance, PTL

\* The task that starts is the most urgent one (tick-queue.ts 76).
THEOREM UrgentFirst == Spec => MostUrgentFirst
<1>1. IInv /\ [Next]_vars => [StartsMostUrgent]_queue
  BY StepKeeps
<1>2. Spec => [][StartsMostUrgent]_queue
  BY <1>1, Invariance, PTL DEF Spec
<1> QED  BY <1>2 DEF MostUrgentFirst, StartsMostUrgent
=============================================================================
