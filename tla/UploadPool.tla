----------------------------- MODULE UploadPool -----------------------------
(***************************************************************************)
(* One walk of the collector and the pool of uploads beside it             *)
(* (cli/src/sync-client.ts, makeBatcher, submit, drainInflight).           *)
(*                                                                         *)
(* The walk goes through its sessions in order and adds their rows to one  *)
(* batch per field.  A batch that is full is handed to the pool, which has *)
(* several requests in flight and holds the walk back when they are too    *)
(* many or too large.  At the end the walk drains every batch and waits    *)
(* for all of the pool.  Requests are answered, retried or given up        *)
(* beside the walk, in any order.                                          *)
(*                                                                         *)
(* A row is the session it belongs to.  "derived" stands for the fields    *)
(* whose batches are filled where an error is caught and logged (derived   *)
(* rows, links, items).                                                    *)
(***************************************************************************)
EXTENDS Integers, FiniteSets, FiniteSetsExt

CONSTANTS
    N,              \* sessions of the walk
    Small, Large,   \* sizes of a session's rows
    MaxItems,       \* rows of a batch, also of the append batch
    MaxBatchBytes,  \* MAX_BATCH_BYTES
    MaxAppendBytes, \* APPEND_BATCH_MAX_BYTES
    MaxInflight,    \* maxInflight
    MaxBytes,       \* MAX_INFLIGHT_BYTES
    NoBatch,        \* stands for no batch being handed over
    MaxFails        \* bound: attempts that fail

Session == 1..N
Field == {"conversations", "findings", "derived"}
Kind == {"full", "head", "tail"}   \* built whole; first chunk of a large one; append

Batch == [field : Field, rows : SUBSET Session, bytes : Nat,
          ready : BOOLEAN]         \* its barrier is behind it, or it has none
Request == [batch : Batch, served : BOOLEAN]

ASSUME BoundsAssumption ==
    /\ {N, Small, Large, MaxItems, MaxBatchBytes, MaxAppendBytes, MaxInflight,
        MaxBytes, MaxFails} \subseteq Nat
    /\ N > 0 /\ MaxItems > 0 /\ MaxInflight > 0
ASSUME NoBatchAssumption == NoBatch \notin Batch

(* What there is to send. *)
VARIABLES
    kind,   \* per session: how it is sent
    size,   \* per session: bytes of its conversation, and of its derived rows
    leaks   \* sessions with secret findings

sessions == <<kind, size, leaks>>

(* The walk. *)
VARIABLES
    at,         \* the session it is at
    op,         \* what it does next
    batch,      \* per field: rows added and not handed over
    batchBytes, \* per field: their bytes
    appends,    \* appendBatch: tails not sent
    appendBytes,
    hand        \* the batch it hands to the pool, or NoBatch

batches == <<batch, batchBytes>>
tails == <<appends, appendBytes>>
walk == <<at, op, batches, tails, hand>>

(* The pool, the ledger and the server. *)
VARIABLES
    inflight,       \* requests being posted
    inflightBytes,
    poolError,
    acked,          \* sessions marked as synced
    stored,         \* per field: rows the server has
    dropped,        \* findings it left out, for want of the session's row
    fails

pool == <<inflight, inflightBytes, poolError>>
server == <<stored, dropped>>

(* Observation: sessions with findings handed to the pool while their       *)
(* conversation was still in its batch.                                     *)
VARIABLE overlooked

vars == <<sessions, walk, pool, acked, server, overlooked, fails>>

Op == {"conversation", "findings", "derived",
       "appends", "conversations", "deriveds", "findingses", "settle", "done", "failed"}

Init ==
    /\ kind \in [Session -> Kind]
    /\ size \in [Session -> {Small, Large}]
    /\ leaks \in SUBSET Session
    /\ at = 1 /\ op = "conversation"
    /\ batch = [f \in Field |-> {}] /\ batchBytes = [f \in Field |-> 0]
    /\ appends = {} /\ appendBytes = 0
    /\ hand = NoBatch
    /\ inflight = {} /\ inflightBytes = 0 /\ poolError = FALSE
    /\ acked = {}
    /\ stored = [f \in Field |-> IF f = "conversations" THEN {s \in Session : kind[s] = "tail"}
                                 ELSE {}]
    /\ dropped = {} /\ overlooked = {}
    /\ fails = 0

Bytes(f, s) == IF f = "findings" THEN Small ELSE size[s]

Goto(o) == op' = o /\ UNCHANGED at

\* Mutant: one session too many.
NextSessionOrBeyond ==
    IF at <= N THEN at' = at + 1 /\ op' = "conversation" ELSE Goto("appends")

\* On to the next session, or to the drains.
NextSession ==
    IF at < N THEN at' = at + 1 /\ op' = "conversation" ELSE Goto("appends")

\* An error ends the walk.  Where derived rows are added, and where the findings
\* of a tail are, it is caught, and the walk goes on.
Throw ==
    /\ hand' = NoBatch
    /\ IF op = "derived" \/ (op = "findings" /\ kind[at] = "tail")
         THEN NextSession ELSE Goto("failed")

-----------------------------------------------------------------------------
(* makeBatcher *)

\* add drains first when the row does not fit.
Full(f, s) ==
    /\ batch[f] # {}
    /\ \/ batchBytes[f] + Bytes(f, s) > MaxBatchBytes
       \/ Cardinality(batch[f]) >= MaxItems

Handed(f, ready) ==
    [field |-> f, rows |-> batch[f], bytes |-> batchBytes[f], ready |-> ready]

\* Mutant: findings have no barrier.
DrainReady(f) ==
    /\ hand' = Handed(f, TRUE)
    /\ batch' = [batch EXCEPT ![f] = {}]
    /\ batchBytes' = [batchBytes EXCEPT ![f] = 0]

Drain(f) ==
    /\ hand' = Handed(f, f # "findings")
    /\ batch' = [batch EXCEPT ![f] = {}]
    /\ batchBytes' = [batchBytes EXCEPT ![f] = 0]

Push(f, s) ==
    /\ batch' = [batch EXCEPT ![f] = @ \cup {s}]
    /\ batchBytes' = [batchBytes EXCEPT ![f] = @ + Bytes(f, s)]
    /\ UNCHANGED hand

\* The row is added, or first the full batch is handed over.
Add(f, s, next) ==
    /\ hand = NoBatch
    /\ IF Full(f, s) THEN Drain(f) /\ UNCHANGED <<at, op>> ELSE Push(f, s) /\ next
    /\ UNCHANGED <<sessions, tails, pool, acked, server, overlooked, fails>>

-----------------------------------------------------------------------------
(* The walk over the sessions *)

\* A session built whole.
AddConversation ==
    /\ op = "conversation" /\ kind[at] = "full"
    /\ Add("conversations", at, Goto("findings"))

\* The head of a chunked session is posted on its own, and its answer awaited.
PostHead ==
    /\ op = "conversation" /\ kind[at] = "head"
    /\ acked' = acked \cup {at}
    /\ stored' = [stored EXCEPT !["conversations"] = @ \cup {at}]
    /\ Goto("findings")
    /\ UNCHANGED <<sessions, batches, tails, hand, pool, dropped, overlooked, fails>>

HeadFails ==
    /\ op = "conversation" /\ kind[at] = "head" /\ fails < MaxFails
    /\ fails' = fails + 1
    /\ Throw
    /\ UNCHANGED <<sessions, batches, tails, pool, acked, server, overlooked>>

\* The server takes the tails, and appendBatch is empty.
Append(sent) ==
    /\ acked' = acked \cup sent
    /\ appends' = {} /\ appendBytes' = 0
    /\ UNCHANGED stored

\* appendAdd: what is there goes first when the tail does not fit.
TailFits ==
    appends = {} \/ appendBytes + size[at] <= MaxAppendBytes

FlushFullAppends ==
    /\ op = "conversation" /\ kind[at] = "tail" /\ ~TailFits
    /\ Append(appends)
    /\ UNCHANGED <<sessions, at, op, batches, hand, pool, dropped, overlooked, fails>>

\* Sent at once when the batch is full, or when findings of the tail follow.
SendTail == at \in leaks \/ Cardinality(appends) + 1 >= MaxItems

AddTail ==
    /\ op = "conversation" /\ kind[at] = "tail" /\ TailFits /\ ~SendTail
    /\ appends' = appends \cup {at} /\ appendBytes' = appendBytes + size[at]
    /\ NextSession
    /\ UNCHANGED <<sessions, batches, hand, pool, acked, server, overlooked, fails>>

AddTailAndSend ==
    /\ op = "conversation" /\ kind[at] = "tail" /\ TailFits /\ SendTail
    /\ Append(appends \cup {at})
    /\ IF at \in leaks THEN Goto("findings") ELSE NextSession
    /\ UNCHANGED <<sessions, batches, hand, pool, dropped, overlooked, fails>>

\* The error is caught: these tails stay unmarked, and the walk goes on.
TailFails ==
    /\ op = "conversation" /\ kind[at] = "tail" /\ fails < MaxFails
    /\ SendTail \/ ~TailFits
    /\ fails' = fails + 1
    /\ appends' = {} /\ appendBytes' = 0
    /\ NextSession
    /\ UNCHANGED <<sessions, batches, hand, pool, acked, server, overlooked>>

AddFindings ==
    /\ op = "findings" /\ at \in leaks
    /\ Add("findings", at, IF kind[at] = "full" THEN Goto("derived") ELSE NextSession)

NoFindings ==
    /\ op = "findings" /\ at \notin leaks
    /\ IF kind[at] = "full" THEN Goto("derived") ELSE NextSession
    /\ UNCHANGED <<sessions, batches, tails, hand, pool, acked, server, overlooked, fails>>

AddDerived == op = "derived" /\ Add("derived", at, NextSession)

-----------------------------------------------------------------------------
(* The drains, in the order of the code *)

FlushAppends ==
    /\ op = "appends"
    /\ Append(appends)
    /\ Goto("conversations")
    /\ UNCHANGED <<sessions, batches, hand, pool, dropped, overlooked, fails>>

FlushFails ==
    /\ op = "appends" /\ appends # {} /\ fails < MaxFails
    /\ fails' = fails + 1
    /\ appends' = {} /\ appendBytes' = 0
    /\ Throw
    /\ UNCHANGED <<sessions, batches, pool, acked, server, overlooked>>

\* The batch of each field in turn; an empty one is passed over.
DrainLast(o, f, next) ==
    /\ op = o /\ hand = NoBatch
    /\ IF batch[f] = {} THEN Goto(next) /\ UNCHANGED <<batches, hand>>
       ELSE Drain(f) /\ UNCHANGED <<at, op>>
    /\ UNCHANGED <<sessions, tails, pool, acked, server, overlooked, fails>>

DrainConversations == DrainLast("conversations", "conversations", "deriveds")
DrainDerived == DrainLast("deriveds", "derived", "findingses")
DrainFindings == DrainLast("findingses", "findings", "settle")

\* drainInflight: everything has landed, or the walk fails.
Settle ==
    /\ op = "settle" /\ inflight = {}
    /\ IF poolError THEN Throw ELSE Goto("done") /\ UNCHANGED hand
    /\ UNCHANGED <<sessions, batches, tails, pool, acked, server, overlooked, fails>>

-----------------------------------------------------------------------------
(* submit *)

\* The barrier of findings: drainInflight.  When it throws, the batch is kept.
Barrier ==
    /\ hand # NoBatch /\ ~hand.ready /\ inflight = {}
    /\ IF poolError
         THEN /\ Throw
              /\ batch' = [batch EXCEPT ![hand.field] = hand.rows]
              /\ batchBytes' = [batchBytes EXCEPT ![hand.field] = hand.bytes]
         ELSE hand' = [hand EXCEPT !.ready = TRUE] /\ UNCHANGED <<at, op, batches>>
    /\ UNCHANGED <<sessions, tails, pool, acked, server, overlooked, fails>>

\* Mutant: what does not fit waits, also when nothing is in flight.
RoomByBytes(b) ==
    /\ Cardinality(inflight) < MaxInflight
    /\ inflightBytes + b.bytes <= MaxBytes

\* Mutant: requests are counted, bytes are not.
RoomByCount(b) == Cardinality(inflight) < MaxInflight

Room(b) ==
    \/ inflight = {}
    \/ /\ Cardinality(inflight) < MaxInflight
       /\ inflightBytes + b.bytes <= MaxBytes

Submit ==
    /\ hand # NoBatch /\ hand.ready /\ Room(hand) /\ ~poolError
    /\ overlooked' = IF hand.field = "findings"
                     THEN overlooked \cup (hand.rows \cap batch["conversations"])
                     ELSE overlooked
    /\ inflight' = inflight \cup {[batch |-> hand, served |-> FALSE]}
    /\ inflightBytes' = inflightBytes + hand.bytes
    /\ hand' = NoBatch
    /\ UNCHANGED <<sessions, at, op, batches, tails, poolError, acked, server, fails>>

\* Mutant: once thrown, the failure is forgotten.
SubmitThrowsOnce ==
    /\ hand # NoBatch /\ hand.ready /\ Room(hand) /\ poolError
    /\ poolError' = FALSE
    /\ Throw
    /\ UNCHANGED <<sessions, batches, tails, inflight, inflightBytes, acked, server,
                   overlooked, fails>>

\* An earlier failure is thrown here, and the batch is gone.
SubmitThrows ==
    /\ hand # NoBatch /\ hand.ready /\ Room(hand) /\ poolError
    /\ Throw
    /\ UNCHANGED <<sessions, batches, tails, pool, acked, server, overlooked, fails>>

-----------------------------------------------------------------------------
(* post, beside the walk *)

\* The server takes a request.  Findings of a session without a row are dropped.
Serve(r) ==
    LET f == r.batch.field
        taken == IF f = "findings" THEN r.batch.rows \cap stored["conversations"]
                 ELSE r.batch.rows
    IN  /\ r \in inflight /\ ~r.served
        /\ stored' = [stored EXCEPT ![f] = @ \cup taken]
        /\ dropped' = dropped \cup (r.batch.rows \ taken)
        /\ inflight' = (inflight \ {r}) \cup {[r EXCEPT !.served = TRUE]}
        /\ UNCHANGED <<sessions, walk, inflightBytes, poolError, acked, overlooked, fails>>

\* finally: the slot and the bytes are free.
Release(r) ==
    /\ inflight' = inflight \ {r}
    /\ inflightBytes' = inflightBytes - r.batch.bytes

\* The reply; `after` marks the sessions of a conversations batch.
Reply(r) ==
    /\ r \in inflight /\ r.served
    /\ Release(r)
    /\ acked' = IF r.batch.field = "conversations" THEN acked \cup r.batch.rows ELSE acked
    /\ UNCHANGED <<sessions, walk, poolError, server, overlooked, fails>>

\* An attempt fails before the server had it, or its reply is lost: sent again.
Retry(r) ==
    /\ r \in inflight /\ fails < MaxFails
    /\ fails' = fails + 1
    /\ inflight' = (inflight \ {r}) \cup {[r EXCEPT !.served = FALSE]}
    /\ UNCHANGED <<sessions, walk, inflightBytes, poolError, acked, server, overlooked>>

\* The last attempt fails, or the server refuses for good.
GiveUp(r) ==
    /\ r \in inflight /\ fails < MaxFails
    /\ fails' = fails + 1
    /\ Release(r)
    /\ poolError' = TRUE
    /\ UNCHANGED <<sessions, walk, acked, server, overlooked>>

-----------------------------------------------------------------------------

Walk ==
    \/ AddConversation \/ PostHead \/ HeadFails
    \/ FlushFullAppends \/ AddTail \/ AddTailAndSend \/ TailFails
    \/ AddFindings \/ NoFindings \/ AddDerived
    \/ FlushAppends \/ FlushFails
    \/ DrainConversations \/ DrainDerived \/ DrainFindings \/ Settle
    \/ Barrier \/ Submit \/ SubmitThrows

Post == \E r \in inflight : Serve(r) \/ Reply(r)

Next ==
    \/ Walk \/ Post
    \/ \E r \in inflight : Retry(r) \/ GiveUp(r)

Spec == Init /\ [][Next]_vars

(* Each attempt ends, as it has an abort timer, and the walk is code that   *)
(* runs whenever it does not wait for the pool.                             *)
FairSpec == Spec /\ WF_vars(Walk) /\ WF_vars(Post)

-----------------------------------------------------------------------------
(* Properties *)

TypeOK ==
    /\ kind \in [Session -> Kind] /\ size \in [Session -> {Small, Large}]
    /\ leaks \subseteq Session
    /\ at \in Session /\ op \in Op
    /\ batch \in [Field -> SUBSET Session] /\ batchBytes \in [Field -> Nat]
    /\ appends \subseteq Session /\ appendBytes \in Nat
    /\ hand \in Batch \cup {NoBatch}
    /\ inflight \subseteq Request /\ inflightBytes \in Int /\ poolError \in BOOLEAN
    /\ acked \subseteq Session
    /\ stored \in [Field -> SUBSET Session] /\ dropped \subseteq Session
    /\ overlooked \subseteq Session
    /\ fails \in Nat

\* "Findings must reach the server after the rows they name": the server leaves
\* out the findings of a session only when the walk handed them over before the
\* conversation itself (findingsBatch's barrier, 1437-1441 and 1640-1658).
OnlyOverlookedDropped == dropped \subseteq overlooked

\* "The barrier also covers the mid-walk flush at the 200 cap" (1656-1657): when
\* a walk ends without an error, the findings of every session it marked as
\* synced are on the server.
FindingsLand == op = "done" => acked \cap leaks \subseteq stored["findings"]

\* What is in flight is bounded in bytes, not only in requests, except for one
\* item that is larger by itself (1381-1391); and the counter is what is there,
\* whatever succeeded, failed or was repeated.
LoadIsBounded ==
    /\ inflightBytes = MapThenSumSet(LAMBDA r : r.batch.bytes, inflight)
    /\ Cardinality(inflight) <= MaxInflight
    /\ inflightBytes <= MaxBytes \/ Cardinality(inflight) = 1

\* A walk that ends without an error has delivered every row it added, also when
\* the failure of an upload was thrown where it is caught ("a fatal error still
\* aborts the whole sync", 1375-1379).
DoneMeansDelivered ==
    op = "done" =>
        \A s \in Session :
            /\ kind[s] # "tail" => s \in acked /\ s \in stored["conversations"]
            /\ kind[s] = "full" => s \in stored["derived"]
            /\ s \in acked \cap leaks => s \in stored["findings"] \cup dropped

\* Every walk ends: an item larger than the whole budget ships in the end, and
\* the barriers do not wait for what waits for them (1388-1390).
WalkEnds == <>(op \in {"done", "failed"})
=============================================================================
