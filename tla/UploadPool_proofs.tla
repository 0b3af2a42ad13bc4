------------------------- MODULE UploadPool_proofs -------------------------
(***************************************************************************)
(* For any number of sessions, any caps and any number of failures: a walk *)
(* that ends without an error has delivered what it added, and the server  *)
(* leaves out only findings that were handed over too early.               *)
(***************************************************************************)
EXTENDS UploadPool, FiniteSetTheorems, WellFoundedInduction, TLAPS

(* A row that is on its way: in its batch, being handed over, or posted.   *)
InHand(f, s) == hand # NoBatch /\ hand.field = f /\ s \in hand.rows
InFlight(f, s) == \E r \in inflight : r.batch.field = f /\ s \in r.batch.rows
Underway(f, s) == s \in batch[f] \/ InHand(f, s) \/ InFlight(f, s)

(* The walk has failed, or will at its next slot or barrier.               *)
Lost == poolError \/ op = "failed"

(* How far the walk is with session s.                                     *)
PastConversation(s) == s < at \/ (s = at /\ op # "conversation")
PastFindings(s) == s < at \/ (s = at /\ op \notin {"conversation", "findings"})
PastDerived(s) == s < at \/ (s = at /\ op \notin {"conversation", "findings", "derived"})

-----------------------------------------------------------------------------
(* The inductive invariant *)

(* What the walk hands over at this point.                                 *)
Hands(f) ==
    \/ op = "conversation" /\ kind[at] = "full" /\ f = "conversations"
    \/ op = "findings" /\ at \in leaks /\ f = "findings"
    \/ op = "derived" /\ f = "derived"
    \/ op = "conversations" /\ f = "conversations"
    \/ op = "deriveds" /\ f = "derived"
    \/ op = "findingses" /\ f = "findings"

HandMatches ==
    hand # NoBatch => Hands(hand.field) /\ (~hand.ready => hand.field = "findings")

Drains == {"appends", "conversations", "deriveds", "findingses", "settle", "done"}

Drained ==
    /\ op \in Drains => at = N
    /\ op \in {"deriveds", "findingses", "settle", "done"} => batch["conversations"] = {}
    /\ op \in {"findingses", "settle", "done"} => batch["derived"] = {}
    /\ op \in {"settle", "done"} => batch["findings"] = {}
    /\ op = "done" => inflight = {} /\ ~poolError

(* The server has the session of a tail; a tail with findings does not wait *)
(* in the append batch, and is acknowledged in its turn.                    *)
TailsKnown ==
    /\ \A s \in Session : kind[s] = "tail" => s \in stored["conversations"]
    /\ \A s \in appends : kind[s] = "tail" /\ s \notin leaks
    /\ \A s \in leaks : kind[s] = "tail" /\ s \in acked => PastConversation(s)

WholeOnly == \A s \in Session : Underway("conversations", s) => kind[s] = "full"

ServedIsStored ==
    \A r \in inflight : r.served =>
        r.batch.rows \subseteq stored[r.batch.field]
            \cup (IF r.batch.field = "findings" THEN dropped ELSE {})

ConversationSent ==
    \A s \in Session : kind[s] = "full" /\ PastConversation(s) =>
        Lost \/ Underway("conversations", s) \/ (s \in acked /\ s \in stored["conversations"])

HeadSent ==
    \A s \in Session : kind[s] = "head" /\ PastConversation(s) =>
        Lost \/ (s \in acked /\ s \in stored["conversations"])

FindingsSent ==
    \A s \in leaks : PastFindings(s) /\ (kind[s] # "tail" \/ s \in acked) =>
        Lost \/ Underway("findings", s) \/ s \in stored["findings"] \cup dropped

DerivedSent ==
    \A s \in Session : kind[s] = "full" /\ PastDerived(s) =>
        Lost \/ Underway("derived", s) \/ s \in stored["derived"]

(* Findings follow the conversation: when they are added it has been, and  *)
(* behind the barrier it is stored or still in its batch.                  *)
FindingsFollow ==
    /\ \A s \in Session : s \in batch["findings"] \/ InHand("findings", s) => PastConversation(s)
    /\ hand # NoBatch /\ hand.field = "findings" /\ hand.ready =>
           hand.rows \subseteq stored["conversations"] \cup batch["conversations"]
    /\ \A r \in inflight : r.batch.field = "findings" =>
           r.batch.rows \subseteq stored["conversations"] \cup overlooked

IInv ==
    /\ TypeOK
    /\ HandMatches /\ Drained
    /\ TailsKnown /\ WholeOnly /\ ServedIsStored
    /\ ConversationSent /\ HeadSent /\ FindingsSent /\ DerivedSent
    /\ FindingsFollow /\ OnlyOverlookedDropped

-----------------------------------------------------------------------------
(* Lemmas about the operators of the walk *)

\* A batch that is handed over is well typed.
LEMMA HandedTyped ==
  ASSUME TypeOK, NEW f \in Field, NEW ready \in BOOLEAN
  PROVE  Handed(f, ready) \in Batch
<1>1. batch[f] \in SUBSET Session /\ batchBytes[f] \in Nat
  BY DEF TypeOK
<1> QED
  BY <1>1 DEF Handed, Batch

\* The size of a row.
LEMMA BytesTyped ==
  ASSUME TypeOK, NEW f \in Field, NEW s \in Session
  PROVE  Bytes(f, s) \in Nat
<1>1. {Small, Large} \subseteq Nat
  BY BoundsAssumption
<1>2. size[s] \in {Small, Large}
  BY DEF TypeOK
<1> QED
  BY <1>1, <1>2 DEF Bytes

\* The walk stays among its sessions, and reaches the drains behind the last.
LEMMA NextSessionTyped ==
  ASSUME TypeOK, NextSession
  PROVE  /\ at' \in Session /\ op' \in {"conversation", "appends"}
         /\ op' = "conversation" => at' = at + 1
         /\ op' = "appends" => at' = at /\ at = N
<1>1. N \in Nat /\ at \in 1..N
  BY BoundsAssumption DEF TypeOK, Session
<1>2. CASE at < N
  BY <1>1, <1>2 DEF NextSession, Session
<1>3. CASE ~(at < N)
  BY <1>1, <1>3 DEF NextSession, Goto, Session
<1> QED
  BY <1>2, <1>3

\* An error leaves nothing in hand, and ends the walk or goes on with the next
\* session.
LEMMA ThrowTyped ==
  ASSUME TypeOK, Throw
  PROVE  /\ hand' = NoBatch
         /\ at' \in Session /\ op' \in {"conversation", "appends", "failed"}
         /\ \/ op' = "failed" /\ at' = at
            \/ /\ op = "derived" \/ (op = "findings" /\ kind[at] = "tail")
               /\ NextSession
<1>1. at \in Session
  BY DEF TypeOK
<1> QED
  BY <1>1, NextSessionTyped DEF Throw, Goto

\* Handing a batch over.
LEMMA DrainTyped ==
  ASSUME TypeOK, NEW f \in Field, Drain(f)
  PROVE  /\ hand' \in Batch /\ hand' # NoBatch
         /\ hand'.field = f /\ hand'.rows = batch[f]
         /\ hand'.ready = (f # "findings")
         /\ batch' \in [Field -> SUBSET Session] /\ batchBytes' \in [Field -> Nat]
         /\ batch'[f] = {}
         /\ \A g \in Field : g # f => batch'[g] = batch[g]
<1>1. hand' \in Batch
  BY HandedTyped DEF Drain
<1>2. hand' # NoBatch
  BY <1>1, NoBatchAssumption
<1>3. hand'.field = f /\ hand'.rows = batch[f] /\ hand'.ready = (f # "findings")
  BY DEF Drain, Handed
<1>4. /\ batch' \in [Field -> SUBSET Session] /\ batchBytes' \in [Field -> Nat]
      /\ batch'[f] = {} /\ \A g \in Field : g # f => batch'[g] = batch[g]
  BY DEF Drain, TypeOK
<1> QED
  BY <1>1, <1>2, <1>3, <1>4

\* Adding a row.
LEMMA PushTyped ==
  ASSUME TypeOK, NEW f \in Field, NEW s \in Session, Push(f, s)
  PROVE  /\ hand' = hand
         /\ batch' \in [Field -> SUBSET Session] /\ batchBytes' \in [Field -> Nat]
         /\ batch'[f] = batch[f] \cup {s}
         /\ \A g \in Field : g # f => batch'[g] = batch[g]
<1>1. batchBytes[f] + Bytes(f, s) \in Nat
  BY BytesTyped DEF TypeOK
<1> QED
  BY <1>1 DEF Push, TypeOK

-----------------------------------------------------------------------------
(* Type correctness *)

\* Every action of the walk leaves its own variables well typed.
LEMMA WalkTyped ==
  ASSUME TypeOK, Walk
  PROVE  TypeOK'
<1> USE BoundsAssumption, NoBatchAssumption
<1> USE DEF TypeOK, sessions, walk, batches, tails, pool, server, Goto
<1>0. /\ \A f \in Field : f \in {"conversations", "findings", "derived"}
      /\ {"conversations", "findings", "derived"} \subseteq Field
      /\ {"conversation", "findings", "derived", "appends", "conversations", "deriveds",
          "findingses", "settle", "done", "failed"} = Op
      /\ Session \subseteq Nat /\ {Small, Large} \subseteq Nat
      /\ size[at] \in {Small, Large}
  BY DEF Field, Op, Session
<1> HIDE DEF TypeOK
<1>1. ASSUME NEW f \in Field, NEW s \in Session, Drain(f) \/ Push(f, s)
      PROVE  /\ hand' \in Batch \cup {NoBatch}
             /\ batch' \in [Field -> SUBSET Session] /\ batchBytes' \in [Field -> Nat]
  BY <1>1, DrainTyped, PushTyped DEF TypeOK
<1>2. CASE AddConversation
  <2>1. Drain("conversations") \/ Push("conversations", at)
    BY <1>2 DEF AddConversation, Add
  <2>2. at' \in Session /\ op' \in Op
    BY <1>0, <1>2 DEF AddConversation, Add, TypeOK
  <2> QED
    BY <1>0, <1>1, <1>2, <2>1, <2>2 DEF AddConversation, Add, TypeOK
<1>3. CASE AddFindings
  <2>1. Drain("findings") \/ Push("findings", at)
    BY <1>3 DEF AddFindings, Add
  <2>2. at' \in Session /\ op' \in Op
    BY <1>0, <1>3, NextSessionTyped DEF AddFindings, Add, TypeOK
  <2> QED
    BY <1>0, <1>1, <1>3, <2>1, <2>2 DEF AddFindings, Add, TypeOK
<1>4. CASE AddDerived
  <2>1. Drain("derived") \/ Push("derived", at)
    BY <1>4 DEF AddDerived, Add
  <2>2. at' \in Session /\ op' \in Op
    BY <1>0, <1>4, NextSessionTyped DEF AddDerived, Add, TypeOK
  <2> QED
    BY <1>0, <1>1, <1>4, <2>1, <2>2 DEF AddDerived, Add, TypeOK
<1>5. CASE PostHead
  BY <1>0, <1>5 DEF PostHead, TypeOK
<1>6. CASE HeadFails
  BY <1>0, <1>6, ThrowTyped DEF HeadFails, TypeOK
<1>7. CASE FlushFullAppends
  BY <1>0, <1>7 DEF FlushFullAppends, Append, TypeOK
<1>8. CASE AddTail
  <2>1. appendBytes + size[at] \in Nat
    BY <1>0 DEF TypeOK
  <2> QED
    BY <1>0, <1>8, <2>1, NextSessionTyped DEF AddTail, TypeOK
<1>9. CASE AddTailAndSend
  <2>1. at' \in Session /\ op' \in Op
    BY <1>0, <1>9, NextSessionTyped DEF AddTailAndSend, TypeOK
  <2> QED
    BY <1>0, <1>9, <2>1 DEF AddTailAndSend, Append, TypeOK
<1>10. CASE TailFails
  BY <1>0, <1>10, NextSessionTyped DEF TailFails, TypeOK
<1>11. CASE NoFindings
  BY <1>0, <1>11, NextSessionTyped DEF NoFindings, TypeOK
<1>12. CASE FlushAppends
  BY <1>0, <1>12 DEF FlushAppends, Append, TypeOK
<1>13. CASE FlushFails
  BY <1>0, <1>13, ThrowTyped DEF FlushFails, TypeOK
<1>14. ASSUME NEW o \in Op, NEW f \in Field, NEW next \in Op, DrainLast(o, f, next)
       PROVE  TypeOK'
  <2>1. CASE batch[f] = {}
    BY <1>14, <2>1 DEF DrainLast, TypeOK
  <2>2. CASE batch[f] # {}
    <3>1. Drain(f)
      BY <1>14, <2>2 DEF DrainLast
    <3> QED
      BY <1>1, <1>14, <2>2, <3>1 DEF DrainLast, TypeOK
  <2> QED
    BY <2>1, <2>2
<1>15. CASE DrainConversations \/ DrainDerived \/ DrainFindings
  BY <1>0, <1>14, <1>15 DEF DrainConversations, DrainDerived, DrainFindings
<1>16. CASE Settle
  BY <1>0, <1>16, ThrowTyped DEF Settle, TypeOK
<1>17. CASE Barrier
  <2>1. hand \in Batch
    BY <1>17 DEF Barrier, TypeOK
  <2>2. /\ hand.field \in Field /\ hand.rows \subseteq Session /\ hand.bytes \in Nat
        /\ [hand EXCEPT !.ready = TRUE] \in Batch
    BY <2>1 DEF Batch
  <2>3. CASE poolError
    BY <1>0, <1>17, <2>2, <2>3, ThrowTyped DEF Barrier, TypeOK
  <2>4. CASE ~poolError
    BY <1>0, <1>17, <2>2, <2>4 DEF Barrier, TypeOK
  <2> QED
    BY <2>3, <2>4
<1>18. CASE Submit
  <2>1. hand \in Batch
    BY <1>18 DEF Submit, TypeOK
  <2>2. hand.rows \subseteq Session /\ hand.bytes \in Nat
    BY <2>1 DEF Batch
  <2>3. [batch |-> hand, served |-> FALSE] \in Request
    BY <2>1 DEF Request
  <2>4. inflight' \subseteq Request /\ overlooked' \subseteq Session /\ inflightBytes' \in Int
    <3>1. inflight' \subseteq Request
      BY <1>18, <2>3 DEF Submit, TypeOK
    <3>2. overlooked' \subseteq Session
      BY <1>18, <2>2 DEF Submit, TypeOK
    <3>3. inflightBytes' \in Int
      BY <1>18, <2>2 DEF Submit, TypeOK
    <3> QED
      BY <3>1, <3>2, <3>3
  <2> QED
    BY <1>18, <2>4 DEF Submit, TypeOK
<1>19. CASE SubmitThrows
  BY <1>0, <1>19, ThrowTyped DEF SubmitThrows, TypeOK
<1> QED
  BY <1>2, <1>3, <1>4, <1>5, <1>6, <1>7, <1>8, <1>9, <1>10, <1>11, <1>12, <1>13,
     <1>15, <1>16, <1>17, <1>18, <1>19 DEF Walk

\* So do the requests beside it.
LEMMA PostTyped ==
  ASSUME TypeOK, NEW r \in inflight, Serve(r) \/ Reply(r) \/ Retry(r) \/ GiveUp(r)
  PROVE  TypeOK'
<1>1. r \in Request
  BY DEF TypeOK
<1>2. /\ r.batch \in Batch /\ r.batch.field \in Field /\ r.batch.rows \subseteq Session
      /\ r.batch.bytes \in Nat
      /\ [r EXCEPT !.served = TRUE] \in Request /\ [r EXCEPT !.served = FALSE] \in Request
  BY <1>1 DEF Request, Batch
<1> USE DEF sessions, walk, batches, tails, pool, server
<1>3. CASE Serve(r)
  BY <1>2, <1>3 DEF Serve, TypeOK
<1>4. CASE Reply(r)
  BY <1>2, <1>4 DEF Reply, Release, TypeOK
<1>5. CASE Retry(r)
  <2>1. inflight' \subseteq Request
    BY <1>2, <1>5 DEF Retry, TypeOK
  <2>2. fails' \in Nat
    BY <1>5 DEF Retry, TypeOK
  <2> QED
    BY <1>5, <2>1, <2>2 DEF Retry, TypeOK
<1>6. CASE GiveUp(r)
  BY <1>2, <1>6, BoundsAssumption DEF GiveUp, Release, TypeOK
<1> QED
  BY <1>3, <1>4, <1>5, <1>6

-----------------------------------------------------------------------------
(* What is underway stays so until it is answered or given up *)

\* Rows stay underway in a step that touches none of the three.
LEMMA SameUnderway ==
  ASSUME UNCHANGED <<batch, hand, inflight>>
  PROVE  \A g \in Field, s \in Session : Underway(g, s)' <=> Underway(g, s)
  BY DEF Underway, InHand, InFlight

\* Handing a batch over moves its rows, and loses none.
LEMMA DrainUnderway ==
  ASSUME TypeOK, NEW f \in Field, hand = NoBatch, Drain(f), inflight' = inflight
  PROVE  \A g \in Field, s \in Session : Underway(g, s)' <=> Underway(g, s)
<1>1. SUFFICES ASSUME NEW g \in Field, NEW s \in Session
               PROVE  Underway(g, s)' <=> Underway(g, s)
  OBVIOUS
<1>2. InFlight(g, s)' <=> InFlight(g, s)
  BY DEF InFlight
<1>3. ~InHand(g, s)
  BY DEF InHand
<1>4. CASE g = f
  <2>1. InHand(g, s)' <=> s \in batch[g]
    BY <1>4, DrainTyped DEF InHand
  <2>2. s \notin batch'[g]
    BY <1>4, DrainTyped
  <2> QED
    BY <1>2, <1>3, <2>1, <2>2 DEF Underway
<1>5. CASE g # f
  <2>1. ~InHand(g, s)'
    BY <1>5, DrainTyped DEF InHand
  <2>2. batch'[g] = batch[g]
    BY <1>5, DrainTyped
  <2> QED
    BY <1>2, <1>3, <2>1, <2>2 DEF Underway
<1> QED
  BY <1>4, <1>5

\* Adding a row puts one more underway.
LEMMA PushUnderway ==
  ASSUME TypeOK, NEW f \in Field, NEW t \in Session, Push(f, t), inflight' = inflight
  PROVE  \A g \in Field, s \in Session :
             Underway(g, s)' <=> Underway(g, s) \/ (g = f /\ s = t)
<1>1. SUFFICES ASSUME NEW g \in Field, NEW s \in Session
               PROVE  Underway(g, s)' <=> Underway(g, s) \/ (g = f /\ s = t)
  OBVIOUS
<1>2. (InFlight(g, s)' <=> InFlight(g, s)) /\ (InHand(g, s)' <=> InHand(g, s))
  BY PushTyped DEF InFlight, InHand
<1>3. s \in batch'[g] <=> s \in batch[g] \/ (g = f /\ s = t)
  BY PushTyped
<1> QED
  BY <1>2, <1>3 DEF Underway

\* Submitting moves the rows in hand into flight.
LEMMA SubmitUnderway ==
  ASSUME TypeOK, Submit
  PROVE  \A g \in Field, s \in Session : Underway(g, s)' <=> Underway(g, s)
<1>1. SUFFICES ASSUME NEW g \in Field, NEW s \in Session
               PROVE  Underway(g, s)' <=> Underway(g, s)
  OBVIOUS
<1>2. batch' = batch /\ hand # NoBatch /\ hand' = NoBatch
  BY DEF Submit, batches
<1>3. PICK q : q.batch = hand /\ inflight' = inflight \cup {q}
  <2>1. [batch |-> hand, served |-> FALSE].batch = hand
    OBVIOUS
  <2> QED
    BY <2>1 DEF Submit
<1>4. InFlight(g, s)' <=> InFlight(g, s) \/ (hand.field = g /\ s \in hand.rows)
  BY <1>3 DEF InFlight
<1> QED
  BY <1>2, <1>4 DEF Underway, InHand

\* A request that is served, or sent again, stands for the same rows.
LEMMA MarkUnderway ==
  ASSUME TypeOK, NEW r \in inflight, Serve(r) \/ Retry(r)
  PROVE  \A g \in Field, s \in Session : Underway(g, s)' <=> Underway(g, s)
<1>1. SUFFICES ASSUME NEW g \in Field, NEW s \in Session
               PROVE  Underway(g, s)' <=> Underway(g, s)
  OBVIOUS
<1>2. r \in Request
  BY DEF TypeOK
<1>3. PICK v \in BOOLEAN : inflight' = (inflight \ {r}) \cup {[r EXCEPT !.served = v]}
  BY DEF Serve, Retry
<1>4. [r EXCEPT !.served = v].batch = r.batch
  BY <1>2 DEF Request
<1>5. InFlight(g, s)' <=> InFlight(g, s)
  BY <1>3, <1>4 DEF InFlight
<1>6. batch' = batch /\ hand' = hand
  BY DEF Serve, Retry, walk, batches
<1> QED
  BY <1>5, <1>6 DEF Underway, InHand

\* A reply takes the rows of its request out of flight, and no others.
LEMMA ReplyUnderway ==
  ASSUME TypeOK, NEW r \in inflight, Reply(r)
  PROVE  \A g \in Field, s \in Session :
             /\ Underway(g, s)' => Underway(g, s)
             /\ Underway(g, s) => Underway(g, s)' \/ (g = r.batch.field /\ s \in r.batch.rows)
<1>1. inflight' = inflight \ {r} /\ batch' = batch /\ hand' = hand
  BY DEF Reply, Release, walk, batches
<1> QED
  BY <1>1 DEF Underway, InHand, InFlight

-----------------------------------------------------------------------------
(* Steps that add to no batch *)

\* Where the walk stands afterwards: no row counts as passed that was not
\* before, but the head that was answered; or the walk has failed.
Advances ==
    \/ Lost'
    \/ \A s \in Session :
          /\ kind[s] = "full" /\ PastConversation(s)' => PastConversation(s)
          /\ kind[s] = "head" /\ PastConversation(s)' =>
                 PastConversation(s) \/ (s \in acked' /\ s \in stored'["conversations"])
          /\ s \in leaks /\ PastFindings(s)' /\ (kind[s] # "tail" \/ s \in acked') =>
                 PastFindings(s) /\ (kind[s] # "tail" \/ s \in acked)
          /\ kind[s] = "full" /\ PastDerived(s)' => PastDerived(s)

\* Such a step keeps the rest of the invariant.
LEMMA PlainKeeps ==
  ASSUME IInv, TypeOK', hand = NoBatch, hand' = NoBatch,
         UNCHANGED <<sessions, batch, inflight, poolError, dropped, overlooked>>,
         acked \subseteq acked', \A f \in Field : stored[f] \subseteq stored'[f],
         \A s \in Session : PastConversation(s) => PastConversation(s)',
         op # "failed", Advances, Drained', TailsKnown'
  PROVE  IInv'
<1> USE DEF sessions
<1>1. \A g \in Field, s \in Session : Underway(g, s)' <=> Underway(g, s)
  BY SameUnderway
<1>2. HandMatches' /\ WholeOnly' /\ OnlyOverlookedDropped'
  BY <1>1 DEF IInv, HandMatches, WholeOnly, OnlyOverlookedDropped, Field
<1>3. ServedIsStored'
  <2>1. \A r \in inflight : r.batch.field \in Field
    BY DEF IInv, TypeOK, Request, Batch
  <2> QED
    BY <2>1 DEF IInv, ServedIsStored
<1>4. FindingsFollow'
  BY DEF IInv, FindingsFollow, InHand, Field
<1>5. CASE Lost'
  BY <1>2, <1>3, <1>4, <1>5
     DEF IInv, ConversationSent, HeadSent, FindingsSent, DerivedSent
<1>6. CASE ~Lost'
  <2>1. ~Lost
    BY <1>6 DEF Lost
  <2>2. ConversationSent' /\ HeadSent' /\ DerivedSent'
    BY <1>1, <1>6, <2>1
       DEF IInv, Advances, ConversationSent, HeadSent, DerivedSent, Field
  <2>3. FindingsSent'
    BY <1>1, <1>6, <2>1 DEF IInv, TypeOK, Advances, FindingsSent, Field
  <2> QED
    BY <1>2, <1>3, <1>4, <2>2, <2>3 DEF IInv
<1> QED
  BY <1>5, <1>6


\* The head of a chunked session is posted and answered.
LEMMA PostHeadKeeps ==
  ASSUME IInv, PostHead
  PROVE  IInv'
<1> USE DEF sessions, walk, batches, tails, pool, server
<1>1. TypeOK /\ at \in Session /\ Session \subseteq Nat /\ op # "failed"
  <2>1. TypeOK /\ op # "failed"
    BY DEF IInv, PostHead
  <2> QED
    BY <2>1 DEF TypeOK, Session
<1>2. TypeOK'
  BY <1>1, WalkTyped DEF Walk
<1>3. kind[at] = "head" /\ op = "conversation" /\ op' = "findings" /\ at' = at
  BY DEF PostHead, Goto
<1>4. hand = NoBatch /\ hand' = NoBatch
  BY <1>3 DEF PostHead, Goto, IInv, HandMatches, Hands
<1>5. /\ UNCHANGED <<sessions, batch, inflight, poolError, dropped, overlooked>>
      /\ acked \subseteq acked' /\ \A f \in Field : stored[f] \subseteq stored'[f]
  BY <1>1 DEF PostHead, Goto, TypeOK
<1>6. (\A s \in Session : PastConversation(s) => PastConversation(s)') /\ Advances
  BY <1>1, <1>2, <1>3 DEF PostHead, Goto, Advances, Lost, PastConversation,
     PastFindings, PastDerived, IInv, TailsKnown, TypeOK
<1>7. Drained'
  BY <1>1, <1>3, <1>5 DEF IInv, Drained, Drains
<1>8. TailsKnown'
  BY <1>1, <1>3, <1>5, <1>6 
     DEF PostHead, Goto, IInv, TailsKnown, PastConversation, TypeOK, Field
<1> QED
  BY <1>1, <1>2, <1>4, <1>5, <1>6, <1>7, <1>8, PlainKeeps

\* The post of a head fails, and the walk with it.
LEMMA HeadFailsKeeps ==
  ASSUME IInv, HeadFails
  PROVE  IInv'
<1> USE DEF sessions, walk, batches, tails, pool, server
<1>1. TypeOK /\ at \in Session /\ Session \subseteq Nat /\ op # "failed"
  <2>1. TypeOK /\ op # "failed"
    BY DEF IInv, HeadFails
  <2> QED
    BY <2>1 DEF TypeOK, Session
<1>2. TypeOK'
  BY <1>1, WalkTyped DEF Walk
<1>3. op = "conversation" /\ op' = "failed" /\ at' = at
  BY DEF HeadFails, Throw, Goto
<1>4. hand = NoBatch /\ hand' = NoBatch
  BY <1>3 DEF HeadFails, Throw, Goto, IInv, HandMatches, Hands
<1>5. /\ UNCHANGED <<sessions, batch, inflight, poolError, dropped, overlooked>>
      /\ acked \subseteq acked' /\ \A f \in Field : stored[f] \subseteq stored'[f]
  BY <1>1 DEF HeadFails, Throw, Goto, TypeOK
<1>6. (\A s \in Session : PastConversation(s) => PastConversation(s)') /\ Advances
  BY <1>1, <1>2, <1>3 DEF HeadFails, Throw, Goto, Advances, Lost, PastConversation,
     PastFindings, PastDerived, IInv, TailsKnown, TypeOK
<1>7. Drained'
  BY <1>1, <1>3, <1>5 DEF IInv, Drained, Drains
<1>8. TailsKnown'
  BY <1>1, <1>3, <1>5, <1>6 
     DEF HeadFails, Throw, Goto, IInv, TailsKnown, PastConversation, TypeOK, Field
<1> QED
  BY <1>1, <1>2, <1>4, <1>5, <1>6, <1>7, <1>8, PlainKeeps

\* The full append batch goes first.
LEMMA FlushFullAppendsKeeps ==
  ASSUME IInv, FlushFullAppends
  PROVE  IInv'
<1> USE DEF sessions, walk, batches, tails, pool, server
<1>1. TypeOK /\ at \in Session /\ Session \subseteq Nat /\ op # "failed"
  <2>1. TypeOK /\ op # "failed"
    BY DEF IInv, FlushFullAppends
  <2> QED
    BY <2>1 DEF TypeOK, Session
<1>2. TypeOK'
  BY <1>1, WalkTyped DEF Walk
<1>3. op = "conversation" /\ op' = op /\ at' = at
  BY DEF FlushFullAppends, Append
<1>4. hand = NoBatch /\ hand' = NoBatch
  BY <1>3 DEF FlushFullAppends, Append, IInv, HandMatches, Hands
<1>5. /\ UNCHANGED <<sessions, batch, inflight, poolError, dropped, overlooked>>
      /\ acked \subseteq acked' /\ \A f \in Field : stored[f] \subseteq stored'[f]
  BY <1>1 DEF FlushFullAppends, Append, TypeOK
<1>6. (\A s \in Session : PastConversation(s) => PastConversation(s)') /\ Advances
  BY <1>1, <1>2, <1>3 DEF FlushFullAppends, Append, Advances, Lost, PastConversation,
     PastFindings, PastDerived, IInv, TailsKnown, TypeOK
<1>7. Drained'
  BY <1>1, <1>3, <1>5 DEF IInv, Drained, Drains
<1>8. TailsKnown'
  BY <1>1, <1>3, <1>5, <1>6 
     DEF FlushFullAppends, Append, IInv, TailsKnown, PastConversation, TypeOK, Field
<1> QED
  BY <1>1, <1>2, <1>4, <1>5, <1>6, <1>7, <1>8, PlainKeeps

\* A tail waits in the append batch.
LEMMA AddTailKeeps ==
  ASSUME IInv, AddTail
  PROVE  IInv'
<1> USE DEF sessions, walk, batches, tails, pool, server
<1>1. TypeOK /\ at \in Session /\ Session \subseteq Nat /\ op # "failed"
  <2>1. TypeOK /\ op # "failed"
    BY DEF IInv, AddTail
  <2> QED
    BY <2>1 DEF TypeOK, Session
<1>2. TypeOK'
  BY <1>1, WalkTyped DEF Walk
<1>3. /\ kind[at] = "tail" /\ at \notin leaks /\ op = "conversation"
      /\ \/ op' = "conversation" /\ at' = at + 1
         \/ op' = "appends" /\ at' = at /\ at = N
  BY <1>1, NextSessionTyped DEF AddTail, SendTail
<1>4. hand = NoBatch /\ hand' = NoBatch
  BY <1>3 DEF AddTail, SendTail, IInv, HandMatches, Hands
<1>5. /\ UNCHANGED <<sessions, batch, inflight, poolError, dropped, overlooked>>
      /\ acked \subseteq acked' /\ \A f \in Field : stored[f] \subseteq stored'[f]
  BY <1>1 DEF AddTail, SendTail, TypeOK
<1>6. (\A s \in Session : PastConversation(s) => PastConversation(s)') /\ Advances
  BY <1>1, <1>2, <1>3 DEF AddTail, SendTail, Advances, Lost, PastConversation,
     PastFindings, PastDerived, IInv, TailsKnown, TypeOK
<1>7. Drained'
  BY <1>1, <1>3, <1>5 DEF IInv, Drained, Drains
<1>8. TailsKnown'
  BY <1>1, <1>3, <1>5, <1>6 
     DEF AddTail, SendTail, IInv, TailsKnown, PastConversation, TypeOK, Field
<1> QED
  BY <1>1, <1>2, <1>4, <1>5, <1>6, <1>7, <1>8, PlainKeeps

\* A tail is sent with the append batch; its findings come next.
LEMMA AddTailAndSendKeeps ==
  ASSUME IInv, AddTailAndSend
  PROVE  IInv'
<1> USE DEF sessions, walk, batches, tails, pool, server
<1>1. TypeOK /\ at \in Session /\ Session \subseteq Nat /\ op # "failed"
  <2>1. TypeOK /\ op # "failed"
    BY DEF IInv, AddTailAndSend
  <2> QED
    BY <2>1 DEF TypeOK, Session
<1>2. TypeOK'
  BY <1>1, WalkTyped DEF Walk
<1>3. /\ kind[at] = "tail" /\ op = "conversation"
      /\ \/ at \in leaks /\ op' = "findings" /\ at' = at
         \/ at \notin leaks /\ op' = "conversation" /\ at' = at + 1
         \/ at \notin leaks /\ op' = "appends" /\ at' = at /\ at = N
  BY <1>1, NextSessionTyped DEF AddTailAndSend, Append, Goto
<1>4. hand = NoBatch /\ hand' = NoBatch
  BY <1>3 DEF AddTailAndSend, Append, Goto, IInv, HandMatches, Hands
<1>5. /\ UNCHANGED <<sessions, batch, inflight, poolError, dropped, overlooked>>
      /\ acked \subseteq acked' /\ \A f \in Field : stored[f] \subseteq stored'[f]
  BY <1>1 DEF AddTailAndSend, Append, Goto, TypeOK
<1>6. (\A s \in Session : PastConversation(s) => PastConversation(s)') /\ Advances
  BY <1>1, <1>2, <1>3 DEF AddTailAndSend, Append, Goto, Advances, Lost, PastConversation,
     PastFindings, PastDerived, IInv, TailsKnown, TypeOK
<1>7. Drained'
  BY <1>1, <1>3, <1>5 DEF IInv, Drained, Drains
<1>8. TailsKnown'
  BY <1>1, <1>3, <1>5, <1>6 
     DEF AddTailAndSend, Append, Goto, IInv, TailsKnown, PastConversation, TypeOK, Field
<1> QED
  BY <1>1, <1>2, <1>4, <1>5, <1>6, <1>7, <1>8, PlainKeeps

\* A failed append is caught, and its tails stay unmarked.
LEMMA TailFailsKeeps ==
  ASSUME IInv, TailFails
  PROVE  IInv'
<1> USE DEF sessions, walk, batches, tails, pool, server
<1>1. TypeOK /\ at \in Session /\ Session \subseteq Nat /\ op # "failed"
  <2>1. TypeOK /\ op # "failed"
    BY DEF IInv, TailFails
  <2> QED
    BY <2>1 DEF TypeOK, Session
<1>2. TypeOK'
  BY <1>1, WalkTyped DEF Walk
<1>3. /\ kind[at] = "tail" /\ op = "conversation"
      /\ \/ op' = "conversation" /\ at' = at + 1
         \/ op' = "appends" /\ at' = at /\ at = N
  BY <1>1, NextSessionTyped DEF TailFails
<1>4. hand = NoBatch /\ hand' = NoBatch
  BY <1>3 DEF TailFails, IInv, HandMatches, Hands
<1>5. /\ UNCHANGED <<sessions, batch, inflight, poolError, dropped, overlooked>>
      /\ acked \subseteq acked' /\ \A f \in Field : stored[f] \subseteq stored'[f]
  BY <1>1 DEF TailFails, TypeOK
<1>6. (\A s \in Session : PastConversation(s) => PastConversation(s)') /\ Advances
  BY <1>1, <1>2, <1>3 DEF TailFails, Advances, Lost, PastConversation,
     PastFindings, PastDerived, IInv, TailsKnown, TypeOK
<1>7. Drained'
  BY <1>1, <1>3, <1>5 DEF IInv, Drained, Drains
<1>8. TailsKnown'
  BY <1>1, <1>3, <1>5, <1>6 
     DEF TailFails, IInv, TailsKnown, PastConversation, TypeOK, Field
<1> QED
  BY <1>1, <1>2, <1>4, <1>5, <1>6, <1>7, <1>8, PlainKeeps

\* A session without findings.
LEMMA NoFindingsKeeps ==
  ASSUME IInv, NoFindings
  PROVE  IInv'
<1> USE DEF sessions, walk, batches, tails, pool, server
<1>1. TypeOK /\ at \in Session /\ Session \subseteq Nat /\ op # "failed"
  <2>1. TypeOK /\ op # "failed"
    BY DEF IInv, NoFindings
  <2> QED
    BY <2>1 DEF TypeOK, Session
<1>2. TypeOK'
  BY <1>1, WalkTyped DEF Walk
<1>3. /\ at \notin leaks /\ op = "findings"
      /\ \/ kind[at] = "full" /\ op' = "derived" /\ at' = at
         \/ kind[at] # "full" /\ op' = "conversation" /\ at' = at + 1
         \/ kind[at] # "full" /\ op' = "appends" /\ at' = at /\ at = N
  BY <1>1, NextSessionTyped DEF NoFindings, Goto
<1>4. hand = NoBatch /\ hand' = NoBatch
  BY <1>3 DEF NoFindings, Goto, IInv, HandMatches, Hands
<1>5. /\ UNCHANGED <<sessions, batch, inflight, poolError, dropped, overlooked>>
      /\ acked \subseteq acked' /\ \A f \in Field : stored[f] \subseteq stored'[f]
  BY <1>1 DEF NoFindings, Goto, TypeOK
<1>6. (\A s \in Session : PastConversation(s) => PastConversation(s)') /\ Advances
  BY <1>1, <1>2, <1>3 DEF NoFindings, Goto, Advances, Lost, PastConversation,
     PastFindings, PastDerived, IInv, TailsKnown, TypeOK
<1>7. Drained'
  BY <1>1, <1>3, <1>5 DEF IInv, Drained, Drains
<1>8. TailsKnown'
  BY <1>1, <1>3, <1>5, <1>6 
     DEF NoFindings, Goto, IInv, TailsKnown, PastConversation, TypeOK, Field
<1> QED
  BY <1>1, <1>2, <1>4, <1>5, <1>6, <1>7, <1>8, PlainKeeps

\* The last append batch.
LEMMA FlushAppendsKeeps ==
  ASSUME IInv, FlushAppends
  PROVE  IInv'
<1> USE DEF sessions, walk, batches, tails, pool, server
<1>1. TypeOK /\ at \in Session /\ Session \subseteq Nat /\ op # "failed"
  <2>1. TypeOK /\ op # "failed"
    BY DEF IInv, FlushAppends
  <2> QED
    BY <2>1 DEF TypeOK, Session
<1>2. TypeOK'
  BY <1>1, WalkTyped DEF Walk
<1>3. op = "appends" /\ op' = "conversations" /\ at' = at
  BY DEF FlushAppends, Append, Goto
<1>4. hand = NoBatch /\ hand' = NoBatch
  BY <1>3 DEF FlushAppends, Append, Goto, IInv, HandMatches, Hands
<1>5. /\ UNCHANGED <<sessions, batch, inflight, poolError, dropped, overlooked>>
      /\ acked \subseteq acked' /\ \A f \in Field : stored[f] \subseteq stored'[f]
  BY <1>1 DEF FlushAppends, Append, Goto, TypeOK
<1>6. (\A s \in Session : PastConversation(s) => PastConversation(s)') /\ Advances
  BY <1>1, <1>2, <1>3 DEF FlushAppends, Append, Goto, Advances, Lost, PastConversation,
     PastFindings, PastDerived, IInv, TailsKnown, TypeOK
<1>7. Drained'
  BY <1>1, <1>3, <1>5 DEF IInv, Drained, Drains
<1>8. TailsKnown'
  BY <1>1, <1>3, <1>5, <1>6 
     DEF FlushAppends, Append, Goto, IInv, TailsKnown, PastConversation, TypeOK, Field
<1> QED
  BY <1>1, <1>2, <1>4, <1>5, <1>6, <1>7, <1>8, PlainKeeps

\* The last append batch fails, and the walk with it.
LEMMA FlushFailsKeeps ==
  ASSUME IInv, FlushFails
  PROVE  IInv'
<1> USE DEF sessions, walk, batches, tails, pool, server
<1>1. TypeOK /\ at \in Session /\ Session \subseteq Nat /\ op # "failed"
  <2>1. TypeOK /\ op # "failed"
    BY DEF IInv, FlushFails
  <2> QED
    BY <2>1 DEF TypeOK, Session
<1>2. TypeOK'
  BY <1>1, WalkTyped DEF Walk
<1>3. op = "appends" /\ op' = "failed" /\ at' = at
  BY DEF FlushFails, Throw, Goto
<1>4. hand = NoBatch /\ hand' = NoBatch
  BY <1>3 DEF FlushFails, Throw, Goto, IInv, HandMatches, Hands
<1>5. /\ UNCHANGED <<sessions, batch, inflight, poolError, dropped, overlooked>>
      /\ acked \subseteq acked' /\ \A f \in Field : stored[f] \subseteq stored'[f]
  BY <1>1 DEF FlushFails, Throw, Goto, TypeOK
<1>6. (\A s \in Session : PastConversation(s) => PastConversation(s)') /\ Advances
  BY <1>1, <1>2, <1>3 DEF FlushFails, Throw, Goto, Advances, Lost, PastConversation,
     PastFindings, PastDerived, IInv, TailsKnown, TypeOK
<1>7. Drained'
  BY <1>1, <1>3, <1>5 DEF IInv, Drained, Drains
<1>8. TailsKnown'
  BY <1>1, <1>3, <1>5, <1>6 
     DEF FlushFails, Throw, Goto, IInv, TailsKnown, PastConversation, TypeOK, Field
<1> QED
  BY <1>1, <1>2, <1>4, <1>5, <1>6, <1>7, <1>8, PlainKeeps

\* The last barrier.
LEMMA SettleKeeps ==
  ASSUME IInv, Settle
  PROVE  IInv'
<1> USE DEF sessions, walk, batches, tails, pool, server
<1>1. TypeOK /\ at \in Session /\ Session \subseteq Nat /\ op # "failed"
  <2>1. TypeOK /\ op # "failed"
    BY DEF IInv, Settle
  <2> QED
    BY <2>1 DEF TypeOK, Session
<1>2. TypeOK'
  BY <1>1, WalkTyped DEF Walk
<1>3. /\ op = "settle" /\ at' = at /\ inflight = {}
      /\ op' = "failed" \/ (op' = "done" /\ ~poolError)
  BY DEF Settle, Throw, Goto
<1>4. hand = NoBatch /\ hand' = NoBatch
  BY <1>3 DEF Settle, Throw, Goto, IInv, HandMatches, Hands
<1>5. /\ UNCHANGED <<sessions, batch, inflight, poolError, dropped, overlooked>>
      /\ acked \subseteq acked' /\ \A f \in Field : stored[f] \subseteq stored'[f]
  BY <1>1 DEF Settle, Throw, Goto, TypeOK
<1>6. (\A s \in Session : PastConversation(s) => PastConversation(s)') /\ Advances
  BY <1>1, <1>2, <1>3 DEF Settle, Throw, Goto, Advances, Lost, PastConversation,
     PastFindings, PastDerived, IInv, TailsKnown, TypeOK
<1>7. Drained'
  BY <1>1, <1>3, <1>5 DEF Settle, Throw, Goto, IInv, Drained, Drains, TypeOK
<1>8. TailsKnown'
  BY <1>1, <1>3, <1>5, <1>6 
     DEF Settle, Throw, Goto, IInv, TailsKnown, PastConversation, TypeOK, Field
<1> QED
  BY <1>1, <1>2, <1>4, <1>5, <1>6, <1>7, <1>8, PlainKeeps

-----------------------------------------------------------------------------
(* Steps that hand a batch over, or add a row *)

\* A batch is handed over, and the walk stays where it is.
LEMMA DrainKeeps ==
  ASSUME IInv, NEW f \in Field, Hands(f), hand = NoBatch, Drain(f),
         UNCHANGED <<sessions, at, op, tails, pool, acked, server, overlooked, fails>>
  PROVE  IInv'
<1> USE DEF sessions, tails, pool, server
<1>0. TypeOK /\ at \in Session
  BY DEF IInv, TypeOK
<1>1. /\ hand' \in Batch /\ hand' # NoBatch
      /\ hand'.field = f /\ hand'.rows = batch[f]
      /\ hand'.ready = (f # "findings")
      /\ batch' \in [Field -> SUBSET Session] /\ batchBytes' \in [Field -> Nat]
      /\ batch'[f] = {}
      /\ \A g \in Field : g # f => batch'[g] = batch[g]
  BY <1>0, DrainTyped
<1>2. TypeOK'
  BY <1>0, <1>1 DEF TypeOK
<1>3. \A g \in Field, s \in Session : Underway(g, s)' <=> Underway(g, s)
  BY <1>0, DrainUnderway
<1>4. HandMatches'
  BY <1>1 DEF HandMatches, Hands
<1>5. Drained'
  BY <1>1 DEF IInv, Drained, Drains, Hands, Field
<1>6. TailsKnown' /\ ServedIsStored' /\ HeadSent' /\ OnlyOverlookedDropped'
  BY DEF IInv, TailsKnown, ServedIsStored, HeadSent, OnlyOverlookedDropped,
         PastConversation, Lost
<1>7. WholeOnly' /\ ConversationSent' /\ DerivedSent'
  BY <1>3 DEF IInv, WholeOnly, ConversationSent, DerivedSent, PastConversation,
              PastDerived, Lost, Field
<1>8. FindingsSent'
  BY <1>0, <1>3 DEF IInv, FindingsSent, PastFindings, Lost, Field, TypeOK
<1>9. FindingsFollow'
  <2>1. \A s \in Session :
           (s \in batch["findings"] \/ InHand("findings", s))' => s \in batch["findings"]
    BY <1>1 DEF InHand, Field
  <2>2. hand'.field = "findings" => ~hand'.ready
    BY <1>1
  <2> QED
    BY <2>1, <2>2 DEF IInv, FindingsFollow, PastConversation
<1> QED
  BY <1>2, <1>4, <1>5, <1>6, <1>7, <1>8, <1>9 DEF IInv

\* The batch of a field is empty, and the drains go on with the next.
LEMMA PassOverKeeps ==
  ASSUME IInv,
         \/ op = "conversations" /\ batch["conversations"] = {} /\ op' = "deriveds"
         \/ op = "deriveds" /\ batch["derived"] = {} /\ op' = "findingses"
         \/ op = "findingses" /\ batch["findings"] = {} /\ op' = "settle",
         hand = NoBatch,
         UNCHANGED <<at, batches, hand, sessions, tails, pool, acked, server, overlooked, fails>>
  PROVE  IInv'
<1> USE DEF sessions, tails, pool, server, batches
<1>0. TypeOK /\ at = N /\ N \in Session
  BY DEF IInv, TypeOK, Drained, Drains
<1>1. TypeOK' /\ op' # "failed" /\ op # "failed"
  BY <1>0 DEF TypeOK, Op
<1>2. \A g \in Field, s \in Session : Underway(g, s)' <=> Underway(g, s)
  BY SameUnderway
<1>3. HandMatches'
  BY DEF HandMatches
<1>4. Drained'
  BY <1>0 DEF IInv, Drained, Drains
<1>5. \A s \in Session :
          /\ PastConversation(s)' <=> PastConversation(s)
          /\ PastFindings(s)' <=> PastFindings(s)
          /\ PastDerived(s)' <=> PastDerived(s)
  BY DEF PastConversation, PastFindings, PastDerived
<1>6. TailsKnown' /\ ServedIsStored' /\ HeadSent' /\ OnlyOverlookedDropped'
  BY <1>0, <1>1, <1>5 DEF IInv, TailsKnown, ServedIsStored, HeadSent, OnlyOverlookedDropped,
         Lost, TypeOK
<1>7. WholeOnly' /\ ConversationSent' /\ DerivedSent'
  BY <1>1, <1>2, <1>5 DEF IInv, WholeOnly, ConversationSent, DerivedSent, Lost, Field
<1>8. FindingsSent'
  BY <1>0, <1>1, <1>2, <1>5 DEF IInv, FindingsSent, Lost, Field, TypeOK
<1>9. FindingsFollow'
  BY <1>5 DEF IInv, FindingsFollow, InHand
<1> QED
  BY <1>1, <1>3, <1>4, <1>6, <1>7, <1>8, <1>9 DEF IInv

\* The last drains.
LEMMA DrainLastKeeps ==
  ASSUME IInv, DrainConversations \/ DrainDerived \/ DrainFindings
  PROVE  IInv'
<1>1. CASE DrainConversations
  BY <1>1, DrainKeeps, PassOverKeeps DEF DrainConversations, DrainLast, Goto, Hands, Field
<1>2. CASE DrainDerived
  BY <1>2, DrainKeeps, PassOverKeeps DEF DrainDerived, DrainLast, Goto, Hands, Field
<1>3. CASE DrainFindings
  BY <1>3, DrainKeeps, PassOverKeeps DEF DrainFindings, DrainLast, Goto, Hands, Field
<1> QED
  BY <1>1, <1>2, <1>3

\* A row is added, and the walk goes on: the three places where rows are added.
LEMMA PushKeeps ==
  ASSUME IInv, NEW f \in Field, Hands(f), hand = NoBatch, Push(f, at),
         \/ op = "conversation" /\ kind[at] = "full" /\ op' = "findings" /\ at' = at
         \/ /\ op = "findings" /\ at \in leaks
            /\ \/ kind[at] = "full" /\ op' = "derived" /\ at' = at
               \/ kind[at] # "full" /\ NextSession
         \/ op = "derived" /\ NextSession,
         UNCHANGED <<sessions, tails, pool, acked, server, overlooked, fails>>
  PROVE  IInv'
<1> USE DEF sessions, tails, pool, server
<1>0. TypeOK /\ at \in Session /\ Session \subseteq Nat /\ leaks \subseteq Session /\ op # "failed"
  BY DEF IInv, TypeOK, Session
<1>1. /\ hand' = NoBatch
      /\ batch' \in [Field -> SUBSET Session] /\ batchBytes' \in [Field -> Nat]
      /\ batch'[f] = batch[f] \cup {at}
      /\ \A g \in Field : g # f => batch'[g] = batch[g]
  BY <1>0, PushTyped
<1>2. \/ op = "conversation" /\ op' = "findings" /\ at' = at
      \/ op = "findings" /\ op' = "derived" /\ at' = at
      \/ op \in {"findings", "derived"} /\ op' = "conversation" /\ at' = at + 1 /\ at' \in Session
      \/ op \in {"findings", "derived"} /\ op' = "appends" /\ at' = at /\ at = N
  BY <1>0, NextSessionTyped
<1>3. TypeOK'
  BY <1>0, <1>1, <1>2 DEF TypeOK, Op
<1>4. \A g \in Field, s \in Session :
          Underway(g, s)' <=> Underway(g, s) \/ (g = f /\ s = at)
  BY <1>0, PushUnderway
<1>5. f = IF op = "conversation" THEN "conversations"
          ELSE IF op = "findings" THEN "findings" ELSE "derived"
  BY <1>2 DEF Hands
<1>6. \A s \in Session :
          /\ PastConversation(s) => PastConversation(s)'
          /\ PastConversation(s)' => PastConversation(s) \/ (s = at /\ op = "conversation")
          /\ PastFindings(s)' =>
                 PastFindings(s) \/ (s = at /\ op = "findings")
          /\ kind[s] = "full" /\ PastDerived(s)' =>
                 PastDerived(s) \/ (s = at /\ op = "derived")
  <2>1. kind[at] = "full" /\ op = "findings" => op' = "derived"
    BY <1>0
  <2> QED
    BY <1>0, <1>2, <2>1 DEF PastConversation, PastFindings, PastDerived
<1>7. HandMatches' /\ Drained'
  BY <1>0, <1>1, <1>2, <1>5 DEF IInv, HandMatches, Drained, Drains
<1>8. TailsKnown' /\ ServedIsStored' /\ OnlyOverlookedDropped'
  BY <1>0, <1>6 DEF IInv, TailsKnown, ServedIsStored, OnlyOverlookedDropped, TypeOK
<1>9. HeadSent'
  <2>1. op = "conversation" => kind[at] = "full"
    BY <1>0
  <2> QED
    BY <1>6, <2>1 DEF IInv, HeadSent, Lost
<1>10. WholeOnly'
  <2>1. op = "conversation" => kind[at] = "full"
    BY <1>0
  <2> QED
    BY <1>4, <1>5, <2>1 DEF IInv, WholeOnly, Field
<1>11. ConversationSent' /\ DerivedSent'
  BY <1>0, <1>4, <1>5, <1>6 DEF IInv, ConversationSent, DerivedSent, Lost, Field
<1>12. FindingsSent'
  BY <1>0, <1>4, <1>5, <1>6 DEF IInv, FindingsSent, Lost, Field
<1>13. FindingsFollow'
  <2>1. f = "findings" => PastConversation(at)
    BY <1>5 DEF PastConversation
  <2>2. \A s \in Session : (s \in batch["findings"] \/ InHand("findings", s))' =>
            s \in batch["findings"] \/ (f = "findings" /\ s = at)
    BY <1>1 DEF InHand, Field
  <2> QED
    BY <1>1, <1>6, <2>1, <2>2 DEF IInv, FindingsFollow
<1> QED
  BY <1>3, <1>7, <1>8, <1>9, <1>10, <1>11, <1>12, <1>13 DEF IInv

\* A row is added, or the full batch handed over first.
LEMMA AddKeeps ==
  ASSUME IInv, AddConversation \/ AddFindings \/ AddDerived
  PROVE  IInv'
<1>0. at \in Session
  BY DEF IInv, TypeOK
<1>1. CASE AddConversation
  BY <1>0, <1>1, DrainKeeps, PushKeeps DEF AddConversation, Add, Goto, Hands, Field
<1>2. CASE AddFindings
  BY <1>0, <1>2, DrainKeeps, PushKeeps DEF AddFindings, Add, Goto, Hands, Field
<1>3. CASE AddDerived
  BY <1>0, <1>3, DrainKeeps, PushKeeps DEF AddDerived, Add, Hands, Field
<1> QED
  BY <1>1, <1>2, <1>3

-----------------------------------------------------------------------------
(* Steps of the pool *)

\* The walk fails, or will: what matters is that no delivery is promised.
LEMMA LostKeeps ==
  ASSUME IInv, poolError, hand # NoBatch, Throw,
         \/ UNCHANGED <<batch, batchBytes>>
         \/ /\ hand.field = "findings"
            /\ batch' = [batch EXCEPT !["findings"] = hand.rows]
            /\ batchBytes' = [batchBytes EXCEPT !["findings"] = hand.bytes],
         UNCHANGED <<sessions, tails, pool, acked, server, overlooked, fails>>
  PROVE  IInv'
<1> USE DEF sessions, tails, pool, server
<1>0. TypeOK /\ at \in Session /\ Session \subseteq Nat /\ leaks \subseteq Session
  BY DEF IInv, TypeOK, Session
<1>1. hand \in Batch /\ hand.rows \subseteq Session /\ hand.bytes \in Nat
  BY <1>0 DEF TypeOK, Batch
<1>2. /\ hand' = NoBatch /\ at' \in Session
      /\ \/ op' = "failed" /\ at' = at
         \/ /\ op \in {"derived", "findings"}
            /\ \/ op' = "conversation" /\ at' = at + 1
               \/ op' = "appends" /\ at' = at /\ at = N
  BY <1>0, ThrowTyped, NextSessionTyped
<1>3. batch' \in [Field -> SUBSET Session] /\ batchBytes' \in [Field -> Nat]
  BY <1>0, <1>1 DEF TypeOK
<1>4. TypeOK'
  BY <1>0, <1>2, <1>3 DEF TypeOK, Op
<1>5. Lost'
  BY DEF Lost
<1>6. op # "conversation" => \A s \in Session : PastConversation(s) => PastConversation(s)'
  BY <1>0, <1>2 DEF PastConversation
<1>7. \A s \in Session : PastConversation(s) => PastConversation(s)'
  BY <1>0, <1>2 DEF PastConversation
<1>8. HandMatches' /\ Drained'
  BY <1>0, <1>2 DEF IInv, HandMatches, Drained, Drains
<1>9. TailsKnown' /\ ServedIsStored' /\ OnlyOverlookedDropped'
  BY <1>0, <1>7 DEF IInv, TailsKnown, ServedIsStored, OnlyOverlookedDropped, TypeOK
<1>10. ConversationSent' /\ HeadSent' /\ FindingsSent' /\ DerivedSent'
  BY <1>5 DEF ConversationSent, HeadSent, FindingsSent, DerivedSent
<1>11. batch'["conversations"] = batch["conversations"]
  BY <1>0 DEF TypeOK, Field
<1>12. WholeOnly'
  BY <1>2, <1>11 DEF IInv, WholeOnly, Underway, InHand, InFlight
<1>13. FindingsFollow'
  <2>1. \A s \in Session : (s \in batch["findings"] \/ InHand("findings", s))' =>
            s \in batch["findings"] \/ InHand("findings", s)
    BY <1>0, <1>2 DEF InHand, TypeOK, Field
  <2> QED
    BY <1>2, <1>7, <2>1 DEF IInv, FindingsFollow
<1> QED
  BY <1>4, <1>8, <1>9, <1>10, <1>12, <1>13 DEF IInv

\* Behind the barrier, all that was in flight has landed.
LEMMA BarrierKeeps ==
  ASSUME IInv, Barrier
  PROVE  IInv'
<1>0. TypeOK /\ hand # NoBatch /\ Hands(hand.field) /\ hand.field = "findings" /\ inflight = {}
  BY DEF IInv, HandMatches, Barrier
<1>1. CASE poolError
  BY <1>0, <1>1, LostKeeps DEF Barrier, sessions, tails, pool, server
<1>2. CASE ~poolError
  <2> USE DEF sessions, tails, pool, server, batches
  <2>1. hand \in Batch /\ hand.rows \subseteq Session
    BY <1>0 DEF TypeOK, Batch
  <2>2. /\ hand' \in Batch /\ hand' # NoBatch
        /\ hand'.field = hand.field /\ hand'.rows = hand.rows /\ hand'.ready
        /\ UNCHANGED <<at, op, batch, batchBytes, inflight>>
    BY <1>2, <2>1, NoBatchAssumption DEF Barrier, Batch
  <2>3. TypeOK'
    BY <1>2, <1>0, <2>2 DEF Barrier, TypeOK
  <2>4. \A g \in Field, s \in Session : Underway(g, s)' <=> Underway(g, s)
    BY <1>0, <2>2 DEF Underway, InHand, InFlight
  <2>5. HandMatches' /\ Drained'
    BY <1>2, <1>0, <2>2 DEF Barrier, IInv, HandMatches, Hands, Drained
  <2>6. TailsKnown' /\ ServedIsStored' /\ HeadSent' /\ OnlyOverlookedDropped'
    BY <1>2, <2>2 DEF Barrier, IInv, TailsKnown, ServedIsStored, HeadSent,
           OnlyOverlookedDropped, PastConversation, Lost
  <2>7. WholeOnly' /\ ConversationSent' /\ DerivedSent'
    BY <1>2, <2>2, <2>4 DEF Barrier, IInv, WholeOnly, ConversationSent, DerivedSent,
           PastConversation, PastDerived, Lost, Field
  <2>8. FindingsSent'
    BY <1>0, <1>2, <2>2, <2>4 DEF Barrier, IInv, FindingsSent, PastFindings, Lost, Field, TypeOK
  <2>9. hand.rows \subseteq stored["conversations"] \cup batch["conversations"]
    <3>1. SUFFICES ASSUME NEW s \in hand.rows
                   PROVE  s \in stored["conversations"] \cup batch["conversations"]
      OBVIOUS
    <3>2. s \in Session /\ PastConversation(s)
      BY <1>0, <2>1 DEF IInv, FindingsFollow, InHand
    <3>3. ~Lost
      BY <1>0, <1>2 DEF Lost, Hands
    <3>4. Underway("conversations", s) => s \in batch["conversations"]
      BY <1>0 DEF Underway, InHand, InFlight
    <3>5. kind[s] \in {"full", "head", "tail"}
      BY <1>0, <3>2 DEF TypeOK, Kind
    <3> QED
      BY <3>2, <3>3, <3>4, <3>5 DEF IInv, ConversationSent, HeadSent, TailsKnown
  <2>10. FindingsFollow'
    <3>1. \A s \in Session : InHand("findings", s)' <=> InHand("findings", s)
      BY <1>0, <2>2 DEF InHand
    <3> QED
      BY <1>0, <1>2, <2>2, <2>9, <3>1 DEF Barrier, IInv, FindingsFollow, PastConversation
  <2> QED
    BY <2>3, <2>5, <2>6, <2>7, <2>8, <2>10 DEF IInv
<1> QED
  BY <1>1, <1>2

\* A batch is posted. Findings become overlooked when their conversation is still in its batch.
LEMMA SubmitKeeps ==
  ASSUME IInv, Submit
  PROVE  IInv'
<1> USE DEF sessions, tails, pool, server, batches
<1>0. TypeOK /\ hand # NoBatch /\ Hands(hand.field) /\ hand.ready
  BY DEF IInv, HandMatches, Submit
<1>1. TypeOK'
  BY <1>0, WalkTyped DEF Walk
<1>2. /\ hand' = NoBatch
      /\ UNCHANGED <<at, op, batch, kind, leaks, appends, poolError, acked, stored, dropped>>
  BY DEF Submit
<1>3. PICK q : /\ q.batch = hand /\ q.served = FALSE
               /\ inflight' = inflight \cup {q}
  <2>1. /\ [batch |-> hand, served |-> FALSE].batch = hand
        /\ [batch |-> hand, served |-> FALSE].served = FALSE
    OBVIOUS
  <2> QED
    BY <2>1 DEF Submit
<1>4. \A g \in Field, s \in Session : Underway(g, s)' <=> Underway(g, s)
  BY <1>0, SubmitUnderway
<1>5. HandMatches' /\ Drained'
  BY <1>0, <1>2 DEF IInv, HandMatches, Hands, Drained, Drains
<1>6. TailsKnown' /\ HeadSent' /\ ServedIsStored'
  BY <1>2, <1>3 DEF IInv, TailsKnown, HeadSent, ServedIsStored, PastConversation, Lost
<1>7. WholeOnly' /\ ConversationSent' /\ DerivedSent'
  BY <1>2, <1>4 DEF IInv, WholeOnly, ConversationSent, DerivedSent,
         PastConversation, PastDerived, Lost, Field
<1>8. FindingsSent'
  BY <1>0, <1>2, <1>4 DEF IInv, FindingsSent, PastFindings, Lost, Field, TypeOK
<1>9. /\ overlooked \subseteq overlooked'
      /\ hand.field = "findings" => hand.rows \subseteq stored["conversations"] \cup overlooked'
  BY <1>0 DEF Submit, IInv, FindingsFollow
<1>10. FindingsFollow'
  <2>1. \A s \in Session : (s \in batch["findings"] \/ InHand("findings", s))' => s \in batch["findings"]
    BY <1>2 DEF InHand
  <2>2. \A r \in inflight' : r.batch.field = "findings" =>
            r.batch.rows \subseteq stored["conversations"] \cup overlooked'
    BY <1>3, <1>9 DEF IInv, FindingsFollow
  <2> QED
    BY <1>2, <2>1, <2>2 DEF IInv, FindingsFollow, PastConversation
<1>11. OnlyOverlookedDropped'
  BY <1>2, <1>9 DEF IInv, OnlyOverlookedDropped
<1> QED
  BY <1>1, <1>5, <1>6, <1>7, <1>8, <1>10, <1>11 DEF IInv

\* An earlier failure is thrown at the hand-over.
LEMMA SubmitThrowsKeeps ==
  ASSUME IInv, SubmitThrows
  PROVE  IInv'
  BY LostKeeps DEF SubmitThrows, sessions, tails, pool, server, batches

\* The server has taken a request.
LEMMA ServeKeeps ==
  ASSUME IInv, NEW r \in inflight, Serve(r)
  PROVE  IInv'
<1> USE DEF sessions, walk, batches, tails
<1>0. TypeOK /\ r \in Request
  BY DEF IInv, TypeOK
<1>1. TypeOK'
  BY <1>0, PostTyped
<1>2. r.batch \in Batch /\ r.batch.field \in Field
  BY <1>0 DEF Request, Batch
<1>3. PICK q : /\ q.batch = r.batch /\ inflight' = (inflight \ {r}) \cup {q}
  <2>1. [r EXCEPT !.served = TRUE].batch = r.batch
    BY <1>0 DEF Request
  <2> QED
    BY <2>1 DEF Serve
<1>4. /\ \A f \in Field : stored[f] \subseteq stored'[f]
      /\ dropped \subseteq dropped'
      /\ r.batch.rows \subseteq stored'[r.batch.field]
             \cup (IF r.batch.field = "findings" THEN dropped' ELSE {})
      /\ r.batch.field # "findings" => dropped' = dropped
      /\ dropped' \subseteq dropped \cup (r.batch.rows \ stored["conversations"])
  BY <1>0, <1>2 DEF Serve, TypeOK
<1>5. UNCHANGED <<kind, leaks, at, op, batch, appends, hand, poolError, acked, overlooked>>
  BY DEF Serve
<1>6. \A g \in Field, s \in Session : Underway(g, s)' <=> Underway(g, s)
  BY <1>0, MarkUnderway
<1>7. HandMatches' /\ Drained'
  BY <1>5 DEF IInv, HandMatches, Hands, Drained, Drains
<1>8. TailsKnown' /\ HeadSent'
  BY <1>4, <1>5 DEF IInv, TailsKnown, HeadSent, PastConversation, Lost, Field
<1>9. ServedIsStored'
  <2>1. SUFFICES ASSUME NEW x \in inflight', x.served
                 PROVE  x.batch.rows \subseteq stored'[x.batch.field]
                            \cup (IF x.batch.field = "findings" THEN dropped' ELSE {})
    BY DEF ServedIsStored
  <2>2. CASE x \in inflight
    <3>1. x.batch.field \in Field
      BY <1>0, <2>2 DEF TypeOK, Request, Batch
    <3> QED
      BY <1>4, <2>1, <2>2, <3>1 DEF IInv, ServedIsStored
  <2>3. CASE x.batch = r.batch
    BY <1>4, <2>3
  <2> QED
    BY <1>3, <2>2, <2>3
<1>10. WholeOnly' /\ ConversationSent' /\ DerivedSent'
  BY <1>4, <1>5, <1>6 DEF IInv, WholeOnly, ConversationSent, DerivedSent,
         PastConversation, PastDerived, Lost, Field
<1>11. FindingsSent'
  BY <1>0, <1>4, <1>5, <1>6 DEF IInv, FindingsSent, PastFindings, Lost, Field, TypeOK
<1>12. FindingsFollow'
  <2>1. \A x \in inflight' : x.batch.field = "findings" =>
            x.batch.rows \subseteq stored["conversations"] \cup overlooked
    BY <1>3 DEF IInv, FindingsFollow
  <2> QED
    BY <1>4, <1>5, <2>1 DEF IInv, FindingsFollow, InHand, PastConversation, Field
<1>13. OnlyOverlookedDropped'
  BY <1>4, <1>5 DEF IInv, OnlyOverlookedDropped, FindingsFollow
<1> QED
  BY <1>1, <1>7, <1>8, <1>9, <1>10, <1>11, <1>12, <1>13 DEF IInv

\* The reply of a request whose rows are stored.
LEMMA ReplyKeeps ==
  ASSUME IInv, NEW r \in inflight, Reply(r)
  PROVE  IInv'
<1> USE DEF sessions, walk, batches, tails, server
<1>0. TypeOK /\ r \in Request
  BY DEF IInv, TypeOK
<1>1. TypeOK'
  BY <1>0, PostTyped
<1>2. r.batch \in Batch /\ r.batch.field \in Field /\ r.batch.rows \subseteq Session
  BY <1>0 DEF Request, Batch
<1>3. /\ inflight' = inflight \ {r} /\ acked \subseteq acked'
      /\ r.batch.field = "conversations" => acked' = acked \cup r.batch.rows
      /\ r.batch.field # "conversations" => acked' = acked
      /\ UNCHANGED <<kind, leaks, at, op, batch, appends, hand, poolError, stored, dropped,
                     overlooked>>
  BY DEF Reply, Release
<1>4. \A g \in Field, s \in Session :
          /\ Underway(g, s)' => Underway(g, s)
          /\ Underway(g, s) => Underway(g, s)' \/ (g = r.batch.field /\ s \in r.batch.rows)
  BY <1>0, ReplyUnderway
<1>5. r.batch.rows \subseteq stored[r.batch.field]
          \cup (IF r.batch.field = "findings" THEN dropped ELSE {})
  BY DEF IInv, ServedIsStored, Reply
<1>6. \A s \in Session : s \in acked' /\ kind[s] = "tail" => s \in acked
  <2>1. \A s \in r.batch.rows : r.batch.field = "conversations" => kind[s] = "full"
    BY <1>2 DEF IInv, WholeOnly, Underway, InFlight
  <2> QED
    BY <1>3, <2>1
<1>7. HandMatches' /\ Drained'
  BY <1>3 DEF IInv, HandMatches, Hands, Drained, Drains
<1>8. TailsKnown' /\ HeadSent' /\ ServedIsStored'
  BY <1>0, <1>3, <1>6
     DEF IInv, TailsKnown, HeadSent, ServedIsStored, PastConversation, Lost, TypeOK
<1>9. WholeOnly'
  BY <1>3, <1>4 DEF IInv, WholeOnly, Field
<1>10. ConversationSent' /\ DerivedSent'
  BY <1>3, <1>4, <1>5 DEF IInv, ConversationSent, DerivedSent,
         PastConversation, PastDerived, Lost, Field
<1>11. FindingsSent'
  BY <1>0, <1>3, <1>4, <1>5, <1>6 DEF IInv, FindingsSent, PastFindings, Lost, Field, TypeOK
<1>12. FindingsFollow' /\ OnlyOverlookedDropped'
  BY <1>3 DEF IInv, FindingsFollow, InHand, PastConversation, OnlyOverlookedDropped
<1> QED
  BY <1>1, <1>7, <1>8, <1>9, <1>10, <1>11, <1>12 DEF IInv

\* A request is sent again, or given up.
LEMMA RetryKeeps ==
  ASSUME IInv, NEW r \in inflight, Retry(r)
  PROVE  IInv'
<1> USE DEF sessions, walk, batches, tails, server
<1>0. TypeOK /\ r \in Request
  BY DEF IInv, TypeOK
<1>1. TypeOK'
  BY <1>0, PostTyped
<1>2. PICK q : /\ q.batch = r.batch /\ ~q.served /\ inflight' = (inflight \ {r}) \cup {q}
  <2>1. /\ [r EXCEPT !.served = FALSE].batch = r.batch
        /\ ~[r EXCEPT !.served = FALSE].served
    BY <1>0 DEF Request
  <2> QED
    BY <2>1 DEF Retry
<1>3. UNCHANGED <<kind, leaks, at, op, batch, appends, hand, poolError, acked, stored, dropped,
                  overlooked>>
  BY DEF Retry
<1>4. \A g \in Field, s \in Session : Underway(g, s)' <=> Underway(g, s)
  BY <1>0, MarkUnderway
<1>5. HandMatches' /\ Drained'
  BY <1>3 DEF IInv, HandMatches, Hands, Drained, Drains
<1>6. TailsKnown' /\ HeadSent' /\ ServedIsStored'
  BY <1>2, <1>3 DEF IInv, TailsKnown, HeadSent, ServedIsStored, PastConversation, Lost
<1>7. WholeOnly' /\ ConversationSent' /\ DerivedSent'
  BY <1>3, <1>4 DEF IInv, WholeOnly, ConversationSent, DerivedSent,
         PastConversation, PastDerived, Lost, Field
<1>8. FindingsSent'
  BY <1>0, <1>3, <1>4 DEF IInv, FindingsSent, PastFindings, Lost, Field, TypeOK
<1>9. FindingsFollow' /\ OnlyOverlookedDropped'
  BY <1>2, <1>3 DEF IInv, FindingsFollow, InHand, PastConversation, OnlyOverlookedDropped
<1> QED
  BY <1>1, <1>5, <1>6, <1>7, <1>8, <1>9 DEF IInv

\* A request is given up: the walk is going to fail.
LEMMA GiveUpKeeps ==
  ASSUME IInv, NEW r \in inflight, GiveUp(r)
  PROVE  IInv'
<1> USE DEF sessions, walk, batches, tails, server
<1>0. TypeOK'
  BY PostTyped DEF IInv
<1>1. /\ inflight' = inflight \ {r} /\ poolError'
      /\ UNCHANGED <<kind, leaks, at, op, batch, appends, hand, acked, stored, dropped, overlooked>>
  BY DEF GiveUp, Release
<1>2. HandMatches' /\ Drained'
  BY <1>1 DEF IInv, HandMatches, Hands, Drained, Drains
<1>3. TailsKnown' /\ ServedIsStored'
  BY <1>1 DEF IInv, TailsKnown, ServedIsStored, PastConversation
<1>4. WholeOnly'
  BY <1>1 DEF IInv, WholeOnly, Underway, InHand, InFlight
<1>5. ConversationSent' /\ HeadSent' /\ FindingsSent' /\ DerivedSent'
  BY <1>1 DEF ConversationSent, HeadSent, FindingsSent, DerivedSent, Lost
<1>6. FindingsFollow' /\ OnlyOverlookedDropped'
  BY <1>1 DEF IInv, FindingsFollow, InHand, PastConversation, OnlyOverlookedDropped
<1> QED
  BY <1>0, <1>2, <1>3, <1>4, <1>5, <1>6 DEF IInv

-----------------------------------------------------------------------------
(* The theorems *)

\* A walk at its start.
LEMMA InitIInv ==
  ASSUME Init
  PROVE  IInv
<1>1. 1 \in Session
  BY BoundsAssumption DEF Session
<1>2. TypeOK
  <2>1. stored \in [Field -> SUBSET Session] /\ batch \in [Field -> SUBSET Session]
        /\ batchBytes \in [Field -> Nat]
    BY DEF Init
  <2>2. kind \in [Session -> Kind] /\ size \in [Session -> {Small, Large}] /\ leaks \subseteq Session
    BY DEF Init
  <2>3. at \in Session /\ op \in Op
    BY <1>1 DEF Init, Op
  <2>4. /\ appends \subseteq Session /\ appendBytes \in Nat
        /\ hand \in Batch \cup {NoBatch} /\ inflight \subseteq Request
        /\ acked \subseteq Session /\ dropped \subseteq Session /\ overlooked \subseteq Session
    BY DEF Init
  <2>5. inflightBytes \in Int /\ fails \in Nat
    BY DEF Init
  <2>6. poolError \in BOOLEAN
    BY DEF Init
  <2> QED
    BY <2>1, <2>2, <2>3, <2>4, <2>5, <2>6 DEF TypeOK
<1>3. \A s \in Session : ~(s < 1)
  BY DEF Session
<1>4. \A f \in Field, s \in Session : ~Underway(f, s)
  BY DEF Init, Underway, InHand, InFlight
<1>5. \A s \in Session : ~PastConversation(s) /\ ~PastFindings(s) /\ ~PastDerived(s)
  BY <1>3 DEF Init, PastConversation, PastFindings, PastDerived
<1>6. HandMatches /\ Drained /\ WholeOnly /\ ServedIsStored
  BY <1>4 DEF Init, HandMatches, Drained, Drains, WholeOnly, ServedIsStored, Field
<1>7. TailsKnown /\ OnlyOverlookedDropped
  BY DEF Init, TailsKnown, OnlyOverlookedDropped, Field
<1>8. ConversationSent /\ HeadSent /\ FindingsSent /\ DerivedSent
  BY <1>2, <1>5 DEF ConversationSent, HeadSent, FindingsSent, DerivedSent, TypeOK
<1>9. FindingsFollow
  BY DEF Init, FindingsFollow, InHand, Field
<1> QED
  BY <1>2, <1>6, <1>7, <1>8, <1>9 DEF IInv

\* Every step keeps the invariant.
LEMMA NextIInv ==
  ASSUME IInv, [Next]_vars
  PROVE  IInv'
<1>1. CASE Walk
  BY <1>1, AddKeeps, PostHeadKeeps, HeadFailsKeeps, FlushFullAppendsKeeps, AddTailKeeps,
     AddTailAndSendKeeps, TailFailsKeeps, NoFindingsKeeps, FlushAppendsKeeps, FlushFailsKeeps,
     DrainLastKeeps, SettleKeeps, BarrierKeeps, SubmitKeeps, SubmitThrowsKeeps DEF Walk
<1>2. CASE Post
  BY <1>2, ServeKeeps, ReplyKeeps DEF Post
<1>3. CASE \E r \in inflight : Retry(r) \/ GiveUp(r)
  BY <1>3, RetryKeeps, GiveUpKeeps
<1>4. CASE UNCHANGED vars
  BY <1>4 DEF vars, sessions, walk, batches, tails, pool, server, IInv, TypeOK, HandMatches,
     Hands, Drained, TailsKnown, WholeOnly, ServedIsStored, ConversationSent, HeadSent,
     FindingsSent, DerivedSent, FindingsFollow, OnlyOverlookedDropped, Underway, InHand,
     InFlight, Lost, PastConversation, PastFindings, PastDerived
<1> QED
  BY <1>1, <1>2, <1>3, <1>4 DEF Next

\* The inductive invariant: every row the walk has passed is stored, underway,
\* or the walk has failed, and what is underway belongs where it is.
THEOREM Invariance == Spec => []IInv
<1>1. Init => IInv
  BY InitIInv
<1>2. IInv /\ [Next]_vars => IInv'
  BY NextIInv
<1> QED
  BY <1>1, <1>2, PTL DEF Spec

\* Every state is well typed, for any number of sessions and any caps.
THEOREM TypeCorrect == Spec => []TypeOK
<1>1. IInv => TypeOK
  BY DEF IInv
<1> QED
  BY <1>1, Invariance, PTL

\* The server leaves out only findings whose conversation was still in its batch
\* when they were handed over: the barrier covers everything else, whatever
\* overtakes, fails or is repeated (sync-client.ts 1437-1441, 1463-1465).
THEOREM BarrierHolds == Spec => []OnlyOverlookedDropped
<1>1. IInv => OnlyOverlookedDropped
  BY DEF IInv
<1> QED
  BY <1>1, Invariance, PTL

\* A walk that ends without an error has delivered every row it added, although a
\* failure may be thrown where it is caught (sync-client.ts 1375-1379).
THEOREM DoneDelivers == Spec => []DoneMeansDelivered
<1>1. ASSUME IInv, op = "done", NEW s \in Session
      PROVE  /\ kind[s] # "tail" => s \in acked /\ s \in stored["conversations"]
             /\ kind[s] = "full" => s \in stored["derived"]
             /\ s \in acked \cap leaks => s \in stored["findings"] \cup dropped
  <2>1. /\ at = N /\ inflight = {} /\ ~poolError
        /\ \A f \in Field : batch[f] = {}
    BY <1>1 DEF IInv, Drained, Drains, Field
  <2>2. hand = NoBatch
    BY <1>1 DEF IInv, HandMatches, Hands
  <2>3. \A f \in Field : ~Underway(f, s)
    BY <2>1, <2>2 DEF Underway, InHand, InFlight
  <2>4. ~Lost
    BY <1>1, <2>1 DEF Lost
  <2>5. PastConversation(s) /\ PastFindings(s) /\ PastDerived(s)
    BY <1>1, <2>1, BoundsAssumption DEF PastConversation, PastFindings, PastDerived, Session
  <2>6. kind[s] \in {"full", "head", "tail"}
    BY <1>1 DEF IInv, TypeOK, Kind
  <2>7. kind[s] # "tail" => s \in acked /\ s \in stored["conversations"]
    BY <1>1, <2>3, <2>4, <2>5, <2>6 DEF IInv, ConversationSent, HeadSent, Field
  <2>8. kind[s] = "full" => s \in stored["derived"]
    BY <1>1, <2>3, <2>4, <2>5 DEF IInv, DerivedSent, Field
  <2>9. s \in acked \cap leaks => s \in stored["findings"] \cup dropped
    BY <1>1, <2>3, <2>4, <2>5 DEF IInv, FindingsSent, Field
  <2> QED
    BY <2>7, <2>8, <2>9
<1>2. IInv => DoneMeansDelivered
  BY <1>1 DEF DoneMeansDelivered
<1> QED
  BY <1>2, Invariance, PTL

-----------------------------------------------------------------------------
(* The load of the pool *)

Adds == {"conversation", "findings", "derived"}

(* The walk has added the row of session s to the batch of field f.        *)
Added(f, s) ==
    \/ s < at
    \/ /\ s = at
       /\ \/ op \notin Adds
          \/ f = "conversations" /\ op # "conversation"
          \/ f = "findings" /\ op = "derived"

(* A row is added once, and is in one place at a time: no two requests are *)
(* the same, so that each counts.                                          *)
InOnePlace ==
    /\ hand # NoBatch => hand.rows # {}
    /\ \A r \in inflight : r.batch.rows # {}
    /\ \A f \in Field, s \in Session :
          /\ Underway(f, s) => Added(f, s)
          /\ ~(s \in batch[f] /\ InHand(f, s))
          /\ InFlight(f, s) => s \notin batch[f] /\ ~InHand(f, s)
          /\ \A r, q \in inflight :
                /\ r.batch.field = f /\ s \in r.batch.rows
                /\ q.batch.field = f /\ s \in q.batch.rows
                => r = q

\* The rows of a step that only takes some away stay in one place.
LEMMA FewerPlaces ==
  ASSUME InOnePlace, \A f \in Field : batch'[f] \subseteq batch[f],
         hand' \in {hand, NoBatch}, inflight' \subseteq inflight,
         \A f \in Field, s \in Session : Added(f, s) => Added(f, s)'
  PROVE  InOnePlace'
<1>1. \A f \in Field, s \in Session :
          /\ InHand(f, s)' => InHand(f, s)
          /\ InFlight(f, s)' => InFlight(f, s)
          /\ Underway(f, s)' => Underway(f, s)
  BY DEF InHand, InFlight, Underway
<1>2. hand' # NoBatch => hand'.rows # {}
  BY DEF InOnePlace
<1>3. \A r \in inflight' : r.batch.rows # {}
  BY DEF InOnePlace
<1>4. ASSUME NEW f \in Field, NEW s \in Session
      PROVE  /\ Underway(f, s)' => Added(f, s)'
             /\ ~(s \in batch'[f] /\ InHand(f, s)')
             /\ InFlight(f, s)' => s \notin batch'[f] /\ ~InHand(f, s)'
             /\ \A r, q \in inflight' :
                   /\ r.batch.field = f /\ s \in r.batch.rows
                   /\ q.batch.field = f /\ s \in q.batch.rows
                   => r = q
  BY <1>1 DEF InOnePlace
<1> QED
  BY <1>2, <1>3, <1>4 DEF InOnePlace

\* A row that has been added stays so: the walk only moves forward.
LEMMA AddedGrows ==
  ASSUME TypeOK, TypeOK',
         \/ at' = at + 1
         \/ at' = at /\ op' = op
         \/ at' = at /\ op' \notin Adds
         \/ at' = at /\ op = "conversation" /\ op' = "findings"
         \/ at' = at /\ op = "findings" /\ op' = "derived"
  PROVE  \A f \in Field, s \in Session : Added(f, s) => Added(f, s)'
<1>1. at \in Nat /\ at' \in Nat /\ Session \subseteq Nat
  BY BoundsAssumption DEF TypeOK, Session
<1> QED
  BY <1>1 DEF Added, Adds

\* Every step of the walk moves it forward.
LEMMA WalkForward ==
  ASSUME IInv, Walk
  PROVE  \A f \in Field, s \in Session : Added(f, s) => Added(f, s)'
<1> USE DEF sessions, walk, batches, tails, pool, server, Adds
<1>0. TypeOK /\ TypeOK'
  BY WalkTyped DEF IInv
<1>1. ASSUME NextSession
      PROVE  \/ at' = at + 1 /\ op' = "conversation"
             \/ at' = at /\ op' = "appends"
  BY <1>1 DEF NextSession, Goto
<1>2. ASSUME Throw
      PROVE  \/ at' = at + 1 /\ op' = "conversation"
             \/ at' = at /\ op' \in {"appends", "failed"}
  BY <1>1, <1>2 DEF Throw, Goto
<1>3. CASE AddConversation \/ AddFindings \/ AddDerived
  BY <1>0, <1>1, <1>3, AddedGrows DEF AddConversation, AddFindings, AddDerived, Add, Goto
<1>4. CASE PostHead \/ HeadFails
  BY <1>0, <1>2, <1>4, AddedGrows DEF PostHead, HeadFails, Goto
<1>5. CASE FlushFullAppends \/ AddTail \/ AddTailAndSend \/ TailFails
  BY <1>0, <1>1, <1>5, AddedGrows DEF FlushFullAppends, AddTail, AddTailAndSend, TailFails, Goto
<1>6. CASE NoFindings
  BY <1>0, <1>1, <1>6, AddedGrows DEF NoFindings, Goto
<1>7. CASE FlushAppends \/ FlushFails
  BY <1>0, <1>2, <1>7, AddedGrows DEF FlushAppends, FlushFails, Goto
<1>8. CASE DrainConversations \/ DrainDerived \/ DrainFindings
  BY <1>0, <1>8, AddedGrows DEF DrainConversations, DrainDerived, DrainFindings, DrainLast, Goto
<1>9. CASE Settle \/ Barrier
  BY <1>0, <1>2, <1>9, AddedGrows DEF Settle, Barrier, Goto
<1>10. CASE Submit \/ SubmitThrows
  BY <1>0, <1>2, <1>10, AddedGrows DEF Submit, SubmitThrows, Goto
<1> QED
  BY <1>3, <1>4, <1>5, <1>6, <1>7, <1>8, <1>9, <1>10 DEF Walk

\* A batch is handed over.
LEMMA DrainPlaces ==
  ASSUME TypeOK, InOnePlace, NEW f \in Field, hand = NoBatch, batch[f] # {}, Drain(f),
         inflight' = inflight, \A g \in Field, s \in Session : Added(g, s) => Added(g, s)'
  PROVE  InOnePlace'
<1>1. /\ hand' # NoBatch /\ hand'.field = f /\ hand'.rows = batch[f] /\ batch'[f] = {}
      /\ \A g \in Field : g # f => batch'[g] = batch[g]
  BY DrainTyped
<1>2. \A g \in Field, s \in Session : Underway(g, s)' <=> Underway(g, s)
  BY DrainUnderway
<1>3. \A g \in Field, s \in Session :
          /\ InFlight(g, s)' <=> InFlight(g, s)
          /\ InHand(g, s)' => g = f /\ s \in batch[f]
          /\ s \in batch'[g] => g # f /\ s \in batch[g]
  BY <1>1 DEF InFlight, InHand
<1> QED
  BY <1>1, <1>2, <1>3 DEF InOnePlace

\* The row of the session the walk is at is added, for the first time.
LEMMA PushPlaces ==
  ASSUME TypeOK, InOnePlace, NEW f \in Field, NEW t \in Session, hand = NoBatch,
         Push(f, t), ~Added(f, t), Added(f, t)',
         inflight' = inflight, \A g \in Field, s \in Session : Added(g, s) => Added(g, s)'
  PROVE  InOnePlace'
<1>1. /\ hand' = hand /\ batch'[f] = batch[f] \cup {t}
      /\ \A g \in Field : g # f => batch'[g] = batch[g]
  BY PushTyped
<1>2. \A g \in Field, s \in Session : Underway(g, s)' <=> Underway(g, s) \/ (g = f /\ s = t)
  BY PushUnderway
<1>3. \A g \in Field, s \in Session :
          /\ InFlight(g, s)' <=> InFlight(g, s)
          /\ ~InHand(g, s)'
          /\ s \in batch'[g] <=> s \in batch[g] \/ (g = f /\ s = t)
  BY <1>1 DEF InFlight, InHand
<1>4. ~Underway(f, t)
  BY DEF InOnePlace
<1>5. ~InFlight(f, t)
  BY <1>4 DEF Underway
<1>6. ASSUME NEW g \in Field, NEW s \in Session
      PROVE  /\ Underway(g, s)' => Added(g, s)'
             /\ ~(s \in batch'[g] /\ InHand(g, s)')
             /\ InFlight(g, s)' => s \notin batch'[g] /\ ~InHand(g, s)'
  <2>1. Underway(g, s)' => Added(g, s)'
    <3>1. CASE Underway(g, s)
      BY <3>1 DEF InOnePlace
    <3>2. CASE g = f /\ s = t
      BY <3>2
    <3> QED
      BY <1>2, <3>1, <3>2
  <2>2. InFlight(g, s) => s \notin batch[g]
    BY DEF InOnePlace
  <2> QED
    BY <1>3, <1>5, <2>1, <2>2
<1>7. (hand' # NoBatch => hand'.rows # {}) /\ \A r \in inflight' : r.batch.rows # {}
  BY <1>1 DEF InOnePlace
<1>8. \A g \in Field, s \in Session :
          \A r, q \in inflight' :
             /\ r.batch.field = g /\ s \in r.batch.rows
             /\ q.batch.field = g /\ s \in q.batch.rows
             => r = q
  BY DEF InOnePlace
<1> QED
  BY <1>6, <1>7, <1>8 DEF InOnePlace

\* A batch is posted.
LEMMA SubmitPlaces ==
  ASSUME IInv, InOnePlace, Submit
  PROVE  InOnePlace' /\ [batch |-> hand, served |-> FALSE] \notin inflight
<1>0. TypeOK /\ hand # NoBatch /\ hand.field \in Field /\ hand.rows \subseteq Session
  BY DEF IInv, TypeOK, Submit, Batch
<1>1. \A f \in Field, s \in Session : Added(f, s) => Added(f, s)'
  BY WalkForward DEF Walk
<1>2. batch' = batch /\ hand' = NoBatch
  BY DEF Submit, batches
<1>3. PICK q : /\ q = [batch |-> hand, served |-> FALSE] /\ q.batch = hand
               /\ inflight' = inflight \cup {q}
  <2>1. [batch |-> hand, served |-> FALSE].batch = hand
    OBVIOUS
  <2> QED
    BY <2>1 DEF Submit
<1>4. \A f \in Field, s \in Session : Underway(f, s)' <=> Underway(f, s)
  BY <1>0, SubmitUnderway
<1>5. \A f \in Field, s \in Session :
          /\ ~InHand(f, s)'
          /\ InFlight(f, s)' <=> InFlight(f, s) \/ InHand(f, s)
  BY <1>0, <1>2, <1>3 DEF InHand, InFlight
<1>6. \A f \in Field, s \in Session : s \in q.batch.rows /\ q.batch.field = f =>
          \A r \in inflight : ~(r.batch.field = f /\ s \in r.batch.rows)
  BY <1>0, <1>3 DEF InOnePlace, InHand, InFlight
<1>7. InOnePlace'
  <2>1. \A r \in inflight' : r.batch.rows # {}
    BY <1>0, <1>3 DEF InOnePlace
  <2>2. ASSUME NEW f \in Field, NEW s \in Session, NEW r \in inflight', NEW p \in inflight',
               r.batch.field = f, s \in r.batch.rows, p.batch.field = f, s \in p.batch.rows
        PROVE  r = p
    <3>1. CASE r = q \/ p = q
      BY <1>3, <1>6, <2>2, <3>1
    <3>2. CASE r \in inflight /\ p \in inflight
      BY <2>2, <3>2 DEF InOnePlace
    <3> QED
      BY <1>3, <3>1, <3>2
  <2> QED
    BY <1>1, <1>2, <1>4, <1>5, <2>1, <2>2 DEF InOnePlace
<1>8. q \notin inflight
  <2>1. PICK s \in Session : s \in q.batch.rows
    BY <1>0, <1>3 DEF InOnePlace
  <2> QED
    BY <1>0, <1>3, <1>6, <2>1
<1> QED
  BY <1>3, <1>7, <1>8

\* A request is served, or sent again: it is the only one of its rows.
LEMMA MarkPlaces ==
  ASSUME IInv, InOnePlace, NEW r \in inflight, NEW v \in BOOLEAN,
         inflight' = (inflight \ {r}) \cup {[r EXCEPT !.served = v]},
         UNCHANGED <<at, op, batch, hand>>
  PROVE  InOnePlace' /\ [r EXCEPT !.served = v] \notin inflight \ {r}
<1>0. r \in Request /\ r.batch.field \in Field /\ r.batch.rows \subseteq Session
  BY DEF IInv, TypeOK, Request, Batch
<1>1. PICK q : /\ q = [r EXCEPT !.served = v] /\ q.batch = r.batch
               /\ inflight' = (inflight \ {r}) \cup {q}
  BY <1>0 DEF Request
<1>2. \A f \in Field, s \in Session :
          /\ InFlight(f, s)' <=> InFlight(f, s)
          /\ InHand(f, s)' <=> InHand(f, s)
          /\ Underway(f, s)' <=> Underway(f, s)
          /\ Added(f, s)' <=> Added(f, s)
  BY <1>1 DEF InFlight, InHand, Underway, Added
<1>3. \A r1 \in inflight' : r1.batch.rows # {}
  BY <1>1 DEF InOnePlace
<1>4. \A f \in Field, s \in Session :
          \A r1, r2 \in inflight' :
             /\ r1.batch.field = f /\ s \in r1.batch.rows
             /\ r2.batch.field = f /\ s \in r2.batch.rows
             => r1 = r2
  BY <1>1 DEF InOnePlace
<1>5. q \notin inflight \ {r}
  <2>1. PICK s \in Session : s \in r.batch.rows
    BY <1>0 DEF InOnePlace
  <2> QED
    BY <1>0, <1>1, <2>1 DEF InOnePlace
<1>6. InOnePlace'
  BY <1>2, <1>3, <1>4 DEF InOnePlace
<1> QED
  BY <1>1, <1>5, <1>6

(* f gives the bytes of every subset of S: each request adds its own.      *)
IsLoad(f, S) ==
    /\ f \in [SUBSET S -> Int]
    /\ f[{}] = 0
    /\ \A T \in SUBSET S : \A r \in T : f[T] = r.batch.bytes + f[T \ {r}]

\* A function that weighs every subset, whatever order its requests are taken in,
\* weighs the whole set as the fold of the model does, which takes one at a time.
LEMMA LoadIsSum ==
  ASSUME NEW S, IsFiniteSet(S), NEW f, IsLoad(f, S)
  PROVE  MapThenSumSet(LAMBDA r : r.batch.bytes, S) = f[S]
<1> DEFINE Step(g) == [s \in SUBSET S |->
                 IF s = {} THEN 0
                 ELSE LET x == CHOOSE x \in s : TRUE IN x.batch.bytes + g[s \ {x}]]
           fold == CHOOSE g : g = Step(g)
<1>1. MapThenSumSet(LAMBDA r : r.batch.bytes, S) = fold[S]
  BY DEF MapThenSumSet, MapThenFoldSet
<1>2. f = Step(f)
  <2>1. ASSUME NEW T \in SUBSET S, T # {}
        PROVE  f[T] = LET x == CHOOSE x \in T : TRUE IN x.batch.bytes + f[T \ {x}]
    <3> DEFINE x == CHOOSE x \in T : TRUE
    <3>1. x \in T
      BY <2>1
    <3> HIDE DEF x
    <3>2. f[T] = x.batch.bytes + f[T \ {x}]
      BY <3>1 DEF IsLoad
    <3> QED
      BY <3>2 DEF x
  <2>2. \A T \in SUBSET S : f[T] = Step(f)[T]
    BY <2>1 DEF IsLoad
  <2> QED
    BY <2>2 DEF IsLoad
<1>3. fold = Step(fold)
  <2> HIDE DEF Step
  <2>1. \E g : g = Step(g)
    BY <1>2
  <2> QED
    BY <2>1
<1> HIDE DEF fold
<1> DEFINE C == {T \in SUBSET S : fold[T] # f[T]}
<1>4. ASSUME C # {}
      PROVE  FALSE
  <2>1. C \subseteq FiniteSubsetsOf(S)
    BY FS_Subset DEF FiniteSubsetsOf
  <2>2. PICK T \in C : \A U \in C : ~(<<U, T>> \in StrictSubsetOrdering(S))
    BY <1>4, <2>1, FS_StrictSubsetOrderingWellFounded, WFMin
  <2>3. CASE T = {}
    <3>1. fold[T] = 0
      BY <1>3, <2>3
    <3> QED
      BY <2>2, <2>3, <3>1 DEF IsLoad
  <2>4. CASE T # {}
    <3> DEFINE x == CHOOSE x \in T : TRUE
    <3>1. x \in T
      BY <2>4
    <3>2. fold[T] = x.batch.bytes + fold[T \ {x}]
      BY <1>3, <2>2, <2>4
    <3>3. f[T] = x.batch.bytes + f[T \ {x}]
      BY <1>2, <2>2, <2>4
    <3> HIDE DEF x
    <3>4. <<T \ {x}, T>> \in StrictSubsetOrdering(S)
      BY <2>2, <3>1 DEF StrictSubsetOrdering
    <3>5. T \ {x} \notin C
      BY <2>2, <3>4
    <3> QED
      BY <2>2, <3>2, <3>3, <3>5
  <2> QED
    BY <2>3, <2>4
<1> QED
  BY <1>1, <1>4

\* A request more weighs its own bytes more.
LEMMA LoadOfMore ==
  ASSUME NEW S \in SUBSET Request, NEW r \in Request, r \notin S, NEW f, IsLoad(f, S)
  PROVE  \E g : IsLoad(g, S \cup {r}) /\ g[S \cup {r}] = r.batch.bytes + f[S]
<1> DEFINE g == [T \in SUBSET (S \cup {r}) |->
                    IF r \in T THEN r.batch.bytes + f[T \ {r}] ELSE f[T]]
<1>0. \A x \in S \cup {r} : x.batch.bytes \in Int
  BY DEF Request, Batch
<1>1. \A T \in SUBSET (S \cup {r}) : T \ {r} \in SUBSET S /\ (r \notin T => T \in SUBSET S)
  OBVIOUS
<1>2. \A T \in SUBSET (S \cup {r}) : g[T] = IF r \in T THEN r.batch.bytes + f[T \ {r}] ELSE f[T]
  OBVIOUS
<1>3. g \in [SUBSET (S \cup {r}) -> Int]
  <2>1. ASSUME NEW T \in SUBSET (S \cup {r})
        PROVE  (IF r \in T THEN r.batch.bytes + f[T \ {r}] ELSE f[T]) \in Int
    BY <1>0, <1>1 DEF IsLoad
  <2> QED
    BY <2>1
<1>4. g[{}] = 0
  BY <1>2 DEF IsLoad
<1> HIDE DEF g
<1>5. ASSUME NEW T \in SUBSET (S \cup {r}), NEW x \in T
      PROVE  g[T] = x.batch.bytes + g[T \ {x}]
  <2>0. T \ {x} \in SUBSET (S \cup {r})
    OBVIOUS
  <2>1. CASE x = r
    <3>1. g[T] = r.batch.bytes + f[T \ {r}] /\ g[T \ {r}] = f[T \ {r}]
      BY <1>2, <2>0, <2>1
    <3> QED
      BY <2>1, <3>1
  <2>2. CASE x # r /\ r \in T
    <3>1. (T \ {r}) \ {x} = (T \ {x}) \ {r} /\ x \in T \ {r} /\ r \in T \ {x}
      BY <2>2
    <3>2. f[T \ {r}] = x.batch.bytes + f[(T \ {x}) \ {r}]
      BY <1>1, <3>1 DEF IsLoad
    <3>3. g[T] = r.batch.bytes + f[T \ {r}] /\ g[T \ {x}] = r.batch.bytes + f[(T \ {x}) \ {r}]
      BY <1>2, <2>0, <2>2, <3>1
    <3>4. f[(T \ {x}) \ {r}] \in Int /\ x.batch.bytes \in Int /\ r.batch.bytes \in Int
      BY <1>0, <1>1, <2>0 DEF IsLoad
    <3> QED
      BY <3>2, <3>3, <3>4
  <2>3. CASE r \notin T
    <3>1. g[T] = f[T] /\ g[T \ {x}] = f[T \ {x}] /\ T \in SUBSET S
      BY <1>2, <2>0, <2>3
    <3> QED
      BY <3>1 DEF IsLoad
  <2> QED
    BY <2>1, <2>2, <2>3
<1>6. g[S \cup {r}] = r.batch.bytes + f[S]
  <2>1. (S \cup {r}) \ {r} = S
    OBVIOUS
  <2> QED
    BY <1>2, <2>1
<1> QED
  BY <1>3, <1>4, <1>5, <1>6 DEF IsLoad

\* Every finite set of requests can be weighed.
LEMMA LoadExists ==
  ASSUME NEW S \in SUBSET Request, IsFiniteSet(S)
  PROVE  \E f : IsLoad(f, S)
<1> DEFINE C == {T \in SUBSET S : ~\E f : IsLoad(f, T)}
<1>1. ASSUME C # {}
      PROVE  FALSE
  <2>1. C \subseteq FiniteSubsetsOf(S)
    BY FS_Subset DEF FiniteSubsetsOf
  <2>2. PICK T \in C : \A U \in C : ~(<<U, T>> \in StrictSubsetOrdering(S))
    BY <1>1, <2>1, FS_StrictSubsetOrderingWellFounded, WFMin
  <2>3. CASE T = {}
    <3>1. IsLoad([U \in SUBSET T |-> 0], T)
      BY <2>3 DEF IsLoad
    <3> QED
      BY <2>2, <3>1
  <2>4. CASE T # {}
    <3>1. PICK r \in T : TRUE
      BY <2>4
    <3>2. <<T \ {r}, T>> \in StrictSubsetOrdering(S)
      BY <2>2, <3>1 DEF StrictSubsetOrdering
    <3>3. PICK f : IsLoad(f, T \ {r})
      BY <2>2, <3>2
    <3>4. (T \ {r}) \cup {r} = T /\ T \ {r} \in SUBSET Request /\ r \in Request
      BY <2>2
    <3>5. \E g : IsLoad(g, T)
      BY <3>3, <3>4, LoadOfMore
    <3> QED
      BY <2>2, <3>5
  <2> QED
    BY <2>3, <2>4
<1> QED
  BY <1>1

(* The bytes of the requests in S.                                         *)
Load(S) == MapThenSumSet(LAMBDA r : r.batch.bytes, S)

\* Nothing weighs nothing.
LEMMA LoadEmpty == Load({}) = 0
<1>1. PICK f : IsLoad(f, {})
  BY LoadExists, FS_EmptySet
<1> QED
  BY <1>1, LoadIsSum, FS_EmptySet DEF Load, IsLoad

\* A request that was not there adds its bytes.
LEMMA LoadAdded ==
  ASSUME NEW S \in SUBSET Request, IsFiniteSet(S), NEW r \in Request, r \notin S
  PROVE  /\ Load(S) \in Int
         /\ Load(S \cup {r}) = r.batch.bytes + Load(S)
<1>1. PICK f : IsLoad(f, S)
  BY LoadExists
<1>2. PICK g : IsLoad(g, S \cup {r}) /\ g[S \cup {r}] = r.batch.bytes + f[S]
  BY <1>1, LoadOfMore
<1>3. IsFiniteSet(S \cup {r})
  BY FS_AddElement
<1>4. Load(S) = f[S] /\ Load(S \cup {r}) = g[S \cup {r}]
  BY <1>1, <1>2, <1>3, LoadIsSum DEF Load
<1> QED
  BY <1>1, <1>2, <1>4 DEF IsLoad

\* A request that was there takes its bytes away.
LEMMA LoadRemoved ==
  ASSUME NEW S \in SUBSET Request, IsFiniteSet(S), NEW r \in S
  PROVE  Load(S) = r.batch.bytes + Load(S \ {r}) /\ Load(S \ {r}) \in Int
<1>1. /\ IsFiniteSet(S \ {r}) /\ S \ {r} \in SUBSET Request /\ r \in Request
      /\ r \notin S \ {r} /\ (S \ {r}) \cup {r} = S
  BY FS_RemoveElement
<1> QED
  BY <1>1, LoadAdded

(* The pool counts its requests and their bytes as they are.               *)
PoolCounts ==
    /\ IsFiniteSet(inflight)
    /\ inflightBytes = Load(inflight)
    /\ Cardinality(inflight) <= MaxInflight
    /\ inflightBytes <= MaxBytes \/ Cardinality(inflight) = 1

LoadInv == IInv /\ InOnePlace /\ PoolCounts

\* A batch is posted only when there is room, or when it is alone.
LEMMA SubmitCounts ==
  ASSUME IInv, InOnePlace, PoolCounts, Submit
  PROVE  PoolCounts'
<1> DEFINE q == [batch |-> hand, served |-> FALSE]
<1>0. TypeOK /\ MaxInflight \in Nat /\ MaxInflight > 0 /\ MaxBytes \in Nat
  BY BoundsAssumption DEF IInv
<1>1. hand \in Batch /\ hand.bytes \in Nat
  BY <1>0 DEF Submit, TypeOK, Batch
<1>2. q \in Request /\ q.batch.bytes = hand.bytes /\ q \notin inflight
  BY <1>1, SubmitPlaces DEF Request
<1>3. inflight' = inflight \cup {q} /\ inflightBytes' = inflightBytes + hand.bytes
  BY DEF Submit
<1>4. inflight \in SUBSET Request /\ IsFiniteSet(inflight) /\ inflightBytes \in Int
  BY <1>0 DEF TypeOK, PoolCounts
<1> HIDE DEF q
<1>5. /\ IsFiniteSet(inflight') /\ Cardinality(inflight') = Cardinality(inflight) + 1
      /\ Cardinality(inflight) \in Nat
  BY <1>2, <1>3, <1>4, FS_AddElement, FS_CardinalityType
<1>6. Load(inflight') = hand.bytes + Load(inflight) /\ Load(inflight) = inflightBytes
  BY <1>2, <1>3, <1>4, LoadAdded DEF PoolCounts
<1>7. inflightBytes' = Load(inflight')
  BY <1>1, <1>3, <1>4, <1>6
<1>8. CASE inflight = {}
  <2>1. Cardinality(inflight) = 0
    BY <1>8, FS_EmptySet
  <2> QED
    BY <1>0, <1>5, <1>7, <2>1 DEF PoolCounts
<1>9. CASE Cardinality(inflight) < MaxInflight /\ inflightBytes + hand.bytes <= MaxBytes
  BY <1>0, <1>3, <1>5, <1>7, <1>9 DEF PoolCounts
<1> QED
  BY <1>8, <1>9 DEF Submit, Room

\* A request that is served, or sent again, weighs the same.
LEMMA MarkCounts ==
  ASSUME IInv, InOnePlace, PoolCounts, NEW r \in inflight, NEW v \in BOOLEAN,
         inflight' = (inflight \ {r}) \cup {[r EXCEPT !.served = v]},
         UNCHANGED <<at, op, batch, hand, inflightBytes>>
  PROVE  PoolCounts'
<1> DEFINE q == [r EXCEPT !.served = v]
<1>1. /\ r \in Request /\ q \in Request /\ q.batch = r.batch /\ q \notin inflight \ {r}
      /\ inflight \in SUBSET Request /\ inflight \ {r} \in SUBSET Request
  BY MarkPlaces DEF IInv, TypeOK, Request
<1> HIDE DEF q
<1>2. inflight' = (inflight \ {r}) \cup {q}
  BY DEF q
<1>3. IsFiniteSet(inflight) /\ IsFiniteSet(inflight \ {r}) /\ IsFiniteSet(inflight')
  BY <1>2, FS_RemoveElement, FS_AddElement DEF PoolCounts
<1>4. Cardinality(inflight') = Cardinality(inflight)
  <2>1. Cardinality(inflight \ {r}) = Cardinality(inflight) - 1 /\ Cardinality(inflight) \in Nat
    BY <1>3, FS_RemoveElement, FS_CardinalityType
  <2>2. Cardinality((inflight \ {r}) \cup {q}) = Cardinality(inflight \ {r}) + 1
    BY <1>1, <1>3, FS_AddElement
  <2>3. \A c \in Nat : (c - 1) + 1 = c
    OBVIOUS
  <2> QED
    BY <1>2, <2>1, <2>2, <2>3
<1>5. Load(inflight') = Load(inflight)
  <2>1. Load(inflight') = q.batch.bytes + Load(inflight \ {r})
    BY <1>1, <1>2, <1>3, LoadAdded
  <2>2. Load(inflight) = r.batch.bytes + Load(inflight \ {r})
    BY <1>1, <1>3, LoadRemoved
  <2> QED
    BY <1>1, <2>1, <2>2
<1> QED
  BY <1>3, <1>4, <1>5 DEF PoolCounts

\* A request that is answered, or given up, frees what it took.
LEMMA ReleaseCounts ==
  ASSUME TypeOK, PoolCounts, NEW r \in inflight, Release(r)
  PROVE  PoolCounts'
<1>0. MaxInflight \in Nat /\ MaxInflight > 0 /\ MaxBytes \in Nat
  BY BoundsAssumption
<1>1. inflight' = inflight \ {r} /\ inflightBytes' = inflightBytes - r.batch.bytes
  BY DEF Release
<1>2. inflight \in SUBSET Request /\ r \in Request /\ r.batch.bytes \in Nat
  BY DEF TypeOK, Request, Batch
<1>3. /\ IsFiniteSet(inflight) /\ IsFiniteSet(inflight')
      /\ Cardinality(inflight) \in Nat /\ Cardinality(inflight') = Cardinality(inflight) - 1
  BY <1>1, FS_RemoveElement, FS_CardinalityType DEF PoolCounts
<1>4. /\ inflightBytes = Load(inflight) /\ Load(inflight') \in Int
      /\ Load(inflight) = r.batch.bytes + Load(inflight')
  BY <1>1, <1>2, <1>3, LoadRemoved DEF PoolCounts
<1>5. inflightBytes' = Load(inflight') /\ inflightBytes' <= inflightBytes /\ inflightBytes \in Int
  BY <1>1, <1>2, <1>4
<1>6. Cardinality(inflight') <= MaxInflight
  BY <1>0, <1>3 DEF PoolCounts
<1>7. CASE inflightBytes <= MaxBytes
  <2>1. inflightBytes' <= MaxBytes
    BY <1>0, <1>4, <1>5, <1>7
  <2> QED
    BY <1>3, <1>5, <1>6, <2>1 DEF PoolCounts
<1>8. CASE Cardinality(inflight) = 1
  <2>1. inflight' = {}
    BY <1>3, <1>8, FS_EmptySet
  <2>2. inflightBytes' = 0
    BY <1>5, <2>1, LoadEmpty
  <2> QED
    BY <1>0, <1>3, <1>5, <1>6, <2>2 DEF PoolCounts
<1> QED
  BY <1>7, <1>8 DEF PoolCounts

\* Every step of the walk keeps its rows in one place, and the counts of the pool.
LEMMA WalkKeepsLoad ==
  ASSUME LoadInv, Walk
  PROVE  InOnePlace' /\ PoolCounts'
<1> USE DEF sessions, walk, batches, tails, pool, server
<1>0. /\ IInv /\ TypeOK /\ InOnePlace /\ PoolCounts /\ at \in Session
      /\ \A f \in Field, s \in Session : Added(f, s) => Added(f, s)'
  BY WalkForward DEF LoadInv, IInv, TypeOK
<1>1. ASSUME UNCHANGED <<inflight, inflightBytes>>
      PROVE  PoolCounts'
  BY <1>0, <1>1 DEF PoolCounts
<1>2. ASSUME UNCHANGED <<batch, inflight>>, hand' \in {hand, NoBatch}
      PROVE  InOnePlace'
  BY <1>0, <1>2, FewerPlaces
<1>3. ASSUME NEW f \in Field, hand = NoBatch, Drain(f), batch[f] # {}, UNCHANGED inflight
      PROVE  InOnePlace'
  BY <1>0, <1>3, DrainPlaces
<1>4. ASSUME NEW f \in Field, NEW t \in Session, hand = NoBatch, Push(f, t),
             ~Added(f, t), Added(f, t)', UNCHANGED inflight
      PROVE  InOnePlace'
  BY <1>0, <1>4, PushPlaces
<1>5. ASSUME NextSession \/ Throw
      PROVE  \/ at' = at + 1 /\ op' = "conversation"
             \/ at' = at /\ op' \in {"appends", "failed"}
  BY <1>5 DEF Throw, NextSession, Goto
<1>6. PICK t \in Session : t = at /\ t \in Nat /\ ~(t < t) /\ t < t + 1
  BY <1>0, BoundsAssumption DEF Session
<1>7. CASE AddConversation
  <2>1. hand = NoBatch /\ "conversations" \in Field /\ UNCHANGED <<inflight, inflightBytes>>
    BY <1>7 DEF AddConversation, Add, Field
  <2>2. CASE Full("conversations", at)
    BY <1>1, <1>3, <1>7, <2>1, <2>2 DEF AddConversation, Add, Full
  <2>3. CASE ~Full("conversations", at)
    <3>1. ~Added("conversations", t) /\ Added("conversations", t)'
      BY <1>6, <1>7, <2>3 DEF AddConversation, Add, Goto, Added, Adds
    <3> QED
      BY <1>1, <1>4, <1>6, <1>7, <2>1, <2>3, <3>1 DEF AddConversation, Add
  <2> QED
    BY <2>2, <2>3
<1>8. CASE AddFindings
  <2>1. hand = NoBatch /\ "findings" \in Field /\ UNCHANGED <<inflight, inflightBytes>>
    BY <1>8 DEF AddFindings, Add, Field
  <2>2. CASE Full("findings", at)
    BY <1>1, <1>3, <1>8, <2>1, <2>2 DEF AddFindings, Add, Full
  <2>3. CASE ~Full("findings", at)
    <3>1. /\ op = "findings"
          /\ \/ at' = at /\ op' \in {"derived", "appends", "failed"}
             \/ at' = at + 1
      BY <1>5, <1>8, <2>3 DEF AddFindings, Add, Goto
    <3>2. ~Added("findings", t) /\ Added("findings", t)'
      BY <1>6, <3>1 DEF Added, Adds
    <3> QED
      BY <1>1, <1>4, <1>6, <1>8, <2>1, <2>3, <3>2 DEF AddFindings, Add
  <2> QED
    BY <2>2, <2>3
<1>9. CASE AddDerived
  <2>1. hand = NoBatch /\ "derived" \in Field /\ UNCHANGED <<inflight, inflightBytes>>
    BY <1>9 DEF AddDerived, Add, Field
  <2>2. CASE Full("derived", at)
    BY <1>1, <1>3, <1>9, <2>1, <2>2 DEF AddDerived, Add, Full
  <2>3. CASE ~Full("derived", at)
    <3>1. /\ op = "derived"
          /\ \/ at' = at /\ op' \in {"appends", "failed"}
             \/ at' = at + 1
      BY <1>5, <1>9, <2>3 DEF AddDerived, Add, Goto
    <3>2. ~Added("derived", t) /\ Added("derived", t)'
      BY <1>6, <3>1 DEF Added, Adds
    <3> QED
      BY <1>1, <1>4, <1>6, <1>9, <2>1, <2>3, <3>2 DEF AddDerived, Add
  <2> QED
    BY <2>2, <2>3
<1>10. CASE \/ PostHead \/ HeadFails \/ FlushFullAppends \/ AddTail \/ AddTailAndSend
            \/ TailFails \/ NoFindings \/ FlushAppends \/ FlushFails \/ Settle \/ SubmitThrows
  <2>1. UNCHANGED <<batch, inflight, inflightBytes>> /\ hand' \in {hand, NoBatch}
    BY <1>10 DEF PostHead, HeadFails, FlushFullAppends, AddTail, AddTailAndSend, TailFails,
       NoFindings, FlushAppends, FlushFails, Settle, SubmitThrows, Throw
  <2> QED
    BY <1>1, <1>2, <2>1
<1>11. ASSUME NEW f \in Field, NEW o \in Op, NEW next \in Op, DrainLast(o, f, next)
       PROVE  InOnePlace' /\ PoolCounts'
  <2>1. CASE batch[f] = {}
    BY <1>1, <1>2, <1>11, <2>1 DEF DrainLast
  <2>2. CASE batch[f] # {}
    BY <1>1, <1>3, <1>11, <2>2 DEF DrainLast
  <2> QED
    BY <2>1, <2>2
<1>12. CASE DrainConversations \/ DrainDerived \/ DrainFindings
  BY <1>11, <1>12 DEF DrainConversations, DrainDerived, DrainFindings, Field, Op
<1>13. CASE Barrier
  <2>1. hand # NoBatch /\ hand.field \in Field /\ UNCHANGED <<inflight, inflightBytes>>
        /\ inflight = {}
    BY <1>0, <1>13 DEF Barrier, TypeOK, Batch
  <2>2. CASE poolError
    <3>1. /\ hand' = NoBatch
          /\ batch' = [batch EXCEPT ![hand.field] = hand.rows]
      BY <1>13, <2>2 DEF Barrier, Throw
    <3>2. ASSUME NEW f \in Field, NEW s \in Session
          PROVE  /\ Underway(f, s)' => Underway(f, s)
                 /\ ~InHand(f, s)' /\ ~InFlight(f, s)'
      BY <1>0, <2>1, <3>1 DEF InHand, InFlight, Underway, TypeOK
    <3> QED
      BY <1>0, <1>1, <2>1, <3>1, <3>2 DEF InOnePlace
  <2>3. CASE ~poolError
    <3>1. /\ hand' = [hand EXCEPT !.ready = TRUE] /\ batch' = batch
          /\ hand \in Batch
      BY <1>0, <1>13, <2>3 DEF Barrier, TypeOK
    <3>2. hand'.rows = hand.rows /\ hand'.field = hand.field
      BY <3>1 DEF Batch
    <3>3. ASSUME NEW f \in Field, NEW s \in Session
          PROVE  /\ InHand(f, s)' => InHand(f, s)
                 /\ Underway(f, s)' => Underway(f, s)
                 /\ ~InFlight(f, s)'
      BY <2>1, <3>1, <3>2 DEF InHand, InFlight, Underway
    <3> QED
      BY <1>0, <1>1, <2>1, <3>1, <3>2, <3>3 DEF InOnePlace
  <2> QED
    BY <2>2, <2>3
<1>14. CASE Submit
  BY <1>0, <1>14, SubmitPlaces, SubmitCounts
<1> QED
  BY <1>7, <1>8, <1>9, <1>10, <1>12, <1>13, <1>14 DEF Walk

\* So do the requests beside it.
LEMMA PostKeepsLoad ==
  ASSUME LoadInv, NEW r \in inflight, Serve(r) \/ Reply(r) \/ Retry(r) \/ GiveUp(r)
  PROVE  InOnePlace' /\ PoolCounts'
<1> USE DEF sessions, walk, batches, tails, pool, server
<1>0. IInv /\ TypeOK /\ InOnePlace /\ PoolCounts
  BY DEF LoadInv, IInv
<1>1. CASE Serve(r) \/ Retry(r)
  <2>1. UNCHANGED <<at, op, batch, hand, inflightBytes>>
    BY <1>1 DEF Serve, Retry
  <2>2. PICK v \in BOOLEAN : inflight' = (inflight \ {r}) \cup {[r EXCEPT !.served = v]}
    BY <1>1 DEF Serve, Retry
  <2> QED
    BY <1>0, <2>1, <2>2, MarkPlaces, MarkCounts
<1>2. CASE Reply(r) \/ GiveUp(r)
  <2>1. UNCHANGED <<at, op, batch, hand>> /\ Release(r)
    BY <1>2 DEF Reply, GiveUp
  <2>2. InOnePlace'
    BY <1>0, <2>1, FewerPlaces DEF Release, Added
  <2> QED
    BY <1>0, <2>1, <2>2, ReleaseCounts
<1> QED
  BY <1>1, <1>2

\* What is in flight is bounded in bytes, not only in requests, except for one item
\* that is larger by itself, and the counter is what is there, whatever succeeded,
\* failed or was repeated (sync-client.ts 1381-1391).
THEOREM LoadBounded == Spec => []LoadIsBounded
<1>1. Init => LoadInv
  <2>1. ASSUME Init
        PROVE  InOnePlace /\ PoolCounts
    <3>1. \A f \in Field, s \in Session : ~Underway(f, s)
      BY <2>1 DEF Init, Underway, InHand, InFlight
    <3>2. InOnePlace
      BY <2>1, <3>1 DEF Init, InOnePlace, Underway
    <3>3. IsFiniteSet(inflight) /\ Cardinality(inflight) = 0 /\ Load(inflight) = 0
      BY <2>1, FS_EmptySet, LoadEmpty DEF Init
    <3>4. inflightBytes = 0 /\ MaxInflight \in Nat /\ MaxBytes \in Nat
      BY <2>1, BoundsAssumption DEF Init
    <3> QED
      BY <3>2, <3>3, <3>4 DEF PoolCounts
  <2> QED
    BY <2>1, InitIInv DEF LoadInv
<1>2. LoadInv /\ [Next]_vars => LoadInv'
  <2>1. ASSUME LoadInv, [Next]_vars
        PROVE  InOnePlace' /\ PoolCounts'
    <3>1. CASE UNCHANGED vars
      BY <2>1, <3>1 DEF vars, walk, batches, pool, LoadInv, InOnePlace, PoolCounts,
         Underway, InHand, InFlight, Added
    <3> QED
      BY <2>1, <3>1, WalkKeepsLoad, PostKeepsLoad DEF Next, Post
  <2> QED
    BY <2>1, NextIInv DEF LoadInv
<1>3. LoadInv => LoadIsBounded
  BY DEF LoadInv, PoolCounts, LoadIsBounded, Load
<1> QED
  BY <1>1, <1>2, <1>3, PTL DEF Spec
=============================================================================
