------------------------ MODULE SessionDelivery_proofs ------------------------
(***************************************************************************)
(* Proofs about SessionSync for a transcript that is only appended to      *)
(* (MaxRewrites = 0): that a session every later pass skips is on the      *)
(* server, that the server keeps what it holds, and that the session       *)
(* implements the safety part of TranscriptDelivery.                       *)
(*                                                                         *)
(* Three regimes, each with its own inductive invariant on top of IInv:    *)
(* a session built whole whose archive travels with it, whatever arrives   *)
(* late; one built whole, its archive in parts, with nothing late; and one *)
(* that is always chunked, whatever arrives late.                          *)
(***************************************************************************)
EXTENDS SessionSync_proofs, WellFoundedInduction

\* The requests that may still reach the server, and the rows a pass may start from.
Requests == late \cup ({out} \ {None})
Rows == {row, disk} \ {None}

-----------------------------------------------------------------------------
(* What an acknowledgement writes *)

LEMMA MarkedFields ==
    ASSUME NEW r, NEW k
    PROVE  /\ MarkSynced(r, k).h = k.h
           /\ MarkSynced(r, k).o = IF k.acked THEN k.o ELSE IF r = None THEN 0 ELSE r.o
<1> DEFINE prev == IF r = None THEN BlankRow ELSE r
           o == IF k.acked THEN k.o ELSE prev.o
           covers == (k.acked /\ k.full) \/ (k.acked /\ k.final /\ prev.k)
           head == k.head \/ (prev.k /\ ~covers)
           F == IF covers /\ o > 0 THEN o ELSE prev.F
<1>1. MarkSynced(r, k) = [m |-> k.m, v |-> k.v, o |-> o, h |-> k.h, F |-> F, k |-> head]
  BY Zenon DEF MarkSynced, o, F, head, covers, prev
<1>2. o = IF k.acked THEN k.o ELSE IF r = None THEN 0 ELSE r.o
  BY DEF BlankRow
<1> HIDE DEF o, head, F
<1> QED
  BY <1>1, <1>2

LEMMA PlainMark ==
    ASSUME NEW m, NEW v, NEW h
    PROVE  LET k == Mark(m, v, h) IN
           /\ k.m = m /\ k.v = v /\ k.h = h
           /\ ~k.acked /\ ~k.full /\ ~k.final /\ ~k.head
BY DEF Mark

\* What of a mark counts once its offset is acknowledged.
LEMMA FullMarkFields ==
    ASSUME NEW m, NEW v, NEW h, NEW o
    PROVE  LET k == FullMark(m, v, h, o) IN
           /\ k.m = m /\ k.v = v /\ k.h = h /\ k.o = o
           /\ k.acked /\ k.full /\ ~k.head
BY DEF Mark, FullMark

LEMMA UnchangedMarkFields ==
    ASSUME NEW m, NEW v, NEW h, NEW o
    PROVE  LET k == UnchangedMark(m, v, h, o) IN
           /\ k.m = m /\ k.v = v /\ k.h = h /\ k.o = o
           /\ k.acked /\ ~k.full /\ ~k.final /\ ~k.head
BY DEF Mark, UnchangedMark

LEMMA AppendMarkFields ==
    ASSUME NEW m, NEW v, NEW o, NEW final
    PROVE  LET k == AppendMark(m, v, o, final) IN
           /\ k.m = m /\ k.v = v /\ k.h = None /\ k.o = o
           /\ k.acked /\ ~k.full /\ ~k.head
BY DEF Mark, AppendMark

LEMMA HeadMarkFields ==
    ASSUME NEW m, NEW v, NEW o
    PROVE  LET k == HeadMark(m, v, o) IN
           k.m = m /\ k.v = v /\ k.h = None /\ k.o = o /\ k.acked
BY DEF Mark, HeadMark

LEMMA FullMarked ==
    ASSUME NEW r, NEW k, k.acked, k.full, ~k.head, k.o > 0
    PROVE  MarkSynced(r, k)
             = [m |-> k.m, v |-> k.v, o |-> k.o, h |-> k.h, F |-> k.o, k |-> FALSE]
<1> DEFINE prev == IF r = None THEN BlankRow ELSE r
           head == k.head \/ (prev.k /\ ~((k.acked /\ k.full) \/ (k.acked /\ k.final /\ prev.k)))
<1>1. MarkSynced(r, k) = [m |-> k.m, v |-> k.v, o |-> k.o, h |-> k.h, F |-> k.o, k |-> head]
  BY DEF MarkSynced
<1>2. head = FALSE
  OBVIOUS
<1> HIDE DEF head
<1> QED
  BY <1>1, <1>2

\* A mark that covers nothing leaves the cover of a row that owes nothing.
LEMMA PartMarked ==
    ASSUME NEW r, r # None, ~r.k, NEW k, ~k.full, ~k.head
    PROVE  MarkSynced(r, k)
             = [m |-> k.m, v |-> k.v, o |-> IF k.acked THEN k.o ELSE r.o, h |-> k.h,
                F |-> r.F, k |-> FALSE]
<1> DEFINE o == IF k.acked THEN k.o ELSE r.o
           covers == (k.acked /\ k.full) \/ (k.acked /\ k.final /\ r.k)
           head == k.head \/ (r.k /\ ~covers)
           F == IF covers /\ o > 0 THEN o ELSE r.F
<1>1. MarkSynced(r, k) = [m |-> k.m, v |-> k.v, o |-> o, h |-> k.h, F |-> F, k |-> head]
  BY DEF MarkSynced
<1>2. covers = FALSE
  OBVIOUS
<1>3. head = FALSE /\ F = r.F
  BY <1>2
<1> HIDE DEF head, F
<1> QED
  BY <1>1, <1>3

\* A row that is skipped however quiet the session is has its cursor at the end of
\* the transcript, and was written for the mtime it has now.
LEMMA SkippedRow ==
    ASSUME NEW r \in Row \cup {None}, NEW m \in Nat, NEW size \in Nat, size > 0, NEW v \in Nat,
           SyncMode(r, m, size, v, TRUE) = "skip"
    PROVE  /\ r # None /\ r.m >= m
           /\ r.o = 0 \/ r.o = size
           /\ r.o = 0 \/ r.k \/ FullCoveredOffset(r) >= r.o
<1>1. r # None
  BY DEF SyncMode
<1>2. r \in Row /\ r.o \in Nat /\ r.F \in Nat /\ r.m \in Nat /\ r.v \in Nat /\ r.k \in BOOLEAN
  BY <1>1 DEF Row
<1>3. ~(r.v < v \/ Shrank(r, size))
  BY <1>1 DEF SyncMode
<1>4. ~(r.v >= v /\ Grew(r, size))
  BY <1>1, <1>3 DEF SyncMode
<1>5. ~Settles(r, size, TRUE) /\ r.m >= m
  BY <1>1, <1>3, <1>4 DEF SyncMode
<1>6. r.o = 0 \/ r.o = size
  BY <1>2, <1>3, <1>4 DEF Shrank, Grew
<1>7. FullCoveredOffset(r) \in Nat
  BY <1>2 DEF FullCoveredOffset
<1>8. r.o = 0 \/ r.k \/ FullCoveredOffset(r) >= r.o
  BY <1>2, <1>5, <1>6, <1>7 DEF Settles
<1> QED
  BY <1>1, <1>5, <1>6, <1>8

-----------------------------------------------------------------------------
(* A session that is always built whole (MaxRecords <= BuildMax)            *)

\* A row covers what its hash was taken of, and nothing else covers it.
WholeRow(r) ==
    /\ r.o \in 1..written /\ r.F <= r.o /\ ~r.k
    /\ r.h # None => Counts(r.h) /\ r.m <= Len(r.h)
    /\ r.F >= r.o => r.h # None

\* The conversation, its hash and its listing agree; an append continues the row
\* it was cut for.
WholeRequest ==
    /\ out.kind = "full" =>
          out.hash = out.msgs /\ out.msgs # <<>> /\ out.m <= Len(out.msgs) /\ out.o <= written
    /\ out.kind = "append" =>
          row # None /\ out.base = row.o /\ row.o < out.o /\ out.o <= written

NoHeads == \A q \in Requests : q.kind # "head"
NoRebuild == env # None => env.rebuild = None
RowsWhole == \A r \in Rows : WholeRow(r)
PassWhole ==
    /\ ref.m <= written
    /\ pc \in {"stamp", "send", "replied"} => WholeRequest
    /\ pc = "tail" => row.o < written
    /\ pc = "unchanged" => row.h # None /\ ref.m <= Len(row.h)

\* An append never completes anything here, so a row is covered only while it
\* carries the hash of the conversation that covered it.
WholeInv == NoHeads /\ NoRebuild /\ RowsWhole /\ PassWhole

LEMMA WholeInit == Init => WholeInv
BY DEF Init, WholeInv, NoHeads, NoRebuild, RowsWhole, PassWhole, Requests, Rows, NoRef

\* What the invariants say of the variables a step reads.
LEMMA Facts ==
    ASSUME IInv
    PROVE  /\ written \in Nat \ {0} /\ written <= MaxRecords /\ Size = written /\ mtime = written
           /\ Counts(file) /\ file \in Seq(Nat) /\ file # <<>> /\ file # None
           /\ Merge(shadow, file) = file
           /\ row \in Row \cup {None} /\ disk \in Row \cup {None}
           /\ ver \in Nat /\ ref.m \in Nat
<1>1. /\ Counts(file) /\ Len(file) = written /\ mtime = written /\ written \in 1..MaxRecords
      /\ Counts(shadow) /\ Len(shadow) <= written
  BY DEF IInv, ToolOK, ShadowOK
<1>2. written \in Nat \ {0} /\ written <= MaxRecords
  BY <1>1, BoundsAssumption
<1>3. file \in Seq(Nat) /\ file # <<>> /\ file # None
  BY <1>1, <1>2, NoneAssumption DEF Counts
<1>4. Range(shadow) = 1..Len(shadow) /\ Range(file) = 1..written
  BY <1>1, CountsRange
<1>5. Range(shadow) \subseteq Range(file)
  BY <1>1, <1>4 DEF Counts
<1>6. Merge(shadow, file) = file
  BY <1>5 DEF Merge
<1> QED
  BY <1>1, <1>2, <1>3, <1>6, BoundsAssumption DEF IInv, LedgerOK, PassOK, Size

LEMMA NotOversized == ASSUME IInv, MaxRecords <= BuildMax PROVE ~Oversized
<1>1. written \in Nat /\ written <= MaxRecords /\ Size = written /\ Len(shadow) \in Nat
      /\ Len(shadow) <= written
  BY Facts DEF IInv, ShadowOK, Counts
<1> QED
  BY <1>1, BoundsAssumption, LimitsAssumption DEF Oversized, BuildSize

\* A row stays whole while the transcript grows.
LEMMA WholeRowsStay ==
    ASSUME written \in Nat, written' \in {written, written + 1}
    PROVE  \A r : WholeRow(r) => WholeRow(r)'
BY DEF WholeRow

\* Steps that leave the pass and the server alone.
LEMMA WholeAside ==
    ASSUME IInv, WholeInv, UNCHANGED <<row, pc, ref, out, late, env>>,
           disk' \in {disk, row}, written' \in {written, written + 1}
    PROVE  WholeInv'
<1>1. Requests' = Requests /\ Rows' \subseteq Rows
  BY DEF Requests, Rows
<1>2. written \in Nat /\ ref.m \in Nat
  BY Facts
<1>3. RowsWhole'
  BY <1>1, <1>2, WholeRowsStay DEF WholeInv, RowsWhole
<1>4. NoHeads' /\ NoRebuild'
  BY <1>1 DEF WholeInv, NoHeads, NoRebuild
<1>5. pc \in {"stamp", "send", "replied"} => WholeRequest'
  <2> SUFFICES ASSUME pc \in {"stamp", "send", "replied"} PROVE WholeRequest'
    OBVIOUS
  <2>1. out \in Request /\ out.o \in Nat /\ WholeRequest
    BY DEF IInv, PassOK, Request, WholeInv, PassWhole
  <2>2. out.o <= written => out.o <= written'
    BY <1>2, <2>1
  <2> QED
    BY <2>1, <2>2 DEF WholeRequest
<1>6. pc = "tail" => row.o < written'
  <2> SUFFICES ASSUME pc = "tail" PROVE row.o < written'
    OBVIOUS
  <2>1. row \in Row /\ row.o \in Nat /\ row.o < written
    BY DEF IInv, LedgerOK, Row, WholeInv, PassWhole
  <2> QED
    BY <1>2, <2>1
<1>7. PassWhole'
  BY <1>2, <1>5, <1>6 DEF WholeInv, PassWhole
<1> QED
  BY <1>3, <1>4, <1>7 DEF WholeInv

\* A pass that leaves the session, whatever row it writes.
LEMMA WholeLeft ==
    ASSUME IInv, WholeInv, pc' = "idle", ref' = NoRef, UNCHANGED <<written, env>>,
           Requests' \subseteq Requests,
           \A r \in Rows' : r \in Rows \/ WholeRow(r)
    PROVE  WholeInv'
<1>1. RowsWhole'
  BY DEF WholeInv, RowsWhole, WholeRow
<1>2. ref'.m = 0 /\ written \in Nat
  BY Facts DEF NoRef
<1>3. PassWhole'
  BY <1>2 DEF PassWhole
<1> QED
  BY <1>1, <1>3 DEF WholeInv, NoHeads, NoRebuild

\* A request that is sent again.
LEMMA WholeRetry ==
    ASSUME IInv, WholeInv, pc \in {"send", "replied"}, pc' = "send",
           UNCHANGED <<row, disk, ref, out, written, env>>, Requests' \subseteq Requests
    PROVE  WholeInv'
<1>1. RowsWhole'
  BY DEF WholeInv, RowsWhole, WholeRow, Rows
<1>2. PassWhole'
  BY DEF WholeInv, PassWhole, WholeRequest
<1> QED
  BY <1>1, <1>2 DEF WholeInv, NoHeads, NoRebuild

-----------------------------------------------------------------------------
\* The walk of a session built whole.

LEMMA WholeList == ASSUME IInv, WholeInv, List PROVE WholeInv'
<1>1. ref'.m = written /\ pc' = "listed"
      /\ UNCHANGED <<row, disk, out, late, env, written>>
  BY Facts DEF List, tool, server
<1>2. RowsWhole'
  BY <1>1 DEF WholeInv, RowsWhole, WholeRow, Rows
<1>3. PassWhole'
  BY <1>1, Facts DEF PassWhole
<1> QED
  BY <1>1, <1>2, <1>3 DEF WholeInv, NoHeads, NoRebuild, Requests

LEMMA WholeDecide == ASSUME IInv, WholeInv, Decide PROVE WholeInv'
<1> DEFINE mode == SyncMode(row, ref.m, Size, ver, ref.quiet \/ (quiet /\ ref.m = mtime))
<1>1. UNCHANGED <<row, disk, out, late, env, written>>
  BY DEF Decide, tool, server
<1>2. Requests' = Requests /\ Rows' = Rows
  BY <1>1 DEF Requests, Rows
<1>3. CASE Leave
  BY <1>1, <1>2, <1>3, WholeLeft DEF Leave
<1>4. CASE GoTo("full") \/ (mode = "append" /\ GoTo("tail"))
  <2>1. mode = "append" => Grew(row, Size)
    BY DEF SyncMode
  <2>2. mode = "append" => row.o < written
    BY <2>1, Facts DEF Grew
  <2>3. RowsWhole'
    BY <1>1, <1>2 DEF WholeInv, RowsWhole, WholeRow
  <2>4. PassWhole'
    BY <1>1, <1>4, <2>2 DEF WholeInv, PassWhole, GoTo
  <2> QED
    BY <1>1, <1>2, <2>3, <2>4 DEF WholeInv, NoHeads, NoRebuild
<1> QED
  BY <1>3, <1>4 DEF Decide

LEMMA WholePromote == ASSUME IInv, WholeInv, PromoteTail PROVE WholeInv'
<1>1. pc' = "full" /\ UNCHANGED <<ref, row, disk, out, late, env, written>>
  BY DEF PromoteTail, GoTo, tool, server
<1>2. RowsWhole'
  BY <1>1 DEF WholeInv, RowsWhole, WholeRow, Rows
<1>3. PassWhole'
  BY <1>1 DEF WholeInv, PassWhole
<1> QED
  BY <1>1, <1>2, <1>3 DEF WholeInv, NoHeads, NoRebuild, Requests

LEMMA WholeBuildTail == ASSUME IInv, WholeInv, BuildTail PROVE WholeInv'
<1> DEFINE end == ChunkEnd(row.o)
<1>1. /\ row \in Row /\ row # None /\ row.o \in Nat /\ row.o < written
      /\ written \in Nat /\ Size = written
      /\ UNCHANGED <<disk, late, env, written>>
  BY Facts, NoRowAssumption DEF BuildTail, IInv, LedgerOK, Row, WholeInv, PassWhole, tool, server
<1>2. end \in Nat /\ row.o < end /\ end <= written
  BY <1>1, LimitsAssumption DEF ChunkEnd
<1>3. out' = AppendRequest(end) /\ pc' = "send" /\ UNCHANGED <<row, ref>>
  BY <1>1, <1>2 DEF BuildTail, GoTo
<1>4. out'.kind = "append" /\ out'.base = row.o /\ out'.o = end
  BY <1>3 DEF AppendRequest
<1> HIDE DEF end
<1>5. WholeRequest'
  BY <1>1, <1>2, <1>3, <1>4 DEF WholeRequest
<1>6. RowsWhole'
  BY <1>1, <1>3 DEF WholeInv, RowsWhole, WholeRow, Rows
<1>7. PassWhole'
  BY <1>1, <1>3, <1>5 DEF WholeInv, PassWhole
<1>8. NoHeads'
  BY <1>1, <1>4 DEF WholeInv, NoHeads, Requests
<1> QED
  BY <1>1, <1>6, <1>7, <1>8 DEF WholeInv, NoRebuild

\* The export is the transcript: it is folded into a shadow it contains.
LEMMA WholeBuildFull == ASSUME IInv, WholeInv, BuildFull PROVE WholeInv'
<1>1. /\ UNCHANGED <<row, disk, late, env, written, ref>>
      /\ Counts(file) /\ file \in Seq(Nat) /\ file # <<>> /\ Len(file) = written /\ file # None
  BY Facts DEF BuildFull, GoTo, tool, server, Size
<1>2. RowsWhole'
  BY <1>1 DEF WholeInv, RowsWhole, WholeRow, Rows
<1>3. CASE PriorHash = file /\ GoTo("unchanged") /\ UNCHANGED <<shadow, out>>
  <2>1. row # None /\ row.h = file
    BY <1>1, <1>3 DEF PriorHash
  <2>2. pc' = "unchanged" /\ ref.m <= written
    BY <1>3 DEF GoTo, WholeInv, PassWhole
  <2>3. PassWhole'
    BY <1>1, <2>1, <2>2 DEF PassWhole
  <2> QED
    BY <1>1, <1>2, <1>3, <2>3 DEF WholeInv, NoHeads, NoRebuild, Requests
<1>4. CASE /\ shadow' = Merge(shadow, file)
           /\ out' = FullRequest(shadow', Len(shadow') <= InlineMax)
           /\ GoTo("stamp")
  <2>1. shadow' = file
    BY <1>4, Facts
  <2>2. out'.kind = "full" /\ out'.msgs = file /\ out'.hash = file /\ out'.m = ref.m /\ out'.o = 0
    BY <1>4, <2>1 DEF FullRequest
  <2>3. pc' = "stamp" /\ ref.m <= written /\ written \in Nat
    BY <1>4, Facts DEF GoTo, WholeInv, PassWhole
  <2>4. WholeRequest'
    BY <1>1, <2>2, <2>3 DEF WholeRequest
  <2>5. PassWhole'
    BY <1>1, <2>3, <2>4 DEF PassWhole
  <2>6. NoHeads'
    BY <1>1, <2>2 DEF WholeInv, NoHeads, Requests
  <2> QED
    BY <1>1, <1>2, <2>5, <2>6 DEF WholeInv, NoRebuild
<1> QED
  BY <1>3, <1>4 DEF BuildFull

LEMMA WholeStamp == ASSUME IInv, WholeInv, StampOffset PROVE WholeInv'
<1>1. /\ UNCHANGED <<row, disk, late, env, written, ref>> /\ pc' = "send" /\ pc = "stamp"
      /\ out' = [out EXCEPT !.o = Size] /\ out \in Request /\ out # None
      /\ WholeRequest /\ out.kind = "full"
      /\ Size = written /\ written \in Nat
  BY Facts, NoneAssumption
     DEF StampOffset, GoTo, tool, server, WholeInv, PassWhole, IInv, WireOK, HalfBuilt
<1>2. /\ out'.kind = "full" /\ out'.msgs = out.msgs /\ out'.hash = out.hash /\ out'.m = out.m
      /\ out'.o = written
  BY <1>1 DEF Request
<1>3. WholeRequest'
  BY <1>1, <1>2 DEF WholeRequest
<1>4. RowsWhole'
  BY <1>1 DEF WholeInv, RowsWhole, WholeRow, Rows
<1>5. PassWhole'
  BY <1>1, <1>3 DEF WholeInv, PassWhole
<1>6. NoHeads'
  BY <1>1, <1>2 DEF WholeInv, NoHeads, Requests
<1> QED
  BY <1>1, <1>4, <1>5, <1>6 DEF WholeInv, NoRebuild

\* Content that matches the hash of the row leaves the row covered as it was.
LEMMA WholeRestamp == ASSUME IInv, WholeInv, Restamp PROVE WholeInv'
<1>1. /\ row \in Row /\ row # None /\ WholeRow(row) /\ row.h # None /\ ref.m <= Len(row.h)
      /\ ref.m \in Nat /\ ver \in Nat /\ Size \in Nat /\ Size = written /\ Size > 0
      /\ row.h \in Seq(Nat) \cup {None} /\ row.o \in Nat
  <2>1. row \in Row /\ row # None /\ row.h # None /\ ref.m <= Len(row.h)
    BY NoRowAssumption DEF Restamp, IInv, LedgerOK, WholeInv, PassWhole
  <2>2. WholeRow(row)
    BY <2>1 DEF WholeInv, RowsWhole, Rows
  <2> QED
    BY <2>1, <2>2, Facts DEF Row
<1>2. Leave /\ UNCHANGED <<disk, out, late, env, written>>
  BY DEF Restamp, tool, server
<1>3. /\ row' # None /\ row'.h = row.h /\ row'.m = ref.m /\ row'.F = row.F /\ ~row'.k
      /\ row'.o = row.o \/ (row'.o = Size /\ Size <= row.o)
  <2>1. ~row.k
    BY <1>1 DEF WholeRow
  <2>2. CASE Size <= row.o
    <3> DEFINE k == UnchangedMark(ref.m, ver, row.h, Size)
    <3>1. k.m = ref.m /\ k.h = row.h /\ k.o = Size /\ k.acked /\ ~k.full /\ ~k.head
      <4>1. ref.m \in Nat /\ ver \in Nat /\ row.h \in Seq(Nat) \cup {None} /\ Size \in Nat
        BY <1>1
      <4> QED
        BY UnchangedMarkFields
    <3>2. row' = MarkSynced(row, k)
      BY <2>2 DEF Restamp
    <3>3. row' \in Row
      BY <1>1, <3>2, MarksTyped, MarkSyncedTyped
    <3> HIDE DEF k
    <3>4. row' = [m |-> k.m, v |-> k.v, o |-> IF k.acked THEN k.o ELSE row.o, h |-> k.h,
                  F |-> row.F, k |-> FALSE]
      BY <1>1, <2>1, <3>1, <3>2, PartMarked
    <3> QED
      BY <2>2, <3>1, <3>3, <3>4, NoRowAssumption
  <2>3. CASE ~(Size <= row.o)
    <3> DEFINE k == Mark(ref.m, ver, row.h)
    <3>1. k.m = ref.m /\ k.h = row.h /\ ~k.acked /\ ~k.full /\ ~k.head
      BY PlainMark
    <3>2. row' = MarkSynced(row, k)
      BY <2>3 DEF Restamp
    <3>3. row' \in Row
      BY <1>1, <3>2, MarksTyped, MarkSyncedTyped
    <3> HIDE DEF k
    <3>4. row' = [m |-> k.m, v |-> k.v, o |-> IF k.acked THEN k.o ELSE row.o, h |-> k.h,
                  F |-> row.F, k |-> FALSE]
      BY <1>1, <2>1, <3>1, <3>2, PartMarked
    <3> QED
      BY <2>3, <3>1, <3>3, <3>4, NoRowAssumption
  <2> QED
    BY <2>2, <2>3
<1>4. row'.o = row.o
  BY <1>1, <1>3 DEF WholeRow
<1>5. WholeRow(row')
  BY <1>1, <1>3, <1>4 DEF WholeRow
<1>6. \A r \in Rows' : r \in Rows \/ WholeRow(r)
  BY <1>2, <1>5 DEF Rows
<1>7. Requests' \subseteq Requests
  BY <1>2 DEF Requests
<1> QED
  BY <1>2, <1>6, <1>7, WholeLeft DEF Leave

-----------------------------------------------------------------------------
\* The wire and the acknowledgement of a session built whole.

\* Whatever is served beside heads leaves no rebuild.
LEMMA ServedWhole ==
    ASSUME NEW e, e # None => e.rebuild = None, NEW a, NEW q, q.kind \in {"full", "append"}
    PROVE  LET d == IngestConversation(e, a, q).env IN d # None => d.rebuild = None
<1>1. CASE q.kind = "full"
  <2>1. IngestConversation(e, a, q) = IngestFull(e, a, q)
    BY <1>1 DEF IngestConversation
  <2> QED
    BY <2>1 DEF IngestFull, Outcome
<1>2. CASE q.kind = "append"
  <2>1. IngestConversation(e, a, q) = IngestAppend(e, a, q)
    BY <1>2 DEF IngestConversation
  <2>2. ~ContinuesRebuild(e, q)
    BY DEF ContinuesRebuild
  <2>3. CASE e # None /\ e.o = q.base
    BY <2>1, <2>2, <2>3 DEF IngestAppend, Outcome
  <2>4. CASE ~(e # None /\ e.o = q.base)
    <3>1. IngestAppend(e, a, q) = Outcome(e, a, "resync")
      BY <2>2, <2>4 DEF IngestAppend
    <3> QED
      BY <2>1, <3>1 DEF Outcome
  <2> QED
    BY <2>3, <2>4
<1> QED
  BY <1>1, <1>2

LEMMA ServedNoRebuild ==
    ASSUME IInv, WholeInv, NEW q \in Requests, Served(q)
    PROVE  NoRebuild' /\ q.kind \in {"full", "append"}
<1>1. q.kind # "head"
  BY DEF WholeInv, NoHeads
<1>2. q \in Request
  BY DEF Requests, IInv, PassOK, WireOK, SoundRequest
<1>3. q.kind \in {"full", "append"}
  BY <1>1, <1>2 DEF Request
<1>4. env' = IngestConversation(env, arch, q).env
  BY DEF Served
<1>5. env # None => env.rebuild = None
  BY DEF WholeInv, NoRebuild
<1>6. LET d == IngestConversation(env, arch, q).env IN d # None => d.rebuild = None
  BY <1>3, <1>5, ServedWhole
<1> QED
  BY <1>3, <1>4, <1>6 DEF NoRebuild

LEMMA WholeDeliver == ASSUME IInv, WholeInv, Deliver PROVE WholeInv'
<1>1. /\ pc = "send" /\ pc' = "replied" /\ Served(out) /\ out # None
      /\ UNCHANGED <<row, disk, ref, out, late, written>>
  BY DEF Deliver, GoTo, tool, IInv, PassOK
<1>2. out \in Requests
  BY <1>1 DEF Requests
<1>3. NoRebuild'
  BY <1>1, <1>2, ServedNoRebuild
<1>4. RowsWhole' /\ PassWhole' /\ NoHeads'
  BY <1>1 DEF WholeInv, RowsWhole, WholeRow, Rows, PassWhole, WholeRequest, NoHeads, Requests
<1> QED
  BY <1>3, <1>4 DEF WholeInv

LEMMA WholeLateDeliver == ASSUME IInv, WholeInv, LateDeliver PROVE WholeInv'
<1>1. PICK q \in late : Served(q) /\ late' = late \ {q}
  BY DEF LateDeliver
<1>2. UNCHANGED <<row, disk, pc, ref, out, written>>
  BY DEF LateDeliver, client, tool
<1>3. q \in Requests
  BY <1>1 DEF Requests
<1>4. NoRebuild'
  BY <1>1, <1>3, ServedNoRebuild
<1>5. RowsWhole' /\ PassWhole' /\ NoHeads'
  BY <1>1, <1>2 DEF WholeInv, RowsWhole, WholeRow, Rows, PassWhole, WholeRequest, NoHeads, Requests
<1> QED
  BY <1>4, <1>5 DEF WholeInv

\* An attempt that fails is one to repeat, or the end of the pass.
LEMMA WholeAttempt ==
    ASSUME IInv, WholeInv, AttemptFails, pc \in {"send", "replied"},
           UNCHANGED <<row, disk, written, env>>, late' \subseteq late \cup {out}
    PROVE  WholeInv'
<1>1. out # None
  BY DEF IInv, PassOK
<1>2. CASE Finish
  <2>1. Requests' \subseteq Requests
    BY <1>1, <1>2 DEF Finish, Requests
  <2>2. Rows' = Rows
    BY DEF Rows
  <2> QED
    BY <1>2, <2>1, <2>2, WholeLeft DEF Finish, Leave
<1>3. CASE GoTo("send") /\ UNCHANGED out
  <2>1. Requests' \subseteq Requests
    BY <1>1, <1>3 DEF Requests
  <2> QED
    BY <1>3, <2>1, WholeRetry DEF GoTo
<1> QED
  BY <1>2, <1>3 DEF AttemptFails

LEMMA WholeLose == ASSUME IInv, WholeInv, LoseRequest \/ LoseReply \/ TimeOut PROVE WholeInv'
BY WholeAttempt DEF LoseRequest, LoseReply, TimeOut, tool, server

LEMMA WholeCrash == ASSUME IInv, WholeInv, Crash PROVE WholeInv'
<1>1. /\ pc' = "idle" /\ ref' = NoRef /\ out' = None /\ row' = disk
      /\ UNCHANGED <<disk, written, env>>
      /\ late' \in {late, late \cup {out}} /\ (late' = late \/ pc = "send")
  BY DEF Crash, Finish, Leave, tool, server
<1>2. Requests' \subseteq Requests
  BY <1>1 DEF Requests, IInv, PassOK
<1>3. Rows' \subseteq Rows
  BY <1>1 DEF Rows
<1> QED
  BY <1>1, <1>2, <1>3, WholeLeft

\* A whole conversation that is acknowledged covers the row with its own hash.
LEMMA AckedRow ==
    ASSUME IInv, WholeInv, AckFull
    PROVE  /\ row' # None /\ row'.h = out.hash /\ WholeRow(row')
           /\ out.hash = out.msgs /\ out \in Requests
<1>1. /\ pc = "replied" /\ out.kind = "full" /\ out # None /\ out \in Request /\ WholeRequest
      /\ row' = MarkSynced(row, FullMark(out.m, ver, out.hash, out.o)) /\ row \in Row \cup {None}
  BY Facts DEF AckFull, IInv, PassOK, WholeInv, PassWhole
<1>2. /\ out.m \in Nat /\ ver \in Nat /\ out.o \in Nat /\ out.hash \in Seq(Nat) \cup {None}
      /\ written \in Nat
  BY <1>1, Facts DEF Request
<1>3. /\ out.hash = out.msgs /\ out.msgs # <<>> /\ out.m <= Len(out.msgs) /\ out.o <= written
      /\ Counts(out.msgs) /\ Len(out.msgs) <= out.o
  BY <1>1 DEF WholeRequest, IInv, WireOK, SoundRequest
<1>4. out.o > 0
  <2>1. out.msgs \in Seq(Nat)
    BY <1>3 DEF Counts
  <2>2. Len(out.msgs) \in Nat /\ Len(out.msgs) # 0
    BY <1>3, <2>1
  <2> QED
    BY <1>2, <1>3, <2>2
<1> DEFINE k == FullMark(out.m, ver, out.hash, out.o)
<1>5. k.m = out.m /\ k.h = out.hash /\ k.o = out.o /\ k.acked /\ k.full /\ ~k.head
  BY FullMarkFields
<1>6. k \in MarkType
  BY <1>2, MarksTyped
<1>7. row' = MarkSynced(row, k)
  BY <1>1
<1> HIDE DEF k
<1>8. row' = [m |-> k.m, v |-> k.v, o |-> k.o, h |-> k.h, F |-> k.o, k |-> FALSE]
  BY <1>4, <1>5, <1>7, FullMarked
<1>9. row' # None
  BY <1>1, <1>6, <1>7, MarkSyncedTyped, NoRowAssumption
<1>10. out.hash # None
  BY <1>3, NoneAssumption DEF Counts
<1>11. WholeRow(row')
  BY <1>2, <1>3, <1>4, <1>5, <1>8, <1>10 DEF WholeRow
<1> QED
  BY <1>1, <1>3, <1>5, <1>8, <1>9, <1>11 DEF Requests

LEMMA WholeAckFull == ASSUME IInv, WholeInv, AckFull PROVE WholeInv'
<1>1. WholeRow(row') /\ UNCHANGED <<disk, late, env, written>> /\ pc = "replied"
  BY AckedRow DEF AckFull, tool, server
<1>2. \A r \in Rows' : r \in Rows \/ WholeRow(r)
  BY <1>1 DEF Rows
<1>3. CASE Finish
  <2>1. Requests' \subseteq Requests
    BY <1>1, <1>3 DEF Finish, Requests
  <2> QED
    BY <1>1, <1>2, <1>3, <2>1, WholeLeft DEF Finish, Leave
<1>4. CASE GoTo("upload") /\ UNCHANGED out
  <2>1. RowsWhole'
    BY <1>1, <1>2 DEF RowsWhole, WholeInv, WholeRow
  <2>2. PassWhole'
    BY <1>1, <1>4 DEF PassWhole, WholeInv, GoTo
  <2> QED
    BY <1>1, <1>4, <2>1, <2>2 DEF WholeInv, NoHeads, NoRebuild, Requests
<1> QED
  BY <1>3, <1>4 DEF AckFull

LEMMA NoHeadReplied == ASSUME IInv, WholeInv PROVE ~AckHead
BY DEF AckHead, WholeInv, NoHeads, Requests, IInv, PassOK

\* An append moves the cursor past what is covered, and leaves no hash.
LEMMA AppendedRow ==
    ASSUME IInv, WholeInv, AckAppend, row' # None
    PROVE  row'.h = None /\ WholeRow(row')
<1>1. /\ pc = "replied" /\ out.kind = "append" /\ out \in Request /\ WholeRequest
      /\ row' = MarkSynced(row, AppendMark(out.m, ver, out.o, out.final))
  BY DEF AckAppend, IInv, PassOK, WholeInv, PassWhole
<1>2. /\ out.m \in Nat /\ ver \in Nat /\ out.o \in Nat /\ out.final \in BOOLEAN
      /\ written \in Nat /\ row \in Row /\ row # None /\ row.o < out.o /\ out.o <= written
  BY <1>1, Facts DEF Request, WholeRequest
<1>3. WholeRow(row) /\ row.F \in Nat /\ row.o \in Nat
  BY <1>2 DEF WholeInv, RowsWhole, Rows, Row
<1>4. ~row.k /\ row.F <= row.o
  BY <1>3 DEF WholeRow
<1> DEFINE k == AppendMark(out.m, ver, out.o, out.final)
<1>5. k.h = None /\ k.o = out.o /\ k.acked /\ ~k.full /\ ~k.head
  BY AppendMarkFields
<1>6. row' = MarkSynced(row, k)
  BY <1>1
<1> HIDE DEF k
<1>7. row' = [m |-> k.m, v |-> k.v, o |-> IF k.acked THEN k.o ELSE row.o, h |-> k.h,
              F |-> row.F, k |-> FALSE]
  BY <1>2, <1>4, <1>5, <1>6, PartMarked
<1>8. row'.h = None /\ row'.o = out.o /\ row'.F = row.F /\ ~row'.k
  BY <1>5, <1>7
<1>9. row'.F < row'.o /\ row'.o \in 1..written /\ row'.F <= row'.o /\ ~(row'.F >= row'.o)
  BY <1>2, <1>3, <1>4, <1>8
<1> QED
  BY <1>8, <1>9 DEF WholeRow

LEMMA WholeAckAppend == ASSUME IInv, WholeInv, AckAppend PROVE WholeInv'
<1>1. Finish /\ UNCHANGED <<disk, late, env, written>>
  BY DEF AckAppend, tool, server
<1>2. \A r \in Rows' : r \in Rows \/ WholeRow(r)
  BY <1>1, AppendedRow DEF Rows
<1>3. Requests' \subseteq Requests
  BY <1>1 DEF Finish, Requests
<1> QED
  BY <1>1, <1>2, <1>3, WholeLeft DEF Finish, Leave

\* A row that has lost its cover and its hash covers nothing.
LEMMA ForgottenRow ==
    ASSUME NEW r \in Row, WholeRow(r)
    PROVE  WholeRow(ForgetFullCoverage(r)) /\ ForgetFullCoverage(r).h = None
<1>1. ForgetFullCoverage(r) = [r EXCEPT !.F = 0, !.h = None]
  BY NoRowAssumption DEF ForgetFullCoverage
<1>2. /\ [r EXCEPT !.F = 0, !.h = None].h = None /\ [r EXCEPT !.F = 0, !.h = None].F = 0
      /\ [r EXCEPT !.F = 0, !.h = None].o = r.o /\ [r EXCEPT !.F = 0, !.h = None].k = r.k
  BY DEF Row
<1>3. r.o \in Nat /\ r.o > 0 /\ r.o \in 1..written
  BY DEF WholeRow, Row
<1> QED
  BY <1>1, <1>2, <1>3 DEF WholeRow

LEMMA WholeUpload ==
    ASSUME IInv, WholeInv, UploadParts \/ WalkFails \/ UploadFails
    PROVE  WholeInv'
<1>1. /\ Finish /\ UNCHANGED <<disk, late, env, written>>
      /\ row' = row \/ row' = ForgetFullCoverage(row)
      /\ row \in Row /\ row # None
  BY Facts, NoRowAssumption DEF UploadParts, WalkFails, UploadFails, tool, server, IInv, LedgerOK
<1>2. WholeRow(row)
  BY <1>1 DEF WholeInv, RowsWhole, Rows
<1>3. \A r \in Rows' : r \in Rows \/ WholeRow(r)
  BY <1>1, <1>2, ForgottenRow DEF Rows
<1>4. Requests' \subseteq Requests
  BY <1>1 DEF Finish, Requests
<1> QED
  BY <1>1, <1>3, <1>4, WholeLeft DEF Finish, Leave

LEMMA WholeStep ==
    ASSUME MaxRewrites = 0, MaxRecords <= BuildMax, IInv, WholeInv, [Next]_vars
    PROVE  WholeInv'
<1>1. CASE Write
  BY <1>1, WholeAside DEF Write, client, server
<1>2. CASE GoQuiet \/ Snapshot \/ UNCHANGED vars
  BY <1>2, WholeAside DEF GoQuiet, Snapshot, vars, client, server, tool
<1>3. CASE Flush \/ Upgrade
  BY <1>3, WholeAside DEF Flush, Upgrade, server, tool
<1>4. ~Rewrite /\ ~BuildHead /\ ~AckHead
  BY NoRewrite, NotOversized, NoHeadReplied DEF BuildHead
<1>5. CASE Environment
  BY <1>1, <1>2, <1>3, <1>4, <1>5, WholeCrash DEF Environment
<1>6. CASE Faults
  BY <1>6, WholeLose, WholeUpload DEF Faults
<1>7. CASE Pass
  BY <1>4, <1>7, WholeList, WholeDecide, WholeBuildTail, WholePromote, WholeBuildFull, WholeStamp,
     WholeRestamp, WholeDeliver, WholeAckFull, WholeAckAppend, WholeUpload DEF Pass
<1> QED
  BY <1>2, <1>3, <1>5, <1>6, <1>7, WholeLateDeliver DEF Next

\* A skipped session built whole carries the hash of all of its transcript.
LEMMA SkippedWhole ==
    ASSUME IInv, WholeInv, SkippedForGood
    PROVE  row \in Rows /\ row.h # None /\ Counts(row.h) /\ Len(row.h) >= written
<1>1. SyncMode(row, written, written, ver, TRUE) = "skip"
  BY Facts DEF SkippedForGood
<1>2. row \in Row \cup {None} /\ written \in Nat /\ written > 0 /\ ver \in Nat
  BY Facts
<1>3. /\ row # None /\ row.m >= written /\ (row.o = 0 \/ row.o = written)
      /\ row.o = 0 \/ row.k \/ FullCoveredOffset(row) >= row.o
  BY <1>1, <1>2, SkippedRow
<1>4. row \in Rows /\ WholeRow(row) /\ row \in Row
  BY <1>2, <1>3 DEF Rows, WholeInv, RowsWhole
<1>5. row.o = written /\ FullCoveredOffset(row) >= written
  BY <1>2, <1>3, <1>4 DEF WholeRow
<1>6. row.h # None
  BY <1>2, <1>4, <1>5 DEF WholeRow, FullCoveredOffset
<1>7. Counts(row.h) /\ row.m <= Len(row.h) /\ Len(row.h) \in Nat
  BY <1>4, <1>6 DEF WholeRow, Counts
<1> QED
  BY <1>2, <1>3, <1>4, <1>6, <1>7 DEF Row

-----------------------------------------------------------------------------
(* What a step can do to the requests, the rows and the server              *)

\* Only a build puts a request on the wire that was not there.
LEMMA RequestsStep ==
    ASSUME IInv, [Next]_vars
    PROVE  Requests' \subseteq Requests \/ BuildTail \/ BuildFull \/ StampOffset \/ BuildHead
<1>1. pc \in {"send", "replied", "upload"} => out # None
  BY DEF IInv, PassOK
<1>2. CASE Environment
  <2>1. CASE Crash
    BY <1>1, <2>1 DEF Crash, Finish, Requests
  <2>2. CASE ~Crash
    BY <1>2, <2>2 DEF Environment, Write, Rewrite, GoQuiet, Snapshot, Upgrade, client, Requests
  <2> QED
    BY <2>1, <2>2
<1>3. CASE Faults
  <2>1. CASE AttemptFails /\ late' \subseteq late \cup {out} /\ out # None
    BY <2>1 DEF AttemptFails, Finish, Requests
  <2>2. CASE WalkFails \/ UploadFails
    BY <2>2 DEF WalkFails, UploadFails, Finish, Requests
  <2> QED
    BY <1>1, <1>3, <2>1, <2>2 DEF Faults, LoseRequest, LoseReply, TimeOut
<1>4. CASE List \/ Decide \/ PromoteTail \/ Restamp \/ Deliver
  BY <1>4 DEF List, Decide, PromoteTail, Restamp, Deliver, Requests
<1>5. CASE AckFull \/ AckHead \/ AckAppend \/ UploadParts
  BY <1>5 DEF AckFull, AckHead, AckAppend, UploadParts, Finish, Requests
<1>6. CASE LateDeliver \/ Flush \/ UNCHANGED vars
  BY <1>6 DEF LateDeliver, Flush, vars, client, Requests
<1> QED
  BY <1>2, <1>3, <1>4, <1>5, <1>6 DEF Next, Pass

\* The server changes only when it serves a request or stores an archive in parts.
LEMMA ServerStep ==
    ASSUME [Next]_vars
    PROVE  UNCHANGED server \/ Deliver \/ LateDeliver \/ UploadParts
<1>1. CASE Environment
  BY <1>1 DEF Environment, Write, Rewrite, GoQuiet, Snapshot, Crash, Upgrade
<1>2. CASE Faults
  BY <1>2 DEF Faults, LoseRequest, LoseReply, TimeOut, WalkFails, UploadFails
<1>3. CASE Pass
  BY <1>3 DEF Pass, List, Decide, BuildTail, PromoteTail, BuildFull, StampOffset, BuildHead,
              Restamp, AckFull, AckHead, AckAppend
<1>4. CASE Flush \/ UNCHANGED vars
  BY <1>4 DEF Flush, vars
<1> QED
  BY <1>1, <1>2, <1>3, <1>4 DEF Next

\* A pass holds a reply only of the request it has just had served.
LEMMA RepliedStep ==
    ASSUME [Next]_vars, pc' = "replied"
    PROVE  (pc = "replied" /\ UNCHANGED <<out, reply>>) \/ Deliver
<1>1. CASE Environment
  BY <1>1 DEF Environment, Write, Rewrite, GoQuiet, Snapshot, Crash, Upgrade, Finish, Leave, client
<1>2. CASE Faults
  BY <1>2 DEF Faults, LoseRequest, LoseReply, TimeOut, WalkFails, UploadFails, AttemptFails,
              Finish, Leave, GoTo
<1>3. CASE Pass
  BY <1>3 DEF Pass, List, Decide, BuildTail, PromoteTail, BuildFull, StampOffset, BuildHead,
              Restamp, AckFull, AckHead, AckAppend, UploadParts, Finish, Leave, GoTo
<1>4. CASE LateDeliver \/ Flush \/ UNCHANGED vars
  BY <1>4 DEF LateDeliver, Flush, vars, client
<1> QED
  BY <1>1, <1>2, <1>3, <1>4 DEF Next

\* A pass follows up an archive in parts only.
LEMMA UploadStep ==
    ASSUME [Next]_vars, pc' = "upload", pc # "upload"
    PROVE  pc = "replied" /\ Uploads /\ (AckFull \/ AckHead)
<1>1. CASE Environment
  BY <1>1 DEF Environment, Write, Rewrite, GoQuiet, Snapshot, Crash, Upgrade, Finish, Leave, client
<1>2. CASE Faults
  BY <1>2 DEF Faults, LoseRequest, LoseReply, TimeOut, WalkFails, UploadFails, AttemptFails,
              Finish, Leave, GoTo
<1>3. CASE Pass
  BY <1>3 DEF Pass, List, Decide, BuildTail, PromoteTail, BuildFull, StampOffset, BuildHead,
              Restamp, Deliver, AckFull, AckHead, AckAppend, UploadParts, Finish, Leave, GoTo
<1>4. CASE LateDeliver \/ Flush \/ UNCHANGED vars
  BY <1>4 DEF LateDeliver, Flush, vars, client
<1> QED
  BY <1>1, <1>2, <1>3, <1>4 DEF Next

\* Steps that write no row but one that was there.
LEMMA RowsStep ==
    ASSUME [Next]_vars
    PROVE  \/ Rows' \subseteq Rows
           \/ BuildTail \/ Restamp \/ AckFull \/ AckHead \/ AckAppend \/ UploadFails
<1>1. CASE Environment
  BY <1>1 DEF Environment, Write, Rewrite, GoQuiet, Snapshot, Crash, Upgrade, client, Rows
<1>2. CASE Faults
  BY <1>2 DEF Faults, LoseRequest, LoseReply, TimeOut, WalkFails, Rows
<1>3. CASE Pass
  BY <1>3 DEF Pass, List, Decide, PromoteTail, BuildFull, StampOffset, BuildHead, Deliver,
              UploadParts, Rows
<1>4. CASE LateDeliver \/ Flush \/ UNCHANGED vars
  BY <1>4 DEF LateDeliver, Flush, vars, client, Rows
<1> QED
  BY <1>1, <1>2, <1>3, <1>4 DEF Next

LEMMA RestampedHash == ASSUME IInv, Restamp PROVE row # None /\ row'.h = row.h
<1>1. row \in Row /\ row # None
  BY NoRowAssumption DEF Restamp, IInv, LedgerOK
<1>2. UnchangedMark(ref.m, ver, row.h, Size).h = row.h
  BY UnchangedMarkFields
<1>3. Mark(ref.m, ver, row.h).h = row.h
  BY PlainMark
<1> QED
  BY <1>1, <1>2, <1>3, MarkedFields DEF Restamp

\* A row's hash is one a row had, or that of a conversation just acknowledged.
LEMMA HashStep ==
    ASSUME MaxRewrites = 0, MaxRecords <= BuildMax, IInv, WholeInv, [Next]_vars,
           NEW r \in Rows', r.h # None
    PROVE  (\E p \in Rows : p.h = r.h) \/ (AckFull /\ r.h = out.msgs)
<1>1. CASE r \in Rows
  BY <1>1
<1>2. CASE r \notin Rows
  <2>1. (disk' = disk /\ r = row' /\ row' # None) \/ Rows' \subseteq Rows
    BY <1>2, RowsStep
       DEF Rows, BuildTail, Restamp, AckFull, AckHead, AckAppend, UploadFails
  <2>2. r = row' /\ row' # None /\ (BuildTail \/ Restamp \/ AckFull \/ AckAppend \/ UploadFails)
    BY <1>2, <2>1, RowsStep, NoHeadReplied
  <2>3. ~(BuildTail /\ row' # row)
    <3>1. pc = "tail" => ~(ChunkEnd(row.o) <= row.o)
      BY Facts, LimitsAssumption DEF IInv, LedgerOK, Row, WholeInv, PassWhole, ChunkEnd
    <3> QED
      BY <3>1 DEF BuildTail
  <2>4. CASE Restamp
    BY <2>2, <2>4, RestampedHash DEF Rows
  <2>5. CASE AckFull
    BY <2>2, <2>5, AckedRow
  <2>6. CASE AckAppend
    BY <2>2, <2>6, AppendedRow
  <2>7. CASE UploadFails
    <3>1. row \in Row /\ row # None /\ row' = ForgetFullCoverage(row)
      BY <2>7, NoRowAssumption DEF UploadFails, IInv, LedgerOK
    <3>2. WholeRow(row)
      BY <3>1 DEF WholeInv, RowsWhole, Rows
    <3> QED
      BY <2>2, <3>1, <3>2, ForgottenRow
  <2>8. CASE BuildTail
    BY <1>2, <2>2, <2>3, <2>8 DEF Rows
  <2> QED
    BY <2>2, <2>4, <2>5, <2>6, <2>7, <2>8
<1> QED
  BY <1>1, <1>2

-----------------------------------------------------------------------------
(* Built whole, and the archive travels with the conversation               *)
(* (MaxRecords <= InlineMax): whatever arrives late, the archive decides.   *)

Archived == Len(arch.recs)

\* The conversation starts with the archive, and is never behind it.
ArchiveOf(e, a) ==
    /\ Len(a.recs) > 0 => e # None
    /\ e # None => Len(a.recs) <= Len(e.msgs) /\ \A i \in 1..Len(a.recs) : e.msgs[i] = i

AllInline ==
    /\ \A q \in Requests : q.kind = "full" => q.inline /\ q.parts = <<>>
    /\ pc # "upload"
HashesArchived == \A r \in Rows : r.h # None => Len(r.h) <= Archived
RepliedArchived == pc = "replied" /\ out.kind = "full" => Len(out.msgs) <= Archived

\* The archive never shrinks, so it still holds every conversation a row has the
\* hash of, even when a late request has put an older conversation back.
ArchiveInv == AllInline /\ ArchiveOf(env, arch) /\ HashesArchived /\ RepliedArchived

LEMMA ArchiveInit == Init => ArchiveInv
<1>1. Len(NoArchive.recs) = 0
  BY DEF NoArchive
<1> QED
  BY <1>1 DEF Init, ArchiveInv, AllInline, ArchiveOf, HashesArchived, RepliedArchived, Requests,
              Rows, Archived

LEMMA AllInlineStep ==
    ASSUME MaxRewrites = 0, MaxRecords <= BuildMax, MaxRecords <= InlineMax,
           IInv, WholeInv, AllInline, [Next]_vars
    PROVE  AllInline'
<1>1. pc' # "upload"
  <2> SUFFICES ASSUME pc' = "upload" PROVE FALSE
    OBVIOUS
  <2>1. pc = "replied" /\ Uploads /\ (AckFull \/ AckHead)
    BY UploadStep DEF AllInline
  <2>2. out.kind = "full" /\ out \in Requests
    BY <2>1, NoHeadReplied DEF AckFull, IInv, PassOK, Requests
  <2> QED
    BY <2>1, <2>2 DEF AllInline, Uploads
<1>2. CASE Requests' \subseteq Requests
  BY <1>1, <1>2 DEF AllInline
<1>3. CASE BuildTail
  <2>1. late' = late /\ (out' = out \/ out'.kind = "append")
    BY <1>3 DEF BuildTail, AppendRequest
  <2> QED
    BY <1>1, <2>1 DEF AllInline, Requests
<1>4. CASE BuildFull
  <2>1. \/ out' = out
        \/ /\ out' = FullRequest(shadow', Len(shadow') <= InlineMax)
           /\ shadow' = Merge(shadow, file)
    BY <1>4 DEF BuildFull
  <2>2. CASE out' = FullRequest(shadow', Len(shadow') <= InlineMax) /\ shadow' = Merge(shadow, file)
    <3>1. shadow' = file /\ Len(file) <= InlineMax
      BY <2>2, Facts, BoundsAssumption, LimitsAssumption DEF Size
    <3>2. out'.inline /\ out'.parts = <<>>
      BY <2>2, <3>1 DEF FullRequest
    <3> QED
      BY <1>1, <1>4, <3>2 DEF AllInline, Requests, BuildFull
  <2>3. CASE out' = out
    BY <1>1, <1>4, <2>3 DEF AllInline, Requests, BuildFull
  <2> QED
    BY <2>1, <2>2, <2>3
<1>5. CASE StampOffset
  <2>1. /\ out' = [out EXCEPT !.o = Size] /\ out \in Request /\ out # None
        /\ late' = late
    BY <1>5 DEF StampOffset, IInv, PassOK
  <2>2. out'.kind = out.kind /\ (out.inline => out'.inline) /\ out'.parts = out.parts
    BY <2>1 DEF Request
  <2> QED
    BY <1>1, <2>1, <2>2 DEF AllInline, Requests
<1>6. ~BuildHead
  BY NotOversized DEF BuildHead
<1> QED
  BY <1>2, <1>3, <1>4, <1>5, <1>6, RequestsStep

\* A shorter archive is refused and adds nothing; any other takes the place of the
\* stored one, or is as long.
LEMMA PutRawCounts ==
    ASSUME NEW a, SoundArchive(a), NEW s, Counts(s), NEW m \in Nat
    PROVE  /\ Len(s) < Len(a.recs) => PutRaw(a, s, m) = [result |-> "shrink-protected", arch |-> a]
           /\ Len(s) >= Len(a.recs) =>
                 /\ PutRaw(a, s, m).result \in {"unchanged", "stored"}
                 /\ Len(PutRaw(a, s, m).arch.recs) = Len(s)
<1>1. Counts(a.recs) /\ Len(a.recs) \in Nat /\ Len(s) \in Nat /\ a.m \in Nat
  BY DEF SoundArchive, Counts, Archive
<1>2. Range(a.recs) = 1..Len(a.recs) /\ Range(s) = 1..Len(s)
  BY <1>1, CountsRange
<1>3. CASE Len(s) < Len(a.recs)
  <2>1. RawResult(a, s, m) = "shrink-protected"
    BY <1>1, <1>3 DEF RawResult
  <2>2. Range(s) \subseteq Range(a.recs) /\ ~(Range(a.recs) \subseteq Range(s))
    <3>1. Len(a.recs) \in 1..Len(a.recs) /\ Len(a.recs) \notin 1..Len(s)
      BY <1>1, <1>3
    <3>2. 1..Len(s) \subseteq 1..Len(a.recs)
      BY <1>1, <1>3
    <3> QED
      BY <1>2, <3>1, <3>2
  <2>3. Merge(a.recs, s) = a.recs
    BY <2>2 DEF Merge
  <2>4. StoreRaw(a, s, m) = a
    BY <2>1 DEF StoreRaw
  <2> QED
    BY <1>1, <1>3, <2>1, <2>3, <2>4 DEF PutRaw
<1>4. CASE Len(s) >= Len(a.recs)
  <2>1. RawResult(a, s, m) \in {"unchanged", "stored"}
    BY <1>1, <1>4 DEF RawResult
  <2>2. PutRaw(a, s, m) = [result |-> RawResult(a, s, m), arch |-> StoreRaw(a, s, m)]
    BY <2>1 DEF PutRaw
  <2>3. Len(StoreRaw(a, s, m).recs) = Len(s)
    <3>1. CASE RawResult(a, s, m) = "stored"
      BY <3>1 DEF StoreRaw
    <3>2. CASE RawResult(a, s, m) = "unchanged"
      <4>1. Len(s) = Len(a.recs)
        BY <1>1, <1>4, <3>2 DEF RawResult
      <4> QED
        BY <3>2, <4>1 DEF StoreRaw
    <3> QED
      BY <2>1, <3>1, <3>2
  <2> QED
    BY <1>1, <1>4, <2>1, <2>2, <2>3
<1> QED
  BY <1>1, <1>3, <1>4

LEMMA FullArchives ==
    ASSUME NEW e, SoundEnv(e), NEW a, SoundArchive(a), ArchiveOf(e, a),
           NEW q, SoundRequest(q), q.kind = "full", q.inline
    PROVE  LET d == IngestFull(e, a, q)
           IN  /\ ArchiveOf(d.env, d.arch)
               /\ Len(a.recs) <= Len(d.arch.recs) /\ Len(q.msgs) <= Len(d.arch.recs)
<1> DEFINE d == IngestFull(e, a, q)
           raw == PutRaw(a, q.msgs, q.m)
<1>1. Counts(q.msgs) /\ q.m \in Nat /\ Len(q.msgs) \in Nat /\ Len(a.recs) \in Nat
  BY DEF SoundRequest, Request, SoundArchive, Counts
<1>2. \A i \in 1..Len(q.msgs) : q.msgs[i] = i
  BY <1>1 DEF Counts
<1>3. CASE Len(q.msgs) < Len(a.recs)
  <2>1. e # None /\ Len(a.recs) <= Len(e.msgs) /\ Len(e.msgs) \in Nat
    BY <1>1, <1>3 DEF ArchiveOf, SoundEnv, Envelope
  <2>2. Fewer(q.msgs, e)
    BY <1>1, <1>3, <2>1 DEF Fewer
  <2>3. raw = [result |-> "shrink-protected", arch |-> a]
    BY <1>1, <1>3, PutRawCounts
  <2>4. d = Outcome(e, a, "guarded")
    BY <2>2, <2>3 DEF IngestFull
  <2>5. d.env = e /\ d.arch = a
    BY <2>4 DEF Outcome
  <2> QED
    BY <1>1, <1>3, <2>5
<1>4. CASE Len(q.msgs) >= Len(a.recs)
  <2>1. raw.result \in {"unchanged", "stored"} /\ Len(raw.arch.recs) = Len(q.msgs)
    BY <1>1, <1>4, PutRawCounts
  <2>2. d = Outcome([msgs |-> q.msgs, o |-> q.o, rebuild |-> None], raw.arch, "ok")
    BY <2>1 DEF IngestFull
  <2>3. d.env = [msgs |-> q.msgs, o |-> q.o, rebuild |-> None] /\ d.arch = raw.arch
    BY <2>2 DEF Outcome
  <2>4. d.env.msgs = q.msgs /\ d.env # None
    BY <2>3, NoneAssumption, <1>1 DEF SoundRequest, Request, Envelope
  <2> HIDE DEF raw
  <2>5. ArchiveOf(d.env, d.arch)
    BY <1>1, <1>2, <2>1, <2>3, <2>4 DEF ArchiveOf
  <2> QED
    BY <1>1, <1>4, <2>1, <2>3, <2>5
<1> QED
  BY <1>1, <1>3, <1>4

\* What is appended leaves the first records where they are.
LEMMA Grafted ==
    ASSUME NEW s \in Seq(Nat), NEW t \in Seq(Nat), NEW n \in Nat, n <= Len(s),
           \A i \in 1..n : s[i] = i
    PROVE  s \o t \in Seq(Nat) /\ n <= Len(s \o t) /\ \A i \in 1..n : (s \o t)[i] = i
<1>1. /\ s \o t \in Seq(Nat) /\ Len(s \o t) = Len(s) + Len(t)
      /\ \A i \in 1..(Len(s) + Len(t)) :
            (s \o t)[i] = IF i <= Len(s) THEN s[i] ELSE t[i - Len(s)]
  BY ConcatProperties
<1>2. Len(s) \in Nat /\ Len(t) \in Nat
  OBVIOUS
<1>3. n <= Len(s \o t)
  BY <1>1, <1>2
<1>4. ASSUME NEW i \in 1..n PROVE (s \o t)[i] = i
  BY <1>1, <1>2
<1> QED
  BY <1>1, <1>3, <1>4

\* Nothing is grafted in front of what is stored, and an append archives nothing.
LEMMA AppendArchives ==
    ASSUME NEW e, SoundEnv(e), e # None => e.rebuild = None, NEW a, SoundArchive(a),
           ArchiveOf(e, a), NEW q, SoundRequest(q), q.kind = "append"
    PROVE  LET d == IngestAppend(e, a, q) IN ArchiveOf(d.env, d.arch) /\ d.arch = a
<1>1. ~ContinuesRebuild(e, q)
  BY DEF ContinuesRebuild
<1>2. CASE e # None /\ e.o = q.base
  <2> DEFINE msgs == e.msgs \o q.msgs
  <2>1. IngestAppend(e, a, q) = Outcome([msgs |-> msgs, o |-> q.o, rebuild |-> None], a, "ok")
    BY <1>1, <1>2 DEF IngestAppend
  <2>2. e.msgs \in Seq(Nat) /\ q.msgs \in Seq(Nat) /\ q.o \in Nat /\ Len(a.recs) \in Nat
        /\ Len(e.msgs) \in Nat /\ Len(a.recs) <= Len(e.msgs)
        /\ \A i \in 1..Len(a.recs) : e.msgs[i] = i
    BY <1>2 DEF SoundEnv, Envelope, SoundRequest, Request, SoundArchive, Counts, ArchiveOf
  <2>3. /\ msgs \in Seq(Nat) /\ Len(a.recs) <= Len(msgs)
        /\ \A i \in 1..Len(a.recs) : msgs[i] = i
    BY <2>2, Grafted
  <2> HIDE DEF msgs
  <2>4. [msgs |-> msgs, o |-> q.o, rebuild |-> None] # None
    BY <2>2, <2>3, NoneAssumption DEF Envelope
  <2>5. [msgs |-> msgs, o |-> q.o, rebuild |-> None].msgs = msgs
    OBVIOUS
  <2>6. ArchiveOf([msgs |-> msgs, o |-> q.o, rebuild |-> None], a)
    BY <2>3, <2>4, <2>5 DEF ArchiveOf
  <2> QED
    BY <2>1, <2>6 DEF Outcome
<1>3. CASE ~(e # None /\ e.o = q.base)
  <2>1. IngestAppend(e, a, q) = Outcome(e, a, "resync")
    BY <1>1, <1>3 DEF IngestAppend
  <2> QED
    BY <2>1 DEF Outcome
<1> QED
  BY <1>2, <1>3

LEMMA ArchiveServed ==
    ASSUME IInv, WholeInv, ArchiveInv, NEW q \in Requests, SoundRequest(q), Served(q)
    PROVE  /\ ArchiveOf(env, arch)' /\ Archived <= Archived'
           /\ q.kind = "full" => Len(q.msgs) <= Archived'
<1> DEFINE d == IngestConversation(env, arch, q)
<1>1. env' = d.env /\ arch' = d.arch
  BY DEF Served
<1>2. /\ SoundEnv(env) /\ SoundArchive(arch) /\ ArchiveOf(env, arch)
      /\ env # None => env.rebuild = None
      /\ q.kind \in {"full", "append"} /\ (q.kind = "full" => q.inline)
  BY ServedNoRebuild DEF IInv, ServerOK, ArchiveInv, WholeInv, NoRebuild, AllInline
<1>3. Len(arch.recs) \in Nat
  BY <1>2 DEF SoundArchive, Counts
<1>4. CASE q.kind = "full"
  <2>1. d = IngestFull(env, arch, q)
    BY <1>4 DEF IngestConversation
  <2>2. /\ ArchiveOf(d.env, d.arch)
        /\ Len(arch.recs) <= Len(d.arch.recs) /\ Len(q.msgs) <= Len(d.arch.recs)
    BY <1>2, <1>4, <2>1, FullArchives
  <2> HIDE DEF d
  <2> QED
    BY <1>1, <2>2 DEF ArchiveOf, Archived
<1>5. CASE q.kind = "append"
  <2>1. d = IngestAppend(env, arch, q)
    BY <1>5 DEF IngestConversation
  <2>2. ArchiveOf(d.env, d.arch) /\ d.arch = arch
    BY <1>2, <1>5, <2>1, AppendArchives
  <2> HIDE DEF d
  <2> QED
    BY <1>1, <1>3, <1>5, <2>2 DEF ArchiveOf, Archived
<1> QED
  BY <1>2, <1>4, <1>5

LEMMA ArchiveStep ==
    ASSUME MaxRewrites = 0, MaxRecords <= BuildMax, MaxRecords <= InlineMax,
           IInv, WholeInv, ArchiveInv, [Next]_vars
    PROVE  ArchiveInv'
<1>1. AllInline'
  BY AllInlineStep DEF ArchiveInv
<1>2. /\ ArchiveOf(env, arch)' /\ Archived <= Archived'
      /\ Deliver /\ out.kind = "full" => Len(out.msgs) <= Archived'
  <2>1. Archived \in Nat
    BY DEF IInv, ServerOK, SoundArchive, Counts, Archived
  <2>2. CASE UNCHANGED server /\ ~Deliver
    BY <2>1, <2>2 DEF server, ArchiveInv, ArchiveOf, Archived
  <2>3. CASE Deliver
    <3>1. Served(out) /\ SoundRequest(out) /\ out \in Requests
      BY <2>3 DEF Deliver, IInv, WireOK, PassOK, Requests
    <3> QED
      BY <3>1, ArchiveServed
  <2>4. CASE LateDeliver /\ ~Deliver
    <3>1. PICK q \in late : Served(q)
      BY <2>4 DEF LateDeliver
    <3>2. SoundRequest(q) /\ q \in Requests
      BY <3>1 DEF IInv, WireOK, Requests
    <3> QED
      BY <2>4, <3>1, <3>2, ArchiveServed
  <2>5. ~UploadParts
    BY DEF UploadParts, ArchiveInv, AllInline
  <2> QED
    BY <2>2, <2>3, <2>4, <2>5, ServerStep
<1>3. Archived \in Nat /\ Archived' \in Nat
  <2>1. IInv'
    BY NextInv
  <2> QED
    BY <2>1 DEF IInv, ServerOK, SoundArchive, Counts, Archived
<1>4. RepliedArchived'
  <2> SUFFICES ASSUME pc' = "replied", out'.kind = "full" PROVE Len(out'.msgs) <= Archived'
    BY DEF RepliedArchived
  <2>1. CASE pc = "replied" /\ out' = out
    <3>1. Len(out.msgs) <= Archived /\ Len(out.msgs) \in Nat
      BY <2>1 DEF ArchiveInv, RepliedArchived, IInv, PassOK, Request
    <3> QED
      BY <1>2, <1>3, <2>1, <3>1
  <2>2. CASE Deliver
    BY <1>2, <2>2 DEF Deliver
  <2> QED
    BY <2>1, <2>2, RepliedStep
<1>5. HashesArchived'
  <2> SUFFICES ASSUME NEW r \in Rows', r.h # None PROVE Len(r.h) <= Archived'
    BY DEF HashesArchived
  <2>1. CASE \E p \in Rows : p.h = r.h
    <3>1. PICK p \in Rows : p.h = r.h
      BY <2>1
    <3>2. Len(r.h) <= Archived /\ Len(r.h) \in Nat
      BY <3>1 DEF ArchiveInv, HashesArchived, WholeInv, RowsWhole, WholeRow, Counts
    <3> QED
      BY <1>2, <1>3, <3>2
  <2>2. CASE AckFull /\ r.h = out.msgs
    <3>1. Len(out.msgs) <= Archived /\ Len(out.msgs) \in Nat
      BY <2>2 DEF AckFull, ArchiveInv, RepliedArchived, IInv, PassOK, Request
    <3> QED
      BY <1>2, <1>3, <2>2, <3>1
  <2> QED
    BY <2>1, <2>2, HashStep
<1> QED
  BY <1>1, <1>2, <1>4, <1>5 DEF ArchiveInv

LEMMA ArchiveHolds ==
    ASSUME IInv, WholeInv, ArchiveInv
    PROVE  SkipMeansDelivered /\ SkipMeansArchived
<1> SUFFICES ASSUME SkippedForGood
             PROVE  Range(file) \subseteq Stored /\ Range(file) \subseteq Range(arch.recs)
  BY DEF SkipMeansDelivered, SkipMeansArchived
<1>1. written \in Nat \ {0} /\ Range(file) = 1..written
  BY Facts, CountsRange DEF Size
<1>2. Counts(arch.recs) /\ Archived \in Nat /\ Range(arch.recs) = 1..Archived
  BY CountsRange DEF IInv, ServerOK, SoundArchive, Counts, Archived
<1>3. written <= Archived
  <2>1. row \in Rows /\ row.h # None /\ Counts(row.h) /\ Len(row.h) >= written
    BY SkippedWhole
  <2>2. Len(row.h) <= Archived /\ Len(row.h) \in Nat
    BY <2>1 DEF ArchiveInv, HashesArchived, Counts
  <2> QED
    BY <1>1, <1>2, <2>1, <2>2
<1>4. /\ env # None /\ env.msgs \in Seq(Nat) /\ Archived <= Len(env.msgs)
      /\ \A i \in 1..Archived : env.msgs[i] = i
  BY <1>1, <1>2, <1>3 DEF ArchiveInv, ArchiveOf, Archived, IInv, ServerOK, SoundEnv, Envelope
<1>5. ASSUME NEW i \in 1..written PROVE i \in Stored
  <2>1. i \in 1..Archived /\ env.msgs[i] = i /\ i \in DOMAIN env.msgs
    BY <1>1, <1>2, <1>3, <1>4
  <2> QED
    BY <1>4, <2>1 DEF Stored, Range
<1> QED
  BY <1>1, <1>2, <1>3, <1>5

\* The inductive invariant of a session whose archive travels with it.
THEOREM ArchiveInvariance ==
    ASSUME MaxRewrites = 0, MaxRecords <= BuildMax, MaxRecords <= InlineMax
    PROVE  Spec => [](IInv /\ WholeInv /\ ArchiveInv)
<1>1. Init => IInv /\ WholeInv /\ ArchiveInv
  BY InitInv, WholeInit, ArchiveInit
<1>2. IInv /\ WholeInv /\ ArchiveInv /\ [Next]_vars => (IInv /\ WholeInv /\ ArchiveInv)'
  BY NextInv, WholeStep, ArchiveStep
<1> QED
  BY <1>1, <1>2, PTL DEF Spec

\* "Self-sealing, and silent" (sync-ledger.ts 405-412): no session that every later
\* pass skips is missing a record on the server, whichever requests and replies are
\* lost or arrive late and whenever the collector dies, when the session is built
\* whole and its archive travels with it.
THEOREM SkippedIsDelivered ==
    ASSUME MaxRewrites = 0, MaxRecords <= BuildMax, MaxRecords <= InlineMax
    PROVE  Spec => []SkipMeansDelivered
<1>1. IInv /\ WholeInv /\ ArchiveInv => SkipMeansDelivered
  BY ArchiveHolds
<1> QED
  BY <1>1, ArchiveInvariance, PTL

\* The settle rule of syncMode: such a session is all in the raw archive too, which
\* fails once the archive ships in parts (UploadFails, WalkFails).
THEOREM SkippedIsArchived ==
    ASSUME MaxRewrites = 0, MaxRecords <= BuildMax, MaxRecords <= InlineMax
    PROVE  Spec => []SkipMeansArchived
<1>1. IInv /\ WholeInv /\ ArchiveInv => SkipMeansArchived
  BY ArchiveHolds
<1> QED
  BY <1>1, ArchiveInvariance, PTL

-----------------------------------------------------------------------------
(* Built whole, and nothing arrives late (LateArrivals = FALSE): the archive *)
(* may ship in parts, and the conversation itself is what stays.            *)

LEMMA Least ==
    ASSUME NEW T \in SUBSET Nat, T # {}
    PROVE  \E x \in T : \A y \in T : x <= y
<1>1. PICK x \in T : \A y \in T : ~(<<y, x>> \in OpToRel(<, Nat))
  BY WFMin, NatLessThanWellFounded
<1>2. \A y \in T : ~(y < x)
  BY <1>1 DEF OpToRel
<1> QED
  BY <1>2

\* Records in order, all of them among the first n, are at most n.
LEMMA Crowded ==
    ASSUME NEW s \in Seq(Nat), NEW o, InOrder(s, o), NEW n \in Nat, Range(s) \subseteq 1..n
    PROVE  Len(s) <= n
<1>1. /\ Len(s) \in Nat /\ DOMAIN s = 1..Len(s)
      /\ \A i \in 1..Len(s) : s[i] \in 1..n
      /\ \A i, j \in 1..Len(s) : i < j => s[i] < s[j]
  BY DEF InOrder, Range
<1>2. ASSUME NEW i \in 1..Len(s), s[i] < i PROVE FALSE
  <2> DEFINE T == {k \in 1..Len(s) : s[k] < k}
  <2>1. T \in SUBSET Nat /\ T # {}
    BY <1>1, <1>2
  <2> HIDE DEF T
  <2>2. PICK k \in T : \A y \in T : k <= y
    BY <2>1, Least
  <2>3. k \in 1..Len(s) /\ s[k] < k /\ s[k] \in 1..n /\ k \in Nat
    BY <1>1, <2>2 DEF T
  <2>4. k - 1 \in 1..Len(s) /\ k - 1 < k
    BY <1>1, <2>3
  <2>5. s[k - 1] < s[k] /\ s[k - 1] \in 1..n
    BY <1>1, <2>3, <2>4
  <2>6. s[k - 1] < k - 1
    BY <2>3, <2>5
  <2>7. k - 1 \in T
    BY <2>4, <2>6 DEF T
  <2> QED
    BY <2>2, <2>3, <2>7
<1>3. CASE Len(s) = 0
  BY <1>3
<1>4. CASE Len(s) # 0
  <2>1. Len(s) \in 1..Len(s)
    BY <1>1, <1>4
  <2>2. ~(s[Len(s)] < Len(s)) /\ s[Len(s)] \in 1..n
    BY <1>1, <1>2, <2>1
  <2> QED
    BY <1>1, <2>2
<1> QED
  BY <1>3, <1>4

LEMMA RangeConcat ==
    ASSUME NEW s \in Seq(Nat), NEW t \in Seq(Nat)
    PROVE  Range(s \o t) = Range(s) \cup Range(t)
<1> DEFINE u == s \o t
<1>1. /\ u \in Seq(Nat) /\ Len(u) = Len(s) + Len(t) /\ Len(s) \in Nat /\ Len(t) \in Nat
      /\ \A i \in 1..(Len(s) + Len(t)) : u[i] = IF i <= Len(s) THEN s[i] ELSE t[i - Len(s)]
  BY ConcatProperties
<1>2. DOMAIN u = 1..(Len(s) + Len(t)) /\ DOMAIN s = 1..Len(s) /\ DOMAIN t = 1..Len(t)
  BY <1>1
<1> HIDE DEF u
<1>3. ASSUME NEW i \in DOMAIN u PROVE u[i] \in Range(s) \cup Range(t)
  <2>1. CASE i <= Len(s)
    BY <1>1, <1>2, <2>1 DEF Range
  <2>2. CASE ~(i <= Len(s))
    <3>1. i - Len(s) \in 1..Len(t) /\ u[i] = t[i - Len(s)]
      BY <1>1, <1>2, <2>2
    <3> QED
      BY <1>2, <3>1 DEF Range
  <2> QED
    BY <2>1, <2>2
<1>4. ASSUME NEW i \in DOMAIN s PROVE s[i] \in Range(u)
  <2>1. i \in DOMAIN u /\ u[i] = s[i]
    BY <1>1, <1>2
  <2> QED
    BY <2>1 DEF Range
<1>5. ASSUME NEW i \in DOMAIN t PROVE t[i] \in Range(u)
  <2>1. Len(s) + i \in 1..(Len(s) + Len(t)) /\ ~(Len(s) + i <= Len(s)) /\ (Len(s) + i) - Len(s) = i
    BY <1>1, <1>2
  <2>2. Len(s) + i \in DOMAIN u /\ u[Len(s) + i] = t[i]
    BY <1>1, <1>2, <2>1
  <2> QED
    BY <2>2 DEF Range
<1>6. Range(u) \subseteq Range(s) \cup Range(t)
  BY <1>3 DEF Range
<1>7. Range(s) \subseteq Range(u) /\ Range(t) \subseteq Range(u)
  BY <1>4, <1>5 DEF Range
<1> QED
  BY <1>6, <1>7 DEF u

LEMMA SegmentRange ==
    ASSUME NEW s, NEW b \in Nat, NEW o \in Nat, Segment(s, b, o)
    PROVE  Range(s) \subseteq 1..o
<1>1. s \in Seq(Nat) /\ Len(s) = o - b /\ b <= o /\ \A i \in 1..Len(s) : s[i] = b + i
  BY DEF Segment
<1>2. DOMAIN s = 1..Len(s) /\ Len(s) \in Nat
  BY <1>1
<1>3. \A i \in 1..Len(s) : s[i] \in 1..o
  BY <1>1, <1>2
<1> QED
  BY <1>2, <1>3 DEF Range

LEMMA ToolStep ==
    ASSUME MaxRewrites = 0, IInv, [Next]_vars
    PROVE  UNCHANGED tool \/ Write \/ GoQuiet
<1>1. CASE Environment
  BY <1>1, NoRewrite DEF Environment, Snapshot, Crash, Upgrade
<1>2. CASE Faults
  BY <1>2 DEF Faults, LoseRequest, LoseReply, TimeOut, WalkFails, UploadFails
<1>3. CASE Pass
  BY <1>3 DEF Pass, List, Decide, BuildTail, PromoteTail, BuildFull, StampOffset, BuildHead,
              Restamp, Deliver, AckFull, AckHead, AckAppend, UploadParts
<1>4. CASE LateDeliver \/ Flush \/ UNCHANGED vars
  BY <1>4 DEF LateDeliver, Flush, vars
<1> QED
  BY <1>1, <1>2, <1>3, <1>4 DEF Next

\* The tool adds at most one record in a step.
LEMMA WrittenStep ==
    ASSUME MaxRewrites = 0, IInv, [Next]_vars
    PROVE  written' \in {written, written + 1} /\ written \in Nat /\ written' \in Nat
<1>1. UNCHANGED tool \/ Write \/ GoQuiet
  BY ToolStep
<1>2. written \in Nat
  BY Facts
<1>3. written' = written \/ written' = written + 1
  BY <1>1 DEF tool, Write, GoQuiet
<1> QED
  BY <1>2, <1>3

\* A pass has a request in its hands because it had it, or has just built it.
LEMMA SendStep ==
    ASSUME [Next]_vars, pc' \in {"stamp", "send", "replied"}
    PROVE  \/ pc \in {"stamp", "send", "replied"} /\ out' = out
           \/ BuildTail \/ BuildFull \/ StampOffset \/ BuildHead
<1>1. CASE Environment
  BY <1>1 DEF Environment, Write, Rewrite, GoQuiet, Snapshot, Crash, Upgrade, Finish, Leave, client
<1>2. CASE Faults
  BY <1>2 DEF Faults, LoseRequest, LoseReply, TimeOut, WalkFails, UploadFails, AttemptFails,
              Finish, Leave, GoTo
<1>3. CASE Pass
  BY <1>3 DEF Pass, List, Decide, PromoteTail, Restamp, Deliver, AckFull, AckHead, AckAppend,
              UploadParts, Finish, Leave, GoTo
<1>4. CASE LateDeliver \/ Flush \/ UNCHANGED vars
  BY <1>4 DEF LateDeliver, Flush, vars, client
<1> QED
  BY <1>1, <1>2, <1>3, <1>4 DEF Next

LEMMA NothingLate ==
    ASSUME LateArrivals = FALSE, late = {}, [Next]_vars
    PROVE  late' = {} /\ ~LateDeliver
<1>1. CASE Environment
  BY <1>1 DEF Environment, Write, Rewrite, GoQuiet, Snapshot, Crash, Upgrade, LateDeliver
<1>2. CASE Faults
  BY <1>2 DEF Faults, LoseRequest, LoseReply, TimeOut, WalkFails, UploadFails, LateDeliver
<1>3. CASE Pass
  BY <1>3 DEF Pass, List, Decide, BuildTail, PromoteTail, BuildFull, StampOffset, BuildHead,
              Restamp, Deliver, AckFull, AckHead, AckAppend, UploadParts, LateDeliver
<1>4. CASE LateDeliver \/ Flush \/ UNCHANGED vars
  BY <1>4 DEF LateDeliver, Flush, vars
<1> QED
  BY <1>1, <1>2, <1>3, <1>4 DEF Next

Holds(n) == 1..n \subseteq Stored
Carries == pc \in {"stamp", "send", "replied"} /\ out.kind = "full"

\* A whole conversation is never behind the stored one, so the shrink guard has
\* nothing to refuse and no acknowledged record is given up.
StoredInv ==
    /\ late = {}
    /\ Stored \subseteq 1..written
    /\ Carries => Stored \subseteq 1..Len(out.msgs)
    /\ \A r \in Rows : r.h # None => Holds(Len(r.h))
    /\ Carries /\ pc = "replied" => Holds(Len(out.msgs))

LEMMA StoredInit == Init => StoredInv
BY DEF Init, StoredInv, Stored, Carries, Rows

LEMMA StoredServed ==
    ASSUME IInv, WholeInv, StoredInv, Deliver
    PROVE  /\ Stored \subseteq Stored' /\ Stored' \subseteq 1..written
           /\ env # None => env' # None
           /\ out.kind = "full" => Stored' = 1..Len(out.msgs)
<1> DEFINE d == IngestConversation(env, arch, out)
<1>1. /\ env' = d.env /\ SoundEnv(env) /\ SoundRequest(out) /\ WholeRequest /\ out # None
      /\ pc = "send"
  BY DEF Deliver, Served, IInv, ServerOK, WireOK, WholeInv, PassWhole, PassOK
<1>2. /\ out.kind \in {"full", "append"}
      /\ env # None => env.rebuild = None
      /\ written \in Nat
      /\ Stored \subseteq 1..written
  BY <1>1, Facts DEF WholeInv, NoHeads, NoRebuild, SoundRequest, Request, Requests, StoredInv
<1>3. CASE out.kind = "full"
  <2>1. /\ Counts(out.msgs) /\ Len(out.msgs) \in Nat /\ Len(out.msgs) <= out.o /\ out.o \in Nat
        /\ out.o <= written
    BY <1>1, <1>3 DEF SoundRequest, Request, Counts, WholeRequest
  <2>2. Stored \subseteq 1..Len(out.msgs)
    BY <1>1, <1>3 DEF StoredInv, Carries
  <2>3. ~Fewer(out.msgs, env)
    <3>1. CASE env = None
      BY <3>1 DEF Fewer
    <3>2. CASE env # None
      <4>1. env.msgs \in Seq(Nat) /\ InOrder(env.msgs, env.o) /\ Range(env.msgs) = Stored
        BY <1>1, <3>2 DEF SoundEnv, Envelope, Stored
      <4>2. Len(env.msgs) <= Len(out.msgs)
        BY <2>1, <2>2, <4>1, Crowded
      <4>3. Len(env.msgs) \in Nat
        BY <4>1
      <4> QED
        BY <2>1, <4>2, <4>3 DEF Fewer
    <3> QED
      BY <3>1, <3>2
  <2>4. d = IngestFull(env, arch, out)
    BY <1>3 DEF IngestConversation
  <2>5. d.env = [msgs |-> out.msgs, o |-> out.o, rebuild |-> None]
    BY <2>3, <2>4 DEF IngestFull, Outcome
  <2>6. env'.msgs = out.msgs /\ env' # None
    BY <1>1, <2>1, <2>5, NoneAssumption DEF Envelope, Counts
  <2>7. Stored' = 1..Len(out.msgs)
    BY <2>1, <2>6, CountsRange DEF Stored
  <2> QED
    BY <1>2, <2>1, <2>2, <2>6, <2>7
<1>4. CASE out.kind = "append"
  <2>1. d = IngestAppend(env, arch, out) /\ ~ContinuesRebuild(env, out)
    BY <1>2, <1>4 DEF IngestConversation, ContinuesRebuild
  <2>2. CASE env # None /\ env.o = out.base
    <3> DEFINE msgs == env.msgs \o out.msgs
    <3>1. d.env = [msgs |-> msgs, o |-> out.o, rebuild |-> None]
      <4>1. IngestAppend(env, arch, out)
              = Outcome([msgs |-> msgs, o |-> out.o, rebuild |-> None], arch, "ok")
        BY <2>1, <2>2 DEF IngestAppend
      <4> QED
        BY <2>1, <4>1 DEF Outcome
    <3>2. /\ env.msgs \in Seq(Nat) /\ out.msgs \in Seq(Nat) /\ out.o \in Nat /\ out.base \in Nat
          /\ Segment(out.msgs, out.base, out.o) /\ out.o <= written
      BY <1>1, <1>4, <2>2 DEF SoundEnv, Envelope, SoundRequest, Request, WholeRequest
    <3>3. msgs \in Seq(Nat) /\ Range(msgs) = Range(env.msgs) \cup Range(out.msgs)
      BY <3>2, RangeConcat, ConcatProperties
    <3>4. Range(out.msgs) \subseteq 1..out.o
      BY <3>2, SegmentRange
    <3>5. Range(out.msgs) \subseteq 1..written
      BY <1>2, <3>2, <3>4
    <3> HIDE DEF msgs
    <3>6. env'.msgs = msgs /\ env' # None
      BY <1>1, <3>1, <3>2, <3>3, NoneAssumption DEF Envelope
    <3>7. Stored' = Stored \cup Range(out.msgs)
      BY <2>2, <3>3, <3>6 DEF Stored
    <3> QED
      BY <1>2, <1>4, <3>5, <3>6, <3>7
  <2>3. CASE ~(env # None /\ env.o = out.base)
    <3>1. d = Outcome(env, arch, "resync")
      BY <2>1, <2>3 DEF IngestAppend
    <3>2. env' = env
      BY <1>1, <3>1 DEF Outcome
    <3> QED
      BY <1>2, <1>4, <3>2 DEF Stored
  <2> QED
    BY <2>2, <2>3
<1> QED
  BY <1>2, <1>3, <1>4

LEMMA StoredGrows ==
    ASSUME MaxRewrites = 0, LateArrivals = FALSE, IInv, WholeInv, StoredInv, [Next]_vars
    PROVE  /\ Stored \subseteq Stored' /\ Stored' \subseteq 1..written'
           /\ env # None => env' # None
           /\ Deliver /\ out.kind = "full" => Stored' = 1..Len(out.msgs)
<1>1. Stored \subseteq 1..written
  BY DEF StoredInv
<1>2. 1..written \subseteq 1..written'
  BY WrittenStep
<1>3. CASE Deliver
  BY <1>2, <1>3, StoredServed
<1>4. CASE UNCHANGED env /\ ~Deliver
  BY <1>1, <1>2, <1>4 DEF Stored
<1>5. ~LateDeliver
  BY DEF LateDeliver, StoredInv
<1> QED
  BY <1>3, <1>4, <1>5, ServerStep DEF server, UploadParts

\* What a pass carries is all of the transcript when it is built, and the server
\* gains nothing while the pass carries it.
LEMMA CarriesStep ==
    ASSUME MaxRewrites = 0, MaxRecords <= BuildMax, LateArrivals = FALSE,
           IInv, WholeInv, StoredInv, [Next]_vars, Carries'
    PROVE  Stored' \subseteq 1..Len(out'.msgs)
<1>1. out'.kind = "full" /\ pc' \in {"stamp", "send", "replied"}
  BY DEF Carries
<1>2. CASE pc \in {"stamp", "send", "replied"} /\ out' = out
  <2>1. Stored \subseteq 1..Len(out.msgs)
    BY <1>1, <1>2 DEF StoredInv, Carries
  <2>2. CASE Deliver
    BY <1>1, <1>2, <2>2, StoredGrows
  <2>3. CASE UNCHANGED env
    BY <1>2, <2>1, <2>3 DEF Stored
  <2> QED
    BY <2>2, <2>3, ServerStep DEF server, UploadParts, LateDeliver, StoredInv
<1>3. CASE BuildTail
  <2>1. pc = "tail" /\ env' = env /\ (out' = AppendRequest(ChunkEnd(row.o)) \/ pc' = "idle")
    BY <1>3 DEF BuildTail, Leave, server
  <2> QED
    BY <1>1, <2>1 DEF AppendRequest
<1>4. CASE BuildFull
  <2>1. /\ env' = env /\ shadow' = Merge(shadow, file)
        /\ out' = FullRequest(shadow', Len(shadow') <= InlineMax)
    BY <1>1, <1>4 DEF BuildFull, GoTo, server
  <2>2. out'.msgs = file
    BY <2>1, Facts DEF FullRequest
  <2> QED
    BY <2>1, <2>2, Facts DEF StoredInv, Stored, Size
<1>5. CASE StampOffset
  <2>1. /\ pc = "stamp" /\ out' = [out EXCEPT !.o = Size] /\ out \in Request /\ env' = env
    BY <1>5 DEF StampOffset, IInv, PassOK, server
  <2>2. out'.msgs = out.msgs /\ out'.kind = out.kind
    BY <2>1 DEF Request
  <2>3. Stored \subseteq 1..Len(out.msgs)
    BY <1>1, <2>1, <2>2 DEF StoredInv, Carries
  <2> QED
    BY <2>1, <2>2, <2>3 DEF Stored
<1>6. ~BuildHead
  BY NotOversized DEF BuildHead
<1> QED
  BY <1>1, <1>2, <1>3, <1>4, <1>5, <1>6, SendStep

LEMMA StoredStep ==
    ASSUME MaxRewrites = 0, MaxRecords <= BuildMax, LateArrivals = FALSE,
           IInv, WholeInv, StoredInv, [Next]_vars
    PROVE  StoredInv'
<1>1. late' = {} /\ Stored \subseteq Stored' /\ Stored' \subseteq 1..written'
  BY NothingLate, StoredGrows DEF StoredInv
<1>2. Carries' => Stored' \subseteq 1..Len(out'.msgs)
  BY CarriesStep
<1>3. ASSUME Carries', pc' = "replied" PROVE 1..Len(out'.msgs) \subseteq Stored'
  <2>1. CASE pc = "replied" /\ out' = out
    BY <1>1, <1>3, <2>1 DEF Carries, StoredInv, Holds
  <2>2. CASE Deliver
    BY <1>3, <2>2, StoredGrows DEF Deliver, Carries
  <2> QED
    BY <1>3, <2>1, <2>2, RepliedStep
<1>4. ASSUME NEW r \in Rows', r.h # None PROVE 1..Len(r.h) \subseteq Stored'
  <2>1. CASE \E p \in Rows : p.h = r.h
    <3>1. PICK p \in Rows : p.h = r.h
      BY <2>1
    <3> QED
      BY <1>1, <1>4, <3>1 DEF StoredInv, Holds
  <2>2. CASE AckFull /\ r.h = out.msgs
    <3>1. 1..Len(out.msgs) \subseteq Stored
      BY <2>2 DEF AckFull, StoredInv, Holds, Carries
    <3> QED
      BY <1>1, <2>2, <3>1
  <2> QED
    BY <1>4, <2>1, <2>2, HashStep
<1> QED
  BY <1>1, <1>2, <1>3, <1>4 DEF StoredInv, Holds

LEMMA StoredHolds ==
    ASSUME IInv, WholeInv, StoredInv
    PROVE  SkipMeansDelivered
<1> SUFFICES ASSUME SkippedForGood PROVE Range(file) \subseteq Stored
  BY DEF SkipMeansDelivered
<1>1. written \in Nat /\ Range(file) = 1..written
  BY Facts, CountsRange DEF Size
<1>2. row \in Rows /\ row.h # None /\ Len(row.h) >= written /\ Len(row.h) \in Nat
  BY SkippedWhole DEF Counts
<1>3. 1..Len(row.h) \subseteq Stored
  BY <1>2 DEF StoredInv, Holds
<1>4. 1..written \subseteq 1..Len(row.h)
  BY <1>1, <1>2
<1> QED
  BY <1>1, <1>3, <1>4

\* The inductive invariant of a session whose archive may ship in parts.
THEOREM StoredInvariance ==
    ASSUME MaxRewrites = 0, MaxRecords <= BuildMax, LateArrivals = FALSE
    PROVE  Spec => [](IInv /\ WholeInv /\ StoredInv)
<1>1. Init => IInv /\ WholeInv /\ StoredInv
  BY InitInv, WholeInit, StoredInit
<1>2. IInv /\ WholeInv /\ StoredInv /\ [Next]_vars => (IInv /\ WholeInv /\ StoredInv)'
  BY NextInv, WholeStep, StoredStep
<1> QED
  BY <1>1, <1>2, PTL DEF Spec

\* Without late arrivals no skipped session is missing a record on the server,
\* however large its archive and whenever the archive's parts fail to ship.
THEOREM SkippedIsDeliveredOnTime ==
    ASSUME MaxRewrites = 0, MaxRecords <= BuildMax, LateArrivals = FALSE
    PROVE  Spec => []SkipMeansDelivered
<1>1. IInv /\ WholeInv /\ StoredInv => SkipMeansDelivered
  BY StoredHolds
<1> QED
  BY <1>1, StoredInvariance, PTL

-----------------------------------------------------------------------------
(* A session that is always chunked (BuildMax = 0), whatever arrives late   *)

\* A conversation without a gap, synced through its end.
Whole(msgs, o) == Counts(msgs) /\ Len(msgs) = o

\* The server holds the first o records, unless the pass has more to ship.
Reached(o) == o < written \/ (env # None /\ o <= env.o)

ChunkRequest(q) ==
    /\ q.kind # "full" /\ q.o \in 1..written
    /\ q.kind = "head" => Whole(q.msgs, q.o)
    /\ q.kind = "append" /\ ~q.final => q.o < written

ChunkEnv(e) ==
    e # None => /\ Whole(e.msgs, e.o) /\ e.o <= written
                /\ e.rebuild # None => Whole(e.rebuild.msgs, e.rebuild.o)

\* Heads and appends never leave a gap, so the stored offset only moves up; and a
\* row's cursor is never past it unless there is more to ship.
ChunkInv ==
    /\ pc \notin {"stamp", "unchanged"}
    /\ \A q \in Requests : ChunkRequest(q)
    /\ ChunkEnv(env)
    /\ \A r \in Rows : r.o \in 1..written /\ Reached(r.o)
    /\ pc = "replied" /\ reply # "resync" => Reached(out.o)

LEMMA ChunkInit == Init => ChunkInv
BY DEF Init, ChunkInv, ChunkEnv, Requests, Rows

LEMMA AlwaysOversized == ASSUME IInv, BuildMax = 0 PROVE Oversized
<1>1. Size \in Nat /\ Size > 0 /\ Len(shadow) \in Nat
  BY Facts DEF IInv, ShadowOK, Counts
<1> QED
  BY <1>1 DEF Oversized, BuildSize

LEMMA WholeExtended ==
    ASSUME NEW s, NEW b \in Nat, Whole(s, b), NEW t, NEW o \in Nat, Segment(t, b, o)
    PROVE  Whole(s \o t, o) /\ s \o t \in Seq(Nat)
<1> DEFINE u == s \o t
<1>1. /\ s \in Seq(Nat) /\ Len(s) = b /\ \A i \in 1..b : s[i] = i
      /\ t \in Seq(Nat) /\ b <= o /\ Len(t) = o - b /\ \A i \in 1..Len(t) : t[i] = b + i
  BY DEF Whole, Counts, Segment
<1>2. /\ u \in Seq(Nat) /\ Len(u) = Len(s) + Len(t)
      /\ \A i \in 1..(Len(s) + Len(t)) : u[i] = IF i <= Len(s) THEN s[i] ELSE t[i - Len(s)]
  BY <1>1, ConcatProperties
<1> HIDE DEF u
<1>3. Len(u) = o
  BY <1>1, <1>2
<1>4. ASSUME NEW i \in 1..o PROVE u[i] = i
  <2>1. CASE i <= b
    BY <1>1, <1>2, <2>1
  <2>2. CASE ~(i <= b)
    <3>1. i - b \in 1..Len(t)
      BY <1>1, <2>2
    <3>2. u[i] = t[i - b] /\ t[i - b] = b + (i - b)
      BY <1>1, <1>2, <2>2, <3>1
    <3> QED
      BY <3>2
  <2> QED
    BY <2>1, <2>2
<1>5. Whole(u, o)
  BY <1>2, <1>3, <1>4 DEF Whole, Counts
<1> QED
  BY <1>2, <1>5 DEF u

\* What serving a chunk leaves: no gap, nothing lost, and the chunk's end reached
\* unless the reply calls for a resync or more is to come.
Advanced(e, d, q) ==
    /\ ChunkEnv(d.env)
    /\ e # None => d.env # None /\ e.o <= d.env.o
    /\ d.reply # "resync" => q.o < written \/ (d.env # None /\ q.o <= d.env.o)

\* A chunk that becomes the stored conversation, no shorter than the one it replaces.
LEMMA Replaces ==
    ASSUME NEW e, ChunkEnv(e), SoundEnv(e), NEW q,
           NEW msgs \in Seq(Nat), q.o \in Nat, q.o <= written,
           Whole(msgs, q.o), ~Fewer(msgs, e), NEW a, NEW reply2
    PROVE  Advanced(e, Outcome([msgs |-> msgs, o |-> q.o, rebuild |-> None], a, reply2), q)
<1> DEFINE f == [msgs |-> msgs, o |-> q.o, rebuild |-> None]
<1>1. f.msgs = msgs /\ f.o = q.o /\ f.rebuild = None /\ f \in Envelope /\ f # None
  BY NoneAssumption DEF Envelope
<1> HIDE DEF f
<1>2. Outcome(f, a, reply2).env = f
  BY DEF Outcome
<1>3. ChunkEnv(f)
  BY <1>1 DEF ChunkEnv
<1>4. e # None => e.o <= q.o
  <2> SUFFICES ASSUME e # None PROVE e.o <= q.o
    OBVIOUS
  <2>1. Len(e.msgs) = e.o /\ e.o \in Nat /\ Len(msgs) = q.o
    BY DEF ChunkEnv, Whole, SoundEnv, Envelope
  <2> QED
    BY <2>1 DEF Fewer
<1>5. q.o <= f.o
  BY <1>1
<1>6. Advanced(e, Outcome(f, a, reply2), q)
  BY <1>1, <1>2, <1>3, <1>4, <1>5 DEF Advanced
<1> QED
  BY <1>6 DEF f

\* A chunk that is staged beside the stored conversation.
LEMMA Stages ==
    ASSUME NEW e, ChunkEnv(e), SoundEnv(e), e # None, NEW q, NEW msgs \in Seq(Nat), q.o \in Nat,
           Whole(msgs, q.o), q.o < written \/ q.o <= e.o, NEW a, NEW reply2
    PROVE  Advanced(e, Outcome([e EXCEPT !.rebuild = [msgs |-> msgs, o |-> q.o]], a, reply2), q)
<1> DEFINE st == [msgs |-> msgs, o |-> q.o]
           f == [e EXCEPT !.rebuild = st]
<1>1. e \in Envelope /\ e.o \in Nat /\ st \in Staged /\ st.msgs = msgs /\ st.o = q.o
  BY DEF SoundEnv, Envelope, Staged
<1>2. f.msgs = e.msgs /\ f.o = e.o /\ f.rebuild = st /\ f \in Envelope
  BY <1>1 DEF Envelope
<1>3. f # None
  BY <1>2, NoneAssumption
<1> HIDE DEF f, st
<1>4. Outcome(f, a, reply2).env = f
  BY DEF Outcome
<1>5. ChunkEnv(f)
  BY <1>1, <1>2 DEF ChunkEnv
<1>6. Advanced(e, Outcome(f, a, reply2), q)
  BY <1>1, <1>2, <1>3, <1>4, <1>5 DEF Advanced
<1> QED
  BY <1>6 DEF f, st

LEMMA HeadAdvances ==
    ASSUME NEW e, ChunkEnv(e), SoundEnv(e), written \in Nat, NEW a,
           NEW q, SoundRequest(q), ChunkRequest(q), q.kind = "head"
    PROVE  Advanced(e, IngestHead(e, a, q), q)
<1>1. /\ q.msgs \in Seq(Nat) /\ q.o \in Nat /\ q.o <= written /\ Whole(q.msgs, q.o)
      /\ Len(q.msgs) = q.o
  BY DEF SoundRequest, Request, ChunkRequest, Whole
<1>2. CASE Fewer(q.msgs, e)
  <2>1. e # None /\ Len(q.msgs) < Len(e.msgs) /\ Len(e.msgs) = e.o /\ e.o \in Nat
    BY <1>2 DEF Fewer, ChunkEnv, Whole, SoundEnv, Envelope
  <2>2. q.o <= e.o
    BY <1>1, <2>1
  <2>3. IngestHead(e, a, q)
          = Outcome([e EXCEPT !.rebuild = [msgs |-> q.msgs, o |-> q.o]], a, "staged")
    BY <1>2 DEF IngestHead
  <2> QED
    BY <1>1, <2>1, <2>2, <2>3, Stages
<1>3. CASE ~Fewer(q.msgs, e)
  BY <1>1, <1>3, Replaces DEF IngestHead
<1> QED
  BY <1>2, <1>3

LEMMA RebuildAdvances ==
    ASSUME NEW e, ChunkEnv(e), SoundEnv(e), written \in Nat, NEW a,
           NEW q, SoundRequest(q), ChunkRequest(q), q.kind = "append", ContinuesRebuild(e, q)
    PROVE  Advanced(e, ExtendRebuild(e, a, q), q)
<1> DEFINE rebuilt == e.rebuild.msgs \o q.msgs
<1>1. e \in Envelope /\ e # None /\ e.rebuild # None /\ e.rebuild.o = q.base /\ e.o \in Nat
  BY DEF SoundEnv, ContinuesRebuild, Envelope
<1>2. /\ q.o \in Nat /\ q.o <= written /\ q.base \in Nat /\ q.final \in BOOLEAN
      /\ Segment(q.msgs, q.base, q.o)
      /\ ~q.final => q.o < written
  BY DEF SoundRequest, Request, ChunkRequest
<1>3. Whole(e.rebuild.msgs, q.base)
  BY <1>1 DEF ChunkEnv
<1>4. rebuilt \in Seq(Nat) /\ Whole(rebuilt, q.o)
  BY <1>2, <1>3, WholeExtended
<1> HIDE DEF rebuilt
<1>5. CASE ~q.final
  <2>1. ExtendRebuild(e, a, q)
          = Outcome([e EXCEPT !.rebuild = [msgs |-> rebuilt, o |-> q.o]], a, "ok")
    BY <1>2, <1>5 DEF ExtendRebuild, rebuilt
  <2> QED
    BY <1>1, <1>2, <1>4, <1>5, <2>1, Stages
<1>6. CASE q.final /\ Fewer(rebuilt, e)
  <2> DEFINE f == [e EXCEPT !.rebuild = None]
  <2>1. ExtendRebuild(e, a, q) = Outcome(f, a, "ok")
    BY <1>2, <1>6 DEF ExtendRebuild, rebuilt
  <2>2. f.msgs = e.msgs /\ f.o = e.o /\ f.rebuild = None /\ f \in Envelope
    BY <1>1 DEF Envelope
  <2>3. f # None
    BY <2>2, NoneAssumption
  <2>4. Len(rebuilt) = q.o /\ Len(rebuilt) < Len(e.msgs) /\ Len(e.msgs) = e.o
    BY <1>1, <1>4, <1>6 DEF Whole, Fewer, ChunkEnv
  <2> HIDE DEF f
  <2>5. ChunkEnv(f)
    BY <1>1, <2>2 DEF ChunkEnv
  <2>6. Outcome(f, a, "ok").env = f
    BY DEF Outcome
  <2>7. q.o <= f.o /\ e.o <= f.o
    BY <1>1, <1>2, <2>2, <2>4
  <2> QED
    BY <2>1, <2>3, <2>5, <2>6, <2>7 DEF Advanced
<1>7. CASE q.final /\ ~Fewer(rebuilt, e)
  <2>1. ExtendRebuild(e, a, q) = Outcome([msgs |-> rebuilt, o |-> q.o, rebuild |-> None], a, "ok")
    BY <1>2, <1>7 DEF ExtendRebuild, rebuilt
  <2> QED
    BY <1>2, <1>4, <1>7, <2>1, Replaces
<1> QED
  BY <1>2, <1>5, <1>6, <1>7

LEMMA AppendAdvances ==
    ASSUME NEW e, ChunkEnv(e), SoundEnv(e), written \in Nat, NEW a,
           NEW q, SoundRequest(q), ChunkRequest(q), q.kind = "append"
    PROVE  Advanced(e, IngestAppend(e, a, q), q)
<1>1. CASE ContinuesRebuild(e, q)
  BY <1>1, RebuildAdvances DEF IngestAppend
<1>2. CASE ~ContinuesRebuild(e, q) /\ e # None /\ e.o = q.base
  <2>1. /\ q.o \in Nat /\ q.o <= written /\ q.base \in Nat /\ q.base <= q.o
        /\ Segment(q.msgs, q.base, q.o) /\ Whole(e.msgs, q.base)
    BY <1>2 DEF SoundRequest, Request, ChunkRequest, ChunkEnv, Segment
  <2>2. e.msgs \o q.msgs \in Seq(Nat) /\ Whole(e.msgs \o q.msgs, q.o)
    BY <2>1, WholeExtended
  <2>3. ~Fewer(e.msgs \o q.msgs, e)
    BY <2>1, <2>2 DEF Fewer, Whole
  <2>4. IngestAppend(e, a, q)
          = Outcome([msgs |-> e.msgs \o q.msgs, o |-> q.o, rebuild |-> None], a, "ok")
    BY <1>2 DEF IngestAppend
  <2> QED
    BY <2>1, <2>2, <2>3, <2>4, Replaces
<1>3. CASE ~ContinuesRebuild(e, q) /\ ~(e # None /\ e.o = q.base)
  <2>1. IngestAppend(e, a, q) = Outcome(e, a, "resync")
    BY <1>3 DEF IngestAppend
  <2>2. Outcome(e, a, "resync").env = e /\ Outcome(e, a, "resync").reply = "resync"
    BY DEF Outcome
  <2>3. e # None => e.o <= e.o
    BY DEF SoundEnv, Envelope
  <2> QED
    BY <2>1, <2>2, <2>3 DEF Advanced
<1> QED
  BY <1>1, <1>2, <1>3

LEMMA ChunkServed ==
    ASSUME IInv, ChunkInv, NEW q \in Requests, SoundRequest(q), Served(q)
    PROVE  /\ ChunkEnv(env') /\ (env # None => env' # None /\ env.o <= env'.o)
           /\ IngestConversation(env, arch, q).reply # "resync"
                => q.o < written \/ (env' # None /\ q.o <= env'.o)
<1> DEFINE d == IngestConversation(env, arch, q)
<1>1. ChunkEnv(env) /\ SoundEnv(env) /\ written \in Nat /\ ChunkRequest(q) /\ env' = d.env
  BY Facts DEF ChunkInv, IInv, ServerOK, Served
<1>2. q.kind \in {"head", "append"}
  BY <1>1 DEF ChunkRequest, SoundRequest, Request
<1>3. Advanced(env, d, q)
  <2>1. CASE q.kind = "head"
    BY <1>1, <2>1, HeadAdvances DEF IngestConversation
  <2>2. CASE q.kind = "append"
    BY <1>1, <2>2, AppendAdvances DEF IngestConversation
  <2> QED
    BY <1>2, <2>1, <2>2
<1> QED
  BY <1>1, <1>3 DEF Advanced

\* The server's offset only moves up.
LEMMA OffsetGrows ==
    ASSUME IInv, ChunkInv, [Next]_vars
    PROVE  /\ ChunkEnv(env') /\ (env # None => env' # None /\ env.o <= env'.o)
           /\ Deliver /\ reply' # "resync" => out.o < written \/ (env' # None /\ out.o <= env'.o)
<1>1. CASE Deliver
  <2>1. /\ Served(out) /\ SoundRequest(out) /\ out \in Requests
        /\ reply' = IngestConversation(env, arch, out).reply
    BY <1>1 DEF Deliver, IInv, WireOK, PassOK, Requests
  <2> QED
    BY <2>1, ChunkServed
<1>2. CASE LateDeliver /\ ~Deliver
  <2>1. PICK q \in late : Served(q)
    BY <1>2 DEF LateDeliver
  <2>2. SoundRequest(q) /\ q \in Requests
    BY <2>1 DEF IInv, WireOK, Requests
  <2> QED
    BY <1>2, <2>1, <2>2, ChunkServed
<1>3. CASE env' = env /\ ~Deliver
  <2>1. env # None => env.o \in Nat
    BY DEF IInv, ServerOK, SoundEnv, Envelope
  <2> QED
    BY <1>3, <2>1 DEF ChunkInv
<1> QED
  BY <1>1, <1>2, <1>3, ServerStep DEF server, UploadParts

\* What was reached stays reached while the tool writes and the server serves.
LEMMA ReachedStays ==
    ASSUME MaxRewrites = 0, IInv, ChunkInv, [Next]_vars
    PROVE  \A o \in Nat : Reached(o) => Reached(o)'
<1> SUFFICES ASSUME NEW o \in Nat, Reached(o) PROVE Reached(o)'
  OBVIOUS
<1>1. written \in Nat /\ written' \in Nat /\ written <= written'
  BY WrittenStep
<1>2. CASE o < written
  BY <1>1, <1>2 DEF Reached
<1>3. CASE env # None /\ o <= env.o
  <2>1. env' # None /\ env.o <= env'.o /\ env.o \in Nat /\ env'.o \in Nat
    <3>1. env' # None /\ env.o <= env'.o
      BY <1>3, OffsetGrows
    <3>2. SoundEnv(env) /\ SoundEnv(env)'
      BY NextInv DEF IInv, ServerOK
    <3> QED
      BY <1>3, <3>1, <3>2 DEF SoundEnv, Envelope
  <2> QED
    BY <1>3, <2>1 DEF Reached
<1> QED
  BY <1>2, <1>3 DEF Reached

LEMMA ChunkRequestStays ==
    ASSUME MaxRewrites = 0, IInv, [Next]_vars
    PROVE  \A q \in Request : ChunkRequest(q) => ChunkRequest(q)'
<1>1. written \in Nat /\ written' \in Nat /\ written <= written'
  BY WrittenStep
<1>2. \A q \in Request : q.o \in Nat
  BY DEF Request
<1> QED
  BY <1>1, <1>2 DEF ChunkRequest

\* A chunk ends where the next begins, and one that does not end the transcript
\* leaves more to ship.
LEMMA ChunkBuilt ==
    ASSUME BuildMax = 0, IInv, ChunkInv, BuildTail \/ BuildHead, out' # out
    PROVE  ChunkRequest(out')
<1>1. written \in Nat \ {0} /\ Size = written /\ Counts(file) /\ Len(file) = written
  BY Facts DEF Size
<1>2. CASE BuildTail
  <2> DEFINE end == ChunkEnd(row.o)
  <2>1. row.o \in Nat /\ row.o >= 1
    <3>1. row \in Row /\ row # None
      BY <1>2, NoRowAssumption DEF BuildTail, IInv, LedgerOK
    <3>2. row.o \in 1..written
      BY <3>1 DEF ChunkInv, Rows
    <3> QED
      BY <3>2
  <2>2. out' = AppendRequest(end) /\ end > row.o
    BY <1>2 DEF BuildTail
  <2>3. end \in Nat /\ end <= written
    BY <1>1, <2>1, ChunkEndBounds
  <2>4. out'.kind = "append" /\ out'.o = end /\ (out'.final <=> end = Size)
    BY <2>2 DEF AppendRequest
  <2> HIDE DEF end
  <2>5. end \in 1..written /\ (end # written => end < written)
    BY <1>1, <2>1, <2>2, <2>3
  <2> QED
    BY <1>1, <2>4, <2>5 DEF ChunkRequest
<1>3. CASE BuildHead
  <2> DEFINE end == ChunkEnd(0)
  <2>1. end \in 1..written
    BY <1>1, LimitsAssumption DEF ChunkEnd
  <2>2. Segment(SubSeq(file, 0 + 1, end), 0, end)
    BY <1>1, <2>1, CountsSubSeq
  <2>3. Whole(SubSeq(file, 1, end), end)
    <3>1. 0 + 1 = 1
      OBVIOUS
    <3> QED
      BY <2>1, <2>2, <3>1, SegmentFromZero DEF Whole
  <2>4. out' = HeadRequest(end)
    BY <1>3 DEF BuildHead
  <2>5. out'.kind = "head" /\ out'.o = end /\ out'.msgs = SubSeq(file, 1, end)
    BY <2>4 DEF HeadRequest
  <2> HIDE DEF end
  <2> QED
    BY <2>1, <2>3, <2>5 DEF ChunkRequest
<1> QED
  BY <1>2, <1>3

LEMMA ChunkRequestsStep ==
    ASSUME MaxRewrites = 0, BuildMax = 0, IInv, ChunkInv, [Next]_vars
    PROVE  \A q \in Requests' : ChunkRequest(q)'
<1>1. \A q \in Requests : q \in Request /\ ChunkRequest(q)
  BY DEF Requests, IInv, PassOK, WireOK, SoundRequest, ChunkInv
<1>2. \A q \in Requests : ChunkRequest(q)'
  BY <1>1, ChunkRequestStays
<1>3. ~BuildFull /\ ~StampOffset
  BY AlwaysOversized DEF BuildFull, StampOffset, ChunkInv
<1>4. CASE Requests' \subseteq Requests
  BY <1>2, <1>4
<1>5. CASE BuildTail \/ BuildHead
  <2>1. late' = late /\ written' = written
    BY <1>5 DEF BuildTail, BuildHead, tool
  <2>2. CASE out' = out
    BY <1>2, <2>1, <2>2 DEF Requests
  <2>3. CASE out' # out
    <3>1. ChunkRequest(out')
      BY <1>5, <2>3, ChunkBuilt
    <3>2. \A q : ChunkRequest(q) => ChunkRequest(q)'
      BY <2>1 DEF ChunkRequest
    <3>3. \A q \in Requests' : q \in Requests \/ q = out'
      BY <2>1 DEF Requests
    <3> QED
      BY <1>2, <3>1, <3>2, <3>3
  <2> QED
    BY <2>2, <2>3
<1> QED
  BY <1>3, <1>4, <1>5, RequestsStep

\* A row's cursor is one a row had, or the end of a chunk just acknowledged.
LEMMA CursorStep ==
    ASSUME IInv, ChunkInv, [Next]_vars, NEW r \in Rows'
    PROVE  \/ \E p \in Rows : p.o = r.o
           \/ pc = "replied" /\ reply # "resync" /\ r.o = out.o
<1>1. CASE r \in Rows
  BY <1>1
<1>2. CASE r \notin Rows
  <2>1. (disk' = disk /\ r = row' /\ row' # None) \/ Rows' \subseteq Rows
    BY <1>2, RowsStep
       DEF Rows, BuildTail, Restamp, AckFull, AckHead, AckAppend, UploadFails
  <2>2. ~Restamp /\ ~AckFull
    BY DEF Restamp, AckFull, ChunkInv, ChunkRequest, Requests, IInv, PassOK
  <2>3. r = row' /\ row' # None /\ (BuildTail \/ AckHead \/ AckAppend \/ UploadFails)
    BY <1>2, <2>1, <2>2, RowsStep
  <2>4. out # None =>
           out.m \in Nat /\ ver \in Nat /\ out.o \in Nat /\ out.final \in BOOLEAN
    BY Facts DEF IInv, PassOK, Request
  <2>5. CASE BuildTail
    <3>1. row \in Row /\ row # None /\ ref.m \in Nat /\ ver \in Nat
      BY <2>5, Facts, NoRowAssumption DEF BuildTail, IInv, LedgerOK
    <3>2. row' = MarkSynced(row, Mark(ref.m, ver, None))
      BY <1>2, <2>3, <2>5, <3>1 DEF BuildTail, Rows
    <3>3. None \in Seq(Nat) \cup {None}
      OBVIOUS
    <3>4. ~Mark(ref.m, ver, None).acked
      BY PlainMark
    <3>5. row'.o = row.o
      BY <3>1, <3>2, <3>4, MarkedFields
    <3> QED
      BY <2>3, <3>1, <3>5 DEF Rows
  <2>6. CASE AckHead
    <3>1. row' = MarkSynced(row, HeadMark(out.m, ver, out.o)) /\ pc = "replied" /\ reply # "resync"
          /\ out # None
      BY <2>6 DEF AckHead, IInv, PassOK
    <3>2. HeadMark(out.m, ver, out.o).acked /\ HeadMark(out.m, ver, out.o).o = out.o
      BY HeadMarkFields
    <3> QED
      BY <2>3, <3>1, <3>2, MarkedFields
  <2>7. CASE AckAppend
    <3>1. /\ row' = MarkSynced(row, AppendMark(out.m, ver, out.o, out.final)) /\ pc = "replied"
          /\ reply # "resync" /\ out # None
      BY <2>3, <2>7 DEF AckAppend, IInv, PassOK
    <3>2. /\ AppendMark(out.m, ver, out.o, out.final).acked
          /\ AppendMark(out.m, ver, out.o, out.final).o = out.o
      BY AppendMarkFields
    <3> QED
      BY <2>3, <3>1, <3>2, MarkedFields
  <2>8. CASE UploadFails
    <3>1. row \in Row /\ row # None /\ row' = ForgetFullCoverage(row)
      BY <2>8, NoRowAssumption DEF UploadFails, IInv, LedgerOK
    <3>2. row' = [row EXCEPT !.F = 0, !.h = None]
      BY <3>1 DEF ForgetFullCoverage
    <3>3. row'.o = row.o
      BY <3>1, <3>2 DEF Row
    <3> QED
      BY <2>3, <3>1, <3>3 DEF Rows
  <2> QED
    BY <2>3, <2>5, <2>6, <2>7, <2>8
<1> QED
  BY <1>1, <1>2

LEMMA ChunkStep ==
    ASSUME MaxRewrites = 0, BuildMax = 0, IInv, ChunkInv, [Next]_vars
    PROVE  ChunkInv'
<1>1. /\ written \in Nat /\ written' \in Nat
      /\ written <= written' /\ written' \in {written, written + 1}
  BY WrittenStep
<1>2. pc' \notin {"stamp", "unchanged"}
  <2>1. ~BuildFull /\ pc \notin {"stamp", "unchanged"}
    BY AlwaysOversized DEF BuildFull, ChunkInv
  <2>2. CASE Environment
    BY <2>1, <2>2 DEF Environment, Write, Rewrite, GoQuiet, Snapshot, Crash, Upgrade,
                      Finish, Leave, client
  <2>3. CASE Faults
    BY <2>3 DEF Faults, LoseRequest, LoseReply, TimeOut, WalkFails, UploadFails, AttemptFails,
                Finish, Leave, GoTo
  <2>4. CASE Pass
    BY <2>1, <2>4 DEF Pass, List, Decide, BuildTail, PromoteTail, StampOffset, BuildHead, Restamp,
                Deliver, AckFull, AckHead, AckAppend, UploadParts, Finish, Leave, GoTo
  <2>5. CASE LateDeliver \/ Flush \/ UNCHANGED vars
    BY <2>1, <2>5 DEF LateDeliver, Flush, vars, client
  <2> QED
    BY <2>2, <2>3, <2>4, <2>5 DEF Next
<1>3. \A q \in Requests' : ChunkRequest(q)'
  BY ChunkRequestsStep
<1>4. ChunkEnv(env)'
  <2>1. ChunkEnv(env')
    BY OffsetGrows
  <2>2. env' # None => env'.o \in Nat
    BY NextInv DEF IInv, ServerOK, SoundEnv, Envelope
  <2> QED
    BY <1>1, <2>1, <2>2 DEF ChunkEnv
<1>5. ASSUME NEW r \in Rows' PROVE r.o \in 1..written' /\ Reached(r.o)'
  <2>1. CASE \E p \in Rows : p.o = r.o
    <3>1. PICK p \in Rows : p.o = r.o
      BY <2>1
    <3>2. r.o \in 1..written /\ Reached(r.o) /\ r.o \in Nat
      BY <3>1 DEF ChunkInv
    <3>3. Reached(r.o)'
      BY <3>2, ReachedStays
    <3> QED
      BY <1>1, <3>2, <3>3
  <2>2. CASE pc = "replied" /\ reply # "resync" /\ r.o = out.o
    <3>1. out \in Requests
      BY <2>2 DEF Requests, IInv, PassOK
    <3>2. out.o \in 1..written /\ Reached(out.o) /\ out.o \in Nat
      BY <2>2, <3>1 DEF ChunkInv, ChunkRequest
    <3>3. Reached(r.o)'
      BY <2>2, <3>2, ReachedStays
    <3> QED
      BY <1>1, <2>2, <3>2, <3>3
  <2> QED
    BY <1>5, <2>1, <2>2, CursorStep
<1>6. ASSUME pc' = "replied", reply' # "resync" PROVE Reached(out.o)'
  <2>1. CASE pc = "replied" /\ UNCHANGED <<out, reply>>
    <3>1. Reached(out.o) /\ out.o \in Nat
      BY <1>6, <2>1 DEF ChunkInv, IInv, PassOK, Request
    <3>2. PICK n \in Nat : n = out.o
      BY <3>1
    <3>3. Reached(n)'
      BY <3>1, <3>2, ReachedStays
    <3> QED
      BY <2>1, <3>2, <3>3 DEF Reached
  <2>2. CASE Deliver
    <3>1. out.o < written \/ (env' # None /\ out.o <= env'.o)
      BY <1>6, <2>2, OffsetGrows
    <3>2. out' = out /\ written' = written
      BY <2>2 DEF Deliver, tool
    <3> QED
      BY <3>1, <3>2 DEF Reached
  <2> QED
    BY <1>6, <2>1, <2>2, RepliedStep
<1> QED
  BY <1>2, <1>3, <1>4, <1>5, <1>6 DEF ChunkInv

LEMMA ChunkStored ==
    ASSUME IInv, ChunkInv, env # None
    PROVE  env.o \in Nat /\ env.o <= written /\ Stored = 1..env.o /\ Range(env.msgs) = 1..env.o
BY CountsRange DEF ChunkInv, ChunkEnv, Whole, IInv, ServerOK, SoundEnv, Envelope, Stored

LEMMA ChunkHolds ==
    ASSUME IInv, ChunkInv
    PROVE  SkipMeansDelivered
<1> SUFFICES ASSUME SkippedForGood PROVE Range(file) \subseteq Stored
  BY DEF SkipMeansDelivered
<1>1. /\ written \in Nat /\ written > 0 /\ Range(file) = 1..written /\ ver \in Nat
      /\ row \in Row \cup {None}
  BY Facts, CountsRange DEF Size
<1>2. SyncMode(row, written, written, ver, TRUE) = "skip"
  BY Facts DEF SkippedForGood
<1>3. row # None /\ (row.o = 0 \/ row.o = written)
  BY <1>1, <1>2, SkippedRow
<1>4. row.o \in 1..written /\ Reached(row.o)
  BY <1>1, <1>3 DEF ChunkInv, Rows
<1>5. env # None /\ written <= env.o
  BY <1>1, <1>3, <1>4 DEF Reached
<1> QED
  BY <1>1, <1>5, ChunkStored

\* The inductive invariant of a session that is always chunked.
THEOREM ChunkInvariance ==
    ASSUME MaxRewrites = 0, BuildMax = 0
    PROVE  Spec => [](IInv /\ ChunkInv)
<1>1. Init => IInv /\ ChunkInv
  BY InitInv, ChunkInit
<1>2. IInv /\ ChunkInv /\ [Next]_vars => (IInv /\ ChunkInv)'
  BY NextInv, ChunkStep
<1> QED
  BY <1>1, <1>2, PTL DEF Spec

\* The head and the appends of a chunked session (postChunkedHead, postAppend, the
\* staged rebuild of ingestConversation) never leave it skipped with a record
\* missing, whatever is lost or arrives late, and in whatever order.
THEOREM ChunkedIsDelivered ==
    ASSUME MaxRewrites = 0, BuildMax = 0
    PROVE  Spec => []SkipMeansDelivered
<1>1. IInv /\ ChunkInv => SkipMeansDelivered
  BY ChunkHolds
<1> QED
  BY <1>1, ChunkInvariance, PTL

-----------------------------------------------------------------------------
(* What the server holds, step by step *)

Kept == env # None => env' # None /\ Range(env.msgs) \subseteq Range(env'.msgs)

LEMMA StoredKeptStep ==
    ASSUME MaxRewrites = 0, LateArrivals = FALSE, IInv, WholeInv, StoredInv, [Next]_vars
    PROVE  Kept
BY StoredGrows DEF Kept, Stored

LEMMA ChunkKeptStep ==
    ASSUME MaxRewrites = 0, BuildMax = 0, IInv, ChunkInv, [Next]_vars
    PROVE  Kept /\ Stored \subseteq Stored' /\ Stored' \subseteq 1..written'
<1>1. IInv' /\ ChunkInv'
  BY NextInv, ChunkStep
<1>2. env' # None => env'.o \in Nat /\ env'.o <= written' /\ Stored' = 1..env'.o
                     /\ Range(env'.msgs) = 1..env'.o
  BY <1>1, CountsRange
     DEF ChunkInv, ChunkEnv, Whole, IInv, ServerOK, SoundEnv, Envelope, Stored
<1>3. env # None => env.o \in Nat /\ Stored = 1..env.o /\ Range(env.msgs) = 1..env.o
  BY ChunkStored
<1>4. env # None => env' # None /\ env.o <= env'.o
  BY OffsetGrows
<1>5. written' \in Nat
  BY WrittenStep
<1>6. env # None => Stored \subseteq Stored' /\ Range(env.msgs) \subseteq Range(env'.msgs)
  BY <1>2, <1>3, <1>4
<1>7. Stored' \subseteq 1..written'
  <2>1. CASE env' = None
    BY <2>1 DEF Stored
  <2>2. CASE env' # None
    BY <1>2, <1>5, <2>2
  <2> QED
    BY <2>1, <2>2
<1>8. env = None => Stored = {}
  BY DEF Stored
<1> QED
  BY <1>4, <1>6, <1>7, <1>8 DEF Kept

\* The shrink guard and the staged rebuild of ingestConversation: no record the
\* server holds is lost again.  A session built whole, nothing late.
THEOREM WholeIsKept ==
    ASSUME MaxRewrites = 0, MaxRecords <= BuildMax, LateArrivals = FALSE
    PROVE  Spec => StoredIsKept
<1>1. IInv /\ WholeInv /\ StoredInv /\ [Next]_vars => [Kept]_env
  BY StoredKeptStep
<1> QED
  BY <1>1, StoredInvariance, PTL DEF Spec, StoredIsKept, Kept

\* The same of a session that is always chunked, whatever arrives late: a head or an
\* append of a retry never replaces or truncates what the live envelope holds.
THEOREM ChunkedIsKept ==
    ASSUME MaxRewrites = 0, BuildMax = 0
    PROVE  Spec => StoredIsKept
<1>1. IInv /\ ChunkInv /\ [Next]_vars => [Kept]_env
  BY ChunkKeptStep
<1> QED
  BY <1>1, ChunkInvariance, PTL DEF Spec, StoredIsKept, Kept

-----------------------------------------------------------------------------
(* The safety part of TranscriptDelivery, step by step *)

LEMMA DeliveryInit == Init => Delivery!Init
BY DEF Init, Delivery!Init, Stored

\* A step of the tool is a write; any other adds records the tool has written.
LEMMA DeliveryStep ==
    ASSUME MaxRewrites = 0, IInv, [Next]_vars,
           Stored \subseteq Stored', Stored' \subseteq 1..written'
    PROVE  [Delivery!Next]_<<written, Stored>>
<1>1. CASE written' = written
  <2>1. Stored' \in SUBSET (1..written) /\ Stored' = Stored \cup Stored'
    BY <1>1
  <2>2. Delivery!Store
    BY <1>1, <2>1 DEF Delivery!Store
  <2> QED
    BY <2>2 DEF Delivery!Next
<1>2. CASE written' = written + 1
  <2>1. Write
    <3>1. UNCHANGED tool \/ Write \/ GoQuiet
      BY ToolStep
    <3>2. written \in Nat
      BY WrittenStep
    <3> QED
      BY <1>2, <3>1, <3>2 DEF tool, GoQuiet
  <2>2. Delivery!Write
    BY <2>1 DEF Write, Delivery!Write, Stored, server
  <2> QED
    BY <2>2 DEF Delivery!Next
<1> QED
  BY <1>1, <1>2, WrittenStep

\* Sync implements the safety of TranscriptDelivery: the server holds only records
\* the tool wrote and never gives one up.  A session built whole, nothing late.
THEOREM WholeImplementsDelivery ==
    ASSUME MaxRewrites = 0, MaxRecords <= BuildMax, LateArrivals = FALSE
    PROVE  Spec => Delivery!SafeSpec
<1>1. IInv /\ WholeInv /\ StoredInv /\ [Next]_vars => [Delivery!Next]_<<written, Stored>>
  BY StoredGrows, DeliveryStep
<1> QED
  BY <1>1, DeliveryInit, StoredInvariance, PTL DEF Spec, Delivery!SafeSpec

\* The same of a session that is always chunked, whatever arrives late.
THEOREM ChunkedImplementsDelivery ==
    ASSUME MaxRewrites = 0, BuildMax = 0
    PROVE  Spec => Delivery!SafeSpec
<1>1. IInv /\ ChunkInv /\ [Next]_vars => [Delivery!Next]_<<written, Stored>>
  BY ChunkKeptStep, DeliveryStep
<1> QED
  BY <1>1, DeliveryInit, ChunkInvariance, PTL DEF Spec, Delivery!SafeSpec
=============================================================================
