------------------------- MODULE SessionSync_proofs -------------------------
(***************************************************************************)
(* Proofs about SessionSync for a transcript that is only appended to      *)
(* (MaxRewrites = 0): type correctness, and StoredInOrder, the server's    *)
(* offset-continuity guarantee, for every number of records, every chunk   *)
(* window and build limit, and any faults, late arrivals and crashes.      *)
(***************************************************************************)
EXTENDS SessionSync, SequenceTheorems, TLAPS

-----------------------------------------------------------------------------
(* Sequences of records *)

\* The first records written, none missing.
Counts(s) == s \in Seq(Nat) /\ \A i \in 1..Len(s) : s[i] = i

\* The records written after the first b, up to the o-th.
Segment(s, b, o) ==
    /\ s \in Seq(Nat) /\ b <= o /\ Len(s) = o - b
    /\ \A i \in 1..Len(s) : s[i] = b + i

\* The range of the first n records is 1..n.
LEMMA CountsRange ==
    ASSUME NEW s, Counts(s)
    PROVE  Range(s) = 1..Len(s)
<1>1. s \in Seq(Nat) /\ DOMAIN s = 1..Len(s) /\ Len(s) \in Nat
  BY DEF Counts
<1>2. \A i \in 1..Len(s) : s[i] = i
  BY DEF Counts
<1> QED
  BY <1>1, <1>2 DEF Range

\* Merging two states of a transcript that only grew yields the longer one.
LEMMA MergeCounts ==
    ASSUME NEW s, NEW t, Counts(s), Counts(t)
    PROVE  /\ Counts(Merge(s, t))
           /\ Len(t) <= Len(Merge(s, t))
           /\ Len(Merge(s, t)) = Len(s) \/ Len(Merge(s, t)) = Len(t)
<1>1. Len(s) \in Nat /\ Len(t) \in Nat
  BY DEF Counts
<1>2. Range(s) = 1..Len(s) /\ Range(t) = 1..Len(t)
  BY CountsRange
<1>3. CASE Range(s) \subseteq Range(t)
  BY <1>1, <1>3 DEF Merge
<1>4. CASE ~(Range(s) \subseteq Range(t))
  <2>1. Len(t) < Len(s)
    BY <1>1, <1>2, <1>4
  <2>2. Range(t) \subseteq Range(s)
    BY <1>1, <1>2, <2>1
  <2>3. Merge(s, t) = s
    BY <1>4, <2>2 DEF Merge
  <2> QED
    BY <1>1, <2>1, <2>3
<1> QED
  BY <1>3, <1>4

\* A chunk cut out of the first records.
LEMMA CountsSubSeq ==
    ASSUME NEW s, Counts(s), NEW b \in Nat, NEW o \in Nat, b <= o, o <= Len(s)
    PROVE  Segment(SubSeq(s, b + 1, o), b, o)
<1>1. s \in Seq(Nat) /\ Len(s) \in Nat /\ \A i \in 1..Len(s) : s[i] = i
  BY DEF Counts
<1>2. /\ SubSeq(s, b + 1, o) \in Seq(Nat)
      /\ Len(SubSeq(s, b + 1, o)) = o - b
      /\ \A i \in 1..(o - b) : SubSeq(s, b + 1, o)[i] = s[b + i]
  BY <1>1
<1>3. \A i \in 1..(o - b) : b + i \in 1..Len(s)
  BY <1>1
<1> QED
  BY <1>1, <1>2, <1>3 DEF Segment

LEMMA SegmentFromZero ==
    ASSUME NEW s, NEW o \in Nat, Segment(s, 0, o)
    PROVE  Counts(s) /\ Len(s) = o
BY DEF Segment, Counts

\* An append keeps the order when it starts where the conversation ends.
LEMMA InOrderExtended ==
    ASSUME NEW s \in Seq(Nat), NEW t, NEW b \in Nat, NEW o \in Nat,
           InOrder(s, b), Segment(t, b, o)
    PROVE  s \o t \in Seq(Nat) /\ InOrder(s \o t, o)
<1> DEFINE u == s \o t
<1>1. /\ t \in Seq(Nat) /\ b <= o /\ Len(t) \in Nat /\ Len(t) = o - b /\ Len(s) \in Nat
      /\ \A i \in 1..Len(t) : t[i] = b + i
  BY DEF Segment
<1>2. /\ u \in Seq(Nat) /\ Len(u) = Len(s) + Len(t)
      /\ \A i \in 1..Len(s) : u[i] = s[i]
      /\ \A i \in (Len(s) + 1)..Len(u) : u[i] = t[i - Len(s)]
  <2>1. /\ u \in Seq(Nat) /\ Len(u) = Len(s) + Len(t)
        /\ \A i \in 1..(Len(s) + Len(t)) : u[i] = IF i <= Len(s) THEN s[i] ELSE t[i - Len(s)]
    BY <1>1, ConcatProperties
  <2> QED
    BY <1>1, <2>1
<1>3. \A i \in 1..Len(s) : s[i] \in Nat /\ s[i] <= b
  BY DEF InOrder
<1>4. \A i, j \in 1..Len(s) : i < j => s[i] < s[j]
  BY DEF InOrder
<1>5. \A i \in (Len(s) + 1)..Len(u) : u[i] = b + (i - Len(s)) /\ u[i] <= o
  BY <1>1, <1>2
<1>6. \A i \in 1..Len(u) : i \in 1..Len(s) \/ i \in (Len(s) + 1)..Len(u)
  BY <1>1, <1>2
<1>7. DOMAIN u = 1..Len(u)
  BY <1>2
<1>8. \A i \in 1..Len(u) : u[i] <= o
  BY <1>1, <1>2, <1>3, <1>5, <1>6
<1>9. ASSUME NEW i \in 1..Len(u), NEW j \in 1..Len(u), i < j
      PROVE  u[i] < u[j]
  <2>1. CASE j \in 1..Len(s)
    <3>1. i \in 1..Len(s)
      BY <1>1, <1>9, <2>1
    <3> QED
      BY <1>2, <1>4, <1>9, <2>1, <3>1
  <2>2. CASE j \in (Len(s) + 1)..Len(u) /\ i \in 1..Len(s)
    <3>1. u[i] <= b /\ u[i] \in Nat
      BY <1>2, <1>3, <2>2
    <3>2. u[j] = b + (j - Len(s))
      BY <1>5, <2>2
    <3>3. j \in Int /\ Len(s) \in Int /\ Len(s) < j
      BY <1>1, <1>2, <2>2
    <3> QED
      BY <3>1, <3>2, <3>3
  <2>3. CASE j \in (Len(s) + 1)..Len(u) /\ i \in (Len(s) + 1)..Len(u)
    <3>1. u[i] = b + (i - Len(s)) /\ u[j] = b + (j - Len(s))
      BY <1>5, <2>3
    <3>2. i \in Nat /\ j \in Nat
      BY <1>1, <2>3
    <3> QED
      BY <1>1, <1>9, <3>1, <3>2
  <2> QED
    <3>1. i \in 1..Len(s) \/ i \in (Len(s) + 1)..Len(u)
      BY <1>6
    <3>2. j \in 1..Len(s) \/ j \in (Len(s) + 1)..Len(u)
      BY <1>6
    <3> QED
      BY <2>1, <2>2, <2>3, <3>1, <3>2
<1> QED
  BY <1>2, <1>7, <1>8, <1>9 DEF InOrder

LEMMA CountsInOrder ==
    ASSUME NEW s, Counts(s), NEW o \in Nat, Len(s) <= o
    PROVE  s \in Seq(Nat) /\ InOrder(s, o)
<1>1. s \in Seq(Nat) /\ DOMAIN s = 1..Len(s) /\ Len(s) \in Nat /\ \A i \in 1..Len(s) : s[i] = i
  BY DEF Counts
<1> QED
  BY <1>1 DEF InOrder

-----------------------------------------------------------------------------
(* The server *)

\* What a request carries while nothing has been rewritten.
SoundRequest(q) ==
    /\ q \in Request
    /\ q.kind = "append" => Segment(q.msgs, q.base, q.o)
    /\ q.kind # "append" => Counts(q.msgs) /\ Len(q.msgs) <= q.o
    /\ Counts(q.parts)

SoundEnv(e) ==
    /\ e \in Envelope \cup {None}
    /\ e # None => /\ InOrder(e.msgs, e.o)
                   /\ e.rebuild # None => InOrder(e.rebuild.msgs, e.rebuild.o)

SoundArchive(a) == a \in Archive /\ Counts(a.recs)

SoundOutcome(d) == SoundEnv(d.env) /\ SoundArchive(d.arch) /\ d.reply \in Reply

\* An envelope without a rebuild is sound when its messages are in order.
LEMMA PlainEnvelope ==
    ASSUME NEW msgs \in Seq(Nat), NEW o \in Nat, InOrder(msgs, o)
    PROVE  SoundEnv([msgs |-> msgs, o |-> o, rebuild |-> None])
BY DEF SoundEnv, Envelope

LEMMA StoreRawSound ==
    ASSUME NEW a, SoundArchive(a), NEW s, Counts(s), NEW m \in Nat
    PROVE  SoundArchive(StoreRaw(a, s, m))
<1>1. SoundArchive([recs |-> s, m |-> m])
  BY DEF SoundArchive, Archive, Counts
<1> QED
  BY <1>1 DEF StoreRaw

LEMMA PutRawSound ==
    ASSUME NEW a, SoundArchive(a), NEW s, Counts(s), NEW m \in Nat
    PROVE  SoundArchive(PutRaw(a, s, m).arch)
<1>1. Counts(Merge(a.recs, s))
  BY MergeCounts DEF SoundArchive
<1>2. SoundArchive(StoreRaw(a, Merge(a.recs, s), m)) /\ SoundArchive(StoreRaw(a, s, m))
  BY <1>1, StoreRawSound
<1> QED
  BY <1>2 DEF PutRaw

LEMMA IngestFullSound ==
    ASSUME NEW e, SoundEnv(e), NEW a, SoundArchive(a), NEW q, SoundRequest(q), q.kind # "append"
    PROVE  SoundOutcome(IngestFull(e, a, q))
<1> DEFINE raw == IF q.inline THEN PutRaw(a, q.msgs, q.m) ELSE [result |-> "none", arch |-> a]
<1>1. Counts(q.msgs) /\ q.m \in Nat /\ q.o \in Nat /\ Len(q.msgs) <= q.o
  BY DEF SoundRequest, Request
<1>2. SoundArchive(raw.arch)
  BY <1>1, PutRawSound
<1>3. SoundEnv([msgs |-> q.msgs, o |-> q.o, rebuild |-> None])
  BY <1>1, CountsInOrder, PlainEnvelope
<1>4. SoundOutcome(Outcome(e, raw.arch, "guarded"))
  BY <1>2 DEF SoundOutcome, Outcome, Reply
<1>5. SoundOutcome(Outcome([msgs |-> q.msgs, o |-> q.o, rebuild |-> None], raw.arch, "ok"))
  BY <1>2, <1>3 DEF SoundOutcome, Outcome, Reply
<1> QED
  BY <1>4, <1>5 DEF IngestFull

\* Staging beside a stored envelope.
LEMMA StagedSound ==
    ASSUME NEW e, SoundEnv(e), e # None, NEW msgs \in Seq(Nat), NEW o \in Nat, InOrder(msgs, o)
    PROVE  SoundEnv([e EXCEPT !.rebuild = [msgs |-> msgs, o |-> o]])
<1> DEFINE st == [msgs |-> msgs, o |-> o]
<1>1. e \in Envelope /\ InOrder(e.msgs, e.o)
  BY DEF SoundEnv
<1>2. st \in Staged
  BY DEF Staged
<1>3. [e EXCEPT !.rebuild = st] = [msgs |-> e.msgs, o |-> e.o, rebuild |-> st]
  BY <1>1 DEF Envelope
<1>4. [msgs |-> e.msgs, o |-> e.o, rebuild |-> st] \in Envelope
  BY <1>1, <1>2 DEF Envelope
<1> QED
  BY <1>1, <1>3, <1>4 DEF SoundEnv

LEMMA IngestHeadSound ==
    ASSUME NEW e, SoundEnv(e), NEW a, SoundArchive(a), NEW q, SoundRequest(q), q.kind # "append"
    PROVE  SoundOutcome(IngestHead(e, a, q))
<1>1. Counts(q.msgs) /\ q.o \in Nat /\ Len(q.msgs) <= q.o
  BY DEF SoundRequest, Request
<1>2. q.msgs \in Seq(Nat) /\ InOrder(q.msgs, q.o)
  BY <1>1, CountsInOrder
<1>3. SoundEnv([msgs |-> q.msgs, o |-> q.o, rebuild |-> None])
  BY <1>1, <1>2, PlainEnvelope
<1>4. CASE Fewer(q.msgs, e)
  <2>1. SoundEnv([e EXCEPT !.rebuild = [msgs |-> q.msgs, o |-> q.o]])
    BY <1>1, <1>2, <1>4, StagedSound DEF Fewer
  <2> QED
    BY <1>4, <2>1 DEF IngestHead, SoundOutcome, Outcome, Reply
<1>5. CASE ~Fewer(q.msgs, e)
  BY <1>3, <1>5 DEF IngestHead, SoundOutcome, Outcome, Reply
<1> QED
  BY <1>4, <1>5

LEMMA ExtendRebuildSound ==
    ASSUME NEW e, SoundEnv(e), NEW a, SoundArchive(a), NEW q, SoundRequest(q), q.kind = "append",
           ContinuesRebuild(e, q)
    PROVE  SoundOutcome(ExtendRebuild(e, a, q))
<1> DEFINE rebuilt == e.rebuild.msgs \o q.msgs
<1>1. e \in Envelope /\ e # None /\ e.rebuild # None /\ e.rebuild.o = q.base
  BY DEF SoundEnv, ContinuesRebuild
<1>2. e.rebuild \in Staged /\ InOrder(e.rebuild.msgs, e.rebuild.o) /\ InOrder(e.msgs, e.o)
  BY <1>1 DEF Envelope, SoundEnv
<1>3. e.rebuild.msgs \in Seq(Nat) /\ q.o \in Nat /\ q.base \in Nat /\ q.final \in BOOLEAN
  BY <1>2 DEF Staged, SoundRequest, Request
<1>4. rebuilt \in Seq(Nat) /\ InOrder(rebuilt, q.o)
  BY <1>1, <1>2, <1>3, InOrderExtended DEF SoundRequest
<1>5. SoundEnv([e EXCEPT !.rebuild = [msgs |-> rebuilt, o |-> q.o]])
  BY <1>1, <1>3, <1>4, StagedSound
<1>6. SoundEnv([msgs |-> rebuilt, o |-> q.o, rebuild |-> None])
  BY <1>3, <1>4, PlainEnvelope
<1>7. SoundEnv([e EXCEPT !.rebuild = None])
  <2>1. [e EXCEPT !.rebuild = None] = [msgs |-> e.msgs, o |-> e.o, rebuild |-> None]
    BY <1>1 DEF Envelope
  <2>2. e.msgs \in Seq(Nat) /\ e.o \in Nat
    BY <1>1 DEF Envelope
  <2> QED
    BY <1>2, <2>1, <2>2, PlainEnvelope
<1> HIDE DEF rebuilt
<1>8. CASE ~q.final
  <2>1. ExtendRebuild(e, a, q) = Outcome([e EXCEPT !.rebuild = [msgs |-> rebuilt, o |-> q.o]], a, "ok")
    BY <1>3, <1>8 DEF ExtendRebuild, rebuilt
  <2> QED
    BY <1>5, <2>1 DEF SoundOutcome, Outcome, Reply
<1>9. CASE q.final /\ Fewer(rebuilt, e)
  <2>1. ExtendRebuild(e, a, q) = Outcome([e EXCEPT !.rebuild = None], a, "ok")
    BY <1>3, <1>9 DEF ExtendRebuild, rebuilt
  <2> QED
    BY <1>7, <2>1 DEF SoundOutcome, Outcome, Reply
<1>10. CASE q.final /\ ~Fewer(rebuilt, e)
  <2>1. ExtendRebuild(e, a, q) = Outcome([msgs |-> rebuilt, o |-> q.o, rebuild |-> None], a, "ok")
    BY <1>3, <1>10 DEF ExtendRebuild, rebuilt
  <2> QED
    BY <1>6, <2>1 DEF SoundOutcome, Outcome, Reply
<1> QED
  BY <1>3, <1>8, <1>9, <1>10

LEMMA IngestAppendSound ==
    ASSUME NEW e, SoundEnv(e), NEW a, SoundArchive(a), NEW q, SoundRequest(q), q.kind = "append"
    PROVE  SoundOutcome(IngestAppend(e, a, q))
<1>1. CASE ContinuesRebuild(e, q)
  <2>1. IngestAppend(e, a, q) = ExtendRebuild(e, a, q)
    BY <1>1 DEF IngestAppend
  <2> QED
    BY <1>1, <2>1, ExtendRebuildSound
<1>2. CASE ~ContinuesRebuild(e, q) /\ e # None /\ e.o = q.base
  <2>1. e \in Envelope /\ InOrder(e.msgs, e.o)
    BY <1>2 DEF SoundEnv
  <2>2. e.msgs \in Seq(Nat) /\ q.o \in Nat /\ q.base \in Nat
    BY <2>1 DEF Envelope, SoundRequest, Request
  <2>3. (e.msgs \o q.msgs) \in Seq(Nat) /\ InOrder(e.msgs \o q.msgs, q.o)
    BY <1>2, <2>1, <2>2, InOrderExtended DEF SoundRequest
  <2>4. SoundEnv([msgs |-> e.msgs \o q.msgs, o |-> q.o, rebuild |-> None])
    BY <2>2, <2>3, PlainEnvelope
  <2>5. IngestAppend(e, a, q)
          = Outcome([msgs |-> e.msgs \o q.msgs, o |-> q.o, rebuild |-> None], a, "ok")
    BY <1>2 DEF IngestAppend
  <2> QED
    BY <2>4, <2>5 DEF SoundOutcome, Outcome, Reply
<1>3. CASE ~ContinuesRebuild(e, q) /\ ~(e # None /\ e.o = q.base)
  <2>1. IngestAppend(e, a, q) = Outcome(e, a, "resync")
    BY <1>3 DEF IngestAppend
  <2> QED
    BY <2>1 DEF SoundOutcome, Outcome, Reply
<1> QED
  BY <1>1, <1>2, <1>3

\* Whatever request the server serves, its envelope stays in order.
LEMMA IngestSound ==
    ASSUME NEW e, SoundEnv(e), NEW a, SoundArchive(a), NEW q, SoundRequest(q)
    PROVE  SoundOutcome(IngestConversation(e, a, q))
<1>1. q.kind \in {"full", "head", "append"}
  BY DEF SoundRequest, Request
<1>2. CASE q.kind = "append"
  <2>1. IngestConversation(e, a, q) = IngestAppend(e, a, q)
    BY <1>2 DEF IngestConversation
  <2> QED
    BY <1>2, <2>1, IngestAppendSound
<1>3. CASE q.kind = "head"
  <2>1. IngestConversation(e, a, q) = IngestHead(e, a, q)
    BY <1>3 DEF IngestConversation
  <2> QED
    BY <1>3, <2>1, IngestHeadSound
<1>4. CASE q.kind = "full"
  <2>1. IngestConversation(e, a, q) = IngestFull(e, a, q)
    BY <1>4 DEF IngestConversation
  <2> QED
    BY <1>4, <2>1, IngestFullSound
<1> QED
  BY <1>1, <1>2, <1>3, <1>4

-----------------------------------------------------------------------------
(* The ledger row *)

MarkType == [m: Nat, v: Nat, h: Seq(Nat) \cup {None}, o: Nat,
             acked: BOOLEAN, full: BOOLEAN, final: BOOLEAN, head: BOOLEAN]

LEMMA MarksTyped ==
    ASSUME NEW m \in Nat, NEW v \in Nat, NEW h \in Seq(Nat) \cup {None}, NEW o \in Nat,
           NEW final \in BOOLEAN
    PROVE  /\ Mark(m, v, h) \in MarkType
           /\ FullMark(m, v, h, o) \in MarkType
           /\ UnchangedMark(m, v, h, o) \in MarkType
           /\ AppendMark(m, v, o, final) \in MarkType
           /\ HeadMark(m, v, o) \in MarkType
<1>1. \A g \in Seq(Nat) \cup {None} : Mark(m, v, g) \in MarkType
  BY DEF Mark, MarkType
<1>2. \A k \in MarkType : /\ [k EXCEPT !.o = o, !.acked = TRUE] \in MarkType
                          /\ [k EXCEPT !.o = o, !.acked = TRUE, !.full = TRUE] \in MarkType
                          /\ [k EXCEPT !.o = o, !.acked = TRUE, !.final = final] \in MarkType
                          /\ [k EXCEPT !.o = o, !.acked = TRUE, !.head = TRUE] \in MarkType
  BY DEF MarkType
<1> QED
  BY <1>1, <1>2 DEF FullMark, UnchangedMark, AppendMark, HeadMark

LEMMA MarkSyncedTyped ==
    ASSUME NEW r \in Row \cup {None}, NEW k \in MarkType
    PROVE  MarkSynced(r, k) \in Row
<1> DEFINE prev == IF r = None THEN BlankRow ELSE r
           o == IF k.acked THEN k.o ELSE prev.o
           completes == k.acked /\ k.final /\ prev.k
           covers == (k.acked /\ k.full) \/ completes
           kk == k.head \/ (prev.k /\ ~covers)
           F == IF covers /\ o > 0 THEN o ELSE prev.F
<1>1. prev \in Row
  BY DEF Row, BlankRow
<1>2. /\ k.m \in Nat /\ k.v \in Nat /\ k.o \in Nat /\ k.h \in Seq(Nat) \cup {None}
      /\ prev.o \in Nat /\ prev.F \in Nat
  BY <1>1 DEF MarkType, Row
<1>3. o \in Nat
  BY <1>2
<1>4. F \in Nat
  BY <1>2, <1>3
<1>5. kk \in BOOLEAN
  OBVIOUS
<1> HIDE DEF o, kk, F, covers
<1>6. [m |-> k.m, v |-> k.v, o |-> o, h |-> k.h, F |-> F, k |-> kk] \in Row
  BY <1>2, <1>3, <1>4, <1>5 DEF Row
<1>7. MarkSynced(r, k) = [m |-> k.m, v |-> k.v, o |-> o, h |-> k.h, F |-> F, k |-> kk]
  BY Zenon DEF MarkSynced, o, kk, F, covers
<1> QED
  BY <1>6, <1>7

LEMMA ForgetFullCoverageTyped ==
    ASSUME NEW r \in Row \cup {None}
    PROVE  /\ ForgetFullCoverage(r) \in Row \cup {None}
           /\ r # None => ForgetFullCoverage(r) \in Row
<1>1. \A x \in Row : [x EXCEPT !.F = 0, !.h = None] \in Row
  BY DEF Row
<1> QED
  BY <1>1 DEF ForgetFullCoverage

-----------------------------------------------------------------------------
(* The inductive invariant *)

ToolOK ==
    /\ Counts(file) /\ Len(file) = written /\ mtime = written
    /\ written \in 1..MaxRecords /\ quiet \in BOOLEAN

ShadowOK == Counts(shadow) /\ Len(shadow) <= written

LedgerOK ==
    /\ row \in Row \cup {None} /\ disk \in Row \cup {None} /\ ver \in 0..MaxUpgrades
    /\ pc \in {"tail", "unchanged", "upload"} => row # None

\* A whole conversation whose offset is still to be read.
HalfBuilt(q) ==
    /\ q \in Request /\ q.kind = "full"
    /\ Counts(q.msgs) /\ Len(q.msgs) <= written /\ Counts(q.parts)

PassOK ==
    /\ pc \in PC /\ ref \in [m: Nat, quiet: BOOLEAN] /\ tries \in 0..(MaxTries - 1)
    /\ out \in Request \cup {None} /\ (out # None <=> pc \in {"stamp", "send", "replied", "upload"})
    /\ reply \in Reply \cup {None} /\ (reply # None <=> pc \in {"replied", "upload"})

WireOK ==
    /\ pc = "stamp" => HalfBuilt(out)
    /\ pc \in {"send", "replied", "upload"} => SoundRequest(out)
    /\ \A q \in late : SoundRequest(q)

ServerOK == SoundEnv(env) /\ SoundArchive(arch)

CountOK == faults \in 0..MaxFaults /\ crashes \in 0..MaxCrashes

\* Everything a transcript that only grows sends to the server is cut out of
\* the records in the order they were written, so each append continues the
\* one before it wherever the continuity guard lets it in.
IInv == ToolOK /\ ShadowOK /\ LedgerOK /\ PassOK /\ WireOK /\ ServerOK /\ CountOK

LEMMA IInvImpliesTypeOK == IInv => TypeOK
<1> SUFFICES ASSUME IInv PROVE TypeOK
  OBVIOUS
<1>1. file \in Seq(Nat) /\ shadow \in Seq(Nat) /\ mtime \in Nat
  BY DEF IInv, ToolOK, ShadowOK, Counts
<1>2. late \subseteq Request
  BY DEF IInv, WireOK, SoundRequest
<1>3. env \in Envelope \cup {None} /\ arch \in Archive
  BY DEF IInv, ServerOK, SoundEnv, SoundArchive
<1> QED
  BY <1>1, <1>2, <1>3 DEF IInv, ToolOK, LedgerOK, PassOK, CountOK, TypeOK

LEMMA IInvImpliesStoredInOrder == IInv => StoredInOrder
BY DEF IInv, ServerOK, SoundEnv, StoredInOrder

LEMMA InitInv == Init => IInv
<1> SUFFICES ASSUME Init PROVE IInv
  OBVIOUS
<1>1. Counts(<<1>>) /\ Len(<<1>>) = 1 /\ Counts(<<>>) /\ Len(<<>>) = 0
  BY DEF Counts
<1>2. ToolOK /\ ShadowOK
  <2>1. 1 \in 1..MaxRecords
    BY BoundsAssumption
  <2>2. file = <<1>> /\ shadow = <<>> /\ written = 1 /\ mtime = 1 /\ quiet = FALSE
    BY DEF Init
  <2>3. ToolOK
    BY <1>1, <2>1, <2>2 DEF ToolOK
  <2> QED
    BY <1>1, <2>2, <2>3 DEF ShadowOK
<1>3. LedgerOK
  BY BoundsAssumption DEF Init, LedgerOK
<1>4. PassOK
  <2>1. 0 \in 0..(MaxTries - 1)
    BY LimitsAssumption
  <2>2. NoRef \in [m: Nat, quiet: BOOLEAN]
    BY DEF NoRef
  <2> QED
    BY <2>1, <2>2 DEF Init, PassOK, PC
<1>5. WireOK
  BY DEF Init, WireOK
<1>6. ServerOK
  <2>1. SoundArchive(NoArchive)
    BY <1>1 DEF SoundArchive, NoArchive, Archive, Counts
  <2> QED
    BY <2>1 DEF Init, ServerOK, SoundEnv
<1>7. CountOK
  BY BoundsAssumption DEF Init, CountOK
<1> QED
  BY <1>2, <1>3, <1>4, <1>5, <1>6, <1>7 DEF IInv

-----------------------------------------------------------------------------
(* The parts of the invariant that an action leaves alone *)

LEMMA ToolKept == IInv /\ UNCHANGED tool => ToolOK'
BY DEF IInv, ToolOK, tool

LEMMA ShadowKept == IInv /\ UNCHANGED <<tool, shadow>> => ShadowOK'
BY DEF IInv, ShadowOK, tool

LEMMA ServerKept == IInv /\ UNCHANGED server => ServerOK'
BY DEF IInv, ServerOK, server

LEMMA CountKept == IInv /\ UNCHANGED <<faults, crashes>> => CountOK'
BY DEF IInv, CountOK

LEMMA LedgerKept ==
    IInv /\ UNCHANGED <<row, disk, ver>> /\ pc' \notin {"tail", "unchanged", "upload"} => LedgerOK'
BY DEF IInv, LedgerOK

LEMMA LateKept == IInv /\ UNCHANGED late /\ pc' \in {"idle", "listed", "tail", "full", "unchanged"} => WireOK'
BY DEF IInv, WireOK

\* An environment step leaves the pass alone.
LEMMA ClientKept ==
    ASSUME IInv, UNCHANGED <<ver, client>>
    PROVE  LedgerOK' /\ PassOK'
BY DEF IInv, LedgerOK, PassOK, client

\* When a pass leaves the session nothing of it remains.
LEMMA FinishPass == IInv /\ Finish => PassOK' /\ pc' = "idle"
<1> SUFFICES ASSUME IInv, Finish PROVE PassOK' /\ pc' = "idle"
  OBVIOUS
<1>1. 0 \in 0..(MaxTries - 1)
  BY LimitsAssumption
<1>2. NoRef \in [m: Nat, quiet: BOOLEAN]
  BY DEF NoRef
<1> QED
  BY <1>1, <1>2 DEF Finish, Leave, PassOK, PC

\* What the server holds after it has served a sound request.
LEMMA ServedSound ==
    ASSUME IInv, NEW q, SoundRequest(q), Served(q)
    PROVE  ServerOK' /\ IngestConversation(env, arch, q).reply \in Reply
<1>1. SoundOutcome(IngestConversation(env, arch, q))
  BY IngestSound DEF IInv, ServerOK
<1>2. env' = IngestConversation(env, arch, q).env /\ arch' = IngestConversation(env, arch, q).arch
  BY DEF Served
<1> QED
  BY <1>1, <1>2 DEF SoundOutcome, ServerOK

-----------------------------------------------------------------------------
(* The environment *)

LEMMA WriteInv == ASSUME IInv, Write PROVE IInv'
<1>1. ToolOK'
  <2>1. /\ file \in Seq(Nat) /\ Len(file) = written /\ written \in Nat
        /\ \A i \in 1..Len(file) : file[i] = i
    BY DEF IInv, ToolOK, Counts
  <2>2. /\ file' \in Seq(Nat) /\ Len(file') = written + 1
        /\ \A i \in 1..(written + 1) : file'[i] = i
    BY <2>1 DEF Write
  <2>3. written' = written + 1 /\ mtime' = mtime + 1 /\ quiet' = FALSE /\ mtime = written
        /\ written' \in 1..MaxRecords
    BY BoundsAssumption DEF Write, IInv, ToolOK
  <2> QED
    BY <2>1, <2>2, <2>3 DEF ToolOK, Counts
<1>2. ShadowOK'
  BY DEF IInv, ShadowOK, ToolOK, Write, Counts
<1>3. LedgerOK' /\ PassOK'
  BY ClientKept DEF Write
<1>4. WireOK'
  <2>1. HalfBuilt(out) => HalfBuilt(out)'
    BY DEF Write, client, HalfBuilt, IInv, ToolOK, Counts
  <2> QED
    BY <2>1 DEF IInv, WireOK, Write, client
<1>5. ServerOK' /\ CountOK'
  BY ServerKept, CountKept DEF Write
<1> QED
  BY <1>1, <1>2, <1>3, <1>4, <1>5 DEF IInv

\* With no rewrites left to make, the tool makes none.
LEMMA NoRewrite == ASSUME MaxRewrites = 0, IInv PROVE ~Rewrite
BY DEF Rewrite, IInv, ToolOK

LEMMA GoQuietInv == ASSUME IInv, GoQuiet PROVE IInv'
<1>1. ToolOK' /\ ShadowOK'
  BY DEF GoQuiet, IInv, ToolOK, ShadowOK
<1>2. LedgerOK' /\ PassOK'
  BY ClientKept DEF GoQuiet
<1>3. WireOK'
  BY DEF IInv, WireOK, GoQuiet, client, HalfBuilt
<1>4. ServerOK' /\ CountOK'
  BY ServerKept, CountKept DEF GoQuiet
<1> QED
  BY <1>1, <1>2, <1>3, <1>4 DEF IInv

\* Folding the transcript into the shadow leaves its first records in it.
LEMMA MergedShadow ==
    ASSUME IInv
    PROVE  Counts(Merge(shadow, file)) /\ Len(Merge(shadow, file)) <= written
<1>1. Counts(shadow) /\ Counts(file) /\ Len(shadow) <= written /\ Len(file) = written
      /\ written \in Nat
  BY DEF IInv, ShadowOK, ToolOK
<1> QED
  BY <1>1, MergeCounts

LEMMA SnapshotInv == ASSUME IInv, Snapshot PROVE IInv'
<1>1. ToolOK'
  BY ToolKept DEF Snapshot
<1>2. ShadowOK'
  BY MergedShadow DEF Snapshot, ShadowOK, tool
<1>3. LedgerOK' /\ PassOK'
  BY ClientKept DEF Snapshot
<1>4. WireOK'
  BY DEF IInv, WireOK, Snapshot, client, tool, HalfBuilt
<1>5. ServerOK' /\ CountOK'
  BY ServerKept, CountKept DEF Snapshot
<1> QED
  BY <1>1, <1>2, <1>3, <1>4, <1>5 DEF IInv

LEMMA CrashInv == ASSUME IInv, Crash PROVE IInv'
<1>1. PassOK' /\ pc' = "idle"
  BY FinishPass DEF Crash
<1>2. ToolOK' /\ ShadowOK'
  BY ToolKept, ShadowKept DEF Crash
<1>3. LedgerOK'
  BY <1>1 DEF IInv, LedgerOK, Crash
<1>4. WireOK'
  BY <1>1 DEF IInv, WireOK, Crash
<1>5. ServerOK'
  BY ServerKept DEF Crash
<1>6. CountOK'
  BY BoundsAssumption DEF IInv, CountOK, Crash
<1> QED
  BY <1>1, <1>2, <1>3, <1>4, <1>5, <1>6 DEF IInv

LEMMA UpgradeInv == ASSUME IInv, Upgrade PROVE IInv'
<1>1. ToolOK' /\ ShadowOK'
  BY ToolKept, ShadowKept DEF Upgrade
<1>2. LedgerOK'
  BY BoundsAssumption DEF IInv, LedgerOK, Upgrade
<1>3. PassOK'
  BY DEF IInv, PassOK, Upgrade
<1>4. WireOK'
  BY LateKept DEF Upgrade
<1>5. ServerOK' /\ CountOK'
  BY ServerKept, CountKept DEF Upgrade
<1> QED
  BY <1>1, <1>2, <1>3, <1>4, <1>5 DEF IInv

LEMMA FlushInv == ASSUME IInv, Flush PROVE IInv'
<1>1. ToolOK' /\ ShadowOK'
  BY ToolKept, ShadowKept DEF Flush
<1>2. LedgerOK' /\ PassOK'
  BY DEF IInv, LedgerOK, PassOK, Flush
<1>3. WireOK'
  BY DEF IInv, WireOK, HalfBuilt, Flush, tool
<1>4. ServerOK' /\ CountOK'
  BY ServerKept, CountKept DEF Flush
<1> QED
  BY <1>1, <1>2, <1>3, <1>4 DEF IInv

-----------------------------------------------------------------------------
(* The walk *)

LEMMA ListInv == ASSUME IInv, List PROVE IInv'
<1>1. ToolOK' /\ ShadowOK'
  BY ToolKept, ShadowKept DEF List
<1>2. LedgerOK'
  BY LedgerKept DEF List
<1>3. PassOK'
  <2>1. ref' \in [m: Nat, quiet: BOOLEAN]
    BY BoundsAssumption DEF IInv, ToolOK, List
  <2> QED
    BY <2>1 DEF IInv, PassOK, List, PC
<1>4. WireOK'
  BY LateKept DEF List
<1>5. ServerOK' /\ CountOK'
  BY ServerKept, CountKept DEF List
<1> QED
  BY <1>1, <1>2, <1>3, <1>4, <1>5 DEF IInv

\* A pass with no request in its hands that moves on, or leaves.
LEMMA MoveOn ==
    ASSUME IInv, UNCHANGED <<out, tries, reply>>,
           pc \in {"idle", "listed", "tail", "full", "unchanged"},
           Leave \/ (pc' \in {"listed", "tail", "full", "unchanged"} /\ UNCHANGED ref)
    PROVE  PassOK' /\ pc' \in {"idle", "listed", "tail", "full", "unchanged"}
<1>1. NoRef \in [m: Nat, quiet: BOOLEAN]
  BY DEF NoRef
<1> QED
  BY <1>1 DEF IInv, PassOK, Leave, PC

LEMMA DecideInv == ASSUME IInv, Decide PROVE IInv'
<1> DEFINE mode == SyncMode(row, ref.m, Size, ver, ref.quiet \/ (quiet /\ ref.m = mtime))
<1>1. ToolOK' /\ ShadowOK'
  BY ToolKept, ShadowKept DEF Decide
<1>2. \/ Leave
      \/ mode = "append" /\ GoTo("tail")
      \/ GoTo("full")
  BY DEF Decide
<1>3. PassOK' /\ pc' \in {"idle", "listed", "tail", "full", "unchanged"}
  BY <1>2, MoveOn DEF Decide, GoTo
<1>4. mode = "append" => row # None
  BY DEF SyncMode
<1>5. LedgerOK'
  BY <1>2, <1>4 DEF IInv, LedgerOK, Decide, Leave, GoTo
<1>6. WireOK'
  BY <1>3, LateKept DEF Decide
<1>7. ServerOK' /\ CountOK'
  BY ServerKept, CountKept DEF Decide
<1> QED
  BY <1>1, <1>3, <1>5, <1>6, <1>7 DEF IInv

LEMMA PromoteTailInv == ASSUME IInv, PromoteTail PROVE IInv'
<1>1. ToolOK' /\ ShadowOK'
  BY ToolKept, ShadowKept DEF PromoteTail
<1>2. PassOK' /\ pc' = "full"
  BY MoveOn DEF PromoteTail, GoTo
<1>3. LedgerOK'
  BY <1>2, LedgerKept DEF PromoteTail
<1>4. WireOK'
  BY <1>2, LateKept DEF PromoteTail
<1>5. ServerOK' /\ CountOK'
  BY ServerKept, CountKept DEF PromoteTail
<1> QED
  BY <1>1, <1>2, <1>3, <1>4, <1>5 DEF IInv

LEMMA RestampInv == ASSUME IInv, Restamp PROVE IInv'
<1>1. ToolOK' /\ ShadowOK'
  BY ToolKept, ShadowKept DEF Restamp
<1>2. PassOK' /\ pc' = "idle"
  BY MoveOn DEF Restamp, Leave
<1>3. LedgerOK'
  <2>1. row \in Row /\ ref.m \in Nat /\ ver \in Nat /\ Size \in Nat
    BY BoundsAssumption DEF IInv, LedgerOK, PassOK, ToolOK, Counts, Restamp, Size
  <2>2. row.h \in Seq(Nat) \cup {None}
    BY <2>1 DEF Row
  <2>3. /\ UnchangedMark(ref.m, ver, row.h, Size) \in MarkType
        /\ Mark(ref.m, ver, row.h) \in MarkType
    BY <2>1, <2>2, MarksTyped
  <2>4. row' \in Row
    BY <2>1, <2>3, MarkSyncedTyped DEF Restamp
  <2> QED
    BY <1>2, <2>4 DEF IInv, LedgerOK, Restamp
<1>4. WireOK'
  BY <1>2, LateKept DEF Restamp
<1>5. ServerOK' /\ CountOK'
  BY ServerKept, CountKept DEF Restamp
<1> QED
  BY <1>1, <1>2, <1>3, <1>4, <1>5 DEF IInv

\* The request of a chunk: its end is within the transcript.
LEMMA ChunkEndBounds ==
    ASSUME NEW b \in Nat, NEW n \in Nat, n = Size
    PROVE  ChunkEnd(b) \in Nat /\ ChunkEnd(b) <= n
BY LimitsAssumption DEF ChunkEnd

LEMMA NothingCounts == Counts(<<>>) /\ <<>> \in Seq(Nat)
BY DEF Counts

LEMMA BuildTailInv == ASSUME IInv, BuildTail PROVE IInv'
<1> DEFINE end == ChunkEnd(row.o)
           final == (end = Size)
           q == AppendRequest(end)
<1>1. ToolOK' /\ ShadowOK'
  BY ToolKept, ShadowKept DEF BuildTail
<1>2. ServerOK' /\ CountOK'
  BY ServerKept, CountKept DEF BuildTail
<1>3. /\ row \in Row /\ ref.m \in Nat /\ ver \in Nat /\ Size \in Nat /\ Size = Len(file)
      /\ Counts(file) /\ pc = "tail"
  BY BoundsAssumption DEF IInv, LedgerOK, PassOK, ToolOK, Counts, BuildTail, Size
<1>4. row.o \in Nat
  BY <1>3 DEF Row
<1>5. end \in Nat /\ end <= Len(file)
  BY <1>3, <1>4, ChunkEndBounds
<1>6. CASE end <= row.o
  <2>1. /\ row' = MarkSynced(row, Mark(ref.m, ver, None)) /\ Leave
        /\ UNCHANGED <<out, tries, reply, late, ver, disk>>
    BY <1>4, <1>5, <1>6 DEF BuildTail
  <2>2. PassOK' /\ pc' = "idle"
    BY <1>3, <2>1, MoveOn DEF Leave
  <2>3. Mark(ref.m, ver, None) \in MarkType
    BY <1>3, MarksTyped
  <2>4. row' \in Row
    BY <1>3, <2>1, <2>3, MarkSyncedTyped
  <2>5. LedgerOK'
    BY <2>1, <2>2, <2>4 DEF IInv, LedgerOK
  <2>6. WireOK'
    BY <2>1, <2>2, LateKept
  <2> QED
    BY <1>1, <1>2, <2>2, <2>5, <2>6 DEF IInv
<1>7. CASE end > row.o
  <2>1. /\ out' = q /\ pc' = "send" /\ UNCHANGED <<row, ref, tries, reply, late, ver, disk>>
    BY <1>4, <1>5, <1>7 DEF BuildTail, GoTo
  <2>2. Segment(SubSeq(file, row.o + 1, end), row.o, end)
    BY <1>3, <1>4, <1>5, <1>7, CountsSubSeq
  <2>3. SubSeq(file, row.o + 1, end) \in Seq(Nat)
    BY <2>2 DEF Segment
  <2>4. final \in BOOLEAN
    OBVIOUS
  <2>5. q = [kind |-> "append", msgs |-> SubSeq(file, row.o + 1, end), base |-> row.o, o |-> end,
             final |-> final, m |-> ref.m, inline |-> FALSE, hash |-> None, parts |-> <<>>]
    BY DEF AppendRequest
  <2> HIDE DEF final, q
  <2>6. q \in Request
    BY <1>3, <1>4, <1>5, <2>3, <2>4, <2>5, NothingCounts DEF Request
  <2>7. SoundRequest(q)
    BY <2>2, <2>5, <2>6, NothingCounts DEF SoundRequest
  <2>8. WireOK'
    BY <2>1, <2>7 DEF IInv, WireOK
  <2>9. PassOK'
    BY <1>3, <2>1, <2>6, NoneAssumption DEF IInv, PassOK, PC
  <2>10. LedgerOK'
    BY <2>1, LedgerKept
  <2> QED
    BY <1>1, <1>2, <2>8, <2>9, <2>10 DEF IInv
<1> QED
  BY <1>4, <1>5, <1>6, <1>7

LEMMA BuildFullInv == ASSUME IInv, BuildFull PROVE IInv'
<1> DEFINE fullest == Merge(shadow, file)
           inline == Len(fullest) <= InlineMax
           parts == IF inline THEN <<>> ELSE fullest
           q == FullRequest(fullest, inline)
<1>1. ToolOK' /\ ServerOK' /\ CountOK'
  BY ToolKept, ServerKept, CountKept DEF BuildFull
<1>2. ref.m \in Nat /\ ver \in Nat /\ file \in Seq(Nat) /\ pc = "full"
  BY BoundsAssumption DEF IInv, LedgerOK, PassOK, ToolOK, Counts, BuildFull
<1>3. CASE /\ PriorHash = file
           /\ GoTo("unchanged")
           /\ UNCHANGED <<shadow, out>>
  <2>1. pc' = "unchanged" /\ UNCHANGED ref
    BY <1>3 DEF GoTo
  <2>2. PassOK'
    BY <1>2, <1>3, <2>1, MoveOn DEF BuildFull
  <2>3. row # None
    BY <1>2, <1>3, NothingCounts, NoneAssumption DEF PriorHash
  <2>4. LedgerOK'
    BY <2>1, <2>3 DEF IInv, LedgerOK, BuildFull
  <2>5. WireOK'
    BY <2>1, LateKept DEF BuildFull
  <2>6. ShadowOK'
    BY <1>3, ShadowKept DEF BuildFull
  <2> QED
    BY <1>1, <2>2, <2>4, <2>5, <2>6 DEF IInv
<1>4. CASE shadow' = Merge(shadow, file) /\ out' = q /\ GoTo("stamp")
  <2>1. pc' = "stamp" /\ UNCHANGED <<ref, tries, reply, late, ver, row, disk, tool>>
    BY <1>4 DEF GoTo, BuildFull
  <2>2. Counts(fullest) /\ Len(fullest) <= written /\ fullest \in Seq(Nat)
    BY MergedShadow DEF Counts
  <2>3. ShadowOK'
    BY <1>4, <2>1, <2>2 DEF ShadowOK, tool
  <2>4. LedgerOK'
    BY <2>1, LedgerKept
  <2>5. inline \in BOOLEAN /\ Counts(parts) /\ parts \in Seq(Nat)
    BY <2>2, NothingCounts
  <2>6. q = [kind |-> "full", msgs |-> fullest, base |-> 0, o |-> 0, final |-> FALSE,
             m |-> ref.m, inline |-> inline, hash |-> file, parts |-> parts]
    BY DEF FullRequest
  <2> HIDE DEF fullest, inline, parts, q
  <2>7. q \in Request
    BY <1>2, <2>2, <2>5, <2>6 DEF Request
  <2>8. q.kind = "full" /\ q.msgs = fullest /\ q.parts = parts
    BY <2>6
  <2>9. HalfBuilt(out)'
    <3>1. out' = q /\ written' = written
      BY <1>4, <2>1 DEF tool
    <3> QED
      BY <2>2, <2>5, <2>7, <2>8, <3>1 DEF HalfBuilt
  <2>10. WireOK'
    BY <1>4, <2>1, <2>9 DEF IInv, WireOK
  <2>11. PassOK'
    BY <1>2, <1>4, <2>1, <2>7, NoneAssumption DEF IInv, PassOK, PC
  <2> QED
    BY <1>1, <2>3, <2>4, <2>10, <2>11 DEF IInv
<1> QED
  BY <1>3, <1>4 DEF BuildFull

LEMMA StampOffsetInv == ASSUME IInv, StampOffset PROVE IInv'
<1>1. ToolOK' /\ ShadowOK'
  BY ToolKept, ShadowKept DEF StampOffset
<1>2. ServerOK' /\ CountOK'
  BY ServerKept, CountKept DEF StampOffset
<1>3. /\ HalfBuilt(out) /\ out \in Request /\ Size \in Nat /\ Size = written
      /\ pc = "stamp" /\ pc' = "send" /\ UNCHANGED <<ref, tries, reply, row, disk, ver, late>>
      /\ out' = [out EXCEPT !.o = Size]
  BY DEF IInv, WireOK, ToolOK, Counts, StampOffset, GoTo, Size, HalfBuilt
<1>4. out' \in Request
  BY <1>3 DEF Request
<1>5. out'.kind = "full" /\ out'.msgs = out.msgs /\ out'.parts = out.parts /\ out'.o = Size
  BY <1>3 DEF Request, HalfBuilt
<1>6. SoundRequest(out)'
  <2>1. Counts(out.msgs) /\ Len(out.msgs) <= Size /\ Counts(out.parts)
    BY <1>3 DEF HalfBuilt
  <2> QED
    BY <1>4, <1>5, <2>1 DEF SoundRequest
<1>7. WireOK'
  BY <1>3, <1>6 DEF IInv, WireOK
<1>8. PassOK'
  BY <1>3, <1>4, NoneAssumption DEF IInv, PassOK, PC
<1>9. LedgerOK'
  BY <1>3, LedgerKept
<1> QED
  BY <1>1, <1>2, <1>7, <1>8, <1>9 DEF IInv

LEMMA BuildHeadInv == ASSUME IInv, BuildHead PROVE IInv'
<1> DEFINE end == ChunkEnd(0)
           q == HeadRequest(end)
<1>1. ToolOK' /\ ShadowOK'
  BY ToolKept, ShadowKept DEF BuildHead
<1>2. ServerOK' /\ CountOK'
  BY ServerKept, CountKept DEF BuildHead
<1>3. /\ pc' = "send" /\ UNCHANGED <<ref, tries, reply, row, disk, ver, late>>
      /\ pc = "full" /\ ref.m \in Nat /\ Size \in Nat /\ Size = Len(file) /\ Counts(file)
      /\ file \in Seq(Nat)
  BY DEF IInv, PassOK, ToolOK, Counts, BuildHead, GoTo, Size
<1>4. end \in Nat /\ end <= Len(file)
  BY <1>3, ChunkEndBounds
<1>5. Counts(SubSeq(file, 1, end)) /\ Len(SubSeq(file, 1, end)) = end
  <2>1. Segment(SubSeq(file, 0 + 1, end), 0, end)
    BY <1>3, <1>4, CountsSubSeq
  <2>2. 0 + 1 = 1
    OBVIOUS
  <2> QED
    BY <1>4, <2>1, <2>2, SegmentFromZero
<1>6. q = [kind |-> "head", msgs |-> SubSeq(file, 1, end), base |-> 0, o |-> end,
           final |-> FALSE, m |-> ref.m, inline |-> FALSE, hash |-> None, parts |-> file]
  BY DEF HeadRequest
<1>7. out' = q
  BY DEF BuildHead
<1> HIDE DEF q, end
<1>8. q \in Request
  BY <1>3, <1>4, <1>5, <1>6 DEF Request, Counts
<1>9. SoundRequest(q)
  BY <1>3, <1>4, <1>5, <1>6, <1>8 DEF SoundRequest
<1>10. WireOK'
  BY <1>3, <1>7, <1>9 DEF IInv, WireOK
<1>11. PassOK'
  BY <1>3, <1>7, <1>8, NoneAssumption DEF IInv, PassOK, PC
<1>12. LedgerOK'
  BY <1>3, LedgerKept
<1> QED
  BY <1>1, <1>2, <1>10, <1>11, <1>12 DEF IInv

-----------------------------------------------------------------------------
(* The wire *)

LEMMA DeliverInv == ASSUME IInv, Deliver PROVE IInv'
<1>1. ToolOK' /\ ShadowOK' /\ CountOK'
  BY ToolKept, ShadowKept, CountKept DEF Deliver
<1>2. /\ pc = "send" /\ pc' = "replied" /\ UNCHANGED <<ref, out, tries, row, disk, ver, late>>
      /\ reply' = IngestConversation(env, arch, out).reply
  BY DEF Deliver, GoTo
<1>3. SoundRequest(out)
  BY <1>2 DEF IInv, WireOK
<1>4. ServerOK' /\ reply' \in Reply
  BY <1>2, <1>3, ServedSound DEF Deliver
<1>5. PassOK'
  BY <1>2, <1>4, NoneAssumption DEF IInv, PassOK, PC
<1>6. LedgerOK' /\ WireOK'
  BY <1>2, <1>3, LedgerKept DEF IInv, WireOK
<1> QED
  BY <1>1, <1>4, <1>5, <1>6 DEF IInv

\* A failed attempt leaves the same request to be sent, or nothing.
LEMMA AttemptFailsPass ==
    ASSUME IInv, AttemptFails, pc \in {"send", "replied"}
    PROVE  /\ PassOK' /\ faults' \in 0..MaxFaults
           /\ pc' = "idle" \/ (pc' = "send" /\ out' = out)
<1>1. faults' \in 0..MaxFaults
  BY BoundsAssumption DEF IInv, CountOK, AttemptFails
<1>2. CASE Finish
  BY <1>1, <1>2, FinishPass
<1>3. CASE GoTo("send") /\ tries + 1 < MaxTries /\ tries' = tries + 1 /\ reply' = None /\ UNCHANGED out
  <2>1. tries' \in 0..(MaxTries - 1)
    BY <1>3, LimitsAssumption DEF IInv, PassOK
  <2>2. pc' = "send" /\ UNCHANGED ref
    BY <1>3 DEF GoTo
  <2>3. PassOK'
    BY <1>3, <2>1, <2>2 DEF IInv, PassOK, PC
  <2> QED
    BY <1>1, <1>3, <2>2, <2>3
<1> QED
  BY <1>2, <1>3 DEF AttemptFails

LEMMA LoseInv == ASSUME IInv, LoseRequest \/ LoseReply PROVE IInv'
<1>1. /\ pc \in {"send", "replied"} /\ AttemptFails
      /\ UNCHANGED <<tool, shadow, ver, row, disk, late, server, crashes>>
  BY DEF LoseRequest, LoseReply
<1>2. ToolOK' /\ ShadowOK' /\ ServerOK'
  BY <1>1, ToolKept, ShadowKept, ServerKept
<1>3. PassOK' /\ CountOK' /\ (pc' = "idle" \/ (pc' = "send" /\ out' = out))
  BY <1>1, AttemptFailsPass DEF IInv, CountOK
<1>4. LedgerOK'
  BY <1>1, <1>3, LedgerKept
<1>5. WireOK'
  BY <1>1, <1>3 DEF IInv, WireOK
<1> QED
  BY <1>2, <1>3, <1>4, <1>5 DEF IInv

LEMMA TimeOutInv == ASSUME IInv, TimeOut PROVE IInv'
<1>1. ToolOK' /\ ShadowOK' /\ ServerOK'
  BY ToolKept, ShadowKept, ServerKept DEF TimeOut
<1>2. PassOK' /\ CountOK' /\ (pc' = "idle" \/ (pc' = "send" /\ out' = out))
  BY AttemptFailsPass DEF TimeOut, IInv, CountOK
<1>3. LedgerOK'
  BY <1>2, LedgerKept DEF TimeOut
<1>4. WireOK'
  BY <1>2 DEF TimeOut, IInv, WireOK
<1> QED
  BY <1>1, <1>2, <1>3, <1>4 DEF IInv

LEMMA LateDeliverInv == ASSUME IInv, LateDeliver PROVE IInv'
<1>1. ToolOK' /\ ShadowOK' /\ CountOK'
  BY ToolKept, ShadowKept, CountKept DEF LateDeliver
<1>2. LedgerOK' /\ PassOK'
  BY ClientKept DEF LateDeliver
<1>3. PICK q \in late : Served(q) /\ late' = late \ {q}
  BY DEF LateDeliver
<1>4. SoundRequest(q)
  BY <1>3 DEF IInv, WireOK
<1>5. ServerOK'
  BY <1>3, <1>4, ServedSound
<1>6. WireOK'
  <2>1. UNCHANGED <<pc, out, written>>
    BY DEF LateDeliver, client, tool
  <2> QED
    BY <1>3, <2>1 DEF IInv, WireOK, HalfBuilt
<1> QED
  BY <1>1, <1>2, <1>5, <1>6 DEF IInv

-----------------------------------------------------------------------------
(* The acknowledgement *)

\* A pass that acts on a reply either leaves or goes on to the upload.
LEMMA AckPass ==
    ASSUME IInv, pc = "replied",
           Finish \/ (GoTo("upload") /\ UNCHANGED <<out, tries, reply>>),
           row' \in Row, UNCHANGED <<disk, ver, late>>
    PROVE  PassOK' /\ LedgerOK' /\ WireOK'
<1>1. CASE Finish
  <2>1. PassOK' /\ pc' = "idle"
    BY <1>1, FinishPass
  <2> QED
    BY <2>1, LateKept DEF IInv, LedgerOK
<1>2. CASE GoTo("upload") /\ UNCHANGED <<out, tries, reply>>
  <2>1. pc' = "upload" /\ UNCHANGED <<ref, out, tries, reply>>
    BY <1>2 DEF GoTo
  <2>2. PassOK'
    BY <2>1 DEF IInv, PassOK, PC
  <2>3. LedgerOK'
    BY <2>1, NoRowAssumption DEF IInv, LedgerOK
  <2>4. WireOK'
    BY <2>1 DEF IInv, WireOK
  <2> QED
    BY <2>2, <2>3, <2>4
<1> QED
  BY <1>1, <1>2

\* What the marks of an acknowledged request are made of.
LEMMA OutFields ==
    ASSUME IInv, out # None
    PROVE  /\ out \in Request /\ out.m \in Nat /\ out.o \in Nat /\ out.final \in BOOLEAN
           /\ out.hash \in Seq(Nat) \cup {None} /\ ver \in Nat /\ row \in Row \cup {None}
BY BoundsAssumption DEF IInv, PassOK, LedgerOK, Request

LEMMA AckFullInv == ASSUME IInv, AckFull PROVE IInv'
<1>1. ToolOK' /\ ShadowOK' /\ ServerOK' /\ CountOK'
  BY ToolKept, ShadowKept, ServerKept, CountKept DEF AckFull
<1>2. pc = "replied" /\ out # None
  BY DEF AckFull, IInv, PassOK
<1>3. FullMark(out.m, ver, out.hash, out.o) \in MarkType /\ row \in Row \cup {None}
  BY <1>2, OutFields, MarksTyped
<1>4. row' \in Row
  BY <1>3, MarkSyncedTyped DEF AckFull
<1>5. PassOK' /\ LedgerOK' /\ WireOK'
  BY <1>2, <1>4, AckPass DEF AckFull
<1> QED
  BY <1>1, <1>5 DEF IInv

LEMMA AckHeadInv == ASSUME IInv, AckHead PROVE IInv'
<1>1. ToolOK' /\ ShadowOK' /\ ServerOK' /\ CountOK'
  BY ToolKept, ShadowKept, ServerKept, CountKept DEF AckHead
<1>2. pc = "replied" /\ out # None
  BY DEF AckHead, IInv, PassOK
<1>3. HeadMark(out.m, ver, out.o) \in MarkType /\ row \in Row \cup {None}
  BY <1>2, OutFields, MarksTyped
<1>4. row' \in Row
  BY <1>3, MarkSyncedTyped DEF AckHead
<1>5. PassOK' /\ LedgerOK' /\ WireOK'
  BY <1>2, <1>4, AckPass DEF AckHead
<1> QED
  BY <1>1, <1>5 DEF IInv

LEMMA AckAppendInv == ASSUME IInv, AckAppend PROVE IInv'
<1>1. ToolOK' /\ ShadowOK' /\ ServerOK' /\ CountOK'
  BY ToolKept, ShadowKept, ServerKept, CountKept DEF AckAppend
<1>2. pc = "replied" /\ out # None
  BY DEF AckAppend, IInv, PassOK
<1>3. AppendMark(out.m, ver, out.o, out.final) \in MarkType /\ row \in Row \cup {None}
  BY <1>2, OutFields, MarksTyped
<1>4. row' \in Row \cup {None}
  BY <1>3, MarkSyncedTyped DEF AckAppend
<1>5. PassOK' /\ pc' = "idle"
  BY FinishPass DEF AckAppend
<1>6. LedgerOK' /\ WireOK'
  BY <1>4, <1>5, LateKept DEF AckAppend, IInv, LedgerOK
<1> QED
  BY <1>1, <1>5, <1>6 DEF IInv

LEMMA UploadPartsInv == ASSUME IInv, UploadParts PROVE IInv'
<1>1. ToolOK' /\ ShadowOK' /\ CountOK'
  BY ToolKept, ShadowKept, CountKept DEF UploadParts
<1>2. PassOK' /\ pc' = "idle"
  BY FinishPass DEF UploadParts
<1>3. LedgerOK' /\ WireOK'
  BY <1>2, LedgerKept, LateKept DEF UploadParts
<1>4. SoundRequest(out) /\ out.m \in Nat
  BY DEF UploadParts, IInv, WireOK, SoundRequest, Request
<1>5. ServerOK'
  <2>1. SoundArchive(StoreRaw(arch, out.parts, out.m))
    BY <1>4, StoreRawSound DEF IInv, ServerOK, SoundRequest
  <2> QED
    BY <2>1 DEF UploadParts, IInv, ServerOK
<1> QED
  BY <1>1, <1>2, <1>3, <1>5 DEF IInv

LEMMA UploadMissedInv == ASSUME IInv, WalkFails \/ UploadFails PROVE IInv'
<1>1. /\ Finish /\ faults < MaxFaults /\ faults' = faults + 1
      /\ row' = row \/ row' = ForgetFullCoverage(row)
      /\ UNCHANGED <<tool, shadow, ver, disk, late, server, crashes>>
  BY DEF WalkFails, UploadFails
<1>2. ToolOK' /\ ShadowOK' /\ ServerOK'
  BY <1>1, ToolKept, ShadowKept, ServerKept
<1>3. CountOK'
  BY <1>1, BoundsAssumption DEF IInv, CountOK
<1>4. PassOK' /\ pc' = "idle"
  BY <1>1, FinishPass
<1>5. row' \in Row \cup {None}
  BY <1>1, ForgetFullCoverageTyped DEF IInv, LedgerOK
<1>6. LedgerOK' /\ WireOK'
  BY <1>1, <1>4, <1>5, LateKept DEF IInv, LedgerOK
<1> QED
  BY <1>2, <1>3, <1>4, <1>6 DEF IInv

-----------------------------------------------------------------------------
(* The theorems *)

LEMMA StutterInv == ASSUME IInv, UNCHANGED vars PROVE IInv'
<1>1. ToolOK' /\ ShadowOK' /\ ServerOK' /\ CountOK'
  BY ToolKept, ShadowKept, ServerKept, CountKept DEF vars
<1>2. LedgerOK' /\ PassOK'
  BY ClientKept DEF vars
<1>3. WireOK'
  BY DEF vars, client, tool, IInv, WireOK, HalfBuilt
<1> QED
  BY <1>1, <1>2, <1>3 DEF IInv

LEMMA NextInv == ASSUME MaxRewrites = 0, IInv, [Next]_vars PROVE IInv'
<1>1. CASE Environment
  BY <1>1, NoRewrite, WriteInv, GoQuietInv, SnapshotInv, CrashInv, UpgradeInv DEF Environment
<1>2. CASE Faults
  BY <1>2, LoseInv, TimeOutInv, UploadMissedInv DEF Faults
<1>3. CASE Pass
  BY <1>3, ListInv, DecideInv, BuildTailInv, PromoteTailInv, BuildFullInv, StampOffsetInv,
     BuildHeadInv, RestampInv, DeliverInv, AckFullInv, AckHeadInv, AckAppendInv, UploadPartsInv
     DEF Pass
<1>4. CASE LateDeliver \/ Flush
  BY <1>4, LateDeliverInv, FlushInv
<1>5. CASE UNCHANGED vars
  BY <1>5, StutterInv
<1> QED
  BY <1>1, <1>2, <1>3, <1>4, <1>5 DEF Next

\* The inductive invariant of a transcript that is only appended to.
THEOREM Invariance == ASSUME MaxRewrites = 0 PROVE Spec => []IInv
<1>1. Init => IInv
  BY InitInv
<1>2. IInv /\ [Next]_vars => IInv'
  BY NextInv
<1> QED
  BY <1>1, <1>2, PTL DEF Spec

\* Every variable keeps its type, a request exists exactly while one is built,
\* shipped or followed up, and a reply exactly while it is acted on.
THEOREM TypeCorrect == ASSUME MaxRewrites = 0 PROVE Spec => []TypeOK
BY Invariance, IInvImpliesTypeOK, PTL

\* The offset-continuity guard of ingestConversation keeps the stored conversation
\* and a staged rebuild in the order of writing, no record twice: for any chunk
\* window and build limit, with requests lost, replies lost, requests served late
\* and collectors that die with an unflushed ledger.
THEOREM ContinuityKeepsOrder == ASSUME MaxRewrites = 0 PROVE Spec => []StoredInOrder
BY Invariance, IInvImpliesStoredInOrder, PTL
=============================================================================
