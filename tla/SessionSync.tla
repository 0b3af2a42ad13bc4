----------------------------- MODULE SessionSync -----------------------------
(***************************************************************************)
(* One session's journey from its transcript file to one server: the       *)
(* collector's walk (cli/src/sync-client.ts), its ledger row, the shadow   *)
(* archive, the requests on the wire and the server's ingest.              *)
(*                                                                         *)
(* A tool writes the transcript all the while, and may rewrite it shorter. *)
(* A pass lists the session, classifies it, builds a request over several  *)
(* reads of the file, ships it and acts on the reply; other passes, other  *)
(* sessions and the tool run between any two of these steps.  A request or *)
(* a reply may be lost, a request that timed out may be served later, and  *)
(* the collector may die at any point and keep only the ledger it flushed. *)
(***************************************************************************)
EXTENDS SyncLedger, Ingest, FiniteSets

CONSTANTS
    MaxRecords,    \* bound: records the tool writes
    MaxRewrites,   \* bound: times the tool rewrites the transcript shorter
    GuardWins,     \* the resume guard snapshots the transcript before every rewrite
    Window,        \* SYNC_CHUNK_BYTES: records one chunk carries
    BuildMax,      \* FULL_BUILD_MAX_BYTES: records beyond which a session is chunked
    InlineMax,     \* records beyond which the raw archive ships in parts
    MaxTries,      \* attempts post() makes
    MaxFaults,     \* bound: failed attempts in a behaviour
    LateArrivals,  \* a request that timed out may still reach the server
    MaxCrashes,    \* bound: deaths of the collector
    MaxUpgrades    \* bound: extractor versions released

ASSUME BoundsAssumption ==
    /\ MaxRecords \in Nat \ {0} /\ MaxRewrites \in Nat /\ MaxFaults \in Nat
    /\ MaxCrashes \in Nat /\ MaxUpgrades \in Nat
ASSUME LimitsAssumption ==
    /\ Window \in Nat \ {0} /\ BuildMax \in Nat /\ InlineMax \in Nat
    /\ MaxTries \in Nat \ {0}
ASSUME SwitchAssumption == GuardWins \in BOOLEAN /\ LateArrivals \in BOOLEAN
ASSUME NoneAssumption ==
    /\ None \notin Envelope /\ None \notin Staged
    /\ None \notin Request /\ None \notin Reply /\ None \notin Seq(Nat)

VARIABLES
    file,      \* the transcript
    written,   \* records written so far; the next record is written + 1
    mtime,     \* of the transcript: every write moves it
    quiet,     \* no write for SETTLE_QUIET_MS
    shadow,    \* the shadow archive
    ver,       \* the running extractor version
    row, disk, \* the ledger row: in the collector's cache, and on disk
    pc,        \* where the pass is
    ref,       \* what the pass listed: the mtime, and was it SETTLE_QUIET_MS old
    out,       \* the request being built or shipped
    tries,     \* attempts made with it
    reply,     \* what the server answered
    late,      \* requests that timed out and are still on their way
    env, arch, \* the server's envelope and raw archive
    faults, crashes

tool == <<file, written, mtime, quiet>>
client == <<row, disk, pc, ref, out, tries, reply>>
server == <<env, arch>>
vars == <<tool, shadow, ver, client, late, server, faults, crashes>>

NoRef == [m |-> 0, quiet |-> FALSE]
PC == {"idle", "listed", "tail", "full", "unchanged", "stamp", "send", "replied", "upload"}

Size == Len(file)

Init ==
    /\ file = <<1>> /\ written = 1 /\ mtime = 1 /\ quiet = FALSE
    /\ shadow = <<>>
    /\ ver = 0
    /\ row = None /\ disk = None
    /\ pc = "idle" /\ ref = NoRef /\ out = None /\ tries = 0 /\ reply = None
    /\ late = {}
    /\ env = None /\ arch = NoArchive
    /\ faults = 0 /\ crashes = 0

-----------------------------------------------------------------------------
(* The tool, the clock and the resume guard *)

Write ==
    /\ written < MaxRecords
    /\ file' = Append(file, written + 1)
    /\ written' = written + 1
    /\ mtime' = mtime + 1
    /\ quiet' = FALSE
    /\ UNCHANGED <<shadow, ver, client, late, server, faults, crashes>>

\* A resume that rewrites the transcript in place keeps a part of it.
Rewrite ==
    /\ mtime - written < MaxRewrites
    /\ GuardWins => Range(file) \subseteq Range(shadow)
    /\ \E i, j \in 1..Size :
          /\ i <= j /\ j - i + 1 < Size
          /\ file' = SubSeq(file, i, j)
    /\ mtime' = mtime + 1
    /\ quiet' = FALSE
    /\ UNCHANGED <<written, shadow, ver, client, late, server, faults, crashes>>

GoQuiet ==
    /\ ~quiet
    /\ quiet' = TRUE
    /\ UNCHANGED <<file, written, mtime, shadow, ver, client, late, server, faults, crashes>>

\* snapshotShadow, on a resume signal (indexer.ts, onResumeSignal).
Snapshot ==
    /\ shadow' = Merge(shadow, file)
    /\ UNCHANGED <<tool, ver, client, late, server, faults, crashes>>

-----------------------------------------------------------------------------
(* The walk: list, classify, build *)

GoTo(l) == pc' = l /\ UNCHANGED ref

\* The pass leaves this session.
Leave == pc' = "idle" /\ ref' = NoRef
Finish == Leave /\ out' = None /\ tries' = 0 /\ reply' = None

List ==
    /\ pc = "idle"
    /\ ref' = [m |-> mtime, quiet |-> quiet]
    /\ pc' = "listed"
    /\ UNCHANGED <<tool, shadow, ver, row, disk, out, tries, reply, late, server, faults, crashes>>

\* modeOf: the size is read now, the mtime is the listing's.
Decide ==
    /\ pc = "listed"
    /\ LET mode == SyncMode(row, ref.m, Size, ver, ref.quiet \/ (quiet /\ ref.m = mtime))
       IN  \/ mode = "skip" /\ Leave
           \/ mode = "append" /\ GoTo("tail")
           \/ mode = "full" /\ GoTo("full")
    /\ UNCHANGED <<tool, shadow, ver, row, disk, out, tries, reply, late, server, faults, crashes>>

BuildSize == IF Len(shadow) > Size THEN Len(shadow) ELSE Size
Oversized == BuildSize > BuildMax

\* Where a chunk that starts at offset b ends.
ChunkEnd(b) == IF b + Window < Size THEN b + Window ELSE Size

AppendRequest(end) ==
    [kind |-> "append", msgs |-> SubSeq(file, row.o + 1, end), base |-> row.o, o |-> end,
     final |-> end = Size, m |-> ref.m, inline |-> FALSE, hash |-> None, parts |-> <<>>]

\* Mutant: what is on disk ships, not the fullest state known.
FullRequestFromDisk(fullest, inline) ==
    [kind |-> "full", msgs |-> file, base |-> 0, o |-> 0,
     final |-> FALSE, m |-> ref.m, inline |-> inline, hash |-> file,
     parts |-> IF inline THEN <<>> ELSE file]

\* Its offset is read later, when the rest of the request is built.
FullRequest(fullest, inline) ==
    [kind |-> "full", msgs |-> fullest, base |-> 0, o |-> 0,
     final |-> FALSE, m |-> ref.m, inline |-> inline, hash |-> file,
     parts |-> IF inline THEN <<>> ELSE fullest]

\* Mutant: the head claims the whole file.
HeadRequestToEnd(end) ==
    [kind |-> "head", msgs |-> SubSeq(file, 1, end), base |-> 0, o |-> Size,
     final |-> FALSE, m |-> ref.m, inline |-> FALSE, hash |-> None, parts |-> file]

HeadRequest(end) ==
    [kind |-> "head", msgs |-> SubSeq(file, 1, end), base |-> 0, o |-> end,
     final |-> FALSE, m |-> ref.m, inline |-> FALSE, hash |-> None, parts |-> file]

\* buildConversationTail: one chunk from the cursor.  Nothing there, and the
\* row takes the mtime alone.
BuildTail ==
    /\ pc = "tail"
    /\ LET end == ChunkEnd(row.o)
       IN  \/ /\ end <= row.o
              /\ row' = MarkSynced(row, Mark(ref.m, ver, None))
              /\ Leave
              /\ UNCHANGED out
           \/ /\ end > row.o
              /\ out' = AppendRequest(end)
              /\ GoTo("send")
              /\ UNCHANGED row
    /\ UNCHANGED <<tool, shadow, ver, disk, tries, reply, late, server, faults, crashes>>

\* A tail with a secret in it is shipped as a whole conversation instead, short
\* of a chunked session.
PromoteTail ==
    /\ pc = "tail" /\ ~Oversized
    /\ ChunkEnd(row.o) > row.o
    /\ GoTo("full")
    /\ UNCHANGED <<tool, shadow, ver, row, disk, out, tries, reply, late, server, faults, crashes>>

\* buildConversationSync: the export matches the hash of the last full sync, or
\* it is folded into the shadow and the fullest container is what ships.
PriorHash == IF row # None /\ row.v >= ver THEN row.h ELSE None

BuildFull ==
    /\ pc = "full" /\ ~Oversized
    /\ \/ /\ PriorHash = file
          /\ GoTo("unchanged")
          /\ UNCHANGED <<shadow, out>>
       \/ /\ PriorHash # file
          /\ shadow' = Merge(shadow, file)
          /\ out' = FullRequest(shadow', Len(shadow') <= InlineMax)
          /\ GoTo("stamp")
    /\ UNCHANGED <<tool, ver, row, disk, tries, reply, late, server, faults, crashes>>

\* from_offset is the size of the file at the end of the build.
StampOffset ==
    /\ pc = "stamp"
    /\ out' = [out EXCEPT !.o = Size]
    /\ GoTo("send")
    /\ UNCHANGED <<tool, shadow, ver, row, disk, tries, reply, late, server, faults, crashes>>

\* An oversized session ships its first chunk, and its archive straight from the file.
BuildHead ==
    /\ pc = "full" /\ Oversized
    /\ out' = HeadRequest(ChunkEnd(0))
    /\ GoTo("send")
    /\ UNCHANGED <<tool, shadow, ver, row, disk, tries, reply, late, server, faults, crashes>>

\* Unchanged content counts as acknowledged as far as the cursor already was.
Restamp ==
    /\ pc = "unchanged"
    /\ row' = MarkSynced(row, IF Size <= row.o THEN UnchangedMark(ref.m, ver, row.h, Size)
                                               ELSE Mark(ref.m, ver, row.h))
    /\ Leave
    /\ UNCHANGED <<tool, shadow, ver, disk, out, tries, reply, late, server, faults, crashes>>

-----------------------------------------------------------------------------
(* The request on the wire *)

Served(q) ==
    LET done == IngestConversation(env, arch, q)
    IN  env' = done.env /\ arch' = done.arch

Deliver ==
    /\ pc = "send"
    /\ Served(out)
    /\ reply' = IngestConversation(env, arch, out).reply
    /\ GoTo("replied")
    /\ UNCHANGED <<tool, shadow, ver, row, disk, out, tries, late, faults, crashes>>

\* Mutant: one attempt too many.
AttemptFailsOnceMore ==
    /\ faults < MaxFaults
    /\ faults' = faults + 1
    /\ IF out.kind = "full" /\ tries + 1 <= MaxTries
         THEN GoTo("send") /\ tries' = tries + 1 /\ reply' = None /\ UNCHANGED out
         ELSE Finish

\* An attempt fails: post() tries a whole conversation again, an append or a
\* head is left to the next pass.
AttemptFails ==
    /\ faults < MaxFaults
    /\ faults' = faults + 1
    /\ IF out.kind = "full" /\ tries + 1 < MaxTries
         THEN GoTo("send") /\ tries' = tries + 1 /\ reply' = None /\ UNCHANGED out
         ELSE Finish

LoseRequest ==
    /\ pc = "send"
    /\ AttemptFails
    /\ UNCHANGED <<tool, shadow, ver, row, disk, late, server, crashes>>

LoseReply ==
    /\ pc = "replied"
    /\ AttemptFails
    /\ UNCHANGED <<tool, shadow, ver, row, disk, late, server, crashes>>

TimeOut ==
    /\ LateArrivals /\ pc = "send"
    /\ late' = late \cup {out}
    /\ AttemptFails
    /\ UNCHANGED <<tool, shadow, ver, row, disk, server, crashes>>

LateDeliver ==
    /\ \E q \in late : Served(q) /\ late' = late \ {q}
    /\ UNCHANGED <<tool, shadow, ver, client, faults, crashes>>

-----------------------------------------------------------------------------
(* The acknowledgement *)

Uploads == out.parts # <<>>

\* convBatch: any reply counts, a guarded one included.
AckFull ==
    /\ pc = "replied" /\ out.kind = "full"
    /\ row' = MarkSynced(row, FullMark(out.m, ver, out.hash, out.o))
    /\ IF Uploads THEN GoTo("upload") /\ UNCHANGED <<out, tries, reply>> ELSE Finish
    /\ UNCHANGED <<tool, shadow, ver, disk, late, server, faults, crashes>>

\* postChunkedHead: a head is stored or staged.
AckHead ==
    /\ pc = "replied" /\ out.kind = "head" /\ reply \in {"ok", "staged"}
    /\ row' = MarkSynced(row, HeadMark(out.m, ver, out.o))
    /\ IF Uploads THEN GoTo("upload") /\ UNCHANGED <<out, tries, reply>> ELSE Finish
    /\ UNCHANGED <<tool, shadow, ver, disk, late, server, faults, crashes>>

\* postAppend, and at the end of the walk markFullResync.
AckAppend ==
    /\ pc = "replied" /\ out.kind = "append"
    /\ row' = IF reply = "resync" THEN None
              ELSE MarkSynced(row, AppendMark(out.m, ver, out.o, out.final))
    /\ Finish
    /\ UNCHANGED <<tool, shadow, ver, disk, late, server, faults, crashes>>

\* The archive in parts, after the walk's conversations have landed.
UploadParts ==
    /\ pc = "upload"
    /\ arch' = StoreRaw(arch, out.parts, out.m)
    /\ Finish
    /\ UNCHANGED <<tool, shadow, ver, row, disk, late, env, faults, crashes>>

\* The walk ends early because another session's request has failed: drainInflight
\* throws, and the archives that wait for the end of the walk are dropped.
WalkFails ==
    /\ pc = "upload" /\ faults < MaxFaults
    /\ faults' = faults + 1
    /\ Finish
    /\ UNCHANGED <<tool, shadow, ver, row, disk, late, server, crashes>>

UploadFails ==
    /\ pc = "upload" /\ faults < MaxFaults
    /\ faults' = faults + 1
    /\ row' = ForgetFullCoverage(row)
    /\ Finish
    /\ UNCHANGED <<tool, shadow, ver, disk, late, server, crashes>>

-----------------------------------------------------------------------------
(* The collector's own life *)

\* The two-second timer, or flushLedger.
Flush ==
    /\ disk # row
    /\ disk' = row
    /\ UNCHANGED <<tool, shadow, ver, row, pc, ref, out, tries, reply, late, server, faults, crashes>>

Crash ==
    /\ crashes < MaxCrashes
    /\ crashes' = crashes + 1
    /\ row' = disk
    /\ late' \in IF LateArrivals /\ pc = "send" THEN {late, late \cup {out}} ELSE {late}
    /\ Finish
    /\ UNCHANGED <<tool, shadow, ver, disk, server, faults>>

\* A new release raises the extractor version; the collector restarts into it.
Upgrade ==
    /\ pc = "idle" /\ ver < MaxUpgrades
    /\ ver' = ver + 1
    /\ disk' = row
    /\ UNCHANGED <<tool, shadow, row, pc, ref, out, tries, reply, late, server, faults, crashes>>

-----------------------------------------------------------------------------
Environment == Write \/ Rewrite \/ GoQuiet \/ Snapshot \/ Crash \/ Upgrade

Faults == LoseRequest \/ LoseReply \/ TimeOut \/ UploadFails \/ WalkFails

Pass ==
    \/ List \/ Decide \/ BuildTail \/ PromoteTail \/ BuildFull \/ StampOffset
    \/ BuildHead \/ Restamp \/ Deliver \/ AckFull \/ AckHead \/ AckAppend \/ UploadParts

Next == Environment \/ Faults \/ Pass \/ LateDeliver \/ Flush

Spec == Init /\ [][Next]_vars

\* The daemon's passes never stop, time passes, a request on its way arrives.
FairSpec == Spec /\ WF_vars(Pass) /\ WF_vars(GoQuiet) /\ WF_vars(LateDeliver)

-----------------------------------------------------------------------------
\* Type invariant: a request exists exactly while one is built, shipped or
\* followed up, and a reply exactly while it is acted on.
TypeOK ==
    /\ file \in Seq(Nat) /\ written \in 1..MaxRecords /\ mtime \in Nat /\ quiet \in BOOLEAN
    /\ shadow \in Seq(Nat)
    /\ ver \in 0..MaxUpgrades
    /\ row \in Row \cup {None} /\ disk \in Row \cup {None}
    /\ pc \in PC /\ ref \in [m: Nat, quiet: BOOLEAN] /\ tries \in 0..(MaxTries - 1)
    /\ out \in Request \cup {None} /\ (out # None <=> pc \in {"stamp", "send", "replied", "upload"})
    /\ reply \in Reply \cup {None} /\ (reply # None <=> pc \in {"replied", "upload"})
    /\ pc \in {"tail", "unchanged", "upload"} => row # None
    /\ late \subseteq Request
    /\ env \in Envelope \cup {None} /\ arch \in Archive
    /\ faults \in 0..MaxFaults /\ crashes \in 0..MaxCrashes

Stored == IF env = None THEN {} ELSE Range(env.msgs)

AtRest == pc = "idle" /\ late = {}

\* The session would be skipped by every pass from here on, however quiet.
SkippedForGood == AtRest /\ SyncMode(row, mtime, Size, ver, TRUE) = "skip"

\* "Self-sealing, and silent" (sync-ledger.ts 405-412): a session that every
\* later pass would skip has all of its transcript on the server.
SkipMeansDelivered == SkippedForGood => Range(file) \subseteq Stored

\* The settle rule's promise (syncMode, SETTLE): a session skipped for good has
\* all of its transcript in the server's raw archive too.
SkipMeansArchived == SkippedForGood => Range(file) \subseteq Range(arch.recs)

\* The offset-continuity guard: no append is grafted onto a base it does not
\* continue, so the stored conversation, and a staged rebuild, hold records in
\* the order they were written, none twice, and none past their offset.
InOrder(msgs, o) ==
    /\ \A i, j \in DOMAIN msgs : i < j => msgs[i] < msgs[j]
    /\ \A i \in DOMAIN msgs : msgs[i] <= o
StoredInOrder ==
    env # None => /\ InOrder(env.msgs, env.o)
                  /\ env.rebuild # None => InOrder(env.rebuild.msgs, env.rebuild.o)

\* No record the server holds is ever lost again.
StoredIsKept == [][env # None => env' # None /\ Range(env.msgs) \subseteq Range(env'.msgs)]_env

\* The conversation of a transcript that is only appended to is delivered as
\* TranscriptDelivery says: nothing invented, nothing given up, all of it in the end.
Delivery == INSTANCE TranscriptDelivery WITH stored <- Stored
ImplementsDelivery == Delivery!Spec

\* The settle rule (sync-ledger.ts 660, 705-713): once the tool stops and the faults
\* are over, the server's archive catches up with the appends, for good.
EventuallyArchived == <>[](Range(file) \subseteq Range(arch.recs))
=============================================================================
