---------------------------- MODULE SessionStore ----------------------------
(***************************************************************************)
(* The rows and objects the server keeps for one session, and the jobs     *)
(* that change them side by side: sync requests, archives uploaded in      *)
(* parts, deletion, retention and the self-heal sweep                      *)
(* (engine/src/core/store/pg.ts, server/src/routes/sync.ts,                *)
(* server/src/services/self-heal.ts and raw-upload.ts).                    *)
(*                                                                         *)
(* A transaction is READ COMMITTED: each statement sees what is committed  *)
(* when it starts, writes show at COMMIT, and a row once written is locked *)
(* until then.  Objects live in a bucket outside every transaction.  An    *)
(* archive object has a key of its own, a conversation body is stored      *)
(* under the hash of its content, so a body is its own key.                *)
(*                                                                         *)
(* Contents are abstract: an archive is its size, and what the ingest of a *)
(* conversation decides (Ingest) is left open.                             *)
(***************************************************************************)
EXTENDS Naturals, FiniteSets

CONSTANTS
    Worker,       \* requests the server works on at a time
    Sweeper,      \* the background self-heal
    Body,         \* conversation bodies
    None,         \* no row, no body, nobody
    MaxSize,      \* bound: sizes of archives
    MaxRequests,  \* bound: requests, retention purges and archive repairs
    MaxFails      \* bound: jobs that fail midway

ASSUME WorkerAssumption == Sweeper \notin Worker /\ None \notin Worker \cup {Sweeper}
ASSUME NoneAssumption == None \notin Body /\ None \notin [key: Nat, size: Nat]
ASSUME BoundsAssumption == MaxSize \in Nat /\ MaxRequests \in Nat /\ MaxFails \in Nat

Job == Worker \cup {Sweeper}
Table == {"metadata", "chunks"}
Size == 1..MaxSize

(* Committed state. *)
VARIABLES
    rows,      \* which of memory_metadata and memory_chunks hold the session
    raw,       \* its raw_sessions row: the key of its object and the size; or None
    content,   \* its content_cache row: the body it names; or None
    tomb,      \* its session_tombstones row
    rawObj,    \* keys of archive objects in the bucket
    bodyObj,   \* conversation bodies in the bucket
    nextKey    \* the next archive key; keys are random, so never used twice

stored == <<rows, raw, content, tomb, rawObj, bodyObj, nextKey>>

(* Uncommitted state. *)
VARIABLES
    rawLock, rowLock,  \* who holds the raw_sessions row, the other rows; or None
    job                \* per job: what it is, and its local variables

VARIABLES requests, fails

locks == <<rawLock, rowLock>>
bounds == <<requests, fails>>
vars == <<stored, locks, job, bounds>>

PC == {"idle", "prefetch", "archive", "parts", "record", "snapshot", "lock", "write", "commit",
       "hooks", "purge", "bury",
       "heal", "plan", "healMetadata", "healContent", "healCommit", "healChunks"}
Flow == {"push", "upload", "delete", "retention", "sweep", "heal"}
Archive == [key : Nat, size : Nat]
Keys == SUBSET Nat
Bodies == SUBSET Body
Damage == SUBSET (Table \cup {"content"})

Local ==
    [pc : PC,                            \* its next step
     flow : Flow,
     had : BOOLEAN,                      \* a conversation was stored when it prefetched
     seen : Archive \cup {None},         \* the archive row as it last read it
     key : Nat, size : Nat,              \* the archive it is storing, key 0 for none
     prev : Nat,                         \* key of the archive its write supersedes
     body : Body \cup {None},            \* the conversation body it is storing
     whole : BOOLEAN,                    \* and whether with all the rows
     plan : Damage,                      \* what a heal found missing
     drop : Keys, dropBody : Bodies]     \* objects to delete once committed

Idle ==
    [pc |-> "idle", flow |-> "push", had |-> FALSE, seen |-> None, key |-> 0, size |-> 0,
     prev |-> 0, body |-> None, whole |-> FALSE, plan |-> {}, drop |-> {}, dropBody |-> {}]

\* The session has never been synced, or an earlier sync stored it.
InitNew ==
    /\ rows = {} /\ raw = None /\ content = None
    /\ rawObj = {} /\ bodyObj = {} /\ nextKey = 1

InitStored ==
    /\ rows = Table
    /\ \E s \in Size : raw = [key |-> 1, size |-> s]
    /\ content \in Body
    /\ rawObj = {1} /\ bodyObj = {content} /\ nextKey = 2

Init ==
    /\ InitNew \/ InitStored
    /\ tomb = FALSE
    /\ rawLock = None /\ rowLock = None
    /\ job = [j \in Job |-> Idle]
    /\ requests = 0 /\ fails = 0

At(j, l) == job[j].pc = l
GoTo(j, l) == job' = [job EXCEPT ![j].pc = l]
Finish(j) == job' = [job EXCEPT ![j] = Idle]

SizeOf(r) == IF r = None THEN 0 ELSE r.size
KeyOf(r) == IF r = None THEN 0 ELSE r.key

Request == requests < MaxRequests /\ requests' = requests + 1 /\ UNCHANGED fails

\* A job starts on an idle worker.
Start(j, f, l) ==
    /\ At(j, "idle")
    /\ job' = [job EXCEPT ![j].flow = f, ![j].pc = l]

-----------------------------------------------------------------------------
(* The archive row: storeRaw, for all who write it *)

\* Mutant: only what is there already is refused.
RefusedIfSame(s, k, newer) == s = k /\ ~newer

\* Smaller is refused; equal is stored only when captured later.
Refused(s, k, newer) == s < k \/ (s = k /\ ~newer)

\* Mutant: the key is made from the content, as for conversations.
PutUnderHash(j, s, read) ==
    /\ job' = [job EXCEPT ![j].key = s, ![j].size = s, ![j].seen = read, ![j].pc = "snapshot"]
    /\ rawObj' = rawObj \cup {s}
    /\ UNCHANGED nextKey

\* The object is put first, under a fresh key.
Put(j, s, read) ==
    /\ job' = [job EXCEPT ![j].key = nextKey, ![j].size = s, ![j].seen = read,
                          ![j].pc = "snapshot"]
    /\ rawObj' = rawObj \cup {nextKey}
    /\ nextKey' = nextKey + 1

\* The upsert's own snapshot yields the key it supersedes; then it waits for the row.
Snapshot(j) ==
    /\ At(j, "snapshot")
    /\ job' = [job EXCEPT ![j].prev = KeyOf(raw), ![j].pc = "lock"]
    /\ UNCHANGED <<stored, locks, bounds>>

\* The row names the archive of j; prevKey && prevKey !== objectKey is to be deleted.
NewArchive(j) == [key |-> job[j].key, size |-> job[j].size]
Superseded(j) == {job[j].prev} \ {0, job[j].key}

\* Inside the request's transaction the row stays locked; elsewhere the upsert
\* is a transaction of its own.
LockInRequest(j) ==
    /\ At(j, "lock") /\ rawLock = None /\ job[j].flow = "push"
    /\ rawLock' = j
    /\ GoTo(j, "write")
    /\ UNCHANGED <<stored, rowLock, bounds>>

NameArchive(j) ==
    /\ At(j, "lock") /\ rawLock = None /\ job[j].flow # "push"
    /\ raw' = NewArchive(j)
    /\ job' = [job EXCEPT ![j].drop = Superseded(j), ![j].key = 0, ![j].pc = "hooks"]
    /\ UNCHANGED <<rows, content, tomb, rawObj, bodyObj, nextKey, locks, bounds>>

-----------------------------------------------------------------------------
(* POST /api/sync: one transaction for the whole ingest *)

\* A tombstoned session is passed over; the tombstones are read first.
BeginPush(j) ==
    /\ ~tomb /\ Start(j, "push", "prefetch") /\ Request
    /\ UNCHANGED <<stored, locks>>

\* getCachedContentStaleMany and rawSessionMetaMany.
Prefetch(j) ==
    /\ At(j, "prefetch")
    /\ job' = [job EXCEPT ![j].had = content # None, ![j].seen = raw, ![j].pc = "archive"]
    /\ UNCHANGED <<stored, locks, bounds>>

\* No archive on the request, or one that is refused and adds nothing.
KeepArchive(j) ==
    /\ At(j, "archive") /\ GoTo(j, "write")
    /\ UNCHANGED <<stored, locks, bounds>>

StoreArchive(j) ==
    /\ At(j, "archive")
    /\ \E s \in Size : ~Refused(s, SizeOf(job[j].seen), TRUE) /\ Put(j, s, job[j].seen)
    /\ UNCHANGED <<rows, raw, content, tomb, bodyObj, locks, bounds>>

\* A smaller archive is merged with the one stored now, which is read again, and
\* the union is stored when it is larger.
MergeArchive(j) ==
    /\ At(j, "archive") /\ raw # None
    /\ \E s \in Size : s < SizeOf(job[j].seen)
    /\ \E s \in Size : s > raw.size /\ Put(j, s, raw)
    /\ UNCHANGED <<rows, raw, content, tomb, bodyObj, locks, bounds>>

\* Guarded, or a full sync is asked for: nothing of the conversation is written.
WriteNothing(j) ==
    /\ At(j, "write") /\ GoTo(j, "commit")
    /\ UNCHANGED <<stored, locks, bounds>>

\* writeIngestBatch up to writeCachedContent: rows locked, the body's object put.
\* An append or a staged head builds on the conversation it prefetched.
WriteRows(j) ==
    /\ At(j, "write") /\ rowLock = None
    /\ rowLock' = j
    /\ \E b \in Body, w \in BOOLEAN :
         /\ ~w => job[j].had
         /\ job' = [job EXCEPT ![j].body = b, ![j].whole = w, ![j].pc = "commit"]
         /\ bodyObj' = bodyObj \cup {b}
    /\ UNCHANGED <<rows, raw, content, tomb, rawObj, nextKey, rawLock, bounds>>

Unlock(j) ==
    /\ rawLock' = IF rawLock = j THEN None ELSE rawLock
    /\ rowLock' = IF rowLock = j THEN None ELSE rowLock

\* Mutant: what there was before, also when that was nothing.
SupersededBodyOrNone(j) == {content} \ {job[j].body}

\* A body that stays is its own predecessor, and is kept.
SupersededBody(j) == {content} \ {None, job[j].body}

\* COMMIT.  An append touches the metadata row but does not create it.
Commit(j) ==
    LET archived == job[j].key # 0
        written == job[j].body # None
    IN  /\ At(j, "commit")
        /\ raw' = IF archived THEN NewArchive(j) ELSE raw
        /\ content' = IF written THEN job[j].body ELSE content
        /\ rows' = IF ~written THEN rows ELSE IF job[j].whole THEN Table ELSE rows \cup {"chunks"}
        /\ job' = [job EXCEPT
              ![j].drop = IF archived THEN Superseded(j) ELSE {},
              ![j].dropBody = IF written THEN SupersededBody(j) ELSE {},
              ![j].key = 0, ![j].body = None, ![j].pc = "hooks"]
        /\ Unlock(j)
        /\ UNCHANGED <<tomb, rawObj, bodyObj, nextKey, bounds>>

-----------------------------------------------------------------------------
(* After a commit *)

\* deleteObjectsAfterCommit: before the reply, each object on its own.  A
\* deletion then goes on to the tombstone, a repaired archive to its heal.
Hooks(j) ==
    /\ At(j, "hooks")
    /\ rawObj' = rawObj \ job[j].drop /\ bodyObj' = bodyObj \ job[j].dropBody
    /\ job' = [job EXCEPT ![j] =
          CASE job[j].flow = "delete" -> [Idle EXCEPT !.flow = "delete", !.pc = "bury"]
            [] job[j].flow = "heal" -> [Idle EXCEPT !.flow = "heal", !.pc = "plan"]
            [] OTHER -> Idle]
    /\ UNCHANGED <<rows, raw, content, tomb, nextKey, locks, bounds>>

\* A job fails, is a deadlock's victim or dies with the server: what is not
\* committed is gone, and the objects it would have deleted stay.
Fail(j) ==
    /\ ~At(j, "idle") /\ fails < MaxFails
    /\ fails' = fails + 1
    /\ Unlock(j)
    /\ Finish(j)
    /\ UNCHANGED <<stored, requests>>

-----------------------------------------------------------------------------
(* An archive uploaded in parts *)

\* startRawUpload: the shrink rule, before any byte moves.
StartUpload(j) ==
    /\ At(j, "idle") /\ Request
    /\ \E s \in Size :
         /\ ~Refused(s, SizeOf(raw), TRUE)
         /\ job' = [job EXCEPT ![j].flow = "upload", ![j].size = s, ![j].pc = "parts"]
    /\ UNCHANGED <<stored, locks>>

\* completeMultipart: the object is there, under the key of the start.
CompleteUpload(j) ==
    /\ At(j, "parts")
    /\ job' = [job EXCEPT ![j].key = nextKey, ![j].pc = "record"]
    /\ rawObj' = rawObj \cup {nextKey}
    /\ nextKey' = nextKey + 1
    /\ UNCHANGED <<rows, raw, content, tomb, bodyObj, locks, bounds>>

\* putRawSessionObject reads the row afresh.
RecordUpload(j) ==
    /\ At(j, "record") /\ ~Refused(job[j].size, SizeOf(raw), TRUE)
    /\ job' = [job EXCEPT ![j].seen = raw, ![j].pc = "snapshot"]
    /\ UNCHANGED <<stored, locks, bounds>>

\* An object no row is to name is deleted: its size is not the one announced, or
\* the row refuses it.
DropUpload(j) ==
    /\ job' = [job EXCEPT ![j].drop = {job[j].key}, ![j].key = 0, ![j].pc = "hooks"]
    /\ UNCHANGED <<stored, locks, bounds>>

RejectUpload(j) == At(j, "record") /\ DropUpload(j)

RefuseUpload(j) ==
    /\ At(j, "record") /\ Refused(job[j].size, SizeOf(raw), FALSE)
    /\ DropUpload(j)

-----------------------------------------------------------------------------
(* Deletion *)

\* DELETE /api/conversations/:id, and the bulk forms in data-controls.ts.
BeginDelete(j) ==
    /\ Start(j, "delete", "purge") /\ Request
    /\ UNCHANGED <<stored, locks>>

\* The retention sweeps purge a listed session, and leave no tombstone.
BeginRetention(j) ==
    /\ "metadata" \in rows /\ Start(j, "retention", "purge") /\ Request
    /\ UNCHANGED <<stored, locks>>

\* purgeSessionsMany: every table in one transaction.  A DELETE that finds no
\* committed row would not wait for an insert; it is the same as one before it.
PurgeRows(j) ==
    /\ rawLock = None /\ rowLock = None
    /\ rows' = {} /\ raw' = None /\ content' = None
    /\ job' = [job EXCEPT ![j].drop = {KeyOf(raw)} \ {0},
                          ![j].dropBody = {content} \ {None}, ![j].pc = "hooks"]
    /\ UNCHANGED <<rawObj, bodyObj, nextKey, locks>>

Purge(j) ==
    /\ At(j, "purge") /\ PurgeRows(j)
    /\ UNCHANGED <<tomb, bounds>>

\* addTombstone, a transaction of its own after the purge.
Bury(j) ==
    /\ At(j, "bury") /\ tomb' = TRUE
    /\ Finish(j)
    /\ UNCHANGED <<rows, raw, content, rawObj, bodyObj, nextKey, locks, bounds>>

\* A sync request that carries the tombstone: purge and tombstone in one transaction.
PushTombstone(j) ==
    /\ At(j, "idle") /\ Request
    /\ PurgeRows(j) /\ tomb' = TRUE

\* POST restore: the tombstone is lifted, the content comes with the next sync.
Restore(j) ==
    /\ At(j, "idle") /\ tomb /\ Request
    /\ tomb' = FALSE
    /\ UNCHANGED <<rows, raw, content, rawObj, bodyObj, nextKey, locks, job>>

-----------------------------------------------------------------------------
(* Self-heal *)

\* Mutant: the archive is not looked for.
RemainsButArchive == rows # {} \/ content # None

Remains == rows # {} \/ raw # None \/ content # None

\* selfHealTenant, first: tombstonedWithRemains, and purge what it lists.
SweepDeleted(j) ==
    /\ tomb /\ Remains /\ Start(j, "sweep", "purge")
    /\ UNCHANGED <<stored, locks, bounds>>

\* healSessionFromArchive: not for a deleted session, not without an archive.
BeginHeal(j) ==
    /\ ~tomb /\ raw # None /\ Start(j, "heal", "heal")
    /\ UNCHANGED <<stored, locks, bounds>>

\* Lines a former redactor broke are repaired, and the archive stored again.
RepairArchive(j) ==
    /\ At(j, "heal") /\ Request
    /\ \E s \in Size : ~Refused(s, SizeOf(raw), FALSE) /\ Put(j, s, raw)
    /\ UNCHANGED <<rows, raw, content, tomb, bodyObj, locks>>

\* What is damaged: the view when the archive is fuller or its prompts are old,
\* and rows that are missing.
PlanHeal(j) ==
    /\ At(j, "heal") \/ At(j, "plan")
    /\ \E view \in BOOLEAN :
         LET missing == (Table \ rows) \cup (IF view THEN {"content", "chunks"} ELSE {})
         IN  IF missing = {} THEN Finish(j)
             ELSE job' = [job EXCEPT ![j].plan = missing, ![j].pc = "healMetadata"]
    /\ UNCHANGED <<stored, locks, bounds>>

\* setItem, a transaction of its own.
HealMetadata(j) ==
    /\ At(j, "healMetadata") /\ rowLock = None
    /\ rows' = rows \cup (job[j].plan \cap {"metadata"})
    /\ GoTo(j, "healContent")
    /\ UNCHANGED <<raw, content, tomb, rawObj, bodyObj, nextKey, locks, bounds>>

\* setCachedContent opens a transaction, but not withTransaction: what
\* writeCachedContent leaves to afterCommit runs before this COMMIT.
HealContent(j) ==
    /\ At(j, "healContent") /\ "content" \in job[j].plan /\ rowLock = None
    /\ rowLock' = j
    /\ \E b \in Body :
         /\ job' = [job EXCEPT ![j].body = b, ![j].pc = "healCommit"]
         /\ bodyObj' = (bodyObj \cup {b}) \ ({content} \ {b})
    /\ UNCHANGED <<rows, raw, content, tomb, rawObj, nextKey, rawLock, bounds>>

HealNoContent(j) ==
    /\ At(j, "healContent") /\ "content" \notin job[j].plan
    /\ GoTo(j, "healChunks")
    /\ UNCHANGED <<stored, locks, bounds>>

HealCommit(j) ==
    /\ At(j, "healCommit")
    /\ content' = job[j].body
    /\ job' = [job EXCEPT ![j].body = None, ![j].pc = "healChunks"]
    /\ Unlock(j)
    /\ UNCHANGED <<rows, raw, tomb, rawObj, bodyObj, nextKey, bounds>>

\* addChunksFTS, a transaction of its own.
HealChunks(j) ==
    /\ At(j, "healChunks") /\ rowLock = None
    /\ rows' = rows \cup (job[j].plan \cap {"chunks"})
    /\ Finish(j)
    /\ UNCHANGED <<raw, content, tomb, rawObj, bodyObj, nextKey, locks, bounds>>

-----------------------------------------------------------------------------

Begin(j) ==
    \/ BeginPush(j) \/ StartUpload(j)
    \/ BeginDelete(j) \/ BeginRetention(j) \/ PushTombstone(j) \/ Restore(j)

\* What a job does once it is begun.
Step(j) ==
    \/ Prefetch(j) \/ KeepArchive(j) \/ StoreArchive(j) \/ MergeArchive(j)
    \/ Snapshot(j) \/ LockInRequest(j) \/ NameArchive(j)
    \/ WriteNothing(j) \/ WriteRows(j) \/ Commit(j) \/ Hooks(j)
    \/ CompleteUpload(j) \/ RecordUpload(j) \/ RejectUpload(j) \/ RefuseUpload(j)
    \/ Purge(j) \/ Bury(j)
    \/ PlanHeal(j) \/ HealMetadata(j) \/ HealContent(j) \/ HealNoContent(j)
    \/ HealCommit(j) \/ HealChunks(j)

Next ==
    \/ \E j \in Worker : Begin(j)
    \/ \E j \in Job : Step(j) \/ Fail(j)
    \/ SweepDeleted(Sweeper) \/ BeginHeal(Sweeper) \/ RepairArchive(Sweeper)

Spec == Init /\ [][Next]_vars

(* A job that began goes on (statements and waits have timeouts), and the   *)
(* sweep comes every hour, deleted sessions first.                          *)
FairSpec ==
    /\ Spec
    /\ \A j \in Job : WF_vars(Step(j))
    /\ SF_vars(SweepDeleted(Sweeper))
    /\ SF_vars(Purge(Sweeper))

-----------------------------------------------------------------------------
(* Properties *)

TypeOK ==
    /\ rows \subseteq Table
    /\ raw \in Archive \cup {None}
    /\ content \in Body \cup {None} /\ tomb \in BOOLEAN
    /\ rawObj \subseteq Nat /\ bodyObj \subseteq Body /\ nextKey \in Nat \ {0}
    /\ rawLock \in Job \cup {None} /\ rowLock \in Job \cup {None}
    /\ job \in [Job -> Local]
    /\ requests \in Nat /\ fails \in Nat

\* The committed archive row names an object that exists, whatever commits,
\* rolls back, is deleted or uploaded beside it ("a row that names an object
\* which was never stored breaks every later read", pg.ts 2075-2077).
ArchiveRowHasObject == raw # None => raw.key \in rawObj

\* The same of the conversation row ("Outside one, the caller's own transaction
\* has already committed, so it runs now", pg.ts 197-198; "a concurrent writer's
\* newer key is never deleted here", pg.ts 1273-1274).
ContentRowHasObject == content # None => content \in bodyObj

\* A stored archive gives way to a smaller one only if another job replaced it
\* between this job's reading of the row, however early, and its COMMIT (the
\* shrink guard of storeRaw, which decides on what was prefetched).
OnlyCrossedShrinks ==
    [][\A j \in Job :
          job[j].pc \in {"lock", "commit"} /\ job'[j].pc = "hooks" /\ job[j].seen = raw
              => raw = None \/ (raw' # None /\ raw'.size >= raw.size)]_vars

\* Of a deleted session nothing is left in the end, also when a push, an upload
\* or a heal was under way when it was deleted (selfHealTenant 279-301).
DeletedIsPurged == <>[](tomb => rows = {} /\ raw = None /\ content = None)
=============================================================================
