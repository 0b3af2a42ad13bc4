# Formal models of chat-recall

chat-recall keeps a searchable history of AI coding sessions. On each machine a
*collector* reads the transcripts that tools such as Claude Code, Codex or Gemini
write, and ships them to one or more servers (`POST /api/sync`, Postgres and an object
bucket). This directory holds TLA+ models of the part that must not lose data: how a
transcript gets from a file that keeps changing to a server that must hold all of it,
who may do that work and when, what the server's jobs do to one session side by side,
and how its summaries are generated. Paths below are relative to `src/packages/`.

## Inventory

| Component | State | Operations | Model |
|---|---|---|---|
| Collector walk, `cli/src/sync-client.ts` | pass in progress, pending archives | list, classify (`modeOf`), build a full / chunked head / tail request, post with retries, acknowledge, upload archives | `SessionSync` (partly) |
| Upload pool, `cli/src/sync-client.ts` (`makeBatcher`, `submit`, `drainInflight`) | batches per field, append batch, requests in flight and their bytes, `poolError` | add, flush at a cap, barrier, slot, retry, give up, drain at the end | `UploadPool` |
| Sync ledger, `cli/src/sync-ledger.ts` | per server and session: mtime `m`, version `v`, cursor `o`/`s`, hash `h`, full coverage `F`, chunked `k`; one file, a cache per process | `markSynced`, `forgetFullCoverage`, `markFullResync`, `syncMode`; load, merge, write, flush | `SyncLedger`, `LedgerFile` (partly) |
| Shadow archive, `engine/src/transcript/shadow.ts` | fullest state of a transcript seen here | `updateShadow`, `snapshotShadow`, prune | `Shadow` (partly) |
| Ingest, `server/src/routes/sync.ts`, `engine/src/core/store/pg.ts` | envelope (messages, offset, staged rebuild), raw archive | full, chunked head, append, archive merge, shrink guard | `Ingest` (partly) |
| Session rows and objects, `engine/src/core/store/pg.ts`, `server/src/services/self-heal.ts`, `raw-upload.ts` | metadata, chunks, archive and content rows, tombstone; objects in the bucket | push, upload in parts, delete, retention, hourly sweep, repair | `SessionStore` (partly) |
| Summary worker, `server/src/services/summary-worker.ts` | `session_metadata`, `summary_leases`, `summary_errors`, counts; sweeps | budget, triage, claim, lanes, result, retry, resync, regenerate | `SummaryQueue` (partly: Postgres only) |
| Sync lock, `engine/src/core/index-lock.ts` | one marker file | acquire, take over, release | `IndexLock` |
| Tick queue, `cli/src/tick-queue.ts` | waiting, running, rerun | request, pump | `TickQueue` |
| Scheduling, `cli/auto-indexer/indexer.ts`, `cli/src/sync-supervisor.ts`, `cli/src/mcp.ts` | timers, owner of sync, passes in flight | debounce, heartbeat, intent poll, supervisor check | `SyncSchedule` (partly) |
| Everything else (target breaker, intents, relay, other workers, rate limiting, billing, knowledge graph, toolkit sync, hooks, scanning, UI) | see `PROJECT.json`, "components" | | not modelled |

How they interact. Watchers and timers of the *watch service* put tasks in its tick
queue; without the service each *MCP process* runs a supervisor that does the same work
on an interval. Either way `syncIncremental` takes the sync lock, or skips. The walk asks
the ledger per session for skip, append or full; a full build folds the file into the
shadow and ships the fullest container. Full requests, findings and derived rows are
batched and posted by a pool beside the walk; the server answers per session, and the
acknowledgement moves the ledger's cursor, in a file that other processes write too.
Small raw archives ride on the request, large ones go up in parts after the walk. On the
server requests, uploads, deletions and the sweep change the rows and objects of one
session at the same time, and the summary worker of each replica takes sessions whose
rows have no summary.

What is hard: a build reads the file several times while the tool writes it; a cursor may
only cover what the server has; an append skips the shadow and the archive, which only a
later *settle* full sync brings up to date; attempts time out and are repeated while the
server may still serve them; a failed upload is thrown at a later hand-over; the ledger
on disk is older than the one in memory when the process dies, and newer when another
process wrote; a row commits at another time than its object exists; a claim selects
before it locks, and its lease can run out while it waits for a lane; several processes
want to be the one writer. `PROJECT.json`, "hazards", lists each such place with its line
and the properties that watch it.

What makes each component correct: nothing is skipped for good before it is delivered and
archived; what is stored stays in order and is not given up; a walk that ends well has
delivered all its rows; what one process wrote in the ledger no other puts back; every row
names an object that exists, and a deleted session leaves nothing; one writer at a time;
every change is walked by someone; a generated summary stays and every session gets one.

## Modules

    Absence            the value None
    Shadow             Merge of two states of a transcript
    SyncLedger         EXTENDS Absence: the ledger row and SyncMode
    Ingest             EXTENDS Shadow: what the server does with one conversation
    SessionSync        composes SyncLedger, Ingest and Shadow with the tool and the network
    TranscriptDelivery what sync promises of one session (abstract)
    LedgerFile         the ledger file and the caches of several processes
    UploadPool         a walk's batches and its pool of requests
    SessionStore       the server's jobs on the rows and objects of one session
    SummaryQueue       the sweeps of the summary worker
    IndexLock          the sync lock
    TickQueue          the queue, as operators
    SyncSchedule       composes TickQueue, the supervisors and the walk under the lock
    MC*                instances for TLC
    *_proofs           proofs for TLAPS

**SessionSync.** A transcript is a sequence of records; a record is the number of its
writing, one record is one message, and byte offsets are counted in records (`o` and `s`
of the ledger are one field: all callers pass the same value). Sizes (`SYNC_CHUNK_BYTES`,
`FULL_BUILD_MAX_BYTES`, the inline archive limit) are numbers of records. The pass is
`List` (mtime from the listing), `Decide` (size read now, `modeOf`), then `BuildTail` /
`PromoteTail`, or `BuildFull` and `StampOffset` (the export and the later stat that yields
`from_offset`), or `BuildHead`, or `Restamp` (unchanged content). `Deliver` runs the whole
ingest of the route in one step, as it is one transaction; `LoseRequest`, `LoseReply`,
`TimeOut` and `LateDeliver` are the network. `AckFull`, `AckHead`, `AckAppend` write the
ledger row, `UploadParts`, `UploadFails` and `WalkFails` are what follows the walk.
`Write`, `Rewrite`, `GoQuiet`, `Snapshot`, `Crash`, `Upgrade` and `Flush` run between any
two of these. `Snapshot` (the resume guard) is more frequent than the code's: any time is
allowed. `GuardWins` says whether a snapshot precedes every rewrite.

**LedgerFile.** One action per file-system call of `load` and `persistNow`: `Call` and
`StartWrite` stat, a read merges, then the rename of the temporary file and the stat after
it. A stamp (mtime and size) is the number of the rename. `touched` and `overtaken` are
observations: rows a process's own callers set since its last rename, and processes whose
write another's has crossed.

**UploadPool.** The walk goes through its sessions: `conversation`, `findings`, `derived`,
then the drains at its end. A batch handed over waits in `hand` for its barrier (findings)
and a slot (`Submit`); `SubmitThrows` is the failure of an earlier upload thrown at a later
hand-over, caught and logged where the field is a derived one. `Serve`, `Reply`, `Retry`
and `GiveUp` run beside the walk in any order. A `tail` (append) waits in a batch of its
own, a chunked `head` is posted by itself. `overlooked` is an observation: sessions whose
findings were handed over while their conversation was still in its batch.

**SessionStore.** A job is a request, an upload, a retention purge, the sweep, or a repair
of the archive; its local variables are what it has prefetched (`seen`, a snapshot of
tombstone and rows), the key it has put, and the objects to delete after the COMMIT. Each
step is a statement or an object call; a row once written is locked until COMMIT or
ROLLBACK. An archive object has a random key, here the next number; a body is stored under
the hash of its content, so it is its own key, and two jobs may put the same one.
`setCachedContent` runs outside `withTransaction`, where the deletion of the superseded
body does not wait for the COMMIT; the model does the same.

**SummaryQueue.** A sweep reads its budget, and per batch selects (`Select`), judges the
rows again when it locks them (`Lock`), stamps leases (`Commit`), and works its rows in
lanes; each result is one transaction. Time is kept as ages that grow together and stop at
`MaxAge`. `Resync`, `Regenerate`, a failing attempt, a sweep that throws while lanes still
work and a dying sweep come in between; trivial sessions get their first prompt in `Commit`. `crossed` is an observation: sweeps
whose leases were committed after a claim's select began.

**IndexLock.** One action per file-system call of `acquireIndexLock`, `stealStaleLock` and
`release`. `judged` and `misfire` are observations: which processes have judged the marker
now on disk a dead one's, and whether a takeover has removed the marker of a process that
still owned the lock without having judged it so.

**SyncSchedule.** Work is what sessions still have to send: "recent" when a `changed` walk
lists it, "old" when only a `full` one does. A walk takes the lock and the work its scope
lists, and ends with all of it sent or, if something failed, put back; as `lastSyncAt`
moves either way, recent work may then leave the window (`LeaveWindow`). `unheard` is an
observation: file changes reported to the queue that no sync run has started for. The
code-index sweep is conditional in the code and switched by `Sweeps`.

Helpers with a comment "Mutant" stand for plausible bugs; nothing uses them. Each property
is known to fail under the mutant that `PROJECT.json` names for it.

## Runs

| Run | Question | Result |
|---|---|---|
| `session_appends` | 3 records, 2 failed attempts, late arrivals, 1 crash: skipped means delivered and archived, stored in order, the archive catches up | holds |
| `session_chunked` | 3 records, always in chunks of one, 1 fault, 1 crash, 1 upgrade: skipped means delivered, stored in order, and `TranscriptDelivery` is implemented | holds |
| `session_rewrites` | 4 records, 1 rewrite to any part after a snapshot, 1 failed attempt: same, and nothing stored is lost | holds |
| `session_archive` | archives in parts, 1 failed upload: "the settle full sync tries again" (`sync-client.ts` 2230-2232) | violated |
| `ledger_file` | 2 processes, 2 rows, 3 edits, 1 failed write, 1 death: a cache that would not reload is current, no write puts an older row back, every edit is written, caches converge | holds |
| `upload_pool` | 3 sessions of any kind and size, 2 failed attempts: a walk that ends well has delivered its rows, the load is bounded, every walk ends | holds |
| `upload_findings` | same instance: "the barrier also covers the mid-walk flush" (`sync-client.ts` 1656-1657) | violated |
| `session_store` | 2 requests beside the sweep, 1 failure: archive rows name objects, an archive only shrinks when jobs crossed, a deleted session is purged | holds |
| `session_content` | same with two bodies: "the caller's own transaction has already committed" (`pg.ts` 197-198) | violated |
| `summary_queue` | 2 sweeps, 2 sessions, 1 failure, 1 sync or regeneration: budget, double claims, a generated summary stays, nothing strands | holds |
| `index_lock` | 3 processes, 2 deaths, pid reuse: what the lock does promise | holds |
| `sync_schedule` | service and one MCP process, 2 changes, 1 failed walk, 2 starts or stops | holds |

What the violations show:

- **An archive is lost** (`session_archive`). One failed upload of the walk makes
  `drainInflight` throw, and the archives in parts of other sessions, already marked
  fully covered, are dropped.
- **Findings are lost** (`upload_findings`). The barrier before findings waits for the
  requests in flight, not for the conversations still in their batch. A mid-walk flush can
  therefore arrive before its session's row, and the server skips it.
- **A row names a deleted body** (`session_content`). `setCachedContent` opens its
  transaction outside `withTransaction`, so the superseded body is deleted before the
  COMMIT; until then, and after a rollback for good, the row names nothing.

Three promises are stated in the form in which they hold, and the exception each one makes
is what the code does:

- *The lock* (`ExclusiveUnlessMisfire`) excludes only until a takeover removes a living
  owner's marker: a process that reads the marker between its creation and its payload
  takes it for corrupt, and one that judged a dead marker may unlink its successor.
- *A summary is not paid for twice* (`OnlyOverdueDoubled`, `GeneratedIsKept`), unless the
  lease of the first sweep ran out while its rows waited for a lane; or the second claim
  selected before the first had committed and the row itself was not changed since; or a
  user has the session summarized while a sweep holds it: `regenerate-summary` takes no
  lease, so the sweep asks the LLM as well and its answer replaces the user's.
  `GeneratedIsKept` therefore speaks of new claims only.
- *A stored archive does not shrink* (`OnlyCrossedShrinks`), unless another job replaced it
  after this one had prefetched its metadata. Likewise a smaller conversation can replace a
  fuller one when no snapshot precedes a rewrite (full, append, resume that drops what was
  appended: neither shadow nor archive has seen it), which is why `StoredIsKept` is checked
  with `GuardWins`.

Two comments of the code say the opposite of what it does, and of what `GeneratedIsKept`
holds of it: that an ingest "clears the cached summary of every session it writes" (`pg.ts`
1381-1382, and 1092-1093 of `setItems`). `writeItemRows` leaves the row alone, as its own
comment says (1136-1139), and `writeSessionMetaRows` keeps a stored summary when it is sent
an empty one (`caches.ts` 166-174).

## Bounds, and why they are enough

*Sessions.* Three records are a base, an append that continues it and one record that
comes at the wrong time (between export and stat, or after a lost reply); in
`session_chunked` they are a head and two chunks, and the upgrade starts a second head over
a fuller stored copy, which is the staged rebuild; `BuildMax = 0` is a session that is too
large for one build at its first sync already. Rewrites get a fourth record so that
growth after the rewrite passes the old cursor. One crash suffices to bring back any older
flushed row. Two faults are a failed attempt and a failed retry.

*Ledger file.* Two processes suffice for a crossing, two rows for an own and a foreign
change, three edits for one before, between and after two writes; `Value` has one member
besides no row, which tells apart a row set and a row forgotten.

*Upload pool.* Three sessions fill a batch of two and leave one over, or one large session
is beyond the batch, the budget of the pool (3) and the rest; two requests may be in
flight. Two failures are a retry that fails again, or two requests.

*Session store.* Two requests and the sweep give every pair of jobs, started on a session
that is new or stored (deleting it is one of the requests). Sizes up to three tell
smaller, equal and fuller from none. `session_store` has one body, as its properties are
about the archive; `session_content` has two.

*Summary queue.* Time units: lease 1, timeout 1, backoff 2, window 3, ages to 5, beyond
which no comparison differs; one lane for a batch of two makes a row wait while its lease
runs out; a cap of one summary per hour is smaller than the batch; one failure is a failed
answer, a failed probe of the budget, a thrown lane or a dead sweep; one change is a sync
or a regeneration.

*Lock and schedule.* With three lock processes one can die, one judge and one create. In
`sync_schedule` two toggles let the service stop and return, two changes let one come
during a walk for another.

`CHECK_DEADLOCK FALSE` is set where the system comes to rest: in `session_store` and
`session_content` a server without requests and nothing to sweep, in `upload_pool` and
`upload_findings` a walk that is over (`WalkEnds` shows that it rests nowhere else).
Everywhere else deadlock is checked.

## Fairness, and why the code justifies it

- `SessionSync`: weak fairness of the pass (timers start one for ever), of quiet time and
  of late requests; none of the tool, the faults, or the flush.
- `LedgerFile`: a call runs to its end, walks keep asking the ledger, a timer that is armed
  fires (weak fairness); every walk ends with `flushLedger` (strong fairness, as a timer's
  write can take its place again and again).
- `UploadPool`: weak fairness of the walk, which is code that runs whenever it does not wait
  for the pool, and of posts, as every attempt has an abort timer.
- `SessionStore`: weak fairness of a job's steps, as statements and waits have timeouts.
  The hourly sweep purges deleted sessions first, so it comes round in spite of other jobs:
  strong fairness of `SweepDeleted` and of the sweeper's `Purge`.
- `SummaryQueue`: weak fairness of a sweep's own steps (queries and calls have timeouts) and
  of the end of the hour. Time passes whenever nobody is due, again and again (strong
  fairness of `Pass`), and each process starts one sweep per unit of time, its interval
  timer.
- `IndexLock`: every process keeps stepping (passes end, intervals come) and time passes.
- `SyncSchedule`: weak fairness of the debounce timer, of running tasks (each `fetch` has an
  abort timer), of supervisor checks and passes. The heartbeat gets strong fairness of
  firing while the queue neither runs nor holds a sync task, and `ServiceSendsAll` supposes
  that such moments recur: a heartbeat that finds a sync task in the queue is coalesced, and
  the code does not exclude that walks fill all the time between heartbeats.

## Proofs

All theorems hold for every value of the constants, under the named `ASSUME`s: bounds are
naturals, limits positive, and markers such as `None` differ from values. Three modules
assume more, and say so below. In each module `Invariance` states the inductive invariant `IInv`, which
is needed because no property is inductive by itself.

**`IndexLock_proofs`**: `TypeCorrect`, `Exclusion` (`ExclusiveUnlessMisfire`), `ReleaseSafe`
(`ReleaseIsOwn`). The invariant adds that a dead process is nowhere in the protocol
(`DeadAreIdle`), that a verdict remains true of the marker it was given on, although its pid
may come back (`VerdictHolds`), and that short of a misfire whoever owns the lock is the
creator of the marker on disk (`OwnerHasMarker`), of which there is one.

**`SessionSync_proofs`**, under `MaxRewrites = 0` (the tool only appends): `TypeCorrect`
and `ContinuityKeepsOrder` (`StoredInOrder`). The order of what is stored depends on every
request that may still arrive, so `IInv` says that the transcript, the shadow and the
archive count 1, 2, 3, ...; that each request, also a late one and one being built, is the
piece of the transcript from its base up to at most its offset; and that the envelope and a
staged rebuild are ascending and end by their offsets. Each append then continues the
messages before it wherever the continuity guard admits it. With rewrites the property is
false (a merged shadow need not be ascending), hence the assumption.

**`SessionDelivery_proofs`**, also under `MaxRewrites = 0`, says what `IInv` does not: that
the cursor of a row never covers what the server lacks. *The three regimes* each have an
inductive invariant of their own on top of `IInv`, as the reason why nothing is lost is a
different one in each:

| Regime | Assumed | Invariant | Proved |
|---|---|---|---|
| built whole, archive inline, anything late | `MaxRecords <= BuildMax`, `MaxRecords <= InlineMax` | `WholeInv`, `ArchiveInv` | `SkippedIsDelivered` (`SkipMeansDelivered`), `SkippedIsArchived` (`SkipMeansArchived`) |
| built whole, any archive, nothing late | `MaxRecords <= BuildMax`, `LateArrivals = FALSE` | `WholeInv`, `StoredInv` | `SkippedIsDeliveredOnTime` (`SkipMeansDelivered`), `WholeIsKept` (`StoredIsKept`), `WholeImplementsDelivery` |
| always chunked, anything late | `BuildMax = 0` | `ChunkInv` | `ChunkedIsDelivered` (`SkipMeansDelivered`), `ChunkedIsKept` (`StoredIsKept`), `ChunkedImplementsDelivery` |

- *Whole.* A full build stats its offset after the export, so a row's cursor may well be past
  what was sent. What saves it is that a row is skipped for good only with the hash of the
  conversation that covers it and the file's present mtime, and the mtime in the row is the
  listing's, from before the export: `WholeRow` says that a row with a hash was taken of a
  conversation that holds every record written by that mtime, and that no row is covered
  without one, as an append never covers anything. So the settle FULL always follows an append (`SkippedRow`, `WholeStep`). The
  server then has that conversation: because its archive never shrinks and a late FULL that
  is shorter than the archive is refused, so that what is stored always starts with the
  archive (`ArchiveInv`, `ArchiveOf`); or because without late requests what a pass carries
  is never behind what is stored (`StoredInv`: the shrink guard has nothing to refuse).
- *Chunked.* Heads and appends are cut at the cursor, so what is stored has no gap and its
  offset only moves up; a staged rebuild replaces it only when it is at least as long
  (`ChunkEnv`, `Advanced`), and a row's cursor is behind the stored offset or behind the
  transcript (`Reached`).
- *The refinement* is step by step: every step writes a record, stores some, or does neither
  (`DeliveryStep`). The theorems prove `Delivery!SafeSpec`; that everything is delivered in
  the end is the liveness that `session_chunked` checks.

The assumptions are those under which the properties are true, not those of the proof. *A
session that outgrows `BuildMax` between two syncs* is in none of the regimes, and there
`SkipMeansDelivered` fails: with `MaxRecords = 5`, `Window = 1`, `BuildMax = 2`, `InlineMax =
9`, `MaxTries = 2`, one fault and nothing late, rewritten, crashed or upgraded, TLC finds a
session skipped for good with a record missing, 43 steps deep. A FULL exports records 1 and
2, record 3 is written, and `from_offset` is stat'ed (`sync-client.ts` 2848), so the stored
offset is 3. The session is now too large for a settle FULL, and a chunked head and appends
rebuild it beside the live envelope. The reply of one append is lost; it is sent again with
base 3, which the rebuild is past by now but which is the offset of the live envelope, so it
is grafted there and the rebuild dropped, and the last append completes it. "Valid to merge
ONLY if our stored envelope is synced through exactly that offset" (`sync.ts` 246-252) is
what the code compares, but that offset was never a promise about the messages. The instance
is larger than any of the runs above. A duplicate of an older FULL that arrives late while
the archive ships in parts is the other case in no regime (hazard at `sync.ts` 395).

**`LedgerFile_proofs`**: `TypeCorrect`, `CurrentIsDisk` (`CurrentCacheIsDisk`),
`NothingPutBack` (`OthersRowsKept`). The invariant ties `base` to the file by the stamp:
a process that holds the stamp of the file, or is about to rename, has the file in `base`
unless another write crossed its own (`BaseIsDisk`), and off the rows its callers set its
cache is its `base` (`OwnChangesDiffer`). What a merge then writes is the file plus the
process's own rows.

**`SessionStore_proofs`**: `TypeCorrect`, `RowHasObject` (`ArchiveRowHasObject`),
`ShrinksOnlyCrossed` (`OnlyCrossedShrinks`). The key of the committed row is in the bucket
and on no job's list of objects to delete (`RowIsSafe`); the key of a row that is not
committed is there too, and nobody else's (`UncommittedIsOwn`), which rests on keys being
handed out once (`KeysArePast`) and on putting the object before writing the row
(`WritersHaveKey`).

**`UploadPool_proofs`**: `TypeCorrect`, `BarrierHolds` (`OnlyOverlookedDropped`),
`DoneDelivers` (`DoneMeansDelivered`), `LoadBounded` (`LoadIsBounded`). For each field and each session the walk has passed:
its row is stored, or in the batch, in the hand or in flight, or the walk has lost it and
fails (`ConversationSent`, `HeadSent`, `FindingsSent`, `DerivedSent`); and a request that
was served is stored (`ServedIsStored`). At the end nothing is underway (`Drained`), so what
is left is stored. `LoadBounded` has an invariant of its own, `LoadInv`: the counter is the
sum over the requests in flight (`PoolCounts`), which needs that no two of them are equal,
as a set would count them once; hence a row of a session is in one place only
(`InOnePlace`).

**`SummaryQueue_proofs`**, under `Lease < Backoff` (5 and 10 minutes by default; the
environment can set either): `TypeCorrect`, `WithinBudget` (`SweepWithinBudget`),
`OnlyOverdue` (`OnlyOverdueDoubled`), `KeepsGenerated` (`GeneratedIsKept`). Whoever works at a
session has its lease, no older than his claim, or it has been generated, or it failed since
his claim (`LeaseHeld`), and then the backoff outlasts his lease: hence the assumption. What
a claim has found therefore has no holder within his lease but those whose commit crossed
the select (`FoundFree`), and a locked row stays pending (`RowsPending`).

**`SyncSchedule_proofs`**: `TypeCorrect` (which says that no task waits while the queue
rests), `ChangeHeard` (`ChangeHasARunAhead`), `UrgentFirst` (`MostUrgentFirst`), for any
number of MCP processes and queues of any length. Three lemmas say what the queue's
operators do: `PumpServes`, `RequestHeard`, `FinishServes`. The rest is that the service
walks only inside a task that ships (`WalksInTask`), so the end of a walk is the end of a
task.

Only model-checked: all liveness, which is `EventuallyArchived`, `EditIsWritten`,
`CachesConverge`, `WalkEnds`, `DeletedIsPurged`, `NothingStrands`, `AbandonedLockIsTaken`,
`ChangeIsPickedUp`, `ServiceSendsAll` and the liveness part of `ImplementsDelivery`; and the
three properties of `session_rewrites` with a rewrite, where a merged shadow need no longer
count 1, 2, 3. Every other property of a passing run is stated by a theorem. Out of the
provers' reach are liveness under fairness, and induction over data, which facts about
`SelectSeq` in `Merge` would need once a transcript is rewritten.

## Not modelled, and why

In the modelled components: parsing, redaction, scanning and formatting (no property is
about them); search chunks and their numbering; several servers, devices and profile homes;
whole-file tools; torn lines (offsets are whole records). Late arrivals are checked with
inline archives only. `SessionStore` leaves open what the ingest of a conversation decides,
so which of two merged conversations survives is not compared. `SummaryQueue` is the
Postgres path for one tenant; a deletion beside it, and the sqlite scan, are not combined
with it. The other components are listed in `PROJECT.json` with status `not_modelled` and
the reason for each: much of the repository is parsers, tool backends, MCP tools, the web
client and installers, whose state is a screen or a file handed on, and where no property
of the kind above is at stake.

## Plan

What is left, in order of what it would add:

1. `TargetBreaker` with several targets in one walk: the breaker's windows, the ledger per
   target, and the prune of shadows.
2. `Intents`: the lease and acknowledgement of what the server asks a device to do.
3. `IngestTx`: two devices push one session, with the merge of `Ingest` inside the
   transactions of `SessionStore`, against the requests applied one at a time.
4. The relay, rate limiting and request cost, the other workers, and the intervals of the
   knowledge graph.
5. Proofs about two devices on one session, once `IngestTx` is there, from `RowHasObject`
   and the lemmas about `Ingest` in `SessionSync_proofs` and `SessionDelivery_proofs`.
