----------------------------- MODULE LedgerFile -----------------------------
(***************************************************************************)
(* The one sync-ledger.json that the watch service, the MCP processes, a   *)
(* manual sync and verify --repair share (cli/src/sync-ledger.ts).         *)
(*                                                                         *)
(* Each process keeps a cache of all rows, `base` (the rows as it last saw *)
(* them on disk) and the stamp of the file it last read or wrote.  A load  *)
(* is a stat and, if the stamp moved, a read that merges; a write is a     *)
(* load, a rename of a temporary file and a stat.  Calls of one process    *)
(* are synchronous, so only processes interleave, between file-system      *)
(* calls; a process may die at any point and start afresh.                 *)
(*                                                                         *)
(* A row stands for one (server, session) key.  A stamp (mtime and size)   *)
(* is the number of the rename: two writes never share one.                *)
(***************************************************************************)
EXTENDS Naturals

CONSTANTS
    Proc,        \* processes that use the ledger
    Row,         \* (server, session) keys
    Value,       \* contents of a row
    NoRow,       \* stands for a row that is not there
    MaxEdits,    \* bound: changes of rows by callers
    MaxFails,    \* bound: writes that throw
    MaxCrashes   \* bound: deaths of processes

ASSUME NoRowAssumption == NoRow \notin Value
ASSUME BoundsAssumption == MaxEdits \in Nat /\ MaxFails \in Nat /\ MaxCrashes \in Nat

Entry == Value \cup {NoRow}
Ledger == [Row -> Entry]
Empty == [r \in Row |-> NoRow]

VARIABLES
    disk,       \* the rows in the file
    stamp,      \* stamp of the file: renames so far
    loaded,     \* processes whose cache is not null
    cache,      \* per process: the rows it works on
    base,       \* per process: the rows as it last saw them on disk
    diskStamp,  \* per process: stamp of the file it last read or wrote
    statted,    \* per process: stamp its load is reading under
    pending,    \* pendingWrite: processes with changes to write
    timer,      \* processes with the coalescing timer armed
    pc,         \* per process: the file-system call it makes next
    edits, fails, crashes

program == <<disk, stamp, loaded, cache, base, diskStamp, statted, pending, timer, pc>>
bounds == <<edits, fails, crashes>>

(* Observations: what no process can know. *)
VARIABLES
    touched,    \* per process: rows its callers set since its last rename
    overtaken   \* processes whose write, in progress or last, another's has crossed

observed == <<touched, overtaken>>
vars == <<program, bounds, observed>>

\* A load that serves a caller, or a write, does a stat and perhaps a read first.
PC == {"idle", "readToEdit", "edit", "readToWrite", "rename", "stat"}

Init ==
    /\ disk = Empty /\ stamp = 0
    /\ loaded = {}
    /\ cache = [p \in Proc |-> Empty]
    /\ base = [p \in Proc |-> Empty]
    /\ diskStamp = [p \in Proc |-> 0]
    /\ statted = [p \in Proc |-> 0]
    /\ pending = {} /\ timer = {}
    /\ pc = [p \in Proc |-> "idle"]
    /\ edits = 0 /\ fails = 0 /\ crashes = 0
    /\ touched = [p \in Proc |-> {}]
    /\ overtaken = {}

GoTo(p, l) == pc' = [pc EXCEPT ![p] = l]

-----------------------------------------------------------------------------
(* load *)

\* Mutant: the cache as it is.
MergeOntoKeepsCache(own, was, onDisk) == own

\* mergeOnto: a row that differs from `base`, also one that is gone, is this
\* process's change; every other row takes the disk's value.
MergeOnto(own, was, onDisk) ==
    [r \in Row |-> IF own[r] = was[r] THEN onDisk[r] ELSE own[r]]

\* Mutant: a cache, once loaded, is never read again.
StatOnce(p, read, then) ==
    IF p \in loaded
      THEN GoTo(p, then) /\ UNCHANGED statted
      ELSE GoTo(p, read) /\ statted' = [statted EXCEPT ![p] = stamp]

\* stampOf: nothing to read while the file is the one this process knows.
Stat(p, read, then) ==
    IF p \in loaded /\ diskStamp[p] = stamp
      THEN GoTo(p, then) /\ UNCHANGED statted
      ELSE GoTo(p, read) /\ statted' = [statted EXCEPT ![p] = stamp]

\* The rest of load; the stamp is the one of the stat, the rows are today's.
Read(p, from, then) ==
    /\ pc[p] = from
    /\ cache' = [cache EXCEPT ![p] =
           IF p \in loaded THEN MergeOnto(cache[p], base[p], disk) ELSE disk]
    /\ base' = [base EXCEPT ![p] = disk]
    /\ diskStamp' = [diskStamp EXCEPT ![p] = statted[p]]
    /\ loaded' = loaded \cup {p}
    /\ overtaken' = overtaken \ {p}
    /\ GoTo(p, then)
    /\ UNCHANGED <<disk, stamp, statted, pending, timer, touched, bounds>>

-----------------------------------------------------------------------------
(* Callers *)

\* getSyncedRows, markSynced, ...: every one starts with a load.
Call(p) ==
    /\ pc[p] = "idle"
    /\ Stat(p, "readToEdit", "edit")
    /\ UNCHANGED <<disk, stamp, loaded, cache, base, diskStamp, pending, timer, observed, bounds>>

ReadToEdit(p) == Read(p, "readToEdit", "edit")

\* The caller only looked.
Look(p) ==
    /\ pc[p] = "edit" /\ GoTo(p, "idle")
    /\ UNCHANGED <<disk, stamp, loaded, cache, base, diskStamp, statted, pending, timer,
                   observed, bounds>>

\* persist: the write is owed, and the timer is armed unless it is already.
Persist(p) == pending' = pending \cup {p} /\ timer' = timer \cup {p}

\* markSynced, markFieldCoverage, forgetFullCoverage set a row, markFullResync
\* deletes it, and all leave the write to the timer.
Edit(p) ==
    /\ pc[p] = "edit" /\ edits < MaxEdits
    /\ \E r \in Row, e \in Entry :
         /\ e # cache[p][r]
         /\ cache' = [cache EXCEPT ![p][r] = e]
         /\ touched' = [touched EXCEPT ![p] = @ \cup {r}]
    /\ Persist(p)
    /\ GoTo(p, "idle")
    /\ edits' = edits + 1
    /\ UNCHANGED <<disk, stamp, loaded, base, diskStamp, statted, overtaken, fails, crashes>>

-----------------------------------------------------------------------------
(* persistNow *)

\* Mutant: the timer is not cleared.
StartWriteKeepsTimer(p) ==
    /\ pc[p] = "idle" /\ p \in pending
    /\ Stat(p, "readToWrite", "rename")
    /\ UNCHANGED <<disk, stamp, loaded, cache, base, diskStamp, pending, timer, observed, bounds>>

StartWrite(p) ==
    /\ pc[p] = "idle" /\ p \in pending
    /\ timer' = timer \ {p}
    /\ Stat(p, "readToWrite", "rename")
    /\ UNCHANGED <<disk, stamp, loaded, cache, base, diskStamp, pending, observed, bounds>>

\* The timer of persist.
Fire(p) == p \in timer /\ StartWrite(p)

\* flushLedger: at the end of a walk, on exit, and in persistLedgerData.
Flush(p) == StartWrite(p)

ReadToWrite(p) == Read(p, "readToWrite", "rename")

\* Mutant: the write is no longer owed.
WriteFailsForgets(p) ==
    /\ pc[p] = "rename" /\ fails < MaxFails
    /\ pending' = pending \ {p}
    /\ GoTo(p, "idle")
    /\ fails' = fails + 1
    /\ UNCHANGED <<disk, stamp, loaded, cache, base, diskStamp, statted, timer, observed,
                   edits, crashes>>

\* The temporary file cannot be written (a full disk): the write stays owed, with no timer.
WriteFails(p) ==
    /\ pc[p] = "rename" /\ fails < MaxFails
    /\ GoTo(p, "idle")
    /\ fails' = fails + 1
    /\ UNCHANGED <<disk, stamp, loaded, cache, base, diskStamp, statted, pending, timer,
                   observed, edits, crashes>>

\* The processes between the load of their write and its last stat.
Writing == {p \in Proc : pc[p] \in {"rename", "stat"}}

\* Mutant: `base` is not brought up to date.
RenameKeepsBase(p) ==
    /\ pc[p] = "rename"
    /\ disk' = cache[p] /\ stamp' = stamp + 1
    /\ GoTo(p, "stat")
    /\ touched' = [touched EXCEPT ![p] = {}]
    /\ overtaken' = (overtaken \cup Writing) \ {p}
    /\ UNCHANGED <<loaded, cache, base, diskStamp, statted, pending, timer, bounds>>

\* renameSync puts the whole cache in place of the file.
Rename(p) ==
    /\ pc[p] = "rename"
    /\ disk' = cache[p] /\ stamp' = stamp + 1
    /\ base' = [base EXCEPT ![p] = cache[p]]
    /\ GoTo(p, "stat")
    /\ touched' = [touched EXCEPT ![p] = {}]
    /\ overtaken' = (overtaken \cup Writing) \ {p}
    /\ UNCHANGED <<loaded, cache, diskStamp, statted, pending, timer, bounds>>

\* The stamp of the file that is there now, taken for the one just written.
Stamp(p) ==
    /\ pc[p] = "stat"
    /\ diskStamp' = [diskStamp EXCEPT ![p] = stamp]
    /\ pending' = pending \ {p}
    /\ GoTo(p, "idle")
    /\ UNCHANGED <<disk, stamp, loaded, cache, base, statted, timer, observed, bounds>>

-----------------------------------------------------------------------------

\* Death and restart: memory is gone, a temporary file is never looked at again.
Crash(p) ==
    /\ crashes < MaxCrashes
    /\ loaded' = loaded \ {p}
    /\ pending' = pending \ {p} /\ timer' = timer \ {p}
    /\ GoTo(p, "idle")
    /\ touched' = [touched EXCEPT ![p] = {}]
    /\ overtaken' = overtaken \ {p}
    /\ crashes' = crashes + 1
    /\ UNCHANGED <<disk, stamp, cache, base, diskStamp, statted, edits, fails>>

Step(p) ==
    \/ ReadToEdit(p) \/ Look(p) \/ Edit(p)
    \/ ReadToWrite(p) \/ Rename(p) \/ Stamp(p)

Next ==
    \E p \in Proc :
        \/ Call(p) \/ Fire(p) \/ Flush(p)
        \/ Step(p) \/ WriteFails(p) \/ Crash(p)

Spec == Init /\ [][Next]_vars

(* A call runs to its end, walks keep asking the ledger, timers fire, and   *)
(* every walk ends with a flush.                                            *)
FairSpec ==
    /\ Spec
    /\ \A p \in Proc :
         /\ WF_vars(Step(p)) /\ WF_vars(Call(p))
         /\ WF_vars(Fire(p)) /\ SF_vars(Flush(p))

-----------------------------------------------------------------------------
(* Properties *)

TypeOK ==
    /\ disk \in Ledger /\ stamp \in Nat
    /\ loaded \subseteq Proc
    /\ cache \in [Proc -> Ledger] /\ base \in [Proc -> Ledger]
    /\ diskStamp \in [Proc -> Nat] /\ statted \in [Proc -> Nat]
    /\ pending \subseteq Proc /\ timer \subseteq pending
    /\ pc \in [Proc -> PC]
    /\ edits \in Nat /\ fails \in Nat /\ crashes \in Nat
    /\ touched \in [Proc -> SUBSET Row]
    /\ overtaken \subseteq Proc

\* A process that would not read the file again, because its stamp has not
\* moved, has every row that its own callers did not set as the file has it
\* (load, persistNow; sync-ledger.ts 93-97).
CurrentCacheIsDisk ==
    \A p \in loaded \ overtaken :
        diskStamp[p] = stamp /\ pc[p] # "stat"
            => \A r \in Row \ touched[p] : cache[p][r] = disk[r]

\* A write changes a row of the file only if a caller of the writer set that
\* row: what another process stored is not put back (the repaired cursors of
\* sync-ledger.ts 88-97), unless that was stored between load and rename, or
\* between rename and stat of the writer's last write.
OthersRowsKept ==
    [][\A p \in Proc :
          pc[p] = "rename" /\ pc'[p] = "stat" /\ p \notin overtaken
              => \A r \in Row \ touched[p] : disk'[r] = disk[r]]_vars

\* A row a caller set is written in the end, also after a write that threw,
\* or the process dies (persist, flushLedger).
EditIsWritten == \A p \in Proc : touched[p] # {} ~> touched[p] = {}

\* Once callers have stopped changing rows, every process comes to see the rows
\* of the file, except one whose last write was overtaken before its stat.
CachesConverge ==
    <>[](\A p \in loaded \ overtaken : cache[p] = disk)
=============================================================================
