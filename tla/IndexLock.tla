----------------------------- MODULE IndexLock -----------------------------
(***************************************************************************)
(* The cross-process single-writer lock of the collector                   *)
(* (engine/src/core/index-lock.ts): a marker file created with O_EXCL that *)
(* names its creator, and a takeover of a marker whose creator is dead.    *)
(* A process that finds the lock taken gives up and tries at its next      *)
(* tick.  Every file-system call is a step of its own, so the processes    *)
(* interleave between them, and a process may die at any point.            *)
(***************************************************************************)
EXTENDS Naturals, FiniteSets

CONSTANTS
    Proc,        \* the process ids that contend for the lock
    NoFile,      \* stands for the absence of the marker
    MaxCrashes   \* bound: how many times a process dies in a behaviour

Marker == [creator: Proc, written: BOOLEAN, aged: BOOLEAN]

ASSUME NoFileAssumption == NoFile \notin Marker
ASSUME MaxCrashesAssumption == MaxCrashes \in Nat

VARIABLES
    file,     \* the marker: NoFile, or who created it, is its payload written, is it past the grace
    alive,    \* the processes that exist
    pc,       \* where each process is in acquireIndexLock / release
    ageSeen,  \* per process: the marker was past the grace when it was stat'ed
    judged,   \* processes that found the marker now on disk to be a dead one's
    misfire,  \* a takeover has removed a marker other than a dead one it had judged
    crashes   \* deaths so far

vars == <<file, alive, pc, ageSeen, judged, misfire, crashes>>

\* A process owns the lock from the O_EXCL create until it has unlinked the marker.
Owning == {"write", "held", "unlink"}
PC == {"idle", "read", "remove", "open"} \cup Owning

Present == file # NoFile

Init ==
    /\ file = NoFile
    /\ alive = Proc
    /\ pc = [p \in Proc |-> "idle"]
    /\ ageSeen = [p \in Proc |-> FALSE]
    /\ judged = {}
    /\ misfire = FALSE
    /\ crashes = 0

GoTo(p, l) == pc' = [pc EXCEPT ![p] = l]

-----------------------------------------------------------------------------
(* Acquire: existsSync, statSync, readFileSync + kill(pid, 0), rmSync,      *)
(* openSync('wx'), writeFileSync.                                           *)

\* existsSync and statSync: with no marker go straight to the create.
Stat(p) ==
    /\ p \in alive /\ pc[p] = "idle"
    /\ IF Present
         THEN GoTo(p, "read") /\ ageSeen' = [ageSeen EXCEPT ![p] = file.aged]
         ELSE GoTo(p, "open") /\ UNCHANGED ageSeen
    /\ UNCHANGED <<file, alive, judged, misfire, crashes>>

\* An unreadable payload (empty, or the file has gone since the stat) is taken
\* over at once, a live creator never, a dead one once past the grace.
Readable == Present /\ file.written
TakeableAlive(p) == Readable /\ file.creator \in alive /\ ageSeen[p]  \* mutant: the check inverted
Takeable(p) == Readable /\ file.creator \notin alive /\ ageSeen[p]

\* Mutant: a dead creator is judged before the grace is looked at.
ReadJudgesFirst(p) ==
    /\ p \in alive /\ pc[p] = "read"
    /\ GoTo(p, IF Readable /\ ~Takeable(p) THEN "idle" ELSE "remove")
    /\ judged' = IF Readable /\ file.creator \notin alive THEN judged \cup {p} ELSE judged
    /\ UNCHANGED <<file, alive, ageSeen, misfire, crashes>>

Read(p) ==
    /\ p \in alive /\ pc[p] = "read"
    /\ \/ /\ ~Readable
          /\ GoTo(p, "remove")
          /\ UNCHANGED judged
       \/ /\ Takeable(p)
          /\ GoTo(p, "remove")
          /\ judged' = judged \cup {p}
       \/ /\ Readable /\ ~Takeable(p)
          /\ GoTo(p, "idle")
          /\ UNCHANGED judged
    /\ UNCHANGED <<file, alive, ageSeen, misfire, crashes>>

\* rmSync(force) of the takeover: it removes whatever the path names by now.
Remove(p) ==
    /\ p \in alive /\ pc[p] = "remove"
    /\ misfire' = (misfire \/ (Present /\ p \notin judged /\ pc[file.creator] \in Owning))
    /\ file' = NoFile
    /\ judged' = {}
    /\ GoTo(p, "open")
    /\ UNCHANGED <<alive, ageSeen, crashes>>

\* Mutant: without O_EXCL.
OpenAnyway(p) ==
    /\ p \in alive /\ pc[p] = "open"
    /\ GoTo(p, "write")
    /\ file' = [creator |-> p, written |-> FALSE, aged |-> FALSE]
    /\ UNCHANGED <<alive, ageSeen, judged, misfire, crashes>>

\* Mutant: EEXIST is swallowed.
OpenIgnoresError(p) ==
    /\ p \in alive /\ pc[p] = "open"
    /\ GoTo(p, "write")
    /\ file' = IF Present THEN file ELSE [creator |-> p, written |-> FALSE, aged |-> FALSE]
    /\ UNCHANGED <<alive, ageSeen, judged, misfire, crashes>>

\* O_EXCL: the create succeeds only when there is no marker.
Open(p) ==
    /\ p \in alive /\ pc[p] = "open"
    /\ IF Present
         THEN GoTo(p, "idle") /\ UNCHANGED file
         ELSE /\ GoTo(p, "write")
              /\ file' = [creator |-> p, written |-> FALSE, aged |-> FALSE]
    /\ UNCHANGED <<alive, ageSeen, judged, misfire, crashes>>

\* The payload is written through the descriptor: it reaches the marker p
\* created, and nothing when that marker has been unlinked meanwhile.
Write(p) ==
    /\ p \in alive /\ pc[p] = "write"
    /\ GoTo(p, "held")
    /\ file' = IF Present /\ file.creator = p THEN [file EXCEPT !.written = TRUE] ELSE file
    /\ UNCHANGED <<alive, ageSeen, judged, misfire, crashes>>

-----------------------------------------------------------------------------
(* Release: read the payload back, unlink only when it is the holder's own. *)

Release(p) ==
    /\ p \in alive /\ pc[p] = "held"
    /\ GoTo(p, IF Readable /\ file.creator = p THEN "unlink" ELSE "idle")
    /\ UNCHANGED <<file, alive, ageSeen, judged, misfire, crashes>>

Unlink(p) ==
    /\ p \in alive /\ pc[p] = "unlink"
    /\ file' = NoFile
    /\ judged' = {}
    /\ GoTo(p, "idle")
    /\ UNCHANGED <<alive, ageSeen, misfire, crashes>>

-----------------------------------------------------------------------------
(* The environment: a process dies anywhere and leaves its marker; its pid  *)
(* is given to a new process; time passes.                                  *)

Crash(p) ==
    /\ p \in alive /\ crashes < MaxCrashes
    /\ alive' = alive \ {p}
    /\ crashes' = crashes + 1
    /\ GoTo(p, "idle")
    /\ judged' = judged \ {p}
    /\ UNCHANGED <<file, ageSeen, misfire>>

Reuse(p) ==
    /\ p \notin alive
    /\ alive' = alive \cup {p}
    /\ UNCHANGED <<file, pc, ageSeen, judged, misfire, crashes>>

\* The marker's mtime falls behind DEAD_HOLDER_GRACE_MS.
Age ==
    /\ Present /\ ~file.aged
    /\ file' = [file EXCEPT !.aged = TRUE]
    /\ UNCHANGED <<alive, pc, ageSeen, judged, misfire, crashes>>

Step(p) ==
    \/ Stat(p) \/ Read(p) \/ Remove(p) \/ Open(p) \/ Write(p)
    \/ Release(p) \/ Unlink(p)

Next ==
    \/ \E p \in Proc : Step(p) \/ Crash(p) \/ Reuse(p)
    \/ Age

Spec == Init /\ [][Next]_vars

\* Every process ticks on a timer and finishes its passes; time passes.
FairSpec == Spec /\ (\A p \in Proc : WF_vars(Step(p))) /\ WF_vars(Age)

-----------------------------------------------------------------------------
\* Type invariant; a verdict on the marker is only held on the way to its removal.
TypeOK ==
    /\ file \in Marker \cup {NoFile}
    /\ alive \subseteq Proc
    /\ pc \in [Proc -> PC]
    /\ ageSeen \in [Proc -> BOOLEAN]
    /\ judged \subseteq {p \in Proc : pc[p] = "remove"}
    /\ misfire \in BOOLEAN
    /\ crashes \in 0..MaxCrashes

Owners == {p \in alive : pc[p] \in Owning}

\* index-lock.ts 4-6, "exactly one writer", as far as O_EXCL, the liveness check
\* and the check before the unlink go: two processes own the lock at once only
\* after a takeover has removed a marker whose creator still owned it, which it
\* had not judged a dead one's (115: a marker without its payload yet is such).
ExclusiveUnlessMisfire == misfire \/ \A p, q \in Owners : p = q

\* The unlink of a release never takes away another process's lock, short of a
\* misfire: whoever is about to unlink is the creator of what it unlinks.
ReleaseIsOwn == misfire \/ \A p \in Owners : Present /\ file.creator = p

\* A lock whose holder died does not block the others for good (the corpse
\* comment at index-lock.ts 101-105), as long as its pid stays unused.
AbandonedLockIsTaken ==
    \A p \in Proc :
        (Present /\ file.creator = p /\ p \notin alive)
            ~> (~Present \/ file.creator # p \/ p \in alive)
=============================================================================
