------------------------- MODULE LedgerFile_proofs -------------------------
(***************************************************************************)
(* Proofs about LedgerFile, for any processes, rows and bounds:            *)
(* CurrentCacheIsDisk and OthersRowsKept, from an inductive invariant that *)
(* ties each `base` to the file by way of the stamps.                      *)
(***************************************************************************)
EXTENDS LedgerFile, TLAPS

\* A row that no caller set since the last write is in the cache as in `base`.
OwnChangesDiffer ==
    \A p \in loaded : \A r \in Row \ touched[p] : cache[p][r] = base[p][r]

\* Stamps only grow.
StampsArePast == \A p \in Proc : diskStamp[p] <= stamp /\ statted[p] <= stamp

\* A process that holds the stamp of the file, or writes, has the file in `base`.
BaseIsDisk ==
    \A p \in Proc \ overtaken :
        /\ p \in loaded /\ diskStamp[p] = stamp /\ pc[p] # "stat" => base[p] = disk
        /\ pc[p] \in {"rename", "stat"} => p \in loaded /\ base[p] = disk

\* A process that edits has a cache.
EditsHaveCache == \A p \in Proc : pc[p] \in {"edit", "rename", "stat"} => p \in loaded

\* A process that writes has no timer armed.
WritersHaveNoTimer ==
    \A p \in Proc : pc[p] \in {"readToWrite", "rename", "stat"} => p \notin timer

IInv ==
    /\ TypeOK /\ OwnChangesDiffer /\ StampsArePast /\ BaseIsDisk
    /\ EditsHaveCache /\ WritersHaveNoTimer

-----------------------------------------------------------------------------
(* Lemmas *)

\* mergeOnto yields rows, and the disk's value of each row that is as in `base`.
LEMMA MergeFacts ==
    ASSUME NEW own \in Ledger, NEW was \in Ledger, NEW onDisk \in Ledger
    PROVE  /\ MergeOnto(own, was, onDisk) \in Ledger
           /\ \A r \in Row : own[r] = was[r] => MergeOnto(own, was, onDisk)[r] = onDisk[r]
  BY DEF MergeOnto, Ledger

\* The invariant holds at the start (cache null, file without rows).
LEMMA InitIInv == Init => IInv
  BY BoundsAssumption DEF Init, IInv, TypeOK, OwnChangesDiffer, StampsArePast, BaseIsDisk,
     EditsHaveCache, WritersHaveNoTimer, Ledger, Entry, Empty, PC

\* load keeps the invariant.
LEMMA ReadKeeps ==
    ASSUME IInv, NEW p \in Proc, NEW from \in PC,
           NEW then \in {"edit", "rename"}, Read(p, from, then),
           then = "rename" => from = "readToWrite"
    PROVE  IInv'
<1> DEFINE merged == IF p \in loaded THEN MergeOnto(cache[p], base[p], disk) ELSE disk
<1>1. /\ cache \in [Proc -> Ledger] /\ base \in [Proc -> Ledger] /\ disk \in Ledger
      /\ stamp \in Nat /\ statted \in [Proc -> Nat] /\ diskStamp \in [Proc -> Nat]
      /\ pc \in [Proc -> PC] /\ loaded \subseteq Proc /\ overtaken \subseteq Proc
  BY DEF IInv, TypeOK
<1>2. merged \in Ledger
  BY <1>1, MergeFacts
<1>3. \A r \in Row \ touched[p] : merged[r] = disk[r]
  BY <1>1, MergeFacts DEF IInv, OwnChangesDiffer
<1>4. /\ cache' = [cache EXCEPT ![p] = merged] /\ base' = [base EXCEPT ![p] = disk]
      /\ diskStamp' = [diskStamp EXCEPT ![p] = statted[p]]
      /\ loaded' = loaded \cup {p} /\ overtaken' = overtaken \ {p}
      /\ pc' = [pc EXCEPT ![p] = then]
      /\ UNCHANGED <<disk, stamp, statted, pending, timer, touched, edits, fails, crashes>>
  BY DEF Read, GoTo, bounds
<1> HIDE DEF merged
<1>5. TypeOK'
  BY <1>1, <1>2, <1>4 DEF IInv, TypeOK, PC
<1>6. OwnChangesDiffer'
  <2> SUFFICES ASSUME NEW q \in loaded', NEW r \in Row \ touched'[q]
               PROVE  cache'[q][r] = base'[q][r]
    BY DEF OwnChangesDiffer
  <2>1. CASE q = p
    BY <2>1, <1>1, <1>3, <1>4
  <2>2. CASE q # p
    BY <2>2, <1>1, <1>4 DEF IInv, OwnChangesDiffer
  <2> QED BY <2>1, <2>2
<1>7. StampsArePast'
  BY <1>1, <1>4 DEF IInv, StampsArePast
<1>8. BaseIsDisk'
  BY <1>1, <1>4 DEF IInv, BaseIsDisk
<1>9. EditsHaveCache'
  BY <1>1, <1>4 DEF IInv, EditsHaveCache
<1>10. WritersHaveNoTimer'
  BY <1>1, <1>4 DEF Read, IInv, WritersHaveNoTimer
<1> QED BY <1>5, <1>6, <1>7, <1>8, <1>9, <1>10 DEF IInv

\* The stat of a load keeps the invariant: without a read, `base` is the file.
LEMMA StatKeeps ==
    ASSUME IInv, NEW p \in Proc, pc[p] = "idle",
           NEW read \in {"readToEdit", "readToWrite"}, NEW then \in {"edit", "rename"},
           Stat(p, read, then), timer' \subseteq timer,
           read = "readToWrite" \/ then = "rename" => p \notin timer',
           UNCHANGED <<disk, stamp, loaded, cache, base, diskStamp, pending, observed, bounds>>
    PROVE  IInv'
<1>1. /\ stamp \in Nat /\ statted \in [Proc -> Nat] /\ diskStamp \in [Proc -> Nat]
      /\ pc \in [Proc -> PC]
  BY DEF IInv, TypeOK
<1>2. /\ UNCHANGED <<disk, stamp, loaded, cache, base, diskStamp, pending, touched, overtaken,
                     edits, fails, crashes>>
  BY DEF observed, bounds
<1>3. \/ /\ p \in loaded /\ diskStamp[p] = stamp
         /\ pc' = [pc EXCEPT ![p] = then] /\ UNCHANGED statted
      \/ /\ pc' = [pc EXCEPT ![p] = read] /\ statted' = [statted EXCEPT ![p] = stamp]
  BY DEF Stat, GoTo
<1>4. TypeOK'
  BY <1>1, <1>2, <1>3 DEF IInv, TypeOK, PC
<1>5. OwnChangesDiffer' /\ StampsArePast'
  BY <1>1, <1>2, <1>3 DEF IInv, OwnChangesDiffer, StampsArePast
<1>6. BaseIsDisk' /\ EditsHaveCache'
  BY <1>1, <1>2, <1>3 DEF IInv, BaseIsDisk, EditsHaveCache
<1>7. WritersHaveNoTimer'
  BY <1>1, <1>2, <1>3 DEF IInv, WritersHaveNoTimer
<1> QED BY <1>4, <1>5, <1>6, <1>7 DEF IInv

\* renameSync keeps the invariant: whoever else was writing is now overtaken.
LEMMA RenameKeeps ==
    ASSUME IInv, NEW p \in Proc, Rename(p)
    PROVE  IInv'
<1>1. /\ cache \in [Proc -> Ledger] /\ base \in [Proc -> Ledger] /\ disk \in Ledger
      /\ stamp \in Nat /\ statted \in [Proc -> Nat] /\ diskStamp \in [Proc -> Nat]
      /\ pc \in [Proc -> PC] /\ touched \in [Proc -> SUBSET Row]
  BY DEF IInv, TypeOK
<1>2. /\ pc[p] = "rename" /\ disk' = cache[p] /\ stamp' = stamp + 1
      /\ base' = [base EXCEPT ![p] = cache[p]] /\ pc' = [pc EXCEPT ![p] = "stat"]
      /\ touched' = [touched EXCEPT ![p] = {}]
      /\ overtaken' = (overtaken \cup Writing) \ {p}
      /\ UNCHANGED <<loaded, cache, diskStamp, statted, pending, timer, edits, fails, crashes>>
  BY DEF Rename, GoTo, bounds
<1>3. TypeOK'
  BY <1>1, <1>2 DEF IInv, TypeOK, PC, Writing
<1>4. OwnChangesDiffer'
  <2> SUFFICES ASSUME NEW q \in loaded', NEW r \in Row \ touched'[q]
               PROVE  cache'[q][r] = base'[q][r]
    BY DEF OwnChangesDiffer
  <2> q \in Proc
    BY <1>2 DEF IInv, TypeOK
  <2>1. CASE q = p
    BY <2>1, <1>1, <1>2
  <2>2. CASE q # p
    BY <2>2, <1>1, <1>2 DEF IInv, OwnChangesDiffer
  <2> QED BY <2>1, <2>2
<1>5. StampsArePast'
  BY <1>1, <1>2 DEF IInv, StampsArePast
<1>6. BaseIsDisk'
  <2> SUFFICES ASSUME NEW q \in Proc \ overtaken'
               PROVE  /\ q \in loaded' /\ diskStamp'[q] = stamp' /\ pc'[q] # "stat"
                             => base'[q] = disk'
                      /\ pc'[q] \in {"rename", "stat"} => q \in loaded' /\ base'[q] = disk'
    BY DEF BaseIsDisk
  <2>1. CASE q = p
    BY <2>1, <1>1, <1>2 DEF IInv, EditsHaveCache
  <2>2. CASE q # p
    BY <2>2, <1>1, <1>2 DEF IInv, StampsArePast, Writing
  <2> QED BY <2>1, <2>2
<1>7. EditsHaveCache' /\ WritersHaveNoTimer'
  BY <1>1, <1>2 DEF IInv, EditsHaveCache, WritersHaveNoTimer
<1> QED BY <1>3, <1>4, <1>5, <1>6, <1>7 DEF IInv

\* Each step keeps the invariant.
LEMMA NextIInv == IInv /\ [Next]_vars => IInv'
<1> SUFFICES ASSUME IInv, [Next]_vars
             PROVE  IInv'
  OBVIOUS
<1> USE DEF IInv, TypeOK
<1>1. ASSUME NEW p \in Proc, Call(p)
      PROVE  IInv'
  <2>1. timer' = timer /\ pc[p] = "idle" /\ Stat(p, "readToEdit", "edit")
    BY <1>1 DEF Call
  <2> QED BY <1>1, <2>1, StatKeeps DEF Call
<1>2. ASSUME NEW p \in Proc, StartWrite(p)
      PROVE  IInv'
  <2>1. timer' = timer \ {p} /\ pc[p] = "idle" /\ Stat(p, "readToWrite", "rename")
    BY <1>2 DEF StartWrite
  <2> QED BY <1>2, <2>1, StatKeeps DEF StartWrite
<1>3. ASSUME NEW p \in Proc, ReadToEdit(p) \/ ReadToWrite(p)
      PROVE  IInv'
  BY <1>3, ReadKeeps DEF ReadToEdit, ReadToWrite, PC
<1>4. ASSUME NEW p \in Proc, Look(p)
      PROVE  IInv'
  BY <1>4 DEF Look, GoTo, PC, observed, bounds, OwnChangesDiffer, StampsArePast, BaseIsDisk,
     EditsHaveCache, WritersHaveNoTimer
<1>5. ASSUME NEW p \in Proc, Edit(p)
      PROVE  IInv'
  <2>1. PICK r \in Row, e \in Entry :
           /\ cache' = [cache EXCEPT ![p][r] = e]
           /\ touched' = [touched EXCEPT ![p] = @ \cup {r}]
    BY <1>5 DEF Edit
  <2>2. /\ pc' = [pc EXCEPT ![p] = "idle"] /\ pending' = pending \cup {p}
        /\ timer' = timer \cup {p} /\ edits' = edits + 1
        /\ UNCHANGED <<disk, stamp, loaded, base, diskStamp, statted, overtaken, fails, crashes>>
    BY <1>5 DEF Edit, Persist, GoTo
  <2>3. cache'[p] \in Ledger /\ \A s \in Row : s # r => cache'[p][s] = cache[p][s]
    BY <2>1 DEF Ledger
  <2>4. TypeOK'
    BY <2>1, <2>2, <2>3 DEF PC
  <2>5. OwnChangesDiffer'
    BY <2>1, <2>2, <2>3 DEF OwnChangesDiffer
  <2>6. StampsArePast' /\ BaseIsDisk' /\ EditsHaveCache' /\ WritersHaveNoTimer'
    BY <1>5, <2>2 DEF StampsArePast, BaseIsDisk, EditsHaveCache, WritersHaveNoTimer, Edit
  <2> QED BY <2>4, <2>5, <2>6
<1>6. ASSUME NEW p \in Proc, WriteFails(p)
      PROVE  IInv'
  BY <1>6 DEF WriteFails, GoTo, PC, observed, OwnChangesDiffer, StampsArePast, BaseIsDisk,
     EditsHaveCache, WritersHaveNoTimer
<1>7. ASSUME NEW p \in Proc, Rename(p)
      PROVE  IInv'
  BY <1>7, RenameKeeps
<1>8. ASSUME NEW p \in Proc, Stamp(p)
      PROVE  IInv'
  BY <1>8 DEF Stamp, GoTo, PC, observed, bounds, OwnChangesDiffer, StampsArePast, BaseIsDisk,
     EditsHaveCache, WritersHaveNoTimer
<1>9. ASSUME NEW p \in Proc, Crash(p)
      PROVE  IInv'
  BY <1>9 DEF Crash, GoTo, PC, OwnChangesDiffer, StampsArePast, BaseIsDisk, EditsHaveCache,
     WritersHaveNoTimer
<1>10. CASE UNCHANGED vars
  BY <1>10 DEF vars, program, bounds, observed, OwnChangesDiffer, StampsArePast, BaseIsDisk,
     EditsHaveCache, WritersHaveNoTimer
<1> QED
  BY <1>1, <1>2, <1>3, <1>4, <1>5, <1>6, <1>7, <1>8, <1>9, <1>10 DEF Next, Step, Fire, Flush

-----------------------------------------------------------------------------
(* Theorems *)

\* The inductive invariant holds in every reachable state.
THEOREM Invariance == Spec => []IInv
  BY InitIInv, NextIInv, PTL DEF Spec

\* The variables keep their types (sync-ledger.ts 99-105).
THEOREM TypeCorrect == Spec => []TypeOK
<1>1. IInv => TypeOK
  BY DEF IInv
<1> QED BY <1>1, Invariance, PTL

\* A process that would not read the file again has it, but for its own changes.
THEOREM CurrentIsDisk == Spec => []CurrentCacheIsDisk
<1>1. IInv => CurrentCacheIsDisk
  BY DEF IInv, TypeOK, CurrentCacheIsDisk, OwnChangesDiffer, BaseIsDisk
<1> QED BY <1>1, Invariance, PTL

\* A write that no other has crossed puts back no row of another process.
THEOREM NothingPutBack == Spec => OthersRowsKept
<1> DEFINE Kept ==
      \A p \in Proc :
          pc[p] = "rename" /\ pc'[p] = "stat" /\ p \notin overtaken
              => \A r \in Row \ touched[p] : disk'[r] = disk[r]
<1>1. IInv /\ [Next]_vars => [Kept]_vars
  <2> SUFFICES ASSUME IInv, Next, NEW p \in Proc, pc[p] = "rename", pc'[p] = "stat",
                      p \notin overtaken, NEW r \in Row \ touched[p]
               PROVE  disk'[r] = disk[r]
    OBVIOUS
  <2>1. PICK q \in Proc : \/ Call(q) \/ Fire(q) \/ Flush(q)
                          \/ Step(q) \/ WriteFails(q) \/ Crash(q)
    BY DEF Next
  <2>2. Rename(p)
    BY <2>1 DEF IInv, TypeOK, Step, Call, Fire, Flush, StartWrite, Stat, ReadToEdit, ReadToWrite,
       Read, Look, Edit, WriteFails, Rename, Stamp, Crash, GoTo
  <2>3. disk' = cache[p]
    BY <2>2 DEF Rename
  <2>4. p \in loaded /\ base[p] = disk
    BY DEF IInv, BaseIsDisk
  <2>5. cache[p][r] = base[p][r]
    BY <2>4 DEF IInv, OwnChangesDiffer
  <2> QED BY <2>3, <2>4, <2>5
<1> QED BY <1>1, Invariance, PTL DEF Spec, OthersRowsKept
=============================================================================
