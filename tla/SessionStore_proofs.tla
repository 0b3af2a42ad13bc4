------------------------ MODULE SessionStore_proofs ------------------------
(***************************************************************************)
(* Proofs about SessionStore, for any number of requests, sizes, bodies    *)
(* and failures: TypeOK and ArchiveRowHasObject.                           *)
(***************************************************************************)
EXTENDS SessionStore, TLAPS

\* The row names an object that nobody is going to delete.
RowIsSafe ==
    raw # None =>
        /\ raw.key \in rawObj
        /\ \A i \in Job : raw.key \notin job[i].drop

\* A key not yet committed names an object, and is nobody else's in any way.
UncommittedIsOwn ==
    \A j \in Job : job[j].key # 0 =>
        /\ job[j].key \in rawObj
        /\ raw # None => raw.key # job[j].key
        /\ \A i \in Job :
             /\ job[j].key \notin job[i].drop
             /\ job[j].key # job[i].prev
             /\ i # j => job[j].key # job[i].key

\* Keys are handed out once.
KeysArePast ==
    /\ raw # None => raw.key # 0 /\ raw.key < nextKey
    /\ \A i \in Job :
         /\ job[i].key < nextKey /\ job[i].prev < nextKey
         /\ \A k \in job[i].drop : k < nextKey

\* Who is about to write the row has put an object.
WritersHaveKey == \A i \in Job : job[i].pc \in {"record", "snapshot", "lock"} => job[i].key # 0

IInv == TypeOK /\ RowIsSafe /\ UncommittedIsOwn /\ KeysArePast /\ WritersHaveKey

-----------------------------------------------------------------------------
(* Types *)

LEMMA Steps ==
    /\ {"idle", "archive", "parts", "record", "snapshot", "lock", "write", "commit", "hooks",
        "purge", "bury", "plan", "healMetadata", "healContent", "healCommit", "healChunks",
        "heal", "prefetch"} \subseteq PC
    /\ {"push", "upload", "delete", "retention", "sweep", "heal"} \subseteq Flow
  BY DEF PC, Flow

LEMMA IdleIsLocal == Idle \in Local
<1>1. {} \in Damage /\ {} \in Keys /\ {} \in Bodies
  BY DEF Damage, Keys, Bodies
<1> QED  BY <1>1, Steps DEF Idle, Local

LEMMA KeyOfType == ASSUME NEW r \in Archive \cup {None} PROVE KeyOf(r) \in Nat
  BY NoneAssumption DEF KeyOf, Archive

LEMMA InitType == Init => TypeOK
<1> SUFFICES ASSUME Init PROVE TypeOK
  OBVIOUS
<1>1. job \in [Job -> Local]
  BY IdleIsLocal DEF Init
<1>2. raw \in Archive \cup {None}
  BY BoundsAssumption DEF Init, InitNew, InitStored, Archive, Size
<1>3. /\ rows \subseteq Table /\ content \in Body \cup {None}
      /\ rawObj \subseteq Nat /\ bodyObj \subseteq Body /\ nextKey \in Nat \ {0}
  BY DEF Init, InitNew, InitStored
<1>4. /\ rawLock \in Job \cup {None} /\ rowLock \in Job \cup {None}
      /\ requests \in Nat /\ fails \in Nat
  BY DEF Init
<1>5. tomb \in BOOLEAN
  BY DEF Init
<1> QED  BY <1>1, <1>2, <1>3, <1>4, <1>5 DEF TypeOK

LEMMA PutType ==
    ASSUME TypeOK, NEW j \in Job, NEW s \in Size, NEW read \in Archive \cup {None},
           Put(j, s, read)
    PROVE  job' \in [Job -> Local] /\ rawObj' \subseteq Nat /\ nextKey' \in Nat \ {0}
<1>1. s \in Nat /\ nextKey \in Nat \ {0}
  BY BoundsAssumption DEF Size, TypeOK
<1>2. [job[j] EXCEPT !.key = nextKey, !.size = s, !.seen = read, !.pc = "snapshot"] \in Local
  BY <1>1, Steps DEF TypeOK, Local
<1>3. job' = [job EXCEPT ![j] =
        [job[j] EXCEPT !.key = nextKey, !.size = s, !.seen = read, !.pc = "snapshot"]]
  BY DEF Put, TypeOK
<1>4. job' \in [Job -> Local]
  BY <1>2, <1>3 DEF TypeOK
<1> QED  BY <1>1, <1>4 DEF Put, TypeOK

\* What a job does to the archive row keeps the types.
LEMMA ArchiveType ==
    ASSUME TypeOK, NEW j \in Job,
           \/ StoreArchive(j) \/ MergeArchive(j) \/ RepairArchive(j)
           \/ Snapshot(j) \/ LockInRequest(j) \/ NameArchive(j) \/ Commit(j)
    PROVE  TypeOK'
<1>a. job[j].seen \in Archive \cup {None}
  BY DEF TypeOK, Local
<1>1. CASE StoreArchive(j)
  <2>1. PICK s \in Size : Put(j, s, job[j].seen)
    BY <1>1 DEF StoreArchive
  <2>2. job' \in [Job -> Local] /\ rawObj' \subseteq Nat /\ nextKey' \in Nat \ {0}
    BY <1>a, <2>1, PutType
  <2> QED  BY <1>1, <2>2 DEF StoreArchive, TypeOK, locks, bounds
<1>2. CASE MergeArchive(j)
  <2>1. PICK s \in Size : Put(j, s, raw)
    BY <1>2 DEF MergeArchive
  <2>2. job' \in [Job -> Local] /\ rawObj' \subseteq Nat /\ nextKey' \in Nat \ {0}
    BY <2>1, PutType DEF TypeOK
  <2> QED  BY <1>2, <2>2 DEF MergeArchive, TypeOK, locks, bounds
<1>3. CASE RepairArchive(j)
  <2>1. PICK s \in Size : Put(j, s, raw)
    BY <1>3 DEF RepairArchive
  <2>2. job' \in [Job -> Local] /\ rawObj' \subseteq Nat /\ nextKey' \in Nat \ {0}
    BY <2>1, PutType DEF TypeOK
  <2> QED  BY <1>3, <2>2 DEF RepairArchive, Request, TypeOK, locks
<1>4. CASE Snapshot(j)
  <2>1. KeyOf(raw) \in Nat
    BY KeyOfType DEF TypeOK
  <2>2. [job[j] EXCEPT !.prev = KeyOf(raw), !.pc = "lock"] \in Local
    BY <2>1, Steps DEF Local, TypeOK
  <2>3. job' = [job EXCEPT ![j] = [job[j] EXCEPT !.prev = KeyOf(raw), !.pc = "lock"]]
    BY <1>4 DEF Snapshot, TypeOK
  <2>4. job' \in [Job -> Local]
    BY <2>2, <2>3 DEF TypeOK
  <2> QED  BY <1>4, <2>4 DEF Snapshot, TypeOK, stored, locks, bounds
<1>5. CASE LockInRequest(j)
  <2>1. job' \in [Job -> Local]
    BY <1>5, Steps DEF LockInRequest, Local, TypeOK, GoTo
  <2> QED  BY <1>5, <2>1 DEF LockInRequest, TypeOK, stored, bounds
<1>b. Superseded(j) \in Keys /\ NewArchive(j) \in Archive
  BY DEF NewArchive, Superseded, Keys, Archive, Local, TypeOK
<1>6. CASE NameArchive(j)
  <2>1. [job[j] EXCEPT !.drop = Superseded(j), !.key = 0, !.pc = "hooks"] \in Local
    BY <1>b, Steps DEF Local, TypeOK
  <2>2. job' = [job EXCEPT ![j] =
          [job[j] EXCEPT !.drop = Superseded(j), !.key = 0, !.pc = "hooks"]]
    BY <1>6 DEF NameArchive, TypeOK
  <2> QED  BY <1>6, <1>b, <2>1, <2>2 DEF NameArchive, TypeOK, locks, bounds
<1>7. CASE Commit(j)
  <2> DEFINE dropped == IF job[j].key # 0 THEN Superseded(j) ELSE {}
             bodies == IF job[j].body # None THEN SupersededBody(j) ELSE {}
             local == [job[j] EXCEPT !.drop = dropped, !.dropBody = bodies,
                                     !.key = 0, !.body = None, !.pc = "hooks"]
  <2>1. dropped \in Keys /\ bodies \in Bodies
    BY <1>b DEF SupersededBody, TypeOK, Local, Keys, Bodies
  <2> HIDE DEF dropped, bodies
  <2>2. local \in Local
    BY <2>1, Steps DEF Local, TypeOK
  <2> USE DEF dropped, bodies
  <2>3. job' = [job EXCEPT ![j] = local]
    BY <1>7 DEF Commit, TypeOK
  <2>4. job' \in [Job -> Local]
    BY <2>2, <2>3 DEF TypeOK
  <2>5. rows' \subseteq Table /\ raw' \in Archive \cup {None} /\ content' \in Body \cup {None}
    BY <1>7, <1>b DEF Commit, TypeOK, Table, Local
  <2>6. rawLock' \in Job \cup {None} /\ rowLock' \in Job \cup {None}
    BY <1>7 DEF Commit, Unlock, TypeOK
  <2> QED  BY <1>7, <2>4, <2>5, <2>6 DEF Commit, TypeOK, bounds
<1> QED  BY <1>1, <1>2, <1>3, <1>4, <1>5, <1>6, <1>7

\* Requests, uploads in parts and deletion keep the types.
LEMMA RequestType ==
    ASSUME TypeOK, NEW j \in Job,
           \/ Begin(j) \/ SweepDeleted(j) \/ BeginHeal(j)
           \/ Prefetch(j) \/ KeepArchive(j) \/ WriteNothing(j) \/ WriteRows(j)
           \/ Hooks(j) \/ Fail(j) \/ Purge(j) \/ Bury(j)
           \/ CompleteUpload(j) \/ RecordUpload(j) \/ RejectUpload(j) \/ RefuseUpload(j)
    PROVE  TypeOK'
<1> USE Steps
<1>a. job[j] \in Local /\ job \in [Job -> Local]
  BY DEF TypeOK
<1>b. ASSUME NEW f \in Flow, NEW l \in PC, Start(j, f, l)
      PROVE  job' \in [Job -> Local]
  <2>1. [job[j] EXCEPT !.flow = f, !.pc = l] \in Local
    BY <1>a DEF Local
  <2>2. job' = [job EXCEPT ![j] = [job[j] EXCEPT !.flow = f, !.pc = l]]
    BY <1>a, <1>b DEF Start
  <2> QED  BY <1>a, <2>1, <2>2
<1>c. ASSUME NEW l \in PC, GoTo(j, l)
      PROVE  job' \in [Job -> Local]
  <2>1. [job[j] EXCEPT !.pc = l] \in Local
    BY <1>a DEF Local
  <2>2. job' = [job EXCEPT ![j] = [job[j] EXCEPT !.pc = l]]
    BY <1>a, <1>c DEF GoTo
  <2> QED  BY <1>a, <2>1, <2>2
<1>d. Finish(j) => job' \in [Job -> Local]
  BY <1>a, IdleIsLocal DEF Finish
<1>e. ASSUME PurgeRows(j)
      PROVE  /\ job' \in [Job -> Local]
             /\ rows' \subseteq Table /\ raw' \in Archive \cup {None}
             /\ content' \in Body \cup {None}
  <2> DEFINE keys == {KeyOf(raw)} \ {0}
             bodies == {content} \ {None}
  <2>1. keys \in Keys /\ bodies \in Bodies
    BY KeyOfType DEF TypeOK, Keys, Bodies
  <2>2. job' = [job EXCEPT ![j] =
          [job[j] EXCEPT !.drop = keys, !.dropBody = bodies, !.pc = "hooks"]]
    BY <1>a, <1>e DEF PurgeRows
  <2> HIDE DEF keys, bodies
  <2>3. [job[j] EXCEPT !.drop = keys, !.dropBody = bodies, !.pc = "hooks"] \in Local
    BY <1>a, <2>1 DEF Local
  <2>4. job' \in [Job -> Local]
    BY <1>a, <2>2, <2>3
  <2> QED  BY <1>e, <2>4 DEF PurgeRows
<1>f. DropUpload(j) => job' \in [Job -> Local]
  <2>1. {job[j].key} \in Keys
    BY <1>a DEF Local, Keys
  <2>2. [job[j] EXCEPT !.drop = {job[j].key}, !.key = 0, !.pc = "hooks"] \in Local
    BY <1>a, <2>1 DEF Local
  <2>3. DropUpload(j) => job' = [job EXCEPT ![j] =
          [job[j] EXCEPT !.drop = {job[j].key}, !.key = 0, !.pc = "hooks"]]
    BY <1>a DEF DropUpload
  <2> QED  BY <1>a, <2>2, <2>3
<1>1. CASE BeginPush(j)
  BY <1>1, <1>b DEF BeginPush, Request, TypeOK, stored, locks
<1>2. CASE StartUpload(j)
  <2>1. PICK s \in Size :
          job' = [job EXCEPT ![j].flow = "upload", ![j].size = s, ![j].pc = "parts"]
    BY <1>2 DEF StartUpload
  <2>2. s \in Nat
    BY BoundsAssumption DEF Size
  <2>3. [job[j] EXCEPT !.flow = "upload", !.size = s, !.pc = "parts"] \in Local
    BY <1>a, <2>2 DEF Local
  <2>4. job' = [job EXCEPT ![j] =
          [job[j] EXCEPT !.flow = "upload", !.size = s, !.pc = "parts"]]
    BY <1>a, <2>1
  <2>5. job' \in [Job -> Local]
    BY <1>a, <2>3, <2>4
  <2> QED  BY <1>2, <2>5 DEF StartUpload, Request, TypeOK, stored, locks
<1>3. CASE BeginDelete(j)
  BY <1>3, <1>b DEF BeginDelete, Request, TypeOK, stored, locks
<1>4. CASE BeginRetention(j)
  BY <1>4, <1>b DEF BeginRetention, Request, TypeOK, stored, locks
<1>5. CASE PushTombstone(j)
  BY <1>5, <1>e DEF PushTombstone, PurgeRows, Request, TypeOK, locks
<1>6. CASE Restore(j)
  <2>1. tomb' \in BOOLEAN
    BY <1>6 DEF Restore
  <2>2. requests' \in Nat /\ fails' \in Nat
    BY <1>6 DEF Restore, Request, TypeOK
  <2> QED  BY <1>6, <2>1, <2>2 DEF Restore, TypeOK, locks
<1>7. CASE SweepDeleted(j)
  BY <1>7, <1>b DEF SweepDeleted, TypeOK, stored, locks, bounds
<1>8. CASE BeginHeal(j)
  BY <1>8, <1>b DEF BeginHeal, TypeOK, stored, locks, bounds
<1>9. CASE Prefetch(j)
  <2> DEFINE had == content # None
  <2>1. had \in BOOLEAN /\ raw \in Archive \cup {None}
    BY DEF TypeOK
  <2>2. job' = [job EXCEPT ![j] =
          [job[j] EXCEPT !.had = had, !.seen = raw, !.pc = "archive"]]
    BY <1>9, <1>a DEF Prefetch
  <2> HIDE DEF had
  <2>3. [job[j] EXCEPT !.had = had, !.seen = raw, !.pc = "archive"] \in Local
    BY <1>a, <2>1 DEF Local
  <2>4. job' \in [Job -> Local]
    BY <1>a, <2>2, <2>3
  <2> QED  BY <1>9, <2>4 DEF Prefetch, TypeOK, stored, locks, bounds
<1>10. CASE KeepArchive(j)
  BY <1>10, <1>c DEF KeepArchive, TypeOK, stored, locks, bounds
<1>11. CASE WriteNothing(j)
  BY <1>11, <1>c DEF WriteNothing, TypeOK, stored, locks, bounds
<1>12. CASE WriteRows(j)
  <2>1. PICK b \in Body, w \in BOOLEAN :
          /\ job' = [job EXCEPT ![j].body = b, ![j].whole = w, ![j].pc = "commit"]
          /\ bodyObj' = bodyObj \cup {b}
    BY <1>12 DEF WriteRows
  <2>2. [job[j] EXCEPT !.body = b, !.whole = w, !.pc = "commit"] \in Local
    BY <1>a DEF Local
  <2>3. job' = [job EXCEPT ![j] = [job[j] EXCEPT !.body = b, !.whole = w, !.pc = "commit"]]
    BY <1>a, <2>1
  <2>4. job' \in [Job -> Local]
    BY <1>a, <2>2, <2>3
  <2> QED  BY <1>12, <2>1, <2>4 DEF WriteRows, TypeOK, bounds
<1>13. CASE Hooks(j)
  <2> DEFINE next == CASE job[j].flow = "delete" -> [Idle EXCEPT !.flow = "delete", !.pc = "bury"]
                       [] job[j].flow = "heal" -> [Idle EXCEPT !.flow = "heal", !.pc = "plan"]
                       [] OTHER -> Idle
  <2>1. /\ [Idle EXCEPT !.flow = "delete", !.pc = "bury"] \in Local
        /\ [Idle EXCEPT !.flow = "heal", !.pc = "plan"] \in Local
    BY IdleIsLocal DEF Local
  <2>2. next \in Local
    BY <2>1, IdleIsLocal
  <2>3. job' = [job EXCEPT ![j] = next]
    BY <1>13 DEF Hooks
  <2> HIDE DEF next
  <2>4. job' \in [Job -> Local]
    BY <1>a, <2>2, <2>3
  <2> QED  BY <1>13, <2>4 DEF Hooks, TypeOK, locks, bounds
<1>14. CASE Fail(j)
  BY <1>14, <1>d DEF Fail, Unlock, TypeOK, stored
<1>15. CASE Purge(j)
  BY <1>15, <1>e DEF Purge, PurgeRows, TypeOK, locks, bounds
<1>16. CASE Bury(j)
  BY <1>16, <1>d DEF Bury, TypeOK, locks, bounds
<1>17. CASE CompleteUpload(j)
  <2>1. nextKey \in Nat \ {0}
    BY DEF TypeOK
  <2>2. [job[j] EXCEPT !.key = nextKey, !.pc = "record"] \in Local
    BY <1>a, <2>1 DEF Local
  <2>3. job' = [job EXCEPT ![j] = [job[j] EXCEPT !.key = nextKey, !.pc = "record"]]
    BY <1>17, <1>a DEF CompleteUpload
  <2>4. job' \in [Job -> Local]
    BY <1>a, <2>2, <2>3
  <2> QED  BY <1>17, <2>4 DEF CompleteUpload, TypeOK, locks, bounds
<1>18. CASE RecordUpload(j)
  <2>1. [job[j] EXCEPT !.seen = raw, !.pc = "snapshot"] \in Local
    BY <1>a DEF TypeOK, Local
  <2>2. job' = [job EXCEPT ![j] = [job[j] EXCEPT !.seen = raw, !.pc = "snapshot"]]
    BY <1>18, <1>a DEF RecordUpload
  <2>3. job' \in [Job -> Local]
    BY <1>a, <2>1, <2>2
  <2> QED  BY <1>18, <2>3 DEF RecordUpload, TypeOK, stored, locks, bounds
<1>19. CASE RejectUpload(j) \/ RefuseUpload(j)
  BY <1>19, <1>f DEF RejectUpload, RefuseUpload, DropUpload, TypeOK, stored, locks, bounds
<1> QED
  BY <1>1, <1>2, <1>3, <1>4, <1>5, <1>6, <1>7, <1>8, <1>9, <1>10, <1>11, <1>12, <1>13, <1>14,
     <1>15, <1>16, <1>17, <1>18, <1>19 DEF Begin

\* Self-heal keeps the types.
LEMMA HealType ==
    ASSUME TypeOK, NEW j \in Job,
           \/ PlanHeal(j) \/ HealMetadata(j) \/ HealContent(j) \/ HealNoContent(j)
           \/ HealCommit(j) \/ HealChunks(j)
    PROVE  TypeOK'
<1> USE Steps
<1>a. job[j] \in Local /\ job \in [Job -> Local]
  BY DEF TypeOK
<1>c. ASSUME NEW l \in PC, GoTo(j, l)
      PROVE  job' \in [Job -> Local]
  <2>1. [job[j] EXCEPT !.pc = l] \in Local
    BY <1>a DEF Local
  <2>2. job' = [job EXCEPT ![j] = [job[j] EXCEPT !.pc = l]]
    BY <1>a, <1>c DEF GoTo
  <2> QED  BY <1>a, <2>1, <2>2
<1>d. Finish(j) => job' \in [Job -> Local]
  BY <1>a, IdleIsLocal DEF Finish
<1>1. CASE PlanHeal(j)
  <2>1. job' \in [Job -> Local]
    <3>1. CASE Finish(j)
      BY <3>1, <1>d
    <3>2. CASE ~Finish(j)
      <4>1. PICK missing : /\ missing \in Damage
                           /\ job' = [job EXCEPT ![j].plan = missing, ![j].pc = "healMetadata"]
        <5>1. PICK view \in BOOLEAN :
                LET missing == (Table \ rows) \cup (IF view THEN {"content", "chunks"} ELSE {})
                IN  job' = [job EXCEPT ![j].plan = missing, ![j].pc = "healMetadata"]
          BY <1>1, <3>2 DEF PlanHeal
        <5> DEFINE missing == (Table \ rows) \cup (IF view THEN {"content", "chunks"} ELSE {})
        <5>2. missing \in Damage
          BY DEF Damage, Table
        <5> QED  BY <5>1, <5>2
      <4>2. [job[j] EXCEPT !.plan = missing, !.pc = "healMetadata"] \in Local
        BY <1>a, <4>1 DEF Local
      <4>3. job' = [job EXCEPT ![j] = [job[j] EXCEPT !.plan = missing, !.pc = "healMetadata"]]
        BY <1>a, <4>1
      <4> QED  BY <1>a, <4>2, <4>3
    <3> QED  BY <3>1, <3>2
  <2> QED  BY <1>1, <2>1 DEF PlanHeal, TypeOK, stored, locks, bounds
<1>2. CASE HealMetadata(j)
  <2>1. rows' \subseteq Table
    BY <1>2 DEF HealMetadata, TypeOK, Table
  <2> QED  BY <1>2, <1>c, <2>1 DEF HealMetadata, TypeOK, locks, bounds
<1>3. CASE HealContent(j)
  <2>1. PICK b \in Body :
          /\ job' = [job EXCEPT ![j].body = b, ![j].pc = "healCommit"]
          /\ bodyObj' = (bodyObj \cup {b}) \ ({content} \ {b})
    BY <1>3 DEF HealContent
  <2>2. [job[j] EXCEPT !.body = b, !.pc = "healCommit"] \in Local
    BY <1>a DEF Local
  <2>3. job' = [job EXCEPT ![j] = [job[j] EXCEPT !.body = b, !.pc = "healCommit"]]
    BY <1>a, <2>1
  <2>4. job' \in [Job -> Local]
    BY <1>a, <2>2, <2>3
  <2> QED  BY <1>3, <2>1, <2>4 DEF HealContent, TypeOK, bounds
<1>4. CASE HealNoContent(j)
  BY <1>4, <1>c DEF HealNoContent, TypeOK, stored, locks, bounds
<1>5. CASE HealCommit(j)
  <2>1. [job[j] EXCEPT !.body = None, !.pc = "healChunks"] \in Local
    BY <1>a DEF Local
  <2>2. job' = [job EXCEPT ![j] = [job[j] EXCEPT !.body = None, !.pc = "healChunks"]]
    BY <1>a, <1>5 DEF HealCommit
  <2>3. job' \in [Job -> Local]
    BY <1>a, <2>1, <2>2
  <2>4. content' \in Body \cup {None}
    BY <1>a, <1>5 DEF HealCommit, Local
  <2> QED  BY <1>5, <2>3, <2>4 DEF HealCommit, Unlock, TypeOK, bounds
<1>6. CASE HealChunks(j)
  <2>1. rows' \subseteq Table
    BY <1>6 DEF HealChunks, TypeOK, Table
  <2> QED  BY <1>6, <1>d, <2>1 DEF HealChunks, TypeOK, locks, bounds
<1> QED  BY <1>1, <1>2, <1>3, <1>4, <1>5, <1>6

LEMMA NextType == TypeOK /\ [Next]_vars => TypeOK'
<1> SUFFICES ASSUME TypeOK, [Next]_vars PROVE TypeOK'
  OBVIOUS
<1>1. ASSUME NEW j \in Job,
             Begin(j) \/ Step(j) \/ Fail(j) \/ SweepDeleted(j) \/ BeginHeal(j) \/ RepairArchive(j)
      PROVE  TypeOK'
  BY <1>1, ArchiveType, RequestType, HealType DEF Step
<1>2. CASE UNCHANGED vars
  BY <1>2 DEF vars, stored, locks, bounds, TypeOK
<1> QED  BY <1>1, <1>2 DEF Next, Job

-----------------------------------------------------------------------------
(* Keys *)

\* A step that does not touch the archive keeps the invariant, whether the job
\* keeps its archive or gives it up.
LEMMA OthersKeep ==
    ASSUME IInv, TypeOK', NEW j \in Job,
           raw' = raw, rawObj' = rawObj, nextKey' = nextKey,
           \A i \in Job \ {j} : job'[i] = job[i],
           job'[j].key \in {0, job[j].key}, job'[j].prev \in {0, job[j].prev},
           job'[j].drop \in {{}, job[j].drop},
           job'[j].pc \in {"record", "snapshot", "lock"} => job'[j].key # 0
    PROVE  IInv'
<1> USE DEF IInv
<1>1. nextKey \in Nat \ {0}
  BY DEF TypeOK
<1>2. RowIsSafe'
  BY DEF RowIsSafe
<1>3. UncommittedIsOwn'
  BY DEF UncommittedIsOwn
<1>4. KeysArePast'
  BY <1>1 DEF KeysArePast
<1>5. WritersHaveKey'
  BY DEF WritersHaveKey
<1> QED  BY <1>2, <1>3, <1>4, <1>5

\* A new object has a key no one has heard of.
LEMMA PutKeeps ==
    ASSUME IInv, TypeOK', NEW j \in Job,
           raw' = raw, rawObj' = rawObj \cup {nextKey}, nextKey' = nextKey + 1,
           \A i \in Job \ {j} : job'[i] = job[i],
           job'[j].key = nextKey, job'[j].prev = job[j].prev, job'[j].drop = job[j].drop
    PROVE  IInv'
<1> USE DEF IInv
<1>1. /\ nextKey \in Nat \ {0} /\ raw \in Archive \cup {None}
      /\ raw # None => raw.key \in Nat
      /\ \A i \in Job : job[i].key \in Nat /\ job[i].prev \in Nat /\ job[i].drop \subseteq Nat
  BY DEF TypeOK, Local, Archive, Keys
<1>2. RowIsSafe'
  BY DEF RowIsSafe
<1>3. UncommittedIsOwn'
  BY <1>1 DEF UncommittedIsOwn, KeysArePast
<1>4. KeysArePast'
  BY <1>1 DEF KeysArePast
<1>5. WritersHaveKey'
  BY <1>1 DEF WritersHaveKey
<1> QED  BY <1>2, <1>3, <1>4, <1>5

\* A row that comes to name the archive of j names one that stays.
LEMMA NamesKeep ==
    ASSUME IInv, TypeOK', NEW j \in Job, job[j].key # 0,
           raw' = NewArchive(j), rawObj' = rawObj, nextKey' = nextKey,
           \A i \in Job \ {j} : job'[i] = job[i],
           job'[j].key = 0, job'[j].prev = job[j].prev, job'[j].drop = Superseded(j),
           job'[j].pc = "hooks"
    PROVE  IInv'
<1> USE DEF IInv
<1>1. /\ nextKey \in Nat \ {0}
      /\ raw'.key = job[j].key /\ raw' # None
  BY NoneAssumption DEF TypeOK, NewArchive, Local
<1>2. RowIsSafe'
  BY <1>1 DEF RowIsSafe, UncommittedIsOwn, Superseded
<1>3. UncommittedIsOwn'
  BY <1>1 DEF UncommittedIsOwn, Superseded
<1>4. KeysArePast'
  BY <1>1 DEF KeysArePast, Superseded
<1>5. WritersHaveKey'
  BY DEF WritersHaveKey
<1> QED  BY <1>2, <1>3, <1>4, <1>5

\* A purge drops the object of the row it deletes.
LEMMA PurgeKeeps ==
    ASSUME IInv, TypeOK', NEW j \in Job, PurgeRows(j)
    PROVE  IInv'
<1> USE DEF IInv
<1>1. /\ raw' = None /\ rawObj' = rawObj /\ nextKey' = nextKey /\ nextKey \in Nat \ {0}
      /\ \A i \in Job \ {j} : job'[i] = job[i]
      /\ job'[j].key = job[j].key /\ job'[j].prev = job[j].prev
      /\ job'[j].drop = {KeyOf(raw)} \ {0} /\ job'[j].pc = "hooks"
  BY DEF PurgeRows, TypeOK, Local
<1>2. RowIsSafe'
  BY <1>1 DEF RowIsSafe
<1>3. UncommittedIsOwn'
  BY <1>1 DEF UncommittedIsOwn, KeyOf
<1>4. KeysArePast'
  BY <1>1 DEF KeysArePast, KeyOf
<1>5. WritersHaveKey'
  BY <1>1 DEF WritersHaveKey
<1> QED  BY <1>2, <1>3, <1>4, <1>5

\* What writing the rows leaves of a job's archive.
LEMMA WriteRowsLocal ==
    ASSUME TypeOK, NEW j \in Job, WriteRows(j)
    PROVE  /\ \A i \in Job \ {j} : job'[i] = job[i]
           /\ job'[j].key = job[j].key /\ job'[j].size = job[j].size
           /\ job'[j].seen = job[j].seen /\ job'[j].prev = job[j].prev
           /\ job'[j].drop = job[j].drop
           /\ job[j].pc = "write" /\ job'[j].pc = "commit"
<1>1. PICK b \in Body, w \in BOOLEAN :
        job' = [job EXCEPT ![j].body = b, ![j].whole = w, ![j].pc = "commit"]
  BY DEF WriteRows
<1>2. job \in [Job -> Local] /\ job[j] \in Local
  BY DEF TypeOK
<1> DEFINE local == [job[j] EXCEPT !.body = b, !.whole = w, !.pc = "commit"]
<1>3. job' = [job EXCEPT ![j] = local]
  BY <1>1, <1>2
<1>4. /\ local.key = job[j].key /\ local.size = job[j].size /\ local.seen = job[j].seen
      /\ local.prev = job[j].prev /\ local.drop = job[j].drop /\ local.pc = "commit"
  BY <1>2 DEF Local
<1> HIDE DEF local
<1>5. /\ \A i \in Job \ {j} : job'[i] = job[i]
      /\ job'[j] = local
  BY <1>2, <1>3
<1> QED  BY <1>4, <1>5 DEF WriteRows, At

\* A refused upload drops an object that no row names.
LEMMA DropKeeps ==
    ASSUME IInv, TypeOK', NEW j \in Job, At(j, "record"), DropUpload(j)
    PROVE  IInv'
<1> USE DEF IInv
<1>1. /\ raw' = raw /\ rawObj' = rawObj /\ nextKey' = nextKey /\ nextKey \in Nat \ {0}
      /\ \A i \in Job \ {j} : job'[i] = job[i]
      /\ job'[j].key = 0 /\ job'[j].prev = job[j].prev
      /\ job'[j].drop = {job[j].key} /\ job'[j].pc = "hooks"
  BY DEF DropUpload, stored, TypeOK, Local
<1>2. job[j].key # 0
  BY DEF WritersHaveKey, At
<1>3. RowIsSafe'
  BY <1>1, <1>2 DEF RowIsSafe, UncommittedIsOwn
<1>4. UncommittedIsOwn'
  BY <1>1, <1>2 DEF UncommittedIsOwn
<1>5. KeysArePast'
  BY <1>1 DEF KeysArePast
<1>6. WritersHaveKey'
  BY <1>1 DEF WritersHaveKey
<1> QED  BY <1>3, <1>4, <1>5, <1>6

\* The key an upsert finds in its snapshot is a committed one.
LEMMA SnapshotKeeps ==
    ASSUME IInv, TypeOK', NEW j \in Job, Snapshot(j)
    PROVE  IInv'
<1> USE DEF IInv
<1>1. /\ raw' = raw /\ rawObj' = rawObj /\ nextKey' = nextKey /\ nextKey \in Nat \ {0}
      /\ \A i \in Job \ {j} : job'[i] = job[i]
      /\ job'[j].key = job[j].key /\ job'[j].prev = KeyOf(raw)
      /\ job'[j].drop = job[j].drop /\ job'[j].pc = "lock" /\ job[j].pc = "snapshot"
  BY DEF Snapshot, At, stored, TypeOK, Local
<1>2. RowIsSafe'
  BY <1>1 DEF RowIsSafe
<1>3. UncommittedIsOwn'
  BY <1>1 DEF UncommittedIsOwn, KeyOf
<1>4. KeysArePast'
  BY <1>1 DEF KeysArePast, KeyOf
<1>5. WritersHaveKey'
  BY <1>1 DEF WritersHaveKey
<1> QED  BY <1>2, <1>3, <1>4, <1>5

\* The objects a job deletes are named by no row.
LEMMA HooksKeep ==
    ASSUME IInv, TypeOK', NEW j \in Job, Hooks(j)
    PROVE  IInv'
<1> USE DEF IInv
<1>1. /\ raw' = raw /\ rawObj' = rawObj \ job[j].drop /\ nextKey' = nextKey
      /\ nextKey \in Nat \ {0}
      /\ \A i \in Job \ {j} : job'[i] = job[i]
      /\ job'[j] \in {Idle, [Idle EXCEPT !.flow = "delete", !.pc = "bury"],
                      [Idle EXCEPT !.flow = "heal", !.pc = "plan"]}
  BY DEF Hooks, TypeOK
<1>2. /\ job'[j].key = 0 /\ job'[j].prev = 0 /\ job'[j].drop = {}
      /\ job'[j].pc \notin {"record", "snapshot", "lock"}
  <2>1. CASE job'[j] = Idle
    BY <2>1 DEF Idle
  <2>2. CASE job'[j] = [Idle EXCEPT !.flow = "delete", !.pc = "bury"]
    BY <2>2 DEF Idle
  <2>3. CASE job'[j] = [Idle EXCEPT !.flow = "heal", !.pc = "plan"]
    BY <2>3 DEF Idle
  <2> QED  BY <1>1, <2>1, <2>2, <2>3
<1>3. RowIsSafe'
  BY <1>1, <1>2 DEF RowIsSafe
<1>4. UncommittedIsOwn'
  BY <1>1, <1>2 DEF UncommittedIsOwn
<1>5. KeysArePast'
  BY <1>1, <1>2 DEF KeysArePast
<1>6. WritersHaveKey'
  BY <1>1, <1>2 DEF WritersHaveKey
<1> QED  BY <1>3, <1>4, <1>5, <1>6

\* Every step of a job on the archive keeps the invariant.
LEMMA ArchiveKeeps ==
    ASSUME IInv, TypeOK', NEW j \in Job,
           \/ StoreArchive(j) \/ MergeArchive(j) \/ RepairArchive(j) \/ CompleteUpload(j)
           \/ NameArchive(j) \/ Commit(j)
    PROVE  IInv'
<1>a. job \in [Job -> Local]
  BY DEF IInv, TypeOK
<1>b. ASSUME NEW s, NEW read, Put(j, s, read)
      PROVE  /\ rawObj' = rawObj \cup {nextKey} /\ nextKey' = nextKey + 1
             /\ \A i \in Job \ {j} : job'[i] = job[i]
             /\ job'[j].key = nextKey
             /\ job'[j].prev = job[j].prev /\ job'[j].drop = job[j].drop
  BY <1>a, <1>b DEF Put, Local
<1>1. CASE StoreArchive(j)
  BY <1>1, <1>b, PutKeeps DEF StoreArchive
<1>2. CASE MergeArchive(j)
  BY <1>2, <1>b, PutKeeps DEF MergeArchive
<1>3. CASE RepairArchive(j)
  BY <1>3, <1>b, PutKeeps DEF RepairArchive
<1>4. CASE CompleteUpload(j)
  <2>1. /\ \A i \in Job \ {j} : job'[i] = job[i]
        /\ job'[j].key = nextKey
        /\ job'[j].prev = job[j].prev /\ job'[j].drop = job[j].drop
    BY <1>a, <1>4 DEF CompleteUpload, Local
  <2> QED  BY <1>4, <2>1, PutKeeps DEF CompleteUpload
<1>5. CASE NameArchive(j)
  <2>1. /\ \A i \in Job \ {j} : job'[i] = job[i]
        /\ job'[j].key = 0 /\ job'[j].prev = job[j].prev
        /\ job'[j].drop = Superseded(j) /\ job'[j].pc = "hooks"
    BY <1>a, <1>5 DEF NameArchive, Local
  <2>2. job[j].key # 0
    BY <1>5 DEF NameArchive, At, IInv, WritersHaveKey
  <2> QED  BY <1>5, <2>1, <2>2, NamesKeep DEF NameArchive
<1>6. CASE Commit(j)
  <2>1. /\ \A i \in Job \ {j} : job'[i] = job[i]
        /\ job'[j].key = 0 /\ job'[j].prev = job[j].prev
        /\ job'[j].drop = (IF job[j].key # 0 THEN Superseded(j) ELSE {})
        /\ job'[j].pc = "hooks"
    BY <1>a, <1>6 DEF Commit, Local
  <2>2. CASE job[j].key # 0
    BY <1>6, <2>1, <2>2, NamesKeep DEF Commit
  <2>3. CASE job[j].key = 0
    BY <1>6, <2>1, <2>3, OthersKeep DEF Commit
  <2> QED  BY <2>2, <2>3
<1> QED  BY <1>1, <1>2, <1>3, <1>4, <1>5, <1>6

\* Every other step of a job keeps it.
LEMMA RestKeeps ==
    ASSUME IInv, TypeOK', NEW j \in Job,
           \/ BeginPush(j) \/ StartUpload(j) \/ BeginDelete(j) \/ BeginRetention(j) \/ Restore(j)
           \/ SweepDeleted(j) \/ BeginHeal(j) \/ Fail(j)
           \/ Prefetch(j) \/ KeepArchive(j) \/ LockInRequest(j)
           \/ WriteNothing(j) \/ WriteRows(j) \/ RecordUpload(j) \/ Bury(j)
           \/ PlanHeal(j) \/ HealMetadata(j) \/ HealContent(j) \/ HealNoContent(j)
           \/ HealCommit(j) \/ HealChunks(j)
    PROVE  IInv'
<1>1. /\ job \in [Job -> Local]
      /\ job[j].pc \in {"record", "snapshot", "lock"} => job[j].key # 0
  BY DEF IInv, TypeOK, WritersHaveKey
<1>2. raw' = raw /\ rawObj' = rawObj /\ nextKey' = nextKey
  BY DEF BeginPush, StartUpload, BeginDelete, BeginRetention, Restore, SweepDeleted, BeginHeal,
     Fail, Prefetch, KeepArchive, LockInRequest, WriteNothing, WriteRows, RecordUpload, Bury,
     PlanHeal, HealMetadata, HealContent, HealNoContent, HealCommit, HealChunks, stored
<1>3. CASE \/ BeginPush(j) \/ BeginDelete(j) \/ BeginRetention(j) \/ SweepDeleted(j) \/ BeginHeal(j)
  <2>1. PICK f \in Flow, l \in {"prefetch", "purge", "heal"} :
          job' = [job EXCEPT ![j].flow = f, ![j].pc = l]
    BY <1>3 DEF BeginPush, BeginDelete, BeginRetention, SweepDeleted, BeginHeal, Start, Flow
  <2>2. /\ \A i \in Job \ {j} : job'[i] = job[i]
        /\ job'[j].key = job[j].key /\ job'[j].prev = job[j].prev
        /\ job'[j].drop = job[j].drop /\ job'[j].pc = l
    BY <1>1, <2>1 DEF Local
  <2> QED  BY <1>2, <2>2, OthersKeep
<1>4. CASE StartUpload(j) \/ Prefetch(j) \/ WriteRows(j) \/ HealContent(j) \/ HealCommit(j)
  <2>1. /\ \A i \in Job \ {j} : job'[i] = job[i]
        /\ job'[j].key = job[j].key /\ job'[j].prev = job[j].prev
        /\ job'[j].drop = job[j].drop
        /\ job'[j].pc \in {"parts", "archive", "commit", "healCommit", "healChunks"}
    <3>1. CASE StartUpload(j)
      BY <1>1, <3>1 DEF StartUpload, Local
    <3>2. CASE Prefetch(j)
      BY <1>1, <3>2 DEF Prefetch, Local
    <3>3. CASE WriteRows(j)
      BY <3>3, WriteRowsLocal DEF IInv
    <3>4. CASE HealContent(j)
      BY <1>1, <3>4 DEF HealContent, Local
    <3>5. CASE HealCommit(j)
      BY <1>1, <3>5 DEF HealCommit, Local
    <3> QED  BY <1>4, <3>1, <3>2, <3>3, <3>4, <3>5
  <2> QED  BY <1>2, <2>1, OthersKeep
<1>5. CASE Restore(j)
  BY <1>1, <1>2, <1>5, OthersKeep DEF Restore
<1>6. CASE Fail(j) \/ Bury(j) \/ HealChunks(j)
  <2>1. /\ \A i \in Job \ {j} : job'[i] = job[i]
        /\ job'[j] = Idle
    BY <1>1, <1>6 DEF Fail, Bury, HealChunks, Finish
  <2> QED  BY <1>2, <2>1, OthersKeep DEF Idle
<1>7. CASE \/ KeepArchive(j) \/ LockInRequest(j) \/ WriteNothing(j) \/ HealMetadata(j)
           \/ HealNoContent(j)
  <2>1. PICK l \in {"write", "commit", "healContent", "healChunks"} : GoTo(j, l)
    BY <1>7 DEF KeepArchive, LockInRequest, WriteNothing, HealMetadata, HealNoContent
  <2>2. /\ \A i \in Job \ {j} : job'[i] = job[i]
        /\ job'[j].key = job[j].key /\ job'[j].prev = job[j].prev
        /\ job'[j].drop = job[j].drop /\ job'[j].pc = l
    BY <1>1, <2>1 DEF GoTo, Local
  <2> QED  BY <1>2, <2>2, OthersKeep
<1>8. CASE RecordUpload(j)
  <2>1. /\ \A i \in Job \ {j} : job'[i] = job[i]
        /\ job'[j].key = job[j].key /\ job'[j].prev = job[j].prev
        /\ job'[j].drop = job[j].drop /\ job[j].key # 0
    BY <1>1, <1>8 DEF RecordUpload, At, Local
  <2> QED  BY <1>2, <2>1, OthersKeep
<1>9. CASE PlanHeal(j)
  <2>1. CASE Finish(j)
    <3>1. /\ \A i \in Job \ {j} : job'[i] = job[i]
          /\ job'[j] = Idle
      BY <1>1, <2>1 DEF Finish
    <3> QED  BY <1>2, <3>1, OthersKeep DEF Idle
  <2>2. CASE ~Finish(j)
    <3>1. PICK missing : job' = [job EXCEPT ![j].plan = missing, ![j].pc = "healMetadata"]
      BY <1>9, <2>2 DEF PlanHeal
    <3>2. /\ \A i \in Job \ {j} : job'[i] = job[i]
          /\ job'[j].key = job[j].key /\ job'[j].prev = job[j].prev
          /\ job'[j].drop = job[j].drop /\ job'[j].pc = "healMetadata"
      BY <1>1, <3>1 DEF Local
    <3> QED  BY <1>2, <3>2, OthersKeep
  <2> QED  BY <2>1, <2>2
<1> QED  BY <1>3, <1>4, <1>5, <1>6, <1>7, <1>8, <1>9

LEMMA NextIInv == IInv /\ [Next]_vars => IInv'
<1> SUFFICES ASSUME IInv, [Next]_vars PROVE IInv'
  OBVIOUS
<1>a. TypeOK'
  BY NextType DEF IInv
<1>1. ASSUME NEW j \in Job,
             Begin(j) \/ Step(j) \/ Fail(j) \/ SweepDeleted(j) \/ BeginHeal(j) \/ RepairArchive(j)
      PROVE  IInv'
  <2>1. Purge(j) \/ PushTombstone(j) => IInv'
    BY <1>a, PurgeKeeps DEF Purge, PushTombstone
  <2>2. RejectUpload(j) \/ RefuseUpload(j) => IInv'
    BY <1>a, DropKeeps DEF RejectUpload, RefuseUpload
  <2> QED
    BY <1>a, <1>1, <2>1, <2>2, SnapshotKeeps, HooksKeep, ArchiveKeeps, RestKeeps DEF Begin, Step
<1>2. CASE UNCHANGED vars
  BY <1>2 DEF vars, stored, locks, bounds, IInv, TypeOK, RowIsSafe, UncommittedIsOwn,
     KeysArePast, WritersHaveKey
<1> QED  BY <1>1, <1>2 DEF Next, Job

LEMMA InitIInv == Init => IInv
<1> SUFFICES ASSUME Init PROVE IInv
  OBVIOUS
<1>1. \A i \in Job : job[i] = Idle
  BY DEF Init
<1>2. RowIsSafe /\ KeysArePast
  BY <1>1 DEF Init, InitNew, InitStored, RowIsSafe, KeysArePast, Idle
<1>3. UncommittedIsOwn /\ WritersHaveKey
  BY <1>1 DEF UncommittedIsOwn, WritersHaveKey, Idle
<1> QED  BY <1>2, <1>3, InitType DEF IInv

-----------------------------------------------------------------------------
(* Sizes *)

\* A job that stores an archive has one no smaller than the row it last read.
GuardedLocal(l) ==
    /\ l.pc \in {"idle", "prefetch", "archive"} => l.key = 0
    /\ l.key # 0 /\ l.pc \in {"snapshot", "lock", "write", "commit"} => l.size >= SizeOf(l.seen)

Guarded == \A i \in Job : GuardedLocal(job[i])

\* The steps that read the row, or put an archive.
LEMMA DecisionsGuarded ==
    ASSUME TypeOK, Guarded, NEW j \in Job,
           \/ StoreArchive(j) \/ MergeArchive(j) \/ RepairArchive(j) \/ RecordUpload(j)
           \/ Prefetch(j)
    PROVE  Guarded'
<1>1. /\ job \in [Job -> Local] /\ job[j] \in Local /\ GuardedLocal(job[j])
      /\ \A i \in Job \ {j} : job'[i] = job[i] => GuardedLocal(job'[i])
  BY DEF TypeOK, Guarded
<1>2. ASSUME NEW s \in Size, NEW read \in Archive \cup {None}, NEW b \in BOOLEAN,
             ~Refused(s, SizeOf(read), b), Put(j, s, read)
      PROVE  Guarded'
  <2>1. /\ \A i \in Job \ {j} : job'[i] = job[i]
        /\ job'[j].pc = "snapshot" /\ job'[j].size = s /\ job'[j].seen = read
    BY <1>1, <1>2 DEF Put, Local
  <2>2. s >= SizeOf(read)
    BY <1>2, BoundsAssumption DEF Refused, Size, SizeOf, Archive
  <2> QED  BY <1>1, <2>1, <2>2 DEF Guarded, GuardedLocal
<1>3. CASE StoreArchive(j)
  BY <1>1, <1>2, <1>3 DEF StoreArchive, Local
<1>4. CASE MergeArchive(j)
  <2>1. PICK s \in Size : s > raw.size /\ Put(j, s, raw)
    BY <1>4 DEF MergeArchive
  <2>2. ~Refused(s, SizeOf(raw), TRUE)
    BY <1>4, <2>1, BoundsAssumption DEF MergeArchive, Refused, SizeOf, Size, TypeOK, Archive
  <2> QED  BY <1>2, <2>1, <2>2 DEF TypeOK
<1>5. CASE RepairArchive(j)
  BY <1>2, <1>5 DEF RepairArchive, TypeOK
<1>6. CASE RecordUpload(j)
  <2>1. /\ \A i \in Job \ {j} : job'[i] = job[i]
        /\ job'[j].pc = "snapshot" /\ job'[j].size = job[j].size /\ job'[j].seen = raw
    BY <1>1, <1>6 DEF RecordUpload, Local
  <2>2. job[j].size >= SizeOf(raw)
    BY <1>1, <1>6 DEF RecordUpload, Refused, SizeOf, TypeOK, Archive, Local
  <2> QED  BY <1>1, <2>1, <2>2 DEF Guarded, GuardedLocal
<1>7. CASE Prefetch(j)
  <2>1. /\ \A i \in Job \ {j} : job'[i] = job[i]
        /\ job'[j].pc = "archive" /\ job'[j].key = job[j].key /\ job[j].pc = "prefetch"
    BY <1>1, <1>7 DEF Prefetch, At, Local
  <2> QED  BY <1>1, <2>1 DEF Guarded, GuardedLocal
<1> QED  BY <1>3, <1>4, <1>5, <1>6, <1>7

\* The steps that leave key, size and reading as they are, or give the key up.
LEMMA OthersGuarded ==
    ASSUME Guarded, NEW j \in Job,
           \A i \in Job \ {j} : job'[i] = job[i],
           \/ job'[j].key = 0
           \/ /\ job'[j].key = job[j].key /\ job'[j].size = job[j].size
              /\ job'[j].seen = job[j].seen
              /\ \/ job'[j].pc \notin {"idle", "prefetch", "archive", "snapshot", "lock", "write",
                                       "commit"}
                 \/ job[j].pc = "idle"
                 \/ /\ job[j].pc \in {"archive", "snapshot", "lock", "write"}
                    /\ job'[j].pc \in {"lock", "write", "commit"}
    PROVE  Guarded'
  BY DEF Guarded, GuardedLocal

LEMMA RequestGuarded ==
    ASSUME TypeOK, Guarded, NEW j \in Job,
           \/ Begin(j) \/ SweepDeleted(j) \/ BeginHeal(j)
           \/ KeepArchive(j) \/ WriteNothing(j) \/ WriteRows(j) \/ LockInRequest(j) \/ Snapshot(j)
           \/ Purge(j) \/ CompleteUpload(j)
    PROVE  Guarded'
<1>1. job \in [Job -> Local] /\ job[j] \in Local
  BY DEF TypeOK
<1>2. ASSUME NEW f, NEW l, Start(j, f, l)
      PROVE  Guarded'
  <2>1. /\ \A i \in Job \ {j} : job'[i] = job[i] /\ job[j].pc = "idle"
        /\ job'[j].key = job[j].key /\ job[j].pc = "idle"
    BY <1>1, <1>2 DEF Start, At, Local
  <2>2. job[j].key = 0
    BY <2>1 DEF Guarded, GuardedLocal
  <2> QED  BY <2>1, <2>2, OthersGuarded
<1>3. CASE BeginPush(j) \/ BeginDelete(j) \/ BeginRetention(j) \/ SweepDeleted(j) \/ BeginHeal(j)
  BY <1>2, <1>3 DEF BeginPush, BeginDelete, BeginRetention, SweepDeleted, BeginHeal
<1>4. CASE StartUpload(j)
  <2>1. /\ \A i \in Job \ {j} : job'[i] = job[i]
        /\ job'[j].key = job[j].key /\ job[j].pc = "idle"
    BY <1>1, <1>4 DEF StartUpload, At, Local
  <2> QED  BY <2>1, OthersGuarded DEF Guarded, GuardedLocal
<1>5. CASE Restore(j)
  BY <1>5, OthersGuarded DEF Restore, Guarded
<1>6. CASE Purge(j) \/ PushTombstone(j)
  <2>1. /\ \A i \in Job \ {j} : job'[i] = job[i]
        /\ job'[j].key = job[j].key /\ job'[j].size = job[j].size
        /\ job'[j].seen = job[j].seen /\ job'[j].pc = "hooks"
    BY <1>1, <1>6 DEF Purge, PushTombstone, PurgeRows, Local
  <2> QED  BY <2>1, OthersGuarded
<1>7. CASE KeepArchive(j) \/ WriteNothing(j) \/ LockInRequest(j)
  <2>1. PICK l \in {"write", "commit"} : GoTo(j, l)
    BY <1>7 DEF KeepArchive, WriteNothing, LockInRequest
  <2>2. job[j].pc \in {"archive", "lock", "write"}
    BY <1>7 DEF KeepArchive, WriteNothing, LockInRequest, At
  <2>3. /\ \A i \in Job \ {j} : job'[i] = job[i]
        /\ job'[j].key = job[j].key /\ job'[j].size = job[j].size
        /\ job'[j].seen = job[j].seen /\ job'[j].pc = l
    BY <1>1, <2>1 DEF GoTo, Local
  <2> QED  BY <2>2, <2>3, OthersGuarded
<1>8. CASE WriteRows(j)
  <2>1. /\ \A i \in Job \ {j} : job'[i] = job[i]
        /\ job'[j].key = job[j].key /\ job'[j].size = job[j].size
        /\ job'[j].seen = job[j].seen /\ job'[j].pc = "commit" /\ job[j].pc = "write"
    BY <1>8, WriteRowsLocal
  <2> QED  BY <2>1, OthersGuarded
<1>9. CASE Snapshot(j)
  <2>1. /\ \A i \in Job \ {j} : job'[i] = job[i]
        /\ job'[j].key = job[j].key /\ job'[j].size = job[j].size
        /\ job'[j].seen = job[j].seen /\ job'[j].pc = "lock" /\ job[j].pc = "snapshot"
    BY <1>1, <1>9 DEF Snapshot, At, Local
  <2> QED  BY <2>1, OthersGuarded
<1>10. CASE CompleteUpload(j)
  <2>1. /\ \A i \in Job \ {j} : job'[i] = job[i]
        /\ job'[j].pc = "record"
    BY <1>1, <1>10 DEF CompleteUpload, Local
  <2> QED  BY <2>1 DEF Guarded, GuardedLocal
<1> QED  BY <1>3, <1>4, <1>5, <1>6, <1>7, <1>8, <1>9, <1>10 DEF Begin

LEMMA RestGuarded ==
    ASSUME TypeOK, Guarded, NEW j \in Job,
           \/ Fail(j) \/ Bury(j) \/ Hooks(j) \/ NameArchive(j) \/ Commit(j)
           \/ RejectUpload(j) \/ RefuseUpload(j)
           \/ PlanHeal(j) \/ HealMetadata(j) \/ HealContent(j) \/ HealNoContent(j)
           \/ HealCommit(j) \/ HealChunks(j)
    PROVE  Guarded'
<1>1. job \in [Job -> Local] /\ job[j] \in Local
  BY DEF TypeOK
<1>2. ASSUME Finish(j) PROVE Guarded'
  <2>1. (\A i \in Job \ {j} : job'[i] = job[i]) /\ job'[j] = Idle
    BY <1>1, <1>2 DEF Finish
  <2> QED  BY <2>1, OthersGuarded DEF Idle
<1>3. CASE Fail(j) \/ Bury(j) \/ HealChunks(j)
  BY <1>2, <1>3 DEF Fail, Bury, HealChunks
<1>4. CASE Hooks(j)
  <2>1. /\ \A i \in Job \ {j} : job'[i] = job[i]
        /\ \/ job'[j] = Idle
           \/ job'[j] = [Idle EXCEPT !.flow = "delete", !.pc = "bury"]
           \/ job'[j] = [Idle EXCEPT !.flow = "heal", !.pc = "plan"]
    BY <1>1, <1>4 DEF Hooks
  <2>2. [Idle EXCEPT !.flow = "delete", !.pc = "bury"].key = 0
    BY DEF Idle
  <2>3. [Idle EXCEPT !.flow = "heal", !.pc = "plan"].key = 0 /\ Idle.key = 0
    BY DEF Idle
  <2>4. job'[j].key = 0
    BY <2>1, <2>2, <2>3
  <2> QED  BY <2>1, <2>4, OthersGuarded
<1>5. CASE NameArchive(j)
  <2>1. (\A i \in Job \ {j} : job'[i] = job[i]) /\ job'[j].key = 0
    BY <1>1, <1>5 DEF NameArchive, Local
  <2> QED  BY <2>1, OthersGuarded
<1>6. CASE Commit(j)
  <2>1. (\A i \in Job \ {j} : job'[i] = job[i]) /\ job'[j].key = 0
    BY <1>1, <1>6 DEF Commit, Local
  <2> QED  BY <2>1, OthersGuarded
<1>7. CASE RejectUpload(j) \/ RefuseUpload(j)
  <2>1. (\A i \in Job \ {j} : job'[i] = job[i]) /\ job'[j].key = 0
    BY <1>1, <1>7 DEF RejectUpload, RefuseUpload, DropUpload, Local
  <2> QED  BY <2>1, OthersGuarded
<1>8. CASE HealMetadata(j) \/ HealNoContent(j)
  <2>1. (\A i \in Job \ {j} : job'[i] = job[i]) /\ job'[j].pc \in {"healContent", "healChunks"}
    BY <1>1, <1>8 DEF HealMetadata, HealNoContent, GoTo, Local
  <2> QED  BY <2>1 DEF Guarded, GuardedLocal
<1>9. CASE HealContent(j)
  <2>1. (\A i \in Job \ {j} : job'[i] = job[i]) /\ job'[j].pc = "healCommit"
    BY <1>1, <1>9 DEF HealContent, Local
  <2> QED  BY <2>1 DEF Guarded, GuardedLocal
<1>10. CASE HealCommit(j)
  <2>1. (\A i \in Job \ {j} : job'[i] = job[i]) /\ job'[j].pc = "healChunks"
    BY <1>1, <1>10 DEF HealCommit, Local
  <2> QED  BY <2>1 DEF Guarded, GuardedLocal
<1>11. CASE PlanHeal(j)
  <2>1. CASE Finish(j)
    BY <1>2, <2>1
  <2>2. CASE ~Finish(j)
    <3>1. PICK missing : job' = [job EXCEPT ![j].plan = missing, ![j].pc = "healMetadata"]
      BY <1>11, <2>2 DEF PlanHeal
    <3>2. (\A i \in Job \ {j} : job'[i] = job[i]) /\ job'[j].pc = "healMetadata"
      BY <1>1, <3>1 DEF Local
    <3> QED  BY <3>2 DEF Guarded, GuardedLocal
  <2> QED  BY <2>1, <2>2
<1> QED  BY <1>3, <1>4, <1>5, <1>6, <1>7, <1>8, <1>9, <1>10, <1>11

LEMMA NextGuarded == TypeOK /\ Guarded /\ [Next]_vars => Guarded'
<1> SUFFICES ASSUME TypeOK, Guarded, [Next]_vars PROVE Guarded'
  OBVIOUS
<1>1. ASSUME NEW j \in Job,
             Begin(j) \/ Step(j) \/ Fail(j) \/ SweepDeleted(j) \/ BeginHeal(j) \/ RepairArchive(j)
      PROVE  Guarded'
  BY <1>1, DecisionsGuarded, RequestGuarded, RestGuarded DEF Step
<1>2. CASE UNCHANGED vars
  BY <1>2 DEF vars, Guarded
<1> QED  BY <1>1, <1>2 DEF Next, Job

\* What OnlyCrossedShrinks says of one step.
NoUncrossedShrink ==
    \A j \in Job :
        job[j].pc \in {"lock", "commit"} /\ job'[j].pc = "hooks" /\ job[j].seen = raw
            => raw = None \/ (raw' # None /\ raw'.size >= raw.size)

\* A step of one job leaves the others' variables alone.
LEMMA OwnStep ==
    ASSUME TypeOK, NEW i \in Job,
           Begin(i) \/ Step(i) \/ Fail(i) \/ SweepDeleted(i) \/ BeginHeal(i) \/ RepairArchive(i)
    PROVE  \A k \in Job \ {i} : job'[k] = job[k]
<1>a. job \in [Job -> Local]
  BY DEF TypeOK
<1>1. CASE Begin(i)
  BY <1>a, <1>1 DEF Begin, BeginPush, StartUpload, BeginDelete, BeginRetention, PushTombstone, Restore,
     Start, PurgeRows
<1>2. CASE Fail(i) \/ SweepDeleted(i) \/ BeginHeal(i) \/ RepairArchive(i)
  BY <1>a, <1>2 DEF Fail, Finish, SweepDeleted, BeginHeal, Start, RepairArchive, Put
<1>3. CASE \/ Prefetch(i) \/ KeepArchive(i) \/ StoreArchive(i) \/ MergeArchive(i)
           \/ Snapshot(i) \/ LockInRequest(i) \/ NameArchive(i)
  BY <1>a, <1>3 DEF Prefetch, KeepArchive, StoreArchive, MergeArchive, Put, Snapshot, LockInRequest,
     NameArchive, GoTo
<1>4. CASE WriteNothing(i) \/ WriteRows(i) \/ Commit(i) \/ Hooks(i)
  BY <1>a, <1>4 DEF WriteNothing, WriteRows, Commit, Hooks, GoTo
<1>5. CASE \/ CompleteUpload(i) \/ RecordUpload(i) \/ RejectUpload(i) \/ RefuseUpload(i)
           \/ Purge(i) \/ Bury(i)
  BY <1>a, <1>5 DEF CompleteUpload, RecordUpload, RejectUpload, RefuseUpload, DropUpload, Purge, PurgeRows,
     Bury, Finish
<1>6. CASE \/ PlanHeal(i) \/ HealMetadata(i) \/ HealContent(i) \/ HealNoContent(i)
           \/ HealCommit(i) \/ HealChunks(i)
  BY <1>a, <1>6 DEF PlanHeal, HealMetadata, HealContent, HealNoContent, HealCommit, HealChunks, Finish, GoTo
<1> QED  BY <1>1, <1>2, <1>3, <1>4, <1>5, <1>6 DEF Step

\* Only two steps of a job take it from the lock, or from its COMMIT, to the hooks.
LEMMA CommittingStep ==
    ASSUME TypeOK, NEW j \in Job, job[j].pc \in {"lock", "commit"}, job'[j].pc = "hooks",
           Begin(j) \/ Step(j) \/ Fail(j) \/ SweepDeleted(j) \/ BeginHeal(j) \/ RepairArchive(j)
    PROVE  NameArchive(j) \/ Commit(j)
<1>1. ~Begin(j) /\ ~SweepDeleted(j) /\ ~BeginHeal(j) /\ ~RepairArchive(j)
  BY DEF Begin, BeginPush, StartUpload, BeginDelete, BeginRetention, PushTombstone, Restore,
     Start, At, SweepDeleted, BeginHeal, RepairArchive
<1>2. ~Fail(j)
  BY DEF Fail, Finish, Idle, TypeOK
<1>3. ~LockInRequest(j)
  BY DEF LockInRequest, GoTo, TypeOK, Local
<1>4. /\ ~Prefetch(j) /\ ~KeepArchive(j) /\ ~StoreArchive(j) /\ ~MergeArchive(j) /\ ~Snapshot(j)
      /\ ~WriteNothing(j) /\ ~WriteRows(j) /\ ~Hooks(j)
  BY DEF Prefetch, KeepArchive, StoreArchive, MergeArchive, Snapshot, WriteNothing, WriteRows,
     Hooks, At
<1>5. /\ ~CompleteUpload(j) /\ ~RecordUpload(j) /\ ~RejectUpload(j) /\ ~RefuseUpload(j)
      /\ ~Purge(j) /\ ~Bury(j) /\ ~PlanHeal(j) /\ ~HealMetadata(j) /\ ~HealContent(j)
      /\ ~HealNoContent(j) /\ ~HealCommit(j) /\ ~HealChunks(j)
  BY DEF CompleteUpload, RecordUpload, RejectUpload, RefuseUpload, Purge, Bury, PlanHeal,
     HealMetadata, HealContent, HealNoContent, HealCommit, HealChunks, At
<1> QED  BY <1>1, <1>2, <1>3, <1>4, <1>5 DEF Step

\* A job that commits while its reading of the row holds names an archive no
\* smaller, or leaves the row as it is.
LEMMA CommitsGuarded == IInv /\ Guarded /\ [Next]_vars => NoUncrossedShrink
<1> SUFFICES ASSUME IInv, Guarded, [Next]_vars, NEW j \in Job, raw # None,
                    job[j].pc \in {"lock", "commit"}, job'[j].pc = "hooks", job[j].seen = raw
             PROVE  raw' # None /\ raw'.size >= raw.size
  BY DEF NoUncrossedShrink
<1>1. /\ job \in [Job -> Local] /\ \A i \in Job : job[i] \in Local
      /\ raw \in Archive
  BY DEF IInv, TypeOK
<1>2. NewArchive(j) # None /\ NewArchive(j).size = job[j].size
  BY <1>1, NoneAssumption DEF NewArchive, Local
<1>3. job[j].key # 0 => NewArchive(j).size >= raw.size
  BY <1>1, <1>2 DEF Guarded, GuardedLocal, SizeOf
<1>4. NameArchive(j) \/ Commit(j)
  <2>1. PICK i \in Job :
          Begin(i) \/ Step(i) \/ Fail(i) \/ SweepDeleted(i) \/ BeginHeal(i) \/ RepairArchive(i)
    BY DEF Next, Job, vars
  <2>2. i = j
    BY <2>1, OwnStep DEF IInv
  <2> QED  BY <2>1, <2>2, CommittingStep DEF IInv
<1>5. CASE NameArchive(j)
  <2>1. job[j].key # 0
    BY <1>5 DEF NameArchive, At, IInv, WritersHaveKey
  <2> QED  BY <1>2, <1>3, <1>5, <2>1 DEF NameArchive
<1>6. CASE Commit(j)
  <2>1. raw' = IF job[j].key # 0 THEN NewArchive(j) ELSE raw
    BY <1>6 DEF Commit
  <2> QED  BY <1>1, <1>2, <1>3, <2>1 DEF Archive
<1> QED  BY <1>4, <1>5, <1>6

-----------------------------------------------------------------------------
(* Theorems *)

\* The invariants hold throughout (every writer of the archive row: ingest,
\* uploads in parts, repair, purge).
THEOREM Invariance == Spec => [](IInv /\ Guarded)
<1>1. Init => IInv /\ Guarded
  <2>1. Init => Guarded
    BY DEF Init, Guarded, GuardedLocal, Idle
  <2> QED  BY <2>1, InitIInv
<1>2. IInv /\ Guarded /\ [Next]_vars => IInv' /\ Guarded'
  BY NextIInv, NextGuarded DEF IInv
<1> QED  BY <1>1, <1>2, PTL DEF Spec

\* Every variable keeps its type.
THEOREM TypeCorrect == Spec => []TypeOK
<1>1. IInv => TypeOK
  BY DEF IInv
<1> QED  BY <1>1, Invariance, PTL

\* A committed archive row never names an object that is gone (storeRaw,
\* purgeSessionsMany, completeRawUpload), whatever runs beside it or fails.
THEOREM RowHasObject == Spec => []ArchiveRowHasObject
<1>1. IInv => ArchiveRowHasObject
  BY DEF IInv, RowIsSafe, ArchiveRowHasObject
<1> QED  BY <1>1, Invariance, PTL

\* An archive shrinks only when its row was replaced between a writer's reading
\* of it and that writer's commit (storeRaw and its `known`).
THEOREM ShrinksOnlyCrossed == Spec => OnlyCrossedShrinks
<1>1. IInv /\ Guarded /\ [Next]_vars => [NoUncrossedShrink]_vars
  BY CommitsGuarded
<1>2. Spec => [][NoUncrossedShrink]_vars
  BY <1>1, Invariance, PTL DEF Spec
<1> QED  BY <1>2, Zenon DEF OnlyCrossedShrinks, NoUncrossedShrink
=============================================================================
