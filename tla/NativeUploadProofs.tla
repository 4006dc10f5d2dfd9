-------------------------- MODULE NativeUploadProofs --------------------------
(***************************************************************************)
(* Proofs about NativeUpload for any number of requests, worker slots,     *)
(* contents and attempts, and for removals by either route.  remove_item   *)
(* takes no lock, and the code lets it run beside an indexing attempt: a   *)
(* deleted document can then come back into search, and a ready one lose   *)
(* its points.  What is proved, but for the types, is therefore said of    *)
(* behaviours in which no removal of the catalogue is under way while      *)
(* somebody holds the lock (RemovalsApart).                                *)
(***************************************************************************)
EXTENDS NativeUpload, TLAPS

-----------------------------------------------------------------------------
(* The inductive invariant.                                                *)

\* An actor is inside the locked section exactly when it holds the lock.
LockInv == \A a \in Actors : pc[a] \in LockedSteps <=> lock = a

\* No removal of the catalogue is between its first and its last step while
\* an indexing attempt, a retry or remove_upload holds the lock.  The code
\* does not see to it.
RemovalsApart == \A a \in Actors : pc[a] \in {"cat_points", "cat_commit"} => lock = None

\* What such a removal may then rely on.
CatalogInv == \A a \in Actors :
    /\ pc[a] \in {"cat_points", "cat_commit"} => indexStatus # "ready"
    /\ pc[a] = "cat_commit" => points = {}

AfterLoad == IndexSteps \cup {"canonicalize", "canon_failed", "index_failed", "reload"}

\* What the holder of the lock may rely on at each step.
PathInv == \A a \in Actors :
    /\ pc[a] \in AfterLoad => ~deletedAt /\ status # "absent"
    /\ pc[a] \in {"rm_points", "rm_commit"} => status # "absent"
    /\ pc[a] \in IndexSteps => loc[a].file \in Files
    /\ pc[a] \in (IndexSteps \ {"processing"}) \cup {"rm_points", "rm_commit"}
         => indexStatus # "ready"
    /\ pc[a] \in {"embed", "tombstone", "upsert", "ready"} => citations = loc[a].file
    /\ pc[a] \in {"upsert", "rm_commit"} => points = {}
    /\ pc[a] = "ready" => points = {loc[a].file}

\* An open workflow without a running attempt has one left.
WorkflowInv == wfOpen /\ wfSlot = None => wfAttempt < MaxAttempts

\* Before the rows exist nothing is derived from them.
AbsentInv == status = "absent" => ~deletedAt /\ points = {} /\ citations = None

\* The conjuncts that speak of stored data only.
DataInv == AbsentInv /\ RemovedIsGone /\ ReadyIsIndexed

IInv == TypeOK /\ WorkflowInv /\ LockInv /\ CatalogInv /\ PathInv /\ DataInv

-----------------------------------------------------------------------------
(* Type correctness.                                                       *)

USE DEF Actors, MaybeFile, LockedSteps, FreeSteps, IndexSteps

\* The record an actor that has finished is left with is a local record.
LEMMA BlankType == Blank \in Local
BY DEF Blank, Local, MaybeFile, Columns

\* Every update the actions make to one actor's local record keeps it a
\* local record.
LEMMA LocType ==
    ASSUME TypeOK, NEW a \in Actors
    PROVE  /\ [loc EXCEPT ![a] = Blank] \in [Actors -> Local]
           /\ \A f \in MaybeFile : [loc EXCEPT ![a].file = f] \in [Actors -> Local]
           /\ \A f \in MaybeFile : [loc EXCEPT ![a].seen = f] \in [Actors -> Local]
           /\ \A d \in SUBSET Columns : [loc EXCEPT ![a].dirty = d] \in [Actors -> Local]
           /\ \A r \in {"ok", "retry", "stop"} :
                [loc EXCEPT ![a] = [Blank EXCEPT !.res = r]] \in [Actors -> Local]
           /\ loc \in [Actors -> Local] /\ loc[a] \in Local
<1>1. [loc EXCEPT ![a] = Blank] \in [Actors -> Local]
  BY BlankType DEF TypeOK
<1>2. ASSUME NEW f \in MaybeFile
      PROVE  [loc EXCEPT ![a].file = f] \in [Actors -> Local]
  BY DEF TypeOK, Local
<1>3. ASSUME NEW f \in MaybeFile
      PROVE  [loc EXCEPT ![a].seen = f] \in [Actors -> Local]
  BY DEF TypeOK, Local
<1>4. ASSUME NEW d \in SUBSET Columns
      PROVE  [loc EXCEPT ![a].dirty = d] \in [Actors -> Local]
  BY DEF TypeOK, Local
<1>5. ASSUME NEW r \in {"ok", "retry", "stop"}
      PROVE  [loc EXCEPT ![a] = [Blank EXCEPT !.res = r]] \in [Actors -> Local]
  BY BlankType DEF TypeOK, Local
<1> QED
  BY <1>1, <1>2, <1>3, <1>4, <1>5 DEF TypeOK

\* The initial state, in which no row exists, is well typed.
LEMMA InitType == Init => TypeOK
<1> SUFFICES ASSUME Init PROVE TypeOK
  OBVIOUS
<1>1. pc \in [Actors -> LockedSteps \cup FreeSteps]
  BY DEF Init
<1>2. loc \in [Actors -> Local]
  BY BlankType DEF Init
<1>3. wfAttempt \in 0..MaxAttempts
  BY AttemptAssumption DEF Init
<1> QED
  BY <1>1, <1>2, <1>3 DEF Init, TypeOK

\* Leaving the locked section (the finally clauses of index_upload and
\* remove_upload) keeps the local records well typed.
LEMMA FinishLoc ==
    ASSUME TypeOK, NEW a \in Actors, NEW r \in {"ok", "retry", "stop"}, Finish(a, r)
    PROVE  loc' \in [Actors -> Local]
<1>1. CASE a \in Workers
  BY <1>1, LocType DEF Finish
<1>2. CASE a \notin Workers
  BY <1>2, LocType DEF Finish
<1> QED
  BY <1>1, <1>2

\* The requests of DocumentUploadService, from their arrival to the queued
\* workflow, keep every variable in its type.
LEMMA UploadType ==
    ASSUME TypeOK, NEW a \in Actors, UploadStep(a) \/ Arrive(a)
    PROVE  TypeOK'
<1>a. loc[a].file \in MaybeFile /\ loc[a].seen \in MaybeFile
  BY DEF TypeOK, Local
<1>b. DirtyColumns \in SUBSET Columns
  BY DEF DirtyColumns
<1>c. [loc EXCEPT ![a].dirty = DirtyColumns] \in [Actors -> Local]
  BY <1>b, LocType
<1>t. 0 \in 0..MaxAttempts
  BY AttemptAssumption
<1>1. CASE PutPath(a)
  <2>1. loc' \in [Actors -> Local]
    BY <1>1, <1>a, LocType DEF PutPath
  <2>2. pc' \in [Actors -> LockedSteps \cup FreeSteps]
    BY <1>1 DEF TypeOK, PutPath, Goto
  <2> QED
    BY <1>1, <2>1, <2>2, <1>a DEF TypeOK, PutPath, db, stores, temporal
<1>2. CASE Head(a)
  <2>1. loc' \in [Actors -> Local]
    BY <1>2, LocType DEF Head
  <2>2. pc' \in [Actors -> LockedSteps \cup FreeSteps]
    BY <1>2 DEF TypeOK, Head, Goto
  <2> QED
    BY <1>2, <2>1, <2>2 DEF TypeOK, Head, db, stores, temporal
<1>3. CASE MarkUploadAvailable(a)
  <2>1. loc' \in [Actors -> Local]
    BY <1>3, <1>a, LocType DEF MarkUploadAvailable
  <2>2. pc' \in [Actors -> LockedSteps \cup FreeSteps]
    BY <1>3 DEF TypeOK, MarkUploadAvailable, Goto
  <2> QED
    BY <1>3, <2>1, <2>2, <1>a DEF TypeOK, MarkUploadAvailable, db, stores, temporal
<1>4. CASE MarkUploadFailedRead(a)
  <2>1. loc' \in [Actors -> Local]
    <3>1. CASE Visible /\ uploadStatus # "available"
      BY <1>4, <1>c, <3>1 DEF MarkUploadFailedRead
    <3>2. CASE ~(Visible /\ uploadStatus # "available")
      BY <1>4, <3>2, LocType DEF MarkUploadFailedRead, Leave
    <3> QED
      BY <3>1, <3>2
  <2>2. pc' \in [Actors -> LockedSteps \cup FreeSteps]
    BY <1>4 DEF TypeOK, MarkUploadFailedRead, Leave, Goto
  <2> QED
    BY <1>4, <2>1, <2>2, <1>b DEF TypeOK, MarkUploadFailedRead, Leave, db, stores, temporal
<1>5. CASE MarkUploadFailedWrite(a)
  <2>1. loc' \in [Actors -> Local]
    BY <1>5, LocType DEF MarkUploadFailedWrite, Leave
  <2>2. pc' \in [Actors -> LockedSteps \cup FreeSteps]
    BY <1>5 DEF TypeOK, MarkUploadFailedWrite, Leave, Goto
  <2> QED
    BY <1>5, <2>1, <2>2 DEF TypeOK, MarkUploadFailedWrite, Leave, db, stores, temporal
<1>6. CASE QueueIndexing(a)
  <2>b. wfOpen' \in BOOLEAN
    BY <1>6, Zenon DEF TypeOK, QueueIndexing, temporal
  <2>1. loc' \in [Actors -> Local]
    BY <1>6, <1>t, LocType DEF QueueIndexing, Leave
  <2>2. pc' \in [Actors -> LockedSteps \cup FreeSteps]
    BY <1>6 DEF TypeOK, QueueIndexing, Leave, Goto
  <2> QED
    BY <1>6, <2>1, <2>2, <2>b, <1>t DEF TypeOK, QueueIndexing, Leave, db, stores, temporal
<1>7. CASE UploadToCollection(a)
  <2>1. loc' \in [Actors -> Local]
    BY <1>7, LocType DEF UploadToCollection, CreateOrGetUpload
  <2>2. pc' \in [Actors -> LockedSteps \cup FreeSteps]
    BY <1>7 DEF TypeOK, UploadToCollection, CreateOrGetUpload, Goto
  <2> QED
    BY <1>7, <2>1, <2>2 DEF TypeOK, UploadToCollection, CreateOrGetUpload, db, stores, temporal
<1>8. CASE StartUpload(a)
  <2>b. presigned' \in BOOLEAN
    BY <1>8, Zenon DEF TypeOK, StartUpload, stores
  <2> QED
    BY <1>8, <2>b DEF TypeOK, StartUpload, CreateOrGetUpload, Goto, db, stores, temporal
<1>9. CASE CompleteUpload(a)
  BY <1>9 DEF TypeOK, CompleteUpload, Goto, db, stores, temporal
<1>10. CASE RetryIndexing(a)
  BY <1>10 DEF TypeOK, RetryIndexing, Goto, db, stores, temporal
<1>11. CASE DeleteDocument(a)
  BY <1>11 DEF TypeOK, DeleteDocument, Goto, db, stores, temporal
<1>12. CASE RemoveItemLoad(a)
  BY <1>12 DEF TypeOK, RemoveItemLoad, SetIndexStatus, Goto, db, stores, temporal
<1> QED
  BY <1>1, <1>2, <1>3, <1>4, <1>5, <1>6, <1>7, <1>8, <1>9, <1>10, <1>11, <1>12
  DEF UploadStep, Arrive

\* The steps of _index_loaded_upload and process_item_content keep every
\* variable in its type.
LEMMA IndexType ==
    ASSUME TypeOK, NEW a \in Actors, IndexStep(a)
    PROVE  TypeOK'
<1>a. loc[a].res \in {"ok", "retry", "stop"} /\ loc[a].file \in MaybeFile
        /\ loc[a].seen \in MaybeFile
  BY DEF TypeOK, Local
<1>e. [loc EXCEPT ![a].seen = etag] \in [Actors -> Local]
  BY LocType DEF TypeOK
<1>1. CASE LoadUpload(a)
  <2>1. loc' \in [Actors -> Local]
    BY <1>1, LocType, FinishLoc, <1>e DEF LoadUpload
  <2>2. pc' \in [Actors -> LockedSteps \cup FreeSteps]
    BY <1>1 DEF TypeOK, LoadUpload, Finish, Goto
  <2> QED
    BY <1>1, <2>1, <2>2 DEF TypeOK, LoadUpload, Finish, db, stores, temporal
<1>2. CASE Canonicalize(a)
  <2>1. loc' \in [Actors -> Local]
    BY <1>2, <1>a, LocType DEF Canonicalize, Readable, TypeOK
  <2>2. pc' \in [Actors -> LockedSteps \cup FreeSteps]
    BY <1>2 DEF TypeOK, Canonicalize, Goto
  <2> QED
    BY <1>2, <2>1, <2>2, <1>a DEF TypeOK, Canonicalize, db, stores, temporal
<1>3. CASE CanonicalizeFailed(a)
  <2>1. loc' \in [Actors -> Local]
    BY <1>3, LocType, SMTT(20) DEF CanonicalizeFailed, Finish, SetIndexStatus
  <2>2. pc' \in [Actors -> LockedSteps \cup FreeSteps]
    BY <1>3 DEF TypeOK, CanonicalizeFailed, Finish, SetIndexStatus, Goto
  <2> QED
    BY <1>3, <2>1, <2>2 DEF TypeOK, CanonicalizeFailed, Finish, SetIndexStatus, db, stores, temporal
<1>4. CASE MarkIndexProcessing(a)
  <2>1. loc' \in [Actors -> Local]
    BY <1>4, LocType DEF MarkIndexProcessing, Fails, SetIndexStatus
  <2>2. pc' \in [Actors -> LockedSteps \cup FreeSteps]
    BY <1>4 DEF TypeOK, MarkIndexProcessing, Fails, SetIndexStatus, Goto
  <2> QED
    BY <1>4, <2>1, <2>2 DEF TypeOK, MarkIndexProcessing, Fails, SetIndexStatus, db, stores, temporal
<1>5. CASE ReplaceCitations(a)
  <2>1. loc' \in [Actors -> Local]
    BY <1>5, <1>a, LocType DEF ReplaceCitations, Fails
  <2>2. pc' \in [Actors -> LockedSteps \cup FreeSteps]
    BY <1>5 DEF TypeOK, ReplaceCitations, Fails, Goto
  <2> QED
    BY <1>5, <2>1, <2>2, <1>a DEF TypeOK, ReplaceCitations, Fails, db, stores, temporal
<1>6. CASE Embed(a)
  <2>1. loc' \in [Actors -> Local]
    BY <1>6, LocType DEF Embed, Fails
  <2>2. pc' \in [Actors -> LockedSteps \cup FreeSteps]
    BY <1>6 DEF TypeOK, Embed, Fails, Goto
  <2> QED
    BY <1>6, <2>1, <2>2 DEF TypeOK, Embed, Fails, db, stores, temporal
<1>7. CASE TombstonePoints(a)
  <2>1. loc' \in [Actors -> Local]
    BY <1>7, LocType DEF TombstonePoints, Fails
  <2>2. pc' \in [Actors -> LockedSteps \cup FreeSteps]
    BY <1>7 DEF TypeOK, TombstonePoints, Fails, Goto
  <2> QED
    BY <1>7, <2>1, <2>2 DEF TypeOK, TombstonePoints, Fails, db, stores, temporal
<1>8. CASE UpsertPoints(a)
  <2>1. loc' \in [Actors -> Local]
    BY <1>8, <1>a, LocType DEF UpsertPoints, Fails
  <2>2. pc' \in [Actors -> LockedSteps \cup FreeSteps]
    BY <1>8 DEF TypeOK, UpsertPoints, Fails, Goto
  <2> QED
    BY <1>8, <2>1, <2>2, <1>a DEF TypeOK, UpsertPoints, Fails, db, stores, temporal
<1>9. CASE MarkIndexReady(a)
  <2>1. loc' \in [Actors -> Local]
    BY <1>9, <1>a, LocType DEF MarkIndexReady, Fails, SetIndexStatus
  <2>2. pc' \in [Actors -> LockedSteps \cup FreeSteps]
    BY <1>9 DEF TypeOK, MarkIndexReady, Fails, SetIndexStatus, Goto
  <2> QED
    BY <1>9, <2>1, <2>2, <1>a DEF TypeOK, MarkIndexReady, Fails, SetIndexStatus, db, stores, temporal
<1>10. CASE MarkIndexFailed(a)
  <2>1. loc' \in [Actors -> Local]
    BY <1>10, <1>a, LocType, FinishLoc DEF MarkIndexFailed
  <2>2. pc' \in [Actors -> LockedSteps \cup FreeSteps]
    BY <1>10 DEF TypeOK, MarkIndexFailed, Finish, SetIndexStatus, Goto
  <2> QED
    BY <1>10, <2>1, <2>2, <1>a DEF TypeOK, MarkIndexFailed, Finish, SetIndexStatus, db, stores, temporal
<1>11. CASE Reload(a)
  <2>1. loc' \in [Actors -> Local]
    BY <1>11, LocType DEF Reload, Finish
  <2>2. pc' \in [Actors -> LockedSteps \cup FreeSteps]
    BY <1>11 DEF TypeOK, Reload, Finish, Goto
  <2> QED
    BY <1>11, <2>1, <2>2 DEF TypeOK, Reload, Finish, db, stores, temporal
<1> QED
  BY <1>1, <1>2, <1>3, <1>4, <1>5, <1>6, <1>7, <1>8, <1>9, <1>10, <1>11
  DEF IndexStep

\* The steps of remove_upload and remove_item, the advisory lock and crashes
\* keep every variable in its type.
LEMMA RemoveType ==
    ASSUME TypeOK, NEW a \in Actors, RemoveStep(a) \/ AcquireLock(a) \/ Crash(a)
    PROVE  TypeOK'
<1>1. CASE RemoveUploadLoad(a)
  <2>1. loc' \in [Actors -> Local]
    BY <1>1, LocType DEF RemoveUploadLoad, Finish, SetIndexStatus
  <2>2. pc' \in [Actors -> LockedSteps \cup FreeSteps]
    BY <1>1 DEF TypeOK, RemoveUploadLoad, Finish, SetIndexStatus, Goto
  <2> QED
    BY <1>1, <2>1, <2>2 DEF TypeOK, RemoveUploadLoad, Finish, SetIndexStatus, db, stores, temporal
<1>2. CASE RemoveUploadPoints(a)
  <2>1. loc' \in [Actors -> Local]
    BY <1>2, LocType, SMTT(20) DEF RemoveUploadPoints, Finish
  <2>2. pc' \in [Actors -> LockedSteps \cup FreeSteps]
    BY <1>2 DEF TypeOK, RemoveUploadPoints, Finish, Goto
  <2> QED
    BY <1>2, <2>1, <2>2 DEF TypeOK, RemoveUploadPoints, Finish, db, stores, temporal
<1>3. CASE RemoveUploadCommit(a)
  <2>b. deletedAt' \in BOOLEAN
    BY <1>3, Zenon DEF TypeOK, RemoveUploadCommit, SoftDelete, db
  <2>1. loc' \in [Actors -> Local]
    BY <1>3, LocType, ZenonT(40) DEF RemoveUploadCommit, Finish, SoftDelete
  <2>2. pc' \in [Actors -> LockedSteps \cup FreeSteps]
    BY <1>3 DEF TypeOK, RemoveUploadCommit, Finish, SoftDelete, Goto
  <2> QED
    BY <1>3, <2>1, <2>2, <2>b DEF TypeOK, RemoveUploadCommit, Finish, SoftDelete, db, stores, temporal
<1>4. CASE RemoveItemPoints(a)
  BY <1>4 DEF TypeOK, RemoveItemPoints, Goto, db, stores, temporal
<1>5. CASE RemoveItemCommit(a)
  <2>b. deletedAt' \in BOOLEAN
    BY <1>5, Zenon DEF TypeOK, RemoveItemCommit, SoftDelete, db
  <2> QED
    BY <1>5, <2>b DEF TypeOK, RemoveItemCommit, SoftDelete, Goto, db, stores, temporal
<1>6. CASE AcquireLock(a)
  BY <1>6 DEF TypeOK, AcquireLock, Goto, db, stores, temporal
<1>7. CASE Crash(a)
  <2>1. loc' \in [Actors -> Local]
    BY <1>7, LocType DEF Crash, Leave
  <2>2. pc' \in [Actors -> LockedSteps \cup FreeSteps]
    BY <1>7 DEF TypeOK, Crash, Leave, Goto
  <2> QED
    BY <1>7, <2>1, <2>2 DEF TypeOK, Crash, Leave, db, stores, temporal
<1> QED
  BY <1>1, <1>2, <1>3, <1>4, <1>5, <1>6, <1>7
  DEF RemoveStep

\* Starting an attempt and reporting its result keep the attempt count within
\* RetryPolicy.maximum_attempts, because an open workflow has an attempt left.
LEMMA AttemptType ==
    ASSUME TypeOK, NEW a \in Workers, WorkflowInv, StartAttempt(a) \/ Report(a)
    PROVE  TypeOK'
<1>a. a \in Actors
  OBVIOUS
<1>w. wfOpen /\ wfSlot = None => wfAttempt + 1 \in 0..MaxAttempts
  BY AttemptAssumption DEF TypeOK, WorkflowInv
<1>t. 0 \in 0..MaxAttempts
  BY AttemptAssumption
<1>1. CASE StartAttempt(a)
  BY <1>1, AttemptAssumption, <1>w DEF TypeOK, StartAttempt, Goto, db, stores, temporal
<1>2. CASE Report(a)
  <2>b. wfOpen' \in BOOLEAN
    BY <1>2, Zenon DEF TypeOK, Report, AttemptEnds, temporal
  <2>1. loc' \in [Actors -> Local]
    BY <1>2, <1>t, LocType DEF Report, Leave, AttemptEnds
  <2>2. pc' \in [Actors -> LockedSteps \cup FreeSteps]
    BY <1>2 DEF TypeOK, Report, Leave, AttemptEnds, Goto
  <2> QED
    BY <1>2, <2>1, <2>2, <2>b, <1>t DEF TypeOK, Report, Leave, AttemptEnds, db, stores, temporal
<1> QED
  BY <1>1, <1>2
  DEF Report

\* Every step keeps every variable in its type.
LEMMA StepType == TypeOK /\ WorkflowInv /\ [Next]_vars => TypeOK'
<1> SUFFICES ASSUME TypeOK, WorkflowInv, [Next]_vars PROVE TypeOK'
  OBVIOUS
<1>1. ASSUME NEW r \in Requests, Arrive(r) PROVE TypeOK'
  BY <1>1, UploadType
<1>2. ASSUME NEW a \in Actors, AcquireLock(a) \/ Step(a) \/ Crash(a) PROVE TypeOK'
  BY <1>2, UploadType, IndexType, RemoveType DEF Step
<1>3. ASSUME NEW w \in Workers, StartAttempt(w) \/ Report(w) PROVE TypeOK'
  BY <1>3, AttemptType
<1>4. ASSUME NEW f \in Files, ClientPut(f) PROVE TypeOK'
  BY <1>4 DEF TypeOK, ClientPut, db, temporal
<1>5. CASE PresignExpires
  <2>1. presigned' \in BOOLEAN
    BY <1>5 DEF PresignExpires
  <2> QED
    BY <1>5, <2>1 DEF TypeOK, PresignExpires, db, temporal
<1>6. CASE ActivityTimeout
  <2>1. wfOpen' \in BOOLEAN
    BY <1>6, Zenon DEF ActivityTimeout, AttemptEnds
  <2>2. 0 \in 0..MaxAttempts
    BY AttemptAssumption
  <2> QED
    BY <1>6, <2>1, <2>2 DEF TypeOK, ActivityTimeout, AttemptEnds, db, stores
<1>7. CASE UNCHANGED vars
  BY <1>7 DEF TypeOK, vars, db, stores, temporal
<1> QED
  BY <1>1, <1>2, <1>3, <1>4, <1>5, <1>6, <1>7 DEF Next

\* A workflow that is open and runs no attempt has an attempt left: the last
\* attempt closes it.
LEMMA WorkflowStep == TypeOK /\ WorkflowInv /\ [Next]_vars => WorkflowInv'
<1> SUFFICES ASSUME TypeOK, WorkflowInv, [Next]_vars PROVE WorkflowInv'
  OBVIOUS
<1> USE ActorAssumption, AttemptAssumption DEF TypeOK, WorkflowInv
<1>1. ASSUME NEW r \in Requests, Arrive(r) PROVE WorkflowInv'
  BY <1>1 DEF Arrive, UploadToCollection, StartUpload, CompleteUpload,
     RetryIndexing, DeleteDocument, RemoveItemLoad, temporal
<1>2. ASSUME NEW a \in Actors, AcquireLock(a) \/ Crash(a) PROVE WorkflowInv'
  BY <1>2 DEF AcquireLock, Crash, temporal
<1>3. ASSUME NEW a \in Actors, QueueIndexing(a) PROVE WorkflowInv'
  <2>1. CASE UNCHANGED temporal
    BY <2>1 DEF temporal
  <2>2. CASE wfAttempt' = 0
    <3>1. 0 < MaxAttempts
      BY AttemptAssumption
    <3> QED
      BY <2>2, <3>1
  <2> QED
    BY <1>3, <2>1, <2>2 DEF QueueIndexing
<1>4. ASSUME NEW a \in Actors, Step(a), ~QueueIndexing(a) PROVE WorkflowInv'
  BY <1>4 DEF Step, UploadStep, IndexStep, RemoveStep, PutPath, Head,
     MarkUploadAvailable, MarkUploadFailedRead, MarkUploadFailedWrite,
     LoadUpload, Canonicalize, CanonicalizeFailed, MarkIndexProcessing,
     ReplaceCitations, Embed, TombstonePoints, UpsertPoints, MarkIndexReady,
     MarkIndexFailed, Reload, RemoveUploadLoad, RemoveUploadPoints,
     RemoveUploadCommit, RemoveItemPoints, RemoveItemCommit, temporal
<1>5. ASSUME NEW w \in Workers, StartAttempt(w) \/ Report(w) PROVE WorkflowInv'
  BY <1>5 DEF StartAttempt, Report, AttemptEnds, temporal
<1>6. CASE ActivityTimeout
  BY <1>6 DEF ActivityTimeout, AttemptEnds
<1>7. ASSUME UNCHANGED temporal PROVE WorkflowInv'
  BY <1>7 DEF temporal
<1> QED
  BY <1>1, <1>2, <1>3, <1>4, <1>5, <1>6, <1>7
  DEF Next, ClientPut, PresignExpires, vars

\* Every variable stays in its type; in particular the activity is never
\* attempted more than MaxAttempts times, however attempts end or time out.
THEOREM TypeCorrect == Spec => []TypeOK
<1>1. Init => WorkflowInv
  BY DEF Init, WorkflowInv
<1> QED
  BY <1>1, InitType, StepType, WorkflowStep, PTL DEF Spec

-----------------------------------------------------------------------------
(* Preservation of the inductive invariant.                             *)

\* What DocumentUploadService does outside the lock disturbs nothing the
\* holder of the lock relies on: it writes no points and no citations, and it
\* never sets index_status to ready.
LEMMA UploadInv ==
    ASSUME TypeOK, LockInv, CatalogInv, PathInv, DataInv,
           RemovalsApart, RemovalsApart', NEW a \in Actors,
           UploadStep(a) \/ Arrive(a)
    PROVE  LockInv' /\ CatalogInv' /\ PathInv' /\ DataInv'
<1> USE DEF TypeOK
<1>1. CASE PutPath(a)
  <2>1. LockInv' /\ CatalogInv'
    BY <1>1, ActorAssumption DEF LockInv, CatalogInv, PathInv, RemovalsApart, db, stores, PutPath, Goto
  <2>2. PathInv'
    BY <1>1 DEF LockInv, PathInv, AfterLoad, PutPath, Goto, db, stores
  <2>3. DataInv'
    BY <1>1 DEF DataInv, AbsentInv, RemovedIsGone, ReadyIsIndexed, PathInv, PutPath, db, stores, temporal
  <2> QED
    BY <2>1, <2>2, <2>3
<1>2. CASE Head(a)
  <2>1. LockInv' /\ CatalogInv'
    BY <1>2, ActorAssumption DEF LockInv, CatalogInv, PathInv, RemovalsApart, db, stores, Head, Goto
  <2>2. PathInv'
    BY <1>2 DEF LockInv, PathInv, AfterLoad, Head, Goto, db, stores
  <2>3. DataInv'
    BY <1>2 DEF DataInv, AbsentInv, RemovedIsGone, ReadyIsIndexed, PathInv, Head, db, stores, temporal
  <2> QED
    BY <2>1, <2>2, <2>3
<1>3. CASE MarkUploadAvailable(a)
  <2>1. LockInv' /\ CatalogInv'
    BY <1>3, ActorAssumption DEF LockInv, CatalogInv, PathInv, RemovalsApart, db, stores, MarkUploadAvailable, Goto
  <2>2. PathInv'
    BY <1>3 DEF LockInv, PathInv, AfterLoad, MarkUploadAvailable, Goto, db, stores
  <2>3. DataInv'
    BY <1>3 DEF DataInv, AbsentInv, RemovedIsGone, ReadyIsIndexed, PathInv, MarkUploadAvailable, db, stores, temporal
  <2> QED
    BY <2>1, <2>2, <2>3
<1>4. CASE MarkUploadFailedRead(a)
  <2>1. LockInv' /\ CatalogInv'
    BY <1>4, ActorAssumption DEF LockInv, CatalogInv, PathInv, RemovalsApart, db, stores, MarkUploadFailedRead, Leave, Goto
  <2>2. PathInv'
    BY <1>4 DEF LockInv, PathInv, AfterLoad, MarkUploadFailedRead, Leave, Goto, db, stores
  <2>3. DataInv'
    BY <1>4 DEF DataInv, AbsentInv, RemovedIsGone, ReadyIsIndexed, PathInv, MarkUploadFailedRead, Leave, db, stores, temporal
  <2> QED
    BY <2>1, <2>2, <2>3
<1>5. CASE MarkUploadFailedWrite(a)
  <2>1. LockInv' /\ CatalogInv'
    BY <1>5, ActorAssumption DEF LockInv, CatalogInv, PathInv, RemovalsApart, db, stores, MarkUploadFailedWrite, Leave, Goto
  <2>2. PathInv'
    BY <1>5 DEF LockInv, PathInv, AfterLoad, MarkUploadFailedWrite, Leave, Goto, db, stores
  <2>3. DataInv'
    BY <1>5 DEF DataInv, AbsentInv, RemovedIsGone, ReadyIsIndexed, PathInv, MarkUploadFailedWrite, Leave, db, stores, temporal
  <2> QED
    BY <2>1, <2>2, <2>3
<1>6. CASE QueueIndexing(a)
  <2>1. LockInv' /\ CatalogInv'
    BY <1>6, ActorAssumption DEF LockInv, CatalogInv, PathInv, RemovalsApart, db, stores, QueueIndexing, Leave, Goto
  <2>2. PathInv'
    BY <1>6 DEF LockInv, PathInv, AfterLoad, QueueIndexing, Leave, Goto, db, stores
  <2>3. DataInv'
    BY <1>6 DEF DataInv, AbsentInv, RemovedIsGone, ReadyIsIndexed, PathInv, QueueIndexing, Leave, db, stores, temporal
  <2> QED
    BY <2>1, <2>2, <2>3
<1>7. CASE UploadToCollection(a)
  <2>1. LockInv' /\ CatalogInv'
    BY <1>7, ActorAssumption DEF LockInv, CatalogInv, PathInv, RemovalsApart, db, stores, UploadToCollection, CreateOrGetUpload, Goto
  <2>2. PathInv'
    BY <1>7 DEF LockInv, PathInv, AfterLoad, UploadToCollection, CreateOrGetUpload, Goto, db, stores
  <2>3. DataInv'
    BY <1>7 DEF DataInv, AbsentInv, RemovedIsGone, ReadyIsIndexed, PathInv, UploadToCollection, CreateOrGetUpload, db, stores, temporal
  <2> QED
    BY <2>1, <2>2, <2>3
<1>8. CASE StartUpload(a)
  <2>1. LockInv' /\ CatalogInv'
    BY <1>8, ActorAssumption DEF LockInv, CatalogInv, PathInv, RemovalsApart, db, stores, StartUpload, CreateOrGetUpload, Goto
  <2>2. PathInv'
    BY <1>8 DEF LockInv, PathInv, AfterLoad, StartUpload, CreateOrGetUpload, Goto, db, stores
  <2>3. DataInv'
    BY <1>8 DEF DataInv, AbsentInv, RemovedIsGone, ReadyIsIndexed, PathInv, StartUpload, CreateOrGetUpload, db, stores, temporal
  <2> QED
    BY <2>1, <2>2, <2>3
<1>9. CASE CompleteUpload(a)
  <2>1. LockInv' /\ CatalogInv'
    BY <1>9, ActorAssumption DEF LockInv, CatalogInv, PathInv, RemovalsApart, db, stores, CompleteUpload, Goto
  <2>2. PathInv'
    BY <1>9 DEF LockInv, PathInv, AfterLoad, CompleteUpload, Goto, db, stores
  <2>3. DataInv'
    BY <1>9 DEF DataInv, AbsentInv, RemovedIsGone, ReadyIsIndexed, PathInv, CompleteUpload, db, stores, temporal
  <2> QED
    BY <2>1, <2>2, <2>3
<1>10. CASE RetryIndexing(a)
  <2>1. LockInv' /\ CatalogInv'
    BY <1>10, ActorAssumption DEF LockInv, CatalogInv, PathInv, RemovalsApart, db, stores, RetryIndexing, Goto
  <2>2. PathInv'
    BY <1>10 DEF LockInv, PathInv, AfterLoad, RetryIndexing, Goto, db, stores
  <2>3. DataInv'
    BY <1>10 DEF DataInv, AbsentInv, RemovedIsGone, ReadyIsIndexed, PathInv, RetryIndexing, db, stores, temporal
  <2> QED
    BY <2>1, <2>2, <2>3
<1>11. CASE DeleteDocument(a)
  <2>1. LockInv' /\ CatalogInv'
    BY <1>11, ActorAssumption DEF LockInv, CatalogInv, PathInv, RemovalsApart, db, stores, DeleteDocument, Goto
  <2>2. PathInv'
    BY <1>11 DEF LockInv, PathInv, AfterLoad, DeleteDocument, Goto, db, stores
  <2>3. DataInv'
    BY <1>11 DEF DataInv, AbsentInv, RemovedIsGone, ReadyIsIndexed, PathInv, DeleteDocument, db, stores, temporal
  <2> QED
    BY <2>1, <2>2, <2>3
<1>12. CASE RemoveItemLoad(a)
  <2>1. LockInv' /\ CatalogInv'
    BY <1>12, ActorAssumption DEF LockInv, CatalogInv, PathInv, RemovalsApart, db, stores, RemoveItemLoad, SetIndexStatus, Goto
  <2>2. PathInv'
    BY <1>12 DEF LockInv, PathInv, AfterLoad, RemoveItemLoad, SetIndexStatus, Goto, db, stores
  <2>3. DataInv'
    BY <1>12 DEF DataInv, AbsentInv, RemovedIsGone, ReadyIsIndexed, PathInv, RemoveItemLoad, SetIndexStatus, db, stores, temporal
  <2> QED
    BY <2>1, <2>2, <2>3
<1> QED
  BY <1>1, <1>2, <1>3, <1>4, <1>5, <1>6, <1>7, <1>8, <1>9, <1>10, <1>11, <1>12
  DEF UploadStep, Arrive

\* The indexing path, as holder of the lock, finds at each step what its
\* earlier steps left behind.
LEMMA IndexInv ==
    ASSUME TypeOK, LockInv, CatalogInv, PathInv, DataInv,
           RemovalsApart, RemovalsApart', NEW a \in Actors,
           IndexStep(a)
    PROVE  LockInv' /\ CatalogInv' /\ PathInv' /\ DataInv'
<1> USE DEF TypeOK
<1>a. pc[a] \in {"citations", "upsert"} =>
        ~deletedAt /\ status # "absent" /\ indexStatus # "ready"
  BY DEF PathInv, AfterLoad
<1>1. CASE LoadUpload(a)
  <2>1. LockInv' /\ CatalogInv'
    BY <1>1, ActorAssumption DEF LockInv, CatalogInv, PathInv, RemovalsApart, db, stores, LoadUpload, Finish, Visible, Goto
  <2>2. PathInv'
    BY <1>1 DEF LockInv, PathInv, AfterLoad, LoadUpload, Finish, Visible, Goto, db, stores
  <2>3. DataInv'
    BY <1>1 DEF DataInv, AbsentInv, RemovedIsGone, ReadyIsIndexed, PathInv, LoadUpload, Finish, Visible, db, stores, temporal
  <2> QED
    BY <2>1, <2>2, <2>3
<1>2. CASE Canonicalize(a)
  <2>1. LockInv' /\ CatalogInv'
    BY <1>2, ActorAssumption DEF LockInv, CatalogInv, PathInv, RemovalsApart, db, stores, Canonicalize, Readable, Goto
  <2>a. pc'[a] = "processing" => loc'[a].file = object /\ object \in Files
    BY <1>2 DEF Canonicalize, Readable, Goto, Local
  <2>2. PathInv'
    BY <1>2, <2>a DEF LockInv, PathInv, AfterLoad, Canonicalize, Readable, Goto, db, stores
  <2>3. DataInv'
    BY <1>2 DEF DataInv, AbsentInv, RemovedIsGone, ReadyIsIndexed, PathInv, Canonicalize, Readable, db, stores, temporal
  <2> QED
    BY <2>1, <2>2, <2>3
<1>3. CASE CanonicalizeFailed(a)
  <2>1. LockInv' /\ CatalogInv'
    BY <1>3, ActorAssumption DEF LockInv, CatalogInv, PathInv, RemovalsApart, db, stores, CanonicalizeFailed, Finish, SetIndexStatus, Goto
  <2>2. PathInv'
    BY <1>3 DEF LockInv, PathInv, AfterLoad, CanonicalizeFailed, Finish, SetIndexStatus, Goto, db, stores
  <2>3. DataInv'
    BY <1>3 DEF DataInv, AbsentInv, RemovedIsGone, ReadyIsIndexed, PathInv, CanonicalizeFailed, Finish, SetIndexStatus, db, stores, temporal
  <2> QED
    BY <2>1, <2>2, <2>3
<1>4. CASE MarkIndexProcessing(a)
  <2>1. LockInv' /\ CatalogInv'
    BY <1>4, ActorAssumption DEF LockInv, CatalogInv, PathInv, RemovalsApart, db, stores, MarkIndexProcessing, Fails, SetIndexStatus, Goto
  <2>2. PathInv'
    BY <1>4 DEF LockInv, PathInv, AfterLoad, MarkIndexProcessing, Fails, SetIndexStatus, Goto, db, stores
  <2>3. DataInv'
    BY <1>4 DEF DataInv, AbsentInv, RemovedIsGone, ReadyIsIndexed, PathInv, MarkIndexProcessing, Fails, SetIndexStatus, db, stores, temporal
  <2> QED
    BY <2>1, <2>2, <2>3
<1>5. CASE ReplaceCitations(a)
  <2>1. LockInv' /\ CatalogInv'
    BY <1>5, ActorAssumption DEF LockInv, CatalogInv, PathInv, RemovalsApart, db, stores, ReplaceCitations, Fails, Goto
  <2>2. PathInv'
    BY <1>5 DEF LockInv, PathInv, AfterLoad, ReplaceCitations, Fails, Goto, db, stores
  <2>3. DataInv'
    BY <1>5, <1>a DEF DataInv, AbsentInv, RemovedIsGone, ReadyIsIndexed, PathInv, ReplaceCitations, Fails, db, stores, temporal
  <2> QED
    BY <2>1, <2>2, <2>3
<1>6. CASE Embed(a)
  <2>1. LockInv' /\ CatalogInv'
    BY <1>6, ActorAssumption DEF LockInv, CatalogInv, PathInv, RemovalsApart, db, stores, Embed, Fails, Goto
  <2>2. PathInv'
    BY <1>6 DEF LockInv, PathInv, AfterLoad, Embed, Fails, Goto, db, stores
  <2>3. DataInv'
    BY <1>6 DEF DataInv, AbsentInv, RemovedIsGone, ReadyIsIndexed, PathInv, Embed, Fails, db, stores, temporal
  <2> QED
    BY <2>1, <2>2, <2>3
<1>7. CASE TombstonePoints(a)
  <2>1. LockInv' /\ CatalogInv'
    BY <1>7, ActorAssumption DEF LockInv, CatalogInv, PathInv, RemovalsApart, db, stores, TombstonePoints, Fails, Goto
  <2>2. PathInv'
    BY <1>7 DEF LockInv, PathInv, AfterLoad, TombstonePoints, Fails, Goto, db, stores
  <2>3. DataInv'
    BY <1>7 DEF DataInv, AbsentInv, RemovedIsGone, ReadyIsIndexed, PathInv, TombstonePoints, Fails, db, stores, temporal
  <2> QED
    BY <2>1, <2>2, <2>3
<1>8. CASE UpsertPoints(a)
  <2>1. LockInv' /\ CatalogInv'
    BY <1>8, ActorAssumption DEF LockInv, CatalogInv, PathInv, RemovalsApart, db, stores, UpsertPoints, Fails, Goto
  <2>2. PathInv'
    BY <1>8 DEF LockInv, PathInv, AfterLoad, UpsertPoints, Fails, Goto, db, stores
  <2>3. DataInv'
    BY <1>8, <1>a DEF DataInv, AbsentInv, RemovedIsGone, ReadyIsIndexed, PathInv, UpsertPoints, Fails, db, stores, temporal
  <2> QED
    BY <2>1, <2>2, <2>3
<1>9. CASE MarkIndexReady(a)
  <2>1. LockInv' /\ CatalogInv'
    BY <1>9, ActorAssumption DEF LockInv, CatalogInv, PathInv, RemovalsApart, db, stores, MarkIndexReady, Fails, SetIndexStatus, Goto
  <2>2. PathInv'
    BY <1>9 DEF LockInv, PathInv, AfterLoad, MarkIndexReady, Fails, SetIndexStatus, Goto, db, stores
  <2>3. DataInv'
    BY <1>9 DEF DataInv, AbsentInv, RemovedIsGone, ReadyIsIndexed, PathInv, MarkIndexReady, Fails, SetIndexStatus, db, stores, temporal
  <2> QED
    BY <2>1, <2>2, <2>3
<1>10. CASE MarkIndexFailed(a)
  <2>1. LockInv' /\ CatalogInv'
    BY <1>10, ActorAssumption DEF LockInv, CatalogInv, PathInv, RemovalsApart, db, stores, MarkIndexFailed, Finish, SetIndexStatus, Goto
  <2>2. PathInv'
    BY <1>10 DEF LockInv, PathInv, AfterLoad, MarkIndexFailed, Finish, SetIndexStatus, Goto, db, stores
  <2>3. DataInv'
    BY <1>10 DEF DataInv, AbsentInv, RemovedIsGone, ReadyIsIndexed, PathInv, MarkIndexFailed, Finish, SetIndexStatus, db, stores, temporal
  <2> QED
    BY <2>1, <2>2, <2>3
<1>11. CASE Reload(a)
  <2>1. LockInv' /\ CatalogInv'
    BY <1>11, ActorAssumption DEF LockInv, CatalogInv, PathInv, RemovalsApart, db, stores, Reload, Finish, Goto
  <2>2. PathInv'
    BY <1>11 DEF LockInv, PathInv, AfterLoad, Reload, Finish, Goto, db, stores
  <2>3. DataInv'
    BY <1>11 DEF DataInv, AbsentInv, RemovedIsGone, ReadyIsIndexed, PathInv, Reload, Finish, db, stores, temporal
  <2> QED
    BY <2>1, <2>2, <2>3
<1> QED
  BY <1>1, <1>2, <1>3, <1>4, <1>5, <1>6, <1>7, <1>8, <1>9, <1>10, <1>11
  DEF IndexStep

\* So does remove_upload, and remove_item when nobody holds the lock; taking
\* the lock and losing it to a crash keep the invariant too.
LEMMA RemoveInv ==
    ASSUME TypeOK, LockInv, CatalogInv, PathInv, DataInv,
           RemovalsApart, RemovalsApart', NEW a \in Actors,
           RemoveStep(a) \/ AcquireLock(a) \/ Crash(a)
    PROVE  LockInv' /\ CatalogInv' /\ PathInv' /\ DataInv'
<1> USE DEF TypeOK
<1>1. CASE RemoveUploadLoad(a)
  <2>1. LockInv' /\ CatalogInv'
    BY <1>1, ActorAssumption DEF LockInv, CatalogInv, PathInv, RemovalsApart, db, stores, RemoveUploadLoad, Finish, SetIndexStatus, Goto
  <2>2. PathInv'
    BY <1>1 DEF LockInv, PathInv, AfterLoad, RemoveUploadLoad, Finish, SetIndexStatus, Goto, db, stores
  <2>3. DataInv'
    BY <1>1 DEF DataInv, AbsentInv, RemovedIsGone, ReadyIsIndexed, PathInv, RemoveUploadLoad, Finish, SetIndexStatus, db, stores, temporal
  <2> QED
    BY <2>1, <2>2, <2>3
<1>2. CASE RemoveUploadPoints(a)
  <2>1. LockInv' /\ CatalogInv'
    BY <1>2, ActorAssumption DEF LockInv, CatalogInv, PathInv, RemovalsApart, db, stores, RemoveUploadPoints, Finish, Goto
  <2>2. PathInv'
    BY <1>2 DEF LockInv, PathInv, AfterLoad, RemoveUploadPoints, Finish, Goto, db, stores
  <2>3. DataInv'
    BY <1>2 DEF DataInv, AbsentInv, RemovedIsGone, ReadyIsIndexed, PathInv, RemoveUploadPoints, Finish, db, stores, temporal
  <2> QED
    BY <2>1, <2>2, <2>3
<1>3. CASE RemoveUploadCommit(a)
  <2>1. LockInv' /\ CatalogInv'
    BY <1>3, ActorAssumption DEF LockInv, CatalogInv, PathInv, RemovalsApart, db, stores, RemoveUploadCommit, Finish, SoftDelete, Goto
  <2>2. PathInv'
    BY <1>3 DEF LockInv, PathInv, AfterLoad, RemoveUploadCommit, Finish, SoftDelete, Goto, db, stores
  <2>3. DataInv'
    BY <1>3 DEF DataInv, AbsentInv, RemovedIsGone, ReadyIsIndexed, PathInv, RemoveUploadCommit, Finish, SoftDelete, db, stores, temporal
  <2> QED
    BY <2>1, <2>2, <2>3
<1>c. pc[a] \in {"cat_points", "cat_commit"} => \A b \in Actors : pc[b] \notin LockedSteps
  BY ActorAssumption DEF LockInv, RemovalsApart
<1>4. CASE RemoveItemPoints(a)
  <2>1. LockInv' /\ CatalogInv'
    BY <1>4, <1>c DEF LockInv, CatalogInv, RemoveItemPoints, Goto, db
  <2>2. PathInv'
    BY <1>4, <1>c DEF PathInv, AfterLoad, RemoveItemPoints, Goto
  <2>3. DataInv'
    BY <1>4 DEF DataInv, AbsentInv, RemovedIsGone, ReadyIsIndexed, CatalogInv, RemoveItemPoints, db
  <2> QED
    BY <2>1, <2>2, <2>3
<1>5. CASE RemoveItemCommit(a)
  <2>1. LockInv' /\ CatalogInv'
    BY <1>5, <1>c DEF LockInv, CatalogInv, RemoveItemCommit, SoftDelete, Goto, db, stores
  <2>2. PathInv'
    BY <1>5, <1>c DEF PathInv, AfterLoad, RemoveItemCommit, Goto
  <2>3. DataInv'
    BY <1>5 DEF DataInv, AbsentInv, RemovedIsGone, ReadyIsIndexed, CatalogInv, RemoveItemCommit,
       SoftDelete, Visible, db, stores
  <2> QED
    BY <2>1, <2>2, <2>3
<1>6. CASE AcquireLock(a)
  <2>1. LockInv' /\ CatalogInv'
    BY <1>6, ActorAssumption DEF LockInv, CatalogInv, PathInv, RemovalsApart, db, stores, AcquireLock, Goto
  <2>2. PathInv'
    BY <1>6 DEF LockInv, PathInv, AfterLoad, AcquireLock, Goto, db, stores
  <2>3. DataInv'
    BY <1>6 DEF DataInv, AbsentInv, RemovedIsGone, ReadyIsIndexed, PathInv, AcquireLock, db, stores, temporal
  <2> QED
    BY <2>1, <2>2, <2>3
<1>7. CASE Crash(a)
  <2>1. LockInv' /\ CatalogInv'
    BY <1>7, ActorAssumption DEF LockInv, CatalogInv, PathInv, RemovalsApart, db, stores, Crash, Leave, Goto
  <2>2. PathInv'
    BY <1>7 DEF LockInv, PathInv, AfterLoad, Crash, Leave, Goto, db, stores
  <2>3. DataInv'
    BY <1>7 DEF DataInv, AbsentInv, RemovedIsGone, ReadyIsIndexed, PathInv, Crash, Leave, db, stores, temporal
  <2> QED
    BY <2>1, <2>2, <2>3
<1> QED
  BY <1>1, <1>2, <1>3, <1>4, <1>5, <1>6, <1>7
  DEF RemoveStep

\* The inductive invariant holds before the document exists.
LEMMA InitInv == Init => LockInv /\ CatalogInv /\ PathInv /\ DataInv
BY ActorAssumption DEF Init, LockInv, CatalogInv, PathInv, AfterLoad,
   DataInv, AbsentInv, RemovedIsGone, ReadyIsIndexed

\* Every step keeps the inductive invariant.
LEMMA StepInv == RemovalsApart /\ RemovalsApart' /\ IInv /\ [Next]_vars => IInv'
<1> SUFFICES ASSUME RemovalsApart, RemovalsApart', IInv, [Next]_vars PROVE IInv'
  OBVIOUS
<1> USE DEF IInv
<1> DEFINE Rest == LockInv /\ CatalogInv /\ PathInv /\ DataInv
<1>1. ASSUME NEW r \in Requests, Arrive(r) PROVE Rest'
  BY <1>1, UploadInv
<1>2. ASSUME NEW a \in Actors, AcquireLock(a) \/ Step(a) \/ Crash(a) PROVE Rest'
  BY <1>2, UploadInv, IndexInv, RemoveInv DEF Step
<1>3. ASSUME NEW w \in Workers, StartAttempt(w) \/ Report(w) PROVE Rest'
  BY <1>3 DEF TypeOK, StartAttempt, Report, Leave, Goto, LockInv, CatalogInv,
     PathInv, AfterLoad, DataInv, AbsentInv, RemovedIsGone, ReadyIsIndexed, db, stores
<1>4. ASSUME UNCHANGED <<db, lock, points, pc, loc>> PROVE Rest'
  BY <1>4 DEF LockInv, CatalogInv, PathInv, DataInv, AbsentInv,
     RemovedIsGone, ReadyIsIndexed, db
<1>5. Rest'
  BY <1>1, <1>2, <1>3, <1>4
  DEF Next, ClientPut, PresignExpires, ActivityTimeout, vars, stores
<1> QED
  BY <1>5, StepType, WorkflowStep

\* The inductive invariant holds in every state of a behaviour in which
\* removals of the catalogue stay apart.
LEMMA Invariance == Spec /\ []RemovalsApart => []IInv
<1>1. Init => IInv
  BY InitType, InitInv DEF Init, IInv, WorkflowInv
<1> QED
  BY <1>1, StepInv, PTL DEF Spec


-----------------------------------------------------------------------------
(* Consequences.                                                           *)

\* A removed upload has no live point and no citation, and no indexing attempt
\* or retry that runs before, after or beside remove_upload brings one back,
\* for any number of requests, attempts and contents.  Removals by remove_item
\* are included as long as nobody holds the lock while they are under way.
THEOREM RemovedStaysGone == Spec /\ []RemovalsApart => []RemovedIsGone
<1>1. IInv => RemovedIsGone
  BY DEF IInv, DataInv
<1> QED
  BY <1>1, Invariance, PTL

\* If no removal by remove_item is under way while somebody holds the lock, the
\* live points are, while index_status is ready, those of one content and the
\* citations are those of the same content, for any number of attempts and
\* removals by either route and wherever one of them fails or crashes.  Beside
\* a removal that takes no lock this fails: an attempt may set "ready" after
\* remove_item has tombstoned its points.
THEOREM ReadyStaysIndexed == Spec /\ []RemovalsApart => []ReadyIsIndexed
<1>1. IInv => ReadyIsIndexed
  BY DEF IInv, DataInv
<1> QED
  BY <1>1, Invariance, PTL

\* Every step of the upload is a step of SearchableDocument or leaves what a
\* reader sees unchanged.
LEMMA RefinesStep == IInv /\ [Next]_vars => [Doc!Next]_(Doc!vars)
<1> SUFFICES ASSUME IInv, [Next]_vars PROVE [Doc!Next]_(Doc!vars)
  OBVIOUS
<1> USE DEF phase, Doc!vars
<1>1. ASSUME UNCHANGED <<deletedAt, points, citations>>,
             status' = status \/ status' # "absent"
      PROVE  [Doc!Next]_(Doc!vars)
  BY <1>1 DEF Doc!Next, Doc!Create
<1>2. ASSUME UNCHANGED <<deletedAt, status, citations>>, points' = {}
      PROVE  [Doc!Next]_(Doc!vars)
  BY <1>2 DEF Doc!Next, Doc!Hide
<1>3. ASSUME NEW r \in Requests, Arrive(r) PROVE [Doc!Next]_(Doc!vars)
  BY <1>3, <1>1 DEF Arrive, UploadToCollection, StartUpload, CreateOrGetUpload,
     CompleteUpload, RetryIndexing, DeleteDocument, RemoveItemLoad,
     SetIndexStatus, db, stores
<1>4. ASSUME NEW a \in Actors, AcquireLock(a) \/ UploadStep(a) \/ Crash(a)
      PROVE  [Doc!Next]_(Doc!vars)
  BY <1>4, <1>1 DEF UploadStep, AcquireLock, Crash, PutPath, Head,
     MarkUploadAvailable, MarkUploadFailedRead, MarkUploadFailedWrite,
     QueueIndexing, db, stores
<1>5. ASSUME NEW a \in Actors, IndexStep(a) PROVE [Doc!Next]_(Doc!vars)
  <2>1. CASE ReplaceCitations(a)
    <3>1. pc[a] = "citations" => loc[a].file \in Files /\ ~deletedAt /\ status # "absent"
      BY DEF IInv, PathInv, AfterLoad
    <3>2. CASE citations' = loc[a].file
      <4>1. Doc!Cite(loc[a].file)
        BY <2>1, <3>1, <3>2 DEF ReplaceCitations, stores, Doc!Cite
      <4> QED
        BY <4>1, <3>1, <2>1 DEF Doc!Next, ReplaceCitations
    <3>3. CASE UNCHANGED citations
      BY <2>1, <3>3, <1>1 DEF ReplaceCitations, stores
    <3> QED
      BY <2>1, <3>2, <3>3 DEF ReplaceCitations
  <2>2. CASE TombstonePoints(a)
    BY <2>2, <1>1, <1>2 DEF TombstonePoints, db
  <2>3. CASE UpsertPoints(a)
    <3>1. pc[a] = "upsert" => /\ loc[a].file \in Files /\ ~deletedAt /\ status # "absent"
                              /\ points = {} /\ citations = loc[a].file
      BY DEF IInv, PathInv, AfterLoad
    <3>2. CASE points' = points \cup {loc[a].file}
      <4>1. Doc!Publish(loc[a].file)
        BY <2>3, <3>1, <3>2 DEF UpsertPoints, db, Doc!Publish
      <4> QED
        BY <4>1, <3>1, <2>3 DEF Doc!Next, UpsertPoints
    <3>3. CASE UNCHANGED points
      BY <2>3, <3>3, <1>1 DEF UpsertPoints, db
    <3> QED
      BY <2>3, <3>2, <3>3 DEF UpsertPoints
  <2>4. CASE ~(ReplaceCitations(a) \/ TombstonePoints(a) \/ UpsertPoints(a))
    BY <1>5, <2>4, <1>1 DEF IndexStep, LoadUpload, Canonicalize, CanonicalizeFailed,
       MarkIndexProcessing, Embed, MarkIndexReady, MarkIndexFailed, Reload,
       SetIndexStatus, db, stores
  <2> QED
    BY <2>1, <2>2, <2>3, <2>4
<1>6. ASSUME NEW a \in Actors, RemoveStep(a) PROVE [Doc!Next]_(Doc!vars)
  <2>1. CASE RemoveUploadCommit(a)
    <3>1. pc[a] = "rm_commit" => points = {}
      BY DEF IInv, PathInv
    <3>2. CASE SoftDelete
      BY <2>1, <3>1, <3>2 DEF RemoveUploadCommit, SoftDelete, Visible, stores,
         Doc!Next, Doc!Delete
    <3>3. CASE UNCHANGED db
      BY <2>1, <3>3, <1>1 DEF RemoveUploadCommit, db, stores
    <3> QED
      BY <2>1, <3>2, <3>3 DEF RemoveUploadCommit
  <2>2. CASE RemoveUploadLoad(a) \/ RemoveUploadPoints(a)
    BY <2>2, <1>1, <1>2 DEF RemoveUploadLoad, RemoveUploadPoints, SetIndexStatus, db, stores
  <2>3. CASE RemoveItemPoints(a)
    BY <2>3, <1>1, <1>2 DEF RemoveItemPoints, db
  <2>4. CASE RemoveItemCommit(a)
    <3>1. pc[a] = "cat_commit" => points = {}
      BY DEF IInv, CatalogInv
    <3>2. CASE SoftDelete
      BY <2>4, <3>1, <3>2 DEF RemoveItemCommit, SoftDelete, Visible, stores,
         Doc!Next, Doc!Delete
    <3>3. CASE UNCHANGED db
      BY <2>4, <3>3, <1>1 DEF RemoveItemCommit, db, stores
    <3> QED
      BY <2>4, <3>2, <3>3 DEF RemoveItemCommit
  <2> QED
    BY <1>6, <2>1, <2>2, <2>3, <2>4 DEF RemoveStep
<1>7. ASSUME NEW w \in Workers, StartAttempt(w) \/ Report(w)
      PROVE  [Doc!Next]_(Doc!vars)
  BY <1>7, <1>1 DEF StartAttempt, Report, db, stores
<1>8. ASSUME UNCHANGED <<db, points>> PROVE [Doc!Next]_(Doc!vars)
  BY <1>8, <1>1 DEF db
<1> QED
  BY <1>3, <1>4, <1>5, <1>6, <1>7, <1>8
  DEF Next, Step, ClientPut, PresignExpires, ActivityTimeout, vars, stores

\* If no removal by remove_item is under way while somebody holds the lock, the
\* upload, indexing and removal code implements SearchableDocument: a deletion
\* takes place only once nothing of the document can be found, and what becomes
\* searchable has its citations stored already.  Beside a removal that takes no
\* lock it does not: an attempt may publish what was deleted.
THEOREM UploadImplementsDocument ==
    Spec /\ []RemovalsApart => ImplementsSearchableDocument
<1>1. Init => Doc!Init
  BY DEF Init, Doc!Init, phase
<1> QED
  BY <1>1, RefinesStep, Invariance, PTL DEF Spec, ImplementsSearchableDocument, Doc!Spec

=============================================================================
