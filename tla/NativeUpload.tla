----------------------------- MODULE NativeUpload -----------------------------
(***************************************************************************)
(* The life of one native upload: DocumentUploadService (reserve, store,   *)
(* finalize, retry, delete), ItemService (the PostgreSQL rows),            *)
(* ItemIngestionService (indexing and removal under a PostgreSQL advisory  *)
(* lock), ItemIndex over Qdrant, and the Temporal workflow that indexes    *)
(* the upload in the background.                                           *)
(*                                                                         *)
(* Every row, object key, lock key, workflow id and point filter of the    *)
(* code is keyed by the document, so documents do not interact and one is  *)
(* modelled.  Its actors are HTTP requests and Temporal activity attempts. *)
(* A step is one transaction or one call of an outside service; between    *)
(* two steps an actor may be overtaken, may fail, or may crash.            *)
(***************************************************************************)
EXTENDS Naturals, FiniteSets

CONSTANTS
    Requests,      \* HTTP requests that may be in flight together
    Catalog,       \* the requests that arrive through ItemCatalogService
    Workers,       \* slots of the Temporal worker that run activity attempts
    Files,         \* contents a client may send for this document
    BadFiles,      \* contents whose size or type is not the reserved one
    Malformed,     \* contents the file connector cannot process
    MaxAttempts,   \* RetryPolicy.maximum_attempts of the indexing activity
    None           \* no file, no actor

ASSUME ActorAssumption ==
    /\ Catalog \subseteq Requests
    /\ Requests \cap Workers = {}
    /\ None \notin Requests \cup Workers \cup Files
ASSUME FileAssumption == BadFiles \subseteq Files /\ Malformed \subseteq Files
ASSUME AttemptAssumption == MaxAttempts \in Nat \ {0}

VARIABLES
    \* PostgreSQL: items, item_uploads, citations
    status,        \* items.status ("absent": no row)
    deletedAt,     \* items.deleted_at is set
    indexStatus,   \* items.index_status
    uploadStatus,  \* item_uploads.status
    etag,          \* items.metadata.storage: the content that was finalized
    processed,     \* items.metadata.processing.provider_version
    citations,     \* the content whose citation rows are live
    lock,          \* holder of pg_advisory_lock(document)
    \* object storage, Qdrant
    object,        \* the content stored under the document's key
    presigned,     \* an issued upload URL has not expired
    points,        \* the contents whose points are live, not tombstoned (an
                   \* image without text has no points; it counts from its
                   \* upsert on)
    \* Temporal: the native-upload-indexing workflow of this document
    wfOpen, wfAttempt, wfSlot,
    \* actors
    pc,            \* the step each actor takes next
    loc            \* what it carries from step to step

db == <<status, deletedAt, indexStatus, uploadStatus, etag, processed, citations>>
stores == <<object, presigned, points>>
temporal == <<wfOpen, wfAttempt, wfSlot>>
vars == <<db, lock, stores, temporal, pc, loc>>

Actors == Requests \cup Workers
MaybeFile == Files \cup {None}
Readable == Files \ (BadFiles \cup Malformed)
Columns == {"status", "index", "upload"}

\* The content an actor stores or indexes, the etag it loaded, the columns
\* it is about to write, the result of an attempt.
Local == [file : MaybeFile, seen : MaybeFile, dirty : SUBSET Columns,
          res : {"ok", "retry", "stop"}]
Blank == [file |-> None, seen |-> None, dirty |-> {}, res |-> "ok"]

IndexSteps == {"processing", "citations", "embed", "tombstone", "upsert", "ready"}
LockedSteps == IndexSteps \cup {"load", "canonicalize", "canon_failed",
                "index_failed", "reload", "rm_load", "rm_points", "rm_commit"}
FreeSteps == {"idle", "put", "mark_stored", "head", "mark_available",
              "record_failure", "write_failure", "queue", "lock_index",
              "lock_remove", "cat_points", "cat_commit", "report"}

TypeOK ==
    /\ status \in {"absent", "pending", "ready", "failed", "deleted"}
    /\ deletedAt \in BOOLEAN
    /\ indexStatus \in {"pending", "processing", "ready", "failed"}
    /\ uploadStatus \in {"pending", "available", "failed"}
    /\ etag \in MaybeFile /\ processed \in MaybeFile /\ citations \in MaybeFile
    /\ lock \in Actors \cup {None}
    /\ object \in MaybeFile /\ presigned \in BOOLEAN /\ points \subseteq MaybeFile
    /\ wfOpen \in BOOLEAN /\ wfAttempt \in 0..MaxAttempts
    /\ wfSlot \in Workers \cup {None}
    /\ pc \in [Actors -> LockedSteps \cup FreeSteps]
    /\ loc \in [Actors -> Local]

Init ==
    /\ status = "absent" /\ deletedAt = FALSE
    /\ indexStatus = "pending" /\ uploadStatus = "pending"
    /\ etag = None /\ processed = None /\ citations = None
    /\ lock = None
    /\ object = None /\ presigned = FALSE /\ points = {}
    /\ wfOpen = FALSE /\ wfAttempt = 0 /\ wfSlot = None
    /\ pc = [a \in Actors |-> "idle"]
    /\ loc = [a \in Actors |-> Blank]

Goto(a, step) == pc' = [pc EXCEPT ![a] = step]

\* The actor is done and forgets everything.
Leave(a) == Goto(a, "idle") /\ loc' = [loc EXCEPT ![a] = Blank]

\* The item as every read sees it: neither marked deleted nor tombstoned.
Visible == status \notin {"absent", "deleted"} /\ ~deletedAt

(***************************************************************************)
(* Upload: reserve the document, store its bytes, make it available.       *)
(***************************************************************************)

\* INSERT ... ON CONFLICT DO NOTHING: a first use of the idempotency key
\* creates the rows, a replay finds them; a deleted item is a conflict.
CreateOrGetUpload ==
    /\ status # "deleted"
    /\ status' = IF status = "absent" THEN "pending" ELSE status
    /\ UNCHANGED <<deletedAt, indexStatus, uploadStatus, etag, processed, citations>>

\* The file a client sends is a multipart body whose size is part of the
\* reservation (a different one is refused there), so it is never bad.
UploadToCollection(a) ==
    /\ pc[a] = "idle"
    /\ CreateOrGetUpload
    /\ IF uploadStatus # "available"
         THEN \E f \in Files \ BadFiles :
                  /\ Goto(a, "put")
                  /\ loc' = [loc EXCEPT ![a].file = f]
         ELSE /\ indexStatus # "ready"
              /\ Goto(a, "queue")
              /\ UNCHANGED loc
    /\ UNCHANGED <<lock, stores, temporal>>

\* put_path: the object may have been written even when the call fails.
PutPath(a) ==
    /\ pc[a] = "put"
    /\ \/ object' = loc[a].file /\ Goto(a, "mark_stored") /\ UNCHANGED loc
       \/ /\ object' \in {object, loc[a].file}
          /\ Goto(a, "record_failure")
          /\ loc' = [loc EXCEPT ![a] = Blank]
    /\ UNCHANGED <<db, lock, presigned, points, temporal>>

StartUpload(a) ==
    /\ pc[a] = "idle"
    /\ CreateOrGetUpload
    /\ IF uploadStatus = "available"
         THEN Goto(a, "queue") /\ UNCHANGED presigned
         ELSE presigned' = TRUE /\ UNCHANGED pc
    /\ UNCHANGED <<lock, object, points, temporal, loc>>

\* The client's own PUT to the presigned URL, which the code does not see.
ClientPut(f) ==
    /\ presigned
    /\ object' = f
    /\ UNCHANGED <<db, lock, presigned, points, temporal, pc, loc>>

PresignExpires ==
    /\ presigned
    /\ presigned' = FALSE
    /\ UNCHANGED <<db, lock, object, points, temporal, pc, loc>>

CompleteUpload(a) ==
    /\ pc[a] = "idle"
    /\ Visible
    /\ Goto(a, IF uploadStatus = "available" THEN "queue" ELSE "head")
    /\ UNCHANGED <<db, lock, stores, temporal, loc>>

\* head + _validate_stored_object: a missing object, a mismatch and a
\* storage error all end in _record_failure.
Head(a) ==
    /\ pc[a] = "head"
    /\ \/ /\ object \in Files \ BadFiles
          /\ loc' = [loc EXCEPT ![a].file = object]
          /\ Goto(a, "mark_available")
       \/ Goto(a, "record_failure") /\ UNCHANGED loc
    /\ UNCHANGED <<db, lock, stores, temporal>>

\* The row is read FOR UPDATE, so this transaction is atomic.  Only a
\* deleted status stops it; an available upload is returned as it is.  Then
\* indexing is queued, except that upload_to_collection ("mark_stored")
\* does not queue an upload whose index is ready.
MarkUploadAvailable(a) ==
    /\ pc[a] \in {"mark_available", "mark_stored"}
    /\ \/ status = "deleted" /\ Goto(a, "idle") /\ UNCHANGED db
       \/ /\ status # "deleted" /\ uploadStatus = "available"
          /\ Goto(a, IF pc[a] = "mark_stored" /\ indexStatus = "ready"
                       THEN "idle" ELSE "queue")
          /\ UNCHANGED db
       \/ /\ status # "deleted" /\ uploadStatus # "available"
          /\ status' = "ready" /\ indexStatus' = "pending"
          /\ uploadStatus' = "available" /\ etag' = loc[a].file
          /\ Goto(a, "queue")
          /\ UNCHANGED <<deletedAt, processed, citations>>
    /\ loc' = [loc EXCEPT ![a] = Blank]
    /\ UNCHANGED <<lock, stores, temporal>>

\* mark_upload_failed reads the rows without a lock, decides, and writes
\* back the columns whose value it changed.
DirtyColumns ==
    LET row == [status |-> status, index |-> indexStatus, upload |-> uploadStatus]
    IN  {c \in Columns : row[c] # "failed"}

MarkUploadFailedRead(a) ==
    /\ pc[a] = "record_failure"
    /\ IF Visible /\ uploadStatus # "available"
         THEN /\ loc' = [loc EXCEPT ![a].dirty = DirtyColumns]
              /\ Goto(a, "write_failure")
         ELSE Leave(a)
    /\ UNCHANGED <<db, lock, stores, temporal>>

MarkUploadFailedWrite(a) ==
    /\ pc[a] = "write_failure"
    /\ status' = IF "status" \in loc[a].dirty THEN "failed" ELSE status
    /\ indexStatus' = IF "index" \in loc[a].dirty THEN "failed" ELSE indexStatus
    /\ uploadStatus' = IF "upload" \in loc[a].dirty THEN "failed" ELSE uploadStatus
    /\ Leave(a)
    /\ UNCHANGED <<deletedAt, etag, processed, citations, lock, stores, temporal>>

\* Best-effort dispatch: a Temporal outage is swallowed, an execution that
\* is already open is left to do the work.
QueueIndexing(a) ==
    /\ pc[a] = "queue"
    /\ Leave(a)
    /\ \/ UNCHANGED temporal
       \/ ~wfOpen /\ wfOpen' = TRUE /\ wfAttempt' = 0 /\ wfSlot' = None
    /\ UNCHANGED <<db, lock, stores>>

(***************************************************************************)
(* Indexing, by an activity attempt or by an explicit retry.               *)
(***************************************************************************)

RetryIndexing(a) ==
    /\ pc[a] = "idle"
    /\ Visible /\ uploadStatus = "available"
    /\ Goto(a, "lock_index")
    /\ UNCHANGED <<db, lock, stores, temporal, loc>>

\* Mutant: an advisory lock that does not exclude its other takers.
AcquireSharedLock(a) ==
    /\ pc[a] \in {"lock_index", "lock_remove"}
    /\ lock' = a
    /\ Goto(a, IF pc[a] = "lock_index" THEN "load" ELSE "rm_load")
    /\ UNCHANGED <<db, stores, temporal, loc>>

\* pg_advisory_lock: blocks until the lock is free.
AcquireLock(a) ==
    /\ pc[a] \in {"lock_index", "lock_remove"}
    /\ lock = None
    /\ lock' = a
    /\ Goto(a, IF pc[a] = "lock_index" THEN "load" ELSE "rm_load")
    /\ UNCHANGED <<db, stores, temporal, loc>>

\* Mutant: an unlock that only the successful path reaches.
FinishKeepingLock(a, result) ==
    /\ lock' = IF result = "ok" THEN None ELSE lock
    /\ Goto(a, IF a \in Workers THEN "report" ELSE "idle")
    /\ loc' = [loc EXCEPT ![a] =
                  IF a \in Workers THEN [Blank EXCEPT !.res = result] ELSE Blank]

\* The finally clause unlocks; an activity then reports its result.
Finish(a, result) ==
    /\ lock' = None
    /\ Goto(a, IF a \in Workers THEN "report" ELSE "idle")
    /\ loc' = [loc EXCEPT ![a] =
                  IF a \in Workers THEN [Blank EXCEPT !.res = result] ELSE Blank]

\* _index_is_current: nothing to do when the recorded processing metadata
\* is that of the finalized content.
IndexIsCurrent == indexStatus = "ready" /\ processed = etag

\* A missing item, a refused caller and a database error are retryable for
\* the activity; an unavailable upload is not.
LoadUpload(a) ==
    /\ pc[a] = "load"
    /\ \/ Finish(a, "retry")
       \/ Visible /\ uploadStatus # "available" /\ Finish(a, "stop")
       \/ /\ Visible /\ uploadStatus = "available" /\ IndexIsCurrent
          /\ Goto(a, "reload")
          /\ UNCHANGED <<lock, loc>>
       \/ /\ Visible /\ uploadStatus = "available" /\ ~IndexIsCurrent
          /\ Goto(a, "canonicalize")
          /\ loc' = [loc EXCEPT ![a].seen = etag]
          /\ UNCHANGED lock
    /\ UNCHANGED <<db, stores, temporal>>

\* Downloads and processes the bytes now stored under the key.  Whatever
\* goes wrong becomes a DocumentProcessingError.
Canonicalize(a) ==
    /\ pc[a] = "canonicalize"
    /\ \/ /\ object \in Readable
          /\ loc' = [loc EXCEPT ![a].file = object]
          /\ Goto(a, "processing")
       \/ Goto(a, "canon_failed") /\ UNCHANGED loc
    /\ UNCHANGED <<db, lock, stores, temporal>>

\* _set_index_status refuses a deleted item.
SetIndexStatus(value) ==
    /\ status # "deleted"
    /\ indexStatus' = value
    /\ UNCHANGED <<status, deletedAt, uploadStatus, etag>>

\* The canonicalization error is not retryable, but an error of the
\* transaction that records it takes its place and is.
CanonicalizeFailed(a) ==
    /\ pc[a] = "canon_failed"
    /\ \/ SetIndexStatus("failed") /\ Finish(a, "stop")
          /\ UNCHANGED <<processed, citations>>
       \/ Finish(a, "retry") /\ UNCHANGED db
    /\ UNCHANGED <<stores, temporal>>

\* An exception inside process_item_content goes to its except clause.
Fails(a, result) ==
    /\ Goto(a, "index_failed")
    /\ loc' = [loc EXCEPT ![a] = [Blank EXCEPT !.res = result]]

MarkIndexProcessing(a) ==
    /\ pc[a] = "processing"
    /\ \/ SetIndexStatus("processing") /\ Goto(a, "citations")
          /\ UNCHANGED <<processed, citations, loc>>
       \/ Fails(a, "retry") /\ UNCHANGED db
    /\ UNCHANGED <<lock, stores, temporal>>

\* Mutant: citations are not written before the points.
SkipCitations(a) ==
    /\ pc[a] = "citations"
    /\ Goto(a, "embed")
    /\ UNCHANGED <<db, lock, stores, temporal, loc>>

ReplaceCitations(a) ==
    /\ pc[a] = "citations"
    /\ \/ citations' = loc[a].file /\ Goto(a, "embed") /\ UNCHANGED loc
       \/ Fails(a, "retry") /\ UNCHANGED citations
    /\ UNCHANGED <<status, deletedAt, indexStatus, uploadStatus, etag, processed,
                   lock, stores, temporal>>

\* Contextualization and embedding change nothing; a wrong number of
\* vectors is a ValueError, which the activity does not retry.
Embed(a) ==
    /\ pc[a] = "embed"
    /\ \/ Goto(a, "tombstone") /\ UNCHANGED loc
       \/ Fails(a, "retry")
       \/ Fails(a, "stop")
    /\ UNCHANGED <<db, lock, stores, temporal>>

\* Mutant: the points of the previous content are not tombstoned.
KeepOldPoints(a) ==
    /\ pc[a] = "tombstone"
    /\ \/ Goto(a, "upsert") /\ UNCHANGED loc
       \/ Fails(a, "retry")
    /\ UNCHANGED <<db, lock, stores, temporal>>

\* replace_item_points: tombstone every point of the item, then upsert the
\* new ones.  A call that fails may have taken effect.
TombstonePoints(a) ==
    /\ pc[a] = "tombstone"
    /\ \/ points' = {} /\ Goto(a, "upsert") /\ UNCHANGED loc
       \/ points' \in {points, {}} /\ Fails(a, "retry")
    /\ UNCHANGED <<db, lock, object, presigned, temporal>>

UpsertPoints(a) ==
    /\ pc[a] = "upsert"
    /\ \/ points' = points \cup {loc[a].file} /\ Goto(a, "ready") /\ UNCHANGED loc
       \/ points' \in {points, points \cup {loc[a].file}} /\ Fails(a, "retry")
    /\ UNCHANGED <<db, lock, object, presigned, temporal>>

\* One transaction records what was processed and that the index is ready.
MarkIndexReady(a) ==
    /\ pc[a] = "ready"
    /\ \/ /\ SetIndexStatus("ready")
          /\ processed' = loc[a].seen
          /\ Goto(a, "reload") /\ UNCHANGED <<citations, loc>>
       \/ Fails(a, "retry") /\ UNCHANGED db
    /\ UNCHANGED <<lock, stores, temporal>>

\* The except clause: its own transaction may fail, and a deleted item
\* makes it raise a retryable error in place of the original one.
MarkIndexFailed(a) ==
    /\ pc[a] = "index_failed"
    /\ \/ SetIndexStatus("failed") /\ Finish(a, loc[a].res)
          /\ UNCHANGED <<processed, citations>>
       \/ Finish(a, "retry") /\ UNCHANGED db
    /\ UNCHANGED <<stores, temporal>>

\* The document is read once more, still under the lock, for the result.
Reload(a) ==
    /\ pc[a] = "reload"
    /\ \/ Finish(a, "retry")
       \/ Visible /\ uploadStatus # "available" /\ Finish(a, "stop")
       \/ Visible /\ uploadStatus = "available" /\ Finish(a, "ok")
    /\ UNCHANGED <<db, stores, temporal>>

(***************************************************************************)
(* Removal, under the lock (delete_document) or not (ItemCatalogService).  *)
(***************************************************************************)

DeleteDocument(a) ==
    /\ pc[a] = "idle" /\ a \notin Catalog
    /\ Goto(a, "lock_remove")
    /\ UNCHANGED <<db, lock, stores, temporal, loc>>

\* The owner's upload, deleted or not; a deleted one needs no more work.
RemoveUploadLoad(a) ==
    /\ pc[a] = "rm_load"
    /\ \/ /\ status \in {"absent", "deleted"}
          /\ Finish(a, "ok") /\ UNCHANGED db
       \/ /\ status # "absent" /\ SetIndexStatus("processing")
          /\ Goto(a, "rm_points")
          /\ UNCHANGED <<processed, citations, lock, loc>>
    /\ UNCHANGED <<stores, temporal>>

RemoveUploadPoints(a) ==
    /\ pc[a] = "rm_points"
    /\ \/ points' = {} /\ Goto(a, "rm_commit") /\ UNCHANGED <<lock, loc>>
       \/ points' \in {points, {}} /\ Finish(a, "retry")
    /\ UNCHANGED <<db, object, presigned, temporal>>

\* CitationService.replace_for_item(()) and soft_delete_item: one
\* transaction, which a missing item undoes as a whole.
SoftDelete ==
    /\ Visible
    /\ status' = "deleted" /\ deletedAt' = TRUE /\ citations' = None
    /\ UNCHANGED <<indexStatus, uploadStatus, etag, processed>>

\* soft_delete_item asks for the collection's update permission, which the
\* owner of the upload need not hold.
RemoveUploadCommit(a) ==
    /\ pc[a] = "rm_commit"
    /\ \/ SoftDelete /\ Finish(a, "ok")
       \/ Finish(a, "retry") /\ UNCHANGED db
    /\ UNCHANGED <<stores, temporal>>

RemoveItemLoad(a) ==
    /\ pc[a] = "idle" /\ a \in Catalog
    /\ Visible
    /\ SetIndexStatus("processing")
    /\ Goto(a, "cat_points")
    /\ UNCHANGED <<processed, citations, lock, stores, temporal, loc>>

RemoveItemPoints(a) ==
    /\ pc[a] = "cat_points"
    /\ \/ points' = {} /\ Goto(a, "cat_commit")
       \/ points' \in {points, {}} /\ Goto(a, "idle")
    /\ UNCHANGED <<db, lock, object, presigned, temporal, loc>>

RemoveItemCommit(a) ==
    /\ pc[a] = "cat_commit"
    /\ Goto(a, "idle")
    /\ SoftDelete \/ UNCHANGED db
    /\ UNCHANGED <<lock, stores, temporal, loc>>

(***************************************************************************)
(* The workflow: attempts, their reports, time-outs; crashes.              *)
(***************************************************************************)

StartAttempt(w) ==
    /\ wfOpen /\ wfSlot = None /\ pc[w] = "idle"
    /\ wfSlot' = w /\ wfAttempt' = wfAttempt + 1
    /\ Goto(w, "lock_index")
    /\ UNCHANGED <<db, lock, stores, wfOpen, loc>>

\* Mutants: one attempt too many; an attempt count that starts over.
AttemptEndsLate(result) ==
    /\ wfSlot' = None
    /\ wfOpen' = (result = "retry" /\ wfAttempt <= MaxAttempts)
    /\ wfAttempt' = IF wfOpen' THEN wfAttempt ELSE 0

AttemptEndsUncounted(result) ==
    /\ wfSlot' = None
    /\ wfOpen' = (result = "retry" /\ wfAttempt < MaxAttempts)
    /\ wfAttempt' = 0

\* The workflow ends with the result of its attempt, or after the last one.
AttemptEnds(result) ==
    /\ wfSlot' = None
    /\ wfOpen' = (result = "retry" /\ wfAttempt < MaxAttempts)
    /\ wfAttempt' = IF wfOpen' THEN wfAttempt ELSE 0

\* The report of an attempt that Temporal has given up on is ignored.
Report(w) ==
    /\ pc[w] = "report"
    /\ Leave(w)
    /\ IF wfSlot = w THEN AttemptEnds(loc[w].res) ELSE UNCHANGED temporal
    /\ UNCHANGED <<db, lock, stores>>

\* start_to_close_timeout: the attempt's worker has crashed, or is only
\* slow and runs on beside the next attempt.
ActivityTimeout ==
    /\ wfSlot # None
    /\ AttemptEnds("retry")
    /\ UNCHANGED <<db, lock, stores, pc, loc>>

\* The process dies, or an exception or a cancellation ends the actor: its
\* database session ends and the lock with it.
Crash(a) ==
    /\ pc[a] # "idle"
    /\ Leave(a)
    /\ lock' = IF lock = a THEN None ELSE lock
    /\ UNCHANGED <<db, stores, temporal>>

-----------------------------------------------------------------------------

UploadStep(a) ==
    \/ PutPath(a) \/ Head(a) \/ MarkUploadAvailable(a)
    \/ MarkUploadFailedRead(a) \/ MarkUploadFailedWrite(a) \/ QueueIndexing(a)

IndexStep(a) ==
    \/ LoadUpload(a) \/ Canonicalize(a) \/ CanonicalizeFailed(a)
    \/ MarkIndexProcessing(a) \/ ReplaceCitations(a) \/ Embed(a)
    \/ TombstonePoints(a) \/ UpsertPoints(a) \/ MarkIndexReady(a)
    \/ MarkIndexFailed(a) \/ Reload(a)

RemoveStep(a) ==
    \/ RemoveUploadLoad(a) \/ RemoveUploadPoints(a) \/ RemoveUploadCommit(a)
    \/ RemoveItemPoints(a) \/ RemoveItemCommit(a)

\* What an actor that has begun does next.
Step(a) == UploadStep(a) \/ IndexStep(a) \/ RemoveStep(a)

Arrive(r) ==
    \/ UploadToCollection(r) \/ StartUpload(r) \/ CompleteUpload(r)
    \/ RetryIndexing(r) \/ DeleteDocument(r) \/ RemoveItemLoad(r)

Next ==
    \/ \E r \in Requests : Arrive(r)
    \/ \E a \in Actors : AcquireLock(a) \/ Step(a) \/ Crash(a)
    \/ \E w \in Workers : StartAttempt(w) \/ Report(w)
    \/ \E f \in Files : ClientPut(f)
    \/ PresignExpires \/ ActivityTimeout

Spec == Init /\ [][Next]_vars

\* A running process goes on with what it does; PostgreSQL grants an
\* advisory lock in the order of its waiters; Temporal starts attempts and
\* times out the ones whose worker is gone.
Fairness ==
    /\ \A a \in Actors : WF_vars(Step(a)) /\ SF_vars(AcquireLock(a))
    /\ \A w \in Workers : WF_vars(Report(w))
    /\ WF_vars(\E w \in Workers : StartAttempt(w))
    /\ WF_vars(ActivityTimeout /\ pc[wfSlot] = "idle")

FairSpec == Spec /\ Fairness

(***************************************************************************)
(* Properties.                                                             *)
(***************************************************************************)

\* A removed upload has nothing left that search or citations could show,
\* whatever indexing attempts, retries, crashes and failed calls came before
\* and are still running: remove_upload and every indexing path hold the
\* same advisory lock.
RemovedIsGone == deletedAt => points = {} /\ citations = None

\* The part of RemovedIsGone that search depends on, stated for removals by
\* either route.
RemovedIsUnsearchable == deletedAt => points = {}

\* index_status "ready" is never seen while replace_item_points is half done
\* or has failed: there are then live points, all of one content, and the
\* live citations are those of the same content.  This holds of removals by
\* remove_upload, and of removals by remove_item (the requests in Catalog) as
\* long as nobody holds the lock while one is under way: beside an attempt, a
\* removal that takes no lock tombstones points that the attempt then calls
\* ready.
ReadyIsIndexed ==
    indexStatus = "ready" => \E f \in Files : points = {f} /\ citations = f

\* What the reader of the workspace sees of this document is a behaviour of
\* SearchableDocument.
phase == IF deletedAt THEN "deleted"
         ELSE IF status = "absent" THEN "absent" ELSE "present"

Doc == INSTANCE SearchableDocument WITH searchable <- points, cited <- citations

\* The upload and indexing code implements the promise of
\* SearchableDocument: nothing is shown of a deleted document, a content is
\* shown only after its citations were stored, and a deletion comes after
\* the points are gone.  The condition is that of ReadyIsIndexed: beside a
\* remove_item that takes no lock, an attempt shows what was deleted.
ImplementsSearchableDocument == Doc!Spec

\* No request and no activity attempt waits forever: the advisory lock is
\* always given back, by the finally clause or by the end of the session.
EveryActorFinishes == \A a \in Actors : pc[a] # "idle" ~> pc[a] = "idle"

\* A queued workflow ends, by a result or by running out of attempts, even
\* when attempts time out and run on beside their successors.
WorkflowEnds == wfOpen ~> ~wfOpen

\* The state transitions of a document's content lead from available only
\* to available: a failure recorded late must not undo a finalized upload.
AvailableStaysAvailable ==
    [][uploadStatus = "available" => uploadStatus' = "available"]_vars

\* The content finalized under an idempotency key is the content stored
\* under the document's key.
ContentIsBound == uploadStatus = "available" => object = etag
=============================================================================
