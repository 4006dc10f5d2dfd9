----------------------------- MODULE ConnectorSync -----------------------------
(***************************************************************************)
(* The synchronization of one ingestion source: the IngestionWorkflow of   *)
(* Temporal, IngestionActivity, ConnectorPipeline, ItemIngestionService    *)
(* (as the pipeline's sink) and the checkpoint in the source's row, beside *)
(* a provider whose documents change and an operator who reconfigures the  *)
(* source.                                                                 *)
(*                                                                         *)
(* Two ways of discovering changes are modelled: a change feed read from a *)
(* page token that is bound to the source's scope and may expire           *)
(* (GoogleDriveConnector), and a crawl of what was modified since a time   *)
(* stamp (ConfluenceConnector behind CheckpointedSourceConnectorAdapter).  *)
(* Every change of the provider gets the next tick of one clock: it is its *)
(* position in the feed, its time stamp, and the name of the content.      *)
(***************************************************************************)
EXTENDS Naturals

CONSTANTS
    Items,         \* documents of the providers
    Connectors,    \* [feed : it reads a change feed, or else it crawls,
                   \*  scopes : the sets of documents it may be configured to,
                   \*  pageOf : the page of an attachment, of all others itself]
    Slots,         \* worker slots that run activity attempts
    MaxChanges,    \* bound: changes of the provider
    MaxAttempts,   \* RetryPolicy.maximum_attempts
    None           \* no document, no slot, no scope

AllScopes == UNION {c.scopes : c \in Connectors}

ASSUME ConnectorAssumption ==
    Connectors \subseteq [feed : BOOLEAN, scopes : SUBSET SUBSET Items,
                          pageOf : [Items -> Items]]
ASSUME NoneAssumption == None \notin Items \cup Slots \cup AllScopes
ASSUME BoundAssumption == MaxChanges \in Nat /\ MaxAttempts \in Nat \ {0}

VARIABLES
    \* the provider
    clock,         \* the position of its last change
    changed,       \* the position of each document's last change, 0: never
    present,       \* the document exists
    oldest,        \* page tokens below this one have expired
    \* ingestion_sources
    connector,     \* the provider of its connection, fixed
    config,        \* the scope the operator configured
    enabled,       \* "ready", "paused", or "deleted"
    checkpoint,    \* from where the next run discovers changes
    \* items with their external_resources, citations, Qdrant points
    row,           \* "absent", "live" or "deleted"
    indexStatus,   \* items.index_status
    citations,     \* the content whose citations are stored, 0: none
    points,        \* the contents whose points are live
    \* the ingestion workflow of the source
    wfOpen, wfAttempt, wfSlot,
    \* attempts
    pc,            \* what each slot does next
    run            \* what its attempt has found so far

provider == <<clock, changed, present, oldest>>
source == <<connector, config, enabled, checkpoint>>
items == <<row, indexStatus>>
derived == <<citations, points>>
temporal == <<wfOpen, wfAttempt, wfSlot>>
vars == <<provider, source, items, derived, temporal, pc, run>>

Position == 0..MaxChanges
HasFeed == connector.feed
Scopes == connector.scopes

\* A Google Drive token carries the fingerprint of its scope.  A Confluence
\* time stamp does not; its scope is recorded here for the properties only.
Checkpoint == [at : Position, scope : AllScopes \cup {None}]
NoCheckpoint == [at |-> 0, scope |-> None]

\* How a document or an attempt fails: what is retried, and what is not.
Kinds == {"retry", "final"}

Run == [scope : AllScopes \cup {None}, from : Checkpoint, next : Checkpoint,
        deletes : SUBSET Items, writes : SUBSET Items,
        content : [Items -> Position],
        item : Items \cup {None}, failure : Kinds, failed : SUBSET Kinds]
Blank == [scope |-> None, from |-> NoCheckpoint, next |-> NoCheckpoint,
          deletes |-> {}, writes |-> {}, content |-> [i \in Items |-> 0],
          item |-> None, failure |-> "retry", failed |-> {}]

Steps == {"idle", "source", "discover", "list", "hierarchy", "deletes",
          "delete_points", "items", "processing", "citations", "embed",
          "tombstone", "upsert", "ready", "index_failed", "report"}

TypeOK ==
    /\ clock \in Position /\ oldest \in Position
    /\ changed \in [Items -> Position] /\ present \in [Items -> BOOLEAN]
    /\ connector \in Connectors /\ config \in Scopes
    /\ enabled \in {"ready", "paused", "deleted"}
    /\ checkpoint \in Checkpoint
    /\ row \in [Items -> {"absent", "live", "deleted"}]
    /\ indexStatus \in [Items -> {"pending", "processing", "ready", "failed"}]
    /\ citations \in [Items -> Position] /\ points \in [Items -> SUBSET Position]
    /\ wfOpen \in BOOLEAN /\ wfAttempt \in 0..MaxAttempts
    /\ wfSlot \in Slots \cup {None}
    /\ pc \in [Slots -> Steps] /\ run \in [Slots -> Run]

Init ==
    /\ clock = 0 /\ oldest = 0
    /\ changed = [i \in Items |-> 0] /\ present = [i \in Items |-> FALSE]
    /\ connector \in Connectors
    /\ config \in Scopes /\ enabled = "ready" /\ checkpoint = NoCheckpoint
    /\ row = [i \in Items |-> "absent"]
    /\ indexStatus = [i \in Items |-> "pending"]
    /\ citations = [i \in Items |-> 0] /\ points = [i \in Items |-> {}]
    /\ wfOpen = FALSE /\ wfAttempt = 0 /\ wfSlot = None
    /\ pc = [s \in Slots |-> "idle"] /\ run = [s \in Slots |-> Blank]

Goto(s, step) == pc' = [pc EXCEPT ![s] = step]

(***************************************************************************)
(* The provider and the operator.                                          *)
(***************************************************************************)

Change(i) ==
    /\ i \in UNION Scopes /\ clock < MaxChanges
    /\ clock' = clock + 1
    /\ changed' = [changed EXCEPT ![i] = clock + 1]
    /\ present' = [present EXCEPT ![i] = TRUE]
    /\ UNCHANGED <<oldest, source, items, derived, temporal, pc, run>>

Remove(i) ==
    /\ clock < MaxChanges /\ present[i]
    /\ clock' = clock + 1
    /\ changed' = [changed EXCEPT ![i] = clock + 1]
    /\ present' = [present EXCEPT ![i] = FALSE]
    /\ UNCHANGED <<oldest, source, items, derived, temporal, pc, run>>

ExpireTokens ==
    /\ HasFeed
    /\ oldest' = clock
    /\ UNCHANGED <<clock, changed, present, source, items, derived, temporal, pc, run>>

\* update_source with a config: the checkpoint starts over.
UpdateConfig(scope) ==
    /\ enabled # "deleted"
    /\ config' = scope /\ checkpoint' = NoCheckpoint
    /\ UNCHANGED <<connector, enabled, provider, items, derived, temporal, pc, run>>

UpdateStatus(status) ==
    /\ enabled # "deleted"
    /\ enabled' = status
    /\ UNCHANGED <<connector, config, checkpoint, provider, items, derived, temporal, pc, run>>

DeleteSource ==
    /\ enabled' = "deleted"
    /\ UNCHANGED <<connector, config, checkpoint, provider, items, derived, temporal, pc, run>>

(***************************************************************************)
(* The workflow.  A manual start finds the open execution; the schedule    *)
(* skips while one is open.                                                *)
(***************************************************************************)

StartIngestion ==
    /\ ~wfOpen
    /\ wfOpen' = TRUE /\ wfAttempt' = 0 /\ wfSlot' = None
    /\ UNCHANGED <<provider, source, items, derived, pc, run>>

CancelIngestion ==
    /\ wfOpen
    /\ wfOpen' = FALSE /\ wfAttempt' = 0 /\ wfSlot' = None
    /\ UNCHANGED <<provider, source, items, derived, pc, run>>

StartAttempt(s) ==
    /\ wfOpen /\ wfSlot = None /\ pc[s] = "idle"
    /\ wfSlot' = s /\ wfAttempt' = wfAttempt + 1
    /\ Goto(s, "source")
    /\ UNCHANGED <<wfOpen, provider, source, items, derived, run>>

\* One attempt too many.
AttemptEndsLate(result) ==
    /\ wfSlot' = None
    /\ wfOpen' = (result = "retry" /\ wfAttempt <= MaxAttempts)
    /\ wfAttempt' = IF wfOpen' THEN wfAttempt ELSE 0

AttemptEnds(result) ==
    /\ wfSlot' = None
    /\ wfOpen' = (result = "retry" /\ wfAttempt < MaxAttempts)
    /\ wfAttempt' = IF wfOpen' THEN wfAttempt ELSE 0

\* Heartbeats stop, or the attempt takes too long: Temporal gives it up,
\* though it may only be slow and run on.
ActivityTimeout ==
    /\ wfSlot # None
    /\ AttemptEnds("retry")
    /\ UNCHANGED <<provider, source, items, derived, pc, run>>

Leave(s) == Goto(s, "idle") /\ run' = [run EXCEPT ![s] = Blank]

\* An attempt is final when all its failures are.  FileProcessingError is not
\* among the types _is_non_retryable_failure lists, so it is retried.
Result(failed) ==
    IF failed = {} THEN "ok" ELSE IF failed = {"final"} THEN "stop" ELSE "retry"

Report(s) ==
    /\ pc[s] = "report"
    /\ Leave(s)
    /\ IF wfSlot = s THEN AttemptEnds(Result(run[s].failed)) ELSE UNCHANGED temporal
    /\ UNCHANGED <<provider, source, items, derived>>

\* The worker dies, or a cancelled activity stops where it is.
Crash(s) ==
    /\ pc[s] # "idle"
    /\ Leave(s)
    /\ UNCHANGED <<provider, source, items, derived, temporal>>

(***************************************************************************)
(* An attempt: discover, delete, write, complete.                          *)
(***************************************************************************)

\* An error outside the loop over the documents ends the attempt.
FailAttempt(s, kind) ==
    /\ Goto(s, "report")
    /\ run' = [run EXCEPT ![s].failed = @ \cup {kind}]

\* runtime_for_source: a source that is not runnable is not retried.
LoadSource(s) ==
    /\ pc[s] = "source"
    /\ \/ enabled = "ready" /\ Goto(s, "discover")
          /\ run' = [run EXCEPT ![s].scope = config, ![s].from = checkpoint]
       \/ enabled # "ready" /\ FailAttempt(s, "final")
       \/ FailAttempt(s, "retry")
    /\ UNCHANGED <<provider, source, items, derived, temporal>>

\* The fingerprint of the scope is not compared.
NeedsListingOnceExpired(r) == r.from = NoCheckpoint \/ r.from.at < oldest

\* The token is of another scope, or Google answers 410 to it.
NeedsListing(r) == r.from.scope # r.scope \/ r.from.at < oldest

Since(position) == {i \in Items : changed[i] > position}

\* What comes after this run is fixed before the documents are listed.
Discover(s) ==
    /\ pc[s] = "discover"
    /\ \/ LET r == run[s]
              seen == Since(r.from.at)
              there == {i \in seen \cap r.scope : present[i]}
              next == [at |-> clock, scope |-> r.scope]
          IN  IF HasFeed /\ ~NeedsListing(r)
                THEN /\ run' = [run EXCEPT ![s].next = next, ![s].writes = there,
                                           ![s].deletes = seen \ there]
                     /\ Goto(s, "hierarchy")
                ELSE /\ run' = [run EXCEPT ![s].next = next]
                     /\ Goto(s, "list")
       \/ \E kind \in Kinds : FailAttempt(s, kind)
    /\ UNCHANGED <<provider, source, items, derived, temporal>>

\* A full listing of the scope, without a word about what is gone.
ListScope(s) ==
    /\ pc[s] = "list" /\ HasFeed
    /\ \/ /\ run' = [run EXCEPT ![s].writes = {i \in run[s].scope : present[i]}]
          /\ Goto(s, "hierarchy")
       \/ \E kind \in Kinds : FailAttempt(s, kind)
    /\ UNCHANGED <<provider, source, items, derived, temporal>>

\* The crawl asks for pages that were modified.  One that is modified after
\* it began may be listed or not.
ListedPages(r) == {i \in Since(r.from.at) \cap r.scope : present[i] /\ connector.pageOf[i] = i}

\* Some of the pages cannot be converted, and are skipped.
ConvertPages(pages) == SUBSET pages

\* Some of the attachments have no content to index, or fail.
ConvertAttachments(attachments) == SUBSET attachments

\* All attachments of a listed page, whenever they were changed, and also of
\* one that is skipped; a query that fails ends them early.
FetchAttachments(pages) ==
    ConvertAttachments({i \in Items \ pages : present[i] /\ connector.pageOf[i] \in pages})

\* The crawl reads contents as it goes.
Crawl(s) ==
    /\ pc[s] = "list" /\ ~HasFeed
    /\ \/ \E listed \in SUBSET ListedPages(run[s]) :
          \E pages \in ConvertPages(listed), attachments \in FetchAttachments(listed) :
            LET found == pages \cup attachments IN
            /\ run' = [run EXCEPT ![s].writes = found,
                          ![s].content = [i \in Items |-> IF i \in found THEN changed[i] ELSE 0]]
            /\ Goto(s, "hierarchy")
       \/ \E kind \in Kinds : FailAttempt(s, kind)
    /\ UNCHANGED <<provider, source, items, derived, temporal>>

\* Folders and spaces are written before their documents; a failure counts
\* against the attempt and does not stop it.
Hierarchy(s) ==
    /\ pc[s] = "hierarchy"
    /\ Goto(s, "deletes")
    /\ \/ enabled = "ready" /\ UNCHANGED run
       \/ \E kind \in Kinds : run' = [run EXCEPT ![s].failed = @ \cup {kind}]
    /\ UNCHANGED <<provider, source, items, derived, temporal>>

\* soft_delete_item, first part: one transaction on the rows, which does
\* nothing for a document it does not find or finds deleted.
DeleteItem(s) ==
    /\ pc[s] = "deletes" /\ run[s].deletes # {}
    /\ \E i \in run[s].deletes :
         \/ /\ row[i] = "live"
            /\ row' = [row EXCEPT ![i] = "deleted"]
            /\ citations' = [citations EXCEPT ![i] = 0]
            /\ run' = [run EXCEPT ![s].deletes = @ \ {i}, ![s].item = i]
            /\ Goto(s, "delete_points")
         \/ /\ row[i] # "live"
            /\ run' = [run EXCEPT ![s].deletes = @ \ {i}]
            /\ UNCHANGED <<row, citations, pc>>
         \/ /\ run' = [run EXCEPT ![s].deletes = @ \ {i}, ![s].failed = @ \cup {"retry"}]
            /\ UNCHANGED <<row, citations, pc>>
    /\ UNCHANGED <<provider, source, indexStatus, points, temporal>>

\* Second part: the points, in another store.
DeletePoints(s) ==
    /\ pc[s] = "delete_points"
    /\ Goto(s, "deletes")
    /\ \/ /\ points' = [points EXCEPT ![run[s].item] = {}]
          /\ run' = [run EXCEPT ![s].item = None]
       \/ /\ points' \in {points, [points EXCEPT ![run[s].item] = {}]}
          /\ run' = [run EXCEPT ![s].item = None, ![s].failed = @ \cup {"retry"}]
    /\ UNCHANGED <<provider, source, items, citations, temporal>>

DeletesDone(s) ==
    /\ pc[s] = "deletes" /\ run[s].deletes = {}
    /\ Goto(s, "items")
    /\ UNCHANGED <<provider, source, items, derived, temporal, run>>

\* The failure is not counted against the run.
NextItemUnreported(s, kind) ==
    /\ Goto(s, "items")
    /\ run' = [run EXCEPT ![s].item = None, ![s].failure = "retry"]

\* A document that failed: the run goes on with the next.
NextItem(s, kind) ==
    /\ Goto(s, "items")
    /\ run' = [run EXCEPT ![s].failed = @ \cup {kind}, ![s].item = None, ![s].failure = "retry"]

\* A download has what the document holds now; one that is gone is a 404.
Download(i) == IF present[i] THEN {changed[i]} ELSE {}

\* A document of the feed is downloaded, stored and processed.
LoadItem(s) ==
    /\ pc[s] = "items" /\ HasFeed
    /\ \E i \in run[s].writes :
         /\ run[s].content[i] = 0
         /\ \/ \E content \in Download(i) : run' = [run EXCEPT ![s].content[i] = content]
            \/ \E kind \in Kinds : run' = [run EXCEPT ![s].writes = @ \ {i}, ![s].failed = @ \cup {kind}]
    /\ UNCHANGED <<provider, source, items, derived, temporal, pc>>

\* _persist_item: only for a runnable source; a deleted row is live again.
PersistItem(s) ==
    /\ pc[s] = "items"
    /\ \E i \in run[s].writes :
         /\ run[s].content[i] # 0
         /\ \/ /\ enabled = "ready"
               /\ row' = [row EXCEPT ![i] = "live"]
               /\ indexStatus' = [indexStatus EXCEPT ![i] = "pending"]
               /\ run' = [run EXCEPT ![s].writes = @ \ {i}, ![s].item = i]
               /\ Goto(s, "processing")
            \/ /\ \E kind \in Kinds :
                    run' = [run EXCEPT ![s].writes = @ \ {i}, ![s].failed = @ \cup {kind}]
               /\ UNCHANGED <<items, pc>>
    /\ UNCHANGED <<provider, source, derived, temporal>>

\* process_item_content, as in NativeUpload but outside any lock.
SetIndexStatus(i, status) ==
    /\ row[i] # "deleted"
    /\ indexStatus' = [indexStatus EXCEPT ![i] = status]
    /\ UNCHANGED row

Fails(s, kind) ==
    /\ Goto(s, "index_failed")
    /\ run' = [run EXCEPT ![s].failure = kind]

MarkIndexProcessing(s) ==
    /\ pc[s] = "processing"
    /\ \/ SetIndexStatus(run[s].item, "processing") /\ Goto(s, "citations") /\ UNCHANGED run
       \/ Fails(s, "retry") /\ UNCHANGED items
    /\ UNCHANGED <<provider, source, derived, temporal>>

ReplaceCitations(s) ==
    /\ pc[s] = "citations"
    /\ LET i == run[s].item IN
         \/ /\ citations' = [citations EXCEPT ![i] = run[s].content[i]]
            /\ Goto(s, "embed") /\ UNCHANGED run
         \/ Fails(s, "retry") /\ UNCHANGED citations
    /\ UNCHANGED <<provider, source, items, points, temporal>>

Embed(s) ==
    /\ pc[s] = "embed"
    /\ \/ Goto(s, "tombstone") /\ UNCHANGED run
       \/ \E kind \in Kinds : Fails(s, kind)
    /\ UNCHANGED <<provider, source, items, derived, temporal>>

TombstonePoints(s) ==
    /\ pc[s] = "tombstone"
    /\ LET gone == [points EXCEPT ![run[s].item] = {}] IN
         \/ points' = gone /\ Goto(s, "upsert") /\ UNCHANGED run
         \/ points' \in {points, gone} /\ Fails(s, "retry")
    /\ UNCHANGED <<provider, source, items, citations, temporal>>

UpsertPoints(s) ==
    /\ pc[s] = "upsert"
    /\ LET i == run[s].item
           more == [points EXCEPT ![i] = @ \cup {run[s].content[i]}]
       IN  \/ points' = more /\ Goto(s, "ready") /\ UNCHANGED run
           \/ points' \in {points, more} /\ Fails(s, "retry")
    /\ UNCHANGED <<provider, source, items, citations, temporal>>

MarkIndexReady(s) ==
    /\ pc[s] = "ready"
    /\ \/ /\ SetIndexStatus(run[s].item, "ready")
          /\ Goto(s, "items")
          /\ run' = [run EXCEPT ![s].item = None]
       \/ Fails(s, "retry") /\ UNCHANGED items
    /\ UNCHANGED <<provider, source, derived, temporal>>

\* A deleted row makes the except clause raise InvalidDocumentStateError,
\* which is final, in place of the failure it handles.
MarkIndexFailed(s) ==
    /\ pc[s] = "index_failed"
    /\ \/ SetIndexStatus(run[s].item, "failed") /\ NextItem(s, run[s].failure)
       \/ row[run[s].item] = "deleted" /\ NextItem(s, "final") /\ UNCHANGED items
       \/ NextItem(s, "retry") /\ UNCHANGED items
    /\ UNCHANGED <<provider, source, derived, temporal>>

\* The token is asked for at the end of the run.
CompleteWithLateToken(s) ==
    /\ pc[s] = "items" /\ run[s].writes = {} /\ enabled # "deleted"
    /\ IF run[s].failed = {}
         THEN checkpoint' = [run[s].next EXCEPT !.at = clock]
         ELSE UNCHANGED checkpoint
    /\ Goto(s, "report")
    /\ UNCHANGED <<connector, config, enabled, run, provider, items, derived, temporal>>

\* Only a run without failures reaches _complete, which stores where the
\* next one starts; only a deleted source stops it.  An error while rotated
\* credentials are stored takes the place of the failures.
Complete(s) ==
    /\ pc[s] = "items" /\ run[s].writes = {}
    /\ Goto(s, "report")
    /\ \/ /\ run[s].failed # {} /\ UNCHANGED <<checkpoint, run>>
       \/ /\ run[s].failed = {} /\ enabled # "deleted"
          /\ checkpoint' = run[s].next /\ UNCHANGED run
       \/ /\ \E kind \in Kinds : run' = [run EXCEPT ![s].failed = {kind}]
          /\ UNCHANGED checkpoint
    /\ UNCHANGED <<connector, config, enabled, provider, items, derived, temporal>>

-----------------------------------------------------------------------------

Step(s) ==
    \/ LoadSource(s) \/ Discover(s) \/ ListScope(s) \/ Crawl(s) \/ Hierarchy(s)
    \/ DeleteItem(s) \/ DeletePoints(s) \/ DeletesDone(s)
    \/ LoadItem(s) \/ PersistItem(s) \/ MarkIndexProcessing(s)
    \/ ReplaceCitations(s) \/ Embed(s) \/ TombstonePoints(s) \/ UpsertPoints(s)
    \/ MarkIndexReady(s) \/ MarkIndexFailed(s) \/ Complete(s) \/ Report(s)

Operate ==
    \/ \E scope \in Scopes : UpdateConfig(scope)
    \/ \E status \in {"ready", "paused"} : UpdateStatus(status)
    \/ DeleteSource \/ CancelIngestion

Next ==
    \/ \E i \in Items : Change(i) \/ Remove(i)
    \/ ExpireTokens \/ Operate
    \/ StartIngestion \/ ActivityTimeout
    \/ \E s \in Slots : StartAttempt(s) \/ Step(s) \/ Crash(s)

Spec == Init /\ [][Next]_vars

\* The schedule starts runs, Temporal starts attempts and gives up the ones
\* whose worker is gone, and a running worker goes on.
Fairness ==
    /\ WF_vars(StartIngestion)
    /\ WF_vars(\E s \in Slots : StartAttempt(s))
    /\ WF_vars(ActivityTimeout /\ pc[wfSlot] = "idle")
    /\ \A s \in Slots : WF_vars(Step(s))

FairSpec == Spec /\ Fairness

(***************************************************************************)
(* Properties.                                                             *)
(***************************************************************************)

\* The next run starts from the stored checkpoint, so it will not look at
\* this document unless the document changes again.
Usable == IF HasFeed THEN checkpoint.scope = config /\ checkpoint.at >= oldest
                     ELSE checkpoint.at > 0
Behind(i) == Usable /\ 0 < changed[i] /\ changed[i] <= checkpoint.at

\* A checkpoint is never ahead of the index: a document of the scope that
\* exists and that the next run will not look at is searchable, with its
\* current content and only that, and citable.  Failed, crashed and repeated
\* runs, removals, expired tokens and reconfigurations do not break this.  A
\* crawl promises less, because it passes over pages it cannot convert.
CheckpointCoversUpdates ==
    \A i \in config :
        HasFeed /\ present[i] /\ Behind(i) =>
            /\ row[i] = "live" /\ indexStatus[i] = "ready"
            /\ points[i] = {changed[i]} /\ citations[i] = changed[i]

\* When the checkpoint passes over what a run has listed, all of it is
\* searchable with the content the run read: no document that failed on the
\* way is forgotten.
ListedIsIndexed ==
    [][checkpoint' \notin {checkpoint, NoCheckpoint} =>
        \E s \in Slots :
            /\ checkpoint' = run[s].next
            /\ \A i \in Items : run[s].content[i] # 0 =>
                 /\ row[i] = "live" /\ indexStatus[i] = "ready"
                 /\ points[i] = {run[s].content[i]}]_vars

\* Once the operator leaves the source alone and runs stop failing, every
\* document of the scope becomes and stays searchable with its content.
Fault ==
    \E s \in Slots :
        \/ ~(run'[s].failed \subseteq run[s].failed)
        \/ pc[s] \notin {"idle", "report"} /\ pc'[s] = "idle"
Settled ==
    /\ ~Fault /\ UNCHANGED <<config, enabled, oldest>>
    /\ checkpoint' = NoCheckpoint => checkpoint = NoCheckpoint
    /\ wfOpen /\ ~wfOpen' => wfSlot # None /\ pc[wfSlot] = "report"
EventuallyMirrored ==
    <>[][Settled]_vars /\ <>[](enabled = "ready") =>
        <>[](\A i \in config : present[i] => points[i] = {changed[i]})

\* A deletion the source has reported and the run has recorded leaves the
\* document out of search.
DeletedIsUnsearchable ==
    \A i \in Items : row[i] = "deleted" /\ Behind(i) => points[i] = {}

\* A document that is gone, and that the next run will not look at, has been
\* deleted here too.
CheckpointCoversDeletions ==
    \A i \in Items : ~present[i] /\ Behind(i) => row[i] # "live"

\* After a reconfiguration the next run discovers from the beginning.
CheckpointIsOfScope == Usable => checkpoint.scope = config
=============================================================================
