# BoThesis: specifications, model checking and proofs

BoThesis is a workspace for documents: people upload files, connectors
synchronize external sources (Google Drive, Confluence), everything is
indexed in Qdrant, and an agent answers questions with citations. This
directory holds TLA+ modules for its core, the TLC configurations that check
them, and TLAPS proofs. Paths below are relative to `src/backend/bothesis/`
unless they start otherwise.

Contents: 1 inventory, 2 plan, 3 the runs, 4–13 the modules, 14 the proofs,
15 promises the code does not keep, 16 what is only model-checked, 17 what is
not modelled.

## 1. Inventory

| Part | State | Operations | Talks to | Module |
|---|---|---|---|---|
| Document upload (`services/document_upload.py`) | none of its own; `items`, `item_uploads`, objects | `upload_to_collection`, `start_upload`, `complete_upload`, `retry_indexing`, `delete_document` | object storage, item records, workflows, ingestion | `NativeUpload` |
| Item records (`services/item.py`) | `items`, `item_uploads`, `external_resources` | create or find an upload, finalize, fail, index status, upsert, soft deletion | PostgreSQL | `NativeUpload`, `ConnectorSync`, `CollectionAccess` |
| Item ingestion (`services/item_ingestion.py`) | the advisory lock of a document | `index_upload`, `index_available_upload`, `remove_upload`, `remove_item`, the connector sink | records, citations, index, stored content | `NativeUpload`, `ConnectorSync` |
| Processing (`connector/processing/`) | none | parts or headings to chunks with sections and spans | Docling | `DocumentChunks` |
| Document index (`document_index/`), citations (`services/citation.py`) | Qdrant points with a tombstone flag; `citations` | replace, tombstone, search | Qdrant, embedding service | `NativeUpload`, `ConnectorSync`, `KnowledgeSearch` |
| Temporal workflows (`services/workflow/`) | executions, attempts, schedules | start, cancel, attempt, time-out, retry, report | ingestion, pipeline | `NativeUpload`, `ConnectorSync`, `IntegrationConnection` |
| Connector pipeline and connectors (`connector/`) | the run in progress, caches of one run | changes since a checkpoint, fetch, crawl, deletes, writes, next checkpoint | providers, ingestion | `ConnectorSync` |
| Ingestion sources (`services/ingestion_sources.py`) | `ingestion_sources`: config, status, checkpoint | create, update, delete, resolve for a run | connections | `ConnectorSync`, `IntegrationConnection` |
| Integration connections (`services/integration_*.py`, `integrations/`) | `integration_connections`, credentials, OAuth states | authorize, validate, refresh, list, disconnect, delete, record health | providers, sources, schedules | `IntegrationConnection` |
| Agent turn (`agent/agent.py`, `turn.py`, `sampling.py`, `tools/core/`) | iterations, tool rounds, calls, the context | sample, execute tools, retry, reject, settle | model providers, tools | `AgentTurn` |
| Response stream (`agent/reducer.py`, `citation_stream.py`; the clients) | the response being put together, on the server and twice on clients | apply an event, project citations, settle | agent turn, clients | `ResponseStream` |
| Knowledge search and views (`knowledge/`, `services/agent_runtime/knowledge_search.py`, `services/knowledge_view.py`) | references and evidence of a turn | search, build evidence, cite, open | index, citations | `KnowledgeSearch` |
| Chat and conversations (`services/chat.py`, `services/conversation.py`) | `conversations`, `messages` | start, stream and finish a turn | agent turn, sessions | `AgentTurn`, `AccessSession` |
| Sandbox and artifacts (`services/sandbox_session.py`, `agent_runtime/sandbox_workspace.py`, `services/artifact.py`) | `sandbox_sessions` with a manifest, generated documents, revisions | ensure, materialize, run, export, expire, rebuild | execution provider, object storage | `Sandbox` |
| Access sessions (`services/identity_access/auth.py`, `access_session.py`) | `access_sessions`, tokens | guest, sign-in, upgrade, switch, logout, resolve | conversations | `AccessSession` |
| Identity and roles (`identity_access/users.py`, `roles.py`, `role_assignments.py`, `groups.py`, `authorization.py`) | users, memberships, roles, assignments, groups | create and change members, roles, shares; check and list access | records | `Governance`, `CollectionAccess` |
| Approval requests (`services/approval_request.py`) | `approval_requests` | create, decide, grant | roles | `CollectionAccess` |
| Clients (`src/web`, `src/app`, `tui/`), routers (`src/backend/api`), dashboards, audit, preview | none of the above | call the services, fold the stream | services | the folds: `ResponseStream` |

What is hard here is not any single operation. It is that

- one document lives in four stores that share no transaction (rows,
  citations, points, the object), written by HTTP requests and by background
  attempts; Temporal gives up attempts which run on beside their successors,
  and processes die between two writes;
- a checkpoint says what the next run need not look at, so that whatever is
  missed once is missed for good, while the source changes under the reader;
- a request is authenticated in one transaction and handled in others, and the
  provider of an account is asked in between;
- access is decided in two ways, for one item and for a listing;
- the calls of a turn run at once, within limits that count all of them, on
  documents that are indexed again meanwhile;
- an answer is cut anywhere on its way to three readers that rebuild it.

The hazards behind these are listed, each at its line, in `PROJECT.json`.

## 2. Plan

Done: the ten modules below with twelve runs, the module `Loops` they share,
eight modules of proofs, and `ClientInvariants`, where the longest of them
has its invariants.

Left, in this order:

1. `ConnectorSync`: deletion of its documents through the catalog, once it is
   decided who has the last word, the source or the administrator.
2. A bounded pool of connections beside the advisory lock of `NativeUpload`.
3. Reading and deleting artifacts in `Sandbox`.

## 3. The runs

Every run is a pass: TLC explores the whole state space of its instance.

| Run | Instance | Properties |
|---|---|---|
| `NativeUploadIndexing` | 1 request, 2 worker slots, 3 contents (one bad and malformed), 2 attempts | `TypeOK`, `ReadyIsIndexed`, `RemovedIsGone`, `ImplementsSearchableDocument` |
| `NativeUploadLive` | 1 catalog request, 2 slots, 1 content, `FairSpec` | `EveryActorFinishes`, `WorkflowEnds` |
| `ConnectorSync` | a feed of one document, and a crawl of a page with an attachment; 1 slot, 2 changes, 2 attempts | `TypeOK`, `CheckpointCoversUpdates`, `ListedIsIndexed` |
| `ConnectorSyncLive` | a feed of one document, 2 changes, `FairSpec` | `EventuallyMirrored` |
| `IntegrationConnection` | 1 connection, source, account, person, request and run, 2 grants | `TypeOK`, `ConnectedWorks`, `DeletedIsForgotten` |
| `Governance` | 1 workspace, 2 accounts, 2 role codes, 1 request | `TypeOK`, `TenantKeepsAdministrator`, `GrantsWithinAuthority` |
| `CollectionAccess` | 2 items, 2 users, 1 group with 1 request at a time; or 1 item and 1 access request with 2 requests at once; or personal collections of 2 users, 2 items and 3 grants with 1 request at a time | `TypeOK`, `AccessAgrees`, `GrantsFollowDecision` |
| `AccessSession` | 3 sessions, 3 workspaces, and two requests at once, two conversations or two users | `TypeOK`, `OneSuccessor`, `AdoptedByHeir`, `ConversationStaysPrivate` |
| `AgentTurn` | 3 tool requests, 2 calls in a response, 3 samples, 2 rounds, 2 calls, 1 retry, `FairSpec` | `TypeOK`, `InputIsPaired`, `RunsWithinLimits`, `NeverOutOfTurns`, `TurnEnds` |
| `Sandbox` | 2 requests, 2 threads, 1 resource, 1 document; of 2 sessions, 2 environments and 2 files four in all | `TypeOK`, `OneActiveSession`, `SavedStaysSaved` |
| `ResponseStream` | 9 answers, 3 shapes of a response | `StreamTypeOK`, `ReaderSeesABeginning`, `NothingIsLost`, `BrowserConverges` |
| `KnowledgeSearch` | 1 document, 4 contents, 2 versions, 2 queries in one or two calls or rounds | `SearchTypeOK`, `EvidenceWasShown`, `NoStaleEvidence`, `EvidenceIsOfItsSection`, `CitationOpens` |

The bounds are named constants of the modules (`MaxAttempts`, `MaxChanges`,
`MaxGrants`, ...) or, where a product of small bounds is too large, an action
constraint of the MC module (`StaysWithinAScope`) which keeps a behaviour
within one of a few scopes; the MC module says which. Why the bounds are
enough is said with each module. `SYMMETRY` is used in runs of safety
properties only. `CHECK_DEADLOCK FALSE` stands where the system may rest: a
deleted document or source, a turn, a response or a conversation that is over.
Each module holds, beside the definitions that model the code, a few marked
"a mistake to be caught": a definition with a plausible bug, which breaks the
property that is about it when it takes the place of the right one.

## 4. NativeUpload

One document, because every row, object key, lock key and workflow ID is
derived from it. Actors are HTTP requests (`Requests`; those in `Catalog`
arrive through `ItemCatalogService`) and worker slots (`Workers`). A step is
one transaction or one call of a service; `pc` says which comes next, `loc`
what the actor carries. Every call of Qdrant or of object storage may fail
after it took effect. `Crash` ends an actor at any step and releases its
lock with its database session.

| Definition | Code |
|---|---|
| `status`, `deletedAt`, `indexStatus`, `uploadStatus`, `etag`, `processed` | columns and metadata of `items` and `item_uploads` |
| `points` | contents of which live points exist; `object` what storage holds |
| `lock` | the session-level advisory lock on the document |
| `wfOpen`, `wfAttempt`, `wfSlot` | the open execution, its attempts, the slot Temporal waits for |
| `UploadToCollection` ... `QueueIndexing` | `services/document_upload.py` and the transactions it runs |
| `LoadUpload` ... `Reload` | `index_available_upload` and `process_item_content` |
| `RemoveUploadLoad` ..., `RemoveItemLoad` ... | `remove_upload` (locked), `remove_item` (not locked) |
| `AttemptEnds`, `ActivityTimeout`, `Report` | the workflow and its retry policy |

`mark_upload_failed` reads without a lock and writes the columns it changed
in a later step: SQLAlchemy writes back only attributes with a new value, and
`loc.dirty` remembers which. `SearchableDocument` is what a reader of search
results may rely on; `ImplementsSearchableDocument` is the refinement.

`ReadyIsIndexed` speaks of contents, so it needs two that can be told apart
and a third for the refused ones; two slots are enough for an attempt that
was given up and its successor. The one request returns as often as it
likes, so it uploads, retries and removes while the two slots are at work,
which is what `RemovedIsGone` needs. The request is not in `Catalog`: all
removals go through `remove_upload`. Beside a `remove_item`, which takes no lock,
`RemovedIsGone`, `ReadyIsIndexed` and `ImplementsSearchableDocument` fail
(section 15). The theorems of section 14 remove the bounds, and admit
`remove_item` as long as nobody holds the lock while one is under way.

*Fairness.* `FairSpec` assumes that a process that has begun goes on (`WF` of
its steps), that PostgreSQL serves the waiters of an advisory lock in order,
so that none waits for ever while the lock is released again and again (`SF`
of `AcquireLock`), and that Temporal starts attempts and times out an attempt
whose worker is gone (`WF`, the latter only for `pc[wfSlot] = "idle"`: nothing
forces a time-out on an attempt that makes progress). No request has to
arrive, and nothing has to succeed.

*Left out.* A Qdrant call that outlives its process; a lock session that the
server ends while its process lives; the preview; collisions of lock keys
(they only exclude more); the purpose `conversation_attachment`, which does
not dispatch and is covered by the failed dispatch of `QueueIndexing`.

## 5. ConnectorSync

One ingestion source with the documents of its provider. Every change of the
provider takes the next tick of one clock; the tick is its position in the
change feed, its time stamp and the name of the content. A member of
`Connectors` says whether the source is a feed (`GoogleDriveConnector`: a page
token bound to the scope, which may expire) or a crawl of what was modified
since a time stamp (`ConfluenceConnector` behind
`CheckpointedSourceConnectorAdapter`), which scopes an operator may choose,
and which items are attachments of which page. Slots run the attempts; `run`
is what an attempt holds in memory. The advisory lock plays no part: the
connector sink takes none.

| Definition | Code |
|---|---|
| `config`, `enabled`, `checkpoint` | `ingestion_sources`; `enabled` is "ready" when the status is one that runs, else "paused" or "deleted" |
| `row`, `indexStatus`, `citations`, `points` | as above, for each document |
| `UpdateConfig`, `UpdateStatus`, `DeleteSource` | `services/ingestion_sources.py` |
| `StartIngestion`, `CancelIngestion` | `services/workflow/service.py`, and the schedule with its default overlap policy |
| `LoadSource` ... `Complete` | `IngestionActivity._ingest`, `ConnectorPipeline.run_scope`, the connectors, the sink, `_complete` |
| `Report`, `Result` | how `ingest_items` classifies failures |

Batches of `fetch_concurrency` fetches are abstracted: a document may be
fetched any time before it is written. A page that cannot be converted is
skipped and its attachments are still taken; an attachment is looked at only
when its page was modified, and one that fails is only logged. Therefore
`CheckpointCoversUpdates` is claimed of feeds, and of crawls what a run does
keep, `ListedIsIndexed`. The time stamp of a crawl carries no scope; the model
records one beside it, which no action reads, so that `CheckpointIsOfScope`
can be stated.

Two documents are needed for one that fails beside one that does not; two
changes for a document that changes, disappears or comes back while it is
read. In a feed the documents of a run share only its set of failures and its
checkpoint, so one document and a scope that may leave it out show how a page
token, its expiry and a reconfiguration meet. One slot means no overlap of
attempts: the passing runs say what holds as long as a cancelled or timed-out
attempt has stopped before the next begins (section 15).

*Fairness.* `FairSpec` assumes that the schedule starts runs, that Temporal
starts attempts and times out those whose worker is gone, and that a running
attempt goes on. `EventuallyMirrored` assumes in its hypothesis that from some
point on no step fails, nobody reconfigures, tokens do not expire, and the
source stays enabled; it does not assume that the provider stops, whose
changes are bounded by `MaxChanges`. The schedule repeats runs without bound,
so `MaxAttempts = 1` loses nothing but the difference between a retry and the
next run, which the run `ConnectorSync` has.

## 6. IntegrationConnection

The connections of one workspace, the secret of each, the sources built on
them with their Temporal schedules, the requests about them, and the ingestion
runs that use and rotate the same secret. The provider issues grants; a
refresh may end the old one (`issued`, `valid`).

| Definition | Code |
|---|---|
| `conn`, `secret`, `source` | `integration_connections`, `integration_credentials`, `ingestion_sources` |
| `Exchange`, `RecordAuthorization` | the callback: `services/integration_lifecycle.py`, then `record_authorization` |
| `RefreshReturns` | `_usable_credentials` and the token endpoints in `integrations/` |
| `Validated`, `Listed`, `ProbeFails`, `RecordHealth` | `validate_connection`, the resource picker, and the failure that is recorded in a session of its own |
| `Manage`, `Ask`, `Forget`, `StopSchedules` | the routers; disconnection and deletion |
| `AskForSource`, `PutSchedule`, `DropSchedule` | `services/ingestion_sources.py` and the schedule |
| `Ingest` | a run: the runtime, its refresh, the rotation it stores |

A connection is `keyless` when its connector asks for no authentication, as
the managed files of `connector/registry.py` do. It may be created without a
secret, is validated in any status, "draft" and "disconnected" included, with
empty credentials, and is connected without a secret; `ConnectedWorks` asks it
for none. Its runs need no secret either, so a paused source of a disconnected
one can be resumed and runs. Credentials may still be pasted into it.

A unit of work is one step except where it awaits the provider: there it has
loaded rows and may hold a refreshed secret that is flushed and not committed.

One connection and one of everything beside it, because connections share only
the free names. One request is in flight at a time, beside a run: with two,
`ConnectedWorks` and `DeletedIsForgotten` fail (a validation that ends after a
disconnection, a listing whose refresh ends after a deletion, a source created
while its connection goes). Also in the model: Google's 403 for calls beyond a
rate limit asks for a new authorization; a validation may refresh inside the
connector and drop the rotated token; the factory's `ValueError` ends a
validation without recorded health. The statuses "revoked" and "failed" are
written nowhere.

*Left out.* Renaming; `sync_mode`; the signature of the OAuth state; what the
providers can do beside refresh and listing. No liveness is claimed: nobody
has to connect an account again.

## 7. Governance

Accounts, memberships, roles and tenant assignments. `Authenticate` copies the
actor's roles and permissions in one session; `ReadUser`, `WeighChange` and
`WriteUser` are the reads, the checks with their row locks, and the write of
`update_user`; `CreateUser`, `CreateRole`, `UpdateRole` take one step each.
`TenantKeepsAdministrator` says that a workspace has an active administrator,
`GrantsWithinAuthority` that no step gives anybody, by a role, by roles or
through a role that is held, a permission its actor lacks (enabling a role
again asks for no ceiling and is not weighed).

One request at a time: the roles of a target are read before its lock is
taken, so two administrators who remove each other leave none, and the ceiling
is that of the role as it was read. One workspace: see section 15. Two
accounts are the administrator and the other one, two codes a role above and
one below the actor. The theorems of section 14 drop every bound but these two
assumptions.

## 8. CollectionAccess

The tree of Collections and documents, the roles granted on them to users and
groups, the requests for a role, and the two ways access is decided:
`RequireItem` climbs from an item to its grants (`require_item`),
`AllowedCollections` descends from grants (`allowed_collection_ids`).

| Definition | Code |
|---|---|
| `CreateCollection`, `Upload`, `DeleteItem` | `services/item_catalog.py`, `document_upload.py`, the triggers of `db/models.py` |
| `ShareBegins`, `ShareEnds`, `Revoke` | `role_assignments.py`: look up what is replaced, then insert |
| `CreateApproval`, `DecideBegins`, `DecideEnds` | `approval_request.py`, `LockApproval` its row lock |
| `OpenPersonalUploads`, `CreateArtifact` | `ensure_personal_collection` of `services/item.py`, as `workspace_documents.py` and `artifact.py` call it |
| `CreateGroup` ... `ReplaceGroups`, `UpdateStatus` | `groups.py`, `users.py` |
| `Home`, `ListItems`, `Workspace`, `Searched`, `Opens` | what the views, the catalogue, the search and the viewer show |

`AccessAgrees` compares them all, in every state: the listing for a permission
with `PermissionsForItem`, and what is browsed with `RequireItem`, which asks
for `collection.read` beside the permission. Two nodes make a parent and
a child with inheritance on or off and either deleted; a grant comes directly
or through the group; a second request at once matters for decisions
(`GrantsFollowDecision`) and is used there; a personal collection needs its
owner, somebody it is shared with, and a document in it. Seen on the way: a
custom role of tenant scope that holds `collection.update` without
`collection.read` lists collections that `require_item` refuses, though the
code asks the listing for `collection.read` only; a visit gives an owner whose
role on a personal collection was lowered or revoked the owner role back,
beside the other one; a personal collection that was deleted stays deleted, so
that its owner's uploads or exports are refused from then on; a pending request
about a deleted Collection can be neither decided nor withdrawn, because the
trigger checks its target again; a reader with rights of tenant scope may open
by id what listings no longer show, which the property allows for.
`knowledge.read` is assumed for everybody; documents inside documents are left
out.

## 9. AccessSession

Guests, accounts and sign-in, sessions that replace one another, conversations.
`CreateSession` and `CompleteVerified` prove who signs in, `IssueUserSession`
locks and supersedes the session (`Supersede`) and hands its conversations
over (`Adopt`); `SwitchBegins`, `SwitchEnds` are the switch of a workspace;
`StartTurn` and `FinishTurn` are two transactions of a chat request that was
resolved before (`Authenticate`).

Two requests on one session are what `OneSuccessor` needs, two conversations
what `AdoptedByHeir` needs, two users what `ConversationStaysPrivate` needs; a
behaviour stays within one of the three. Accidents (a session past its time, a
suspended account, a changed membership) come one at a time. A token is stale
after any change of permissions; a session is marked "expired" in the
transaction that the refusal rolls back, so `Expire` is a matter of the clock.
How a person proves an identity, and the identity of development, are left out.

## 10. AgentTurn

The loop of `Agent.run`: `StartSampling`, `StreamEvent`, `Retry`,
`TransportFails` and `Settle` are a sampling request; `StartTools`,
`FinishTool`, `FinishTools` a batch of the orchestrator (`Admit` decides which
calls run); `Reject`, `Return`, `Break` the ends; `Disconnect` the client;
`FinishTurn` what `services/chat.py` stores. `TakeOutput` is the trimming of
the input in `context_manager.py`.

`InputIsPaired`: whatever is cut, no tool output is sent without its call nor
a call without its output. `RunsWithinLimits`: a request runs once in a turn,
and no more requests run than `max_tool_calls` although the limit is reached in
the middle of a batch. Three requests with a limit of two make the limit bite
within a batch; the budget of four units is exceeded by two large outputs.

*Fairness.* `FairSpec` is `WF` of the steps of the agent itself: a model or a
tool that never answers is ended by its time-out, which the code sets.
Commentary beside calls, reasoning items and hosted execution in the window
are left out.

## 11. Sandbox

The workspace of one conversation. A request keeps its own view of the session
(`cache`), shared by the tool calls and samples that it runs at once
(`Threads`). `Ensure` is `ensure_active` under the row lock of the
conversation, `Expire` and the recovery from an expired manifest follow
`sandbox_session.py`; an export is a download, `CommitRevision` of an artifact and its
revision under the row lock of the document (`AddRevision`), and the listing
that comes back.

`SavedStaysSaved`: what a person was told is saved has a revision of its own
in storage, whatever overlaps. Two requests and two threads make all the
overlaps of two actors; four sessions, environments and files in all leave
room for a rebuilt workspace beside a late call. Seen on the way: only
`promote_file` expires a session, and any failed download does; two
overlapping requests start two environments, of which the row names one;
`record_resource` may fail after the artifact was stored. `StartPublish` and
`Publish` publish a revision; reading and deleting artifacts are left out.

## 12. ResponseStream

One response. `provider` is what may be sent, in any cut and any legal order
(`agent/models/`), `projection` the rewriting of `[[cite:...]]` markers,
`reducer` the response as the server keeps it, `web` and `terminal` the two folds of
the clients. `Process` is the projection of one delta; `Project...` the
projections of the events; `Reduce` the reducer. `Process` is a loop of
`Scan`: a buffer without a double bracket is shown up to a bracket at its end
(`EndsInBracket`); a closed one is a marker or text; an unclosed one waits as
long as it can be the beginning of a citation (`Waits`). Such loops, and the
folds of the readers, are `Folded` of the module `Loops`, which a proof can
unroll. `Numerals` are what the numbers of citations read like.

`ReaderSeesABeginning`: what was shown is always a beginning of the finished
text. `NothingIsLost`: a message that came to its end is shown whole.
`BrowserConverges`: browser and server agree on a completed response. The
answers cite, repeat, invent, and come close to citing; the shapes put a call
or a reasoning item beside the message. One message of one part, one response.

Allowed for by the properties, and visible in the model: with a stray or
unclosed `[[` the result depends on the cuts; without evidence nothing is
rewritten; text held back is lost when a provider ends an item without
`text.done`; an item that appears in the terminal snapshot alone keeps raw
markers; the browser replaces refusals by each delta. Not modelled: a message
that is repeated with no parts at all, for which the browser
(`message-stream.ts:553`) drops the text streamed so far until the response
completes; the shell of a message has one empty part here, as in the tests.
`docs/references/agent-loop.md` says that an unknown marker stays visible; the
code drops it.

## 13. DocumentChunks and KnowledgeSearch

`DocumentChunks` holds functions: from parts to a Docling document
(`EmitHeadingTransition`), headings over each item, hybrid and line chunks,
the section and the spans of a chunk, and the viewer that puts elements
together again (`ViewerElements`). Text is abstracted to intervals of elements.
A loop over a sequence is `Folded` of `Loops`, a recursive function of how far
it has come; the headings Docling has open at an item are a stack (`NextHeadings`). A
content is `WellFormed` when each part is an element of its own, as the
references Docling gives its items are.

`KnowledgeSearch` is a turn that resolves the Collections it may read
(`ResolveScope`) and asks in rounds of concurrent calls, each with
several queries (`Retrieve`, `QueryFails`, `Deadline`, `Complete`), the
evidence that fits `MaxCharacters` (`AddBlock`), the table of references (`Assign`),
the best hit per reference (`Kept`), a reader who opens a citation
(`OpenPoints`, `OpenCitations`), and runs that index the document again
(`Index`). Chunk numbers and points are used again by the next version, which
may have fewer chunks: hence `NoStaleEvidence` and `CitationOpens`. One
document with two versions is enough, since documents share only the budget;
two queries come in one call, in two calls at once, or in two rounds. Nothing
is claimed about a view that an indexing run overtakes. Left out: refused
arguments, the time-out of the orchestrator, `KnowledgeQuery`.

## 14. Proofs

Each theorem holds for any sets and any bounds that the assumptions of its
module allow.

**`NativeUploadProofs`.** `TypeCorrect`: `wfAttempt` stays within its bound
only because an open workflow without a running attempt has an attempt left
(`WorkflowInv`), which is proved along with it. `RemovedStaysGone`,
`ReadyStaysIndexed` and `UploadImplementsDocument` are for requests of either
route, about behaviours with `[]RemovalsApart`: no `remove_item` is under way
while somebody holds the lock. The code does not see to that, and without it
they fail (section 15); removals by `remove_upload` need no condition. They rest
on one invariant, `IInv`, which TLC has checked under this condition with a
request of each route and one worker slot. Neither property is inductive: whether the upsert of an attempt is
harmless depends on what the attempt may rely on, and that depends on the
lock. `LockInv` says that an actor is at a locked step exactly when it holds
the lock. `PathInv` says what holds at each locked step: past `LoadUpload`
the document exists and is not deleted; from `ReplaceCitations` on the
citations are those of the content that is indexed; before the upsert there
are no points; between the first write and the last the index is not "ready".
A step of the holder keeps its own part; a step of anyone else changes none of
the variables the part reads (`RemovalsApart` keeps `remove_item` away from it,
and `CatalogInv` says what that removal finds in turn), apart from an upload, which only ever makes
`indexStatus` "pending" or "failed". `DataInv` adds the two properties and
that nothing is derived from a row that does not exist. For the refinement,
`points` and `citations` are the abstract variables and `phase` is read off
the row; every step is a step of `SearchableDocument` or leaves the three
alone.

**`ClientProofs`**, whose invariants are defined in `ClientInvariants`, on
sessions. `TypeCorrect` needs to know what a request under
way has read (`Prepared`) and that a user's session names its user
(`Identified`). `ReplacedOnce` (`OneSuccessor`) rests on `Locked`: a row that
a request has locked to replace it is still active and locked by no other; so
when `Supersede` runs, no session has it as a parent yet (`Succeeded`).
`OnlyItsOwnMessages` (`ConversationStaysPrivate`) is not inductive, because
what a message leaves behind is judged by sessions that are replaced later:
`Private` says of every writer that it is the creator or a session of the
owner, in the workspace of the conversation; `Known` that whatever is referred
to exists; `Kept` that kind, user, workspace and parent of a session never
change. `AdoptionIsByHeir` (`AdoptedByHeir`) uses them and `Succeeded`: the
heir of a guest is one session.

Its second half is about the response stream, for any replies, shapes,
references and marker length. `StreamTypeCorrect` (`StreamTypeOK`) contains
that the projection comes to an end and holds back no more than the longest
marker (`ProcessTyped`), however a delta is cut. `BrowserAgrees`
(`BrowserConverges`) rests on `StreamRight`: what the provider has sent at each
stage of an item (`Provided`), what the projection holds of it
(`ProjectionRight`), and that the readers agree (`ReadersRight`). While a
response is open, server and browser hold the same of each item that was begun
(`Shown`), and the browser lists exactly those, in rising order (`Lists`,
`Synced`). Each kind of event keeps this, and so does the fold of the several
events one delta becomes. At the end the browser takes the entries of the
snapshot one by one: entries before the one that is taken are in place
already, so that each goes to its position or moves to it, and at the last
entry order and items are those of the server (`Finished`).

`BeginningIsSeen` (`ReaderSeesABeginning`) and `AllIsKept` (`NothingIsLost`)
are about the characters of a reply and the places where it is cut. First, a
reply whose brackets close can be parsed (`ReplyParsed`): `Parsed` names the
places of its citations, says that every other double bracket is a cell, and
gives what each beginning of the text reads like, a citation counting from its
last character on. This is shown chunk by chunk; two chunks may meet in one
character each, but no citation begins across them. Then one delta
(`ProcessStops`): as long as the scan goes on, what it has shown is what a
beginning of the text reads like, and that beginning ends in no citation
(`Going`); each turn either shows more or stops, and where it stops, only
characters are held back that a citation may begin with (`StoppedAt`,
`Waiting`), never a whole one. `Midway` says this of the state between two
deltas: p characters are shown as they read, the others that were sent are held
back. A delta continues from there (`BufferIs`); the end of the text shows what
is held back, which then begins no citation, since there is nothing left to
complete it (`HeldIsText`). With `ReadersHold` the browser and the server show
what the projection shows, which is a beginning of the finished reading
(`ReadingGrows`), and all of it once nothing is held back.

**`GovernanceProofs`.** `TypeCorrect` holds for overlapping requests too.
`CeilingHolds` (`GrantsWithinAuthority`) assumes `OneAtATime` and
`AdministratorStays` (`TenantKeepsAdministrator`) also `OneWorkspace`. Their
invariant is `Weighed`: what a request has weighed is still so when it writes,
which is what a second request would break.

**`AgentTurnProofs`.** `TurnsNeverRunOut` (`NeverOutOfTurns`): the loop cannot
end because samples run out while tools are still allowed, for any limits with
more samples than rounds. `Counted` ties the counters to the program counter.
`RequestsRunOnce` (`RunsOnce`, the first conjunct of `RunsWithinLimits`):
`Recorded` says that the set of executed signatures is exactly what was run;
of a batch, `AdmittedOnce` shows by the finite set of admitted calls that no
two have one signature. `CallsStayLimited` (`RunsWithinLimits`) adds `Limited`:
the signatures executed are as many as `toolCalls` counts and, while a batch is
executed, as many more as it runs; admission keeps both within the limit. With
these three `TypeCorrect` follows. `InputStaysPaired` (`InputIsPaired`) is about a
recursive function, `Input`, which selects the context from its newest item to
its oldest within a budget. That the recursion defines something is shown by
smallest counterexample (`SmallestNumber`). `Paired` says of the context that
an output follows its call, and each call has exactly one output except while
its batch is executed; `Together` is the invariant of the selection: once an
output has been looked at, its call is in exactly when it is.

The second half of the module is about the searches of such a turn: the five
invariants of the run `KnowledgeSearch`, for any documents, contents, rounds of
calls and limits (`SearchTypeCorrect`, `CitedEvidenceWasShown`,
`SearchIsNeverStale`, `CitationsOpen`, `EvidenceKeepsItsSection`). They rest on
`SearchInv`. Of the index (`IndexInv`) it says that a live point is of the
version published last, that no point is live while points are replaced, and
that after each write a store holds the current chunks and no others: this is
why a search finds nothing that was replaced before it began (`FoundSince`),
and why a citation of what the document still holds opens. Of the turn
(`TurnInv`) it says that a call under way has found only chunks published since
it began, that all it offers as evidence has been shown under the reference it
names (`Citable`), that a reference is its place among the references and is
given once (`Referenced`, `OneEach`), and that what was shown is a chunk of a
version the document has had (`ChunksShown`). `Viewed` is what a view that no
run has overtaken shows between its two reads. The loops of the code are
functions over `0..Len(s)`: `LoopExists` shows by smallest counterexample that
such a function is defined, `LoopStays` that what holds before a loop and after
each step holds at its end; the type of every fold, the growth of the reference
table (`Extends`) and the budget follow. That a chunk has one section depends
on the whole way from parts to chunks: a document built from parts is
`Sectioned`, that is, the stack of open headings at each part spells its section
path; an item's headings are determined by the items before it, so what Docling
computes is that stack; a chunk before merging is of one item; and peers merge
only when their headings are equal, which keeps the chunk `OfOneSection`. TLC
has checked `SearchInv` on the instance of the run `KnowledgeSearch`.

**`CollectionAccessProofs`.** `TypeCorrect` and `DecisionsHold`
(`GrantsFollowDecision`) rest on `IInv`, for any number of requests at once:
what a request has read is of its type (`Typed`), and a row that somebody
decides is pending and decided by nobody else (`Locked`), so that the role a
decision writes and the status it writes belong together.
`AccessStaysAgreed` (`AccessAgrees`) holds for any tree, groups, grants and
rights of tenant scope. `Placed` says what the handlers and triggers keep of
the tree: parents are collections, documents have one and inherit, roles are
granted on collections. Climbing, descending and the listing of the catalogue
are steps that only add elements, repeated as often as there are items:
`RepeatedExists` shows that such a repetition is defined, `RepeatedCloses` that
it ends in the smallest set the step adds nothing to (a step that is not the
last one adds an element, and there are no more than there are items). By
this minimality a collection outside the listing has only such above it, and
one in it has a grant above it (`Reached`). Nothing in the proof supposes that
the tree has no cycles.

**`SandboxProofs`.** For any requests, threads and documents. `TypeCorrect`
bounds every number a thread, a request or a row holds by the length of what it
numbers. `OneSession` (`OneActiveSession`): `Locked` says that a thread is at
"ensuring" exactly when it holds the lock of the conversation, and that there
is no active session if it has found none. `SavedIsKept` (`SavedStaysSaved`):
`Written` says that a thread about to commit holds the lock of its document, has
the next number, and that the object of that number is its own; `Told` that
every committed revision has its object and was said to be saved.

**`IntegrationConnectionProofs`.** `TypeCorrect` holds for overlapping requests;
that a new connection finds a free name is the pigeonhole principle (as many
numbers as there are connections, the new one among them).
`ConnectedStaysWorking` (`ConnectedWorks`) and `DeletedStaysForgotten`
(`DeletedIsForgotten`) assume `OneRequest`, beside any number of runs; with two
requests they fail (section 6). `Stays` says that what a request found out about
its connection before it awaited the provider is still so when it goes on;
`Works` that a connection which may be used has a secret, if it needs one, and
leaves no source waiting. A run changes no status and stores what it rotated
only while the connection is live and its row not locked, so it disturbs neither.

**`ConnectorSyncProofs`.** `TypeCorrect` holds for any number of slots.
`CheckpointStaysCovered` (`CheckpointCoversUpdates`) and `ListedStaysIndexed`
(`ListedIsIndexed`) are about behaviours with `[]OneAttempt`: slots may be
many and attempts move between them, but an attempt that was given up has
stopped before its successor begins. Without this they fail (section 15).
What is committed is safe (`Covers`) because of what an attempt knows at each
step (`Attempt`): the checkpoint is still the one it started from, or of no
use, and nothing it touches is behind it (`Ahead`, `FromCovered`); of the
documents below the next checkpoint each is still to be written, was read, or
is indexed (`Found`); what was read is current (`Fresh`) and, once written,
indexed unless the run has failed (`Written`, `Progress`); and no deletion is
of a document that stands (`DeletesGone`). TLC has checked this invariant on
the instance of the run `ConnectorSync`.

## 15. Promises the code does not keep

These are stated in the modules and fail; the instance that shows it is given.
No run lists them. To see a counterexample, name the definition in the
configuration of the module's run.

| Definition | Where | What happens |
|---|---|---|
| `RemovedIsUnsearchable` (`NativeUpload`) | `services/item_ingestion.py:184` | With a request in `Catalog` and one worker: `remove_item` takes no advisory lock, so an attempt past its check upserts live points after the tombstone. `RemovedIsGone`, `ReadyIsIndexed` and `ImplementsSearchableDocument` fail on the same instance. `docs/connectors-and-indexing.md:102` says "Deleted Items are tombstoned; normal reads exclude tombstones." |
| `AvailableStaysAvailable` (`NativeUpload`) | `services/item.py:650` | With two requests: a failure decided on rows read without a lock undoes a finalization. `src/backend/docs_design/document_contract.md:153` has no such transition. |
| `ContentIsBound` (`NativeUpload`) | `services/document_upload.py:182` | With two requests and two contents: a different file of the same name, size and type under the same key replaces the object, where `document_contract.md:164` promises a 409. |
| `DeletedIsUnsearchable` (`ConnectorSync`) | `services/item_ingestion.py:282` | The row of a deleted document is committed first; when the tombstone fails, the retry finds the row deleted and returns. |
| `CheckpointCoversDeletions` (`ConnectorSync`) | `connector/google_drive/connector.py:178` | What was removed while a page token expired is named by no change any more. |
| `CheckpointIsOfScope` (`ConnectorSync`, `Connectors <- RescopedCrawl`) | `services/workflow/ingestion_activity.py:261` | A run of the old scope overwrites the reset checkpoint of the new one. |
| `CheckpointCoversUpdates` with two slots (`ConnectorSync`) | `services/workflow/service.py:221` | A cancelled attempt runs on beside the next one and overwrites the index with what it fetched before. |
| `RotatedGrantIsKept` (`IntegrationConnection`) | `services/workflow/ingestion_activity.py:133` | The runtime of a run is built in a session that is never committed, so a refresh token rotated there is lost; the comment at line 176 says that it must be persisted. |
| `TenantKeepsAdministrator` with `Tenants = {t1, t2}` (`Governance`) | `services/identity_access/users.py:282` | `users.status` is shared by all workspaces of an account; suspending an account leaves the other workspace without an administrator. |
| `OneCollectionRole` (`CollectionAccess`) | `services/identity_access/role_assignments.py` | Two shares of different roles with one person at once both stay live, against "One Collection role per principal". One request after another is enough in a personal collection: its owner opens it, is made a viewer, and opens it again (`ensure_personal_collection`, `services/item.py`). |
| `GuestConversationsFollow` (`AccessSession`) | `services/conversation.py` | A conversation begun by a request that was resolved before its guest signed in is handed to nobody; `docs/data.schema.md:13` says it is assigned to the user. |
| `StoredAnswerIsAnswer` (`AgentTurn`) | `services/chat.py` | The answer is taken from a completed response before `run_turn` rejects a tool payload written as text, of which `agent/tools/core/registry.py:67` says "Such text is an internal command, never a user answer." |
| `LatestOutputRetained` (`AgentTurn`) | `agent/context_manager.py` | The latest output is dropped when it alone exceeds the budget, as an image may. |
| `MaterializedIsGiven` (`Sandbox`) | `services/agent_runtime/sandbox_workspace.py` | A file recovered into a session whose environment was started without it is recorded as prepared. |
| `OneDocumentPerName` (`Sandbox`, two documents) | `services/artifact.py:157` | Two exports under one name both find none and create two. |
| `TerminalHoldsAnswer` (`ResponseStream`) | `tui/state.py:236` | The terminal client takes item events by a response ID that no item event carries, and never holds an answer. |

Further, in the models without a statement: a transient storage error during
canonicalization ends an indexing workflow as if the content were malformed
(`CanonicalizeFailed`); a `FileProcessingError` is retried although
`docs/temporal.md:39` calls deterministic validation failures non-retryable
(`Result`); any refusal of Atlassian's token endpoint counts as an ended
authorization (`RefreshReturns`); a tool that timed out may not be asked again
in its turn (`Admit`).

## 16. Only model-checked

The liveness properties (`EveryActorFinishes`, `WorkflowEnds`,
`EventuallyMirrored`, `TurnEnds`), which are beyond the prover. Every invariant
and every action property of the runs is proved. Where a theorem has a hypothesis
(`[]RemovalsApart`, `OneAtATime`, `OneWorkspace`, `OneRequest`, `[]OneAttempt`),
section 15 or the section of the module says what fails without it.

## 17. Not modelled

The parsing of files, embedding, fused ranking and the descriptions a model
writes for chunks (computations of libraries and services); audit and previews
(written, never read by what is modelled); dashboards, counts and the user
interface (no state of their own); wiring and settings; the pool of database
connections, whose exhaustion beside the advisory lock ends by a time-out;
the request and tool formats of model providers. The components of
`PROJECT.json` say of each part that is modelled in part what is left out.
