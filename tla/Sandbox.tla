------------------------------ MODULE Sandbox ------------------------------
(***************************************************************************)
(* The workspace of one conversation at a provider of hosted shells, and   *)
(* the documents that are exported from it: sandbox sessions, what is      *)
(* uploaded into them, the environments the provider starts and loses, and *)
(* the artifacts with their revisions.                                     *)
(*                                                                         *)
(* services/agent_runtime/sandbox_workspace.py, services/sandbox_session.py*)
(* and services/artifact.py.  A request answers one question; it keeps its *)
(* own view of the session, shared by the tool calls that it runs at the   *)
(* same time.  The provider is the environment; a container it has given   *)
(* up is one whose every use fails.  All exported files have one name.     *)
(***************************************************************************)
EXTENDS Naturals, Sequences, FiniteSets, FiniteSetsExt

CONSTANTS
    Requests, Threads,      \* a thread runs one tool call or sample at a time
    Resources,              \* documents a request may materialize
    None,
    MaxSessions, MaxEnvironments, MaxFiles, MaxDocuments, MaxRevisions   \* bounds

ASSUME NoneAssumption == None \notin Threads

ASSUME BoundsAssumption ==
    /\ {MaxSessions, MaxEnvironments, MaxFiles, MaxDocuments} \subseteq Nat
    /\ MaxRevisions \in Nat \ {0}

VARIABLES
    requestOf,      \* the request of each thread
    pc, kind,       \* where a thread is, and in what
    loc,            \* its local variables
    cache,          \* _state of a request
    recovery,       \* _recovery of a request
    sessions,       \* sandbox_sessions of the conversation
    conversationLock,
    environments,   \* at the provider: what each was given
    files,          \* written in them: the environment of each
    documents,      \* artifacts: the files of their revisions
    objects,        \* object storage, by document and revision
    documentLock,   \* the thread that has the row of a document
    published,      \* documents of a Collection, by the revision they copy
    saved           \* what the user was told is saved: a history variable

vars == <<requestOf, pc, kind, loc, cache, recovery, sessions, conversationLock, environments,
          files, documents, objects, documentLock, published, saved>>
thread == <<pc, kind, loc>>
provider == <<environments, files>>
artifacts == <<documents, objects, documentLock, published>>

(* A document of the manifest is a resource or the number of an artifact.  *)
Docs == Resources \cup 1..MaxDocuments
Revisions == (1..MaxDocuments) \X (1..MaxRevisions)
Request(t) == requestOf[t]

NoCall == [doc |-> None, session |-> 0, env |-> 0, file |-> 0, target |-> 0, revision |-> 0, todo |-> {}]

(* SandboxSessionState: what a request knows of the session.               *)
Snapshot == [loaded : BOOLEAN, id : 0..MaxSessions, materialized : SUBSET Docs,
             env : 0..MaxEnvironments, observed : 0..MaxFiles]
NoState == [loaded |-> TRUE, id |-> 0, materialized |-> {}, env |-> 0, observed |-> 0]
Unloaded == [NoState EXCEPT !.loaded = FALSE]
State(ss, k) ==
    IF k = 0 THEN NoState
    ELSE [loaded |-> TRUE, id |-> k, materialized |-> ss[k].materialized,
          env |-> ss[k].env, observed |-> ss[k].observed]

Session == [status : {"active", "expired"}, manifest : SUBSET Docs, materialized : SUBSET Docs,
            env : 0..MaxEnvironments, observed : 0..MaxFiles]

TypeOK ==
    /\ requestOf \in [Threads -> Requests]
    /\ pc \in [Threads -> {"idle", "configured", "ensure", "ensuring", "record", "recover",
                           "recovering", "upload", "download", "expire", "lookup",
                           "save", "commit", "list", "publish"}]
    /\ kind \in [Threads -> {"sample", "materialize", "promote", "publish"}]
    /\ \A t \in Threads : loc[t] \in
          [doc : Docs \cup {None}, session : 0..MaxSessions, env : 0..MaxEnvironments,
           file : 0..MaxFiles, target : 0..MaxDocuments, revision : 0..MaxRevisions, todo : SUBSET Docs]
    /\ cache \in [Requests -> Snapshot]
    /\ \A r \in Requests : recovery[r] \in [loaded : BOOLEAN, manifest : SUBSET Docs]
    /\ sessions \in Seq(Session) /\ Len(sessions) <= MaxSessions
    /\ conversationLock \in Threads \cup {None}
    /\ environments \in Seq(SUBSET Docs)
    /\ files \in Seq(DOMAIN environments)
    /\ documents \in Seq(Seq(DOMAIN files))
    /\ objects \in [Revisions -> 0..MaxFiles] /\ published \in [Revisions -> 0..MaxFiles]
    /\ documentLock \in [1..MaxDocuments -> Threads \cup {None}]
    /\ saved \subseteq (DOMAIN documents) \X (1..MaxRevisions) \X (DOMAIN files)

Init ==
    /\ requestOf \in [Threads -> Requests]
    /\ pc = [t \in Threads |-> "idle"] /\ kind = [t \in Threads |-> "sample"]
    /\ loc = [t \in Threads |-> NoCall]
    /\ cache = [r \in Requests |-> Unloaded]
    /\ recovery = [r \in Requests |-> [loaded |-> FALSE, manifest |-> {}]]
    /\ sessions = <<>> /\ conversationLock = None
    /\ environments = <<>> /\ files = <<>>
    /\ documents = <<>> /\ objects = [o \in Revisions |-> 0] /\ published = objects
    /\ documentLock = [k \in 1..MaxDocuments |-> None]
    /\ saved = {}

-----------------------------------------------------------------------------
(* Threads *)

Peers(t) == {u \in Threads \ {t} : Request(u) = Request(t)}
Goto(t, label) == pc' = [pc EXCEPT ![t] = label]

(* The call has its result, good or bad.                                   *)
Finish(t) ==
    /\ Goto(t, "idle")
    /\ kind' = [kind EXCEPT ![t] = "sample"] /\ loc' = [loc EXCEPT ![t] = NoCall]

(* The request is over; the next one starts with nothing loaded.           *)
Forget(r) ==
    /\ cache' = [cache EXCEPT ![r] = Unloaded]
    /\ recovery' = [recovery EXCEPT ![r] = [loaded |-> FALSE, manifest |-> {}]]

EndRequest(r) ==
    /\ \A t \in Threads : Request(t) = r => pc[t] = "idle"
    /\ cache[r].loaded
    /\ Forget(r)
    /\ UNCHANGED <<requestOf, thread, sessions, conversationLock, provider, artifacts, saved>>

-----------------------------------------------------------------------------
(* The session *)

ActiveSessions == {k \in DOMAIN sessions : sessions[k].status = "active"}
Newest(ks) == IF ks = {} THEN 0 ELSE Max(ks)

(* _current_state: the row is read once in a request.                      *)
CurrentState(t) ==
    cache' = IF cache[Request(t)].loaded THEN cache
             ELSE [cache EXCEPT ![Request(t)] = State(sessions, Newest(ActiveSessions))]

(* Sampling alternates with the tool calls of a request, which run at once.*)
Begin(t, k) ==
    /\ pc[t] = "idle"
    /\ \A u \in Peers(t) : pc[u] # "idle" => k # "sample" /\ kind[u] # "sample"
    /\ kind' = [kind EXCEPT ![t] = k]
    /\ CurrentState(t)

StartSample(t) ==
    /\ Begin(t, "sample")
    /\ Goto(t, "configured")
    /\ UNCHANGED <<requestOf, loc, recovery, sessions, conversationLock, provider, artifacts, saved>>

StartMaterialize(t) ==
    /\ Begin(t, "materialize")
    /\ \E d \in Resources : loc' = [loc EXCEPT ![t].doc = d]
    /\ Goto(t, "ensure")
    /\ UNCHANGED <<requestOf, recovery, sessions, conversationLock, provider, artifacts, saved>>

(* promote_file: refused without a running environment and a file.         *)
StartPromote(t) ==
    /\ Begin(t, "promote")
    /\ LET state == cache'[Request(t)] IN
       /\ state.env # 0 /\ state.observed # 0
       /\ loc' = [loc EXCEPT ![t].session = state.id, ![t].env = state.env,
                             ![t].file = state.observed]
    /\ Goto(t, "download")
    /\ UNCHANGED <<requestOf, recovery, sessions, conversationLock, provider, artifacts, saved>>

AfterEnsure(t) == IF kind[t] = "sample" THEN "record" ELSE "recover"

(* A mistake to be caught: the conversation is not locked.                 *)
EnsureUnlocked(t) ==
    /\ pc[t] = "ensure" /\ cache[Request(t)].id = 0
    /\ loc' = [loc EXCEPT ![t].session = Newest(ActiveSessions)]
    /\ Goto(t, "ensuring")
    /\ UNCHANGED <<requestOf, kind, cache, recovery, sessions, conversationLock, provider, artifacts, saved>>

(* ensure, under the lock of the conversation.                             *)
Ensure(t) ==
    /\ pc[t] = "ensure" /\ cache[Request(t)].id = 0
    /\ conversationLock = None /\ conversationLock' = t
    /\ loc' = [loc EXCEPT ![t].session = Newest(ActiveSessions)]
    /\ Goto(t, "ensuring")
    /\ UNCHANGED <<requestOf, kind, cache, recovery, sessions, provider, artifacts, saved>>

CreateSession(t) ==
    /\ pc[t] = "ensuring"
    /\ sessions' = IF loc[t].session # 0 THEN sessions
                   ELSE Append(sessions, [status |-> "active", manifest |-> {}, materialized |-> {},
                                          env |-> 0, observed |-> 0])
    /\ Len(sessions') <= MaxSessions
    /\ cache' = [cache EXCEPT ![Request(t)] =
                    State(sessions', IF loc[t].session # 0 THEN loc[t].session ELSE Len(sessions'))]
    /\ conversationLock' = IF conversationLock = t THEN None ELSE conversationLock
    /\ Goto(t, AfterEnsure(t))
    /\ UNCHANGED <<requestOf, kind, loc, recovery, provider, artifacts, saved>>

HasSession(t) ==
    /\ pc[t] = "ensure" /\ cache[Request(t)].id # 0
    /\ Goto(t, AfterEnsure(t))
    /\ UNCHANGED <<requestOf, kind, loc, cache, recovery, sessions, conversationLock, provider, artifacts, saved>>

-----------------------------------------------------------------------------
(* Sampling with a hosted shell *)

Abort(t) ==
    /\ Finish(t)
    /\ Forget(Request(t))

(* configure_execution gives the provider the environment to resume, or    *)
(* the files a new one starts with; the shell may write a file, or the     *)
(* model may not use it.                                                   *)
Execute(t) ==
    /\ pc[t] = "configured"
    /\ LET state == cache[Request(t)]
           env == IF state.env # 0 THEN state.env ELSE Len(environments) + 1
       IN  /\ environments' = IF state.env # 0 THEN environments
                              ELSE Append(environments, state.materialized)
           /\ files' \in {files, Append(files, env)}
           /\ Len(environments') <= MaxEnvironments /\ Len(files') <= MaxFiles
           /\ loc' = [loc EXCEPT ![t].env = env,
                                 ![t].file = IF files' = files THEN 0 ELSE Len(files')]
    /\ Goto(t, "ensure")
    /\ UNCHANGED <<requestOf, kind, cache, recovery, sessions, conversationLock, artifacts, saved>>

NoShell(t) ==
    /\ pc[t] = "configured"
    /\ Finish(t)
    /\ UNCHANGED <<requestOf, cache, recovery, sessions, conversationLock, provider, artifacts, saved>>

(* The environment is gone and the turn fails, or the client leaves before *)
(* what the shell did is observed.                                         *)
SampleFails(t) ==
    /\ kind[t] = "sample" /\ pc[t] \in {"configured", "ensure"}
    /\ Abort(t)
    /\ UNCHANGED <<requestOf, sessions, conversationLock, provider, artifacts, saved>>

(* observe_execution and record_execution: the reported file comes before  *)
(* those of its name that were reported earlier.                           *)
RecordExecution(t) ==
    /\ pc[t] = "record"
    /\ LET state == cache[Request(t)] IN
       /\ sessions[state.id].status = "active"
       /\ sessions' = [sessions EXCEPT ![state.id] =
             [@ EXCEPT !.env = loc[t].env, !.observed = IF loc[t].file # 0 THEN loc[t].file ELSE state.observed]]
       /\ cache' = [cache EXCEPT ![Request(t)] = State(sessions', state.id)]
    /\ Finish(t)
    /\ UNCHANGED <<requestOf, recovery, conversationLock, provider, artifacts, saved>>

(* Another request expired the session: the error ends this one.           *)
RecordFails(t) ==
    /\ pc[t] = "record" /\ sessions[cache[Request(t)].id].status # "active"
    /\ Abort(t)
    /\ UNCHANGED <<requestOf, sessions, conversationLock, provider, artifacts, saved>>

-----------------------------------------------------------------------------
(* Materialization *)

(* _recover_if_needed: the manifest of the session that expired last is    *)
(* read once in a request.                                                 *)
LoadRecovery(t) ==
    /\ pc[t] = "recover"
    /\ LET r == Request(t)
           expired == Newest(DOMAIN sessions \ ActiveSessions)
           manifest == IF recovery[r].loaded THEN recovery[r].manifest
                       ELSE IF expired = 0 THEN {} ELSE sessions[expired].manifest
       IN  /\ recovery' = [recovery EXCEPT ![r] = [loaded |-> TRUE, manifest |-> manifest]]
           /\ loc' = [loc EXCEPT ![t].todo = manifest]
    /\ Goto(t, "recovering")
    /\ UNCHANGED <<requestOf, kind, cache, sessions, conversationLock, provider, artifacts, saved>>

(* What is to be uploaded next: of the manifest first, then the document   *)
(* itself, unless it is there already or the environment runs.             *)
Recover(t) ==
    /\ pc[t] = "recovering" /\ cache[Request(t)].id # 0
    /\ ~(loc[t].todo \subseteq cache[Request(t)].materialized)
    /\ loc' = [loc EXCEPT ![t].session = cache[Request(t)].id]
    /\ Goto(t, "upload")
    /\ UNCHANGED <<requestOf, kind, cache, recovery, sessions, conversationLock, provider, artifacts, saved>>

Recovered(t) ==
    /\ pc[t] = "recovering"
    /\ LET r == Request(t)
           state == cache[r] IN
       /\ state.id # 0 /\ loc[t].todo \subseteq state.materialized
       /\ recovery' = [recovery EXCEPT ![r].manifest = {}]
       /\ IF loc[t].doc \in state.materialized \/ state.env # 0
          THEN Finish(t)
          ELSE /\ loc' = [loc EXCEPT ![t].session = state.id, ![t].todo = {}]
               /\ Goto(t, "upload")
               /\ UNCHANGED kind
    /\ UNCHANGED <<requestOf, cache, sessions, conversationLock, provider, artifacts, saved>>

(* Another call of the request has expired the session meanwhile.          *)
StateLost(t) ==
    /\ pc[t] = "recovering" /\ cache[Request(t)].id = 0
    /\ Goto(t, "ensure")
    /\ UNCHANGED <<requestOf, kind, loc, cache, recovery, sessions, conversationLock, provider, artifacts, saved>>

Given(row, d) == [row EXCEPT !.manifest = @ \cup {d}, !.materialized = @ \cup {d}]

(* _materialize and record_materialization: nothing looks at the           *)
(* environment again.                                                      *)
Materialize(t) ==
    /\ pc[t] = "upload" /\ sessions[loc[t].session].status = "active"
    /\ LET r == Request(t)
           k == loc[t].session
           recovering == loc[t].todo # {}
       IN  \E d \in (IF recovering THEN loc[t].todo \ cache[r].materialized ELSE {loc[t].doc}) :
             /\ sessions' = [sessions EXCEPT ![k] = Given(@, d)]
             /\ cache' = [cache EXCEPT ![r] = State(sessions', k)]
             /\ IF recovering
                THEN Goto(t, "recovering") /\ UNCHANGED <<kind, loc>>
                ELSE Finish(t)
    /\ UNCHANGED <<requestOf, recovery, conversationLock, provider, artifacts, saved>>

(* The source or the upload fails, or the session has expired.             *)
MaterializeFails(t) ==
    /\ pc[t] = "upload"
    /\ Finish(t)
    /\ UNCHANGED <<requestOf, cache, recovery, sessions, conversationLock, provider, artifacts, saved>>

-----------------------------------------------------------------------------
(* Promotion *)

Download(t) ==
    /\ pc[t] = "download"
    /\ files[loc[t].file] = loc[t].env
    /\ Goto(t, "lookup")
    /\ UNCHANGED <<requestOf, kind, loc, cache, recovery, sessions, conversationLock, provider, artifacts, saved>>

DownloadFails(t) ==
    /\ pc[t] = "download"
    /\ Goto(t, "expire")
    /\ UNCHANGED <<requestOf, kind, loc, cache, recovery, sessions, conversationLock, provider, artifacts, saved>>

(* A mistake to be caught: a status that nothing reads.                    *)
ExpireClosed(t) ==
    /\ pc[t] = "expire" /\ sessions[loc[t].session].status = "active"
    /\ sessions' = [sessions EXCEPT ![loc[t].session].status = "closed"]
    /\ cache' = [cache EXCEPT ![Request(t)] = NoState]
    /\ Finish(t)
    /\ UNCHANGED <<requestOf, recovery, conversationLock, provider, artifacts, saved>>

(* Whatever the download failed with, the session is given up.             *)
Expire(t) ==
    /\ pc[t] = "expire" /\ sessions[loc[t].session].status = "active"
    /\ sessions' = [sessions EXCEPT ![loc[t].session].status = "expired"]
    /\ cache' = [cache EXCEPT ![Request(t)] = NoState]
    /\ Finish(t)
    /\ UNCHANGED <<requestOf, recovery, conversationLock, provider, artifacts, saved>>

ExpireFails(t) ==
    /\ pc[t] = "expire" /\ sessions[loc[t].session].status # "active"
    /\ Finish(t)
    /\ UNCHANGED <<requestOf, cache, recovery, sessions, conversationLock, provider, artifacts, saved>>

(* record_generated looks for the document of this name in a transaction   *)
(* of its own.                                                             *)
Lookup(t) ==
    /\ pc[t] = "lookup"
    /\ loc' = [loc EXCEPT ![t].target = IF documents = <<>> THEN 0 ELSE 1]
    /\ Goto(t, "save")
    /\ UNCHANGED <<requestOf, kind, cache, recovery, sessions, conversationLock, provider, artifacts, saved>>

CreateDocument(t) ==
    /\ pc[t] = "save" /\ loc[t].target = 0
    /\ Len(documents) < MaxDocuments
    /\ documents' = Append(documents, <<loc[t].file>>)
    /\ objects' = [objects EXCEPT ![<<Len(documents'), 1>>] = loc[t].file]
    /\ saved' = saved \cup {<<Len(documents'), 1, loc[t].file>>}
    /\ loc' = [loc EXCEPT ![t].target = Len(documents')]
    /\ Goto(t, "list")
    /\ UNCHANGED <<requestOf, kind, cache, recovery, sessions, conversationLock, provider, documentLock, published>>

(* A mistake to be caught: the document is read without its lock.          *)
AddRevisionUnlocked(t) ==
    /\ pc[t] = "save" /\ loc[t].target # 0
    /\ LET k == loc[t].target
           n == Len(documents[k]) + 1
       IN  /\ n <= MaxRevisions
           /\ objects' = [objects EXCEPT ![<<k, n>>] = loc[t].file]
           /\ loc' = [loc EXCEPT ![t].revision = n]
    /\ Goto(t, "commit")
    /\ UNCHANGED <<requestOf, kind, cache, recovery, sessions, conversationLock, provider, documents, documentLock, published, saved>>

(* _add_revision: with the row locked, the object of the next revision is  *)
(* written, and then the rows.                                             *)
AddRevision(t) ==
    /\ pc[t] = "save" /\ loc[t].target # 0
    /\ LET k == loc[t].target
           n == Len(documents[k]) + 1
       IN  /\ documentLock[k] = None /\ documentLock' = [documentLock EXCEPT ![k] = t]
           /\ n <= MaxRevisions
           /\ objects' = [objects EXCEPT ![<<k, n>>] = loc[t].file]
           /\ loc' = [loc EXCEPT ![t].revision = n]
    /\ Goto(t, "commit")
    /\ UNCHANGED <<requestOf, kind, cache, recovery, sessions, conversationLock, provider, documents, published, saved>>

Release(t) == documentLock' = [k \in DOMAIN documentLock |->
                                 IF documentLock[k] = t THEN None ELSE documentLock[k]]

CommitRevision(t) ==
    /\ pc[t] = "commit"
    /\ LET k == loc[t].target
           n == Len(documents[k]) + 1
       IN  /\ loc[t].revision = n
           /\ documents' = [documents EXCEPT ![k] = Append(@, loc[t].file)]
           /\ saved' = saved \cup {<<k, n, loc[t].file>>}
    /\ Release(t)
    /\ Goto(t, "list")
    /\ UNCHANGED <<requestOf, kind, loc, cache, recovery, sessions, conversationLock, provider, objects, published>>

(* The document was deleted meanwhile, or a write fails: what is written   *)
(* to object storage stays there.                                          *)
SaveFails(t) ==
    /\ pc[t] \in {"save", "commit", "publish"}
    /\ Release(t)
    /\ Finish(t)
    /\ UNCHANGED <<requestOf, cache, recovery, sessions, conversationLock, provider, documents, objects, published, saved>>

(* record_resource: the document belongs to the manifest from now on.      *)
RecordResource(t) ==
    /\ pc[t] = "list"
    /\ LET k == loc[t].session IN
       IF sessions[k].status = "active"
       THEN /\ sessions' = [sessions EXCEPT ![k].manifest = @ \cup {loc[t].target}]
            /\ cache' = [cache EXCEPT ![Request(t)] = State(sessions', k)]
       ELSE UNCHANGED <<sessions, cache>>
    /\ Finish(t)
    /\ UNCHANGED <<requestOf, recovery, conversationLock, provider, artifacts, saved>>

-----------------------------------------------------------------------------
(* Publishing, by the person and not by the agent *)

(* _load: the revision that is current now.                                *)
StartPublish(t) ==
    /\ pc[t] = "idle"
    /\ kind' = [kind EXCEPT ![t] = "publish"]
    /\ \E k \in DOMAIN documents :
         loc' = [loc EXCEPT ![t].target = k, ![t].revision = Len(documents[k])]
    /\ Goto(t, "publish")
    /\ UNCHANGED <<requestOf, cache, recovery, sessions, conversationLock, provider, artifacts, saved>>

(* publish: its object is read and uploaded under a key that names the     *)
(* revision, so that the second time finds the first one's document.       *)
Publish(t) ==
    /\ pc[t] = "publish"
    /\ LET key == <<loc[t].target, loc[t].revision>> IN
       published' = IF published[key] # 0 THEN published
                    ELSE [published EXCEPT ![key] = objects[key]]
    /\ Finish(t)
    /\ UNCHANGED <<requestOf, cache, recovery, sessions, conversationLock, provider,
                   documents, objects, documentLock, saved>>

-----------------------------------------------------------------------------
ThreadStep(t) ==
    \/ StartSample(t) \/ StartMaterialize(t) \/ StartPromote(t)
    \/ Ensure(t) \/ CreateSession(t) \/ HasSession(t)
    \/ Execute(t) \/ NoShell(t) \/ SampleFails(t) \/ RecordExecution(t) \/ RecordFails(t)
    \/ LoadRecovery(t) \/ Recover(t) \/ Recovered(t) \/ StateLost(t) \/ Materialize(t) \/ MaterializeFails(t)
    \/ Download(t) \/ DownloadFails(t) \/ Expire(t) \/ ExpireFails(t)
    \/ Lookup(t) \/ CreateDocument(t) \/ AddRevision(t) \/ CommitRevision(t) \/ SaveFails(t)
    \/ RecordResource(t) \/ StartPublish(t) \/ Publish(t)

Next ==
    \/ \E t \in Threads : ThreadStep(t)
    \/ \E r \in Requests : EndRequest(r)

Spec == Init /\ [][Next]_vars

-----------------------------------------------------------------------------
(* However many requests and calls need one at the same time, the          *)
(* conversation has one active session: another would hide the files of    *)
(* the first.                                                              *)
OneActiveSession == Cardinality(ActiveSessions) <= 1

(* A revision that the user was told is saved keeps its content, whatever  *)
(* is exported later, or fails half way, and a revision that is published  *)
(* is published with that content.  ArtifactRevision: "an edit never       *)
(* overwrites the previous file".                                          *)
SavedStaysSaved ==
    /\ \A s \in saved : /\ objects[<<s[1], s[2]>>] = s[3]
                        /\ documents[s[1]][s[2]] = s[3]
    /\ \A r \in Revisions : published[r] # 0 => <<r[1], r[2], published[r]>> \in saved

(* The environment that runs was given all that is recorded as             *)
(* materialized, which the tool calls prepared for the shell.              *)
(* materialize_resource: "Upload one authorized Item before the first      *)
(* provider shell starts."                                                 *)
MaterializedIsGiven ==
    \A k \in DOMAIN sessions : LET e == sessions[k].env IN
        e # 0 => sessions[k].materialized \subseteq environments[e]

(* record_generated: "A conversation keeps one document per file name".    *)
OneDocumentPerName == Len(documents) <= 1
=============================================================================
