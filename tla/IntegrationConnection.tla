------------------------- MODULE IntegrationConnection -------------------------
(***************************************************************************)
(* The connections of one workspace: the authorization of an external      *)
(* account (start, consent, callback), the stored and refreshed secret,    *)
(* the health a failed attempt records, disconnection and deletion, the    *)
(* ingestion sources built on a connection with their Temporal schedules,  *)
(* and the ingestion runs that use and rotate the same secret.             *)
(*                                                                         *)
(* A unit of work of the database is one step, except where it awaits the  *)
(* provider: there it has loaded rows, may hold a refreshed secret that is *)
(* flushed and not committed, and others run.  What it wrote is lost when  *)
(* the attempt fails.                                                      *)
(***************************************************************************)
EXTENDS Naturals, FiniteSets

CONSTANTS
    Connections,   \* rows of integration_connections
    Sources,       \* rows of ingestion_sources
    Accounts,      \* accounts of the provider
    Persons,       \* members of the workspace
    Requests,      \* requests in flight
    Runs,          \* ingestion runs in flight
    MaxGrants,     \* bound: secrets the provider issues
    None

ASSUME NoneIsNew ==
    None \notin Connections \cup Sources \cup Accounts \cup Persons
ASSUME MaxGrantsIsPositive == MaxGrants \in Nat \ {0}

VARIABLES
    managers,      \* who holds source.manage
    conn,          \* integration_connections
    secret,        \* integration_credentials: the decryptable grant, if any
    source,        \* ingestion_sources
    schedule,      \* the Temporal schedule of each source
    valid,         \* the grants that work at the provider
    issued,        \* how many it has issued
    req,           \* requests
    run            \* ingestion runs

database == <<conn, secret, source>>
provider == <<valid, issued>>
vars == <<managers, database, schedule, provider, req, run>>

Needs == {"expired", "reauth_required", "disconnected"}
Statuses == Needs \cup {"draft", "connected", "error"}

\* A pasted API token belongs to no account.
Grant == [account : Accounts \cup {None}, id : 1..MaxGrants]

ASSUME NoneIsNoGrant == None \notin Grant
ASSUME ConnectionsAreFinite == IsFiniteSet(Connections)

\* The name of an authorized account, or a typed one, and a number after it.
Name == [base : Accounts \cup {None}, n : 1..Cardinality(Connections)]

\* keyless: of a connector that asks for no authentication, managed files.
Connection == [row : {"none", "live", "deleted"}, status : Statuses,
               account : Accounts \cup {None}, owner : Persons \cup {None},
               expiring : BOOLEAN, name : Name \cup {None}, keyless : BOOLEAN]
NoConnection == [row |-> "none", status |-> "draft", account |-> None, owner |-> None,
                 expiring |-> FALSE, name |-> None, keyless |-> FALSE]

SourceRow == [row : {"none", "live", "deleted"},
              status : {"ready", "paused", "connection_required", "disabled"},
              conn : Connections \cup {None}]
NoSource == [row |-> "none", status |-> "ready", conn |-> None]

Schedules == {"none", "active", "paused"}

Pending == [target : Connections \cup {None}, owner : Persons \cup {None}]

Request == [pc : {"idle", "refresh", "probe", "health", "revoke", "exchange",
                  "record", "schedules", "put", "drop"},
            op : {"none", "validate", "list", "disconnect", "delete", "authorize"},
            who : Persons \cup {None}, conn : Connections \cup {None},
            seen : Statuses, grant : Grant \cup {None}, dirty : BOOLEAN,
            report : Statuses, pending : Pending \cup {None},
            sources : SUBSET Sources]
NoRequest == [pc |-> "idle", op |-> "none", who |-> None, conn |-> None,
              seen |-> "draft", grant |-> None, dirty |-> FALSE,
              report |-> "error", pending |-> None, sources |-> {}]

Run == [pc : {"idle", "refresh", "sync"}, source : Sources \cup {None},
        grant : Grant \cup {None}, rotated : BOOLEAN]
NoRun == [pc |-> "idle", source |-> None, grant |-> None, rotated |-> FALSE]

TypeOK ==
    /\ managers \subseteq Persons
    /\ conn \in [Connections -> Connection]
    /\ secret \in [Connections -> Grant \cup {None}]
    /\ source \in [Sources -> SourceRow]
    /\ schedule \in [Sources -> Schedules]
    /\ valid \subseteq Grant /\ issued \in 0..MaxGrants
    /\ req \in [Requests -> Request] /\ run \in [Runs -> Run]

Init ==
    /\ managers = Persons
    /\ conn = [c \in Connections |-> NoConnection]
    /\ secret = [c \in Connections |-> None]
    /\ source = [s \in Sources |-> NoSource]
    /\ schedule = [s \in Sources |-> "none"]
    /\ valid = {} /\ issued = 0
    /\ req = [r \in Requests |-> NoRequest] /\ run = [w \in Runs |-> NoRun]

-----------------------------------------------------------------------------

SourcesOf(c) == {s \in Sources : source[s].row = "live" /\ source[s].conn = c}

\* Shared connections are a source manager's, personal ones their owner's.
Visible(p, c) ==
    /\ conn[c].row = "live"
    /\ conn[c].owner = p \/ (conn[c].owner = None /\ p \in managers)

\* A row that another unit of work has flushed and not committed.
Locked(c) == \E r \in Requests : req[r].dirty /\ req[r].conn = c

\* The first number that no live connection has after the same name.
Candidate(base) ==
    LET taken == {conn[c].name : c \in {d \in Connections : conn[d].row = "live"}}
        free == {n \in 1..Cardinality(Connections) : [base |-> base, n |-> n] \notin taken}
    IN  [base |-> base, n |-> CHOOSE n \in free : \A m \in free : n <= m]

\* The names are unique among all rows, and the deleted ones are still there.
NameConflict(name) == \E c \in Connections : conn[c].row = "deleted" /\ conn[c].name = name

\* A connection of the same connector, which is one that authorizes accounts.
ByAccount(account, owner) ==
    {c \in Connections : /\ conn[c].row = "live" /\ ~conn[c].keyless
                         /\ conn[c].account = account /\ conn[c].owner = owner}

\* The sources take over the status of their connection.
SuspendAs(c) ==
    [s \in Sources |-> IF s \in SourcesOf(c) THEN [source[s] EXCEPT !.status = conn[c].status]
                                            ELSE source[s]]

\* The connection is connected, and its sources wait on.
RestoreNone(c) == source

\* Only a source that is ready waits; only one that waits becomes ready.
Suspend(c) ==
    [s \in Sources |-> IF s \in SourcesOf(c) /\ source[s].status = "ready"
                         THEN [source[s] EXCEPT !.status = "connection_required"]
                         ELSE source[s]]
Restore(c) ==
    [s \in Sources |-> IF s \in SourcesOf(c) /\ source[s].status = "connection_required"
                         THEN [source[s] EXCEPT !.status = "ready"]
                         ELSE source[s]]

\* The row of a cleared credential stays and decrypts to nothing.
Store(c, grant) == secret' = [secret EXCEPT ![c] = grant]
Clear(c) == secret' = [secret EXCEPT ![c] = None]

Release(r) == req' = [req EXCEPT ![r] = NoRequest]

(***************************************************************************)
(* The provider and the people.                                            *)
(***************************************************************************)

\* A consent without a refresh token is no grant.
NewGrant(account, grant) ==
    /\ issued < MaxGrants
    /\ grant = [account |-> account, id |-> issued + 1]
    /\ issued' = issued + 1

\* Google answers with a new access token, for most clients of the same grant.
RefreshGoogle(old, new) == old \in valid /\ new = old /\ UNCHANGED provider

\* Atlassian replaces the refresh token and ends the old one.
RefreshAtlassian(old, new) ==
    /\ old \in valid
    /\ NewGrant(old.account, new)
    /\ valid' = (valid \ {old}) \cup {new}

Refresh(old, new) == RefreshGoogle(old, new) \/ RefreshAtlassian(old, new)

\* The pages of the picker: refused with 401 or 403, a working grant that is
\* asked too often included; anything else that fails is an outage.
ListResources(grant) ==
    {"reauth_required", "error"} \cup (IF grant \in valid THEN {"connected"} ELSE {})

\* test_connection of the runtime: all that it refuses is one failure.
TestConnection(grant) == {"error"} \cup (IF grant \in valid THEN {"connected"} ELSE {})

\* FileConnector makes its directory, whatever secret there is.
TestDirectory == {"connected", "error"}

Probe(op, grant) ==
    IF op = "list" THEN ListResources(grant)
    ELSE IF grant = None THEN TestDirectory
    ELSE TestConnection(grant)

\* Atlassian has no endpoint for it, and Google may not be reached.
Revoke(grant) == valid' \in {valid, valid \ {grant}}

ChangePermission(p) ==
    /\ managers' = IF p \in managers THEN managers \ {p} ELSE managers \cup {p}
    /\ UNCHANGED <<database, schedule, provider, req, run>>

WithdrawGrants(account) ==
    /\ valid' = {g \in valid : g.account # account}
    /\ valid' # valid
    /\ UNCHANGED <<managers, database, schedule, issued, req, run>>

AccessTokenAges(c) ==
    /\ conn[c].account # None /\ secret[c] # None /\ ~conn[c].expiring
    /\ conn' = [conn EXCEPT ![c].expiring = TRUE]
    /\ UNCHANGED <<managers, secret, source, schedule, provider, req, run>>

(***************************************************************************)
(* Creating and updating with a pasted credential.                         *)
(***************************************************************************)

OwnerAllowed(p, owner) == owner = None => p \in managers

\* What is pasted works at the provider, or does not.
Paste(c) ==
    \E g \in Grant :
        /\ NewGrant(None, g) /\ valid' \in {valid, valid \cup {g}}
        /\ Store(c, g)

\* Only a connector that asks for no authentication can do without a secret.
CreateConnection(p, owner) ==
    /\ owner \in {None, p} /\ OwnerAllowed(p, owner)
    /\ ~NameConflict(Candidate(None))
    /\ \E c \in Connections, keyless \in BOOLEAN :
         /\ conn[c].row = "none"
         /\ conn' = [conn EXCEPT ![c] = [NoConnection EXCEPT !.row = "live",
                        !.owner = owner, !.name = Candidate(None), !.keyless = keyless]]
         /\ Paste(c) \/ (keyless /\ UNCHANGED <<secret, provider>>)
    /\ UNCHANGED <<managers, source, schedule, req, run>>

UpdateConnection(p, c) ==
    /\ Visible(p, c) /\ conn[c].account = None /\ ~Locked(c)
    /\ Paste(c)
    /\ conn' = [conn EXCEPT ![c].status = "draft"]
    /\ UNCHANGED <<managers, source, schedule, req, run>>

(***************************************************************************)
(* Authorizing an account.                                                 *)
(***************************************************************************)

\* start_authorization stores nothing and checks nothing: what was asked is
\* in the signed state of the browser's redirect.
Started(p) == [target : Connections \cup {None}, owner : {None, p}]

\* The callback brings the state back, at any time, or never.
CompleteAuthorization(r, p) ==
    /\ req[r].pc = "idle"
    /\ \E pending \in Started(p) :
         req' = [req EXCEPT ![r] = [NoRequest EXCEPT !.pc = "exchange",
                   !.op = "authorize", !.who = p, !.pending = pending]]
    /\ UNCHANGED <<managers, database, schedule, provider, run>>

\* The code of a callback is good for one exchange.
Exchange(r) ==
    /\ req[r].pc = "exchange"
    /\ \/ \E a \in Accounts, g \in Grant :
            /\ NewGrant(a, g) /\ valid' = valid \cup {g}
            /\ req' = [req EXCEPT ![r].pc = "record", ![r].grant = g]
       \/ Release(r) /\ UNCHANGED provider
    /\ UNCHANGED <<managers, database, schedule, run>>

\* The connection to reauthorize, the one of the account, or a new one.
Target(p, pending, account) ==
    IF pending.target # None THEN {pending.target}
    ELSE IF ByAccount(account, pending.owner) # {} THEN ByAccount(account, pending.owner)
    ELSE {c \in Connections : conn[c].row = "none"}

\* record_authorization, for the person as the database knows them now.
RecordAuthorization(r) ==
    /\ req[r].pc = "record"
    /\ LET p == req[r].who
           pending == req[r].pending
           account == req[r].grant.account
       IN  /\ OwnerAllowed(p, pending.owner)
           /\ \E c \in Target(p, pending, account) :
                /\ ~Locked(c)
                /\ \/ Visible(p, c)
                      /\ conn' = [conn EXCEPT ![c].account = account,
                                    ![c].status = "connected", ![c].expiring = FALSE]
                   \/ /\ conn[c].row = "none" /\ pending.target = None
                      /\ ~NameConflict(Candidate(account))
                      /\ conn' = [conn EXCEPT ![c] = [row |-> "live",
                             status |-> "connected", account |-> account,
                             owner |-> pending.owner, expiring |-> FALSE,
                             name |-> Candidate(account), keyless |-> FALSE]]
                /\ Store(c, req[r].grant)
                /\ source' = Restore(c)
    /\ Release(r)
    /\ UNCHANGED <<managers, schedule, provider, run>>

(***************************************************************************)
(* Using the stored secret: validation and the resource picker.            *)
(***************************************************************************)

\* _require_reauthorization and the other failures, for record_health.
Reports(r, status) ==
    req' = [req EXCEPT ![r] = [NoRequest EXCEPT !.pc = "health", !.report = status,
                                                !.conn = req[r].conn]]

\* _usable_credentials up to where the provider is called.  For a connector
\* that asks for no authentication it looks at neither status nor secret, and
\* no provider lists its resources.
UseCredentials(r, p, c, op) ==
    /\ req[r].pc = "idle" /\ Visible(p, c)
    /\ op \in {"validate", "list"}
    /\ op = "list" => conn[c].account # None /\ ~conn[c].keyless
    /\ LET begin == [NoRequest EXCEPT !.op = op, !.conn = c,
                        !.seen = conn[c].status, !.grant = secret[c]]
           fail(status) == [NoRequest EXCEPT !.pc = "health", !.conn = c, !.report = status]
       IN  req' = [req EXCEPT ![r] =
             IF conn[c].keyless THEN [begin EXCEPT !.pc = "probe", !.grant = None]
             ELSE IF conn[c].status \in Needs THEN fail("reauth_required")
             ELSE IF secret[c] = None
               THEN fail(IF conn[c].expiring THEN "expired" ELSE "reauth_required")
             ELSE [begin EXCEPT !.pc = IF conn[c].account # None /\ conn[c].expiring
                                         THEN "refresh" ELSE "probe"]]
    /\ UNCHANGED <<managers, database, schedule, provider, run>>

\* The refreshed secret is flushed, so its row is locked until the end.  Any
\* refusal, the provider being overloaded included, means an expired grant.
RefreshReturns(r) ==
    /\ req[r].pc = "refresh" /\ ~Locked(req[r].conn)
    /\ \/ \E new \in Grant :
            /\ Refresh(req[r].grant, new)
            /\ \/ req' = [req EXCEPT ![r].pc = "probe", ![r].grant = new, ![r].dirty = TRUE]
               \/ Reports(r, "error")
       \/ \E status \in {"expired", "error"} : Reports(r, status) /\ UNCHANGED provider
    /\ UNCHANGED <<managers, database, schedule, run>>

\* The status column is written only if it was loaded as something else.
Commit(r, healthy) ==
    LET c == req[r].conn IN
      /\ ~Locked(c) \/ req[r].dirty
      /\ conn' = [conn EXCEPT
            ![c].status = IF healthy /\ req[r].seen # "connected" THEN "connected" ELSE @,
            ![c].expiring = @ /\ ~req[r].dirty]
      /\ secret' = [secret EXCEPT ![c] = IF req[r].dirty THEN req[r].grant ELSE @]

Validated(r) ==
    /\ req[r].pc = "probe" /\ req[r].op = "validate"
    /\ "connected" \in Probe("validate", req[r].grant)
    /\ Commit(r, TRUE) /\ source' = Restore(req[r].conn)
    /\ Release(r)
    /\ UNCHANGED <<managers, schedule, provider, run>>

Listed(r) ==
    /\ req[r].pc = "probe" /\ req[r].op = "list"
    /\ "connected" \in Probe("list", req[r].grant)
    /\ Commit(r, req[r].dirty)
    /\ Release(r)
    /\ UNCHANGED <<managers, source, schedule, provider, run>>

\* What was refreshed on the way is rolled back.
ProbeFails(r) ==
    /\ req[r].pc = "probe"
    /\ \E status \in Probe(req[r].op, req[r].grant) \ {"connected"} : Reports(r, status)
    /\ UNCHANGED <<managers, database, schedule, provider, run>>

\* Written in a transaction of its own, or not at all.
RecordHealth(r) ==
    /\ req[r].pc = "health" /\ ~Locked(req[r].conn)
    /\ LET c == req[r].conn
           status == req[r].report
       IN  \/ /\ conn[c].row = "live"
              /\ conn' = [conn EXCEPT ![c].status = status]
              /\ source' = IF status \in Needs THEN Suspend(c) ELSE source
           \/ UNCHANGED <<conn, source>>
    /\ Release(r)
    /\ UNCHANGED <<managers, secret, schedule, provider, run>>

(***************************************************************************)
(* Disconnecting and deleting.                                             *)
(***************************************************************************)

\* Nobody revokes a secret that no provider has issued.
Disconnect(r, p, c, op) ==
    /\ req[r].pc = "idle" /\ Visible(p, c)
    /\ op \in {"disconnect", "delete"}
    /\ req' = [req EXCEPT ![r] = [NoRequest EXCEPT !.pc = "revoke", !.op = op, !.conn = c,
                  !.grant = IF conn[c].keyless THEN None ELSE secret[c],
                  !.sources = SourcesOf(c)]]
    /\ UNCHANGED <<managers, database, schedule, provider, run>>

\* Revoking is best effort; forgetting the secret is not.
Forget(r) ==
    /\ req[r].pc = "revoke" /\ ~Locked(req[r].conn)
    /\ Revoke(req[r].grant)
    /\ LET c == req[r].conn
           delete == req[r].op = "delete"
       IN  /\ Clear(c)
           /\ conn' = [conn EXCEPT ![c].status = "disconnected", ![c].expiring = FALSE,
                                   ![c].row = IF delete THEN "deleted" ELSE @]
           /\ source' = [s \in Sources |->
                IF delete /\ s \in SourcesOf(c)
                  THEN [Suspend(c)[s] EXCEPT !.row = "deleted"] ELSE Suspend(c)[s]]
    /\ req' = [req EXCEPT ![r].pc = "schedules", ![r].grant = None]
    /\ UNCHANGED <<managers, schedule, issued, run>>

\* After the commit, schedule by schedule, and each call may fail.
StopSchedules(r) ==
    /\ req[r].pc = "schedules"
    /\ \E reached \in SUBSET req[r].sources :
         schedule' = [s \in Sources |->
            IF s \notin reached \/ schedule[s] = "none" THEN schedule[s]
            ELSE IF req[r].op = "delete" THEN "none"
            ELSE "paused"]
    /\ Release(r)
    /\ UNCHANGED <<managers, database, provider, run>>

(***************************************************************************)
(* Sources and their schedules.                                            *)
(***************************************************************************)

\* With a schedule, the request goes on to Temporal.
CreateSource(r, p, c, s, scheduled) ==
    /\ req[r].pc = "idle" /\ Visible(p, c) /\ source[s].row = "none"
    /\ source' = [source EXCEPT ![s] = [row |-> "live", conn |-> c,
           status |-> IF conn[c].status \in Needs THEN "connection_required" ELSE "ready"]]
    /\ req' = IF ~scheduled THEN req
              ELSE [req EXCEPT ![r] = [NoRequest EXCEPT !.pc = "put", !.sources = {s}]]
    /\ UNCHANGED <<managers, conn, secret, schedule, provider, run>>

SourceVisible(p, s) == source[s].row = "live" /\ Visible(p, source[s].conn)

UpdateSourceStatus(p, s, status) ==
    /\ SourceVisible(p, s) /\ source[s].status # "connection_required"
    /\ source' = [source EXCEPT ![s].status = status]
    /\ UNCHANGED <<managers, conn, secret, schedule, provider, req, run>>

SetSchedule(r, p, s) ==
    /\ req[r].pc = "idle" /\ SourceVisible(p, s)
    /\ req' = [req EXCEPT ![r] = [NoRequest EXCEPT !.pc = "put", !.sources = {s}]]
    /\ UNCHANGED <<managers, database, schedule, provider, run>>

\* One that is not enabled is put paused.
Scheduled(enabled) == IF enabled THEN "active" ELSE "paused"

PutSchedule(r) ==
    /\ req[r].pc = "put"
    /\ \/ \E enabled \in BOOLEAN :
            schedule' = [s \in Sources |->
                IF s \in req[r].sources THEN Scheduled(enabled) ELSE schedule[s]]
       \/ UNCHANGED schedule
    /\ Release(r)
    /\ UNCHANGED <<managers, database, provider, run>>

ClearSchedule(r, p, s) ==
    /\ req[r].pc = "idle" /\ SourceVisible(p, s)
    /\ req' = [req EXCEPT ![r] = [NoRequest EXCEPT !.pc = "drop", !.sources = {s}]]
    /\ UNCHANGED <<managers, database, schedule, provider, run>>

DeleteSource(r, p, s) ==
    /\ req[r].pc = "idle" /\ SourceVisible(p, s)
    /\ source' = [source EXCEPT ![s].status = "disabled", ![s].row = "deleted"]
    /\ req' = [req EXCEPT ![r] = [NoRequest EXCEPT !.pc = "drop", !.sources = {s}]]
    /\ UNCHANGED <<managers, conn, secret, schedule, provider, run>>

DropSchedule(r) ==
    /\ req[r].pc = "drop"
    /\ \/ schedule' = [s \in Sources |-> IF s \in req[r].sources THEN "none" ELSE schedule[s]]
       \/ UNCHANGED schedule
    /\ Release(r)
    /\ UNCHANGED <<managers, database, provider, run>>

\* The process dies: an open transaction is rolled back.
Crash(r) ==
    /\ req[r].pc # "idle"
    /\ Release(r)
    /\ UNCHANGED <<managers, database, schedule, provider, run>>

(***************************************************************************)
(* Ingestion runs.                                                         *)
(***************************************************************************)

\* runtime_for: credentials are loaded as for a request, and with a failure the
\* run is over before it has begun.
Runtime(c) ==
    IF conn[c].row # "live" THEN None
    ELSE IF conn[c].keyless THEN [grant |-> None, pc |-> "sync"]
    ELSE IF conn[c].status \in Needs \/ secret[c] = None THEN None
    ELSE [grant |-> secret[c],
          pc |-> IF conn[c].account # None /\ conn[c].expiring THEN "refresh" ELSE "sync"]

\* runtime_for_source, on a manual start or when the schedule fires.
StartRun(w, s) ==
    /\ run[w].pc = "idle"
    /\ schedule[s] = "active" \/ \E p \in Persons : SourceVisible(p, s)
    /\ source[s].row = "live" /\ source[s].status = "ready"
    /\ LET runtime == Runtime(source[s].conn) IN
         /\ runtime # None
         /\ run' = [run EXCEPT ![w] = [source |-> s, grant |-> runtime.grant,
                                       rotated |-> FALSE, pc |-> runtime.pc]]
    /\ UNCHANGED <<managers, database, schedule, provider, req>>

\* The session that refreshed is closed, not committed.
RunRefreshes(w) ==
    /\ run[w].pc = "refresh"
    /\ \/ \E new \in Grant :
            /\ Refresh(run[w].grant, new)
            /\ run' = [run EXCEPT ![w].pc = "sync", ![w].grant = new]
       \/ run' = [run EXCEPT ![w] = NoRun] /\ UNCHANGED provider
    /\ UNCHANGED <<managers, database, schedule, req>>

\* GoogleDriveConnector refreshes again when its token runs out on the way.
ConnectorRefreshes(w) ==
    /\ run[w].pc = "sync" /\ run[w].grant # None /\ run[w].grant.account # None
    /\ \E new \in Grant :
         /\ Refresh(run[w].grant, new)
         /\ run' = [run EXCEPT ![w].grant = new, ![w].rotated = TRUE]
    /\ UNCHANGED <<managers, database, schedule, req>>

\* Whether or not the connection is still there.
RunEndsBlindly(w) ==
    /\ run[w].pc = "sync"
    /\ secret' = IF run[w].rotated
                   THEN [secret EXCEPT ![source[run[w].source].conn] = run[w].grant]
                   ELSE secret
    /\ run' = [run EXCEPT ![w] = NoRun]
    /\ UNCHANGED <<managers, conn, source, schedule, provider, req>>

\* A run that ends, either way, stores what its connector rotated.
RunEnds(w) ==
    /\ run[w].pc = "sync"
    /\ LET c == source[run[w].source].conn
           persist == run[w].rotated /\ conn[c].row = "live"
       IN  /\ persist => ~Locked(c)
           /\ secret' = [secret EXCEPT ![c] = IF persist THEN run[w].grant ELSE @]
           /\ conn' = [conn EXCEPT ![c].expiring = @ /\ ~persist]
    /\ run' = [run EXCEPT ![w] = NoRun]
    /\ UNCHANGED <<managers, source, schedule, provider, req>>

RunCrashes(w) ==
    /\ run[w].pc # "idle"
    /\ run' = [run EXCEPT ![w] = NoRun]
    /\ UNCHANGED <<managers, database, schedule, provider, req>>

-----------------------------------------------------------------------------

Manage(p) ==
    \/ \E owner \in {None, p} : CreateConnection(p, owner)
    \/ \E c \in Connections : UpdateConnection(p, c)

Handle(r) ==
    \/ Exchange(r) \/ RecordAuthorization(r)
    \/ RefreshReturns(r) \/ Validated(r) \/ Listed(r) \/ ProbeFails(r) \/ RecordHealth(r)
    \/ Forget(r) \/ StopSchedules(r) \/ PutSchedule(r) \/ DropSchedule(r) \/ Crash(r)

Ask(r, p) ==
    \/ CompleteAuthorization(r, p)
    \/ \E c \in Connections :
         \/ \E op \in {"validate", "list"} : UseCredentials(r, p, c, op)
         \/ \E op \in {"disconnect", "delete"} : Disconnect(r, p, c, op)
         \/ \E s \in Sources, scheduled \in BOOLEAN : CreateSource(r, p, c, s, scheduled)

AskForSource(r, p, s) ==
    \/ SetSchedule(r, p, s) \/ ClearSchedule(r, p, s) \/ DeleteSource(r, p, s)
    \/ \E status \in {"ready", "paused"} : UpdateSourceStatus(p, s, status)

Ingest(w) ==
    \/ \E s \in Sources : StartRun(w, s)
    \/ RunRefreshes(w) \/ ConnectorRefreshes(w) \/ RunEnds(w) \/ RunCrashes(w)

Next ==
    \/ \E p \in Persons : ChangePermission(p) \/ Manage(p)
    \/ \E a \in Accounts : WithdrawGrants(a)
    \/ \E c \in Connections : AccessTokenAges(c)
    \/ \E r \in Requests : Handle(r)
    \/ \E r \in Requests, p \in Persons :
         Ask(r, p) \/ \E s \in Sources : AskForSource(r, p, s)
    \/ \E w \in Runs : Ingest(w)

Spec == Init /\ [][Next]_vars

(***************************************************************************)
(* Properties.                                                             *)
(***************************************************************************)

\* A connection that says it is connected has a secret, unless its connector
\* asks for none, and no source of it still waits for somebody to reconnect.
ConnectedWorks ==
    \A c \in Connections : conn[c].row = "live" /\ conn[c].status = "connected" =>
        /\ conn[c].keyless \/ secret[c] # None
        /\ \A s \in SourcesOf(c) : source[s].status # "connection_required"

\* Nothing is left of a deleted connection: no usable secret, though a run
\* that began before may hand one back, and no source that could run.
DeletedIsForgotten ==
    \A c \in Connections : conn[c].row = "deleted" =>
        secret[c] = None /\ SourcesOf(c) = {}

\* The connection of a run that ends with a working grant of its account has
\* a working secret: what was rotated on the way is not lost.
RotatedGrantIsKept ==
    [][\A w \in Runs :
         RunEnds(w) /\ run[w].grant \in valid /\ run[w].grant.account # None =>
            LET c == source[run[w].source].conn
            IN  conn[c].status = "connected" => secret'[c] \in valid]_vars
=============================================================================
