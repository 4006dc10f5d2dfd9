--------------------- MODULE IntegrationConnectionProofs ---------------------
(***************************************************************************)
(* Proofs about IntegrationConnection: what holds of any connections,      *)
(* sources, members and runs, and of requests that come one after another. *)
(***************************************************************************)
EXTENDS IntegrationConnection, FiniteSetTheorems, WellFoundedInduction, TLAPS

(* What a request has prepared for the step it is at.                      *)
Prepared(q) ==
    /\ q.pc \in {"exchange", "record"} => q.pending \in Pending /\ q.who \in Persons
    /\ q.pc = "record" => q.grant \in Grant
    /\ q.pc \notin {"idle", "exchange", "record", "put", "drop"} => q.conn \in Connections
    /\ q.pc = "refresh" => q.grant \in Grant
    /\ q.dirty => q.pc = "probe" /\ q.grant \in Grant
    /\ q.pc = "health" => q.report # "connected"

(* A source is created on a connection.                                    *)
Placed == {x \in SourceRow : x.row # "none" => x.conn \in Connections}

(* A run has something to store when its connector has rotated a grant.    *)
Working == {x \in Run : x.rotated => x.grant \in Grant}

Typed ==
    /\ TypeOK
    /\ source \in [Sources -> Placed]
    /\ run \in [Runs -> Working]
    /\ \A r \in Requests : Prepared(req[r])

(* A request that has read a usable connection, and means to say so.  A    *)
(* connection that needs no secret can be used in any status.              *)
Using(q) == q.pc \in {"refresh", "probe"} \/ (q.pc = "health" /\ q.report \notin Needs)
Usable(c) == conn[c].row = "live" /\ conn[c].status \notin Needs
Authorized(c) == conn[c].account # None /\ ~conn[c].keyless

(* What a request has found out about its connection is still so.          *)
Current(q) ==
    /\ Using(q) => conn[q.conn].row = "live" /\ (conn[q.conn].keyless \/ Usable(q.conn))
    /\ q.pc \in {"refresh", "probe"} /\ (q.op = "list" \/ q.dirty \/ q.pc = "refresh")
         => Authorized(q.conn)

Stays == \A r \in Requests : Current(req[r])

Waiting(c) == \E s \in SourcesOf(c) : source[s].status = "connection_required"

(* A connection that may be used has a secret if it needs one, and none of *)
(* its sources waits for what a person has authorized, or somebody has     *)
(* tested.                                                                 *)
Sound(c) ==
    Usable(c) =>
        /\ conn[c].keyless \/ secret[c] # None
        /\ Authorized(c) \/ conn[c].status = "connected" => ~Waiting(c)

Forgotten(c) == conn[c].row = "deleted" => secret[c] = None /\ SourcesOf(c) = {}

Works == \A c \in Connections : Sound(c)

Rest == Stays /\ Works /\ DeletedIsForgotten

-----------------------------------------------------------------------------
(* A name that is free *)

LEMMA SmallestNumber ==
    ASSUME NEW T \in SUBSET Nat, T # {}
    PROVE  \E n \in T : \A m \in T : n <= m
<1> DEFINE Less == OpToRel(<, Nat)
<1>1. \E n \in T : \A m \in T : ~(<<m, n>> \in Less)
  <2> USE NatLessThanWellFounded
  <2> HIDE DEF Less
  <2>1. IsWellFoundedOn(Less, Nat)
    BY DEF Less
  <2> QED BY <2>1, WFMin, Zenon
<1>2. PICK n \in T : \A m \in T : ~(m < n)
  BY <1>1 DEF OpToRel
<1> QED BY <1>2

(* The live connections are fewer than the numbers when one is not live.   *)
LEMMA CandidateType ==
    ASSUME TypeOK, NEW d \in Connections, conn[d].row # "live", NEW base \in Accounts \cup {None}
    PROVE  Candidate(base) \in Name
<1> DEFINE N == Cardinality(Connections)
           live == {c \in Connections : conn[c].row = "live"}
           taken == {conn[c].name : c \in live}
           free == {n \in 1..N : [base |-> base, n |-> n] \notin taken}
<1>1. N \in Nat /\ IsFiniteSet(live) /\ Cardinality(live) < N
  <2>1. live \in SUBSET Connections /\ live # Connections
    OBVIOUS
  <2>2. N \in Nat
    BY ConnectionsAreFinite, FS_CardinalityType
  <2> HIDE DEF live
  <2>3. /\ IsFiniteSet(live) /\ Cardinality(live) <= N
        /\ N = Cardinality(live) => Connections = live
    BY <2>1, ConnectionsAreFinite, FS_Subset
  <2>4. Cardinality(live) \in Nat
    BY <2>3, FS_CardinalityType
  <2> HIDE DEF N
  <2> QED BY <2>1, <2>2, <2>3, <2>4
<1>2. free # {}
  <2> SUFFICES ASSUME free = {} PROVE FALSE
    OBVIOUS
  <2>1. \A n \in 1..N : \E c \in live : conn[c].name = [base |-> base, n |-> n]
    OBVIOUS
  <2> DEFINE f == [n \in 1..N |-> CHOOSE c \in live : conn[c].name = [base |-> base, n |-> n]]
  <2> HIDE DEF live, N
  <2>2. f \in [1..N -> live] /\ \A n \in 1..N : conn[f[n]].name = [base |-> base, n |-> n]
    BY <2>1
  <2>3. \A m, n \in 1..N : f[m] = f[n] => m = n
    <3> SUFFICES ASSUME NEW m \in 1..N, NEW n \in 1..N, f[m] = f[n] PROVE m = n
      OBVIOUS
    <3>1. [base |-> base, n |-> m] = [base |-> base, n |-> n]
      <4> HIDE DEF f
      <4> QED BY <2>2
    <3>2. [base |-> base, n |-> m].n = [base |-> base, n |-> n].n
      BY <3>1
    <3> QED BY <3>2
  <2>4. f \in Injection(1..N, live)
    <3> HIDE DEF f
    <3> QED BY <2>2, <2>3 DEF Injection, IsInjective
  <2> HIDE DEF f
  <2>5. Cardinality(1..N) <= Cardinality(live)
    BY <1>1, <2>4, FS_Injection
  <2>6. Cardinality(1..N) = N
    BY <1>1, FS_Interval
  <2>7. Cardinality(live) \in Nat
    BY <1>1, FS_CardinalityType
  <2> QED BY <1>1, <2>5, <2>6, <2>7
<1> DEFINE n == CHOOSE m \in free : \A k \in free : m <= k
<1>3. n \in free
  <2>1. free \in SUBSET Nat
    BY <1>1
  <2>2. \E m \in free : \A k \in free : m <= k
    <3> HIDE DEF free
    <3> QED BY <1>2, <2>1, SmallestNumber
  <2> HIDE DEF free
  <2> QED BY <2>2
<1>4. Candidate(base) = [base |-> base, n |-> n]
  BY DEF Candidate
<1>5. n \in 1..N
  BY <1>3
<1> HIDE DEF n
<1> QED BY <1>4, <1>5 DEF Name

-----------------------------------------------------------------------------
(* Type correctness *)

LEMMA TypedParts ==
    ASSUME Typed
    PROVE  /\ managers \subseteq Persons
           /\ conn \in [Connections -> Connection]
           /\ secret \in [Connections -> Grant \cup {None}]
           /\ source \in [Sources -> Placed]
           /\ schedule \in [Sources -> Schedules]
           /\ valid \subseteq Grant /\ issued \in 0..MaxGrants
           /\ req \in [Requests -> Request] /\ run \in [Runs -> Working]
           /\ \A r \in Requests : Prepared(req[r])
BY DEF Typed, TypeOK

LEMMA NoRequestType == NoRequest \in Request /\ Prepared(NoRequest)
BY DEF NoRequest, Request, Prepared, Statuses, Needs

LEMMA NoRunType == NoRun \in Working
BY DEF NoRun, Run, Working

LEMMA TypedInit == Init => Typed
<1> SUFFICES ASSUME Init PROVE Typed
  OBVIOUS
<1>1. NoConnection \in Connection
  BY DEF NoConnection, Connection, Statuses, Needs
<1>2. NoSource \in Placed
  BY DEF NoSource, Placed, SourceRow
<1>3. conn \in [Connections -> Connection] /\ source \in [Sources -> Placed]
      /\ source \in [Sources -> SourceRow]
  BY <1>1, <1>2 DEF Init, Placed
<1>4. req \in [Requests -> Request] /\ \A r \in Requests : Prepared(req[r])
  BY NoRequestType DEF Init
<1>5. run \in [Runs -> Working] /\ run \in [Runs -> Run]
  BY NoRunType DEF Init, Working
<1> QED BY <1>3, <1>4, <1>5, MaxGrantsIsPositive DEF Init, Typed, TypeOK, Schedules

RequestsTyped == req' \in [Requests -> Request] /\ \A r \in Requests : Prepared(req'[r])

Becomes(r, q) == req' = [req EXCEPT ![r] = q]

LEMMA RequestStep ==
    ASSUME Typed, NEW r \in Requests, NEW q \in Request, Prepared(q), Becomes(r, q)
    PROVE  RequestsTyped
BY TypedParts DEF Becomes, RequestsTyped

LEMMA ReleaseStep ==
    ASSUME Typed, NEW r \in Requests, Release(r)
    PROVE  RequestsTyped
BY NoRequestType, RequestStep DEF Release, Becomes

LEMMA ReportStep ==
    ASSUME Typed, NEW r \in Requests, NEW status \in Statuses \ {"connected"}, req[r].conn \in Connections, Reports(r, status)
    PROVE  RequestsTyped
<1> DEFINE q == [NoRequest EXCEPT !.pc = "health", !.report = status, !.conn = req[r].conn]
<1>1. q \in Request /\ Prepared(q)
  BY DEF NoRequest, Request, Prepared, Statuses, Needs
<1>2. Becomes(r, q)
  BY DEF Reports, Becomes
<1> HIDE DEF q
<1> QED BY <1>1, <1>2, RequestStep

LEMMA RequestsSame ==
    ASSUME Typed, UNCHANGED req
    PROVE  RequestsTyped
BY TypedParts DEF RequestsTyped

(* A grant that is issued is one of the grants.                            *)
LEMMA GrantType ==
    ASSUME Typed, NEW account \in Accounts \cup {None}, NEW g, NewGrant(account, g)
    PROVE  g \in Grant /\ g.account = account /\ issued' \in 0..MaxGrants
<1>1. issued \in Nat /\ issued < MaxGrants /\ issued + 1 \in 1..MaxGrants
  BY TypedParts, MaxGrantsIsPositive DEF NewGrant
<1> QED BY <1>1, MaxGrantsIsPositive DEF NewGrant, Grant

LEMMA RefreshType ==
    ASSUME Typed, NEW old, NEW new, Refresh(old, new)
    PROVE  new \in Grant /\ new.account = old.account
           /\ valid' \subseteq Grant /\ issued' \in 0..MaxGrants
<1>1. CASE RefreshGoogle(old, new)
  BY <1>1, TypedParts DEF RefreshGoogle, provider
<1>2. CASE RefreshAtlassian(old, new)
  <2>1. old \in Grant /\ old.account \in Accounts \cup {None}
    BY <1>2, TypedParts DEF RefreshAtlassian, Grant
  <2> QED BY <1>2, <2>1, GrantType, TypedParts DEF RefreshAtlassian
<1> QED BY <1>1, <1>2 DEF Refresh

TypedAfter ==
    /\ managers' \subseteq Persons
    /\ conn' \in [Connections -> Connection]
    /\ secret' \in [Connections -> Grant \cup {None}]
    /\ source' \in [Sources -> Placed]
    /\ schedule' \in [Sources -> Schedules]
    /\ valid' \subseteq Grant /\ issued' \in 0..MaxGrants
    /\ RequestsTyped /\ run' \in [Runs -> Working]

LEMMA TypedIf == TypedAfter => Typed'
<1> SUFFICES ASSUME TypedAfter PROVE Typed'
  OBVIOUS
<1>1. source' \in [Sources -> SourceRow] /\ run' \in [Runs -> Run]
  BY DEF TypedAfter, Placed, Working
<1> QED BY <1>1 DEF TypedAfter, RequestsTyped, Typed, TypeOK

LEMMA SuspendType ==
    ASSUME Typed, NEW c
    PROVE  /\ Suspend(c) \in [Sources -> Placed]
           /\ Restore(c) \in [Sources -> Placed]
           /\ \A s \in Sources : Suspend(c)[s] \in Placed
<1>1. \A s \in Sources : source[s] \in Placed
  BY TypedParts
<1>2. \A s \in Sources : /\ [source[s] EXCEPT !.status = "connection_required"] \in Placed
                         /\ [source[s] EXCEPT !.status = "ready"] \in Placed
  BY <1>1 DEF Placed, SourceRow
<1> QED BY <1>1, <1>2 DEF Suspend, Restore

LEMMA Reconnected ==
    ASSUME NEW row \in Connection, NEW account \in Accounts \cup {None}
    PROVE  [row EXCEPT !.account = account, !.status = "connected", !.expiring = FALSE] \in Connection
BY DEF Connection, Statuses

(* A row of a connection or of a source is written.                        *)
LEMMA RowWritten ==
    ASSUME Typed, NEW c, NEW row, c \in Connections => row \in Connection, conn' = [conn EXCEPT ![c] = row]
    PROVE  conn' \in [Connections -> Connection]
BY TypedParts

LEMMA SecretWritten ==
    ASSUME Typed, NEW c, NEW g, g \in Grant \cup {None}, secret' = [secret EXCEPT ![c] = g]
    PROVE  secret' \in [Connections -> Grant \cup {None}]
BY TypedParts

LEMMA SourceWritten ==
    ASSUME Typed, NEW s \in Sources, NEW row \in Placed, source' = [source EXCEPT ![s] = row]
    PROVE  source' \in [Sources -> Placed]
BY TypedParts

LEMMA SurroundingsTyped ==
    ASSUME Typed,
           \/ \E p \in Persons : ChangePermission(p)
           \/ \E a \in Accounts : WithdrawGrants(a)
           \/ \E c \in Connections : AccessTokenAges(c)
    PROVE  TypedAfter
<1>0. RequestsTyped \/ ~UNCHANGED req
  BY RequestsSame
<1>1. ASSUME NEW p \in Persons, ChangePermission(p) PROVE TypedAfter
  BY <1>0, <1>1, TypedParts DEF ChangePermission, TypedAfter, database, provider
<1>2. ASSUME NEW a \in Accounts, WithdrawGrants(a) PROVE TypedAfter
  BY <1>0, <1>2, TypedParts DEF WithdrawGrants, TypedAfter, database
<1>3. ASSUME NEW c \in Connections, AccessTokenAges(c) PROVE TypedAfter
  <2>1. [conn[c] EXCEPT !.expiring = TRUE] \in Connection
    BY TypedParts DEF Connection
  <2>2. conn' \in [Connections -> Connection]
    BY <1>3, <2>1, TypedParts DEF AccessTokenAges
  <2> QED BY <1>0, <1>3, <2>2, TypedParts DEF AccessTokenAges, TypedAfter, provider
<1> QED BY <1>1, <1>2, <1>3

LEMMA PasteType ==
    ASSUME Typed, NEW c, Paste(c)
    PROVE  /\ secret' \in [Connections -> Grant \cup {None}]
           /\ issued' \in 0..MaxGrants /\ valid' \subseteq Grant
<1>1. PICK g \in Grant : NewGrant(None, g) /\ valid' \in {valid, valid \cup {g}} /\ Store(c, g)
  BY DEF Paste
<1>2. secret' \in [Connections -> Grant \cup {None}]
  BY <1>1, SecretWritten DEF Store
<1> QED BY <1>1, <1>2, GrantType, TypedParts

LEMMA ManageTyped ==
    ASSUME Typed, NEW p \in Persons, Manage(p)
    PROVE  TypedAfter
<1>0. RequestsTyped \/ ~UNCHANGED req
  BY RequestsSame
<1>1. ASSUME NEW owner \in {None, p}, CreateConnection(p, owner) PROVE TypedAfter
  <2>1. PICK c \in Connections, keyless \in BOOLEAN :
          /\ conn[c].row = "none"
          /\ conn' = [conn EXCEPT ![c] = [NoConnection EXCEPT !.row = "live",
                         !.owner = owner, !.name = Candidate(None), !.keyless = keyless]]
          /\ Paste(c) \/ (keyless /\ UNCHANGED <<secret, provider>>)
    BY <1>1 DEF CreateConnection
  <2> DEFINE row == [NoConnection EXCEPT !.row = "live", !.owner = owner,
                         !.name = Candidate(None), !.keyless = keyless]
  <2>2. Candidate(None) \in Name
    BY <2>1, CandidateType DEF Typed
  <2>3. row \in Connection
    BY <2>2 DEF NoConnection, Connection, Statuses, Needs
  <2>4. conn' \in [Connections -> Connection]
    <3> HIDE DEF row
    <3> QED BY <2>1, <2>3, RowWritten DEF row
  <2>5. /\ secret' \in [Connections -> Grant \cup {None}]
        /\ issued' \in 0..MaxGrants /\ valid' \subseteq Grant
    BY <2>1, PasteType, TypedParts DEF provider
  <2> QED BY <1>0, <1>1, <2>4, <2>5, TypedParts DEF CreateConnection, TypedAfter
<1>2. ASSUME NEW c \in Connections, UpdateConnection(p, c) PROVE TypedAfter
  <2>1. [conn[c] EXCEPT !.status = "draft"] \in Connection
    BY TypedParts DEF Connection, Statuses
  <2>2. conn' \in [Connections -> Connection]
    BY <1>2, <2>1, TypedParts DEF UpdateConnection
  <2>3. /\ secret' \in [Connections -> Grant \cup {None}]
        /\ issued' \in 0..MaxGrants /\ valid' \subseteq Grant
    BY <1>2, PasteType DEF UpdateConnection
  <2> QED BY <1>0, <1>2, <2>2, <2>3, TypedParts DEF UpdateConnection, TypedAfter
<1> QED BY <1>1, <1>2 DEF Manage

LEMMA AuthorizeTyped ==
    ASSUME Typed, NEW r \in Requests,
           \/ \E p \in Persons : CompleteAuthorization(r, p)
           \/ Exchange(r) \/ RecordAuthorization(r)
    PROVE  TypedAfter
<1>0. req[r] \in Request /\ Prepared(req[r])
  BY TypedParts
<1>1. ASSUME NEW p \in Persons, CompleteAuthorization(r, p) PROVE TypedAfter
  <2>1. PICK pending \in Started(p) :
          Becomes(r, [NoRequest EXCEPT !.pc = "exchange", !.op = "authorize", !.who = p, !.pending = pending])
    BY <1>1 DEF CompleteAuthorization, Becomes
  <2> DEFINE q == [NoRequest EXCEPT !.pc = "exchange", !.op = "authorize", !.who = p, !.pending = pending]
  <2>2. pending \in Pending
    BY DEF Started, Pending
  <2>3. q \in Request /\ Prepared(q)
    BY <2>2 DEF NoRequest, Request, Prepared, Statuses, Needs
  <2>4. RequestsTyped
    <3> HIDE DEF q
    <3> QED BY <2>1, <2>3, RequestStep DEF q
  <2> QED BY <1>1, <2>4, TypedParts DEF CompleteAuthorization, TypedAfter, database, provider
<1>2. CASE Exchange(r)
  <2>1. CASE Release(r) /\ UNCHANGED provider
    BY <1>2, <2>1, ReleaseStep, TypedParts DEF Exchange, TypedAfter, database, provider
  <2>2. CASE ~(Release(r) /\ UNCHANGED provider)
    <3>1. PICK a \in Accounts, g \in Grant :
            /\ NewGrant(a, g) /\ valid' = valid \cup {g}
            /\ req' = [req EXCEPT ![r].pc = "record", ![r].grant = g]
      BY <1>2, <2>2 DEF Exchange
    <3> DEFINE q == [req[r] EXCEPT !.pc = "record", !.grant = g]
    <3>2. q \in Request /\ Prepared(q)
      BY <1>0, <1>2 DEF Exchange, Request, Prepared
    <3>3. Becomes(r, q)
      BY <3>1, TypedParts DEF Becomes
    <3> HIDE DEF q
    <3>4. RequestsTyped
      BY <3>2, <3>3, RequestStep
    <3>5. issued' \in 0..MaxGrants /\ valid' \subseteq Grant
      BY <3>1, GrantType, TypedParts
    <3> QED BY <1>2, <3>4, <3>5, TypedParts DEF Exchange, TypedAfter, database
  <2> QED BY <2>1, <2>2
<1>3. CASE RecordAuthorization(r)
  <2> DEFINE p == req[r].who
             pending == req[r].pending
             account == req[r].grant.account
  <2>1. PICK c \in Target(p, pending, account) :
          /\ \/ Visible(p, c)
                /\ conn' = [conn EXCEPT ![c].account = account,
                              ![c].status = "connected", ![c].expiring = FALSE]
             \/ /\ conn[c].row = "none"
                /\ conn' = [conn EXCEPT ![c] = [row |-> "live",
                       status |-> "connected", account |-> account,
                       owner |-> pending.owner, expiring |-> FALSE,
                       name |-> Candidate(account), keyless |-> FALSE]]
          /\ Store(c, req[r].grant)
          /\ source' = Restore(c)
    BY <1>3 DEF RecordAuthorization
  <2>2. /\ pending \in Pending /\ req[r].grant \in Grant /\ account \in Accounts \cup {None}
        /\ pending.owner \in Persons \cup {None}
    BY <1>0, <1>3 DEF RecordAuthorization, Prepared, Pending, Grant
  <2>3. c \in Connections
    BY <2>1, <2>2 DEF Target, ByAccount, Pending
  <2>4. conn' \in [Connections -> Connection]
    <3>1. CASE conn' = [conn EXCEPT ![c].account = account, ![c].status = "connected", ![c].expiring = FALSE]
      <4> DEFINE row == [conn[c] EXCEPT !.account = account, !.status = "connected", !.expiring = FALSE]
      <4>0. conn[c] \in Connection
        BY <2>3, TypedParts
      <4>1. row \in Connection
        BY <2>2, <4>0, Reconnected
      <4>2. conn' = [conn EXCEPT ![c] = row]
        BY <2>3, <3>1, TypedParts
      <4> HIDE DEF row
      <4> QED BY <4>1, <4>2, RowWritten
    <3>2. CASE /\ conn[c].row = "none"
               /\ conn' = [conn EXCEPT ![c] = [row |-> "live",
                      status |-> "connected", account |-> account,
                      owner |-> pending.owner, expiring |-> FALSE, name |-> Candidate(account),
                      keyless |-> FALSE]]
      <4> DEFINE row == [row |-> "live", status |-> "connected", account |-> account,
                         owner |-> pending.owner, expiring |-> FALSE, name |-> Candidate(account),
                         keyless |-> FALSE]
      <4>1. Candidate(account) \in Name
        BY <2>2, <2>3, <3>2, CandidateType DEF Typed
      <4>2. row \in Connection
        BY <2>2, <4>1 DEF Connection, Statuses
      <4>3. conn' = [conn EXCEPT ![c] = row]
        BY <3>2
      <4> HIDE DEF row
      <4> QED BY <4>2, <4>3, RowWritten
    <3> QED BY <2>1, <3>1, <3>2
  <2>5. secret' \in [Connections -> Grant \cup {None}]
    BY <2>1, <2>2, SecretWritten DEF Store
  <2>6. source' \in [Sources -> Placed]
    BY <2>1, SuspendType
  <2>7. Release(r) /\ UNCHANGED <<managers, schedule, provider, run>>
    BY <1>3 DEF RecordAuthorization
  <2> QED BY <2>4, <2>5, <2>6, <2>7, ReleaseStep, TypedParts DEF TypedAfter, provider
<1> QED BY <1>1, <1>2, <1>3

LEMMA UseTyped ==
    ASSUME Typed, NEW r \in Requests,
           \/ \E p \in Persons, c \in Connections, op \in {"validate", "list"} : UseCredentials(r, p, c, op)
           \/ RefreshReturns(r) \/ Validated(r) \/ Listed(r) \/ ProbeFails(r) \/ RecordHealth(r)
    PROVE  TypedAfter
<1>0. req[r] \in Request /\ Prepared(req[r])
  BY TypedParts
<1>c. req[r].pc \in {"refresh", "probe", "health"} => req[r].conn \in Connections
  BY <1>0 DEF Prepared
<1>1. ASSUME NEW p \in Persons, NEW c \in Connections, NEW op \in {"validate", "list"}, UseCredentials(r, p, c, op)
      PROVE  TypedAfter
  <2> DEFINE begin == [NoRequest EXCEPT !.op = op, !.conn = c, !.seen = conn[c].status, !.grant = secret[c]]
             fail(status) == [NoRequest EXCEPT !.pc = "health", !.conn = c, !.report = status]
             q == IF conn[c].keyless THEN [begin EXCEPT !.pc = "probe", !.grant = None]
                  ELSE IF conn[c].status \in Needs THEN fail("reauth_required")
                  ELSE IF secret[c] = None
                    THEN fail(IF conn[c].expiring THEN "expired" ELSE "reauth_required")
                  ELSE [begin EXCEPT !.pc = IF conn[c].account # None /\ conn[c].expiring
                                              THEN "refresh" ELSE "probe"]
  <2>1. Becomes(r, q)
    BY <1>1 DEF UseCredentials, Becomes
  <2>2. fail("reauth_required") \in Request /\ Prepared(fail("reauth_required"))
    BY DEF NoRequest, Request, Prepared, Statuses, Needs
  <2>3. fail("expired") \in Request /\ Prepared(fail("expired"))
    BY DEF NoRequest, Request, Prepared, Statuses, Needs
  <2>a. conn[c].status \in Statuses /\ secret[c] \in Grant \cup {None}
    BY TypedParts DEF Connection
  <2>4. secret[c] # None => /\ [begin EXCEPT !.pc = "refresh"] \in Request
                            /\ Prepared([begin EXCEPT !.pc = "refresh"])
                            /\ [begin EXCEPT !.pc = "probe"] \in Request
                            /\ Prepared([begin EXCEPT !.pc = "probe"])
    BY <2>a DEF NoRequest, Request, Prepared, Statuses, Needs
  <2>b. /\ [begin EXCEPT !.pc = "probe", !.grant = None] \in Request
        /\ Prepared([begin EXCEPT !.pc = "probe", !.grant = None])
    BY <2>a DEF NoRequest, Request, Prepared, Statuses, Needs
  <2>5. q \in Request /\ Prepared(q)
    BY <2>2, <2>3, <2>4, <2>b
  <2> HIDE DEF q
  <2>6. RequestsTyped
    BY <2>1, <2>5, RequestStep
  <2> QED BY <1>1, <2>6, TypedParts DEF UseCredentials, TypedAfter, database, provider
<1>2. CASE RefreshReturns(r)
  <2>1. /\ req[r].pc = "refresh" /\ UNCHANGED <<managers, database, schedule, run>>
        /\ {"error", "expired"} \subseteq Statuses \ {"connected"}
    BY <1>2 DEF RefreshReturns, Statuses, Needs
  <2>2. ASSUME NEW new \in Grant, Refresh(req[r].grant, new),
               \/ req' = [req EXCEPT ![r].pc = "probe", ![r].grant = new, ![r].dirty = TRUE]
               \/ Reports(r, "error")
        PROVE  TypedAfter
    <3>1. RequestsTyped
      <4>1. CASE Reports(r, "error")
        BY <1>c, <2>1, <4>1, ReportStep
      <4>2. CASE req' = [req EXCEPT ![r].pc = "probe", ![r].grant = new, ![r].dirty = TRUE]
        <5> DEFINE q == [req[r] EXCEPT !.pc = "probe", !.grant = new, !.dirty = TRUE]
        <5>1. q \in Request /\ Prepared(q)
          BY <1>0, <2>1 DEF Request, Prepared
        <5>2. Becomes(r, q)
          BY <4>2, TypedParts DEF Becomes
        <5> HIDE DEF q
        <5> QED BY <5>1, <5>2, RequestStep
      <4> QED BY <2>2, <4>1, <4>2
    <3>2. issued' \in 0..MaxGrants /\ valid' \subseteq Grant
      BY <2>2, RefreshType
    <3> QED BY <2>1, <3>1, <3>2, TypedParts DEF TypedAfter, database
  <2>3. ASSUME NEW status \in {"expired", "error"}, Reports(r, status), UNCHANGED provider
        PROVE  TypedAfter
    <3>1. RequestsTyped
      BY <1>c, <2>1, <2>3, ReportStep
    <3> QED BY <2>1, <2>3, <3>1, TypedParts DEF TypedAfter, database, provider
  <2> QED BY <1>2, <2>2, <2>3 DEF RefreshReturns
<1>3. ASSUME NEW healthy \in BOOLEAN, Commit(r, healthy), req[r].pc = "probe"
      PROVE  conn' \in [Connections -> Connection] /\ secret' \in [Connections -> Grant \cup {None}]
  <2> DEFINE c == req[r].conn
             status == IF healthy /\ req[r].seen # "connected" THEN "connected" ELSE conn[c].status
             expiring == conn[c].expiring /\ ~req[r].dirty
             row == [conn[c] EXCEPT !.status = status, !.expiring = expiring]
             g == IF req[r].dirty THEN req[r].grant ELSE secret[c]
  <2>1. c \in Connections /\ conn[c] \in Connection
    BY <1>c, <1>3, TypedParts
  <2>2. status \in Statuses /\ expiring \in BOOLEAN
    BY <2>1 DEF Connection, Statuses
  <2>3. row \in Connection
    <3> HIDE DEF status, expiring
    <3> QED BY <2>1, <2>2 DEF Connection
  <2>4. conn' = [conn EXCEPT ![c] = row]
    BY <1>3, <2>1, TypedParts DEF Commit
  <2>5. g \in Grant \cup {None} /\ secret' = [secret EXCEPT ![c] = g]
    BY <1>0, <1>3, <2>1, TypedParts DEF Commit, Prepared
  <2> HIDE DEF row, g
  <2> QED BY <2>3, <2>4, <2>5, RowWritten, SecretWritten
<1>4. CASE Validated(r)
  BY <1>3, <1>4, SuspendType, ReleaseStep, TypedParts DEF Validated, TypedAfter, provider
<1>5. CASE Listed(r)
  <2>1. req[r].dirty \in BOOLEAN
    BY <1>0 DEF Request
  <2> QED BY <1>3, <1>5, <2>1, ReleaseStep, TypedParts DEF Listed, TypedAfter, provider
<1>6. CASE ProbeFails(r)
  <2>1. PICK status \in Statuses \ {"connected"} : Reports(r, status)
    BY <1>6 DEF ProbeFails, Probe, ListResources, TestConnection, TestDirectory, Statuses, Needs
  <2>2. RequestsTyped
    BY <1>6, <1>c, <2>1, ReportStep DEF ProbeFails
  <2> QED BY <1>6, <2>2, TypedParts DEF ProbeFails, TypedAfter, database, provider
<1>7. CASE RecordHealth(r)
  <2> DEFINE c == req[r].conn
             status == req[r].report
             row == [conn[c] EXCEPT !.status = status]
  <2>1. c \in Connections /\ status \in Statuses
    BY <1>0, <1>c, <1>7 DEF RecordHealth, Request
  <2>2. row \in Connection
    <3> HIDE DEF status
    <3> QED BY <2>1, TypedParts DEF Connection
  <2>3. conn' = [conn EXCEPT ![c] = row] \/ conn' = conn
    BY <1>7, <2>1, TypedParts DEF RecordHealth
  <2>4. conn' \in [Connections -> Connection]
    <3> HIDE DEF row
    <3> QED BY <2>2, <2>3, RowWritten, TypedParts
  <2>5. source' \in [Sources -> Placed]
    BY <1>7, SuspendType, TypedParts DEF RecordHealth
  <2> QED BY <1>7, <2>4, <2>5, ReleaseStep, TypedParts DEF RecordHealth, TypedAfter, provider
<1> QED BY <1>1, <1>2, <1>4, <1>5, <1>6, <1>7

LEMMA DisconnectTyped ==
    ASSUME Typed, NEW r \in Requests,
           \/ \E p \in Persons, c \in Connections, op \in {"disconnect", "delete"} : Disconnect(r, p, c, op)
           \/ Forget(r) \/ StopSchedules(r) \/ Crash(r)
    PROVE  TypedAfter
<1>0. req[r] \in Request /\ Prepared(req[r])
  BY TypedParts
<1>1. ASSUME NEW p \in Persons, NEW c \in Connections, NEW op \in {"disconnect", "delete"},
             Disconnect(r, p, c, op)
      PROVE  TypedAfter
  <2> DEFINE g == IF conn[c].keyless THEN None ELSE secret[c]
             q == [NoRequest EXCEPT !.pc = "revoke", !.op = op, !.conn = c,
                                    !.grant = g, !.sources = SourcesOf(c)]
  <2>1. g \in Grant \cup {None} /\ SourcesOf(c) \in SUBSET Sources
    BY TypedParts DEF SourcesOf
  <2>2. q \in Request /\ Prepared(q)
    BY <2>1 DEF NoRequest, Request, Prepared, Statuses, Needs
  <2>3. Becomes(r, q)
    BY <1>1 DEF Disconnect, Becomes
  <2> HIDE DEF q
  <2>4. RequestsTyped
    BY <2>2, <2>3, RequestStep
  <2> QED BY <1>1, <2>4, TypedParts DEF Disconnect, TypedAfter, database, provider
<1>2. CASE Forget(r)
  <2> DEFINE c == req[r].conn
             delete == req[r].op = "delete"
             standing == IF delete THEN "deleted" ELSE conn[c].row
             row == [conn[c] EXCEPT !.status = "disconnected", !.expiring = FALSE, !.row = standing]
             q == [req[r] EXCEPT !.pc = "schedules", !.grant = None]
  <2>1. c \in Connections
    BY <1>0, <1>2 DEF Forget, Prepared
  <2>2. row \in Connection
    <3>1. conn[c] \in Connection
      BY <2>1, TypedParts
    <3>2. standing \in {"none", "live", "deleted"}
      BY <3>1 DEF Connection
    <3> HIDE DEF standing
    <3> QED BY <3>1, <3>2 DEF Connection, Statuses, Needs
  <2>3. conn' = [conn EXCEPT ![c] = row]
    BY <1>2, <2>1, TypedParts DEF Forget
  <2>4. conn' \in [Connections -> Connection]
    <3> HIDE DEF row
    <3> QED BY <2>2, <2>3, RowWritten
  <2>5. secret' \in [Connections -> Grant \cup {None}]
    BY <1>2, SecretWritten DEF Forget, Clear
  <2>6. source' \in [Sources -> Placed]
    <3> DEFINE suspended == Suspend(c)
    <3>1. \A s \in Sources : suspended[s] \in Placed
      BY SuspendType
    <3>2. \A s \in SourcesOf(c) : suspended[s].conn = c
      BY DEF Suspend, SourcesOf
    <3> HIDE DEF suspended
    <3>3. \A s \in SourcesOf(c) : [suspended[s] EXCEPT !.row = "deleted"] \in Placed
      BY <2>1, <3>1, <3>2 DEF Placed, SourceRow, SourcesOf
    <3> QED BY <1>2, <3>1, <3>3 DEF Forget, suspended
  <2>7. q \in Request /\ Prepared(q)
    <3>1. ~req[r].dirty
      BY <1>0, <1>2 DEF Forget, Prepared
    <3> QED BY <1>0, <1>2, <2>1, <3>1 DEF Request, Prepared
  <2>8. Becomes(r, q)
    BY <1>2, TypedParts DEF Forget, Becomes
  <2>9. RequestsTyped
    <3> HIDE DEF q
    <3> QED BY <2>7, <2>8, RequestStep
  <2>10. valid' \subseteq Grant
    BY <1>2, TypedParts DEF Forget, Revoke
  <2>11. UNCHANGED <<managers, schedule, issued, run>>
    BY <1>2 DEF Forget
  <2> QED BY <2>4, <2>5, <2>6, <2>9, <2>10, <2>11, TypedParts DEF TypedAfter
<1>3. CASE StopSchedules(r)
  <2>1. schedule' \in [Sources -> Schedules]
    BY <1>3, TypedParts DEF StopSchedules, Schedules
  <2> QED BY <1>3, <2>1, ReleaseStep, TypedParts DEF StopSchedules, TypedAfter, database, provider
<1>4. CASE Crash(r)
  BY <1>4, ReleaseStep, TypedParts DEF Crash, TypedAfter, database, provider
<1> QED BY <1>1, <1>2, <1>3, <1>4

LEMMA SourcesTyped ==
    ASSUME Typed, NEW r \in Requests,
           \/ \E p \in Persons, c \in Connections, s \in Sources, scheduled \in BOOLEAN :
                CreateSource(r, p, c, s, scheduled)
           \/ \E p \in Persons, s \in Sources : AskForSource(r, p, s)
           \/ PutSchedule(r) \/ DropSchedule(r)
    PROVE  TypedAfter
<1> DEFINE put(s) == [NoRequest EXCEPT !.pc = "put", !.sources = {s}]
           drop(s) == [NoRequest EXCEPT !.pc = "drop", !.sources = {s}]
<1>0. \A s \in Sources : /\ put(s) \in Request /\ Prepared(put(s))
                         /\ drop(s) \in Request /\ Prepared(drop(s))
  BY ZenonT(40) DEF NoRequest, Request, Prepared, Statuses, Needs
<1>1. ASSUME NEW p \in Persons, NEW c \in Connections, NEW s \in Sources, NEW scheduled \in BOOLEAN,
             CreateSource(r, p, c, s, scheduled)
      PROVE  TypedAfter
  <2> DEFINE row == [row |-> "live", conn |-> c,
                     status |-> IF conn[c].status \in Needs THEN "connection_required" ELSE "ready"]
  <2>1. row \in Placed
    BY DEF Placed, SourceRow
  <2>2. source' = [source EXCEPT ![s] = row]
    BY <1>1 DEF CreateSource
  <2> HIDE DEF row
  <2>3. source' \in [Sources -> Placed]
    BY <2>1, <2>2, SourceWritten
  <2>4. RequestsTyped
    <3>1. CASE scheduled
      <4>1. Becomes(r, put(s))
        BY <1>1, <3>1 DEF CreateSource, Becomes
      <4> HIDE DEF put
      <4> QED BY <1>0, <4>1, RequestStep
    <3>2. CASE ~scheduled
      BY <1>1, <3>2, RequestsSame DEF CreateSource
    <3> QED BY <3>1, <3>2
  <2> QED BY <1>1, <2>3, <2>4, TypedParts DEF CreateSource, TypedAfter, provider
<1>2. ASSUME NEW p \in Persons, NEW s \in Sources, SetSchedule(r, p, s) PROVE TypedAfter
  <2>1. Becomes(r, put(s))
    BY <1>2 DEF SetSchedule, Becomes
  <2> HIDE DEF put
  <2>2. RequestsTyped
    BY <1>0, <2>1, RequestStep
  <2> QED BY <1>2, <2>2, TypedParts DEF SetSchedule, TypedAfter, database, provider
<1>3. ASSUME NEW p \in Persons, NEW s \in Sources, ClearSchedule(r, p, s) PROVE TypedAfter
  <2>1. Becomes(r, drop(s))
    BY <1>3 DEF ClearSchedule, Becomes
  <2> HIDE DEF drop
  <2>2. RequestsTyped
    BY <1>0, <2>1, RequestStep
  <2> QED BY <1>3, <2>2, TypedParts DEF ClearSchedule, TypedAfter, database, provider
<1>4. ASSUME NEW p \in Persons, NEW s \in Sources, DeleteSource(r, p, s) PROVE TypedAfter
  <2> DEFINE row == [source[s] EXCEPT !.status = "disabled", !.row = "deleted"]
  <2>1. row \in Placed
    BY <1>4, TypedParts DEF DeleteSource, SourceVisible, Placed, SourceRow
  <2>2. source' = [source EXCEPT ![s] = row]
    BY <1>4, TypedParts DEF DeleteSource
  <2> HIDE DEF row
  <2>3. source' \in [Sources -> Placed]
    BY <2>1, <2>2, SourceWritten
  <2>4. Becomes(r, drop(s))
    BY <1>4 DEF DeleteSource, Becomes
  <2> HIDE DEF drop
  <2>5. RequestsTyped
    BY <1>0, <2>4, RequestStep
  <2> QED BY <1>4, <2>3, <2>5, TypedParts DEF DeleteSource, TypedAfter, provider
<1>5. ASSUME NEW p \in Persons, NEW s \in Sources, NEW status \in {"ready", "paused"},
             UpdateSourceStatus(p, s, status)
      PROVE  TypedAfter
  <2>1. [source[s] EXCEPT !.status = status] \in Placed
    BY TypedParts DEF Placed, SourceRow
  <2>2. source' \in [Sources -> Placed]
    BY <1>5, <2>1, TypedParts DEF UpdateSourceStatus
  <2>3. RequestsTyped
    BY <1>5, RequestsSame DEF UpdateSourceStatus
  <2> QED BY <1>5, <2>2, <2>3, TypedParts DEF UpdateSourceStatus, TypedAfter, provider
<1>6. CASE PutSchedule(r)
  <2>1. schedule' \in [Sources -> Schedules]
    BY <1>6, TypedParts DEF PutSchedule, Schedules, Scheduled
  <2> QED BY <1>6, <2>1, ReleaseStep, TypedParts DEF PutSchedule, TypedAfter, database, provider
<1>7. CASE DropSchedule(r)
  <2>1. schedule' \in [Sources -> Schedules]
    BY <1>7, TypedParts DEF DropSchedule, Schedules
  <2> QED BY <1>7, <2>1, ReleaseStep, TypedParts DEF DropSchedule, TypedAfter, database, provider
<1> QED BY <1>1, <1>2, <1>3, <1>4, <1>5, <1>6, <1>7 DEF AskForSource

LEMMA RunsTyped ==
    ASSUME Typed, NEW w \in Runs, Ingest(w)
    PROVE  TypedAfter
<1>0. run[w] \in Working
  BY TypedParts
<1>r. RequestsTyped \/ ~UNCHANGED req
  BY RequestsSame
<1>1. ASSUME NEW s \in Sources, StartRun(w, s) PROVE TypedAfter
  <2> DEFINE c == source[s].conn
             runtime == Runtime(c)
             row == [source |-> s, grant |-> runtime.grant, rotated |-> FALSE, pc |-> runtime.pc]
  <2>1. runtime # None /\ run' = [run EXCEPT ![w] = row]
    BY <1>1 DEF StartRun
  <2>2. runtime.grant \in {secret[c], None} /\ runtime.pc \in {"refresh", "sync"}
    BY <2>1 DEF Runtime
  <2>3. c \in Connections
    BY <1>1, TypedParts DEF StartRun, Placed
  <2>5. runtime.grant \in Grant \cup {None}
    <3> HIDE DEF runtime, c
    <3> QED BY <2>2, <2>3, TypedParts
  <2>6. row \in Working
    <3> HIDE DEF runtime, c
    <3> QED BY <2>2, <2>5 DEF Run, Working
  <2> HIDE DEF row
  <2>7. run' \in [Runs -> Working]
    BY <2>1, <2>6, TypedParts
  <2> QED BY <1>r, <1>1, <2>7, TypedParts DEF StartRun, TypedAfter, database, provider
<1>2. CASE RunRefreshes(w)
  <2>1. run' \in [Runs -> Working] /\ valid' \subseteq Grant /\ issued' \in 0..MaxGrants
    <3>1. CASE run' = [run EXCEPT ![w] = NoRun] /\ UNCHANGED provider
      BY <3>1, NoRunType, TypedParts DEF provider
    <3>2. ASSUME NEW new \in Grant, Refresh(run[w].grant, new),
                 run' = [run EXCEPT ![w].pc = "sync", ![w].grant = new]
          PROVE  run' \in [Runs -> Working] /\ valid' \subseteq Grant /\ issued' \in 0..MaxGrants
      <4>1. [run[w] EXCEPT !.pc = "sync", !.grant = new] \in Working
        BY <1>0 DEF Run, Working
      <4> QED BY <3>2, <4>1, RefreshType, TypedParts
    <3> QED BY <1>2, <3>1, <3>2 DEF RunRefreshes
  <2> QED BY <1>r, <1>2, <2>1, TypedParts DEF RunRefreshes, TypedAfter, database
<1>3. CASE ConnectorRefreshes(w)
  <2>1. PICK new \in Grant : /\ Refresh(run[w].grant, new)
                             /\ run' = [run EXCEPT ![w].grant = new, ![w].rotated = TRUE]
    BY <1>3 DEF ConnectorRefreshes
  <2>2. [run[w] EXCEPT !.grant = new, !.rotated = TRUE] \in Working
    BY <1>0 DEF Run, Working
  <2>3. run' \in [Runs -> Working] /\ valid' \subseteq Grant /\ issued' \in 0..MaxGrants
    BY <2>1, <2>2, RefreshType, TypedParts
  <2> QED BY <1>r, <1>3, <2>3, TypedParts DEF ConnectorRefreshes, TypedAfter, database
<1>4. CASE RunEnds(w)
  <2> DEFINE c == source[run[w].source].conn
             persist == run[w].rotated /\ conn[c].row = "live"
             expiring == conn[c].expiring /\ ~persist
             row == [conn[c] EXCEPT !.expiring = expiring]
             g == IF persist THEN run[w].grant ELSE secret[c]
  <2>1. secret' \in [Connections -> Grant \cup {None}]
    <3>1. CASE c \in Connections
      <4>1. g \in Grant \cup {None}
        BY <1>0, <3>1, TypedParts DEF Run, Working
      <4>2. secret' = [secret EXCEPT ![c] = g]
        BY <1>4, <3>1, TypedParts DEF RunEnds
      <4> HIDE DEF g, c
      <4> QED BY <4>1, <4>2, SecretWritten
    <3>2. CASE c \notin Connections
      <4>1. secret' = secret
        BY <1>4, <3>2, TypedParts DEF RunEnds
      <4> QED BY <4>1, TypedParts
    <3> QED BY <3>1, <3>2
  <2>2. conn' \in [Connections -> Connection]
    <3>1. CASE c \in Connections
      <4>1. expiring \in BOOLEAN
        OBVIOUS
      <4>2. row \in Connection
        <5> HIDE DEF expiring
        <5> QED BY <3>1, <4>1, TypedParts DEF Connection
      <4>3. conn' = [conn EXCEPT ![c] = row]
        BY <1>4, <3>1, TypedParts DEF RunEnds
      <4> HIDE DEF row
      <4> QED BY <4>2, <4>3, RowWritten
    <3>2. CASE c \notin Connections
      <4>1. conn' = conn
        BY <1>4, <3>2, TypedParts DEF RunEnds
      <4> QED BY <4>1, TypedParts
    <3> QED BY <3>1, <3>2
  <2> QED BY <1>r, <1>4, <2>1, <2>2, NoRunType, TypedParts DEF RunEnds, TypedAfter, provider
<1>5. CASE RunCrashes(w)
  BY <1>r, <1>5, NoRunType, TypedParts DEF RunCrashes, TypedAfter, database, provider
<1> QED BY <1>1, <1>2, <1>3, <1>4, <1>5 DEF Ingest

LEMMA TypedNext == Typed /\ [Next]_vars => Typed'
<1> SUFFICES ASSUME Typed, [Next]_vars PROVE Typed'
  OBVIOUS
<1>1. CASE UNCHANGED vars
  BY <1>1 DEF vars, database, provider, Typed, TypeOK
<1>2. CASE Next
  <2>1. ASSUME NEW r \in Requests, Handle(r) PROVE TypedAfter
    BY <2>1, AuthorizeTyped, UseTyped, DisconnectTyped, SourcesTyped DEF Handle
  <2>2. ASSUME NEW r \in Requests, NEW p \in Persons, Ask(r, p) PROVE TypedAfter
    <3>1. CASE CompleteAuthorization(r, p)
      BY <3>1, AuthorizeTyped
    <3>2. ASSUME NEW c \in Connections, NEW op \in {"validate", "list"}, UseCredentials(r, p, c, op)
          PROVE  TypedAfter
      BY <3>2, UseTyped
    <3>3. ASSUME NEW c \in Connections, NEW op \in {"disconnect", "delete"}, Disconnect(r, p, c, op)
          PROVE  TypedAfter
      BY <3>3, DisconnectTyped
    <3>4. ASSUME NEW c \in Connections, NEW s \in Sources, NEW scheduled \in BOOLEAN,
                 CreateSource(r, p, c, s, scheduled)
          PROVE  TypedAfter
      BY <3>4, SourcesTyped
    <3> QED BY <2>2, <3>1, <3>2, <3>3, <3>4 DEF Ask
  <2>3. ASSUME NEW r \in Requests, NEW p \in Persons, NEW s \in Sources, AskForSource(r, p, s)
        PROVE  TypedAfter
    BY <2>3, SourcesTyped
  <2> QED BY <1>2, <2>1, <2>2, <2>3, SurroundingsTyped, ManageTyped, RunsTyped, TypedIf DEF Next
<1> QED BY <1>1, <1>2

(* Whatever people, requests, the provider and runs do, every column of a  *)
(* connection, a source and a secret holds a value it may hold: a new      *)
(* connection always finds a free name, and a secret is a grant or none.   *)
THEOREM TypeCorrect == Spec => []TypeOK
<1>1. Typed => TypeOK
  BY DEF Typed
<1> QED BY <1>1, TypedInit, TypedNext, PTL DEF Spec

-----------------------------------------------------------------------------
(* One request at a time *)

Same(c) ==
    /\ conn'[c].row = conn[c].row /\ conn'[c].status = conn[c].status
    /\ conn'[c].account = conn[c].account /\ conn'[c].keyless = conn[c].keyless
    /\ secret'[c] = secret[c]

(* No source comes to the connection c, and none begins to wait for it.    *)
Fewer(c) ==
    \A s \in Sources : source'[s].row = "live" /\ source'[s].conn = c =>
        source[s].row = "live" /\ source[s].conn = c
Quieter(c) ==
    /\ Fewer(c)
    /\ \A s \in Sources : source'[s].row = "live" /\ source'[s].conn = c
         /\ source'[s].status = "connection_required" => source[s].status = "connection_required"

LEMMA StayingSound ==
    ASSUME NEW c, Sound(c), Quieter(c), Same(c)
    PROVE  Sound(c)'
BY DEF Sound, Usable, Authorized, Waiting, SourcesOf, Quieter, Fewer, Same

LEMMA BecomingSound ==
    ASSUME NEW c, conn'[c].keyless \/ secret'[c] # None, Quieter(c),
           \/ ~Waiting(c)
           \/ (conn'[c].account = None \/ conn'[c].keyless) /\ conn'[c].status # "connected"
    PROVE  Sound(c)'
BY DEF Sound, Usable, Authorized, Waiting, SourcesOf, Quieter, Fewer

LEMMA StayingForgotten ==
    ASSUME NEW c, Forgotten(c), Fewer(c),
           conn'[c].row = "deleted" => conn[c].row = "deleted",
           conn[c].row = "deleted" => secret'[c] \in {secret[c], None}
    PROVE  Forgotten(c)'
BY DEF Forgotten, SourcesOf, Fewer

LEMMA SourcesUntouched == UNCHANGED source => \A c : Quieter(c)
BY DEF Quieter, Fewer

LEMMA SourcesRestored ==
    ASSUME Typed, NEW c, source' = Restore(c)
    PROVE  ~Waiting(c)' /\ \A d : Quieter(d)
<1>1. \A s \in Sources : source[s] \in Placed
  BY TypedParts
<1>2. \A s \in Sources : /\ source'[s].row = source[s].row /\ source'[s].conn = source[s].conn
                         /\ source'[s].status = source[s].status \/ source'[s].status = "ready"
  BY <1>1 DEF Restore, Placed, SourceRow
<1>3. \A s \in SourcesOf(c) : source'[s].status # "connection_required"
  BY <1>1 DEF Restore, SourcesOf, Placed, SourceRow
<1> QED BY <1>2, <1>3 DEF Waiting, SourcesOf, Quieter, Fewer

LEMMA SourcesSuspended ==
    ASSUME Typed, NEW c, source' = Suspend(c)
    PROVE  \A d : Fewer(d) /\ (d # c => Quieter(d))
<1>1. \A s \in Sources : source[s] \in Placed
  BY TypedParts
<1>2. \A s \in Sources : /\ source'[s].row = source[s].row /\ source'[s].conn = source[s].conn
                         /\ source'[s].status = source[s].status \/ source[s].conn = c
  BY <1>1 DEF Suspend, SourcesOf, Placed, SourceRow
<1> QED BY <1>2 DEF Quieter, Fewer

(* Only the request that moves has to be looked at.                        *)
OneRequest == \A p, q \in Requests : p = q

LEMMA OnlyRequest ==
    ASSUME OneRequest, NEW r \in Requests, Current(req[r])'
    PROVE  Stays'
BY DEF OneRequest, Stays

LEMMA RequestOver ==
    ASSUME Typed, OneRequest, NEW r \in Requests, Release(r)
    PROVE  Stays'
<1>1. req'[r] = NoRequest
  BY TypedParts DEF Release
<1> QED BY <1>1, OnlyRequest DEF Current, Using, NoRequest

(* What requests found out of the connection c is so after the step, too.  *)
StillUsable(c) ==
    /\ conn'[c].row = "live" /\ (conn[c].status \notin Needs => conn'[c].status \notin Needs)
    /\ conn'[c].account = conn[c].account /\ conn'[c].keyless = conn[c].keyless

LEMMA RequestWaits ==
    ASSUME Typed, Stays, UNCHANGED req,
           \A c \in Connections : conn[c].row = "live" => StillUsable(c)
    PROVE  Stays'
<1> SUFFICES ASSUME NEW r \in Requests PROVE Current(req[r])'
  BY DEF Stays
<1>1. Prepared(req[r]) /\ Current(req[r]) /\ req'[r] = req[r]
  BY TypedParts DEF Stays
<1> QED BY <1>1 DEF Prepared, Current, Using, Usable, Authorized, StillUsable

LEMMA RestParts ==
    /\ DeletedIsForgotten <=> \A c \in Connections : Forgotten(c)
    /\ DeletedIsForgotten' <=> \A c \in Connections : Forgotten(c)'
BY DEF DeletedIsForgotten, Forgotten, SourcesOf

(* Nothing is done to a connection, but that its access token ages.        *)
LEMMA NothingDone ==
    ASSUME Rest, UNCHANGED source, \A c \in Connections : Same(c)
    PROVE  Works' /\ DeletedIsForgotten'
<1>1. ASSUME NEW c \in Connections PROVE Sound(c)' /\ Forgotten(c)'
  <2>1. Sound(c) /\ Forgotten(c) /\ Quieter(c) /\ Same(c) /\ Fewer(c)
    BY RestParts, SourcesUntouched DEF Rest, Works, Quieter
  <2>2. Sound(c)'
    BY <2>1, StayingSound
  <2>3. Forgotten(c)'
    BY <2>1, StayingForgotten DEF Same
  <2> QED BY <2>2, <2>3
<1> QED BY <1>1, RestParts DEF Works

LEMMA SurroundingsRest ==
    ASSUME Typed, Rest,
           \/ \E p \in Persons : ChangePermission(p)
           \/ \E a \in Accounts : WithdrawGrants(a)
           \/ \E c \in Connections : AccessTokenAges(c)
           \/ \E w \in Runs : Ingest(w) /\ ~RunEnds(w)
    PROVE  Rest'
<1>1. /\ UNCHANGED <<secret, source, req>>
      /\ conn' = conn \/ \E c \in Connections : conn' = [conn EXCEPT ![c].expiring = TRUE]
  BY DEF ChangePermission, WithdrawGrants, AccessTokenAges, Ingest, StartRun, RunRefreshes,
         ConnectorRefreshes, RunCrashes, database
<1>2. \A c \in Connections : Same(c)
  BY <1>1, TypedParts DEF Same, Connection
<1>3. \A c \in Connections : conn[c].row = "live" => StillUsable(c)
  BY <1>2 DEF Same, StillUsable
<1> QED BY <1>1, <1>2, <1>3, NothingDone, RequestWaits DEF Rest

(* A run hands a grant back to a connection that is there.                 *)
LEMMA RunEndsRest ==
    ASSUME Typed, Rest, NEW w \in Runs, RunEnds(w)
    PROVE  Rest'
<1> DEFINE k == source[run[w].source].conn
           persist == run[w].rotated /\ conn[k].row = "live"
<1>1. /\ UNCHANGED <<source, req>>
      /\ secret' = [secret EXCEPT ![k] = IF persist THEN run[w].grant ELSE @]
      /\ conn' = [conn EXCEPT ![k].expiring = @ /\ ~persist]
  BY DEF RunEnds
<1>2. persist => run[w].grant # None
  BY TypedParts, NoneIsNoGrant DEF Working
<1>3. ASSUME NEW c \in Connections
      PROVE  /\ conn'[c].row = conn[c].row /\ conn'[c].status = conn[c].status
             /\ conn'[c].account = conn[c].account /\ conn'[c].keyless = conn[c].keyless
             /\ secret[c] # None => secret'[c] # None
             /\ conn[c].row # "live" => secret'[c] = secret[c]
  BY <1>1, <1>2, TypedParts DEF Connection
<1>4. ASSUME NEW c \in Connections PROVE Sound(c)'
  <2>1. Sound(c) /\ Quieter(c)
    BY <1>1, SourcesUntouched DEF Rest, Works
  <2>2. CASE ~Usable(c)
    BY <1>3, <2>2 DEF Sound, Usable
  <2>3. CASE Usable(c)
    <3>1. conn'[c].keyless \/ secret'[c] # None
      BY <1>3, <2>1, <2>3 DEF Sound
    <3>2. \/ ~Waiting(c)
          \/ (conn'[c].account = None \/ conn'[c].keyless) /\ conn'[c].status # "connected"
      BY <1>3, <2>1, <2>3 DEF Sound, Authorized
    <3> QED BY <2>1, <3>1, <3>2, BecomingSound
  <2> QED BY <2>2, <2>3
<1>5. ASSUME NEW c \in Connections PROVE Forgotten(c)'
  <2>1. Forgotten(c) /\ Fewer(c)
    BY <1>1, SourcesUntouched, RestParts DEF Rest, Quieter
  <2> QED BY <1>3, <2>1, StayingForgotten
<1>6. Stays'
  BY <1>1, <1>3, RequestWaits DEF Rest, StillUsable
<1> QED BY <1>4, <1>5, <1>6, RestParts DEF Rest, Works

(* A pasted credential, or a new connection that needs none, makes one     *)
(* that nobody has tested.                                                 *)
Pasted(k) ==
    /\ UNCHANGED <<source, req>>
    /\ conn'[k].keyless \/ secret'[k] # None
    /\ \A c \in Connections \ {k} : secret'[c] = secret[c]
    /\ conn[k].row # "deleted"
    /\ conn[k].row = "live" => conn[k].account = None /\ conn'[k].keyless = conn[k].keyless
    /\ conn'[k].row = "live" /\ conn'[k].status = "draft" /\ conn'[k].account = None
    /\ \A c \in Connections \ {k} : conn'[c] = conn[c]

LEMMA PasteStores ==
    ASSUME Typed, NEW k \in Connections, Paste(k)
    PROVE  secret'[k] # None /\ \A c \in Connections \ {k} : secret'[c] = secret[c]
BY TypedParts, NoneIsNoGrant DEF Paste, Store

LEMMA ManagePastes ==
    ASSUME Typed, NEW p \in Persons, Manage(p)
    PROVE  \E k \in Connections : Pasted(k)
<1>1. ASSUME NEW owner \in {None, p}, CreateConnection(p, owner)
      PROVE  \E k \in Connections : Pasted(k)
  <2>1. PICK k \in Connections, keyless \in BOOLEAN :
          /\ conn[k].row = "none"
          /\ conn' = [conn EXCEPT ![k] = [NoConnection EXCEPT !.row = "live",
                         !.owner = owner, !.name = Candidate(None), !.keyless = keyless]]
          /\ Paste(k) \/ (keyless /\ UNCHANGED <<secret, provider>>)
    BY <1>1 DEF CreateConnection
  <2>2. /\ conn'[k].row = "live" /\ conn'[k].status = "draft" /\ conn'[k].account = None
        /\ conn'[k].keyless = keyless
    BY <2>1, TypedParts DEF NoConnection
  <2>3. \A c \in Connections \ {k} : conn'[c] = conn[c]
    BY <2>1, TypedParts
  <2>4. (keyless \/ secret'[k] # None) /\ \A c \in Connections \ {k} : secret'[c] = secret[c]
    BY <2>1, PasteStores
  <2> QED BY <1>1, <2>1, <2>2, <2>3, <2>4 DEF CreateConnection, Pasted
<1>2. ASSUME NEW k \in Connections, UpdateConnection(p, k) PROVE Pasted(k)
  <2>1. secret'[k] # None /\ \A c \in Connections \ {k} : secret'[c] = secret[c]
    BY <1>2, PasteStores DEF UpdateConnection
  <2>2. conn[k].row = "live" /\ conn[k].account = None /\ conn[k] \in Connection
    BY <1>2, TypedParts DEF UpdateConnection, Visible
  <2>3. /\ conn'[k].row = "live" /\ conn'[k].status = "draft" /\ conn'[k].account = None
        /\ conn'[k].keyless = conn[k].keyless
    BY <1>2, <2>2, TypedParts DEF UpdateConnection, Connection
  <2>4. \A c \in Connections \ {k} : conn'[c] = conn[c]
    BY <1>2, TypedParts DEF UpdateConnection
  <2> QED BY <1>2, <2>1, <2>2, <2>3, <2>4 DEF UpdateConnection, Pasted
<1> QED BY <1>1, <1>2 DEF Manage

LEMMA ManageRest ==
    ASSUME Typed, Rest, NEW p \in Persons, Manage(p)
    PROVE  Rest'
<1> PICK k \in Connections : Pasted(k)
  BY ManagePastes
<1> USE DEF Pasted
<1>2. ASSUME NEW c \in Connections PROVE Sound(c)' /\ Forgotten(c)'
  <2>1. Sound(c) /\ Forgotten(c) /\ Quieter(c) /\ Fewer(c)
    BY SourcesUntouched, RestParts DEF Rest, Works, Quieter
  <2>2. CASE c = k
    <3>1. Sound(c)'
      BY <2>1, <2>2, BecomingSound
    <3>2. Forgotten(c)'
      BY <2>2 DEF Forgotten
    <3> QED BY <3>1, <3>2
  <2>3. CASE c # k
    <3>1. Same(c)
      BY <2>3 DEF Same
    <3> QED BY <2>1, <3>1, StayingSound, StayingForgotten DEF Same
  <2> QED BY <2>2, <2>3
<1>3. \A c \in Connections : conn[c].row = "live" => StillUsable(c)
  BY DEF StillUsable, Needs
<1>4. Stays'
  BY <1>3, RequestWaits DEF Rest
<1> QED BY <1>2, <1>4, RestParts DEF Rest, Works

-----------------------------------------------------------------------------
(* What a request does to its connection *)

(* Requests that read, wait for Temporal or the provider, or are given up. *)
LEMMA OthersRest ==
    ASSUME Typed, Rest, OneRequest, NEW r \in Requests, UNCHANGED database, Current(req[r])'
    PROVE  Rest'
<1>1. UNCHANGED source /\ \A c \in Connections : Same(c)
  BY DEF database, Same
<1>2. Works' /\ DeletedIsForgotten'
  BY <1>1, NothingDone
<1> QED BY <1>2, OnlyRequest DEF Rest

LEMMA ReportKnown ==
    ASSUME Typed, Rest, NEW r \in Requests, NEW status \in {"reauth_required", "expired", "error"},
           Reports(r, status), UNCHANGED conn, status \in Needs \/ Using(req[r])
    PROVE  Current(req[r])'
<1>1. req'[r] = [NoRequest EXCEPT !.pc = "health", !.report = status, !.conn = req[r].conn]
  BY TypedParts DEF Reports
<1>2. Current(req[r])
  BY DEF Rest, Stays
<1> QED BY <1>1, <1>2 DEF Current, Using, Usable, Authorized, NoRequest, Needs

LEMMA WaitingRest ==
    ASSUME Typed, Rest, OneRequest, NEW r \in Requests,
           \/ \E p \in Persons : CompleteAuthorization(r, p)
           \/ \E p \in Persons, s \in Sources : SetSchedule(r, p, s) \/ ClearSchedule(r, p, s)
           \/ \E p \in Persons, c \in Connections, op \in {"disconnect", "delete"} : Disconnect(r, p, c, op)
           \/ Exchange(r) \/ StopSchedules(r) \/ PutSchedule(r) \/ DropSchedule(r) \/ Crash(r)
    PROVE  Rest'
<1>1. UNCHANGED database
  BY DEF CompleteAuthorization, SetSchedule, ClearSchedule, Disconnect, Exchange, StopSchedules,
         PutSchedule, DropSchedule, Crash
<1>2. req'[r].pc \in {"idle", "exchange", "record", "put", "drop", "revoke"}
  <2>1. ASSUME Release(r) PROVE req'[r].pc = "idle"
    BY <2>1, TypedParts DEF Release, NoRequest
  <2>2. ASSUME NEW p \in Persons, CompleteAuthorization(r, p) PROVE req'[r].pc = "exchange"
    BY <2>2, TypedParts DEF CompleteAuthorization, NoRequest
  <2>3. ASSUME NEW p \in Persons, NEW s \in Sources, SetSchedule(r, p, s) \/ ClearSchedule(r, p, s)
        PROVE  req'[r].pc \in {"put", "drop"}
    BY <2>3, TypedParts DEF SetSchedule, ClearSchedule, NoRequest
  <2>4. ASSUME NEW p \in Persons, NEW c \in Connections, NEW op \in {"disconnect", "delete"},
               Disconnect(r, p, c, op)
        PROVE  req'[r].pc = "revoke"
    BY <2>4, TypedParts DEF Disconnect, NoRequest
  <2>5. ASSUME NEW g, req' = [req EXCEPT ![r].pc = "record", ![r].grant = g] PROVE req'[r].pc = "record"
    BY <2>5, TypedParts DEF Request
  <2> QED BY <2>1, <2>2, <2>3, <2>4, <2>5 DEF Exchange, StopSchedules, PutSchedule, DropSchedule, Crash
<1>3. Current(req[r])'
  BY <1>2 DEF Current, Using
<1> QED BY <1>1, <1>3, OthersRest

LEMMA ReadingRest ==
    ASSUME Typed, Rest, OneRequest, NEW r \in Requests,
           \/ \E p \in Persons, c \in Connections, op \in {"validate", "list"} : UseCredentials(r, p, c, op)
           \/ RefreshReturns(r) \/ ProbeFails(r)
    PROVE  Rest'
<1>0. UNCHANGED database /\ UNCHANGED conn
  BY DEF UseCredentials, RefreshReturns, ProbeFails, database
<1>1. ASSUME NEW p \in Persons, NEW c \in Connections, NEW op \in {"validate", "list"}, UseCredentials(r, p, c, op)
      PROVE  Current(req[r])'
  <2> DEFINE begin == [NoRequest EXCEPT !.op = op, !.conn = c, !.seen = conn[c].status, !.grant = secret[c]]
             fail(status) == [NoRequest EXCEPT !.pc = "health", !.conn = c, !.report = status]
             refresh == conn[c].account # None /\ conn[c].expiring
  <2>1. req'[r] = IF conn[c].keyless THEN [begin EXCEPT !.pc = "probe", !.grant = None]
                  ELSE IF conn[c].status \in Needs THEN fail("reauth_required")
                  ELSE IF secret[c] = None
                    THEN fail(IF conn[c].expiring THEN "expired" ELSE "reauth_required")
                  ELSE [begin EXCEPT !.pc = IF refresh THEN "refresh" ELSE "probe"]
    BY <1>1, TypedParts DEF UseCredentials
  <2>2. conn[c].row = "live" /\ (op = "list" => Authorized(c))
    BY <1>1 DEF UseCredentials, Visible, Authorized
  <2>5. CASE conn[c].keyless
    <3>1. req'[r] = [begin EXCEPT !.pc = "probe", !.grant = None]
      BY <2>1, <2>5
    <3>2. /\ req'[r].conn = c /\ req'[r].op = op /\ ~req'[r].dirty /\ req'[r].pc = "probe"
      BY <3>1 DEF NoRequest
    <3> QED BY <1>0, <2>2, <2>5, <3>2 DEF Current, Using, Usable, Authorized
  <2>3. CASE ~conn[c].keyless /\ (conn[c].status \in Needs \/ secret[c] = None)
    <3>1. req'[r] \in {fail("reauth_required"), fail("expired")}
      BY <2>1, <2>3
    <3>2. req'[r].pc = "health" /\ req'[r].report \in Needs
      BY <3>1 DEF NoRequest, Needs
    <3> QED BY <3>2 DEF Current, Using
  <2>4. CASE ~conn[c].keyless /\ conn[c].status \notin Needs /\ secret[c] # None
    <3>1. req'[r] = [begin EXCEPT !.pc = IF refresh THEN "refresh" ELSE "probe"]
      BY <2>1, <2>4
    <3>2. /\ req'[r].conn = c /\ req'[r].op = op /\ ~req'[r].dirty
          /\ req'[r].pc = IF refresh THEN "refresh" ELSE "probe"
      BY <3>1 DEF NoRequest
    <3> QED BY <1>0, <2>2, <2>4, <3>2 DEF Current, Using, Usable, Authorized
  <2> QED BY <2>3, <2>4, <2>5
<1>2. ASSUME RefreshReturns(r) PROVE Current(req[r])'
  <2>1. req[r].pc = "refresh" /\ Current(req[r])
    BY <1>2 DEF RefreshReturns, Rest, Stays
  <2>2. ASSUME NEW status \in {"expired", "error"}, Reports(r, status) PROVE Current(req[r])'
    BY <1>0, <2>1, <2>2, ReportKnown DEF Using
  <2>3. ASSUME NEW new \in Grant, req' = [req EXCEPT ![r].pc = "probe", ![r].grant = new, ![r].dirty = TRUE]
        PROVE  Current(req[r])'
    <3>1. req'[r].conn = req[r].conn /\ req'[r].pc = "probe"
      BY <2>3, TypedParts DEF Request
    <3> QED BY <1>0, <2>1, <3>1 DEF Current, Using, Usable, Authorized
  <2> QED BY <1>2, <2>2, <2>3 DEF RefreshReturns
<1>3. ASSUME ProbeFails(r) PROVE Current(req[r])'
  <2>1. PICK status \in {"reauth_required", "error"} : Reports(r, status)
    BY <1>3 DEF ProbeFails, Probe, ListResources, TestConnection, TestDirectory
  <2> QED BY <1>0, <1>3, <2>1, ReportKnown DEF ProbeFails, Using
<1> QED BY <1>0, <1>1, <1>2, <1>3, OthersRest

(* What a request that has used the secret leaves of its connection.       *)
LEMMA CommitEffect ==
    ASSUME Typed, Rest, NEW r \in Requests, NEW healthy \in BOOLEAN, Commit(r, healthy),
           req[r].pc = "probe"
    PROVE  LET c == req[r].conn IN
             /\ c \in Connections /\ conn[c].row = "live"
             /\ conn[c].keyless \/ (Usable(c) /\ secret'[c] # None)
             /\ conn'[c].row = conn[c].row /\ conn'[c].account = conn[c].account
             /\ conn'[c].keyless = conn[c].keyless
             /\ conn'[c].status = conn[c].status \/ healthy
             /\ \A d \in Connections \ {c} : Same(d)
<1> DEFINE c == req[r].conn
           status == IF healthy /\ req[r].seen # "connected" THEN "connected" ELSE conn[c].status
           expiring == conn[c].expiring /\ ~req[r].dirty
           g == IF req[r].dirty THEN req[r].grant ELSE secret[c]
<1>1. Prepared(req[r]) /\ Current(req[r])
  BY TypedParts DEF Rest, Stays
<1>2. /\ c \in Connections /\ conn[c].row = "live" /\ conn[c] \in Connection
      /\ conn[c].keyless \/ Usable(c)
  BY <1>1, TypedParts DEF Prepared, Current, Using
<1>3. conn' = [conn EXCEPT ![c] = [conn[c] EXCEPT !.status = status, !.expiring = expiring]]
  BY <1>2, TypedParts DEF Commit
<1>4. secret' = [secret EXCEPT ![c] = g]
  BY <1>2, TypedParts DEF Commit
<1>5. conn[c].keyless \/ g # None
  BY <1>1, <1>2, NoneIsNoGrant DEF Prepared, Rest, Works, Sound
<1>6. /\ conn'[c].row = conn[c].row /\ conn'[c].account = conn[c].account
      /\ conn'[c].keyless = conn[c].keyless /\ conn'[c].status = status
  <2> HIDE DEF c, status, expiring
  <2> QED BY <1>2, <1>3, TypedParts DEF Connection
<1>7. \A d \in Connections \ {c} : Same(d)
  <2> HIDE DEF c, g
  <2> QED BY <1>3, <1>4, TypedParts DEF Same
<1>8. conn[c].keyless \/ secret'[c] # None
  <2> HIDE DEF c, g
  <2> QED BY <1>2, <1>4, <1>5, TypedParts
<1> QED BY <1>2, <1>6, <1>7, <1>8

(* A connection of which nothing waits is used, and nothing else is done.  *)
LEMMA OneConnection ==
    ASSUME Typed, Rest, NEW c \in Connections, Sound(c)', Forgotten(c)',
           \A d \in Connections \ {c} : Same(d) /\ Quieter(d)
    PROVE  Works' /\ DeletedIsForgotten'
<1>1. ASSUME NEW d \in Connections, d # c PROVE Sound(d)' /\ Forgotten(d)'
  <2>1. Sound(d) /\ Forgotten(d) /\ Same(d) /\ Quieter(d) /\ Fewer(d)
    BY <1>1, RestParts DEF Rest, Works, Quieter
  <2>2. Sound(d)'
    BY <2>1, StayingSound
  <2>3. Forgotten(d)'
    BY <2>1, StayingForgotten DEF Same
  <2> QED BY <2>2, <2>3
<1> QED BY <1>1, RestParts DEF Works

LEMMA UsingRest ==
    ASSUME Typed, Rest, OneRequest, NEW r \in Requests, Validated(r) \/ Listed(r)
    PROVE  Rest'
<1>1. Release(r) /\ req[r].pc = "probe"
  BY DEF Validated, Listed
<1> PICK c \in Connections : c = req[r].conn
  BY <1>1, TypedParts DEF Prepared
<1>2. PICK healthy \in BOOLEAN : Commit(r, healthy) /\ (Listed(r) => healthy = req[r].dirty)
  <2>1. req[r].dirty \in BOOLEAN
    BY TypedParts DEF Request
  <2>2. CASE Listed(r)
    BY <2>1, <2>2 DEF Listed
  <2>3. CASE ~Listed(r)
    BY <2>3 DEF Validated
  <2> QED BY <2>2, <2>3
<1>3. /\ c \in Connections /\ conn[c].row = "live"
      /\ conn[c].keyless \/ (Usable(c) /\ secret'[c] # None)
      /\ conn'[c].row = conn[c].row /\ conn'[c].account = conn[c].account
      /\ conn'[c].keyless = conn[c].keyless
      /\ conn'[c].status = conn[c].status \/ healthy
      /\ \A d \in Connections \ {c} : Same(d)
  BY <1>1, <1>2, CommitEffect
<1>4. Forgotten(c)'
  BY <1>3 DEF Forgotten
<1>5. CASE Validated(r)
  <2>1. ~Waiting(c)' /\ \A d : Quieter(d)
    BY <1>5, SourcesRestored DEF Validated
  <2>2. Sound(c)'
    BY <1>3, <2>1 DEF Sound
  <2> QED BY <1>1, <1>3, <1>4, <2>1, <2>2, OneConnection, RequestOver DEF Rest
<1>6. CASE Listed(r)
  <2>1. \A d : Quieter(d)
    BY <1>6, SourcesUntouched DEF Listed
  <2>2. Authorized(c)
    BY <1>6 DEF Listed, Rest, Stays, Current
  <2>3. ~Waiting(c)
    BY <1>3, <2>2 DEF Authorized, Rest, Works, Sound
  <2>4. Sound(c)'
    BY <1>3, <2>1, <2>2, <2>3, BecomingSound DEF Authorized
  <2> QED BY <1>1, <1>3, <1>4, <2>1, <2>4, OneConnection, RequestOver DEF Rest
<1> QED BY <1>5, <1>6

LEMMA HealthRest ==
    ASSUME Typed, Rest, OneRequest, NEW r \in Requests, RecordHealth(r)
    PROVE  Rest'
<1> PICK c \in Connections : c = req[r].conn
  BY TypedParts DEF RecordHealth, Prepared
<1> PICK status : status = req[r].report
  OBVIOUS
<1>1. /\ req[r].pc = "health" /\ Release(r) /\ UNCHANGED secret
      /\ \/ /\ conn[c].row = "live" /\ conn' = [conn EXCEPT ![c].status = status]
            /\ source' = IF status \in Needs THEN Suspend(c) ELSE source
         \/ UNCHANGED <<conn, source>>
  BY DEF RecordHealth
<1>2. Stays'
  BY <1>1, RequestOver
<1>3. CASE UNCHANGED <<conn, source>>
  BY <1>1, <1>2, <1>3, NothingDone DEF Rest, Same
<1>4. CASE ~UNCHANGED <<conn, source>>
  <2>1. c \in Connections /\ Prepared(req[r]) /\ Current(req[r]) /\ conn[c] \in Connection
    BY <1>1, TypedParts DEF Prepared, Rest, Stays
  <2>2. /\ conn[c].row = "live" /\ conn' = [conn EXCEPT ![c] = [conn[c] EXCEPT !.status = status]]
        /\ source' = IF status \in Needs THEN Suspend(c) ELSE source
    BY <1>1, <1>4, <2>1, TypedParts
  <2>3. /\ conn'[c].row = "live" /\ conn'[c].status = status
        /\ conn'[c].account = conn[c].account /\ conn'[c].keyless = conn[c].keyless
    BY <2>1, <2>2, TypedParts DEF Connection
  <2>4. \A d \in Connections \ {c} : Same(d) /\ Quieter(d)
    BY <1>1, <2>2, SourcesSuspended, SourcesUntouched, TypedParts DEF Same
  <2>5. Forgotten(c)'
    BY <2>3 DEF Forgotten
  <2>6. Sound(c)'
    <3>1. CASE status \in Needs
      BY <2>3, <3>1 DEF Sound, Usable
    <3>2. CASE status \notin Needs
      <4>1. (conn[c].keyless \/ Usable(c)) /\ Sound(c) /\ status # "connected" /\ Quieter(c)
        BY <1>1, <2>1, <2>2, <3>2, SourcesUntouched DEF Current, Using, Prepared, Rest, Works
      <4>2. \/ ~Waiting(c)
            \/ conn[c].account = None \/ conn[c].keyless
        BY <4>1 DEF Sound, Authorized
      <4>3. conn[c].keyless \/ secret[c] # None
        BY <4>1 DEF Sound
      <4> QED BY <1>1, <2>3, <4>1, <4>2, <4>3, BecomingSound
    <3> QED BY <3>1, <3>2
  <2> QED BY <1>2, <2>1, <2>4, <2>5, <2>6, OneConnection DEF Rest
<1> QED BY <1>3, <1>4

(* An authorized account: the connection has its grant, nothing waits.     *)
LEMMA AuthorizeRest ==
    ASSUME Typed, Rest, OneRequest, NEW r \in Requests, RecordAuthorization(r)
    PROVE  Rest'
<1> DEFINE p == req[r].who
           pending == req[r].pending
           account == req[r].grant.account
<1>1. PICK c \in Target(p, pending, account) :
        /\ \/ Visible(p, c)
              /\ conn' = [conn EXCEPT ![c].account = account,
                            ![c].status = "connected", ![c].expiring = FALSE]
           \/ /\ conn[c].row = "none"
              /\ conn' = [conn EXCEPT ![c] = [row |-> "live",
                     status |-> "connected", account |-> account,
                     owner |-> pending.owner, expiring |-> FALSE,
                     name |-> Candidate(account), keyless |-> FALSE]]
        /\ Store(c, req[r].grant)
        /\ source' = Restore(c)
  BY DEF RecordAuthorization
<1>2. Release(r) /\ req[r].pc = "record"
  BY DEF RecordAuthorization
<1>3. pending \in Pending /\ req[r].grant \in Grant
  BY <1>2, TypedParts DEF Prepared
<1>4. c \in Connections
  BY <1>1, <1>3 DEF Target, ByAccount, Pending
<1>5. secret'[c] # None /\ \A d \in Connections \ {c} : secret'[d] = secret[d]
  BY <1>1, <1>3, <1>4, NoneIsNoGrant, TypedParts DEF Store
<1>6. conn'[c].row = "live"
  <2>1. conn[c] \in Connection /\ conn[c].row \in {"none", "live", "deleted"}
    BY <1>4, TypedParts DEF Connection
  <2> HIDE DEF account, pending
  <2> QED BY <1>1, <1>4, <2>1, TypedParts DEF Visible, Connection
<1>7. \A d \in Connections \ {c} : conn'[d] = conn[d]
  <2> HIDE DEF account, pending
  <2> QED BY <1>1, <1>4, TypedParts
<1>8. ~Waiting(c)' /\ \A d : Quieter(d)
  BY <1>1, SourcesRestored
<1>9. Sound(c)' /\ Forgotten(c)'
  BY <1>5, <1>6, <1>8 DEF Sound, Forgotten
<1>10. \A d \in Connections \ {c} : Same(d) /\ Quieter(d)
  BY <1>5, <1>7, <1>8 DEF Same
<1> QED BY <1>2, <1>4, <1>9, <1>10, OneConnection, RequestOver DEF Rest

(* Disconnected or deleted: the secret is cleared, the sources wait or go. *)
LEMMA ForgetRest ==
    ASSUME Typed, Rest, OneRequest, NEW r \in Requests, Forget(r)
    PROVE  Rest'
<1> PICK c \in Connections : c = req[r].conn
  BY TypedParts DEF Forget, Prepared
<1> DEFINE delete == req[r].op = "delete"
           standing == IF delete THEN "deleted" ELSE conn[c].row
<1>1. conn[c] \in Connection
  BY TypedParts
<1>2. conn' = [conn EXCEPT ![c] = [conn[c] EXCEPT !.status = "disconnected", !.expiring = FALSE,
                                                  !.row = standing]]
  BY <1>1, TypedParts DEF Forget
<1>3. conn'[c].row = standing /\ conn'[c].status = "disconnected"
  <2> HIDE DEF standing
  <2> QED BY <1>1, <1>2, TypedParts DEF Connection
<1>4. secret'[c] = None /\ \A d \in Connections \ {c} : secret'[d] = secret[d] /\ conn'[d] = conn[d]
  <2>1. secret' = [secret EXCEPT ![c] = None]
    BY DEF Forget, Clear
  <2> HIDE DEF standing
  <2> QED BY <1>1, <1>2, <2>1, TypedParts
<1>5. \A s \in Sources :
        /\ source'[s].conn = source[s].conn
        /\ source'[s].row = IF delete /\ s \in SourcesOf(c) THEN "deleted" ELSE source[s].row
        /\ s \notin SourcesOf(c) => source'[s] = source[s]
  <2>1. source' = [s \in Sources |->
           IF delete /\ s \in SourcesOf(c)
             THEN [Suspend(c)[s] EXCEPT !.row = "deleted"] ELSE Suspend(c)[s]]
    BY DEF Forget
  <2>2. \A s \in Sources : source[s] \in Placed
    BY TypedParts
  <2> DEFINE suspended == Suspend(c)
  <2>3. \A s \in Sources : /\ suspended[s] \in Placed
                           /\ suspended[s].row = source[s].row /\ suspended[s].conn = source[s].conn
                           /\ s \notin SourcesOf(c) => suspended[s] = source[s]
    BY <2>2, SuspendType DEF Suspend, Placed, SourceRow
  <2> HIDE DEF suspended, delete
  <2> QED BY <2>1, <2>3 DEF Placed, SourceRow, suspended
<1>6. Fewer(c) /\ \A d \in Connections \ {c} : Quieter(d)
  BY <1>5 DEF Quieter, Fewer, SourcesOf
<1>7. Sound(c)'
  BY <1>3 DEF Sound, Usable, Needs
<1>8. Forgotten(c)'
  <2>1. CASE delete
    <3>1. \A s \in Sources : ~(source'[s].row = "live" /\ source'[s].conn = c)
      BY <1>5, <2>1 DEF SourcesOf
    <3> QED BY <1>4, <3>1 DEF Forgotten, SourcesOf
  <2>2. CASE ~delete
    BY <1>1, <1>3, <1>4, <1>6, <2>2, StayingForgotten, RestParts DEF Rest
  <2> QED BY <2>1, <2>2
<1>9. Stays'
  <2>1. req'[r].pc = "schedules"
    BY TypedParts DEF Forget, Request
  <2>2. Current(req[r])'
    BY <2>1 DEF Current, Using
  <2> QED BY <2>2, OnlyRequest
<1>10. \A d \in Connections \ {c} : Same(d) /\ Quieter(d)
  BY <1>4, <1>6 DEF Same
<1> QED BY <1>1, <1>7, <1>8, <1>9, <1>10, OneConnection DEF Rest

(* A source is only created on a connection that is there, and waits if it *)
(* cannot be used.                                                         *)
LEMMA CreateRest ==
    ASSUME Typed, Rest, OneRequest, NEW r \in Requests, NEW p \in Persons, NEW c \in Connections,
           NEW s \in Sources, NEW scheduled \in BOOLEAN, CreateSource(r, p, c, s, scheduled)
    PROVE  Rest'
<1>1. conn[c].row = "live" /\ source[s].row = "none" /\ req[r].pc = "idle" /\ UNCHANGED <<conn, secret>>
  BY DEF CreateSource, Visible
<1>2. source' = [source EXCEPT ![s] = [row |-> "live", conn |-> c,
         status |-> IF conn[c].status \in Needs THEN "connection_required" ELSE "ready"]]
  BY DEF CreateSource
<1>3. /\ source'[s].row = "live" /\ source'[s].conn = c
      /\ source'[s].status = IF conn[c].status \in Needs THEN "connection_required" ELSE "ready"
      /\ \A x \in Sources \ {s} : source'[x] = source[x]
  BY <1>2, TypedParts
<1>4. \A d \in Connections \ {c} : Same(d) /\ Quieter(d)
  BY <1>1, <1>3 DEF Same, Quieter, Fewer
<1>5. Forgotten(c)'
  BY <1>1 DEF Forgotten
<1>6. Sound(c)'
  <2>1. CASE conn[c].status \in Needs
    BY <1>1, <2>1 DEF Sound, Usable
  <2>2. CASE conn[c].status \notin Needs
    <3>1. Sound(c) /\ Usable(c)
      BY <1>1, <2>2 DEF Usable, Rest, Works
    <3>2. Waiting(c)' => Waiting(c)
      BY <1>3, <2>2 DEF Waiting, SourcesOf
    <3> QED BY <1>1, <3>1, <3>2 DEF Sound, Authorized
  <2> QED BY <2>1, <2>2
<1>7. Stays'
  <2>1. req'[r] = [NoRequest EXCEPT !.pc = "put", !.sources = {s}] \/ req'[r] = req[r]
    BY TypedParts DEF CreateSource
  <2>2. req'[r].pc \in {"put", "idle"}
    BY <1>1, <2>1 DEF NoRequest
  <2>3. Current(req[r])'
    BY <2>2 DEF Current, Using
  <2> QED BY <2>3, OnlyRequest
<1> QED BY <1>4, <1>5, <1>6, <1>7, OneConnection DEF Rest

LEMMA SourceRest ==
    ASSUME Typed, Rest, OneRequest, NEW r \in Requests, NEW p \in Persons, NEW s \in Sources,
           \/ DeleteSource(r, p, s)
           \/ \E status \in {"ready", "paused"} : UpdateSourceStatus(p, s, status)
    PROVE  Rest'
<1>1. UNCHANGED <<conn, secret>> /\ source[s] \in Placed
  BY TypedParts DEF DeleteSource, UpdateSourceStatus
<1>2. /\ source'[s].conn = source[s].conn /\ source[s].row = "live"
      /\ source'[s].status # "connection_required"
      /\ \A x \in Sources \ {s} : source'[x] = source[x]
  <2>1. CASE DeleteSource(r, p, s)
    <3>1. source' = [source EXCEPT ![s] = [source[s] EXCEPT !.status = "disabled", !.row = "deleted"]]
      BY <2>1, TypedParts DEF DeleteSource
    <3> QED BY <1>1, <2>1, <3>1, TypedParts DEF DeleteSource, SourceVisible, Placed, SourceRow
  <2>2. ASSUME NEW status \in {"ready", "paused"}, UpdateSourceStatus(p, s, status)
        PROVE  /\ source'[s].conn = source[s].conn /\ source[s].row = "live"
               /\ source'[s].status # "connection_required"
               /\ \A x \in Sources \ {s} : source'[x] = source[x]
    <3>1. source' = [source EXCEPT ![s] = [source[s] EXCEPT !.status = status]]
      BY <2>2, TypedParts DEF UpdateSourceStatus
    <3> QED BY <1>1, <2>2, <3>1, TypedParts DEF UpdateSourceStatus, SourceVisible, Placed, SourceRow
  <2> QED BY <2>1, <2>2
<1>3. \A d \in Connections : Quieter(d) /\ Fewer(d) /\ Same(d)
  BY <1>1, <1>2 DEF Quieter, Fewer, Same
<1>4. ASSUME NEW d \in Connections PROVE Sound(d)' /\ Forgotten(d)'
  <2>1. Sound(d) /\ Forgotten(d)
    BY RestParts DEF Rest, Works
  <2> QED BY <1>1, <1>3, <2>1, StayingSound, StayingForgotten
<1>5. Stays'
  <2>1. CASE DeleteSource(r, p, s)
    <3>1. req'[r] = [NoRequest EXCEPT !.pc = "drop", !.sources = {s}]
      BY <2>1, TypedParts DEF DeleteSource
    <3>2. req'[r].pc = "drop"
      BY <3>1 DEF NoRequest
    <3>3. Current(req[r])'
      BY <3>2 DEF Current, Using
    <3> QED BY <3>3, OnlyRequest
  <2>2. CASE \E status \in {"ready", "paused"} : UpdateSourceStatus(p, s, status)
    BY <1>1, <2>2, RequestWaits DEF UpdateSourceStatus, Rest, StillUsable
  <2> QED BY <2>1, <2>2
<1> QED BY <1>4, <1>5, RestParts DEF Rest, Works

LEMMA RestInit == Init => Rest
<1> SUFFICES ASSUME Init PROVE Rest
  OBVIOUS
<1>1. Stays
  BY DEF Init, Stays, Current, Using, NoRequest
<1>2. \A c \in Connections : Sound(c) /\ Forgotten(c)
  BY DEF Init, Sound, Forgotten, Usable, NoConnection
<1> QED BY <1>1, <1>2, RestParts DEF Rest, Works

LEMMA RestNext == OneRequest /\ Typed /\ Rest /\ [Next]_vars => Rest'
<1> SUFFICES ASSUME OneRequest, Typed, Rest, [Next]_vars PROVE Rest'
  OBVIOUS
<1>1. CASE UNCHANGED vars
  <2>1. UNCHANGED <<conn, secret, source, req>>
    BY <1>1 DEF vars, database
  <2> QED BY <2>1, NothingDone, RequestWaits DEF Rest, Same, StillUsable
<1>2. CASE Next
  <2>1. ASSUME NEW r \in Requests, Handle(r) PROVE Rest'
    BY <2>1, WaitingRest, ReadingRest, UsingRest, HealthRest, AuthorizeRest, ForgetRest DEF Handle
  <2>2. ASSUME NEW r \in Requests, NEW p \in Persons, Ask(r, p) PROVE Rest'
    <3>1. CASE CompleteAuthorization(r, p)
      BY <3>1, WaitingRest
    <3>2. ASSUME NEW c \in Connections, NEW op \in {"validate", "list"}, UseCredentials(r, p, c, op)
          PROVE  Rest'
      BY <3>2, ReadingRest
    <3>3. ASSUME NEW c \in Connections, NEW op \in {"disconnect", "delete"}, Disconnect(r, p, c, op)
          PROVE  Rest'
      BY <3>3, WaitingRest
    <3>4. ASSUME NEW c \in Connections, NEW s \in Sources, NEW scheduled \in BOOLEAN,
                 CreateSource(r, p, c, s, scheduled)
          PROVE  Rest'
      BY <3>4, CreateRest
    <3> QED BY <2>2, <3>1, <3>2, <3>3, <3>4 DEF Ask
  <2>3. ASSUME NEW r \in Requests, NEW p \in Persons, NEW s \in Sources, AskForSource(r, p, s) PROVE Rest'
    BY <2>3, WaitingRest, SourceRest DEF AskForSource
  <2>4. ASSUME NEW w \in Runs, Ingest(w) PROVE Rest'
    BY <2>4, SurroundingsRest, RunEndsRest
  <2> QED BY <1>2, <2>1, <2>2, <2>3, <2>4, SurroundingsRest, ManageRest DEF Next
<1> QED BY <1>1, <1>2

(* When requests come one after another, whatever the runs do meanwhile, a *)
(* connection that says it is connected has a secret, unless its connector *)
(* asks for none, and none of its sources still waits for somebody to      *)
(* reconnect it.                                                           *)
THEOREM ConnectedStaysWorking ==
    ASSUME OneRequest
    PROVE  Spec => []ConnectedWorks
<1>1. Typed /\ Rest => ConnectedWorks
  BY DEF Rest, Works, Sound, Usable, Waiting, Needs, ConnectedWorks
<1>2. Init => Typed /\ Rest
  BY TypedInit, RestInit
<1>3. Typed /\ Rest /\ [Next]_vars => (Typed /\ Rest)'
  BY TypedNext, RestNext
<1> QED BY <1>1, <1>2, <1>3, PTL DEF Spec

(* When requests come one after another, nothing is left of a connection   *)
(* that was deleted: no run hands its secret back, and no source is left.  *)
THEOREM DeletedStaysForgotten ==
    ASSUME OneRequest
    PROVE  Spec => []DeletedIsForgotten
<1>1. Typed /\ Rest => DeletedIsForgotten
  BY DEF Rest
<1>2. Init => Typed /\ Rest
  BY TypedInit, RestInit
<1>3. Typed /\ Rest /\ [Next]_vars => (Typed /\ Rest)'
  BY TypedNext, RestNext
<1> QED BY <1>1, <1>2, <1>3, PTL DEF Spec

=============================================================================
