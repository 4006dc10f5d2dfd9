---------------------------- MODULE SandboxProofs ----------------------------
(***************************************************************************)
(* Proofs about Sandbox for any requests, threads, documents and bounds.   *)
(* The inductive invariant is Typed /\ Locked /\ Written /\ Told.          *)
(***************************************************************************)
EXTENDS Sandbox, SequenceTheorems, FiniteSetTheorems, WellFoundedInduction, TLAPS

Labels == {"idle", "configured", "ensure", "ensuring", "record", "recover", "recovering",
           "upload", "download", "expire", "lookup", "save", "commit", "list", "publish"}
Kinds == {"sample", "materialize", "promote", "publish"}

(* What may be held when there are s sessions, e environments, f files and *)
(* d artifacts: a number never points past the end of what it numbers.     *)
Local(s, e, f, d) ==
    [doc : Docs \cup {None}, session : 0..s, env : 0..e, file : 0..f, target : 0..d,
     revision : 0..MaxRevisions, todo : SUBSET Docs]
Known(s, e, f) == [loaded : BOOLEAN, id : 0..s, materialized : SUBSET Docs, env : 0..e, observed : 0..f]
Row(e, f) == [status : {"active", "expired"}, manifest : SUBSET Docs, materialized : SUBSET Docs,
              env : 0..e, observed : 0..f]
Recovery == [loaded : BOOLEAN, manifest : SUBSET Docs]

(* What a thread that is at a label has prepared for it.                   *)
Ready(label, k, v) ==
    /\ label = "configured" => k = "sample"
    /\ \/ label \in {"recover", "recovering", "upload"}
       \/ label \in {"ensure", "ensuring"} /\ k # "sample"
       => v.doc \in Docs
    /\ label \in {"download", "lookup", "save", "commit", "list"} => v.file # 0
    /\ label \in {"commit", "list", "publish"} => v.target # 0

ThreadsTyped ==
    /\ requestOf \in [Threads -> Requests]
    /\ pc \in [Threads -> Labels]
    /\ kind \in [Threads -> Kinds]
    /\ loc \in [Threads -> Local(Len(sessions), Len(environments), Len(files), Len(documents))]
    /\ \A t \in Threads : Ready(pc[t], kind[t], loc[t])

RequestsTyped ==
    /\ cache \in [Requests -> Known(Len(sessions), Len(environments), Len(files))]
    /\ recovery \in [Requests -> Recovery]

SessionsTyped ==
    /\ sessions \in Seq(Row(Len(environments), Len(files))) /\ Len(sessions) <= MaxSessions
    /\ conversationLock \in Threads \cup {None}
    /\ environments \in Seq(SUBSET Docs) /\ Len(environments) <= MaxEnvironments
    /\ files \in Seq(1..Len(environments)) /\ Len(files) <= MaxFiles

DocumentsTyped ==
    /\ documents \in Seq(Seq(1..Len(files))) /\ Len(documents) <= MaxDocuments
    /\ \A k \in 1..Len(documents) : Len(documents[k]) \in 1..MaxRevisions
    /\ objects \in [Revisions -> 0..MaxFiles]
    /\ published \in [Revisions -> 0..MaxFiles]
    /\ documentLock \in [1..MaxDocuments -> Threads \cup {None}]
    /\ saved \subseteq (1..Len(documents)) \X (1..MaxRevisions) \X (1..Len(files))

Typed == ThreadsTyped /\ RequestsTyped /\ SessionsTyped /\ DocumentsTyped

(* The lock of the conversation is held from the look for an active        *)
(* session to the creation of one: until then there is still none.         *)
Locked ==
    /\ \A t \in Threads : pc[t] = "ensuring" <=> conversationLock = t
    /\ \A t \in Threads : pc[t] = "ensuring" /\ loc[t].session = 0 => ActiveSessions = {}
    /\ \A j, k \in ActiveSessions : j = k

(* The lock of a document is held from the number of its next revision to  *)
(* the row of it: the object that is written meanwhile is the thread's.    *)
Written ==
    \A t \in Threads : LET k == loc[t].target n == loc[t].revision IN
        /\ pc[t] = "commit" => /\ documentLock[k] = t
                               /\ n = Len(documents[k]) + 1
                               /\ objects[<<k, n>>] = loc[t].file
        /\ pc[t] = "publish" => n \in 1..Len(documents[k])

(* What is committed is what was said to be saved, and the object of it.   *)
Told ==
    /\ \A k \in 1..Len(documents) : \A n \in 1..Len(documents[k]) :
          /\ objects[<<k, n>>] = documents[k][n]
          /\ <<k, n, documents[k][n]>> \in saved
    /\ \A s \in saved : s[2] \in 1..Len(documents[s[1]]) /\ s[3] = documents[s[1]][s[2]]
    /\ \A r \in Revisions : published[r] # 0 => <<r[1], r[2], published[r]>> \in saved

-----------------------------------------------------------------------------
(* Sequences and numbers *)

LEMMA MaxInside ==
    ASSUME NEW n \in Nat, NEW T \in SUBSET (1..n), T # {}
    PROVE  Max(T) \in T
<1> DEFINE Rest == {n - x : x \in T}
           Less == OpToRel(<, Nat)
<1>1. Rest \subseteq Nat /\ Rest # {}
  OBVIOUS
<1>2. \E m \in Rest : \A y \in Rest : ~(<<y, m>> \in Less)
  <2> HIDE DEF Rest, Less
  <2> USE NatLessThanWellFounded DEF Less
  <2> QED BY <1>1, WFMin, Zenon
<1>3. PICK m \in Rest : \A y \in Rest : ~(y < m)
  BY <1>1, <1>2 DEF OpToRel
<1>4. PICK x \in T : m = n - x
  BY <1>3
<1>5. \A y \in T : x >= y
  <2> TAKE y \in T
  <2>1. n - y \in Rest
    OBVIOUS
  <2>2. ~(n - y < n - x)
    BY <1>3, <1>4, <2>1
  <2>3. x \in 1..n /\ y \in 1..n
    OBVIOUS
  <2> HIDE DEF Rest
  <2> QED BY <2>2, <2>3
<1>6. \E z \in T : \A y \in T : z >= y
  BY <1>5
<1> QED BY <1>6 DEF Max

LEMMA NewestActive ==
    ASSUME SessionsTyped, NEW K \in SUBSET (DOMAIN sessions)
    PROVE  /\ Newest(K) \in 0..Len(sessions)
           /\ Newest(K) # 0 => Newest(K) \in K
           /\ K # {} => Newest(K) # 0
<1>1. Len(sessions) \in Nat /\ DOMAIN sessions = 1..Len(sessions)
  BY LenProperties DEF SessionsTyped
<1>2. CASE K = {}
  BY <1>1, <1>2 DEF Newest
<1>3. CASE K # {}
  <2>1. K \in SUBSET (1..Len(sessions))
    BY <1>1
  <2>2. Max(K) \in K
    BY <1>1, <1>3, <2>1, MaxInside
  <2>3. Newest(K) = Max(K)
    BY <1>3 DEF Newest
  <2>4. Newest(K) \in 1..Len(sessions)
    BY <2>1, <2>2, <2>3
  <2> QED BY <1>1, <1>3, <2>2, <2>3, <2>4
<1> QED BY <1>2, <1>3

-----------------------------------------------------------------------------
(* Type correctness *)

LEMMA Lengths ==
    ASSUME Typed
    PROVE  /\ Len(sessions) \in Nat /\ Len(environments) \in Nat
           /\ Len(files) \in Nat /\ Len(documents) \in Nat
           /\ DOMAIN sessions = 1..Len(sessions) /\ DOMAIN environments = 1..Len(environments)
           /\ DOMAIN files = 1..Len(files) /\ DOMAIN documents = 1..Len(documents)
           /\ MaxSessions \in Nat /\ MaxEnvironments \in Nat /\ MaxFiles \in Nat
           /\ MaxDocuments \in Nat /\ MaxRevisions \in Nat \ {0}
<1>1. /\ Len(sessions) \in Nat /\ Len(environments) \in Nat /\ Len(files) \in Nat
      /\ DOMAIN sessions = 1..Len(sessions) /\ DOMAIN environments = 1..Len(environments)
      /\ DOMAIN files = 1..Len(files)
  BY LenProperties DEF Typed, SessionsTyped
<1>2. Len(documents) \in Nat /\ DOMAIN documents = 1..Len(documents)
  BY LenProperties DEF Typed, DocumentsTyped
<1> QED BY <1>1, <1>2, BoundsAssumption

LEMMA UpTo == ASSUME NEW m \in Nat, NEW n \in Nat, m <= n PROVE 0..m \subseteq 0..n /\ 1..m \subseteq 1..n
OBVIOUS

LEMMA TypedImplies == Typed => TypeOK
<1> SUFFICES ASSUME Typed PROVE TypeOK
  OBVIOUS
<1> USE Lengths
<1> DEFINE s == Len(sessions)
           e == Len(environments)
           f == Len(files)
           d == Len(documents)
<1>1. /\ s \in Nat /\ e \in Nat /\ f \in Nat /\ d \in Nat
      /\ MaxSessions \in Nat /\ MaxEnvironments \in Nat /\ MaxFiles \in Nat /\ MaxDocuments \in Nat
  BY Lengths
<1>2. s <= MaxSessions /\ e <= MaxEnvironments /\ f <= MaxFiles /\ d <= MaxDocuments
  BY DEF Typed, SessionsTyped, DocumentsTyped
<1>0. /\ 0..s \subseteq 0..MaxSessions /\ 0..e \subseteq 0..MaxEnvironments
      /\ 0..f \subseteq 0..MaxFiles /\ 0..d \subseteq 0..MaxDocuments
  BY <1>1, <1>2, UpTo
<1> HIDE DEF s, e, f, d
<1>3. Local(s, e, f, d) \subseteq Local(MaxSessions, MaxEnvironments, MaxFiles, MaxDocuments)
  BY <1>0 DEF Local
<1>4. Known(s, e, f) \subseteq Known(MaxSessions, MaxEnvironments, MaxFiles)
  BY <1>0 DEF Known
<1>5. Row(e, f) \subseteq Row(MaxEnvironments, MaxFiles)
  BY <1>0 DEF Row
<1> USE DEF s, e, f, d
<1>6. sessions \in Seq(Session)
  <2>1. sessions \in Seq(Row(e, f))
    BY DEF Typed, SessionsTyped
  <2>2. Row(MaxEnvironments, MaxFiles) = Session
    BY DEF Row, Session
  <2> QED BY <2>1, <2>2, <1>5, SeqMonotonic
<1>7. \A t \in Threads : loc[t] \in Local(MaxSessions, MaxEnvironments, MaxFiles, MaxDocuments)
  BY <1>3 DEF Typed, ThreadsTyped
<1>8. cache \in [Requests -> Known(MaxSessions, MaxEnvironments, MaxFiles)]
  BY <1>4 DEF Typed, RequestsTyped
<1>9. \A r \in Requests : recovery[r] \in Recovery
  BY DEF Typed, RequestsTyped
<1>10. /\ requestOf \in [Threads -> Requests]
       /\ pc \in [Threads -> Labels]
       /\ kind \in [Threads -> Kinds]
  BY DEF Typed, ThreadsTyped
<1>11. /\ Len(sessions) <= MaxSessions
       /\ conversationLock \in Threads \cup {None}
       /\ environments \in Seq(SUBSET Docs)
       /\ files \in Seq(DOMAIN environments)
  BY DEF Typed, SessionsTyped
<1>12. /\ documents \in Seq(Seq(DOMAIN files))
       /\ objects \in [Revisions -> 0..MaxFiles] /\ published \in [Revisions -> 0..MaxFiles]
       /\ documentLock \in [1..MaxDocuments -> Threads \cup {None}]
       /\ saved \subseteq (DOMAIN documents) \X (1..MaxRevisions) \X (DOMAIN files)
  BY DEF Typed, DocumentsTyped
<1> QED BY <1>6, <1>7, <1>8, <1>9, <1>10, <1>11, <1>12 DEF TypeOK, Labels, Kinds, Local, Known, Snapshot, Recovery

(* What a thread and a request may hold in this state.                     *)
Here == Local(Len(sessions), Len(environments), Len(files), Len(documents))
Seen == Known(Len(sessions), Len(environments), Len(files))
SameSizes ==
    /\ Len(sessions') = Len(sessions) /\ Len(environments') = Len(environments)
    /\ Len(files') = Len(files) /\ Len(documents') = Len(documents)

LEMMA TypedParts ==
    ASSUME Typed
    PROVE  /\ requestOf \in [Threads -> Requests]
           /\ pc \in [Threads -> Labels]
           /\ kind \in [Threads -> Kinds]
           /\ loc \in [Threads -> Here]
           /\ cache \in [Requests -> Seen]
           /\ recovery \in [Requests -> Recovery]
BY DEF Typed, ThreadsTyped, RequestsTyped, Here, Seen

LEMMA SameSets ==
    ASSUME SameSizes
    PROVE  Here' = Here /\ Seen' = Seen
BY DEF SameSizes, Here, Seen

(* The step of a thread that goes to a label, with what it holds there.    *)
Moves(t, label, k, v) ==
    /\ pc' = [pc EXCEPT ![t] = label] /\ kind' = [kind EXCEPT ![t] = k] /\ loc' = [loc EXCEPT ![t] = v]
    /\ requestOf' = requestOf

LEMMA ThreadsStep ==
    ASSUME Typed, Here \subseteq Here', NEW t \in Threads, NEW label \in Labels, NEW k \in Kinds, NEW v,
           v \in Here', Ready(label, k, v), Moves(t, label, k, v)
    PROVE  ThreadsTyped'
<1>1. loc' \in [Threads -> Here']
  BY TypedParts DEF Moves
<1>2. pc' \in [Threads -> Labels] /\ kind' \in [Threads -> Kinds] /\ requestOf' \in [Threads -> Requests]
  BY TypedParts DEF Moves
<1>3. \A u \in Threads : Ready(pc'[u], kind'[u], loc'[u])
  BY TypedParts DEF Typed, ThreadsTyped, Moves
<1> QED BY <1>1, <1>2, <1>3 DEF ThreadsTyped, Here

LEMMA NoCallType == ASSUME Typed PROVE NoCall \in Here
BY Lengths DEF NoCall, Here, Local

LEMMA FinishStep ==
    ASSUME Typed, NEW t \in Threads, Finish(t), requestOf' = requestOf, SameSizes
    PROVE  ThreadsTyped'
<1>1. NoCall \in Here' /\ Here \subseteq Here'
  BY NoCallType, SameSets
<1>2. Ready("idle", "sample", NoCall) /\ "idle" \in Labels /\ "sample" \in Kinds
  BY DEF Ready, Labels, Kinds
<1>3. Moves(t, "idle", "sample", NoCall)
  BY DEF Finish, Goto, Moves
<1> QED BY <1>1, <1>2, <1>3, ThreadsStep

LEMMA GotoStep ==
    ASSUME Typed, NEW t \in Threads, NEW label \in Labels, Goto(t, label), Ready(label, kind[t], loc[t]),
           UNCHANGED <<requestOf, kind, loc>>, SameSizes
    PROVE  ThreadsTyped'
<1>1. loc[t] \in Here' /\ kind[t] \in Kinds /\ Here \subseteq Here'
  BY TypedParts, SameSets
<1>2. Moves(t, label, kind[t], loc[t])
  BY TypedParts DEF Goto, Moves
<1> QED BY <1>1, <1>2, ThreadsStep

LEMMA ThreadsSame ==
    ASSUME Typed, UNCHANGED <<requestOf, pc, kind, loc>>, SameSizes
    PROVE  ThreadsTyped'
BY SameSets DEF Typed, ThreadsTyped, Here

(* The step after which a request knows this of the session.               *)
Learns(r, v, w) == cache' = [cache EXCEPT ![r] = v] /\ recovery' = [recovery EXCEPT ![r] = w]

LEMMA RequestsStep ==
    ASSUME Typed, Seen \subseteq Seen', NEW r \in Requests, NEW v, v \in Seen', NEW w \in Recovery,
           Learns(r, v, w)
    PROVE  RequestsTyped'
<1>1. cache' \in [Requests -> Seen'] /\ recovery' \in [Requests -> Recovery]
  BY TypedParts DEF Learns
<1> QED BY <1>1 DEF RequestsTyped, Seen

LEMMA RequestsSame ==
    ASSUME Typed, UNCHANGED <<cache, recovery>>, SameSizes
    PROVE  RequestsTyped'
BY SameSets DEF Typed, RequestsTyped, Seen

LEMMA SessionsSame ==
    ASSUME Typed, UNCHANGED <<sessions, conversationLock, environments, files>>
    PROVE  SessionsTyped'
BY DEF Typed, SessionsTyped

LEMMA DocumentsSame ==
    ASSUME Typed, UNCHANGED <<documents, objects, documentLock, published, saved, files>>
    PROVE  DocumentsTyped'
BY DEF Typed, DocumentsTyped

LEMMA StateType ==
    ASSUME NEW e \in Nat, NEW f \in Nat, NEW ss \in Seq(Row(e, f)), NEW k \in 0..Len(ss)
    PROVE  /\ State(ss, k) \in Known(Len(ss), e, f)
           /\ State(ss, k).loaded
<1>0. Len(ss) \in Nat
  BY LenProperties
<1>1. CASE k = 0
  BY <1>0, <1>1 DEF State, NoState, Known
<1>2. CASE k # 0
  <2>1. ss[k] \in Row(e, f)
    BY <1>0, <1>2, ElementOfSeq
  <2> QED BY <1>0, <1>2, <2>1 DEF State, Known, Row
<1> QED BY <1>1, <1>2

LEMMA NothingKnown ==
    ASSUME Typed
    PROVE  NoState \in Seen /\ Unloaded \in Seen
<1>1. {} \in SUBSET Docs /\ TRUE \in BOOLEAN /\ FALSE \in BOOLEAN
  OBVIOUS
<1>2. 0 \in 0..Len(sessions) /\ 0 \in 0..Len(environments) /\ 0 \in 0..Len(files)
  BY Lengths
<1>3. NoState \in Seen
  BY <1>1, <1>2 DEF NoState, Seen, Known
<1>4. Unloaded \in Seen
  BY <1>1, <1>3 DEF Unloaded, Seen, Known
<1> QED BY <1>3, <1>4

LEMMA ForgetStep ==
    ASSUME Typed, NEW r \in Requests, Forget(r), SameSizes
    PROVE  RequestsTyped'
<1>1. Unloaded \in Seen' /\ Seen \subseteq Seen'
  BY NothingKnown, SameSets
<1>2. [loaded |-> FALSE, manifest |-> {}] \in Recovery
  BY DEF Recovery
<1>3. Learns(r, Unloaded, [loaded |-> FALSE, manifest |-> {}])
  BY DEF Forget, Learns
<1> QED BY <1>1, <1>2, <1>3, RequestsStep

(* The row that is read is one of the conversation's.                      *)
LEMMA CurrentType ==
    ASSUME Typed, NEW t \in Threads, CurrentState(t)
    PROVE  /\ cache' \in [Requests -> Seen]
           /\ Request(t) \in Requests
<1>1. Request(t) \in Requests
  BY TypedParts DEF Request
<1>2. ActiveSessions \in SUBSET (DOMAIN sessions)
  BY DEF ActiveSessions
<1>3. Newest(ActiveSessions) \in 0..Len(sessions)
  BY <1>2, NewestActive DEF Typed
<1>4. State(sessions, Newest(ActiveSessions)) \in Seen
  BY <1>3, StateType, Lengths DEF Typed, SessionsTyped, Seen
<1> QED BY <1>1, <1>4, TypedParts DEF CurrentState

LEMMA CurrentStep ==
    ASSUME Typed, NEW t \in Threads, CurrentState(t), recovery' = recovery, SameSizes
    PROVE  RequestsTyped'
<1>1. cache' \in [Requests -> Seen']
  BY CurrentType, SameSets
<1> QED BY <1>1, TypedParts DEF RequestsTyped, Seen

(* The row of a session is written, and read back.                         *)
LEMMA SessionStep ==
    ASSUME Typed, NEW k \in 0..Len(sessions), NEW row,
           k # 0 => row \in Row(Len(environments), Len(files)),
           sessions' = [sessions EXCEPT ![k] = row],
           UNCHANGED <<environments, files, conversationLock>>
    PROVE  /\ SessionsTyped'
           /\ Len(sessions') = Len(sessions)
           /\ State(sessions', k) \in Seen
<1>1. sessions \in Seq(Row(Len(environments), Len(files)))
  BY DEF Typed, SessionsTyped
<1>2. sessions' \in Seq(Row(Len(environments), Len(files))) /\ Len(sessions') = Len(sessions)
  <2>1. CASE k = 0
    <3>1. k \notin DOMAIN sessions
      BY <2>1, Lengths
    <3>2. sessions' = sessions
      BY <1>1, <3>1, LenProperties
    <3> QED BY <1>1, <3>2
  <2>2. CASE k # 0
    <3>1. k \in 1..Len(sessions) /\ row \in Row(Len(environments), Len(files))
      BY <2>2, Lengths
    <3> QED BY <1>1, <3>1, ExceptSeq
  <2> QED BY <2>1, <2>2
<1>3. SessionsTyped'
  BY <1>2 DEF Typed, SessionsTyped
<1>4. State(sessions', k) \in Seen
  BY <1>2, StateType, Lengths DEF Seen
<1> QED BY <1>2, <1>3, <1>4

LEMMA SessionRow ==
    ASSUME Typed, NEW k \in 1..Len(sessions)
    PROVE  sessions[k] \in Row(Len(environments), Len(files))
BY ElementOfSeq DEF Typed, SessionsTyped

LEMMA TypedInit == Init => Typed
<1> SUFFICES ASSUME Init PROVE Typed
  OBVIOUS
<1>1. /\ sessions = <<>> /\ Len(sessions) = 0 /\ environments = <<>> /\ Len(environments) = 0
      /\ files = <<>> /\ Len(files) = 0 /\ documents = <<>> /\ Len(documents) = 0
  BY EmptySeq DEF Init
<1>2. ThreadsTyped
  <2>1. NoCall \in Local(0, 0, 0, 0)
    BY BoundsAssumption DEF NoCall, Local
  <2>2. Ready("idle", "sample", NoCall)
    BY DEF Ready
  <2> QED BY <1>1, <2>1, <2>2 DEF Init, ThreadsTyped, Labels, Kinds
<1>3. RequestsTyped
  <2>1. NoState \in Known(0, 0, 0)
    BY DEF NoState, Known
  <2>2. Unloaded \in Known(0, 0, 0)
    BY <2>1 DEF Unloaded, Known
  <2> QED BY <1>1, <2>2 DEF Init, RequestsTyped, Recovery
<1>4. SessionsTyped
  BY <1>1, EmptySeq, BoundsAssumption DEF Init, SessionsTyped
<1>5. DocumentsTyped
  BY <1>1, EmptySeq, BoundsAssumption DEF Init, DocumentsTyped
<1> QED BY <1>2, <1>3, <1>4, <1>5 DEF Typed

TypedAfter == ThreadsTyped' /\ RequestsTyped' /\ SessionsTyped' /\ DocumentsTyped'

LEMMA ThreadFacts ==
    ASSUME Typed, NEW t \in Threads
    PROVE  /\ Ready(pc[t], kind[t], loc[t]) /\ loc[t] \in Here /\ kind[t] \in Kinds
           /\ Request(t) \in Requests /\ cache[Request(t)] \in Seen
           /\ recovery[Request(t)] \in Recovery
BY TypedParts DEF Typed, ThreadsTyped, Request

LEMMA SamplingTyped ==
    ASSUME Typed, NEW t \in Threads,
           \/ StartSample(t) \/ Execute(t) \/ NoShell(t) \/ SampleFails(t)
           \/ RecordExecution(t) \/ RecordFails(t)
    PROVE  TypedAfter
<1>0. /\ Ready(pc[t], kind[t], loc[t]) /\ loc[t] \in Here /\ kind[t] \in Kinds
      /\ Request(t) \in Requests /\ cache[Request(t)] \in Seen
  BY ThreadFacts
<1>1. CASE StartSample(t)
  <2>1. SameSizes /\ Here \subseteq Here' /\ loc[t] \in Here'
    BY <1>0, <1>1, SameSets DEF StartSample, SameSizes, provider, artifacts
  <2>2. Moves(t, "configured", "sample", loc[t])
    BY <1>1, TypedParts DEF StartSample, Begin, Goto, Moves
  <2>3. Ready("configured", "sample", loc[t]) /\ "configured" \in Labels /\ "sample" \in Kinds
    BY DEF Ready, Labels, Kinds
  <2>4. ThreadsTyped'
    BY <2>1, <2>2, <2>3, ThreadsStep
  <2> QED BY <1>1, <2>1, <2>4, CurrentStep, SessionsSame, DocumentsSame
          DEF StartSample, Begin, TypedAfter, provider, artifacts
<1>2. CASE Execute(t)
  <2> DEFINE state == cache[Request(t)]
             env == IF state.env # 0 THEN state.env ELSE Len(environments) + 1
             v == [loc[t] EXCEPT !.env = env, !.file = IF files' = files THEN 0 ELSE Len(files')]
  <2>1. state.materialized \in SUBSET Docs /\ state.env \in 0..Len(environments)
    BY <1>0 DEF Seen, Known
  <2>2. /\ environments' \in Seq(SUBSET Docs)
        /\ Len(environments') \in Nat /\ Len(environments') <= MaxEnvironments
        /\ Len(environments) <= Len(environments')
        /\ env \in 1..Len(environments')
    <3>0. environments \in Seq(SUBSET Docs)
      BY DEF Typed, SessionsTyped
    <3>1. CASE state.env # 0
      BY <1>2, <2>1, <3>0, <3>1, Lengths DEF Execute
    <3>2. CASE state.env = 0
      <4>1. environments' = Append(environments, state.materialized)
        BY <1>2, <3>2 DEF Execute
      <4>2. environments' \in Seq(SUBSET Docs) /\ Len(environments') = Len(environments) + 1
        BY <2>1, <3>0, <4>1, AppendProperties
      <4> QED BY <1>2, <3>2, <4>2, Lengths DEF Execute
    <3> QED BY <3>1, <3>2
  <2>3. /\ files' \in Seq(1..Len(environments'))
        /\ Len(files') \in Nat /\ Len(files') <= MaxFiles /\ Len(files) <= Len(files')
    <3>0. files \in Seq(1..Len(environments'))
      <4>1. 1..Len(environments) \subseteq 1..Len(environments')
        BY <2>2, UpTo, Lengths
      <4> QED BY <4>1, SeqMonotonic DEF Typed, SessionsTyped
    <3>1. files' = files \/ files' = Append(files, env)
      BY <1>2 DEF Execute
    <3>2. Len(files') <= MaxFiles
      BY <1>2 DEF Execute
    <3> HIDE DEF env
    <3>3. CASE files' = files
      BY <3>0, <3>2, <3>3, Lengths
    <3>4. CASE files' = Append(files, env)
      <4>1. files' \in Seq(1..Len(environments')) /\ Len(files') = Len(files) + 1
        BY <2>2, <3>0, <3>4, AppendProperties
      <4> QED BY <3>2, <4>1, Lengths
    <3> QED BY <3>1, <3>3, <3>4
  <2>4. sessions' = sessions /\ documents' = documents /\ conversationLock' = conversationLock
    BY <1>2 DEF Execute, artifacts
  <2>5. /\ 0..Len(environments) \subseteq 0..Len(environments')
        /\ 0..Len(files) \subseteq 0..Len(files') /\ 1..Len(files) \subseteq 1..Len(files')
    BY <2>2, <2>3, UpTo, Lengths
  <2>6. Here \subseteq Here' /\ Seen \subseteq Seen'
    BY <2>4, <2>5 DEF Here, Seen, Local, Known
  <2>7. v \in Here'
    <3>1. loc[t] \in Here' /\ env \in 0..Len(environments') /\ Len(files') \in 0..Len(files')
          /\ 0 \in 0..Len(files')
      BY <1>0, <2>2, <2>3, <2>6
    <3> HIDE DEF env
    <3> QED BY <3>1 DEF Here, Local
  <2>8. Moves(t, "ensure", kind[t], v)
    BY <1>2, TypedParts DEF Execute, Goto, Moves
  <2>9. Ready("ensure", kind[t], v) /\ "ensure" \in Labels
    BY <1>0, <1>2 DEF Execute, Ready, Labels
  <2>10. ThreadsTyped'
    <3> HIDE DEF v
    <3> QED BY <1>0, <2>6, <2>7, <2>8, <2>9, ThreadsStep
  <2>11. RequestsTyped'
    <3>1. UNCHANGED <<cache, recovery>>
      BY <1>2 DEF Execute
    <3> QED BY <2>6, <3>1, TypedParts DEF RequestsTyped, Seen
  <2>12. SessionsTyped'
    <3>1. Row(Len(environments), Len(files)) \subseteq Row(Len(environments'), Len(files'))
      BY <2>5 DEF Row
    <3> QED BY <2>2, <2>3, <2>4, <3>1, SeqMonotonic DEF Typed, SessionsTyped
  <2>13. DocumentsTyped'
    <3>1. Seq(1..Len(files)) \subseteq Seq(1..Len(files'))
      BY <2>5, SeqMonotonic
    <3>2. documents' \in Seq(Seq(1..Len(files')))
      BY <2>4, <3>1, SeqMonotonic DEF Typed, DocumentsTyped
    <3> QED BY <1>2, <2>5, <3>2 DEF Execute, artifacts, Typed, DocumentsTyped
  <2> QED BY <2>10, <2>11, <2>12, <2>13 DEF TypedAfter
<1>3. CASE NoShell(t)
  <2>1. SameSizes
    BY <1>3 DEF NoShell, SameSizes, provider, artifacts
  <2> QED BY <1>3, <2>1, FinishStep, RequestsSame, SessionsSame, DocumentsSame
          DEF NoShell, TypedAfter, provider, artifacts
<1>4. CASE SampleFails(t) \/ RecordFails(t)
  <2>1. Abort(t) /\ UNCHANGED <<requestOf, sessions, conversationLock, provider, artifacts, saved>>
    BY <1>4 DEF SampleFails, RecordFails
  <2>2. SameSizes
    BY <2>1 DEF SameSizes, provider, artifacts
  <2> QED BY <1>0, <2>1, <2>2, FinishStep, ForgetStep, SessionsSame, DocumentsSame
          DEF Abort, TypedAfter, provider, artifacts
<1>5. CASE RecordExecution(t)
  <2> DEFINE k == cache[Request(t)].id
             file == IF loc[t].file # 0 THEN loc[t].file ELSE cache[Request(t)].observed
             row == [sessions[k] EXCEPT !.env = loc[t].env, !.observed = file]
  <2>1. /\ k \in 0..Len(sessions) /\ file \in 0..Len(files) /\ loc[t].env \in 0..Len(environments)
    BY <1>0 DEF Here, Local, Seen, Known
  <2>2. k # 0 => row \in Row(Len(environments), Len(files))
    <3> SUFFICES ASSUME k # 0 PROVE row \in Row(Len(environments), Len(files))
      OBVIOUS
    <3>1. sessions[k] \in Row(Len(environments), Len(files))
      BY <2>1, Lengths, SessionRow
    <3> HIDE DEF k, file
    <3> QED BY <2>1, <3>1 DEF Row
  <2>3. /\ sessions' = [sessions EXCEPT ![k] = row]
        /\ cache' = [cache EXCEPT ![Request(t)] = State(sessions', k)]
        /\ UNCHANGED <<recovery, environments, files, conversationLock>>
    BY <1>5 DEF RecordExecution, provider
  <2> HIDE DEF k, row
  <2>4. SessionsTyped' /\ Len(sessions') = Len(sessions) /\ State(sessions', k) \in Seen
    BY <2>1, <2>2, <2>3, SessionStep
  <2>5. SameSizes
    BY <1>5, <2>4 DEF RecordExecution, SameSizes, provider, artifacts
  <2>6. Learns(Request(t), State(sessions', k), recovery[Request(t)]) /\ recovery[Request(t)] \in Recovery
    BY <1>0, <2>3, TypedParts DEF Learns
  <2>7. RequestsTyped'
    BY <1>0, <2>4, <2>5, <2>6, SameSets, RequestsStep
  <2> QED BY <1>5, <2>4, <2>5, <2>7, FinishStep, DocumentsSame
          DEF RecordExecution, TypedAfter, provider, artifacts
<1> QED BY <1>1, <1>2, <1>3, <1>4, <1>5

LEMMA MaterializingTyped ==
    ASSUME Typed, NEW t \in Threads,
           \/ StartMaterialize(t) \/ Ensure(t) \/ CreateSession(t) \/ HasSession(t)
           \/ LoadRecovery(t) \/ Recover(t) \/ Recovered(t) \/ StateLost(t)
           \/ Materialize(t) \/ MaterializeFails(t)
    PROVE  TypedAfter
<1>0. /\ Ready(pc[t], kind[t], loc[t]) /\ loc[t] \in Here /\ kind[t] \in Kinds
      /\ Request(t) \in Requests /\ cache[Request(t)] \in Seen
      /\ recovery[Request(t)] \in Recovery
  BY ThreadFacts
<1>1. CASE StartMaterialize(t)
  <2>1. SameSizes /\ Here \subseteq Here'
    BY <1>1, SameSets DEF StartMaterialize, SameSizes, provider, artifacts
  <2>2. PICK d \in Resources : loc' = [loc EXCEPT ![t].doc = d]
    BY <1>1 DEF StartMaterialize
  <2> DEFINE v == [loc[t] EXCEPT !.doc = d]
  <2>3. v \in Here /\ v.doc \in Docs
    BY <1>0 DEF Here, Local, Docs
  <2>4. Moves(t, "ensure", "materialize", v)
    BY <1>1, <2>2, TypedParts DEF StartMaterialize, Begin, Goto, Moves
  <2>5. Ready("ensure", "materialize", v) /\ "ensure" \in Labels /\ "materialize" \in Kinds
    BY <2>3 DEF Ready, Labels, Kinds
  <2> HIDE DEF v
  <2>6. ThreadsTyped'
    BY <2>1, <2>3, <2>4, <2>5, ThreadsStep
  <2> QED BY <1>1, <2>1, <2>6, CurrentStep, SessionsSame, DocumentsSame
          DEF StartMaterialize, Begin, TypedAfter, provider, artifacts
<1>2. CASE Ensure(t)
  <2>1. SameSizes /\ Here \subseteq Here'
    BY <1>2, SameSets DEF Ensure, SameSizes, provider, artifacts
  <2> DEFINE v == [loc[t] EXCEPT !.session = Newest(ActiveSessions)]
  <2>2. Newest(ActiveSessions) \in 0..Len(sessions)
    <3>1. ActiveSessions \in SUBSET (DOMAIN sessions)
      BY DEF ActiveSessions
    <3> QED BY <3>1, NewestActive DEF Typed
  <2>3. v \in Here /\ v.doc = loc[t].doc
    BY <1>0, <2>2 DEF Here, Local
  <2>4. Moves(t, "ensuring", kind[t], v)
    BY <1>2, TypedParts DEF Ensure, Goto, Moves
  <2>5. Ready("ensuring", kind[t], v) /\ "ensuring" \in Labels
    BY <1>0, <1>2, <2>3 DEF Ensure, Ready, Labels
  <2> HIDE DEF v
  <2>6. ThreadsTyped'
    BY <1>0, <2>1, <2>3, <2>4, <2>5, ThreadsStep
  <2>7. SessionsTyped'
    BY <1>2 DEF Ensure, Typed, SessionsTyped, provider
  <2> QED BY <1>2, <2>1, <2>6, <2>7, RequestsSame, DocumentsSame
          DEF Ensure, TypedAfter, provider, artifacts
<1>3. CASE CreateSession(t)
  <2> DEFINE k == IF loc[t].session # 0 THEN loc[t].session ELSE Len(sessions')
  <2>1. /\ sessions' \in Seq(Row(Len(environments), Len(files)))
        /\ Len(sessions') \in Nat /\ Len(sessions) <= Len(sessions') /\ Len(sessions') <= MaxSessions
        /\ k \in 0..Len(sessions')
    <3>0. sessions \in Seq(Row(Len(environments), Len(files)))
      BY DEF Typed, SessionsTyped
    <3>1. Len(sessions') <= MaxSessions /\ loc[t].session \in 0..Len(sessions)
      BY <1>0, <1>3 DEF CreateSession, Here, Local
    <3>2. CASE loc[t].session # 0
      <4>1. sessions' = sessions
        BY <1>3, <3>2 DEF CreateSession
      <4> QED BY <3>0, <3>1, <3>2, <4>1, Lengths
    <3>3. CASE loc[t].session = 0
      <4> DEFINE row == [status |-> "active", manifest |-> {}, materialized |-> {},
                         env |-> 0, observed |-> 0]
      <4>1. sessions' = Append(sessions, row)
        BY <1>3, <3>3 DEF CreateSession
      <4>2. row \in Row(Len(environments), Len(files))
        BY Lengths DEF Row
      <4> HIDE DEF row
      <4>3. sessions' \in Seq(Row(Len(environments), Len(files))) /\ Len(sessions') = Len(sessions) + 1
        BY <3>0, <4>1, <4>2, AppendProperties
      <4> QED BY <3>1, <3>3, <4>3, Lengths
    <3> QED BY <3>2, <3>3
  <2>2. /\ UNCHANGED <<environments, files, documents, requestOf, kind, loc, recovery>>
        /\ cache' = [cache EXCEPT ![Request(t)] = State(sessions', k)]
        /\ conversationLock' \in {None, conversationLock}
    BY <1>3 DEF CreateSession, provider, artifacts
  <2> HIDE DEF k
  <2>3. Here \subseteq Here' /\ Seen \subseteq Seen'
    <3>1. 0..Len(sessions) \subseteq 0..Len(sessions')
      BY <2>1, UpTo, Lengths
    <3> QED BY <2>2, <3>1 DEF Here, Seen, Local, Known
  <2>4. State(sessions', k) \in Seen'
    BY <2>1, <2>2, StateType, Lengths DEF Seen
  <2>5. RequestsTyped'
    <3>1. Learns(Request(t), State(sessions', k), recovery[Request(t)])
      BY <1>0, <2>2, TypedParts DEF Learns
    <3> QED BY <1>0, <2>3, <2>4, <3>1, RequestsStep
  <2>6. SessionsTyped'
    BY <2>1, <2>2 DEF Typed, SessionsTyped
  <2>7. ThreadsTyped'
    <3>1. Moves(t, AfterEnsure(t), kind[t], loc[t])
      BY <1>3, TypedParts DEF CreateSession, Goto, Moves
    <3>2. AfterEnsure(t) \in Labels /\ Ready(AfterEnsure(t), kind[t], loc[t])
      BY <1>0, <1>3 DEF CreateSession, AfterEnsure, Labels, Ready
    <3> QED BY <1>0, <2>3, <3>1, <3>2, ThreadsStep
  <2> QED BY <1>3, <2>5, <2>6, <2>7, DocumentsSame DEF CreateSession, TypedAfter, provider, artifacts
<1>4. CASE HasSession(t)
  <2>1. SameSizes
    BY <1>4 DEF HasSession, SameSizes, provider, artifacts
  <2>2. AfterEnsure(t) \in Labels /\ Ready(AfterEnsure(t), kind[t], loc[t])
    BY <1>0, <1>4 DEF HasSession, AfterEnsure, Labels, Ready
  <2> QED BY <1>4, <2>1, <2>2, GotoStep, RequestsSame, SessionsSame, DocumentsSame
          DEF HasSession, TypedAfter, provider, artifacts
<1>5. CASE LoadRecovery(t)
  <2>1. SameSizes /\ Here \subseteq Here' /\ Seen \subseteq Seen'
    BY <1>5, SameSets DEF LoadRecovery, SameSizes, provider, artifacts
  <2> DEFINE r == Request(t)
             expired == Newest(DOMAIN sessions \ ActiveSessions)
             manifest == IF recovery[r].loaded THEN recovery[r].manifest
                         ELSE IF expired = 0 THEN {} ELSE sessions[expired].manifest
             v == [loc[t] EXCEPT !.todo = manifest]
             w == [loaded |-> TRUE, manifest |-> manifest]
  <2>2. manifest \in SUBSET Docs
    <3>1. expired \in 0..Len(sessions)
      <4>1. DOMAIN sessions \ ActiveSessions \in SUBSET (DOMAIN sessions)
        OBVIOUS
      <4> QED BY <4>1, NewestActive DEF Typed
    <3>2. expired # 0 => sessions[expired].manifest \in SUBSET Docs
      <4> HIDE DEF expired
      <4> QED BY <3>1, SessionRow, Lengths DEF Row
    <3> HIDE DEF expired
    <3> QED BY <1>0, <3>2 DEF Recovery
  <2>3. recovery' = [recovery EXCEPT ![r] = w] /\ loc' = [loc EXCEPT ![t].todo = manifest]
    BY <1>5 DEF LoadRecovery
  <2>4. Moves(t, "recovering", kind[t], v)
    <3> HIDE DEF manifest
    <3> QED BY <1>5, <2>3, TypedParts DEF LoadRecovery, Goto, Moves
  <2> HIDE DEF manifest
  <2>5. v \in Here /\ v.doc = loc[t].doc /\ w \in Recovery
    BY <1>0, <2>2 DEF Here, Local, Recovery
  <2>6. Ready("recovering", kind[t], v) /\ "recovering" \in Labels
    BY <1>0, <1>5, <2>5 DEF LoadRecovery, Ready, Labels
  <2> HIDE DEF v, w
  <2>7. ThreadsTyped'
    BY <1>0, <2>1, <2>4, <2>5, <2>6, ThreadsStep
  <2>8. RequestsTyped'
    <3>1. Learns(r, cache[r], w)
      BY <1>5, <2>3, TypedParts DEF LoadRecovery, Learns
    <3> QED BY <1>0, <2>1, <2>5, <3>1, RequestsStep
  <2> QED BY <1>5, <2>7, <2>8, SessionsSame, DocumentsSame DEF LoadRecovery, TypedAfter, provider, artifacts
<1>6. CASE Recover(t)
  <2>1. SameSizes /\ Here \subseteq Here'
    BY <1>6, SameSets DEF Recover, SameSizes, provider, artifacts
  <2> DEFINE v == [loc[t] EXCEPT !.session = cache[Request(t)].id]
  <2>2. v \in Here /\ v.doc = loc[t].doc
    BY <1>0 DEF Here, Local, Seen, Known
  <2>3. Moves(t, "upload", kind[t], v)
    BY <1>6, TypedParts DEF Recover, Goto, Moves
  <2>4. Ready("upload", kind[t], v) /\ "upload" \in Labels
    BY <1>0, <1>6, <2>2 DEF Recover, Ready, Labels
  <2> HIDE DEF v
  <2>5. ThreadsTyped'
    BY <1>0, <2>1, <2>2, <2>3, <2>4, ThreadsStep
  <2> QED BY <1>6, <2>1, <2>5, RequestsSame, SessionsSame, DocumentsSame
          DEF Recover, TypedAfter, provider, artifacts
<1>7. CASE Recovered(t)
  <2>1. SameSizes /\ Here \subseteq Here' /\ Seen \subseteq Seen'
    BY <1>7, SameSets DEF Recovered, SameSizes, provider, artifacts
  <2> DEFINE r == Request(t)
             v == [loc[t] EXCEPT !.session = cache[r].id, !.todo = {}]
             w == [recovery[r] EXCEPT !.manifest = {}]
  <2>2. v \in Here /\ v.doc = loc[t].doc /\ w \in Recovery
    BY <1>0 DEF Here, Local, Seen, Known, Recovery
  <2>3. ThreadsTyped'
    <3>1. CASE Finish(t)
      BY <1>7, <2>1, <3>1, FinishStep DEF Recovered
    <3>2. CASE ~Finish(t)
      <4>1. Moves(t, "upload", kind[t], v)
        BY <1>7, <3>2, TypedParts DEF Recovered, Goto, Moves
      <4>2. Ready("upload", kind[t], v) /\ "upload" \in Labels
        BY <1>0, <1>7, <2>2 DEF Recovered, Ready, Labels
      <4> HIDE DEF v
      <4> QED BY <1>0, <2>1, <2>2, <4>1, <4>2, ThreadsStep
    <3> QED BY <3>1, <3>2
  <2>4. RequestsTyped'
    <3>1. Learns(r, cache[r], w)
      BY <1>7, TypedParts DEF Recovered, Learns
    <3> HIDE DEF w
    <3> QED BY <1>0, <2>1, <2>2, <3>1, RequestsStep
  <2> QED BY <1>7, <2>3, <2>4, SessionsSame, DocumentsSame DEF Recovered, TypedAfter, provider, artifacts
<1>8. CASE StateLost(t)
  <2>1. SameSizes
    BY <1>8 DEF StateLost, SameSizes, provider, artifacts
  <2>2. "ensure" \in Labels /\ Ready("ensure", kind[t], loc[t])
    BY <1>0, <1>8 DEF StateLost, Labels, Ready
  <2> QED BY <1>8, <2>1, <2>2, GotoStep, RequestsSame, SessionsSame, DocumentsSame
          DEF StateLost, TypedAfter, provider, artifacts
<1>9. CASE Materialize(t)
  <2> DEFINE k == loc[t].session
             r == Request(t)
  <2>1. k \in 0..Len(sessions) /\ loc[t].todo \in SUBSET Docs /\ loc[t].doc \in Docs
    BY <1>0, <1>9 DEF Materialize, Ready, Here, Local
  <2>2. PICK d \in Docs :
          /\ sessions' = [sessions EXCEPT ![k] = Given(@, d)]
          /\ cache' = [cache EXCEPT ![r] = State(sessions', k)]
          /\ (Goto(t, "recovering") /\ UNCHANGED <<kind, loc>>) \/ Finish(t)
    BY <1>9, <2>1 DEF Materialize
  <2> DEFINE row == Given(sessions[k], d)
  <2>3. k # 0 => row \in Row(Len(environments), Len(files))
    <3> SUFFICES ASSUME k # 0 PROVE row \in Row(Len(environments), Len(files))
      OBVIOUS
    <3>1. sessions[k] \in Row(Len(environments), Len(files))
      BY <2>1, Lengths, SessionRow
    <3> HIDE DEF k
    <3> QED BY <3>1 DEF Row, Given
  <2>4. /\ sessions' = [sessions EXCEPT ![k] = row]
        /\ UNCHANGED <<recovery, environments, files, conversationLock, documents, requestOf>>
    <3>1. sessions' = [sessions EXCEPT ![k] = row]
      BY <2>2
    <3>2. UNCHANGED <<recovery, environments, files, conversationLock, documents, requestOf>>
      BY <1>9 DEF Materialize, provider, artifacts
    <3> QED BY <3>1, <3>2
  <2> HIDE DEF k, row
  <2>5. SessionsTyped' /\ Len(sessions') = Len(sessions) /\ State(sessions', k) \in Seen
    BY <2>1, <2>3, <2>4, SessionStep
  <2>6. SameSizes
    BY <2>4, <2>5 DEF SameSizes
  <2>7. Learns(r, State(sessions', k), recovery[r])
    BY <1>0, <2>2, <2>4, TypedParts DEF Learns
  <2>8. RequestsTyped'
    BY <1>0, <2>5, <2>6, <2>7, SameSets, RequestsStep
  <2>9. ThreadsTyped'
    <3>1. CASE Finish(t)
      BY <2>4, <2>6, <3>1, FinishStep
    <3>2. CASE Goto(t, "recovering") /\ UNCHANGED <<kind, loc>>
      <4>1. "recovering" \in Labels /\ Ready("recovering", kind[t], loc[t])
        BY <1>0, <1>9, <2>1 DEF Materialize, Labels, Ready
      <4> QED BY <2>4, <2>6, <3>2, <4>1, GotoStep
    <3> QED BY <2>2, <3>1, <3>2
  <2> QED BY <1>9, <2>5, <2>8, <2>9, DocumentsSame DEF Materialize, TypedAfter, provider, artifacts
<1>10. CASE MaterializeFails(t)
  <2>1. SameSizes
    BY <1>10 DEF MaterializeFails, SameSizes, provider, artifacts
  <2> QED BY <1>10, <2>1, FinishStep, RequestsSame, SessionsSame, DocumentsSame
          DEF MaterializeFails, TypedAfter, provider, artifacts
<1> QED BY <1>1, <1>2, <1>3, <1>4, <1>5, <1>6, <1>7, <1>8, <1>9, <1>10

LEMMA DownloadTyped ==
    ASSUME Typed, NEW t \in Threads,
           StartPromote(t) \/ Download(t) \/ DownloadFails(t) \/ Expire(t) \/ ExpireFails(t) \/ Lookup(t)
    PROVE  TypedAfter
<1>0. /\ Ready(pc[t], kind[t], loc[t]) /\ loc[t] \in Here /\ kind[t] \in Kinds
      /\ Request(t) \in Requests /\ cache[Request(t)] \in Seen
      /\ recovery[Request(t)] \in Recovery
  BY ThreadFacts
<1>1. CASE StartPromote(t)
  <2>1. SameSizes /\ Here \subseteq Here'
    BY <1>1, SameSets DEF StartPromote, SameSizes, provider, artifacts
  <2> DEFINE state == cache'[Request(t)]
             v == [loc[t] EXCEPT !.session = state.id, !.env = state.env, !.file = state.observed]
  <2>2. state \in Seen /\ state.observed # 0
    BY <1>1, CurrentType DEF StartPromote, Begin
  <2>3. v \in Here /\ v.file # 0
    <3> HIDE DEF state
    <3> QED BY <1>0, <2>2 DEF Here, Local, Seen, Known
  <2>4. Moves(t, "download", "promote", v)
    BY <1>1, TypedParts DEF StartPromote, Begin, Goto, Moves
  <2>5. Ready("download", "promote", v) /\ "download" \in Labels /\ "promote" \in Kinds
    BY <2>3 DEF Ready, Labels, Kinds
  <2> HIDE DEF v
  <2>6. ThreadsTyped'
    BY <2>1, <2>3, <2>4, <2>5, ThreadsStep
  <2> QED BY <1>1, <2>1, <2>6, CurrentStep, SessionsSame, DocumentsSame
          DEF StartPromote, Begin, TypedAfter, provider, artifacts
<1>2. CASE Download(t)
  <2>1. SameSizes
    BY <1>2 DEF Download, SameSizes, provider, artifacts
  <2>2. "lookup" \in Labels /\ Ready("lookup", kind[t], loc[t])
    BY <1>0, <1>2 DEF Download, Labels, Ready
  <2> QED BY <1>2, <2>1, <2>2, GotoStep, RequestsSame, SessionsSame, DocumentsSame
          DEF Download, TypedAfter, provider, artifacts
<1>3. CASE DownloadFails(t)
  <2>1. SameSizes
    BY <1>3 DEF DownloadFails, SameSizes, provider, artifacts
  <2>2. "expire" \in Labels /\ Ready("expire", kind[t], loc[t])
    BY <1>0, <1>3 DEF DownloadFails, Labels, Ready
  <2> QED BY <1>3, <2>1, <2>2, GotoStep, RequestsSame, SessionsSame, DocumentsSame
          DEF DownloadFails, TypedAfter, provider, artifacts
<1>4. CASE Expire(t)
  <2> DEFINE k == loc[t].session
             row == [sessions[k] EXCEPT !.status = "expired"]
  <2>1. k \in 0..Len(sessions)
    BY <1>0 DEF Here, Local
  <2>2. k # 0 => row \in Row(Len(environments), Len(files))
    <3> SUFFICES ASSUME k # 0 PROVE row \in Row(Len(environments), Len(files))
      OBVIOUS
    <3>1. sessions[k] \in Row(Len(environments), Len(files))
      BY <2>1, Lengths, SessionRow
    <3> HIDE DEF k
    <3> QED BY <3>1 DEF Row
  <2>3. sessions' = [sessions EXCEPT ![k] = row]
    BY <1>4 DEF Expire
  <2>4. /\ cache' = [cache EXCEPT ![Request(t)] = NoState]
        /\ UNCHANGED <<recovery, environments, files, conversationLock, documents, requestOf>>
    BY <1>4 DEF Expire, provider, artifacts
  <2> HIDE DEF k, row
  <2>5. SessionsTyped' /\ SameSizes
    BY <2>1, <2>2, <2>3, <2>4, SessionStep DEF SameSizes
  <2>6. RequestsTyped'
    <3>1. Learns(Request(t), NoState, recovery[Request(t)])
      BY <1>0, <2>4, TypedParts DEF Learns
    <3>2. NoState \in Seen' /\ Seen \subseteq Seen'
      BY <2>5, NothingKnown, SameSets
    <3> QED BY <1>0, <3>1, <3>2, RequestsStep
  <2> QED BY <1>4, <2>5, <2>6, FinishStep, DocumentsSame DEF Expire, TypedAfter, provider, artifacts
<1>5. CASE ExpireFails(t)
  <2>1. SameSizes
    BY <1>5 DEF ExpireFails, SameSizes, provider, artifacts
  <2> QED BY <1>5, <2>1, FinishStep, RequestsSame, SessionsSame, DocumentsSame
          DEF ExpireFails, TypedAfter, provider, artifacts
<1>6. CASE Lookup(t)
  <2>1. SameSizes /\ Here \subseteq Here'
    BY <1>6, SameSets DEF Lookup, SameSizes, provider, artifacts
  <2> DEFINE target == IF documents = <<>> THEN 0 ELSE 1
             v == [loc[t] EXCEPT !.target = target]
  <2>2. target \in 0..Len(documents)
    BY EmptySeq, Lengths DEF Typed, DocumentsTyped
  <2>3. Moves(t, "save", kind[t], v)
    BY <1>6, TypedParts DEF Lookup, Goto, Moves
  <2> HIDE DEF target
  <2>4. v \in Here /\ v.file = loc[t].file
    BY <1>0, <2>2 DEF Here, Local
  <2>5. Ready("save", kind[t], v) /\ "save" \in Labels
    BY <1>0, <1>6, <2>4 DEF Lookup, Ready, Labels
  <2> HIDE DEF v
  <2>6. ThreadsTyped'
    BY <1>0, <2>1, <2>3, <2>4, <2>5, ThreadsStep
  <2> QED BY <1>6, <2>1, <2>6, RequestsSame, SessionsSame, DocumentsSame
          DEF Lookup, TypedAfter, provider, artifacts
<1> QED BY <1>1, <1>2, <1>3, <1>4, <1>5, <1>6

(* The file of an export is one that was written, and the lock that is     *)
(* given back was a thread's.                                              *)
LEMMA ReleaseType ==
    ASSUME Typed, NEW t \in Threads, Release(t)
    PROVE  documentLock' \in [1..MaxDocuments -> Threads \cup {None}]
BY DEF Release, Typed, DocumentsTyped

LEMMA ExportedFile ==
    ASSUME Typed, NEW t \in Threads, pc[t] \in {"save", "commit"}
    PROVE  loc[t].file \in 1..Len(files) /\ loc[t].file \in 0..MaxFiles
<1>1. loc[t].file \in 0..Len(files) /\ loc[t].file # 0
  BY ThreadFacts DEF Ready, Here, Local
<1>2. Len(files) <= MaxFiles
  BY DEF Typed, SessionsTyped
<1> QED BY <1>1, <1>2, Lengths

LEMMA SavingTyped ==
    ASSUME Typed, NEW t \in Threads,
           \/ CreateDocument(t) \/ AddRevision(t) \/ CommitRevision(t) \/ SaveFails(t)
           \/ RecordResource(t) \/ StartPublish(t) \/ Publish(t)
    PROVE  TypedAfter
<1>0. /\ Ready(pc[t], kind[t], loc[t]) /\ loc[t] \in Here /\ kind[t] \in Kinds
      /\ Request(t) \in Requests /\ cache[Request(t)] \in Seen
      /\ recovery[Request(t)] \in Recovery
  BY ThreadFacts
<1>d. /\ documents \in Seq(Seq(1..Len(files))) /\ Len(documents) <= MaxDocuments
      /\ \A k \in 1..Len(documents) : Len(documents[k]) \in 1..MaxRevisions
      /\ objects \in [Revisions -> 0..MaxFiles]
      /\ published \in [Revisions -> 0..MaxFiles]
      /\ documentLock \in [1..MaxDocuments -> Threads \cup {None}]
      /\ saved \subseteq (1..Len(documents)) \X (1..MaxRevisions) \X (1..Len(files))
  BY DEF Typed, DocumentsTyped
<1>1. CASE CreateDocument(t)
  <2> DEFINE file == loc[t].file
             row == <<file>>
             v == [loc[t] EXCEPT !.target = Len(documents')]
  <2>1. file \in 1..Len(files) /\ file \in 0..MaxFiles
    BY <1>1, ExportedFile DEF CreateDocument
  <2>2. /\ Len(documents) < MaxDocuments
        /\ documents' = Append(documents, row)
        /\ objects' = [objects EXCEPT ![<<Len(documents'), 1>>] = file]
        /\ saved' = saved \cup {<<Len(documents'), 1, file>>}
        /\ UNCHANGED <<requestOf, kind, cache, recovery, sessions, conversationLock,
                       environments, files, documentLock, published>>
    BY <1>1 DEF CreateDocument, provider
  <2>3. row \in Seq(1..Len(files)) /\ Len(row) = 1
    BY <2>1
  <2> HIDE DEF file, row
  <2>4. /\ documents' \in Seq(Seq(1..Len(files))) /\ Len(documents') = Len(documents) + 1
        /\ \A k \in 1..Len(documents) : documents'[k] = documents[k]
        /\ documents'[Len(documents) + 1] = row
    BY <1>d, <2>2, <2>3, AppendProperties
  <2>5. Len(documents') \in Nat /\ Len(documents) <= Len(documents') /\ Len(documents') <= MaxDocuments
        /\ Len(documents') \in 1..Len(documents')
    BY <2>2, <2>4, Lengths
  <2>6. Here \subseteq Here' /\ Seen' = Seen
    <3>1. 0..Len(documents) \subseteq 0..Len(documents')
      BY <2>5, UpTo, Lengths
    <3> QED BY <2>2, <3>1 DEF Here, Seen, Local, Known
  <2>7. v \in Here' /\ v.file = loc[t].file /\ v.target = Len(documents') /\ v.target # 0
    <3> DEFINE d == Len(documents')
    <3>1. loc[t] \in Local(Len(sessions'), Len(environments'), Len(files'), d)
      BY <1>0, <2>6 DEF Here
    <3>2. d \in 0..d /\ d # 0
      BY <2>5
    <3> HIDE DEF d
    <3>3. [loc[t] EXCEPT !.target = d] \in Local(Len(sessions'), Len(environments'), Len(files'), d)
      BY <3>1, <3>2 DEF Local
    <3>4. [loc[t] EXCEPT !.target = d].file = loc[t].file /\ [loc[t] EXCEPT !.target = d].target = d
      BY <3>1 DEF Local
    <3> QED BY <3>2, <3>3, <3>4 DEF d, Here
  <2>8. Moves(t, "list", kind[t], v)
    BY <1>1, TypedParts DEF CreateDocument, Goto, Moves
  <2>9. Ready("list", kind[t], v) /\ "list" \in Labels
    BY <1>0, <1>1, <2>7 DEF CreateDocument, Ready, Labels
  <2> HIDE DEF v
  <2>10. ThreadsTyped'
    BY <1>0, <2>6, <2>7, <2>8, <2>9, ThreadsStep
  <2>11. RequestsTyped'
    BY <2>2, <2>6, TypedParts DEF RequestsTyped, Seen
  <2>12. \A k \in 1..Len(documents') : Len(documents'[k]) \in 1..MaxRevisions
    <3> SUFFICES ASSUME NEW k \in 1..Len(documents') PROVE Len(documents'[k]) \in 1..MaxRevisions
      OBVIOUS
    <3>1. CASE k = Len(documents) + 1
      <4>1. 1 \in 1..MaxRevisions
        BY BoundsAssumption
      <4> QED BY <2>3, <2>4, <3>1, <4>1
    <3>2. CASE k # Len(documents) + 1
      <4>1. k \in 1..Len(documents)
        BY <2>4, <3>2, Lengths
      <4> QED BY <1>d, <2>4, <4>1
    <3> QED BY <3>1, <3>2
  <2>13. saved' \subseteq (1..Len(documents')) \X (1..MaxRevisions) \X (1..Len(files))
    <3>1. 1..Len(documents) \subseteq 1..Len(documents') /\ 1 \in 1..MaxRevisions
      BY <2>5, UpTo, Lengths
    <3>2. saved \subseteq (1..Len(documents')) \X (1..MaxRevisions) \X (1..Len(files))
      BY <1>d, <3>1
    <3> QED BY <2>1, <2>2, <2>5, <3>1, <3>2
  <2>14. DocumentsTyped'
    <3>1. objects' \in [Revisions -> 0..MaxFiles]
      BY <1>d, <2>1, <2>2
    <3> QED BY <1>d, <2>2, <2>4, <2>5, <2>12, <2>13, <3>1 DEF DocumentsTyped
  <2> QED BY <2>2, <2>10, <2>11, <2>14, SessionsSame DEF TypedAfter
<1>2. CASE AddRevision(t)
  <2>1. SameSizes /\ Here \subseteq Here'
    BY <1>2, SameSets DEF AddRevision, SameSizes, provider
  <2> DEFINE k == loc[t].target
             n == Len(documents[k]) + 1
             v == [loc[t] EXCEPT !.revision = n]
  <2>2. k \in 1..Len(documents) /\ n \in 0..MaxRevisions
    <3>1. k \in 0..Len(documents) /\ k # 0 /\ n <= MaxRevisions
      BY <1>0, <1>2 DEF AddRevision, Here, Local
    <3> HIDE DEF k
    <3>2. k \in 1..Len(documents)
      BY <3>1, Lengths
    <3>3. Len(documents[k]) \in 1..MaxRevisions
      BY <1>d, <3>2
    <3> QED BY <3>1, <3>2, <3>3, Lengths
  <2>3. Moves(t, "commit", kind[t], v)
    BY <1>2, TypedParts DEF AddRevision, Goto, Moves
  <2>4. DocumentsTyped'
    <3>1. loc[t].file \in 0..MaxFiles
      BY <1>2, ExportedFile DEF AddRevision
    <3>2. objects' \in [Revisions -> 0..MaxFiles] /\ documentLock' \in [1..MaxDocuments -> Threads \cup {None}]
      BY <1>2, <1>d, <3>1 DEF AddRevision
    <3> QED BY <1>2, <1>d, <3>2 DEF AddRevision, DocumentsTyped, provider
  <2> HIDE DEF n
  <2>5. v \in Here /\ v.file = loc[t].file /\ v.target = k
    BY <1>0, <2>2 DEF Here, Local
  <2>6. Ready("commit", kind[t], v) /\ "commit" \in Labels
    BY <1>0, <1>2, <2>2, <2>5 DEF AddRevision, Ready, Labels
  <2> HIDE DEF v
  <2>7. ThreadsTyped'
    BY <1>0, <2>1, <2>3, <2>5, <2>6, ThreadsStep
  <2> QED BY <1>2, <2>1, <2>4, <2>7, RequestsSame, SessionsSame DEF AddRevision, TypedAfter, provider
<1>3. CASE CommitRevision(t)
  <2> DEFINE k == loc[t].target
             n == Len(documents[k]) + 1
             row == Append(documents[k], loc[t].file)
  <2>1. /\ k \in 1..Len(documents) /\ loc[t].file \in 1..Len(files)
        /\ n = loc[t].revision /\ n \in 1..MaxRevisions
    <3>1. k \in 0..Len(documents) /\ k # 0 /\ loc[t].revision \in 0..MaxRevisions
      BY <1>0, <1>3 DEF CommitRevision, Ready, Here, Local
    <3>2. loc[t].file \in 1..Len(files)
      BY <1>3, ExportedFile DEF CommitRevision
    <3>3. n = loc[t].revision
      BY <1>3 DEF CommitRevision
    <3> HIDE DEF k
    <3>4. k \in 1..Len(documents)
      BY <3>1, Lengths
    <3>5. Len(documents[k]) \in 1..MaxRevisions
      BY <1>d, <3>4
    <3> QED BY <3>1, <3>2, <3>3, <3>4, <3>5, Lengths
  <2>2. row \in Seq(1..Len(files)) /\ Len(row) = n
    <3>1. documents[k] \in Seq(1..Len(files))
      BY <1>d, <2>1, ElementOfSeq
    <3> QED BY <2>1, <3>1, AppendProperties
  <2>3. /\ documents' = [documents EXCEPT ![k] = row]
        /\ saved' = saved \cup {<<k, n, loc[t].file>>}
        /\ UNCHANGED <<sessions, environments, files, objects, published>>
    BY <1>3 DEF CommitRevision, provider
  <2> HIDE DEF k, n, row
  <2>4. /\ documents' \in Seq(Seq(1..Len(files))) /\ Len(documents') = Len(documents)
        /\ \A j \in 1..Len(documents) : documents'[j] = IF j = k THEN row ELSE documents[j]
    <3> DEFINE R == Seq(1..Len(files))
    <3>1. documents \in Seq(R) /\ k \in 1..Len(documents) /\ row \in R
      BY <1>d, <2>1, <2>2
    <3> HIDE DEF R
    <3>2. /\ [documents EXCEPT ![k] = row] \in Seq(R)
          /\ Len([documents EXCEPT ![k] = row]) = Len(documents)
          /\ \A j \in 1..Len(documents) :
                [documents EXCEPT ![k] = row][j] = IF j = k THEN row ELSE documents[j]
      BY <3>1, ExceptSeq
    <3> QED BY <2>3, <3>2 DEF R
  <2>5. SameSizes
    BY <2>3, <2>4 DEF SameSizes
  <2>6. ThreadsTyped'
    <3>1. "list" \in Labels /\ Ready("list", kind[t], loc[t])
      BY <1>0, <1>3 DEF CommitRevision, Labels, Ready
    <3> QED BY <1>3, <2>5, <3>1, GotoStep DEF CommitRevision
  <2>7. \A j \in 1..Len(documents') : Len(documents'[j]) \in 1..MaxRevisions
    BY <1>d, <2>1, <2>2, <2>4
  <2>8. saved' \subseteq (1..Len(documents')) \X (1..MaxRevisions) \X (1..Len(files'))
    <3>1. saved \subseteq (1..Len(documents)) \X (1..MaxRevisions) \X (1..Len(files))
      BY <1>d
    <3>2. <<k, n, loc[t].file>> \in (1..Len(documents)) \X (1..MaxRevisions) \X (1..Len(files))
      BY <2>1
    <3>3. saved' \subseteq (1..Len(documents)) \X (1..MaxRevisions) \X (1..Len(files))
      BY <2>3, <3>1, <3>2
    <3> QED BY <2>3, <2>4, <3>3
  <2>9. documentLock' \in [1..MaxDocuments -> Threads \cup {None}]
    BY <1>3, ReleaseType DEF CommitRevision
  <2>10. DocumentsTyped'
    BY <1>d, <2>3, <2>4, <2>7, <2>8, <2>9 DEF DocumentsTyped
  <2> QED BY <1>3, <2>5, <2>6, <2>10, RequestsSame, SessionsSame DEF CommitRevision, TypedAfter, provider
<1>4. CASE SaveFails(t)
  <2>1. SameSizes
    BY <1>4 DEF SaveFails, SameSizes, provider
  <2>2. DocumentsTyped'
    BY <1>4, <1>d, ReleaseType DEF SaveFails, DocumentsTyped, provider
  <2> QED BY <1>4, <2>1, <2>2, FinishStep, RequestsSame, SessionsSame DEF SaveFails, TypedAfter, provider
<1>5. CASE RecordResource(t)
  <2> DEFINE k == loc[t].session
             row == [sessions[k] EXCEPT !.manifest = sessions[k].manifest \cup {loc[t].target}]
  <2>1. k \in 0..Len(sessions) /\ loc[t].target \in Docs
    <3>1. loc[t].target \in 0..Len(documents) /\ loc[t].target # 0
      BY <1>0, <1>5 DEF RecordResource, Ready, Here, Local
    <3>0. Len(documents) <= MaxDocuments
      BY <1>d
    <3>2. loc[t].target \in 1..MaxDocuments
      BY <3>0, <3>1, Lengths
    <3> QED BY <1>0, <3>2 DEF Here, Local, Docs
  <2>2. k # 0 => row \in Row(Len(environments), Len(files))
    <3> SUFFICES ASSUME k # 0 PROVE row \in Row(Len(environments), Len(files))
      OBVIOUS
    <3>1. sessions[k] \in Row(Len(environments), Len(files))
      BY <2>1, Lengths, SessionRow
    <3> HIDE DEF k
    <3> QED BY <2>1, <3>1 DEF Row
  <2>3. UNCHANGED <<recovery, environments, files, conversationLock, documents, requestOf>>
    BY <1>5 DEF RecordResource, provider, artifacts
  <2>4. CASE sessions[k].status = "active"
    <3>1. sessions' = [sessions EXCEPT ![k] = row]
      BY <1>5, <2>4 DEF RecordResource
    <3>2. cache' = [cache EXCEPT ![Request(t)] = State(sessions', k)]
      BY <1>5, <2>4 DEF RecordResource
    <3> HIDE DEF k, row
    <3>3. SessionsTyped' /\ Len(sessions') = Len(sessions) /\ State(sessions', k) \in Seen
      BY <2>1, <2>2, <2>3, <3>1, SessionStep
    <3>4. SameSizes
      BY <2>3, <3>3 DEF SameSizes
    <3>5. Learns(Request(t), State(sessions', k), recovery[Request(t)])
      BY <1>0, <2>3, <3>2, TypedParts DEF Learns
    <3>6. RequestsTyped'
      BY <1>0, <3>3, <3>4, <3>5, SameSets, RequestsStep
    <3> QED BY <1>5, <3>3, <3>4, <3>6, FinishStep, DocumentsSame
            DEF RecordResource, TypedAfter, provider, artifacts
  <2>5. CASE sessions[k].status # "active"
    <3>1. UNCHANGED <<sessions, cache>>
      BY <1>5, <2>5 DEF RecordResource
    <3>2. SameSizes
      BY <2>3, <3>1 DEF SameSizes
    <3> QED BY <1>5, <2>3, <3>1, <3>2, FinishStep, RequestsSame, SessionsSame, DocumentsSame
            DEF RecordResource, TypedAfter, provider, artifacts
  <2> QED BY <2>4, <2>5
<1>6. CASE StartPublish(t)
  <2>1. SameSizes /\ Here \subseteq Here'
    BY <1>6, SameSets DEF StartPublish, SameSizes, provider, artifacts
  <2>2. PICK k \in 1..Len(documents) :
          loc' = [loc EXCEPT ![t].target = k, ![t].revision = Len(documents[k])]
    BY <1>6, Lengths DEF StartPublish
  <2> DEFINE v == [loc[t] EXCEPT !.target = k, !.revision = Len(documents[k])]
  <2>3. Len(documents[k]) \in 0..MaxRevisions /\ k \in 0..Len(documents) /\ k # 0
    BY <1>d, <2>2, Lengths
  <2>4. v \in Here /\ v.target = k
    BY <1>0, <2>3 DEF Here, Local
  <2>5. Moves(t, "publish", "publish", v)
    BY <1>6, <2>2, TypedParts DEF StartPublish, Goto, Moves
  <2>6. Ready("publish", "publish", v) /\ "publish" \in Labels /\ "publish" \in Kinds
    BY <2>3, <2>4 DEF Ready, Labels, Kinds
  <2> HIDE DEF v
  <2>7. ThreadsTyped'
    BY <2>1, <2>4, <2>5, <2>6, ThreadsStep
  <2> QED BY <1>6, <2>1, <2>7, RequestsSame, SessionsSame, DocumentsSame
          DEF StartPublish, TypedAfter, provider, artifacts
<1>7. CASE Publish(t)
  <2>1. SameSizes
    BY <1>7 DEF Publish, SameSizes, provider
  <2>2. published' \in [Revisions -> 0..MaxFiles]
    <3> DEFINE key == <<loc[t].target, loc[t].revision>>
    <3>1. published' = published \/ published' = [published EXCEPT ![key] = objects[key]]
      BY <1>7 DEF Publish
    <3> HIDE DEF key
    <3>2. key \in Revisions => objects[key] \in 0..MaxFiles
      BY <1>d
    <3> QED BY <1>d, <3>1, <3>2
  <2>3. DocumentsTyped'
    BY <1>7, <1>d, <2>2 DEF Publish, DocumentsTyped, provider
  <2> QED BY <1>7, <2>1, <2>3, FinishStep, RequestsSame, SessionsSame DEF Publish, TypedAfter, provider
<1> QED BY <1>1, <1>2, <1>3, <1>4, <1>5, <1>6, <1>7

LEMMA TypedNext == Typed /\ [Next]_vars => Typed'
<1> SUFFICES ASSUME Typed, [Next]_vars PROVE TypedAfter
  BY DEF Typed, TypedAfter
<1>1. ASSUME NEW t \in Threads, ThreadStep(t) PROVE TypedAfter
  BY <1>1, SamplingTyped, MaterializingTyped, DownloadTyped, SavingTyped DEF ThreadStep
<1>2. ASSUME NEW r \in Requests, EndRequest(r) PROVE TypedAfter
  <2>1. SameSizes
    BY <1>2 DEF EndRequest, SameSizes, provider, artifacts
  <2> QED BY <1>2, <2>1, ThreadsSame, ForgetStep, SessionsSame, DocumentsSame
          DEF EndRequest, TypedAfter, thread, provider, artifacts
<1>3. CASE UNCHANGED vars
  <2>1. SameSizes
    BY <1>3 DEF vars, SameSizes
  <2> QED BY <1>3, <2>1, ThreadsSame, RequestsSame, SessionsSame, DocumentsSame DEF vars, TypedAfter
<1> QED BY <1>1, <1>2, <1>3 DEF Next

(* Whatever the calls of however many requests do at the same time, and    *)
(* whatever fails, no number that a thread, a request or a row of the      *)
(* database holds points past what it numbers: no session, environment,    *)
(* file or document is named before it exists (sandbox_session.py,         *)
(* artifact.py).                                                           *)
THEOREM TypeCorrect == Spec => []TypeOK
<1>1. Spec => []Typed
  BY TypedInit, TypedNext, PTL DEF Spec
<1> QED BY <1>1, TypedImplies, PTL

-----------------------------------------------------------------------------
(* One active session *)

Others(t) == \A u \in Threads \ {t} : pc'[u] = pc[u] /\ loc'[u] = loc[u]

(* A step that is neither of the two under the lock of the conversation.   *)
Aside(t) == /\ pc[t] # "ensuring" /\ pc'[t] # "ensuring"
            /\ conversationLock' = conversationLock

LEMMA OthersStay ==
    ASSUME Typed, NEW t \in Threads, ThreadStep(t)
    PROVE  Others(t)
<1>0. pc \in [Threads -> Labels] /\ loc \in [Threads -> Here]
  BY TypedParts
<1>1. CASE \/ StartSample(t) \/ StartMaterialize(t) \/ StartPromote(t)
           \/ Ensure(t) \/ CreateSession(t) \/ HasSession(t)
  BY <1>0, <1>1 DEF StartSample, StartMaterialize, StartPromote, Ensure, CreateSession, HasSession,
                    Goto, Others
<1>2. CASE \/ Execute(t) \/ NoShell(t) \/ SampleFails(t) \/ RecordExecution(t) \/ RecordFails(t)
  BY <1>0, <1>2 DEF Execute, NoShell, SampleFails, RecordExecution, RecordFails,
                    Abort, Finish, Goto, Others
<1>3. CASE \/ LoadRecovery(t) \/ Recover(t) \/ Recovered(t) \/ StateLost(t)
           \/ Materialize(t) \/ MaterializeFails(t)
  BY <1>0, <1>3 DEF LoadRecovery, Recover, Recovered, StateLost, Materialize, MaterializeFails,
                    Finish, Goto, Others
<1>4. CASE \/ Download(t) \/ DownloadFails(t) \/ Expire(t) \/ ExpireFails(t) \/ Lookup(t)
           \/ CreateDocument(t) \/ AddRevision(t) \/ CommitRevision(t) \/ SaveFails(t)
  BY <1>0, <1>4 DEF Download, DownloadFails, Expire, ExpireFails, Lookup, CreateDocument,
                    AddRevision, CommitRevision, SaveFails, Finish, Goto, Others
<1>5. CASE RecordResource(t) \/ StartPublish(t) \/ Publish(t)
  BY <1>0, <1>5 DEF RecordResource, StartPublish, Publish, Finish, Goto, Others
<1> QED BY <1>1, <1>2, <1>3, <1>4, <1>5 DEF ThreadStep

LEMMA MostStepAside ==
    ASSUME Typed, NEW t \in Threads, ThreadStep(t)
    PROVE  Ensure(t) \/ CreateSession(t) \/ Aside(t)
<1>0. pc \in [Threads -> Labels]
  BY TypedParts
<1>1. CASE StartSample(t) \/ StartMaterialize(t) \/ StartPromote(t) \/ HasSession(t)
  BY <1>0, <1>1 DEF StartSample, StartMaterialize, StartPromote, HasSession,
                    AfterEnsure, Begin, Goto, Aside
<1>2. CASE \/ Execute(t) \/ NoShell(t) \/ SampleFails(t) \/ RecordExecution(t) \/ RecordFails(t)
  BY <1>0, <1>2 DEF Execute, NoShell, SampleFails, RecordExecution, RecordFails,
                    Abort, Finish, Goto, Aside
<1>3. CASE \/ LoadRecovery(t) \/ Recover(t) \/ Recovered(t) \/ StateLost(t)
           \/ Materialize(t) \/ MaterializeFails(t)
  BY <1>0, <1>3 DEF LoadRecovery, Recover, Recovered, StateLost, Materialize, MaterializeFails,
                    Finish, Goto, Aside
<1>4. CASE \/ Download(t) \/ DownloadFails(t) \/ Expire(t) \/ ExpireFails(t) \/ Lookup(t)
           \/ CreateDocument(t) \/ AddRevision(t) \/ CommitRevision(t) \/ SaveFails(t)
  BY <1>0, <1>4 DEF Download, DownloadFails, Expire, ExpireFails, Lookup, CreateDocument,
                    AddRevision, CommitRevision, SaveFails, Finish, Goto, Aside
<1>5. CASE RecordResource(t) \/ StartPublish(t) \/ Publish(t)
  BY <1>0, <1>5 DEF RecordResource, StartPublish, Publish, Finish, Goto, Aside
<1> QED BY <1>1, <1>2, <1>3, <1>4, <1>5 DEF ThreadStep

(* A row that is written does not make a session active again.             *)
LEMMA RowKeepsActive ==
    ASSUME Typed, NEW k, NEW row, sessions' = [sessions EXCEPT ![k] = row],
           k \in DOMAIN sessions => row.status \in {sessions[k].status, "expired"}
    PROVE  ActiveSessions' \subseteq ActiveSessions
<1>1. DOMAIN sessions' = DOMAIN sessions
  BY Lengths
<1> QED BY <1>1 DEF ActiveSessions

LEMMA ActiveShrinks ==
    ASSUME Typed, NEW t \in Threads, ThreadStep(t), ~CreateSession(t)
    PROVE  ActiveSessions' \subseteq ActiveSessions
<1>0. \A k \in DOMAIN sessions : sessions[k] \in Row(Len(environments), Len(files))
  BY SessionRow, Lengths
<1>1. CASE UNCHANGED sessions
  BY <1>1 DEF ActiveSessions
<1>2. CASE RecordExecution(t)
  <2> DEFINE k == cache[Request(t)].id
             row == [sessions[k] EXCEPT !.env = loc[t].env,
                        !.observed = IF loc[t].file # 0 THEN loc[t].file ELSE cache[Request(t)].observed]
  <2>1. sessions' = [sessions EXCEPT ![k] = row]
    BY <1>2 DEF RecordExecution
  <2>2. k \in DOMAIN sessions => row.status = sessions[k].status
    BY <1>0 DEF Row
  <2> HIDE DEF k, row
  <2> QED BY <2>1, <2>2, RowKeepsActive
<1>3. CASE Materialize(t)
  <2> DEFINE k == loc[t].session
  <2>1. PICK d : sessions' = [sessions EXCEPT ![k] = Given(@, d)]
    BY <1>3 DEF Materialize
  <2> DEFINE row == Given(sessions[k], d)
  <2>2. sessions' = [sessions EXCEPT ![k] = row]
    BY <2>1
  <2>3. k \in DOMAIN sessions => row.status = sessions[k].status
    BY <1>0 DEF Row, Given
  <2> HIDE DEF k, row
  <2> QED BY <2>2, <2>3, RowKeepsActive
<1>4. CASE Expire(t)
  <2> DEFINE k == loc[t].session
             row == [sessions[k] EXCEPT !.status = "expired"]
  <2>1. sessions' = [sessions EXCEPT ![k] = row]
    BY <1>4 DEF Expire
  <2>2. k \in DOMAIN sessions => row.status = "expired"
    BY <1>0 DEF Row
  <2> HIDE DEF k, row
  <2> QED BY <2>1, <2>2, RowKeepsActive
<1>5. CASE RecordResource(t) /\ ~UNCHANGED sessions
  <2> DEFINE k == loc[t].session
             row == [sessions[k] EXCEPT !.manifest = sessions[k].manifest \cup {loc[t].target}]
  <2>1. sessions' = [sessions EXCEPT ![k] = row]
    BY <1>5 DEF RecordResource
  <2>2. k \in DOMAIN sessions => row.status = sessions[k].status
    BY <1>0 DEF Row
  <2> HIDE DEF k, row
  <2> QED BY <2>1, <2>2, RowKeepsActive
<1>6. \/ UNCHANGED sessions
      \/ RecordExecution(t) \/ Materialize(t) \/ Expire(t) \/ RecordResource(t)
  <2>1. CASE \/ StartSample(t) \/ StartMaterialize(t) \/ StartPromote(t) \/ Ensure(t) \/ HasSession(t)
             \/ Execute(t) \/ NoShell(t) \/ SampleFails(t) \/ RecordFails(t)
    BY <2>1 DEF StartSample, StartMaterialize, StartPromote, Ensure, HasSession, Execute, NoShell,
                SampleFails, RecordFails
  <2>2. CASE \/ LoadRecovery(t) \/ Recover(t) \/ Recovered(t) \/ StateLost(t) \/ MaterializeFails(t)
             \/ Download(t) \/ DownloadFails(t) \/ ExpireFails(t)
    BY <2>2 DEF LoadRecovery, Recover, Recovered, StateLost, MaterializeFails, Download, DownloadFails,
                ExpireFails
  <2>3. CASE \/ Lookup(t) \/ CreateDocument(t) \/ AddRevision(t) \/ CommitRevision(t) \/ SaveFails(t)
             \/ StartPublish(t) \/ Publish(t)
    BY <2>3 DEF Lookup, CreateDocument, AddRevision, CommitRevision, SaveFails, StartPublish, Publish
  <2> QED BY <2>1, <2>2, <2>3 DEF ThreadStep
<1> QED BY <1>1, <1>2, <1>3, <1>4, <1>5, <1>6

LEMMA LockedInit == Init => Locked
<1> SUFFICES ASSUME Init PROVE Locked
  OBVIOUS
<1>1. ActiveSessions = {}
  BY DEF Init, ActiveSessions
<1> QED BY <1>1, NoneAssumption DEF Init, Locked

LEMMA LockedNext == Typed /\ Locked /\ [Next]_vars => Locked'
<1> SUFFICES ASSUME Typed, Locked, [Next]_vars PROVE Locked'
  OBVIOUS
<1>0. pc \in [Threads -> Labels] /\ loc \in [Threads -> Here]
  BY TypedParts
<1>1. ASSUME NEW t \in Threads, ThreadStep(t), Aside(t) PROVE Locked'
  <2>1. ActiveSessions' \subseteq ActiveSessions
    BY <1>0, <1>1, ActiveShrinks DEF CreateSession, Aside
  <2>2. Others(t)
    BY <1>1, OthersStay
  <2> QED BY <1>1, <2>1, <2>2 DEF Locked, Aside, Others
<1>2. ASSUME NEW t \in Threads, Ensure(t) PROVE Locked'
  <2>1. /\ conversationLock = None /\ conversationLock' = t
        /\ pc' = [pc EXCEPT ![t] = "ensuring"]
        /\ loc' = [loc EXCEPT ![t].session = Newest(ActiveSessions)]
        /\ ActiveSessions' = ActiveSessions
    BY <1>2 DEF Ensure, Goto, ActiveSessions
  <2>2. \A u \in Threads : pc[u] # "ensuring"
    BY <2>1, NoneAssumption DEF Locked
  <2>3. loc'[t].session = Newest(ActiveSessions)
    BY <1>0, <2>1 DEF Here, Local
  <2>4. Newest(ActiveSessions) = 0 => ActiveSessions = {}
    <3>1. ActiveSessions \in SUBSET (DOMAIN sessions)
      BY DEF ActiveSessions
    <3> QED BY <3>1, NewestActive DEF Typed
  <2>5. \A u \in Threads : pc'[u] = "ensuring" <=> u = t
    BY <1>0, <2>1, <2>2
  <2> QED BY <2>1, <2>3, <2>4, <2>5 DEF Locked
<1>3. ASSUME NEW t \in Threads, CreateSession(t) PROVE Locked'
  <2>1. pc[t] = "ensuring" /\ conversationLock = t
    BY <1>3 DEF CreateSession, Locked
  <2>2. \A u \in Threads : pc[u] = "ensuring" <=> u = t
    BY <2>1 DEF Locked
  <2>3. \A u \in Threads : pc'[u] # "ensuring"
    BY <1>0, <1>3, <2>2 DEF CreateSession, Goto, AfterEnsure
  <2>4. conversationLock' = None
    BY <1>3, <2>1 DEF CreateSession
  <2>5. \A j, k \in ActiveSessions' : j = k
    <3>1. CASE loc[t].session # 0
      <4>1. ActiveSessions' = ActiveSessions
        BY <1>3, <3>1 DEF CreateSession, ActiveSessions
      <4> QED BY <4>1 DEF Locked
    <3>2. CASE loc[t].session = 0
      <4> DEFINE row == [status |-> "active", manifest |-> {}, materialized |-> {},
                         env |-> 0, observed |-> 0]
      <4>1. ActiveSessions = {}
        BY <2>1, <3>2 DEF Locked
      <4>2. sessions' = Append(sessions, row)
        BY <1>3, <3>2 DEF CreateSession
      <4>3. row \in Row(Len(environments), Len(files)) /\ sessions \in Seq(Row(Len(environments), Len(files)))
        BY Lengths DEF Row, Typed, SessionsTyped
      <4> HIDE DEF row
      <4>4. /\ DOMAIN sessions' = 1..(Len(sessions) + 1)
            /\ \A i \in DOMAIN sessions : sessions'[i] = sessions[i]
        BY <4>2, <4>3, AppendProperties, LenProperties
      <4>5. ActiveSessions' \subseteq {Len(sessions) + 1}
        <5> SUFFICES ASSUME NEW i \in DOMAIN sessions', i # Len(sessions) + 1
                     PROVE  sessions'[i].status # "active"
          BY DEF ActiveSessions
        <5>1. i \in DOMAIN sessions
          BY <4>4, Lengths
        <5> QED BY <4>1, <4>4, <5>1 DEF ActiveSessions
      <4> QED BY <4>5
    <3> QED BY <3>1, <3>2
  <2> QED BY <2>3, <2>4, <2>5, NoneAssumption DEF Locked
<1>4. ASSUME NEW r \in Requests, EndRequest(r) PROVE Locked'
  BY <1>4 DEF EndRequest, thread, Locked, ActiveSessions
<1>5. CASE UNCHANGED vars
  BY <1>5 DEF vars, Locked, ActiveSessions
<1> QED BY <1>1, <1>2, <1>3, <1>4, <1>5, MostStepAside DEF Next

LEMMA LockedImplies == Typed /\ Locked => OneActiveSession
<1> SUFFICES ASSUME Typed, Locked PROVE OneActiveSession
  OBVIOUS
<1>1. CASE ActiveSessions = {}
  BY <1>1, FS_EmptySet DEF OneActiveSession
<1>2. CASE ActiveSessions # {}
  <2>1. PICK k \in ActiveSessions : TRUE
    BY <1>2
  <2>2. ActiveSessions = {k}
    BY <2>1 DEF Locked
  <2>3. Cardinality(ActiveSessions) = 1
    BY <2>2, FS_Singleton
  <2> QED BY <2>3 DEF OneActiveSession
<1> QED BY <1>1, <1>2

(* A conversation has at most one active session, however many requests of *)
(* it ask for one together: ensure locks the conversation, so that no      *)
(* other session is created between its look for one and its own           *)
(* (sandbox_session.py).                                                   *)
THEOREM OneSession == Spec => []OneActiveSession
<1>1. Init => Typed /\ Locked
  BY TypedInit, LockedInit
<1>2. Typed /\ Locked /\ [Next]_vars => (Typed /\ Locked)'
  BY TypedNext, LockedNext
<1> QED BY <1>1, <1>2, LockedImplies, PTL DEF Spec

-----------------------------------------------------------------------------
(* What is saved stays saved *)

(* A step that is none of those that touch a document.                     *)
Apart(t) == UNCHANGED <<artifacts, saved>> /\ pc'[t] \notin {"commit", "publish"}

LEMMA MostStepApart ==
    ASSUME Typed, NEW t \in Threads, ThreadStep(t)
    PROVE  \/ CreateDocument(t) \/ AddRevision(t) \/ CommitRevision(t) \/ SaveFails(t)
           \/ StartPublish(t) \/ Publish(t) \/ Apart(t)
<1>0. pc \in [Threads -> Labels]
  BY TypedParts
<1>1. CASE \/ StartSample(t) \/ StartMaterialize(t) \/ StartPromote(t)
           \/ Ensure(t) \/ CreateSession(t) \/ HasSession(t)
  BY <1>0, <1>1 DEF StartSample, StartMaterialize, StartPromote, Ensure, CreateSession, HasSession,
                    AfterEnsure, Goto, Apart
<1>2. CASE \/ Execute(t) \/ NoShell(t) \/ SampleFails(t) \/ RecordExecution(t) \/ RecordFails(t)
  BY <1>0, <1>2 DEF Execute, NoShell, SampleFails, RecordExecution, RecordFails,
                    Abort, Finish, Goto, Apart
<1>3. CASE \/ LoadRecovery(t) \/ Recover(t) \/ Recovered(t) \/ StateLost(t)
           \/ Materialize(t) \/ MaterializeFails(t)
  BY <1>0, <1>3 DEF LoadRecovery, Recover, Recovered, StateLost, Materialize, MaterializeFails,
                    Finish, Goto, Apart
<1>4. CASE \/ Download(t) \/ DownloadFails(t) \/ Expire(t) \/ ExpireFails(t) \/ Lookup(t)
           \/ RecordResource(t)
  BY <1>0, <1>4 DEF Download, DownloadFails, Expire, ExpireFails, Lookup, RecordResource,
                    Finish, Goto, Apart
<1> QED BY <1>1, <1>2, <1>3, <1>4 DEF ThreadStep

(* What is written beside the committed revisions, and locked for it.      *)
WrittenBy(t) ==
    LET k == loc[t].target n == loc[t].revision IN
        /\ pc[t] = "commit" => /\ documentLock[k] = t
                               /\ n = Len(documents[k]) + 1
                               /\ objects[<<k, n>>] = loc[t].file
        /\ pc[t] = "publish" => n \in 1..Len(documents[k])

LEMMA WrittenParts == Written <=> \A t \in Threads : WrittenBy(t)
BY DEF Written, WrittenBy

LEMMA TargetOf ==
    ASSUME Typed, NEW t \in Threads, pc[t] \in {"commit", "publish"}
    PROVE  /\ loc[t].target \in 1..Len(documents) /\ loc[t].target \in 1..MaxDocuments
           /\ Len(documents[loc[t].target]) \in 1..MaxRevisions
<1> DEFINE k == loc[t].target
<1>1. k \in 0..Len(documents) /\ k # 0
  BY ThreadFacts DEF Ready, Here, Local
<1>2. Len(documents) <= MaxDocuments
  BY DEF Typed, DocumentsTyped
<1> HIDE DEF k
<1>3. k \in 1..Len(documents) /\ k \in 1..MaxDocuments
  BY <1>1, <1>2, Lengths
<1>4. Len(documents[k]) \in 1..MaxRevisions
  BY <1>3 DEF Typed, DocumentsTyped
<1> QED BY <1>3, <1>4 DEF k

LEMMA SavedInit == Init => Written /\ Told
<1> SUFFICES ASSUME Init PROVE Written /\ Told
  OBVIOUS
<1>1. Len(documents) = 0
  BY EmptySeq DEF Init
<1>2. Written
  BY DEF Init, Written
<1>3. Told
  BY <1>1 DEF Init, Told
<1> QED BY <1>2, <1>3

(* Nothing is written of any document.                                     *)
LEMMA UntouchedDocuments ==
    ASSUME Told, UNCHANGED <<documents, objects, published, saved>>
    PROVE  Told'
BY DEF Told

LEMMA CreatedSaved ==
    ASSUME Typed, Written, Told, NEW t \in Threads, CreateDocument(t)
    PROVE  Written' /\ Told'
<1> DEFINE file == loc[t].file
           row == <<file>>
           d == Len(documents) + 1
<1>1. /\ d \in 1..MaxDocuments /\ file \in 1..Len(files)
      /\ documents' = Append(documents, row)
      /\ objects' = [objects EXCEPT ![<<Len(documents'), 1>>] = file]
      /\ saved' = saved \cup {<<Len(documents'), 1, file>>}
      /\ UNCHANGED <<documentLock, published>>
  BY ExportedFile, Lengths DEF CreateDocument
<1>2. row \in Seq(1..Len(files)) /\ Len(row) = 1 /\ row[1] = file
  BY <1>1
<1>3. documents \in Seq(Seq(1..Len(files))) /\ objects \in [Revisions -> 0..MaxFiles]
  BY DEF Typed, DocumentsTyped
<1> HIDE DEF file, row
<1>4. /\ Len(documents') = d
      /\ \A k \in 1..Len(documents) : documents'[k] = documents[k]
      /\ documents'[d] = row
  BY <1>1, <1>2, <1>3, AppendProperties
<1>5. <<d, 1>> \in Revisions /\ 1 \in 1..MaxRevisions
  BY <1>1, BoundsAssumption DEF Revisions
<1>6. /\ objects'[<<d, 1>>] = file
      /\ \A k \in 1..Len(documents) : \A n : objects'[<<k, n>>] = objects[<<k, n>>]
  <2>1. objects' = [objects EXCEPT ![<<d, 1>>] = file]
    BY <1>1, <1>4
  <2>2. objects'[<<d, 1>>] = file
    BY <1>3, <1>5, <2>1
  <2>3. ASSUME NEW k \in 1..Len(documents), NEW n PROVE objects'[<<k, n>>] = objects[<<k, n>>]
    <3>1. <<k, n>> # <<d, 1>>
      BY Lengths
    <3> HIDE DEF d
    <3> QED BY <1>3, <2>1, <3>1
  <2> QED BY <2>2, <2>3
<1>7. Written'
  <2> SUFFICES ASSUME NEW u \in Threads PROVE WrittenBy(u)'
    BY WrittenParts DEF Written, WrittenBy
  <2>1. CASE u = t
    BY <1>1, <2>1, TypedParts DEF CreateDocument, Goto, WrittenBy
  <2>2. CASE u # t
    <3>1. pc'[u] = pc[u] /\ loc'[u] = loc[u]
      BY <2>2, OthersStay DEF ThreadStep, Others
    <3>2. CASE pc[u] \in {"commit", "publish"}
      <4>1. loc[u].target \in 1..Len(documents)
        BY <3>2, TargetOf
      <4> QED BY <1>1, <1>4, <1>6, <3>1, <4>1 DEF Written, WrittenBy
    <3>3. CASE pc[u] \notin {"commit", "publish"}
      BY <3>1, <3>3 DEF WrittenBy
    <3> QED BY <3>2, <3>3
  <2> QED BY <2>1, <2>2
<1>8. Told'
  <2>1. ASSUME NEW k \in 1..Len(documents'), NEW n \in 1..Len(documents'[k])
        PROVE  objects'[<<k, n>>] = documents'[k][n] /\ <<k, n, documents'[k][n]>> \in saved'
    <3>1. CASE k = d
      <4>1. Len(documents'[k]) = 1
        BY <1>2, <1>4, <3>1
      <4>2. n = 1
        BY <4>1
      <4> QED BY <1>1, <1>2, <1>4, <1>6, <3>1, <4>2
    <3>2. CASE k # d
      <4>1. k \in 1..Len(documents)
        BY <1>4, <3>2, Lengths
      <4> QED BY <1>1, <1>4, <1>6, <4>1 DEF Told
    <3> QED BY <3>1, <3>2
  <2>2. ASSUME NEW s \in saved' PROVE s[2] \in 1..Len(documents'[s[1]]) /\ s[3] = documents'[s[1]][s[2]]
    <3>1. CASE s = <<d, 1, file>>
      BY <1>2, <1>4, <3>1
    <3>2. CASE s # <<d, 1, file>>
      <4>1. s \in saved
        BY <1>1, <1>4, <3>2
      <4>2. s[1] \in 1..Len(documents)
        BY <4>1 DEF Typed, DocumentsTyped
      <4> QED BY <1>4, <4>1, <4>2 DEF Told
    <3> QED BY <3>1, <3>2
  <2>3. \A r \in Revisions : published'[r] # 0 => <<r[1], r[2], published'[r]>> \in saved'
    BY <1>1 DEF Told
  <2> QED BY <2>1, <2>2, <2>3 DEF Told
<1> QED BY <1>7, <1>8

LEMMA RevisionWritten ==
    ASSUME Typed, Written, Told, NEW t \in Threads, AddRevision(t)
    PROVE  Written' /\ Told'
<1> DEFINE k == loc[t].target
           n == Len(documents[k]) + 1
           file == loc[t].file
<1>1. /\ documentLock[k] = None /\ documentLock' = [documentLock EXCEPT ![k] = t]
      /\ objects' = [objects EXCEPT ![<<k, n>>] = file] /\ n <= MaxRevisions
      /\ UNCHANGED <<documents, published, saved>>
  BY DEF AddRevision
<1>2. /\ loc[t] \in Here /\ pc'[t] = "commit"
      /\ loc'[t].target = k /\ loc'[t].revision = n /\ loc'[t].file = file
  BY TypedParts DEF AddRevision, Goto, Here, Local
<1>3. k \in 1..Len(documents) /\ k \in 1..MaxDocuments /\ n \in 1..MaxRevisions
  <2>1. k \in 0..Len(documents) /\ k # 0
    BY <1>2 DEF AddRevision, Here, Local
  <2>2. Len(documents) <= MaxDocuments
    BY DEF Typed, DocumentsTyped
  <2> HIDE DEF k
  <2>3. k \in 1..Len(documents) /\ k \in 1..MaxDocuments
    BY <2>1, <2>2, Lengths
  <2>4. Len(documents[k]) \in 1..MaxRevisions
    BY <2>3 DEF Typed, DocumentsTyped
  <2> QED BY <1>1, <2>3, <2>4, Lengths
<1>4. /\ objects \in [Revisions -> 0..MaxFiles]
      /\ documentLock \in [1..MaxDocuments -> Threads \cup {None}]
      /\ <<k, n>> \in Revisions
  BY <1>3 DEF Typed, DocumentsTyped, Revisions
<1>5. \A key : key # <<k, n>> => objects'[key] = objects[key]
  <2> HIDE DEF k, n
  <2> QED BY <1>1, <1>4
<1>6. objects'[<<k, n>>] = file /\ documentLock'[k] = t
  <2> HIDE DEF k, n
  <2> QED BY <1>1, <1>3, <1>4
<1>7. Written'
  <2> SUFFICES ASSUME NEW u \in Threads PROVE WrittenBy(u)'
    BY WrittenParts DEF Written, WrittenBy
  <2>1. CASE u = t
    BY <1>1, <1>2, <1>6, <2>1 DEF WrittenBy
  <2>2. CASE u # t
    <3>1. pc'[u] = pc[u] /\ loc'[u] = loc[u]
      BY <2>2, OthersStay DEF ThreadStep, Others
    <3>2. CASE pc[u] = "commit"
      <4>1. documentLock[loc[u].target] = u
        BY <3>2 DEF Written
      <4>2. loc[u].target # k
        BY <1>1, <4>1, NoneAssumption
      <4>3. documentLock'[loc[u].target] = u
        <5> HIDE DEF k
        <5> QED BY <1>1, <1>4, <4>1, <4>2
      <4>4. objects'[<<loc[u].target, loc[u].revision>>] = objects[<<loc[u].target, loc[u].revision>>]
        BY <1>5, <4>2
      <4> QED BY <1>1, <3>1, <3>2, <4>3, <4>4 DEF Written, WrittenBy
    <3>3. CASE pc[u] # "commit"
      BY <1>1, <3>1, <3>3 DEF Written, WrittenBy
    <3> QED BY <3>2, <3>3
  <2> QED BY <2>1, <2>2
<1>8. Told'
  <2>1. \A j \in 1..Len(documents) : \A m \in 1..Len(documents[j]) : objects'[<<j, m>>] = objects[<<j, m>>]
    <3> SUFFICES ASSUME NEW j \in 1..Len(documents), NEW m \in 1..Len(documents[j])
                 PROVE  <<j, m>> # <<k, n>>
      BY <1>5
    <3>1. Len(documents[k]) \in Nat
      BY <1>3, SMTT(20) DEF Typed, DocumentsTyped
    <3>2. j = k => m # n
      BY <3>1
    <3> QED BY <3>2
  <2> QED BY <1>1, <2>1 DEF Told
<1> QED BY <1>7, <1>8

LEMMA RevisionCommitted ==
    ASSUME Typed, Written, Told, NEW t \in Threads, CommitRevision(t)
    PROVE  Written' /\ Told'
<1> DEFINE k == loc[t].target
           n == Len(documents[k]) + 1
           file == loc[t].file
           row == Append(documents[k], file)
<1>1. /\ documents' = [documents EXCEPT ![k] = row]
      /\ saved' = saved \cup {<<k, n, file>>}
      /\ loc[t].revision = n /\ pc[t] = "commit" /\ pc'[t] = "list"
      /\ UNCHANGED <<objects, published>> /\ Release(t)
  BY TypedParts DEF CommitRevision, Goto
<1>2. /\ k \in 1..Len(documents) /\ k \in 1..MaxDocuments /\ file \in 1..Len(files)
      /\ Len(documents[k]) \in Nat /\ objects[<<k, n>>] = file /\ documentLock[k] = t
  BY <1>1, TargetOf, ExportedFile DEF Written
<1>3. documents \in Seq(Seq(1..Len(files))) /\ documents[k] \in Seq(1..Len(files))
  BY <1>2, ElementOfSeq DEF Typed, DocumentsTyped
<1>4. /\ row \in Seq(1..Len(files)) /\ Len(row) = n
      /\ \A i \in 1..Len(documents[k]) : row[i] = documents[k][i]
      /\ row[n] = file
  BY <1>2, <1>3, AppendProperties
<1> HIDE DEF k, n, file, row
<1>5. /\ Len(documents') = Len(documents)
      /\ \A j \in 1..Len(documents) : documents'[j] = IF j = k THEN row ELSE documents[j]
  <2> DEFINE R == Seq(1..Len(files))
  <2>1. documents \in Seq(R) /\ row \in R
    BY <1>3, <1>4
  <2> HIDE DEF R
  <2>2. /\ Len([documents EXCEPT ![k] = row]) = Len(documents)
        /\ \A j \in 1..Len(documents) :
              [documents EXCEPT ![k] = row][j] = IF j = k THEN row ELSE documents[j]
    BY <1>2, <2>1, ExceptSeq
  <2> QED BY <1>1, <2>2
<1>6. Written'
  <2> SUFFICES ASSUME NEW u \in Threads PROVE WrittenBy(u)'
    BY WrittenParts DEF Written, WrittenBy
  <2>1. CASE u = t
    BY <1>1, <2>1 DEF WrittenBy
  <2>2. CASE u # t
    <3>1. pc'[u] = pc[u] /\ loc'[u] = loc[u]
      BY <2>2, OthersStay DEF ThreadStep, Others
    <3>2. CASE pc[u] = "commit"
      <4>1. documentLock[loc[u].target] = u /\ loc[u].target \in 1..Len(documents)
            /\ loc[u].target \in 1..MaxDocuments
        BY <3>2, TargetOf DEF Written
      <4>2. loc[u].target # k
        BY <1>2, <2>2, <4>1
      <4>3. documentLock'[loc[u].target] = u
        BY <1>1, <2>2, <4>1 DEF Release, Typed, DocumentsTyped
      <4>4. documents'[loc[u].target] = documents[loc[u].target]
        BY <1>5, <4>1, <4>2
      <4> QED BY <1>1, <3>1, <3>2, <4>3, <4>4 DEF Written, WrittenBy
    <3>3. CASE pc[u] = "publish"
      <4>1. loc[u].target \in 1..Len(documents) /\ loc[u].revision \in 1..Len(documents[loc[u].target])
        BY <3>3, TargetOf DEF Written
      <4>2. loc[u].revision \in 1..Len(documents'[loc[u].target])
        <5>1. CASE loc[u].target = k
          <6>1. Len(documents'[k]) = Len(documents[k]) + 1
            BY <1>2, <1>4, <1>5 DEF n
          <6> QED BY <1>2, <4>1, <5>1, <6>1
        <5>2. CASE loc[u].target # k
          BY <1>5, <4>1, <5>2
        <5> QED BY <5>1, <5>2
      <4> QED BY <3>1, <3>3, <4>2 DEF WrittenBy
    <3>4. CASE pc[u] \notin {"commit", "publish"}
      BY <3>1, <3>4 DEF WrittenBy
    <3> QED BY <3>2, <3>3, <3>4
  <2> QED BY <2>1, <2>2
<1>7. Told'
  <2>1. ASSUME NEW j \in 1..Len(documents'), NEW m \in 1..Len(documents'[j])
        PROVE  objects'[<<j, m>>] = documents'[j][m] /\ <<j, m, documents'[j][m]>> \in saved'
    <3>1. CASE j = k /\ m = n
      BY <1>1, <1>2, <1>4, <1>5, <3>1
    <3>2. CASE j = k /\ m # n
      <4>1. documents'[j] = row /\ Len(documents'[j]) = n
        BY <1>2, <1>4, <1>5, <3>2
      <4>2. m \in 1..n
        BY <4>1
      <4>3. m \in 1..Len(documents[k])
        BY <1>2, <3>2, <4>2 DEF n
      <4>4. documents'[j][m] = documents[k][m]
        BY <1>4, <4>1, <4>3
      <4>5. objects[<<k, m>>] = documents[k][m] /\ <<k, m, documents[k][m]>> \in saved
        BY <1>2, <4>3 DEF Told
      <4>6. objects' = objects /\ saved \subseteq saved'
        BY <1>1
      <4>7. <<k, m, documents'[j][m]>> \in saved' /\ objects'[<<k, m>>] = documents'[j][m]
        BY <4>4, <4>5, <4>6
      <4> QED BY <3>2, <4>7
    <3>3. CASE j # k
      BY <1>1, <1>5, <3>3 DEF Told
    <3> QED BY <3>1, <3>2, <3>3
  <2>2. ASSUME NEW s \in saved' PROVE s[2] \in 1..Len(documents'[s[1]]) /\ s[3] = documents'[s[1]][s[2]]
    <3>1. CASE s = <<k, n, file>>
      <4>1. s[1] = k /\ s[2] = n /\ s[3] = file
        BY <3>1
      <4>2. documents'[k] = row
        BY <1>2, <1>5
      <4>3. n \in 1..n
        BY <1>2 DEF n
      <4> QED BY <1>4, <4>1, <4>2, <4>3
    <3>2. CASE s # <<k, n, file>>
      <4>1. s \in saved
        BY <1>1, <3>2
      <4>2. s[1] \in 1..Len(documents) /\ s[2] \in 1..Len(documents[s[1]]) /\ s[3] = documents[s[1]][s[2]]
        BY <4>1 DEF Typed, DocumentsTyped, Told
      <4>3. CASE s[1] = k
        <5>1. documents'[s[1]] = row
          BY <1>2, <1>5, <4>3
        <5>2. s[2] \in 1..Len(documents[k]) /\ s[3] = documents[k][s[2]]
          BY <4>2, <4>3
        <5>3. s[2] \in 1..n /\ s[3] = row[s[2]]
          BY <1>2, <1>4, <5>2, SMTT(20) DEF n
        <5> QED BY <1>4, <5>1, <5>3
      <4>4. CASE s[1] # k
        BY <1>5, <4>2, <4>4
      <4> QED BY <4>3, <4>4
    <3> QED BY <3>1, <3>2
  <2>3. \A r \in Revisions : published'[r] # 0 => <<r[1], r[2], published'[r]>> \in saved'
    BY <1>1 DEF Told
  <2> QED BY <2>1, <2>2, <2>3 DEF Told
<1> QED BY <1>6, <1>7

(* The next step of a thread that has failed takes no other thread's lock. *)
LEMMA ReleasedSaved ==
    ASSUME Typed, Written, Told, NEW t \in Threads, SaveFails(t)
    PROVE  Written' /\ Told'
<1>1. UNCHANGED <<documents, objects, published, saved>> /\ Release(t) /\ pc'[t] = "idle"
  BY TypedParts DEF SaveFails, Finish, Goto
<1>2. Written'
  <2> SUFFICES ASSUME NEW u \in Threads PROVE WrittenBy(u)'
    BY WrittenParts DEF Written, WrittenBy
  <2>1. CASE u = t
    BY <1>1, <2>1 DEF WrittenBy
  <2>2. CASE u # t
    <3>1. pc'[u] = pc[u] /\ loc'[u] = loc[u]
      BY <2>2, OthersStay DEF ThreadStep, Others
    <3>2. CASE pc[u] = "commit"
      <4>1. documentLock[loc[u].target] = u /\ loc[u].target \in 1..MaxDocuments
        BY <3>2, TargetOf DEF Written
      <4>2. documentLock'[loc[u].target] = u
        BY <1>1, <2>2, <4>1 DEF Release, Typed, DocumentsTyped
      <4> QED BY <1>1, <3>1, <3>2, <4>2 DEF Written, WrittenBy
    <3>3. CASE pc[u] # "commit"
      BY <1>1, <3>1, <3>3 DEF Written, WrittenBy
    <3> QED BY <3>2, <3>3
  <2> QED BY <2>1, <2>2
<1> QED BY <1>1, <1>2, UntouchedDocuments

LEMMA PublicationStarted ==
    ASSUME Typed, Written, Told, NEW t \in Threads, StartPublish(t)
    PROVE  Written' /\ Told'
<1>1. UNCHANGED <<documents, objects, documentLock, published, saved>> /\ pc'[t] = "publish"
  BY TypedParts DEF StartPublish, Goto, artifacts
<1>2. PICK k \in DOMAIN documents : loc' = [loc EXCEPT ![t].target = k, ![t].revision = Len(documents[k])]
  BY DEF StartPublish
<1>3. loc'[t].target = k /\ loc'[t].revision = Len(documents[k])
  BY <1>2, TypedParts DEF Here, Local
<1>4. Len(documents[k]) \in 1..Len(documents[k])
  BY Lengths DEF Typed, DocumentsTyped
<1>5. Written'
  <2> SUFFICES ASSUME NEW u \in Threads PROVE WrittenBy(u)'
    BY WrittenParts DEF Written, WrittenBy
  <2>1. CASE u = t
    BY <1>1, <1>3, <1>4, <2>1 DEF WrittenBy
  <2>2. CASE u # t
    <3>1. pc'[u] = pc[u] /\ loc'[u] = loc[u]
      BY <2>2, OthersStay DEF ThreadStep, Others
    <3> QED BY <1>1, <3>1 DEF Written, WrittenBy
  <2> QED BY <2>1, <2>2
<1> QED BY <1>1, <1>5, UntouchedDocuments

LEMMA PublishedSaved ==
    ASSUME Typed, Written, Told, NEW t \in Threads, Publish(t)
    PROVE  Written' /\ Told'
<1> DEFINE k == loc[t].target
           n == loc[t].revision
<1>1. /\ UNCHANGED <<documents, objects, documentLock, saved>> /\ pc'[t] = "idle"
      /\ published' = published \/ published' = [published EXCEPT ![<<k, n>>] = objects[<<k, n>>]]
  BY TypedParts DEF Publish, Finish, Goto
<1>2. /\ k \in 1..Len(documents) /\ n \in 1..Len(documents[k])
  BY TargetOf DEF Publish, Written
<1>3. <<k, n, objects[<<k, n>>]>> \in saved
  BY <1>2 DEF Told
<1> HIDE DEF k, n
<1>4. \A r \in Revisions : published'[r] # 0 => <<r[1], r[2], published'[r]>> \in saved'
  <2> SUFFICES ASSUME NEW r \in Revisions, published'[r] # 0 PROVE <<r[1], r[2], published'[r]>> \in saved
    BY <1>1
  <2>1. published \in [Revisions -> 0..MaxFiles]
    BY DEF Typed, DocumentsTyped
  <2>2. CASE r = <<k, n>> /\ published' # published
    <3>1. published'[r] = objects[<<k, n>>]
      BY <1>1, <2>1, <2>2
    <3>2. r[1] = k /\ r[2] = n
      BY <2>2
    <3> QED BY <1>3, <3>1, <3>2
  <2>3. CASE ~(r = <<k, n>> /\ published' # published)
    <3>1. published'[r] = published[r]
      BY <1>1, <2>1, <2>3
    <3> QED BY <3>1 DEF Told
  <2> QED BY <2>2, <2>3
<1>5. Told'
  BY <1>1, <1>4 DEF Told
<1>6. Written'
  <2> SUFFICES ASSUME NEW u \in Threads PROVE WrittenBy(u)'
    BY WrittenParts DEF Written, WrittenBy
  <2>1. CASE u = t
    BY <1>1, <2>1 DEF WrittenBy
  <2>2. CASE u # t
    <3>1. pc'[u] = pc[u] /\ loc'[u] = loc[u]
      BY <2>2, OthersStay DEF ThreadStep, Others
    <3> QED BY <1>1, <3>1 DEF Written, WrittenBy
  <2> QED BY <2>1, <2>2
<1> QED BY <1>5, <1>6

LEMMA SavedNext == Typed /\ Written /\ Told /\ [Next]_vars => Written' /\ Told'
<1> SUFFICES ASSUME Typed, Written, Told, [Next]_vars PROVE Written' /\ Told'
  OBVIOUS
<1>1. ASSUME NEW t \in Threads, ThreadStep(t), Apart(t) PROVE Written' /\ Told'
  <2>1. UNCHANGED <<documents, objects, documentLock, published, saved>>
    BY <1>1 DEF Apart, artifacts
  <2>2. Written'
    BY <1>1, <2>1, OthersStay DEF Written, Apart, Others
  <2> QED BY <2>1, <2>2, UntouchedDocuments
<1>2. ASSUME NEW r \in Requests, EndRequest(r) PROVE Written' /\ Told'
  BY <1>2, UntouchedDocuments DEF EndRequest, thread, artifacts, Written
<1>3. CASE UNCHANGED vars
  BY <1>3, UntouchedDocuments DEF vars, Written
<1> QED BY <1>1, <1>2, <1>3, MostStepApart, CreatedSaved, RevisionWritten, RevisionCommitted,
           ReleasedSaved, PublicationStarted, PublishedSaved DEF Next

LEMMA SavedImplies == Typed /\ Told => SavedStaysSaved
BY DEF Typed, DocumentsTyped, Told, SavedStaysSaved

(* What the user was told is saved keeps its content and what is published *)
(* has that content: _add_revision holds the lock of the document from the *)
(* number of the next revision to its row, so that an object that another  *)
(* export writes, or leaves behind when it fails, is never one of a        *)
(* revision that is there (artifact.py).                                   *)
THEOREM SavedIsKept == Spec => []SavedStaysSaved
<1>1. Init => Typed /\ Written /\ Told
  BY TypedInit, SavedInit
<1>2. Typed /\ Written /\ Told /\ [Next]_vars => (Typed /\ Written /\ Told)'
  BY TypedNext, SavedNext
<1> QED BY <1>1, <1>2, SavedImplies, PTL DEF Spec

=============================================================================
