-------------------------- MODULE AgentTurnProofs --------------------------
(***************************************************************************)
(* Proofs about AgentTurn for any tool requests, any number of calls in a  *)
(* response and any limits that SessionConfiguration accepts; and about    *)
(* the searches of a turn, KnowledgeSearch, for any documents and contents *)
(* and any rounds of calls.                                                *)
(***************************************************************************)
EXTENDS AgentTurn, KnowledgeSearch, FiniteSetTheorems, WellFoundedInduction, TLAPS

-----------------------------------------------------------------------------
(* The limit on samples *)

(* Each round of tools takes one sample and the loop has one sample more   *)
(* than it has rounds; while a sample is under way it is ahead by one, and *)
(* a sample that was offered tools has a round left for them.              *)
Counted ==
    /\ iteration \in Nat /\ toolRound \in 0..MaxToolRounds
    /\ pc \in {"asked", "start", "executing"} => iteration = toolRound
    /\ pc \in {"streaming", "settled"} =>
         /\ iteration = toolRound + 1
         /\ toolsOffered => toolRound < MaxToolRounds

LEMMA CountedInit == Init => Counted
BY ConfigurationAssumption DEF Init, Counted, SessionConfiguration

LEMMA CountedNext == Counted /\ [Next]_vars => Counted'
<1> SUFFICES ASSUME Counted, [Next]_vars PROVE Counted'
  OBVIOUS
<1> USE ConfigurationAssumption DEF Counted, SessionConfiguration
<1>1. CASE StartTurn
  BY <1>1 DEF StartTurn, counters, sampling
<1>2. CASE StartSampling
  <2>1. toolsOffered' => toolRound < MaxToolRounds
    BY <1>2, Zenon DEF StartSampling, ToolsAllowed
  <2>2. pc = "start" /\ pc' = "streaming" /\ iteration' = iteration + 1 /\ toolRound' = toolRound
    BY <1>2 DEF StartSampling
  <2> QED BY <2>1, <2>2
<1>3. CASE Retry
  BY <1>3 DEF Retry, counters
<1>4. CASE TransportFails
  BY <1>4 DEF TransportFails, Fail, counters, sampling
<1>5. CASE Settle
  BY <1>5 DEF Settle, counters
<1>6. CASE StartTools
  <2>1. pc = "settled" /\ toolsOffered /\ pc' = "executing"
        /\ toolRound' = toolRound + 1 /\ iteration' = iteration
    BY <1>6 DEF StartTools
  <2> QED BY <2>1
<1>7. ASSUME NEW c \in DOMAIN observation, FinishTool(c) PROVE Counted'
  BY <1>7 DEF FinishTool, counters, sampling
<1>8. CASE FinishTools
  <2>1. pc = "executing" /\ pc' \in {"closed", "start"}
        /\ toolRound' = toolRound /\ iteration' = iteration
    BY <1>8 DEF FinishTools
  <2> QED BY <2>1
<1>9. CASE Reject
  BY <1>9 DEF Reject, Fail, counters, sampling
<1>10. CASE Return
  BY <1>10 DEF Return, counters, sampling
<1>11. CASE Break
  BY <1>11 DEF Break, counters, sampling
<1>12. CASE FinishTurn
  BY <1>12 DEF FinishTurn, counters, sampling
<1>13. CASE StreamEvent
  BY <1>13 DEF StreamEvent, counters
<1>14. CASE Disconnect
  BY <1>14 DEF Disconnect, counters, sampling
<1>15. CASE UNCHANGED vars
  BY <1>15 DEF vars
<1> QED
  BY <1>1, <1>2, <1>3, <1>4, <1>5, <1>6, <1>7, <1>8, <1>9, <1>10, <1>11, <1>12, <1>13,
     <1>14, <1>15 DEF Next, Step

(* The limit on samples never cuts a turn off, whatever the limits are, as *)
(* long as there are more samples than rounds: the loop of run_turn never  *)
(* finds itself without a turn.                                            *)
THEOREM TurnsNeverRunOut == Spec => []NeverOutOfTurns
<1>1. Counted => NeverOutOfTurns
  BY ConfigurationAssumption DEF Counted, NeverOutOfTurns, TurnsLeft, SessionConfiguration
<1> QED BY <1>1, CountedInit, CountedNext, PTL DEF Spec

-----------------------------------------------------------------------------
(* A request runs once *)

(* executed_tool_signatures holds what was run and nothing else.           *)
Recorded ==
    /\ response \in Response
    /\ runs = [s \in Signatures |-> IF s \in executed THEN 1 ELSE 0]

LEMMA NoResponseType == NoResponse \in Response
<1>1. 0 \in 0..MaxCalls
  BY SignaturesAssumption
<1>2. <<>> \in [1..0 -> Signatures \cup {"invalid"}]
  OBVIOUS
<1>3. <<>> \in Calls
  BY <1>1, <1>2, Zenon DEF Calls
<1> QED BY <1>3 DEF NoResponse, Response, Texts

(* Of the calls that execute admits at once no two are the same request,   *)
(* and none was run before.                                                *)
LEMMA AdmittedOnce ==
    ASSUME NEW asked \in Calls, NEW s \in Signatures
    PROVE  LET same == {c \in Admit(asked) : asked[c] = s} IN
           \/ same = {}
           \/ s \notin executed /\ \E c \in Admit(asked) : same = {c}
<1> DEFINE same == {c \in Admit(asked) : asked[c] = s}
<1>1. PICK n \in 0..MaxCalls : asked \in [1..n -> Signatures \cup {"invalid"}]
  BY DEF Calls
<1>2. \A c \in same : c \in DOMAIN asked /\ asked[c] = s /\ s \notin executed
                      /\ ~ \E d \in 1..(c - 1) : asked[d] = asked[c]
  BY DEF Admit
<1>3. ASSUME NEW c \in same, NEW d \in same, d < c PROVE FALSE
  <2>1. c \in Int /\ d \in 1..(c - 1)
    BY <1>1, <1>2, <1>3
  <2> QED BY <1>2, <2>1
<1>4. ASSUME NEW c \in same, NEW d \in same PROVE c = d
  <2>1. c \in Int /\ d \in Int
    BY <1>1, <1>2
  <2> QED BY <1>3, <2>1
<1>5. CASE same = {}
  BY <1>5
<1>6. CASE same # {}
  <2>1. PICK c \in same : TRUE
    BY <1>6
  <2>2. same = {c} /\ c \in Admit(asked) /\ s \notin executed
    BY <1>2, <1>4, <2>1
  <2> QED BY <2>2
<1> QED BY <1>5, <1>6

LEMMA RecordedNext == Recorded /\ [Next]_vars => Recorded'
<1> SUFFICES ASSUME Recorded, [Next]_vars PROVE Recorded'
  OBVIOUS
<1>1. CASE StartTools
  <2> DEFINE asked == response.calls
             admitted == Admit(asked)
             now(s) == Cardinality({c \in admitted : asked[c] = s})
  <2>1. asked \in Calls
    BY DEF Recorded, Response
  <2>2. /\ runs' = [s \in Signatures |-> runs[s] + now(s)]
        /\ executed' = executed \cup {asked[c] : c \in admitted}
        /\ response' = response
    BY <1>1 DEF StartTools
  <2>3. ASSUME NEW s \in Signatures
        PROVE  runs[s] + now(s) = IF s \in executed' THEN 1 ELSE 0
    <3> DEFINE same == {c \in admitted : asked[c] = s}
    <3>1. CASE same = {}
      <4>1. now(s) = 0
        BY <3>1, FS_EmptySet
      <4>2. s \in executed' <=> s \in executed
        BY <2>2, <3>1
      <4> QED BY <4>1, <4>2 DEF Recorded
    <3>2. CASE s \notin executed /\ \E c \in admitted : same = {c}
      <4>1. PICK c \in admitted : same = {c}
        BY <3>2
      <4>2. now(s) = 1
        <5> HIDE DEF admitted
        <5> QED BY <4>1, FS_Singleton
      <4>3. s \in executed'
        BY <2>2, <4>1
      <4> QED BY <3>2, <4>2, <4>3 DEF Recorded
    <3> QED BY <2>1, <3>1, <3>2, AdmittedOnce
  <2> QED BY <2>2, <2>3 DEF Recorded
<1>2. CASE StartSampling
  BY <1>2, NoResponseType DEF StartSampling, Recorded
<1>3. CASE Settle
  BY <1>3 DEF Settle, Recorded, counters
<1>4. ASSUME NEW c \in DOMAIN observation, FinishTool(c) PROVE Recorded'
  BY <1>4 DEF FinishTool, Recorded, counters
<1>5. CASE FinishTools
  BY <1>5 DEF FinishTools, Recorded
<1>6. CASE StartTurn \/ Retry \/ TransportFails \/ Reject \/ Return \/ Break \/ FinishTurn
           \/ StreamEvent \/ Disconnect
  BY <1>6 DEF StartTurn, Retry, TransportFails, Reject, Return, Break, FinishTurn,
              StreamEvent, Disconnect, Recorded, counters
<1>7. CASE UNCHANGED vars
  BY <1>7 DEF vars, Recorded
<1> QED BY <1>1, <1>2, <1>3, <1>4, <1>5, <1>6, <1>7 DEF Next, Step

(* A tool request runs at most once in a turn, however often the model     *)
(* asks for it, in one response or in several.                             *)
THEOREM RequestsRunOnce == Spec => []RunsOnce
<1>1. Init => Recorded
  BY NoResponseType DEF Init, Recorded
<1>2. Recorded => RunsOnce
  BY DEF Recorded, RunsOnce
<1> QED BY <1>1, <1>2, RecordedNext, PTL DEF Spec

-----------------------------------------------------------------------------
(* The limit on calls *)

(* The calls of a round that were not refused.                             *)
Ran == {c \in DOMAIN observation : observation[c] # Refusal}

(* Until tools run, what is counted is what was run; while they run, those *)
(* that run are not counted yet.                                           *)
Limited ==
    /\ executed \subseteq Signatures /\ IsFiniteSet(executed)
    /\ observation \in Seq(Results \cup {Running, Refusal})
    /\ toolCalls \in Nat /\ toolCalls <= MaxToolCalls /\ Cardinality(executed) <= MaxToolCalls
    /\ pc \in {"asked", "start", "streaming", "settled"} => Cardinality(executed) = toolCalls
    /\ pc = "executing" => Cardinality(executed) = toolCalls + Cardinality(Ran)

LEMMA SmallestNumber ==
    ASSUME NEW T \in SUBSET Nat, T # {}
    PROVE  \E n \in T : \A m \in T : n <= m
<1> DEFINE Less == OpToRel(<, Nat)
<1>1. \E n \in T : \A m \in T : ~(<<m, n>> \in Less)
  <2>1. IsWellFoundedOn(Less, Nat)
    BY NatLessThanWellFounded
  <2> HIDE DEF Less
  <2> QED BY <2>1, WFMin, Zenon
<1>2. PICK n \in T : \A m \in T : ~(m < n)
  BY <1>1 DEF OpToRel
<1> QED BY <1>2

LEMMA LargestNumber ==
    ASSUME NEW n \in Nat, NEW T \in SUBSET (1..n), T # {}
    PROVE  \E m \in T : \A c \in T : c <= m
<1> DEFINE distances == {n - c : c \in T}
<1>1. distances \in SUBSET Nat /\ distances # {}
  <2>1. \A c \in T : n - c \in Nat
    OBVIOUS
  <2> QED BY <2>1
<1>2. PICK d \in distances : \A e \in distances : d <= e
  <2> HIDE DEF distances
  <2> QED BY <1>1, SmallestNumber
<1>3. PICK m \in T : d = n - m
  BY <1>2
<1>4. ASSUME NEW c \in T PROVE c <= m
  <2>1. d <= n - c
    BY <1>2
  <2> QED BY <1>3, <2>1
<1> QED BY <1>3, <1>4

(* Of a set of numbers, those with fewer than k smaller ones are no more   *)
(* than k.                                                                 *)
LEMMA FirstOnes ==
    ASSUME NEW n \in Nat, NEW S \in SUBSET (1..n), NEW k \in Nat, NEW first,
           first = {c \in S : Cardinality({d \in S : d < c}) < k}
    PROVE  IsFiniteSet(first) /\ Cardinality(first) <= k
<1>1. IsFiniteSet(S) /\ IsFiniteSet(first) /\ first \in SUBSET (1..n)
  <2>1. IsFiniteSet(1..n)
    BY FS_Interval
  <2> QED BY <2>1, FS_Subset
<1>2. CASE first = {}
  <2>1. Cardinality(first) = 0
    BY <1>2, FS_EmptySet
  <2> QED BY <1>1, <2>1
<1>3. CASE first # {}
  <2>1. PICK m \in first : \A c \in first : c <= m
    BY <1>1, <1>3, LargestNumber
  <2> DEFINE smaller == {d \in S : d < m}
  <2>2. IsFiniteSet(smaller) /\ Cardinality(smaller) \in Nat /\ Cardinality(smaller) < k
    <3>1. IsFiniteSet(smaller)
      BY <1>1, FS_Subset
    <3> QED BY <2>1, <3>1, FS_CardinalityType
  <2>3. first \ {m} \in SUBSET smaller
    BY <1>1, <2>1
  <2> HIDE DEF smaller
  <2>4. Cardinality(first \ {m}) = Cardinality(first) - 1
    BY <1>1, <2>1, FS_RemoveElement
  <2>5. Cardinality(first \ {m}) <= Cardinality(smaller)
    BY <2>2, <2>3, FS_Subset
  <2>6. Cardinality(first) \in Nat
    BY <1>1, FS_CardinalityType
  <2> QED BY <1>1, <2>2, <2>4, <2>5, <2>6
<1> QED BY <1>2, <1>3

(* What execute admits stays within what is left, is new, and is recorded  *)
(* one signature for each call.                                            *)
LEMMA AdmittedFew ==
    ASSUME Limited, NEW asked \in Calls, Cardinality(executed) = toolCalls,
           NEW more, more = {asked[c] : c \in Admit(asked)}
    PROVE  /\ Admit(asked) \subseteq DOMAIN asked
           /\ more \subseteq Signatures /\ IsFiniteSet(executed \cup more)
           /\ Cardinality(executed \cup more) = toolCalls + Cardinality(Admit(asked))
           /\ Cardinality(executed \cup more) <= MaxToolCalls
<1> DEFINE fresh == {c \in DOMAIN asked : /\ Fits(asked[c]) /\ asked[c] \notin executed
                                          /\ ~ \E d \in 1..(c - 1) : asked[d] = asked[c]}
           left == MaxToolCalls - toolCalls
           admitted == Admit(asked)
<1>1. PICK n \in 0..MaxCalls : asked \in [1..n -> Signatures \cup {"invalid"}]
  BY DEF Calls
<1>2. n \in Nat /\ fresh \in SUBSET (1..n)
  BY <1>1, SignaturesAssumption
<1>3. left \in Nat
  BY ConfigurationAssumption DEF Limited, SessionConfiguration
<1>4. admitted = {c \in fresh : Cardinality({d \in fresh : d < c}) < left}
  BY DEF Admit
<1>5. IsFiniteSet(admitted) /\ Cardinality(admitted) <= left
  <2> HIDE DEF fresh, left, admitted
  <2> QED BY <1>2, <1>3, <1>4, FirstOnes
<1>6. admitted \subseteq fresh
  BY <1>4
<1>7. \A c, d \in admitted : asked[c] = asked[d] => c = d
  <2> SUFFICES ASSUME NEW c \in admitted, NEW d \in admitted, asked[c] = asked[d], c < d PROVE FALSE
    <3>1. admitted \subseteq Int
      <4> HIDE DEF admitted, fresh
      <4> QED BY <1>2, <1>6
    <3> HIDE DEF admitted
    <3> QED BY <3>1
  <2>1. c \in 1..(d - 1)
    <3> HIDE DEF admitted, fresh
    <3> QED BY <1>2, <1>6
  <2> HIDE DEF admitted
  <2> QED BY <1>6, <2>1
<1>m. more = {asked[c] : c \in admitted}
  OBVIOUS
<1>8. more \subseteq Signatures /\ more \cap executed = {}
  <2>1. \A c \in fresh : asked[c] \in Signatures /\ asked[c] \notin executed
    BY <1>1 DEF Fits
  <2> HIDE DEF admitted, fresh
  <2> QED BY <1>6, <1>m, <2>1
<1>9. IsFiniteSet(more) /\ Cardinality(more) = Cardinality(admitted)
  <2> DEFINE f == [c \in admitted |-> asked[c]]
  <2>1. f \in Bijection(admitted, more)
    <3> HIDE DEF admitted
    <3>1. f \in [admitted -> more]
      BY <1>m
    <3>2. \A c, d \in admitted : f[c] = f[d] => c = d
      BY <1>7
    <3>3. \A x \in more : \E c \in admitted : f[c] = x
      BY <1>m
    <3> HIDE DEF f
    <3> QED BY <3>1, <3>2, <3>3 DEF Bijection, Injection, Surjection, IsInjective
  <2>2. ExistsBijection(admitted, more)
    <3> HIDE DEF f
    <3> QED BY <2>1 DEF ExistsBijection
  <2> HIDE DEF admitted
  <2> QED BY <1>5, <2>2, FS_Bijection
<1>10. IsFiniteSet(executed) /\ Cardinality(executed \cap more) = 0
  BY <1>8, FS_EmptySet DEF Limited
<1>11. /\ IsFiniteSet(executed \cup more)
       /\ Cardinality(executed \cup more)
            = Cardinality(executed) + Cardinality(more) - Cardinality(executed \cap more)
  BY <1>9, <1>10, FS_Union
<1>12. Cardinality(admitted) \in Nat
  BY <1>5, FS_CardinalityType
<1> HIDE DEF admitted
<1>13. Cardinality(executed \cup more) = toolCalls + Cardinality(admitted)
  BY <1>9, <1>10, <1>11, <1>12 DEF Limited
<1>14. Cardinality(executed \cup more) <= MaxToolCalls
  BY <1>5, <1>12, <1>13, ConfigurationAssumption DEF Limited, SessionConfiguration
<1> QED BY <1>6, <1>8, <1>11, <1>13, <1>14 DEF admitted

LEMMA LimitedInit == Init => Limited
<1> SUFFICES ASSUME Init PROVE Limited
  OBVIOUS
<1>1. IsFiniteSet({}) /\ Cardinality({}) = 0
  BY FS_EmptySet
<1> QED BY <1>1, ConfigurationAssumption DEF Init, Limited, SessionConfiguration

LEMMA LimitedSame ==
    ASSUME Limited, UNCHANGED <<executed, observation, toolCalls>>,
           pc' = pc \/ pc' \notin {"asked", "start", "streaming", "settled", "executing"}
           \/ {pc, pc'} \subseteq {"asked", "start", "streaming", "settled"}
    PROVE  Limited'
BY DEF Limited, Ran

LEMMA LimitedNext == Recorded /\ Limited /\ [Next]_vars => Limited'
<1> SUFFICES ASSUME Recorded, Limited, [Next]_vars PROVE Limited'
  OBVIOUS
<1>1. CASE StartTools
  <2> PICK asked : asked = response.calls
    OBVIOUS
  <2> PICK admitted : admitted = Admit(asked)
    OBVIOUS
  <2> PICK more : more = {asked[c] : c \in Admit(asked)}
    OBVIOUS
  <2>1. pc = "settled" /\ asked \in Calls /\ Cardinality(executed) = toolCalls
    BY <1>1 DEF StartTools, Recorded, Response, Limited
  <2>2. /\ admitted \subseteq DOMAIN asked
        /\ more \subseteq Signatures /\ IsFiniteSet(executed \cup more)
        /\ Cardinality(executed \cup more) = toolCalls + Cardinality(admitted)
        /\ Cardinality(executed \cup more) <= MaxToolCalls
    BY <2>1, AdmittedFew
  <2>3. /\ observation' = [c \in DOMAIN asked |-> IF c \in admitted THEN Running ELSE Refusal]
        /\ executed' = executed \cup more
        /\ toolCalls' = toolCalls /\ pc' = "executing"
    BY <1>1 DEF StartTools
  <2>4. observation' \in Seq(Results \cup {Running, Refusal})
    <3>1. PICK n \in Nat : DOMAIN asked = 1..n
      BY <2>1, SignaturesAssumption DEF Calls
    <3> QED BY <2>3, <3>1
  <2>5. Ran' = admitted
    <3>1. Running # Refusal
      BY DEF Running, Refusal
    <3> QED BY <2>2, <2>3, <3>1 DEF Ran
  <2> QED BY <2>2, <2>3, <2>4, <2>5 DEF Limited
<1>2. ASSUME NEW c \in DOMAIN observation, FinishTool(c) PROVE Limited'
  <2>1. PICK result \in Results : observation' = [observation EXCEPT ![c] = result]
    BY <1>2 DEF FinishTool
  <2>2. pc = "executing" /\ observation[c] = Running /\ UNCHANGED <<executed, toolCalls>>
        /\ pc' \in {"executing", "closed"}
    BY <1>2 DEF FinishTool, counters
  <2>3. result # Refusal /\ Running # Refusal
    BY DEF Results, Running, Refusal
  <2>4. DOMAIN observation' = DOMAIN observation
        /\ \A d \in DOMAIN observation : observation'[d] = IF d = c THEN result ELSE observation[d]
    BY <2>1
  <2>5. Ran' = Ran
    BY <2>2, <2>3, <2>4 DEF Ran
  <2>6. observation' \in Seq(Results \cup {Running, Refusal})
    BY <2>1 DEF Limited
  <2> QED BY <2>2, <2>5, <2>6 DEF Limited
<1>3. CASE FinishTools
  <2>1. /\ pc = "executing" /\ pc' \in {"closed", "start"} /\ UNCHANGED <<executed, observation>>
        /\ toolCalls' = toolCalls + Cardinality(Ran)
    BY <1>3 DEF FinishTools, Ran
  <2>2. Cardinality(executed) = toolCalls' /\ Cardinality(executed) \in Nat
    BY <2>1, FS_CardinalityType DEF Limited
  <2> QED BY <2>1, <2>2 DEF Limited
<1>4. CASE StartSampling
  <2>1. /\ pc = "start" /\ pc' = "streaming" /\ UNCHANGED <<executed, toolCalls>>
        /\ observation' = <<>>
    BY <1>4 DEF StartSampling
  <2> QED BY <2>1 DEF Limited
<1>5. CASE StartTurn \/ Retry \/ TransportFails \/ Settle \/ Reject \/ Return \/ Break \/ FinishTurn
           \/ StreamEvent \/ Disconnect
  <2>1. UNCHANGED <<executed, observation, toolCalls>>
    BY <1>5 DEF StartTurn, Retry, TransportFails, Settle, Reject, Return, Break, FinishTurn,
                StreamEvent, Disconnect, counters
  <2>2. pc' = pc \/ pc' \notin {"asked", "start", "streaming", "settled", "executing"}
        \/ {pc, pc'} \subseteq {"asked", "start", "streaming", "settled"}
    BY <1>5 DEF StartTurn, Retry, TransportFails, Settle, Reject, Return, Break, FinishTurn,
                StreamEvent, Disconnect, Fail
  <2> QED BY <2>1, <2>2, LimitedSame
<1>6. CASE UNCHANGED vars
  BY <1>6, LimitedSame DEF vars
<1> QED BY <1>1, <1>2, <1>3, <1>4, <1>5, <1>6 DEF Next, Step

(* However many calls the model puts into one response and however often   *)
(* it repeats one, a turn runs each request at most once and no more of    *)
(* them than max_tool_calls.                                               *)
THEOREM CallsStayLimited == Spec => []RunsWithinLimits
<1>1. Init => Recorded
  BY NoResponseType DEF Init, Recorded
<1>2. Recorded /\ Limited => RunsWithinLimits
  <2> SUFFICES ASSUME Recorded, Limited PROVE RunsWithinLimits
    OBVIOUS
  <2>1. {s \in Signatures : runs[s] # 0} = executed
    BY DEF Recorded, Limited
  <2>2. \A s \in Signatures : runs[s] <= 1
    BY DEF Recorded
  <2> QED BY <2>1, <2>2 DEF RunsWithinLimits, RunsOnce, Limited
<1> QED BY <1>1, <1>2, RecordedNext, LimitedInit, LimitedNext, PTL DEF Spec

-----------------------------------------------------------------------------
(* Types *)

Typed == TypeOK /\ Counted /\ Recorded /\ Limited

LEMMA OutputType ==
    ASSUME Typed, NEW r \in Response
    PROVE  Output(r) \in Seq(Item)
<1>1. iteration \in Nat
  BY DEF Typed, Counted
<1>2. PICK n \in 0..MaxCalls : r.calls \in [1..n -> Signatures \cup {"invalid"}]
  BY DEF Response, Calls
<1>3. n \in Nat /\ DOMAIN r.calls = 1..n
  BY <1>2, SignaturesAssumption
<1>4. [kind |-> "message", round |-> iteration, call |-> 0, size |-> 1] \in Item
  BY <1>1 DEF Item
<1>5. \A c \in 1..n : [kind |-> "call", round |-> iteration, call |-> c, size |-> 1] \in Item
  BY <1>1, <1>3 DEF Item
<1>6. [c \in DOMAIN r.calls |-> [kind |-> "call", round |-> iteration, call |-> c, size |-> 1]] \in Seq(Item)
  BY <1>3, <1>5
<1>7. (IF r.text = "none" THEN <<>>
       ELSE <<[kind |-> "message", round |-> iteration, call |-> 0, size |-> 1]>>) \in Seq(Item)
  BY <1>4
<1> QED BY <1>6, <1>7 DEF Output

LEMMA ObservationsType ==
    ASSUME Typed
    PROVE  Outputs \in Seq(Item) /\ Observations \in Seq(Item)
<1>1. iteration \in Nat /\ observation \in Seq(Results \cup {Running, Refusal})
  BY DEF Typed, Counted, Limited
<1>2. PICK n \in Nat : DOMAIN observation = 1..n
  BY <1>1
<1>3. \A c \in 1..n : observation[c].size \in Nat
  BY <1>1, <1>2 DEF Results, Running, Refusal
<1>4. \A c \in 1..n : [kind |-> "output", round |-> iteration, call |-> c, size |-> observation[c].size] \in Item
  BY <1>1, <1>3 DEF Item
<1>5. Outputs \in Seq(Item)
  BY <1>2, <1>4 DEF Outputs
<1>6. [kind |-> "image", round |-> iteration, call |-> 0, size |-> Budget + 1] \in Item
  BY <1>1, ConfigurationAssumption DEF Item, SessionConfiguration
<1> QED BY <1>5, <1>6 DEF Observations

LEMMA TypesNext == Typed /\ [Next]_vars => TypeOK'
<1> SUFFICES ASSUME Typed, [Next]_vars PROVE TypeOK'
  OBVIOUS
<1>0. Counted' /\ Recorded' /\ Limited'
  BY CountedNext, RecordedNext, LimitedNext DEF Typed
<1>1. /\ toolRound' \in 0..MaxToolRounds /\ toolCalls' \in 0..MaxToolCalls
      /\ executed' \subseteq Signatures /\ response' \in Response
      /\ observation' \in Seq(Results \cup {Running, Refusal})
      /\ runs' \in [Signatures -> Nat]
  BY <1>0, ConfigurationAssumption DEF Counted, Recorded, Limited, SessionConfiguration
<1> DEFINE Rest == /\ pc' \in {"asked", "start", "streaming", "settled", "executing"} \cup Ended \cup {"stored"}
                   /\ iteration' \in 0..MaxModelTurns
                   /\ context' \in Seq(Item)
                   /\ toolsOffered' \in BOOLEAN /\ attempt' \in 0..MaxRetries /\ emitted' \in BOOLEAN
                   /\ gone' \in BOOLEAN /\ finalAnswer' \in Texts /\ stored' \in Texts
<1> SUFFICES Rest
  BY <1>1 DEF TypeOK
<1> USE DEF Typed, TypeOK
<1>2. CASE StartSampling
  <2>1. iteration' \in 0..MaxModelTurns
    BY <1>2, ConfigurationAssumption DEF StartSampling, TurnsLeft, SessionConfiguration
  <2>2. toolsOffered' \in BOOLEAN
    BY <1>2, Zenon DEF StartSampling, ToolsAllowed
  <2>3. /\ attempt' = 0 /\ emitted' = FALSE /\ pc' = "streaming"
        /\ UNCHANGED <<context, gone, finalAnswer, stored>>
    BY <1>2 DEF StartSampling, client
  <2>4. 0 \in 0..MaxRetries
    BY ConfigurationAssumption DEF SessionConfiguration
  <2> QED BY <2>1, <2>2, <2>3, <2>4
<1>3. CASE Retry
  BY <1>3, ConfigurationAssumption DEF Retry, SessionConfiguration, counters, client
<1>4. CASE Settle
  <2>1. finalAnswer' \in Texts
    BY <1>4 DEF Settle, Response
  <2> QED BY <1>4, <2>1 DEF Settle, Ended, counters
<1>5. CASE StartTools
  <2>1. context' \in Seq(Item)
    BY <1>5, OutputType DEF StartTools
  <2> QED BY <1>5, <2>1 DEF StartTools, sampling, client
<1>6. CASE Reject
  <2>1. context' \in Seq(Item)
    BY <1>6, OutputType DEF Reject
  <2> QED BY <1>6, <2>1 DEF Reject, Fail, Ended, sampling, counters, client
<1>7. CASE FinishTools
  <2>1. context' \in Seq(Item)
    BY <1>7, ObservationsType DEF FinishTools
  <2> QED BY <1>7, <2>1 DEF FinishTools, Ended, sampling, client
<1>8. ASSUME NEW c \in DOMAIN observation, FinishTool(c) PROVE Rest
  BY <1>8 DEF FinishTool, Ended, counters, sampling, client
<1>9. CASE StartTurn \/ TransportFails \/ Return \/ Break
  BY <1>9 DEF StartTurn, TransportFails, Return, Break, Fail, Ended, counters, sampling, client
<1>10. CASE FinishTurn \/ StreamEvent \/ Disconnect
  BY <1>10 DEF FinishTurn, StreamEvent, Disconnect, Ended, counters, sampling, client, Texts
<1>11. CASE UNCHANGED vars
  BY <1>11 DEF vars
<1> QED BY <1>2, <1>3, <1>4, <1>5, <1>6, <1>7, <1>8, <1>9, <1>10, <1>11 DEF Next, Step

LEMMA TypedInit == Init => Typed
<1> SUFFICES ASSUME Init PROVE Typed
  OBVIOUS
<1>1. Counted /\ Limited
  BY CountedInit, LimitedInit
<1>2. Recorded
  BY NoResponseType DEF Init, Recorded
<1>3. TypeOK
  <2>1. 0 \in 0..MaxModelTurns /\ 0 \in 0..MaxToolRounds /\ 0 \in 0..MaxToolCalls /\ 0 \in 0..MaxRetries
    BY ConfigurationAssumption DEF SessionConfiguration
  <2>2. runs \in [Signatures -> Nat] /\ <<>> \in Seq(Item)
        /\ <<>> \in Seq(Results \cup {Running, Refusal})
    BY DEF Init
  <2> QED BY <2>1, <2>2, NoResponseType DEF Init, TypeOK, Texts
<1> QED BY <1>1, <1>2, <1>3 DEF Typed

LEMMA TypedNext == Typed /\ [Next]_vars => Typed'
BY TypesNext, CountedNext, RecordedNext, LimitedNext DEF Typed

(* Whatever the model asks for and however tools and the client behave,    *)
(* the counters of a turn stay within its configuration.                   *)
THEOREM TypeCorrect == Spec => []TypeOK
<1>1. Typed => TypeOK
  BY DEF Typed
<1> QED BY <1>1, TypedInit, TypedNext, PTL DEF Spec

-----------------------------------------------------------------------------
(* The selection of what the model is shown *)

Nothing == [in |-> {}, out |-> {}, left |-> Budget]
Take(so, k) == IF context[k].kind = "output" THEN TakeOutput(so, k) ELSE TakeItem(so, k)

(* so[k] is what is selected once the k newest of the n items were seen.   *)
Selection(so, n) == so = [k \in 0..n |-> IF k = 0 THEN Nothing ELSE Take(so[k - 1], n + 1 - k)]

(* The recursion of Input defines something: there is a selection of the   *)
(* first m items for every m, or else there would be a smallest m without. *)
LEMMA SelectionExists ==
    ASSUME NEW n \in Nat
    PROVE  \E so : Selection(so, n)
<1> DEFINE Defined(so, m) == so = [k \in 0..m |-> IF k = 0 THEN Nothing ELSE Take(so[k - 1], n + 1 - k)]
           missing == {m \in Nat : ~ \E so : Defined(so, m)}
<1> SUFFICES missing = {}
  BY DEF Selection
<1> SUFFICES ASSUME missing # {} PROVE FALSE
  OBVIOUS
<1>1. missing \in SUBSET Nat
  OBVIOUS
<1>2. PICK m \in missing : \A l \in missing : m <= l
  <2> HIDE DEF missing
  <2> QED BY <1>1, SmallestNumber
<1>3. CASE m = 0
  <2> DEFINE so == [k \in 0..0 |-> Nothing]
  <2>1. Defined(so, 0)
    OBVIOUS
  <2> QED BY <1>2, <1>3, <2>1
<1>4. CASE m # 0
  <2>1. m - 1 \in Nat /\ m - 1 \notin missing
    <3> HIDE DEF missing
    <3> QED BY <1>1, <1>2, <1>4
  <2>2. PICK f : Defined(f, m - 1)
    BY <2>1
  <2> DEFINE g == [k \in 0..m |-> IF k = 0 THEN Nothing ELSE Take(f[k - 1], n + 1 - k)]
  <2>3. \A k \in 0..(m - 1) : g[k] = f[k]
    <3>1. \A k \in 0..(m - 1) : f[k] = IF k = 0 THEN Nothing ELSE Take(f[k - 1], n + 1 - k)
      BY <2>2
    <3> QED BY <2>1, <3>1
  <2>4. \A k \in 0..m : k # 0 => g[k - 1] = f[k - 1]
    <3> HIDE DEF g
    <3> QED BY <2>1, <2>3
  <2>5. g = [k \in 0..m |-> IF k = 0 THEN Nothing ELSE Take(g[k - 1], n + 1 - k)]
    <3> DEFINE h == [k \in 0..m |-> IF k = 0 THEN Nothing ELSE Take(g[k - 1], n + 1 - k)]
    <3>1. \A k \in 0..m : g[k] = h[k]
      BY <2>4
    <3>2. DOMAIN g = 0..m /\ DOMAIN h = 0..m
      OBVIOUS
    <3> QED BY <3>1
  <2>6. Defined(g, m)
    BY <2>5
  <2> HIDE DEF g
  <2> QED BY <1>2, <2>6
<1> QED BY <1>3, <1>4

LEMMA InputSelects ==
    ASSUME Len(context) \in Nat
    PROVE  \E so : Selection(so, Len(context)) /\ Input = so[Len(context)].in
<1> DEFINE so == CHOOSE f : Selection(f, Len(context))
<1>1. Selection(so, Len(context))
  BY SelectionExists
<1>2. Input = so[Len(context)].in
  BY DEF Input, Selection, Nothing, Take
<1> HIDE DEF so
<1> QED BY <1>1, <1>2

-----------------------------------------------------------------------------
(* Calls and their outputs *)

Alike(j, k) == context[j].round = context[k].round /\ context[j].call = context[k].call
CallAt(k) == k \in DOMAIN context /\ context[k].kind = "call"
OutputAt(k) == k \in DOMAIN context /\ context[k].kind = "output"

(* A call, and an output, is of one position; an output comes after its    *)
(* call.                                                                   *)
Ordered ==
    /\ \A j, k : CallAt(j) /\ CallAt(k) /\ Alike(j, k) => j = k
    /\ \A j, k : OutputAt(j) /\ OutputAt(k) /\ Alike(j, k) => j = k
    /\ \A k : OutputAt(k) => \E j : CallAt(j) /\ j < k /\ Alike(j, k)

(* A call of this round has no output while the tools run; of any other    *)
(* round, there is one.                                                    *)
Answered ==
    \A j : CallAt(j) =>
        IF pc = "executing" /\ context[j].round = iteration
          THEN context[j].call \in DOMAIN observation /\ ~ \E k : OutputAt(k) /\ Alike(j, k)
          ELSE \E k : OutputAt(k) /\ Alike(j, k)

Paired ==
    pc \in {"asked", "start", "streaming", "settled", "executing"} =>
        /\ Ordered /\ Answered
        /\ \A k : CallAt(k) \/ OutputAt(k) =>
              /\ context[k].round <= iteration
              /\ pc \in {"streaming", "settled"} => context[k].round < iteration
        /\ pc = "executing" =>
              \A c \in DOMAIN observation :
                  \E j : CallAt(j) /\ context[j].round = iteration /\ context[j].call = c

(* What was seen so far shows the model each output with its call.         *)
Together(so, seen) ==
    /\ so = [in |-> so.in, out |-> so.out, left |-> so.left]
    /\ so.in \subseteq DOMAIN context
    /\ \A j, k : CallAt(j) /\ OutputAt(k) /\ Alike(j, k) =>
         IF k \in seen
           THEN (k \in so.in <=> j \in so.in) /\ j \in so.in \cup so.out
           ELSE k \notin so.in /\ j \notin so.in

LEMMA TakeTogether ==
    ASSUME Ordered, NEW so, NEW seen, NEW i \in DOMAIN context, Together(so, seen), i \notin seen,
           context[i].kind = "call" => \E k \in seen : OutputAt(k) /\ Alike(i, k)
    PROVE  Together(Take(so, i), seen \cup {i})
<1>1. CASE context[i].kind = "output"
  <2>1. PICK j : CallAt(j) /\ j < i /\ Alike(j, i)
    BY <1>1 DEF Ordered, OutputAt
  <2>2. MatchingCall(i) = {j}
    BY <2>1 DEF MatchingCall, Ordered, CallAt, Alike
  <2>3. Take(so, i) = IF so.in # {} /\ SizeOf({i} \cup {j}) > so.left
                        THEN [so EXCEPT !.out = @ \cup ({i} \cup {j})]
                        ELSE [so EXCEPT !.in = @ \cup ({i} \cup {j}), !.left = @ - SizeOf({i} \cup {j})]
    BY <1>1, <2>2 DEF Take, TakeOutput
  <2> PICK to : to = Take(so, i)
    OBVIOUS
  <2>4. /\ to = [in |-> to.in, out |-> to.out, left |-> to.left]
        /\ \/ to.in = so.in /\ to.out = so.out \cup {i, j}
           \/ to.in = so.in \cup {i, j} /\ to.out = so.out
    <3>1. PICK in, out, left : so = [in |-> in, out |-> out, left |-> left]
      BY DEF Together
    <3>2. PICK size : size = SizeOf({i} \cup {j})
      OBVIOUS
    <3>3. \/ to = [in |-> in, out |-> out \cup ({i} \cup {j}), left |-> left]
          \/ to = [in |-> in \cup ({i} \cup {j}), out |-> out, left |-> left - size]
      BY <2>3, <3>1, <3>2
    <3> QED BY <3>1, <3>3
  <2>5. ASSUME NEW k, NEW l, CallAt(l), OutputAt(k), Alike(l, k)
        PROVE  IF k \in seen \cup {i}
                 THEN (k \in to.in <=> l \in to.in) /\ l \in to.in \cup to.out
                 ELSE k \notin to.in /\ l \notin to.in
    <3>1. IF k \in seen THEN (k \in so.in <=> l \in so.in) /\ l \in so.in \cup so.out
                        ELSE k \notin so.in /\ l \notin so.in
      BY <2>5 DEF Together
    <3>2. l = j <=> k = i
      BY <1>1, <2>1, <2>5 DEF Ordered, CallAt, OutputAt, Alike
    <3>3. k # j /\ l # i
      BY <1>1, <2>1, <2>5 DEF CallAt, OutputAt
    <3> QED BY <2>4, <3>1, <3>2, <3>3
  <2>6. to.in \subseteq DOMAIN context
    BY <2>1, <2>4 DEF Together, CallAt
  <2> QED BY <2>4, <2>5, <2>6 DEF Together
<1>2. CASE context[i].kind # "output"
  <2> PICK to : to = Take(so, i)
    OBVIOUS
  <2>1. to = TakeItem(so, i)
    BY <1>2 DEF Take
  <2>2. CASE context[i].kind = "call"
    <3>1. i \in so.in \cup so.out
      BY <2>2 DEF Together, CallAt
    <3>2. to = so
      BY <2>1, <2>2, <3>1 DEF TakeItem
    <3>3. ~OutputAt(i)
      BY <1>2 DEF OutputAt
    <3> QED BY <3>2, <3>3 DEF Together
  <2>3. CASE context[i].kind # "call"
    <3>1. /\ to = [in |-> to.in, out |-> to.out, left |-> to.left]
          /\ to.out = so.out /\ (to.in = so.in \/ to.in = so.in \cup {i})
      BY <2>1, <2>3 DEF TakeItem, Together
    <3>2. ~OutputAt(i) /\ ~CallAt(i)
      BY <1>2, <2>3 DEF OutputAt, CallAt
    <3> QED BY <3>1, <3>2 DEF Together
  <2> QED BY <2>2, <2>3
<1> QED BY <1>1, <1>2

(* The model is shown calls and outputs together, whatever their sizes.    *)
LEMMA InputTogether ==
    ASSUME Ordered, Answered, pc # "executing", Len(context) \in Nat, DOMAIN context = 1..Len(context)
    PROVE  /\ Input \subseteq DOMAIN context
           /\ \A j, k : CallAt(j) /\ OutputAt(k) /\ Alike(j, k) => (k \in Input <=> j \in Input)
<1> PICK n \in Nat : n = Len(context)
  OBVIOUS
<1>1. PICK so : Selection(so, n) /\ Input = so[n].in
  BY InputSelects
<1> DEFINE seen(k) == (n + 1 - k)..n
           wrong == {k \in 0..n : ~Together(so[k], seen(k))}
<1>2. so[0] = Nothing /\ \A k \in 1..n : so[k] = Take(so[k - 1], n + 1 - k)
  BY <1>1 DEF Selection
<1>3. ASSUME wrong # {} PROVE FALSE
  <2>1. wrong \in SUBSET Nat
    OBVIOUS
  <2>2. PICK m \in wrong : \A l \in wrong : m <= l
    <3> HIDE DEF wrong
    <3> QED BY <1>3, <2>1, SmallestNumber
  <2>3. CASE m = 0
    <3>1. seen(0) = {}
      OBVIOUS
    <3>2. Together(Nothing, {})
      BY DEF Together, Nothing
    <3> QED BY <1>2, <2>2, <2>3, <3>1, <3>2
  <2>4. CASE m # 0
    <3>1. m \in 1..n /\ m - 1 \in 0..n /\ m - 1 \notin wrong
      <4>1. m \in 0..n
        BY <2>2
      <4> HIDE DEF wrong
      <4> QED BY <2>2, <2>4, <4>1
    <3>2. Together(so[m - 1], seen(m - 1))
      BY <3>1
    <3> PICK i : i = n + 1 - m
      OBVIOUS
    <3>3. i \in DOMAIN context /\ i \notin seen(m - 1) /\ seen(m) = seen(m - 1) \cup {i}
      BY <3>1
    <3>4. ASSUME context[i].kind = "call" PROVE \E k \in seen(m - 1) : OutputAt(k) /\ Alike(i, k)
      <4>1. CallAt(i)
        BY <3>3, <3>4 DEF CallAt
      <4>2. PICK k : OutputAt(k) /\ Alike(i, k)
        BY <4>1 DEF Answered
      <4>3. PICK j : CallAt(j) /\ j < k /\ Alike(j, k)
        BY <4>2 DEF Ordered
      <4>4. j = i
        BY <4>1, <4>2, <4>3 DEF Ordered, Alike
      <4>5. k \in 1..n /\ i < k
        BY <4>2, <4>3, <4>4 DEF OutputAt
      <4>6. k \in seen(m - 1)
        BY <3>1, <4>5
      <4> QED BY <4>2, <4>6
    <3>5. Together(Take(so[m - 1], i), seen(m - 1) \cup {i})
      <4> HIDE DEF seen
      <4> QED BY <3>2, <3>3, <3>4, TakeTogether
    <3>6. so[m] = Take(so[m - 1], i)
      BY <1>2, <3>1
    <3> QED BY <2>2, <3>3, <3>5, <3>6
  <2> QED BY <2>3, <2>4
<1>4. Together(so[n], 1..n)
  <2>1. n \in 0..n /\ seen(n) = 1..n
    OBVIOUS
  <2> QED BY <1>3, <2>1
<1> QED BY <1>1, <1>4 DEF Together, OutputAt

(* The calls of a response come one after another.                         *)
LEMMA OutputShape ==
    ASSUME Typed, NEW r \in Response
    PROVE  \E first \in {0, 1}, n \in Nat :
             /\ DOMAIN r.calls = 1..n /\ Len(Output(r)) = first + n
             /\ \A p \in 1..first : Output(r)[p].kind = "message"
             /\ \A c \in 1..n : Output(r)[first + c]
                                  = [kind |-> "call", round |-> iteration, call |-> c, size |-> 1]
<1>1. PICK n \in 0..MaxCalls : r.calls \in [1..n -> Signatures \cup {"invalid"}]
  BY DEF Response, Calls
<1>2. n \in Nat /\ DOMAIN r.calls = 1..n
  BY <1>1, SignaturesAssumption
<1> DEFINE asked == [c \in 1..n |-> [kind |-> "call", round |-> iteration, call |-> c, size |-> 1]]
           message == [kind |-> "message", round |-> iteration, call |-> 0, size |-> 1]
<1>3. asked \in Seq(Item) /\ Len(asked) = n /\ message \in Item
      /\ \A c \in 1..n : asked[c] = [kind |-> "call", round |-> iteration, call |-> c, size |-> 1]
  <2>1. iteration \in Nat
    BY DEF Typed, Counted
  <2>2. \A c \in 1..n : [kind |-> "call", round |-> iteration, call |-> c, size |-> 1] \in Item
    BY <1>2, <2>1 DEF Item
  <2> QED BY <1>2, <2>1, <2>2 DEF Item
<1>4. Output(r) = (IF r.text = "none" THEN <<>> ELSE <<message>>) \o asked
  BY <1>2 DEF Output
<1>m. message.kind = "message"
  OBVIOUS
<1> HIDE DEF asked, message
<1>5. CASE r.text = "none"
  <2>1. Output(r) = asked
    BY <1>3, <1>4, <1>5
  <2>2. /\ Len(Output(r)) = 0 + n
        /\ \A c \in 1..n : Output(r)[0 + c]
                             = [kind |-> "call", round |-> iteration, call |-> c, size |-> 1]
    BY <1>2, <1>3, <2>1
  <2> QED BY <1>2, <2>2
<1>6. CASE r.text # "none"
  <2>1. Output(r) = <<message>> \o asked
    BY <1>4, <1>6
  <2>2. /\ Len(Output(r)) = 1 + n /\ Output(r)[1] = message
        /\ \A c \in 1..n : Output(r)[1 + c] = asked[c]
    BY <1>2, <1>3, <2>1
  <2> QED BY <1>2, <1>3, <1>m, <2>2
<1> QED BY <1>5, <1>6

LEMMA ObservationsShape ==
    ASSUME Typed
    PROVE  \E n \in Nat :
             /\ DOMAIN observation = 1..n /\ Len(Observations) \in {n, n + 1}
             /\ \A c \in 1..n : /\ Observations[c].kind = "output" /\ Observations[c].round = iteration
                                /\ Observations[c].call = c
             /\ Len(Observations) = n + 1 => Observations[n + 1].kind = "image"
<1>1. PICK n \in Nat : DOMAIN observation = 1..n
  BY DEF Typed, Limited
<1>2. Outputs \in Seq(Item) /\ Len(Outputs) = n
      /\ \A c \in 1..n : /\ Outputs[c].kind = "output" /\ Outputs[c].round = iteration
                         /\ Outputs[c].call = c
  BY <1>1, ObservationsType DEF Outputs
<1> DEFINE image == [kind |-> "image", round |-> iteration, call |-> 0, size |-> Budget + 1]
<1>3. image.kind = "image" /\ image \in Item
  BY ConfigurationAssumption DEF Item, SessionConfiguration, Typed, Counted
<1>4. Observations = Outputs \o (IF Images = {} THEN <<>> ELSE <<image>>)
  BY DEF Observations
<1> HIDE DEF image
<1>5. CASE Images = {}
  <2>1. Observations = Outputs
    BY <1>2, <1>4, <1>5
  <2> QED BY <1>1, <1>2, <2>1
<1>6. CASE Images # {}
  <2>1. Observations = Outputs \o <<image>>
    BY <1>4, <1>6
  <2>2. /\ Len(Observations) = n + 1 /\ Observations[n + 1] = image
        /\ \A c \in 1..n : Observations[c] = Outputs[c]
    BY <1>1, <1>2, <1>3, <2>1, SMTT(20)
  <2> QED BY <1>1, <1>2, <1>3, <2>2
<1> QED BY <1>5, <1>6

LEMMA StartToolsPaired ==
    ASSUME Typed, Paired, StartTools
    PROVE  Paired'
<1>1. /\ pc = "settled" /\ pc' = "executing" /\ iteration' = iteration
      /\ response \in Response /\ context \in Seq(Item)
      /\ context' = context \o Output(response)
      /\ DOMAIN observation' = DOMAIN response.calls
  BY DEF StartTools, Typed, TypeOK
<1>2. /\ Ordered /\ Answered
      /\ \A k : CallAt(k) \/ OutputAt(k) => context[k].round < iteration
  BY <1>1 DEF Paired
<1>3. PICK first \in {0, 1}, n \in Nat :
        /\ DOMAIN response.calls = 1..n /\ Len(Output(response)) = first + n
        /\ \A p \in 1..first : Output(response)[p].kind = "message"
        /\ \A c \in 1..n : Output(response)[first + c]
                             = [kind |-> "call", round |-> iteration, call |-> c, size |-> 1]
  BY <1>1, OutputShape
<1>4. PICK start \in Nat : start = Len(context) + first /\ Len(context) \in Nat
  BY <1>1
<1> DEFINE new == (start + 1)..(start + n)
<1>5. Output(response) \in Seq(Item)
  BY <1>1, OutputType
<1>6. /\ \A k \in DOMAIN context : k \in DOMAIN context' /\ context'[k] = context[k]
      /\ \A k \in DOMAIN context' \ DOMAIN context :
            context'[k] = Output(response)[k - Len(context)] /\ k - Len(context) \in 1..(first + n)
      /\ \A k \in new : k \in DOMAIN context' \ DOMAIN context
  BY <1>1, <1>3, <1>4, <1>5
<1>7. \A k \in new : /\ context'[k].kind = "call" /\ context'[k].round = iteration
                     /\ context'[k].call = k - start
  <2> SUFFICES ASSUME NEW k \in new
               PROVE  /\ context'[k].kind = "call" /\ context'[k].round = iteration
                      /\ context'[k].call = k - start
    OBVIOUS
  <2>1. k - start \in 1..n /\ k - Len(context) = first + (k - start)
    BY <1>4
  <2>2. context'[k] = [kind |-> "call", round |-> iteration, call |-> k - start, size |-> 1]
    BY <1>3, <1>6, <2>1
  <2> QED BY <2>2
<1>8. \A k \in DOMAIN context' \ DOMAIN context : k \in new \/ context'[k].kind = "message"
  <2> SUFFICES ASSUME NEW k \in DOMAIN context' \ DOMAIN context
               PROVE  k \in new \/ context'[k].kind = "message"
    OBVIOUS
  <2>1. k - Len(context) \in 1..(first + n) /\ context'[k] = Output(response)[k - Len(context)]
    BY <1>6
  <2>2. k - Len(context) \in 1..first \/ k \in new
    <3>1. k \in Int
      BY <1>1, <1>5
    <3> QED BY <1>4, <2>1, <3>1
  <2> QED BY <1>3, <2>1, <2>2
<1>9. \A k : CallAt(k)' <=> CallAt(k) \/ k \in new
  <2> HIDE DEF new
  <2> QED BY <1>6, <1>7, <1>8 DEF CallAt
<1>10. \A k : OutputAt(k)' <=> OutputAt(k)
  <2> HIDE DEF new
  <2> QED BY <1>6, <1>7, <1>8 DEF OutputAt
<1>11. \A k : CallAt(k) \/ OutputAt(k) => context'[k] = context[k] /\ context[k].round < iteration
  BY <1>2, <1>6 DEF CallAt, OutputAt
<1>12. Ordered'
  <2>1. ASSUME NEW j, NEW k, CallAt(j)', CallAt(k)', Alike(j, k)' PROVE j = k
    <3>1. CASE CallAt(j) /\ CallAt(k)
      BY <1>2, <1>11, <2>1, <3>1 DEF Ordered, Alike
    <3>2. CASE j \in new /\ k \in new
      BY <1>7, <2>1, <3>2 DEF Alike
    <3>3. CASE (CallAt(j) /\ k \in new) \/ (j \in new /\ CallAt(k))
      <4> HIDE DEF new
      <4>1. iteration \in Nat
        BY DEF Typed, Counted
      <4> QED BY <1>7, <1>11, <2>1, <3>3, <4>1 DEF Alike
    <3> QED BY <1>9, <2>1, <3>1, <3>2, <3>3
  <2>2. ASSUME NEW j, NEW k, OutputAt(j)', OutputAt(k)', Alike(j, k)' PROVE j = k
    BY <1>2, <1>10, <1>11, <2>2 DEF Ordered, Alike
  <2>3. ASSUME NEW k, OutputAt(k)' PROVE \E j : CallAt(j)' /\ j < k /\ Alike(j, k)'
    BY <1>2, <1>9, <1>10, <1>11, <2>3 DEF Ordered, Alike
  <2> QED BY <2>1, <2>2, <2>3 DEF Ordered
<1>13. Answered'
  <2> SUFFICES ASSUME NEW j, CallAt(j)'
               PROVE  IF context'[j].round = iteration
                        THEN context'[j].call \in 1..n /\ ~ \E k : OutputAt(k)' /\ Alike(j, k)'
                        ELSE \E k : OutputAt(k)' /\ Alike(j, k)'
    BY <1>1, <1>3 DEF Answered
  <2>i. iteration \in Nat
    BY DEF Typed, Counted
  <2>1. CASE CallAt(j)
    <3>1. PICK k : OutputAt(k) /\ Alike(j, k)
      BY <1>1, <1>2, <2>1 DEF Answered
    <3>2. OutputAt(k)' /\ Alike(j, k)' /\ context'[j].round # iteration
      BY <1>10, <1>11, <2>i, <2>1, <3>1 DEF Alike
    <3> QED BY <3>2
  <2>2. CASE j \in new
    <3>1. context'[j].round = iteration /\ context'[j].call \in 1..n
      BY <1>7, <2>2
    <3>2. ASSUME NEW k, OutputAt(k)', Alike(j, k)' PROVE FALSE
      BY <1>10, <1>11, <2>i, <3>1, <3>2 DEF Alike
    <3> QED BY <3>1, <3>2
  <2> QED BY <1>9, <2>1, <2>2
<1>14. \A k : CallAt(k)' \/ OutputAt(k)' => context'[k].round <= iteration
  <2>1. iteration \in Nat
    BY DEF Typed, Counted
  <2>2. \A k : CallAt(k) \/ OutputAt(k) => context'[k].round <= iteration
    <3>1. \A k \in DOMAIN context : context[k].round \in Nat
      <4>1. \A k \in DOMAIN context : context[k] \in Item
        BY <1>1
      <4> QED BY <4>1 DEF Item
    <3> QED BY <1>11, <2>1, <3>1 DEF CallAt, OutputAt
  <2> HIDE DEF new
  <2> QED BY <1>7, <1>9, <1>10, <2>1, <2>2
<1>15. \A c \in 1..n : \E j : CallAt(j)' /\ context'[j].round = iteration /\ context'[j].call = c
  <2> SUFFICES ASSUME NEW c \in 1..n
               PROVE  \E j : CallAt(j)' /\ context'[j].round = iteration /\ context'[j].call = c
    OBVIOUS
  <2>1. start + c \in new /\ (start + c) - start = c
    OBVIOUS
  <2> HIDE DEF new
  <2> QED BY <1>7, <1>9, <2>1
<1> QED BY <1>1, <1>3, <1>12, <1>13, <1>14, <1>15 DEF Paired

LEMMA FinishToolsPaired ==
    ASSUME Typed, Paired, FinishTools
    PROVE  Paired'
<1> SUFFICES ASSUME pc' = "start" PROVE Paired'
  BY DEF FinishTools, Paired
<1>1. /\ pc = "executing" /\ iteration' = iteration /\ context \in Seq(Item)
      /\ context' = context \o Observations
  BY DEF FinishTools, Typed, TypeOK
<1>2. /\ Ordered /\ Answered
      /\ \A k : CallAt(k) \/ OutputAt(k) => context[k].round <= iteration
      /\ \A c \in DOMAIN observation :
            \E j : CallAt(j) /\ context[j].round = iteration /\ context[j].call = c
  BY <1>1 DEF Paired
<1>3. PICK n \in Nat :
        /\ DOMAIN observation = 1..n /\ Len(Observations) \in {n, n + 1}
        /\ \A c \in 1..n : /\ Observations[c].kind = "output" /\ Observations[c].round = iteration
                           /\ Observations[c].call = c
        /\ Len(Observations) = n + 1 => Observations[n + 1].kind = "image"
  BY ObservationsShape
<1>4. PICK start \in Nat : start = Len(context)
  BY <1>1
<1> DEFINE new == (start + 1)..(start + n)
<1>5. Observations \in Seq(Item)
  BY ObservationsType
<1>6. /\ \A k \in DOMAIN context : k \in DOMAIN context' /\ context'[k] = context[k] /\ k <= start
      /\ \A k \in DOMAIN context' \ DOMAIN context :
            context'[k] = Observations[k - start] /\ k - start \in 1..Len(Observations)
      /\ \A k \in new : k \in DOMAIN context' \ DOMAIN context
  BY <1>1, <1>3, <1>4, <1>5
<1>7. \A k \in new : /\ context'[k].kind = "output" /\ context'[k].round = iteration
                     /\ context'[k].call = k - start
  <2> SUFFICES ASSUME NEW k \in new
               PROVE  /\ context'[k].kind = "output" /\ context'[k].round = iteration
                      /\ context'[k].call = k - start
    OBVIOUS
  <2>1. k - start \in 1..n
    OBVIOUS
  <2> QED BY <1>3, <1>6, <2>1
<1>8. \A k \in DOMAIN context' \ DOMAIN context : k \in new \/ context'[k].kind = "image"
  <2> SUFFICES ASSUME NEW k \in DOMAIN context' \ DOMAIN context
               PROVE  k \in new \/ context'[k].kind = "image"
    OBVIOUS
  <2>1. k - start \in 1..Len(Observations) /\ context'[k] = Observations[k - start] /\ k \in Int
    BY <1>1, <1>5, <1>6
  <2>2. k \in new \/ (Len(Observations) = n + 1 /\ k - start = n + 1)
    BY <1>3, <1>4, <2>1
  <2> QED BY <1>3, <2>1, <2>2
<1>9. \A k : CallAt(k)' <=> CallAt(k)
  <2> HIDE DEF new
  <2> QED BY <1>6, <1>7, <1>8 DEF CallAt
<1>10. \A k : OutputAt(k)' <=> OutputAt(k) \/ k \in new
  <2> HIDE DEF new
  <2> QED BY <1>6, <1>7, <1>8 DEF OutputAt
<1>11. \A k : CallAt(k) \/ OutputAt(k) => context'[k] = context[k] /\ k <= start
  BY <1>6 DEF CallAt, OutputAt
(* A new output is of a call of this round, which had none.                *)
<1>12. ASSUME NEW k \in new
       PROVE  /\ \E j : CallAt(j) /\ j < k /\ Alike(j, k)'
              /\ ~ \E l : OutputAt(l) /\ Alike(l, k)'
  <2>1. k - start \in 1..n /\ start < k
    OBVIOUS
  <2>2. PICK j : CallAt(j) /\ context[j].round = iteration /\ context[j].call = k - start
    BY <1>2, <1>3, <2>1
  <2>3. Alike(j, k)' /\ j < k
    <3>1. j \in Int
      BY <1>1, <2>2 DEF CallAt
    <3>2. j <= start
      BY <1>11, <2>2
    <3>3. Alike(j, k)'
      <4> HIDE DEF new
      <4> QED BY <1>7, <1>11, <2>2 DEF Alike
    <3> QED BY <2>1, <3>1, <3>2, <3>3
  <2>4. ASSUME NEW l, OutputAt(l), Alike(l, k)' PROVE FALSE
    <3>1. Alike(j, l)
      <4> HIDE DEF new
      <4> QED BY <1>7, <1>11, <2>2, <2>4 DEF Alike
    <3> QED BY <1>1, <1>2, <2>2, <2>4, <3>1 DEF Answered
  <2> QED BY <2>2, <2>3, <2>4
<1>13. Ordered'
  <2>1. ASSUME NEW j, NEW k, CallAt(j)', CallAt(k)', Alike(j, k)' PROVE j = k
    BY <1>2, <1>9, <1>11, <2>1 DEF Ordered, Alike
  <2>2. ASSUME NEW j, NEW k, OutputAt(j)', OutputAt(k)', Alike(j, k)' PROVE j = k
    <3>1. CASE OutputAt(j) /\ OutputAt(k)
      BY <1>2, <1>11, <2>2, <3>1 DEF Ordered, Alike
    <3>2. CASE j \in new /\ k \in new
      BY <1>7, <2>2, <3>2 DEF Alike
    <3>3. CASE OutputAt(j) /\ k \in new
      <4> HIDE DEF new
      <4> QED BY <1>12, <2>2, <3>3
    <3>4. CASE j \in new /\ OutputAt(k)
      <4>1. Alike(k, j)'
        BY <2>2 DEF Alike
      <4> HIDE DEF new
      <4> QED BY <1>12, <3>4, <4>1
    <3> QED BY <1>10, <2>2, <3>1, <3>2, <3>3, <3>4
  <2>3. ASSUME NEW k, OutputAt(k)' PROVE \E j : CallAt(j)' /\ j < k /\ Alike(j, k)'
    <3>1. CASE OutputAt(k)
      BY <1>2, <1>9, <1>11, <3>1 DEF Ordered, Alike
    <3>2. CASE k \in new
      <4> HIDE DEF new
      <4> QED BY <1>9, <1>12, <3>2
    <3> QED BY <1>10, <2>3, <3>1, <3>2
  <2> QED BY <2>1, <2>2, <2>3 DEF Ordered
<1>14. Answered'
  <2> SUFFICES ASSUME NEW j, CallAt(j) PROVE \E k : OutputAt(k)' /\ Alike(j, k)'
    BY <1>9 DEF Answered
  <2>1. CASE context[j].round = iteration
    <3>1. context[j].call \in 1..n
      BY <1>1, <1>2, <1>3, <2>1 DEF Answered
    <3> PICK k : k = start + context[j].call
      OBVIOUS
    <3>2. k \in new /\ k - start = context[j].call
      BY <3>1
    <3> HIDE DEF new
    <3>3. Alike(j, k)'
      BY <1>7, <1>11, <2>1, <3>2 DEF Alike
    <3> QED BY <1>10, <3>2, <3>3
  <2>2. CASE context[j].round # iteration
    <3>1. PICK k : OutputAt(k) /\ Alike(j, k)
      BY <1>2, <2>2 DEF Answered
    <3> HIDE DEF new
    <3> QED BY <1>10, <1>11, <3>1 DEF Alike
  <2> QED BY <2>1, <2>2
<1>15. \A k : CallAt(k)' \/ OutputAt(k)' => context'[k].round <= iteration
  <2>1. iteration \in Nat
    BY DEF Typed, Counted
  <2> HIDE DEF new
  <2> QED BY <1>2, <1>7, <1>9, <1>10, <1>11, <2>1
<1> QED BY <1>1, <1>13, <1>14, <1>15 DEF Paired

LEMMA SameContext ==
    ASSUME UNCHANGED context
    PROVE  /\ \A k : (CallAt(k)' <=> CallAt(k)) /\ (OutputAt(k)' <=> OutputAt(k))
           /\ \A j, k : Alike(j, k)' <=> Alike(j, k)
           /\ Ordered' <=> Ordered
BY DEF CallAt, OutputAt, Alike, Ordered

LEMMA PairedSame ==
    ASSUME Paired, UNCHANGED <<context, iteration>>, DOMAIN observation' = DOMAIN observation,
           \/ pc' = pc \/ pc' \notin {"asked", "start", "streaming", "settled", "executing"}
           \/ pc = "asked" /\ pc' = "start"
           \/ pc = "streaming" /\ pc' = "settled"
    PROVE  Paired'
<1>1. CASE pc' \notin {"asked", "start", "streaming", "settled", "executing"}
  BY <1>1 DEF Paired
<1>2. CASE pc' = pc \/ (pc = "streaming" /\ pc' = "settled")
           \/ (pc = "asked" /\ pc' = "start")
  <2>1. CASE pc \in {"asked", "start", "streaming", "settled", "executing"}
    <3>1. Ordered' /\ (Answered' <=> Answered)
      BY <1>2, <2>1, SameContext DEF Paired, Answered
    <3> QED BY <1>2, <2>1, <3>1, SameContext DEF Paired
  <2>2. CASE pc \notin {"asked", "start", "streaming", "settled", "executing"}
    BY <1>2, <2>2 DEF Paired
  <2> QED BY <2>1, <2>2
<1> QED BY <1>1, <1>2

LEMMA PairedInit == Init => Paired
<1> SUFFICES ASSUME Init PROVE Paired
  OBVIOUS
<1>1. \A k : ~CallAt(k) /\ ~OutputAt(k)
  BY DEF Init, CallAt, OutputAt
<1>2. pc = "asked" /\ Ordered /\ Answered
  BY <1>1 DEF Init, Ordered, Answered
<1> QED BY <1>1, <1>2 DEF Paired

LEMMA PairedNext == Typed /\ Paired /\ [Next]_vars => Paired'
<1> SUFFICES ASSUME Typed, Paired, [Next]_vars PROVE Paired'
  OBVIOUS
<1>1. CASE StartTools
  BY <1>1, StartToolsPaired
<1>2. CASE FinishTools
  BY <1>2, FinishToolsPaired
<1>3. CASE StartSampling
  <2>1. /\ pc = "start" /\ pc' = "streaming" /\ iteration' = iteration + 1
        /\ UNCHANGED context
    BY <1>3 DEF StartSampling
  <2>2. Ordered' /\ Answered'
    BY <2>1, SameContext DEF Paired, Answered
  <2>3. \A k : CallAt(k)' \/ OutputAt(k)' => context'[k].round < iteration'
    <3>1. iteration \in Nat /\ \A k \in DOMAIN context : context[k].round \in Nat
      <4>1. \A k \in DOMAIN context : context[k] \in Item
        BY DEF Typed, TypeOK
      <4> QED BY <4>1 DEF Item, Typed, Counted
    <3>2. \A k : CallAt(k) \/ OutputAt(k) => context[k].round <= iteration
      BY <2>1 DEF Paired
    <3> QED BY <2>1, <3>1, <3>2, SameContext DEF CallAt, OutputAt
  <2>4. \A k : CallAt(k)' \/ OutputAt(k)' => context'[k].round <= iteration'
    <3>1. iteration' \in Nat /\ \A k \in DOMAIN context : context[k].round \in Nat
      <4>1. \A k \in DOMAIN context : context[k] \in Item
        BY DEF Typed, TypeOK
      <4> QED BY <2>1, <4>1 DEF Item, Typed, Counted
    <3> QED BY <2>1, <2>3, <3>1 DEF CallAt, OutputAt
  <2> QED BY <2>1, <2>2, <2>3, <2>4 DEF Paired
<1>4. CASE Reject
  BY <1>4 DEF Reject, Fail, Paired
<1>5. CASE StartTurn \/ Retry \/ TransportFails \/ Settle \/ Return \/ Break \/ FinishTurn
           \/ StreamEvent \/ Disconnect
  <2>1. UNCHANGED <<context, iteration, observation>>
    BY <1>5 DEF StartTurn, Retry, TransportFails, Settle, Return, Break, FinishTurn,
                StreamEvent, Disconnect, counters
  <2>2. \/ pc' = pc \/ pc' \notin {"asked", "start", "streaming", "settled", "executing"}
        \/ pc = "asked" /\ pc' = "start"
        \/ pc = "streaming" /\ pc' = "settled"
    BY <1>5 DEF StartTurn, Retry, TransportFails, Settle, Return, Break, FinishTurn,
                StreamEvent, Disconnect, Fail
  <2> QED BY <2>1, <2>2, PairedSame
<1>6. ASSUME NEW c \in DOMAIN observation, FinishTool(c) PROVE Paired'
  <2>1. UNCHANGED <<context, iteration>> /\ DOMAIN observation' = DOMAIN observation
    BY <1>6 DEF FinishTool, counters
  <2>2. pc' = pc \/ pc' \notin {"asked", "start", "streaming", "settled", "executing"}
    BY <1>6 DEF FinishTool
  <2> QED BY <2>1, <2>2, PairedSame
<1>7. CASE UNCHANGED vars
  BY <1>7, PairedSame DEF vars
<1> QED BY <1>1, <1>2, <1>3, <1>4, <1>5, <1>6, <1>7 DEF Next, Step

(* Whatever of a long turn fits into the budget, and however its tools     *)
(* ended, no sample shows the model a function call without its output or  *)
(* an output without its call, and no output answers two calls.            *)
THEOREM InputStaysPaired == Spec => []InputIsPaired
<1>1. ASSUME Typed, Paired, pc = "start" PROVE InputIsPaired
  <2> PICK input : input = Input
    OBVIOUS
  <2> DEFINE Pair(k) == {j \in DOMAIN context :
                          /\ context[j].kind \in {"call", "output"}
                          /\ context[j].round = context[k].round /\ context[j].call = context[k].call}
  <2> SUFFICES ASSUME NEW k \in input, context[k].kind \in {"call", "output"}
               PROVE  Cardinality(Pair(k)) = 2 /\ Pair(k) \subseteq input
    BY DEF InputIsPaired
  <2>1. Ordered /\ Answered
    BY <1>1 DEF Paired
  <2>2. Len(context) \in Nat /\ DOMAIN context = 1..Len(context)
    BY <1>1 DEF Typed, TypeOK
  <2>3. /\ input \subseteq DOMAIN context
        /\ \A i, o : CallAt(i) /\ OutputAt(o) /\ Alike(i, o) => (o \in input <=> i \in input)
    BY <1>1, <2>1, <2>2, InputTogether
  <2>4. PICK i, o : CallAt(i) /\ OutputAt(o) /\ Alike(i, o) /\ k \in {i, o}
    <3>1. CASE CallAt(k)
      BY <1>1, <2>1, <3>1 DEF Answered
    <3>2. CASE OutputAt(k)
      BY <2>1, <3>2 DEF Ordered
    <3> QED BY <2>3, <3>1, <3>2 DEF CallAt, OutputAt
  <2>5. i # o
    BY <2>4 DEF CallAt, OutputAt
  <2>6. \A j : j \in Pair(k) <=> (CallAt(j) \/ OutputAt(j)) /\ Alike(j, k)
    BY DEF CallAt, OutputAt, Alike
  <2> HIDE DEF Pair
  <2>7. Pair(k) = {i, o}
    <3>1. \A j : (CallAt(j) \/ OutputAt(j)) /\ Alike(j, k) <=> j \in {i, o}
      BY <2>1, <2>4 DEF Ordered, Alike
    <3> QED BY <2>6, <3>1
  <2>8. Cardinality({i, o}) = 2
    <3>1. IsFiniteSet({i}) /\ Cardinality({i}) = 1
      BY FS_Singleton
    <3>2. Cardinality({i} \cup {o}) = Cardinality({i}) + 1
      <4>1. o \notin {i}
        BY <2>5
      <4> QED BY <3>1, <4>1, FS_AddElement
    <3>3. {i} \cup {o} = {i, o}
      OBVIOUS
    <3> QED BY <3>1, <3>2, <3>3
  <2> QED BY <2>3, <2>4, <2>7, <2>8
<1>2. Typed /\ Paired => InputIsPaired
  BY <1>1 DEF InputIsPaired
<1> QED BY <1>2, TypedInit, TypedNext, PairedInit, PairedNext, PTL DEF Spec

-----------------------------------------------------------------------------
(* Loops over a sequence *)

(* Induction, on the set of the numbers for which something holds.         *)
LEMMA AllNumbers ==
    ASSUME NEW T \in SUBSET Nat, 0 \in T, \A n \in T : n + 1 \in T
    PROVE  T = Nat
<1> SUFFICES ASSUME Nat \ T # {} PROVE FALSE
  OBVIOUS
<1>1. PICK n \in Nat \ T : \A m \in Nat \ T : n <= m
  BY SmallestNumber
<1>2. n # 0 /\ n - 1 \in Nat /\ n - 1 < n
  BY <1>1
<1>3. n - 1 \in T
  BY <1>1, <1>2
<1> QED BY <1>1, <1>2, <1>3

(* What holds before a loop and after each of its steps holds at its end.  *)
LEMMA LoopStays ==
    ASSUME NEW k \in Nat, NEW D, NEW f, f[0] \in D[0],
           \A n \in 1..k : f[n - 1] \in D[n - 1] => f[n] \in D[n]
    PROVE  f[k] \in D[k]
<1> DEFINE T == {n \in Nat : n <= k => f[n] \in D[n]}
<1>1. 0 \in T
  OBVIOUS
<1>2. ASSUME NEW n \in T PROVE n + 1 \in T
  <2> SUFFICES ASSUME n + 1 <= k PROVE f[n + 1] \in D[n + 1]
    OBVIOUS
  <2>1. f[n] \in D[n] /\ n + 1 \in 1..k /\ (n + 1) - 1 = n
    OBVIOUS
  <2> HIDE DEF T
  <2> QED BY <2>1
<1>3. T = Nat
  <2>1. T \in SUBSET Nat
    OBVIOUS
  <2> HIDE DEF T
  <2> QED BY <1>1, <1>2, <2>1, AllNumbers
<1> QED BY <1>3

(* f goes from base by the steps G through the sets D.                     *)
IsLoop(f, k, base, G, D) ==
    /\ f = [n \in 0..k |-> f[n]] /\ f[0] = base
    /\ \A n \in 1..k : f[n] = G[n][f[n - 1]]
    /\ \A n \in 0..k : f[n] \in D[n]

(* A loop whose steps lead from one set to the next: it comes to its end.  *)
LEMMA LoopExists ==
    ASSUME NEW k \in Nat, NEW D, NEW base, base \in D[0], NEW G,
           \A n \in 1..k : \A x \in D[n - 1] : G[n][x] \in D[n]
    PROVE  \E f : IsLoop(f, k, base, G, D)
<1> DEFINE Upto(f, j) == IsLoop(f, j, base, G, D)
           T == {j \in Nat : j <= k => \E f : Upto(f, j)}
<1> USE DEF IsLoop
<1>1. 0 \in T
  <2> DEFINE f == [n \in 0..0 |-> base]
  <2>1. Upto(f, 0)
    OBVIOUS
  <2> HIDE DEF f, Upto
  <2> QED BY <2>1
<1>2. ASSUME NEW j \in T PROVE j + 1 \in T
  <2> SUFFICES ASSUME j + 1 <= k PROVE \E g : Upto(g, j + 1)
    <3> HIDE DEF Upto
    <3> QED OBVIOUS
  <2>1. PICK f : Upto(f, j)
    OBVIOUS
  <2> DEFINE g == [n \in 0..(j + 1) |-> IF n = j + 1 THEN G[j + 1][f[j]] ELSE f[n]]
  <2>2. j \in Nat /\ j + 1 \in 1..k /\ (j + 1) - 1 = j
    OBVIOUS
  <2>3. \A n \in 0..j : g[n] = f[n]
    BY <2>2
  <2>4. g[j + 1] = G[j + 1][f[j]] /\ g[j] = f[j] /\ g[0] = f[0]
    BY <2>2
  <2>5. f[0] = base /\ \A n \in 1..j : f[n] = G[n][f[n - 1]]
    <3> HIDE DEF T
    <3> QED BY <2>1, <2>2
  <2>6. \A n \in 0..(j + 1) : g[n] \in D[n]
    <3>1. \A n \in 0..j : g[n] \in D[n]
      BY <2>1, <2>3
    <3>2. f[j] \in D[j]
      BY <2>1, <2>2
    <3>3. g[j + 1] \in D[j + 1]
      <4> HIDE DEF T, Upto, g
      <4> QED BY <2>2, <2>4, <3>2
    <3> HIDE DEF T, Upto, g
    <3> QED BY <2>2, <3>1, <3>3
  <2>7. \A n \in 1..(j + 1) : g[n] = G[n][g[n - 1]]
    <3> SUFFICES ASSUME NEW n \in 1..(j + 1) PROVE g[n] = G[n][g[n - 1]]
      OBVIOUS
    <3>1. n - 1 \in 0..j
      BY <2>2
    <3>2. g[n - 1] = f[n - 1]
      BY <2>3, <3>1
    <3> HIDE DEF T, Upto, g
    <3>3. CASE n = j + 1
      BY <2>2, <2>4, <3>3
    <3>4. CASE n # j + 1
      <4>1. n \in 1..j
        BY <2>2, <3>4
      <4> QED BY <2>2, <2>3, <2>5, <3>2, <4>1
    <3> QED BY <3>3, <3>4
  <2>8. g = [n \in 0..(j + 1) |-> g[n]]
    OBVIOUS
  <2>9. Upto(g, j + 1)
    <3> HIDE DEF g
    <3> QED BY <2>2, <2>4, <2>5, <2>6, <2>7, <2>8
  <2> HIDE DEF T, Upto, g
  <2> QED BY <2>9
<1>3. T = Nat
  <2>1. T \in SUBSET Nat
    OBVIOUS
  <2> HIDE DEF T
  <2> QED BY <1>1, <1>2, <2>1, AllNumbers
<1>4. k \in T
  BY <1>3
<1> QED BY <1>4

LEMMA FunctionSequence ==
    ASSUME NEW S, NEW n \in Nat, NEW f \in [1..n -> S]
    PROVE  f \in Seq(S)
OBVIOUS

LEMMA SequenceWithin ==
    ASSUME NEW S, NEW T, S \subseteq T, NEW s \in Seq(S)
    PROVE  s \in Seq(T)
OBVIOUS

-----------------------------------------------------------------------------
(* What the loops of a search compute *)

LEMMA UnseenWithin ==
    ASSUME NEW H, NEW merged \in Seq(H), NEW hits \in Seq(H)
    PROVE  Folded(Unseen, merged, hits) \in Seq(H)
<1> DEFINE k == Len(hits)
           By(f) == f = [n \in 0..Len(hits) |-> IF n = 0 THEN merged ELSE Unseen(f[n - 1], hits[n])]
           after == CHOOSE f : By(f)
           D == [n \in 0..k |-> Seq(H)]
           G == [n \in 1..k |-> [x \in D[n - 1] |-> Unseen(x, hits[n])]]
<1>1. k \in Nat
  OBVIOUS
<1>2. merged \in D[0]
  BY <1>1
<1>3. \A n \in 1..k : \A x \in D[n - 1] : Unseen(x, hits[n]) \in D[n]
  <2> SUFFICES ASSUME NEW n \in 1..k, NEW x \in Seq(H) PROVE Unseen(x, hits[n]) \in Seq(H)
    BY <1>1
  <2> QED BY DEF Unseen
<1>4. PICK f : IsLoop(f, k, merged, G, D)
  <2>1. \A n \in 1..k : \A x \in D[n - 1] : G[n][x] \in D[n]
    BY <1>3
  <2> HIDE DEF D, G, k
  <2> QED BY <1>1, <1>2, <2>1, LoopExists
<1>5. By(f)
  <2>1. \A n \in 1..k : f[n - 1] \in D[n - 1]
    <3> HIDE DEF D, G
    <3> QED BY <1>1, <1>4 DEF IsLoop
  <2>2. \A n \in 1..k : G[n][f[n - 1]] = Unseen(f[n - 1], hits[n])
    <3> HIDE DEF D
    <3> QED BY <2>1
  <2> HIDE DEF D, G
  <2>3. f = [n \in 0..k |-> f[n]] /\ f[0] = merged /\ \A n \in 1..k : f[n] = G[n][f[n - 1]]
    BY <1>4 DEF IsLoop
  <2> HIDE DEF k
  <2>4. \A n \in 1..k : f[n] = Unseen(f[n - 1], hits[n])
    BY <2>2, <2>3
  <2>5. \A n \in 0..k : n # 0 => n \in 1..k
    BY <1>1
  <2>6. f = [n \in 0..k |-> IF n = 0 THEN merged ELSE Unseen(f[n - 1], hits[n])]
    BY <2>3, <2>4, <2>5
  <2> QED BY <2>6 DEF k
<1>6. By(after)
  <2> HIDE DEF By
  <2> QED BY <1>5
<1>7. after[0] = merged /\ \A n \in 1..k : after[n] = Unseen(after[n - 1], hits[n])
  <2> HIDE DEF after
  <2>1. \A n \in 0..k : after[n] = IF n = 0 THEN merged ELSE Unseen(after[n - 1], hits[n])
    BY <1>6
  <2>2. 0 \in 0..k /\ \A n \in 1..k : n \in 0..k /\ n # 0
    BY <1>1
  <2> HIDE DEF k
  <2> QED BY <2>1, <2>2
<1>8. after[k] \in D[k]
  <2> HIDE DEF after, D, k
  <2>1. after[0] \in D[0] /\ \A n \in 1..k : after[n - 1] \in D[n - 1] => after[n] \in D[n]
    BY <1>2, <1>3, <1>7
  <2> QED BY <1>1, <2>1, LoopStays
<1>9. Folded(Unseen, merged, hits) = after[k]
  BY DEF Folded
<1> HIDE DEF after, By
<1> QED BY <1>1, <1>8, <1>9

LEMMA MergedWithin ==
    ASSUME NEW H, NEW results, Len(results) \in Nat,
           \A q \in 1..Len(results) : results[q].hits \in Seq(H)
    PROVE  Merged(results) \in Seq(H)
<1> DEFINE k == Len(results)
           By(f) == f = [n \in 0..Len(results) |-> IF n = 0 THEN <<>> ELSE Collected(f[n - 1], results[n])]
           after == CHOOSE f : By(f)
           D == [n \in 0..k |-> Seq(H)]
           G == [n \in 1..k |-> [x \in D[n - 1] |-> Collected(x, results[n])]]
<1>1. k \in Nat
  OBVIOUS
<1>2. <<>> \in D[0]
  BY <1>1
<1>3. \A n \in 1..k : \A x \in D[n - 1] : Collected(x, results[n]) \in D[n]
  <2> SUFFICES ASSUME NEW n \in 1..k, NEW x \in Seq(H) PROVE Collected(x, results[n]) \in Seq(H)
    BY <1>1
  <2> QED BY UnseenWithin DEF Collected
<1>4. PICK f : IsLoop(f, k, <<>>, G, D)
  <2>1. \A n \in 1..k : \A x \in D[n - 1] : G[n][x] \in D[n]
    BY <1>3
  <2> HIDE DEF D, G, k
  <2> QED BY <1>1, <1>2, <2>1, LoopExists
<1>5. By(f)
  <2>1. \A n \in 1..k : f[n - 1] \in D[n - 1]
    <3> HIDE DEF D, G
    <3> QED BY <1>1, <1>4 DEF IsLoop
  <2>2. \A n \in 1..k : G[n][f[n - 1]] = Collected(f[n - 1], results[n])
    <3> HIDE DEF D
    <3> QED BY <2>1
  <2> HIDE DEF D, G
  <2>3. f = [n \in 0..k |-> f[n]] /\ f[0] = <<>> /\ \A n \in 1..k : f[n] = G[n][f[n - 1]]
    BY <1>4 DEF IsLoop
  <2> HIDE DEF k
  <2>4. \A n \in 1..k : f[n] = Collected(f[n - 1], results[n])
    BY <2>2, <2>3
  <2>5. \A n \in 0..k : n # 0 => n \in 1..k
    BY <1>1
  <2>6. f = [n \in 0..k |-> IF n = 0 THEN <<>> ELSE Collected(f[n - 1], results[n])]
    BY <2>3, <2>4, <2>5
  <2> QED BY <2>6 DEF k
<1>6. By(after)
  <2> HIDE DEF By
  <2> QED BY <1>5
<1>7. after[0] = <<>> /\ \A n \in 1..k : after[n] = Collected(after[n - 1], results[n])
  <2> HIDE DEF after
  <2>1. \A n \in 0..k : after[n] = IF n = 0 THEN <<>> ELSE Collected(after[n - 1], results[n])
    BY <1>6
  <2>2. 0 \in 0..k /\ \A n \in 1..k : n \in 0..k /\ n # 0
    BY <1>1
  <2> HIDE DEF k
  <2> QED BY <2>1, <2>2
<1>8. after[k] \in D[k]
  <2> HIDE DEF after, D, k
  <2>1. after[0] \in D[0] /\ \A n \in 1..k : after[n - 1] \in D[n - 1] => after[n] \in D[n]
    BY <1>2, <1>3, <1>7
  <2> QED BY <1>1, <2>1, LoopStays
<1>9. Merged(results) = after[k]
  BY DEF Merged, Folded
<1> HIDE DEF after, By
<1> QED BY <1>1, <1>8, <1>9

Pieces(E) == {p \in [element : E, from : Nat, to : Nat] : p.from <= p.to}

LEMMA LengthType ==
    ASSUME NEW E, NEW text \in Seq(Pieces(E))
    PROVE  Length(text) \in Nat
<1> DEFINE k == Len(text)
           By(f) == f = [n \in 0..Len(text) |-> IF n = 0 THEN 0 ELSE Longer(f[n - 1], text[n])]
           after == CHOOSE f : By(f)
           D == [n \in 0..k |-> Nat]
           G == [n \in 1..k |-> [x \in D[n - 1] |-> Longer(x, text[n])]]
<1>1. k \in Nat
  OBVIOUS
<1>2. 0 \in D[0]
  BY <1>1
<1>3. \A n \in 1..k : \A x \in D[n - 1] : Longer(x, text[n]) \in D[n]
  <2> SUFFICES ASSUME NEW n \in 1..k, NEW x \in Nat PROVE Longer(x, text[n]) \in Nat
    BY <1>1
  <2>1. text[n].from \in Nat /\ text[n].to \in Nat /\ text[n].from <= text[n].to
    BY DEF Pieces
  <2> HIDE DEF k
  <2> QED BY <2>1 DEF Longer
<1>4. PICK f : IsLoop(f, k, 0, G, D)
  <2>1. \A n \in 1..k : \A x \in D[n - 1] : G[n][x] \in D[n]
    BY <1>3
  <2> HIDE DEF D, G, k
  <2> QED BY <1>1, <1>2, <2>1, LoopExists
<1>5. By(f)
  <2>1. \A n \in 1..k : f[n - 1] \in D[n - 1]
    <3> HIDE DEF D, G
    <3> QED BY <1>1, <1>4 DEF IsLoop
  <2>2. \A n \in 1..k : G[n][f[n - 1]] = Longer(f[n - 1], text[n])
    <3> HIDE DEF D
    <3> QED BY <2>1
  <2> HIDE DEF D, G
  <2>3. f = [n \in 0..k |-> f[n]] /\ f[0] = 0 /\ \A n \in 1..k : f[n] = G[n][f[n - 1]]
    BY <1>4 DEF IsLoop
  <2> HIDE DEF k
  <2>4. \A n \in 1..k : f[n] = Longer(f[n - 1], text[n])
    BY <2>2, <2>3
  <2>5. \A n \in 0..k : n # 0 => n \in 1..k
    BY <1>1
  <2>6. f = [n \in 0..k |-> IF n = 0 THEN 0 ELSE Longer(f[n - 1], text[n])]
    BY <2>3, <2>4, <2>5
  <2> QED BY <2>6 DEF k
<1>6. By(after)
  <2> HIDE DEF By
  <2> QED BY <1>5
<1>7. after[0] = 0 /\ \A n \in 1..k : after[n] = Longer(after[n - 1], text[n])
  <2> HIDE DEF after
  <2>1. \A n \in 0..k : after[n] = IF n = 0 THEN 0 ELSE Longer(after[n - 1], text[n])
    BY <1>6
  <2>2. 0 \in 0..k /\ \A n \in 1..k : n \in 0..k /\ n # 0
    BY <1>1
  <2> HIDE DEF k
  <2> QED BY <2>1, <2>2
<1>8. after[k] \in D[k]
  <2> HIDE DEF after, D, k
  <2>1. after[0] \in D[0] /\ \A n \in 1..k : after[n - 1] \in D[n - 1] => after[n] \in D[n]
    BY <1>2, <1>3, <1>7
  <2> QED BY <1>1, <2>1, LoopStays
<1>9. Length(text) = after[k]
  BY DEF Length, Folded
<1> HIDE DEF after, By
<1> QED BY <1>1, <1>8, <1>9

LEMMA MinOfTwo ==
    ASSUME NEW a \in Int, NEW b \in Int
    PROVE  Min({a, b}) \in Int /\ Min({a, b}) <= a /\ Min({a, b}) <= b /\ Min({a, b}) \in {a, b}
<1>1. \E x \in {a, b} : \A y \in {a, b} : x <= y
  OBVIOUS
<1> QED BY <1>1 DEF Min

(* A block is evidence and nothing else is.                                *)
Built(H) ==
    {b \in [blocks : Seq(H), included : Seq(H), remaining : Int, full : BOOLEAN] : b.blocks = b.included}

LEMMA AddBlockWithin ==
    ASSUME NEW H, NEW b \in Built(H), NEW hit \in H,
           Length(ChunkOf(hit.document, hit.version, hit.number).text) \in Nat
    PROVE  AddBlock(b, hit) \in Built(H)
<1> DEFINE room == b.remaining - HeaderSize
           size == Length(ChunkOf(hit.document, hit.version, hit.number).text)
<1>1. room \in Int /\ Min({size, room}) \in Int
  <2>1. room \in Int /\ size \in Int
    BY SearchAssumption DEF Built
  <2> HIDE DEF room, size
  <2> QED BY <2>1, MinOfTwo
<1>2. room - Min({size, room}) \in Int
  BY <1>1
<1>3. AddBlock(b, hit) = IF b.full \/ room <= 0 THEN [b EXCEPT !.full = TRUE]
                         ELSE [b EXCEPT !.blocks = Append(@, hit), !.included = Append(@, hit),
                                        !.remaining = room - Min({size, room})]
  BY DEF AddBlock
<1> HIDE DEF room, size
<1>4. Append(b.blocks, hit) \in Seq(H) /\ b.included = b.blocks /\ b.blocks \in Seq(H)
  BY DEF Built
<1> QED BY <1>2, <1>3, <1>4 DEF Built

LEMMA BuildWithin ==
    ASSUME NEW H, NEW merged \in Seq(H),
           \A hit \in H : Length(ChunkOf(hit.document, hit.version, hit.number).text) \in Nat
    PROVE  Build(merged) \in Built(H)
<1> DEFINE empty == [blocks |-> <<>>, included |-> <<>>, remaining |-> MaxCharacters, full |-> FALSE]
<1>a. empty \in Built(H)
  BY SearchAssumption DEF Built
<1>b. Build(merged) = Folded(AddBlock, empty, merged)
  BY DEF Build
<1> HIDE DEF empty
<1> DEFINE k == Len(merged)
           By(f) == f = [n \in 0..Len(merged) |-> IF n = 0 THEN empty ELSE AddBlock(f[n - 1], merged[n])]
           after == CHOOSE f : By(f)
           D == [n \in 0..k |-> Built(H)]
           G == [n \in 1..k |-> [x \in D[n - 1] |-> AddBlock(x, merged[n])]]
<1>1. k \in Nat
  OBVIOUS
<1>2. empty \in D[0]
  BY <1>1, <1>a
<1>3. \A n \in 1..k : \A x \in D[n - 1] : AddBlock(x, merged[n]) \in D[n]
  <2> SUFFICES ASSUME NEW n \in 1..k, NEW x \in Built(H) PROVE AddBlock(x, merged[n]) \in Built(H)
    BY <1>1
  <2>1. merged[n] \in H
    OBVIOUS
  <2> HIDE DEF k
  <2> QED BY <2>1, AddBlockWithin
<1>4. PICK f : IsLoop(f, k, empty, G, D)
  <2>1. \A n \in 1..k : \A x \in D[n - 1] : G[n][x] \in D[n]
    BY <1>3
  <2> HIDE DEF D, G, k
  <2> QED BY <1>1, <1>2, <2>1, LoopExists
<1>5. By(f)
  <2>1. \A n \in 1..k : f[n - 1] \in D[n - 1]
    <3> HIDE DEF D, G
    <3> QED BY <1>1, <1>4 DEF IsLoop
  <2>2. \A n \in 1..k : G[n][f[n - 1]] = AddBlock(f[n - 1], merged[n])
    <3> HIDE DEF D
    <3> QED BY <2>1
  <2> HIDE DEF D, G
  <2>3. f = [n \in 0..k |-> f[n]] /\ f[0] = empty /\ \A n \in 1..k : f[n] = G[n][f[n - 1]]
    BY <1>4 DEF IsLoop
  <2> HIDE DEF k
  <2>4. \A n \in 1..k : f[n] = AddBlock(f[n - 1], merged[n])
    BY <2>2, <2>3
  <2>5. \A n \in 0..k : n # 0 => n \in 1..k
    BY <1>1
  <2>6. f = [n \in 0..k |-> IF n = 0 THEN empty ELSE AddBlock(f[n - 1], merged[n])]
    BY <2>3, <2>4, <2>5
  <2> QED BY <2>6 DEF k
<1>6. By(after)
  <2> HIDE DEF By
  <2> QED BY <1>5
<1>7. after[0] = empty /\ \A n \in 1..k : after[n] = AddBlock(after[n - 1], merged[n])
  <2> HIDE DEF after
  <2>1. \A n \in 0..k : after[n] = IF n = 0 THEN empty ELSE AddBlock(after[n - 1], merged[n])
    BY <1>6
  <2>2. 0 \in 0..k /\ \A n \in 1..k : n \in 0..k /\ n # 0
    BY <1>1
  <2> HIDE DEF k
  <2> QED BY <2>1, <2>2
<1>8. after[k] \in D[k]
  <2> HIDE DEF after, D, k
  <2>1. after[0] \in D[0] /\ \A n \in 1..k : after[n - 1] \in D[n - 1] => after[n] \in D[n]
    BY <1>2, <1>3, <1>7
  <2> QED BY <1>1, <2>1, LoopStays
<1>9. Folded(AddBlock, empty, merged) = after[k]
  BY DEF Folded
<1> HIDE DEF after, By
<1> QED BY <1>1, <1>8, <1>9, <1>b

-----------------------------------------------------------------------------
(* References *)

OneEach(a) == \A i, j \in DOMAIN a : a[i] = a[j] => i = j
Extends(a, known) == Len(known) <= Len(a) /\ \A i \in 1..Len(known) : a[i] = known[i]

LEMMA AssignExtends ==
    ASSUME NEW I, NEW a \in Seq(I), OneEach(a), NEW identity \in I
    PROVE  /\ Assign(a, identity) \in Seq(I) /\ OneEach(Assign(a, identity))
           /\ Extends(Assign(a, identity), a) /\ identity \in Range(Assign(a, identity))
<1>1. CASE identity \in Range(a)
  BY <1>1 DEF Assign, Extends
<1>2. CASE identity \notin Range(a)
  <2> DEFINE b == Append(a, identity)
  <2>1. Assign(a, identity) = b
    BY <1>2 DEF Assign
  <2>2. b \in Seq(I) /\ Len(b) = Len(a) + 1 /\ b[Len(a) + 1] = identity /\ Len(a) \in Nat
        /\ \A i \in 1..Len(a) : b[i] = a[i]
    OBVIOUS
  <2> HIDE DEF b
  <2>3. DOMAIN b = 1..(Len(a) + 1) /\ DOMAIN a = 1..Len(a)
    BY <2>2
  <2>4. OneEach(b)
    <3> SUFFICES ASSUME NEW i \in 1..(Len(a) + 1), NEW j \in 1..(Len(a) + 1), b[i] = b[j] PROVE i = j
      BY <2>3 DEF OneEach
    <3>1. \A n \in 1..Len(a) : a[n] # identity
      BY <1>2, <2>3 DEF Range
    <3>2. CASE i \in 1..Len(a) /\ j \in 1..Len(a)
      BY <2>2, <2>3, <3>2 DEF OneEach
    <3>3. CASE i = Len(a) + 1 /\ j \in 1..Len(a)
      BY <2>2, <3>1, <3>3
    <3>4. CASE j = Len(a) + 1 /\ i \in 1..Len(a)
      BY <2>2, <3>1, <3>4
    <3> QED BY <2>2, <3>2, <3>3, <3>4
  <2>5. identity \in Range(b)
    BY <2>2, <2>3 DEF Range
  <2> QED BY <2>1, <2>2, <2>4, <2>5 DEF Extends
<1> QED BY <1>1, <1>2

(* However many identities are asked for, each has one reference in the    *)
(* end, and those that had one before keep it.                             *)
Assignments(I, known, ids, n) ==
    {a \in Seq(I) : OneEach(a) /\ Extends(a, known) /\ \A m \in 1..n : ids[m] \in Range(a)}

LEMMA AssignAll ==
    ASSUME NEW I, NEW known \in Seq(I), OneEach(known), NEW ids \in Seq(I)
    PROVE  Folded(Assign, known, ids) \in Assignments(I, known, ids, Len(ids))
<1> DEFINE k == Len(ids)
           By(f) == f = [n \in 0..Len(ids) |-> IF n = 0 THEN known ELSE Assign(f[n - 1], ids[n])]
           after == CHOOSE f : By(f)
           D == [n \in 0..k |-> Assignments(I, known, ids, n)]
           G == [n \in 1..k |-> [x \in D[n - 1] |-> Assign(x, ids[n])]]
<1>1. k \in Nat
  OBVIOUS
<1>2. known \in D[0]
  <2>1. Extends(known, known)
    BY DEF Extends
  <2> QED BY <1>1, <2>1 DEF Assignments
<1>3. \A n \in 1..k : \A x \in D[n - 1] : Assign(x, ids[n]) \in D[n]
  <2> SUFFICES ASSUME NEW n \in 1..k, NEW x \in Assignments(I, known, ids, n - 1)
               PROVE  Assign(x, ids[n]) \in Assignments(I, known, ids, n)
    BY <1>1
  <2>1. ids[n] \in I /\ x \in Seq(I) /\ OneEach(x) /\ Extends(x, known)
        /\ \A m \in 1..(n - 1) : ids[m] \in Range(x)
    BY DEF Assignments
  <2> DEFINE y == Assign(x, ids[n])
  <2>2. y \in Seq(I) /\ OneEach(y) /\ Extends(y, x) /\ ids[n] \in Range(y)
    BY <2>1, AssignExtends
  <2> HIDE DEF y, k
  <2>3. Extends(y, known)
    <3>1. Len(x) \in Nat /\ Len(y) \in Nat /\ Len(known) \in Nat
      BY <2>1, <2>2
    <3> QED BY <2>1, <2>2, <3>1 DEF Extends
  <2>4. \A e \in Range(x) : e \in Range(y)
    <3> SUFFICES ASSUME NEW i \in DOMAIN x PROVE x[i] \in Range(y)
      BY DEF Range
    <3>1. DOMAIN x = 1..Len(x) /\ DOMAIN y = 1..Len(y) /\ Len(x) \in Nat /\ Len(y) \in Nat
      BY <2>1, <2>2
    <3>2. i \in DOMAIN y /\ y[i] = x[i]
      BY <2>2, <3>1 DEF Extends
    <3> QED BY <3>2 DEF Range
  <2>5. \A m \in 1..n : ids[m] \in Range(y)
    <3> SUFFICES ASSUME NEW m \in 1..n PROVE ids[m] \in Range(y)
      OBVIOUS
    <3>1. m = n \/ m \in 1..(n - 1)
      BY <1>1
    <3> QED BY <2>1, <2>2, <2>4, <3>1
  <2> QED BY <2>2, <2>3, <2>5 DEF Assignments, y
<1>4. PICK f : IsLoop(f, k, known, G, D)
  <2>1. \A n \in 1..k : \A x \in D[n - 1] : G[n][x] \in D[n]
    BY <1>3
  <2> HIDE DEF D, G, k
  <2> QED BY <1>1, <1>2, <2>1, LoopExists
<1>5. By(f)
  <2>1. \A n \in 1..k : f[n - 1] \in D[n - 1]
    <3> HIDE DEF D, G
    <3> QED BY <1>1, <1>4 DEF IsLoop
  <2>2. \A n \in 1..k : G[n][f[n - 1]] = Assign(f[n - 1], ids[n])
    <3> HIDE DEF D
    <3> QED BY <2>1
  <2> HIDE DEF D, G
  <2>3. f = [n \in 0..k |-> f[n]] /\ f[0] = known /\ \A n \in 1..k : f[n] = G[n][f[n - 1]]
    BY <1>4 DEF IsLoop
  <2> HIDE DEF k
  <2>4. \A n \in 1..k : f[n] = Assign(f[n - 1], ids[n])
    BY <2>2, <2>3
  <2>5. \A n \in 0..k : n # 0 => n \in 1..k
    BY <1>1
  <2>6. f = [n \in 0..k |-> IF n = 0 THEN known ELSE Assign(f[n - 1], ids[n])]
    BY <2>3, <2>4, <2>5
  <2> QED BY <2>6 DEF k
<1>6. By(after)
  <2> HIDE DEF By
  <2> QED BY <1>5
<1>7. after[0] = known /\ \A n \in 1..k : after[n] = Assign(after[n - 1], ids[n])
  <2> HIDE DEF after
  <2>1. \A n \in 0..k : after[n] = IF n = 0 THEN known ELSE Assign(after[n - 1], ids[n])
    BY <1>6
  <2>2. 0 \in 0..k /\ \A n \in 1..k : n \in 0..k /\ n # 0
    BY <1>1
  <2> HIDE DEF k
  <2> QED BY <2>1, <2>2
<1>8. after[k] \in D[k]
  <2> HIDE DEF after, D, k
  <2>1. after[0] \in D[0] /\ \A n \in 1..k : after[n - 1] \in D[n - 1] => after[n] \in D[n]
    BY <1>2, <1>3, <1>7
  <2> QED BY <1>1, <2>1, LoopStays
<1>9. Folded(Assign, known, ids) = after[k]
  BY DEF Folded
<1> HIDE DEF after, By
<1> QED BY <1>1, <1>8, <1>9

-----------------------------------------------------------------------------
(* Evidence by reference *)

(* Hits of H under references of R, each pair one of M.                    *)
Sources(R, H, M) ==
    {known \in UNION {[S -> H] : S \in SUBSET R} : \A r \in DOMAIN known : <<r, known[r]>> \in M}

LEMMA KeptWithin ==
    ASSUME NEW R, NEW H, NEW M, NEW known \in Sources(R, H, M),
           NEW source, source.reference \in R, source.hit \in H, <<source.reference, source.hit>> \in M
    PROVE  Kept(known, source) \in Sources(R, H, M)
<1>1. known \in [DOMAIN known -> H] /\ DOMAIN known \subseteq R
      /\ \A r \in DOMAIN known : <<r, known[r]>> \in M
  BY DEF Sources
<1> DEFINE next == [r \in DOMAIN known \cup {source.reference} |->
                       IF r = source.reference THEN source.hit ELSE known[r]]
<1>2. next \in Sources(R, H, M)
  <2>1. DOMAIN next \in SUBSET R /\ next \in [DOMAIN next -> H]
    BY <1>1
  <2>2. \A r \in DOMAIN next : <<r, next[r]>> \in M
    BY <1>1
  <2> HIDE DEF next
  <2> QED BY <2>1, <2>2 DEF Sources
<1>3. Kept(known, source) = next \/ Kept(known, source) = known
  BY DEF Kept
<1> HIDE DEF next
<1> QED BY <1>2, <1>3

LEMMA KeptAll ==
    ASSUME NEW R, NEW H, NEW M, NEW known \in Sources(R, H, M), NEW sources, Len(sources) \in Nat,
           \A n \in 1..Len(sources) : /\ sources[n].reference \in R /\ sources[n].hit \in H
                                      /\ <<sources[n].reference, sources[n].hit>> \in M
    PROVE  Folded(Kept, known, sources) \in Sources(R, H, M)
<1> DEFINE k == Len(sources)
           By(f) == f = [n \in 0..Len(sources) |-> IF n = 0 THEN known ELSE Kept(f[n - 1], sources[n])]
           after == CHOOSE f : By(f)
           D == [n \in 0..k |-> Sources(R, H, M)]
           G == [n \in 1..k |-> [x \in D[n - 1] |-> Kept(x, sources[n])]]
<1>1. k \in Nat
  OBVIOUS
<1>2. known \in D[0]
  BY <1>1
<1>3. \A n \in 1..k : \A x \in D[n - 1] : Kept(x, sources[n]) \in D[n]
  <2> SUFFICES ASSUME NEW n \in 1..k, NEW x \in Sources(R, H, M)
               PROVE  Kept(x, sources[n]) \in Sources(R, H, M)
    BY <1>1
  <2> QED BY KeptWithin
<1>4. PICK f : IsLoop(f, k, known, G, D)
  <2>1. \A n \in 1..k : \A x \in D[n - 1] : G[n][x] \in D[n]
    BY <1>3
  <2> HIDE DEF D, G, k
  <2> QED BY <1>1, <1>2, <2>1, LoopExists
<1>5. By(f)
  <2>1. \A n \in 1..k : f[n - 1] \in D[n - 1]
    <3> HIDE DEF D, G
    <3> QED BY <1>1, <1>4 DEF IsLoop
  <2>2. \A n \in 1..k : G[n][f[n - 1]] = Kept(f[n - 1], sources[n])
    <3> HIDE DEF D
    <3> QED BY <2>1
  <2> HIDE DEF D, G
  <2>3. f = [n \in 0..k |-> f[n]] /\ f[0] = known /\ \A n \in 1..k : f[n] = G[n][f[n - 1]]
    BY <1>4 DEF IsLoop
  <2> HIDE DEF k
  <2>4. \A n \in 1..k : f[n] = Kept(f[n - 1], sources[n])
    BY <2>2, <2>3
  <2>5. \A n \in 0..k : n # 0 => n \in 1..k
    BY <1>1
  <2>6. f = [n \in 0..k |-> IF n = 0 THEN known ELSE Kept(f[n - 1], sources[n])]
    BY <2>3, <2>4, <2>5
  <2> QED BY <2>6 DEF k
<1>6. By(after)
  <2> HIDE DEF By
  <2> QED BY <1>5
<1>7. after[0] = known /\ \A n \in 1..k : after[n] = Kept(after[n - 1], sources[n])
  <2> HIDE DEF after
  <2>1. \A n \in 0..k : after[n] = IF n = 0 THEN known ELSE Kept(after[n - 1], sources[n])
    BY <1>6
  <2>2. 0 \in 0..k /\ \A n \in 1..k : n \in 0..k /\ n # 0
    BY <1>1
  <2> HIDE DEF k
  <2> QED BY <2>1, <2>2
<1>8. after[k] \in D[k]
  <2> HIDE DEF after, D, k
  <2>1. after[0] \in D[0] /\ \A n \in 1..k : after[n - 1] \in D[n - 1] => after[n] \in D[n]
    BY <1>2, <1>3, <1>7
  <2> QED BY <1>1, <2>1, LoopStays
<1>9. Folded(Kept, known, sources) = after[k]
  BY DEF Folded
<1> HIDE DEF after, By
<1> QED BY <1>1, <1>8, <1>9

LEMMA KeptOfAll ==
    ASSUME NEW R, NEW H, NEW M, NEW known \in Sources(R, H, M), NEW round, Len(round) \in Nat,
           \A c \in 1..Len(round) :
                /\ Len(round[c].evidence) \in Nat
                /\ \A n \in 1..Len(round[c].evidence) :
                        LET source == round[c].evidence[n]
                        IN  /\ source.reference \in R /\ source.hit \in H
                            /\ <<source.reference, source.hit>> \in M
    PROVE  Folded(KeptOf, known, round) \in Sources(R, H, M)
<1> DEFINE k == Len(round)
           By(f) == f = [n \in 0..Len(round) |-> IF n = 0 THEN known ELSE KeptOf(f[n - 1], round[n])]
           after == CHOOSE f : By(f)
           D == [n \in 0..k |-> Sources(R, H, M)]
           G == [n \in 1..k |-> [x \in D[n - 1] |-> KeptOf(x, round[n])]]
<1>1. k \in Nat
  OBVIOUS
<1>2. known \in D[0]
  BY <1>1
<1>3. \A n \in 1..k : \A x \in D[n - 1] : KeptOf(x, round[n]) \in D[n]
  <2> SUFFICES ASSUME NEW n \in 1..k, NEW x \in Sources(R, H, M)
               PROVE  KeptOf(x, round[n]) \in Sources(R, H, M)
    BY <1>1
  <2> QED BY KeptAll DEF KeptOf
<1>4. PICK f : IsLoop(f, k, known, G, D)
  <2>1. \A n \in 1..k : \A x \in D[n - 1] : G[n][x] \in D[n]
    BY <1>3
  <2> HIDE DEF D, G, k
  <2> QED BY <1>1, <1>2, <2>1, LoopExists
<1>5. By(f)
  <2>1. \A n \in 1..k : f[n - 1] \in D[n - 1]
    <3> HIDE DEF D, G
    <3> QED BY <1>1, <1>4 DEF IsLoop
  <2>2. \A n \in 1..k : G[n][f[n - 1]] = KeptOf(f[n - 1], round[n])
    <3> HIDE DEF D
    <3> QED BY <2>1
  <2> HIDE DEF D, G
  <2>3. f = [n \in 0..k |-> f[n]] /\ f[0] = known /\ \A n \in 1..k : f[n] = G[n][f[n - 1]]
    BY <1>4 DEF IsLoop
  <2> HIDE DEF k
  <2>4. \A n \in 1..k : f[n] = KeptOf(f[n - 1], round[n])
    BY <2>2, <2>3
  <2>5. \A n \in 0..k : n # 0 => n \in 1..k
    BY <1>1
  <2>6. f = [n \in 0..k |-> IF n = 0 THEN known ELSE KeptOf(f[n - 1], round[n])]
    BY <2>3, <2>4, <2>5
  <2> QED BY <2>6 DEF k
<1>6. By(after)
  <2> HIDE DEF By
  <2> QED BY <1>5
<1>7. after[0] = known /\ \A n \in 1..k : after[n] = KeptOf(after[n - 1], round[n])
  <2> HIDE DEF after
  <2>1. \A n \in 0..k : after[n] = IF n = 0 THEN known ELSE KeptOf(after[n - 1], round[n])
    BY <1>6
  <2>2. 0 \in 0..k /\ \A n \in 1..k : n \in 0..k /\ n # 0
    BY <1>1
  <2> HIDE DEF k
  <2> QED BY <2>1, <2>2
<1>8. after[k] \in D[k]
  <2> HIDE DEF after, D, k
  <2>1. after[0] \in D[0] /\ \A n \in 1..k : after[n - 1] \in D[n - 1] => after[n] \in D[n]
    BY <1>2, <1>3, <1>7
  <2> QED BY <1>1, <2>1, LoopStays
<1>9. Folded(KeptOf, known, round) = after[k]
  BY DEF Folded
<1> HIDE DEF after, By
<1> QED BY <1>1, <1>8, <1>9

(* What a round asks.                                                      *)
LEMMA SumType ==
    ASSUME NEW asked \in Seq(Nat)
    PROVE  Folded(+, 0, asked) \in Nat
<1> DEFINE k == Len(asked)
           By(f) == f = [n \in 0..Len(asked) |-> IF n = 0 THEN 0 ELSE f[n - 1] + asked[n]]
           after == CHOOSE f : By(f)
           D == [n \in 0..k |-> Nat]
           G == [n \in 1..k |-> [x \in D[n - 1] |-> x + asked[n]]]
<1>1. k \in Nat
  OBVIOUS
<1>2. 0 \in D[0]
  BY <1>1
<1>3. \A n \in 1..k : \A x \in D[n - 1] : x + asked[n] \in D[n]
  <2> SUFFICES ASSUME NEW n \in 1..k, NEW x \in Nat PROVE x + asked[n] \in Nat
    BY <1>1
  <2> QED OBVIOUS
<1>4. PICK f : IsLoop(f, k, 0, G, D)
  <2>1. \A n \in 1..k : \A x \in D[n - 1] : G[n][x] \in D[n]
    BY <1>3
  <2> HIDE DEF D, G, k
  <2> QED BY <1>1, <1>2, <2>1, LoopExists
<1>5. By(f)
  <2>1. \A n \in 1..k : f[n - 1] \in D[n - 1]
    <3> HIDE DEF D, G
    <3> QED BY <1>1, <1>4 DEF IsLoop
  <2>2. \A n \in 1..k : G[n][f[n - 1]] = f[n - 1] + asked[n]
    <3> HIDE DEF D
    <3> QED BY <2>1
  <2> HIDE DEF D, G
  <2>3. f = [n \in 0..k |-> f[n]] /\ f[0] = 0 /\ \A n \in 1..k : f[n] = G[n][f[n - 1]]
    BY <1>4 DEF IsLoop
  <2> HIDE DEF k
  <2>4. \A n \in 1..k : f[n] = f[n - 1] + asked[n]
    BY <2>2, <2>3
  <2>5. \A n \in 0..k : n # 0 => n \in 1..k
    BY <1>1
  <2>6. f = [n \in 0..k |-> IF n = 0 THEN 0 ELSE f[n - 1] + asked[n]]
    BY <2>3, <2>4, <2>5
  <2> QED BY <2>6 DEF k
<1>6. By(after)
  <2> HIDE DEF By
  <2> QED BY <1>5
<1>7. after[0] = 0 /\ \A n \in 1..k : after[n] = after[n - 1] + asked[n]
  <2> HIDE DEF after
  <2>1. \A n \in 0..k : after[n] = IF n = 0 THEN 0 ELSE after[n - 1] + asked[n]
    BY <1>6
  <2>2. 0 \in 0..k /\ \A n \in 1..k : n \in 0..k /\ n # 0
    BY <1>1
  <2> HIDE DEF k
  <2> QED BY <2>1, <2>2
<1>8. after[k] \in D[k]
  <2> HIDE DEF after, D, k
  <2>1. after[0] \in D[0] /\ \A n \in 1..k : after[n - 1] \in D[n - 1] => after[n] \in D[n]
    BY <1>2, <1>3, <1>7
  <2> QED BY <1>1, <2>1, LoopStays
<1> SUFFICES after[k] \in Nat
  BY DEF Folded
<1> HIDE DEF after, By
<1> QED BY <1>1, <1>8

-----------------------------------------------------------------------------
(* Chunks *)

(* Products, where a solver has to be told that they grow.                 *)
LEMMA ProductGrows ==
    ASSUME NEW m \in Nat, NEW a \in Int, NEW b \in Int, a <= b
    PROVE  a * m <= b * m
<1>1. b - a \in Nat /\ (b - a) * m \in Nat
  OBVIOUS
<1>2. (b - a) * m = b * m - a * m
  OBVIOUS
<1>3. a * m \in Int /\ b * m \in Int
  OBVIOUS
<1> QED BY <1>1, <1>2, <1>3

LEMMA SplitType ==
    ASSUME NEW E, NEW item, item.size \in Nat, item.text \in E
    PROVE  Split(item) \in Seq(Pieces(E))
<1> DEFINE a == item.size + MaxTokens - 1
           count == a \div MaxTokens
           to(n) == Min({n * MaxTokens, item.size})
<1>1. a \in Nat /\ MaxTokens \in Nat /\ MaxTokens > 0
  BY MaxTokensAssumption
<1>2. count \in Nat /\ count * MaxTokens <= a
  <2> HIDE DEF a
  <2>1. a = MaxTokens * (a \div MaxTokens) + (a % MaxTokens) /\ a % MaxTokens \in Nat /\ a \div MaxTokens \in Nat
    BY <1>1
  <2>2. MaxTokens * (a \div MaxTokens) = (a \div MaxTokens) * MaxTokens
    BY <1>1, <2>1
  <2> QED BY <1>1, <2>1, <2>2
<1>3. ASSUME NEW n \in 1..count PROVE Piece(item.text, (n - 1) * MaxTokens, to(n)) \in Pieces(E)
  <2> HIDE DEF count
  <2>1. (n - 1) * MaxTokens \in Nat /\ n * MaxTokens = (n - 1) * MaxTokens + MaxTokens /\ n * MaxTokens \in Nat
    <3>1. n \in Nat /\ n - 1 \in Nat
      BY <1>2
    <3> QED BY <1>1, <3>1
  <2>2. (n - 1) * MaxTokens <= item.size
    <3>1. n * MaxTokens <= count * MaxTokens
      BY <1>1, <1>2, ProductGrows
    <3>2. count * MaxTokens \in Nat
      BY <1>1, <1>2
    <3> QED BY <1>1, <1>2, <2>1, <3>1, <3>2
  <2>3. to(n) \in Int /\ to(n) \in {n * MaxTokens, item.size}
    <3>1. n * MaxTokens \in Int /\ item.size \in Int
      BY <2>1
    <3> QED BY <3>1, MinOfTwo, Zenon
  <2>4. (n - 1) * MaxTokens <= n * MaxTokens
    BY <1>1, <2>1
  <2>5. to(n) \in Nat /\ (n - 1) * MaxTokens <= to(n)
    <3> HIDE DEF to
    <3> QED BY <2>1, <2>2, <2>3, <2>4
  <2> HIDE DEF to
  <2> QED BY <2>1, <2>5 DEF Piece, Pieces
<1>4. Split(item) = [n \in 1..count |-> Piece(item.text, (n - 1) * MaxTokens, to(n))]
  BY DEF Split
<1> HIDE DEF count, to
<1> QED BY <1>2, <1>3, <1>4

(* The chunks of an item and what becomes of them.                         *)
ElementTexts(document) == {item.text : item \in Range(document)}
Raw(document, paths) ==
    [text : Seq(Pieces(ElementTexts(document))), headings : {paths[i] : i \in DOMAIN document}]

LEMMA ConcatenatedType ==
    ASSUME NEW T, NEW seqs, Len(seqs) \in Nat, \A n \in 1..Len(seqs) : seqs[n] \in Seq(T)
    PROVE  Folded(\o, <<>>, seqs) \in Seq(T)
<1> DEFINE k == Len(seqs)
           By(f) == f = [n \in 0..Len(seqs) |-> IF n = 0 THEN <<>> ELSE f[n - 1] \o seqs[n]]
           after == CHOOSE f : By(f)
           D == [n \in 0..k |-> Seq(T)]
           G == [n \in 1..k |-> [x \in D[n - 1] |-> x \o seqs[n]]]
<1>1. k \in Nat
  OBVIOUS
<1>2. <<>> \in D[0]
  BY <1>1
<1>3. \A n \in 1..k : \A x \in D[n - 1] : x \o seqs[n] \in D[n]
  <2>1. ASSUME NEW n \in 1..k, NEW x \in Seq(T) PROVE x \o seqs[n] \in Seq(T)
    OBVIOUS
  <2>2. \A n \in 1..k : D[n - 1] = Seq(T) /\ D[n] = Seq(T)
    BY <1>1
  <2> HIDE DEF D, k
  <2> QED BY <2>1, <2>2, Zenon
<1>4. PICK f : IsLoop(f, k, <<>>, G, D)
  <2>1. \A n \in 1..k : \A x \in D[n - 1] : G[n][x] \in D[n]
    BY <1>3
  <2> HIDE DEF D, G, k
  <2> QED BY <1>1, <1>2, <2>1, LoopExists
<1>5. By(f)
  <2>1. \A n \in 1..k : f[n - 1] \in D[n - 1]
    <3> HIDE DEF D, G
    <3> QED BY <1>1, <1>4 DEF IsLoop
  <2>2. \A n \in 1..k : G[n][f[n - 1]] = f[n - 1] \o seqs[n]
    <3> HIDE DEF D
    <3> QED BY <2>1
  <2> HIDE DEF D, G
  <2>3. f = [n \in 0..k |-> f[n]] /\ f[0] = <<>> /\ \A n \in 1..k : f[n] = G[n][f[n - 1]]
    BY <1>4 DEF IsLoop
  <2> HIDE DEF k
  <2>4. \A n \in 1..k : f[n] = f[n - 1] \o seqs[n]
    BY <2>2, <2>3
  <2>5. \A n \in 0..k : n # 0 => n \in 1..k
    BY <1>1
  <2>6. f = [n \in 0..k |-> IF n = 0 THEN <<>> ELSE f[n - 1] \o seqs[n]]
    BY <2>3, <2>4, <2>5
  <2> QED BY <2>6 DEF k
<1>6. By(after)
  <2> HIDE DEF By
  <2> QED BY <1>5
<1>7. after[0] = <<>> /\ \A n \in 1..k : after[n] = after[n - 1] \o seqs[n]
  <2> HIDE DEF after
  <2>1. \A n \in 0..k : after[n] = IF n = 0 THEN <<>> ELSE after[n - 1] \o seqs[n]
    BY <1>6
  <2>2. 0 \in 0..k /\ \A n \in 1..k : n \in 0..k /\ n # 0
    BY <1>1
  <2> HIDE DEF k
  <2> QED BY <2>1, <2>2
<1>8. after[k] \in D[k]
  <2> HIDE DEF after, D, k
  <2>1. after[0] \in D[0] /\ \A n \in 1..k : after[n - 1] \in D[n - 1] => after[n] \in D[n]
    BY <1>2, <1>3, <1>7
  <2> QED BY <1>1, <2>1, LoopStays
<1> SUFFICES after[k] \in Seq(T)
  BY DEF Folded
<1> HIDE DEF after, By
<1> QED BY <1>1, <1>8

IsDocument(document) ==
    document \in Seq(Range(document)) /\ \A item \in Range(document) : item.size \in Nat

LEMMA ChunksUnderWithin ==
    ASSUME NEW document, IsDocument(document), NEW paths, NEW R,
           \A i \in DOMAIN document : \A n \in DOMAIN Split(document[i]) :
                [text |-> <<Split(document[i])[n]>>, headings |-> paths[i]] \in R
    PROVE  ChunksUnder(document, paths) \in Seq(R)
<1> DEFINE pieces(i) == Split(document[i])
           seqs == [i \in DOMAIN document |->
                       [n \in DOMAIN pieces(i) |-> [text |-> <<pieces(i)[n]>>, headings |-> paths[i]]]]
<1>1. DOMAIN document = 1..Len(document) /\ Len(document) \in Nat
  BY DEF IsDocument
<1>2. ASSUME NEW i \in DOMAIN document PROVE seqs[i] \in Seq(R)
  <2>1. document[i] \in Range(document) /\ document[i].size \in Nat
    BY DEF IsDocument, Range
  <2>2. pieces(i) \in Seq(Pieces({document[i].text}))
    BY <2>1, SplitType
  <2>3. DOMAIN pieces(i) = 1..Len(pieces(i)) /\ Len(pieces(i)) \in Nat
    <3> HIDE DEF pieces
    <3> QED BY <2>2
  <2> DEFINE row(n) == [text |-> <<pieces(i)[n]>>, headings |-> paths[i]]
  <2>4. seqs[i] = [n \in 1..Len(pieces(i)) |-> row(n)]
    BY <2>3
  <2>5. \A n \in 1..Len(pieces(i)) : row(n) \in R
    BY <2>3
  <2> HIDE DEF pieces, seqs, row
  <2> QED BY <2>3, <2>4, <2>5
<1>3. ChunksUnder(document, paths) = Folded(\o, <<>>, seqs)
  BY DEF ChunksUnder
<1>4. Len(seqs) = Len(document) /\ Len(seqs) \in Nat
  <2>1. DOMAIN seqs = 1..Len(document)
    BY <1>1
  <2>2. seqs = [i \in 1..Len(document) |-> seqs[i]]
    BY <1>1
  <2> HIDE DEF seqs
  <2> QED BY <1>1, <2>1, <2>2
<1> HIDE DEF seqs
<1> QED BY <1>1, <1>2, <1>3, <1>4, ConcatenatedType

(* Chunks are merged under the same headings only.                         *)
LEMMA HybridChunksWithin ==
    ASSUME NEW document, NEW R, ChunksUnder(document, DoclingHeadings(document)) \in Seq(R),
           \A x, y \in R : x.headings = y.headings => [y EXCEPT !.text = x.text \o y.text] \in R
    PROVE  HybridChunks(document) \in Seq(R)
<1> DEFINE small == ChunksUnder(document, DoclingHeadings(document))
<1>a. small \in Seq(R)
  OBVIOUS
<1>b. ASSUME NEW merged \in Seq(R), NEW chunk \in R PROVE MergePeers(merged, chunk) \in Seq(R)
  <2>1. CASE MergePeers(merged, chunk) = Append(merged, chunk)
    BY <1>b, <2>1
  <2> DEFINE both == [chunk EXCEPT !.text = Last(merged).text \o chunk.text]
  <2>2. CASE /\ MergePeers(merged, chunk) = Append(Front(merged), both)
             /\ merged # <<>> /\ Last(merged).headings = chunk.headings
    <3>1. Last(merged) \in R /\ Front(merged) \in Seq(R)
      <4>1. Len(merged) \in Nat /\ Len(merged) # 0
        BY <1>b, <2>2
      <4> QED BY <1>b, <4>1 DEF Last, Front
    <3>2. both \in R
      BY <1>b, <2>2, <3>1
    <3> HIDE DEF both
    <3> QED BY <2>2, <3>1, <3>2
  <2> QED BY <2>1, <2>2 DEF MergePeers
<1>c. HybridChunks(document) = Folded(MergePeers, <<>>, small)
  BY DEF HybridChunks
<1> HIDE DEF small
<1> DEFINE k == Len(small)
           By(f) == f = [n \in 0..Len(small) |-> IF n = 0 THEN <<>> ELSE MergePeers(f[n - 1], small[n])]
           after == CHOOSE f : By(f)
           D == [n \in 0..k |-> Seq(R)]
           G == [n \in 1..k |-> [x \in D[n - 1] |-> MergePeers(x, small[n])]]
<1>1. k \in Nat
  BY <1>a
<1>2. <<>> \in D[0]
  BY <1>1
<1>3. \A n \in 1..k : \A x \in D[n - 1] : MergePeers(x, small[n]) \in D[n]
  <2> SUFFICES ASSUME NEW n \in 1..k, NEW x \in Seq(R) PROVE MergePeers(x, small[n]) \in Seq(R)
    BY <1>1
  <2>1. small[n] \in R
    BY <1>a
  <2> QED BY <1>b, <2>1
<1>4. PICK f : IsLoop(f, k, <<>>, G, D)
  <2>1. \A n \in 1..k : \A x \in D[n - 1] : G[n][x] \in D[n]
    BY <1>3
  <2> HIDE DEF D, G, k
  <2> QED BY <1>1, <1>2, <2>1, LoopExists
<1>5. By(f)
  <2>1. \A n \in 1..k : f[n - 1] \in D[n - 1]
    <3> HIDE DEF D, G
    <3> QED BY <1>1, <1>4 DEF IsLoop
  <2>2. \A n \in 1..k : G[n][f[n - 1]] = MergePeers(f[n - 1], small[n])
    <3> HIDE DEF D
    <3> QED BY <2>1
  <2> HIDE DEF D, G
  <2>3. f = [n \in 0..k |-> f[n]] /\ f[0] = <<>> /\ \A n \in 1..k : f[n] = G[n][f[n - 1]]
    BY <1>4 DEF IsLoop
  <2> HIDE DEF k
  <2>4. \A n \in 1..k : f[n] = MergePeers(f[n - 1], small[n])
    BY <2>2, <2>3
  <2>5. \A n \in 0..k : n # 0 => n \in 1..k
    BY <1>1
  <2>6. f = [n \in 0..k |-> IF n = 0 THEN <<>> ELSE MergePeers(f[n - 1], small[n])]
    BY <2>3, <2>4, <2>5
  <2> QED BY <2>6 DEF k
<1>6. By(after)
  <2> HIDE DEF By
  <2> QED BY <1>5
<1>7. after[0] = <<>> /\ \A n \in 1..k : after[n] = MergePeers(after[n - 1], small[n])
  <2> HIDE DEF after
  <2>1. \A n \in 0..k : after[n] = IF n = 0 THEN <<>> ELSE MergePeers(after[n - 1], small[n])
    BY <1>6
  <2>2. 0 \in 0..k /\ \A n \in 1..k : n \in 0..k /\ n # 0
    BY <1>1
  <2> HIDE DEF k
  <2> QED BY <2>1, <2>2
<1>8. after[k] \in D[k]
  <2> HIDE DEF after, D, k
  <2>1. after[0] \in D[0] /\ \A n \in 1..k : after[n - 1] \in D[n - 1] => after[n] \in D[n]
    BY <1>2, <1>3, <1>7
  <2> QED BY <1>1, <2>1, LoopStays
<1>9. Folded(MergePeers, <<>>, small) = after[k]
  BY DEF Folded
<1> HIDE DEF after, By
<1> QED BY <1>1, <1>8, <1>9, <1>c

LEMMA ChunksUnderType ==
    ASSUME NEW document, IsDocument(document), NEW paths
    PROVE  ChunksUnder(document, paths) \in Seq(Raw(document, paths))
<1> SUFFICES ASSUME NEW i \in DOMAIN document, NEW n \in DOMAIN Split(document[i])
             PROVE  [text |-> <<Split(document[i])[n]>>, headings |-> paths[i]] \in Raw(document, paths)
  BY ChunksUnderWithin
<1> DEFINE P == Pieces(ElementTexts(document))
           pieces == Split(document[i])
<1>1. document[i].size \in Nat /\ document[i].text \in ElementTexts(document)
  BY DEF IsDocument, Range, ElementTexts
<1>2. pieces \in Seq(P)
  BY <1>1, SplitType
<1> HIDE DEF P, pieces
<1>3. <<pieces[n]>> \in Seq(P)
  BY <1>2 DEF pieces
<1> QED BY <1>3 DEF Raw, P, pieces

LEMMA HybridChunksType ==
    ASSUME NEW document, IsDocument(document)
    PROVE  HybridChunks(document) \in Seq(Raw(document, DoclingHeadings(document)))
<1> DEFINE P == Seq(Pieces(ElementTexts(document)))
           R == Raw(document, DoclingHeadings(document))
<1>1. ASSUME NEW x \in R, NEW y \in R PROVE [y EXCEPT !.text = x.text \o y.text] \in R
  <2>1. x.text \in P /\ y.text \in P
    BY DEF Raw
  <2>2. x.text \o y.text \in P
    <3> HIDE DEF R
    <3> QED BY <2>1
  <2> HIDE DEF P
  <2> QED BY <2>2 DEF Raw, P
<1> HIDE DEF R
<1> QED BY <1>1, ChunksUnderType, HybridChunksWithin DEF R

LEMMA LargestOf ==
    ASSUME NEW n \in Nat, NEW T \in SUBSET (0..n), T # {}
    PROVE  Max(T) \in T /\ \A c \in T : c <= Max(T)
<1>1. \E m \in T : \A c \in T : m >= c
  <2>1. CASE T \ {0} = {}
    <3>1. T = {0}
      BY <2>1
    <3> QED BY <3>1
  <2>2. CASE T \ {0} # {}
    <3>1. T \ {0} \in SUBSET (1..n)
      OBVIOUS
    <3>2. PICK m \in T \ {0} : \A c \in T \ {0} : c <= m
      BY <2>2, <3>1, LargestNumber
    <3> QED BY <3>1, <3>2
  <2> QED BY <2>1, <2>2
<1>2. Max(T) \in T /\ \A c \in T : Max(T) >= c
  BY <1>1 DEF Max
<1> QED BY <1>2

(* How far two paths agree.                                                *)
LEMMA CommonPrefixType ==
    ASSUME NEW A, NEW left \in Seq(A), NEW B, NEW right \in Seq(B)
    PROVE  LET common == CommonPrefix(left, right)
           IN  /\ common \in Nat /\ common <= Len(left) /\ common <= Len(right)
               /\ SubSeq(left, 1, common) = SubSeq(right, 1, common)
<1> DEFINE n == Min({Len(left), Len(right)})
           S == {m \in 0..n : SubSeq(left, 1, m) = SubSeq(right, 1, m)}
<1>1. Len(left) \in Nat /\ Len(right) \in Nat
  OBVIOUS
<1>2. n \in Nat /\ n <= Len(left) /\ n <= Len(right)
  <2>1. Len(left) \in Int /\ Len(right) \in Int
    BY <1>1
  <2>2. n \in {Len(left), Len(right)} /\ n <= Len(left) /\ n <= Len(right)
    BY <2>1, MinOfTwo, Zenon
  <2> HIDE DEF n
  <2> QED BY <1>1, <2>2
<1>3. S \in SUBSET (0..n) /\ 0 \in S
  <2> HIDE DEF n
  <2>1. SubSeq(left, 1, 0) = <<>> /\ SubSeq(right, 1, 0) = <<>>
    OBVIOUS
  <2> QED BY <1>2, <2>1
<1>4. Max(S) \in S
  <2> HIDE DEF n, S
  <2> QED BY <1>2, <1>3, LargestOf
<1>5. CommonPrefix(left, right) = Max(S)
  BY DEF CommonPrefix
<1> HIDE DEF n
<1>6. Max(S) \in 0..n /\ SubSeq(left, 1, Max(S)) = SubSeq(right, 1, Max(S))
  BY <1>4
<1> HIDE DEF S
<1> QED BY <1>1, <1>2, <1>5, <1>6

(* The items a document of parts is made of.                               *)
PartTexts(parts) ==
    {part.element : part \in Range(parts)} \cup UNION {Range(part.path) : part \in Range(parts)}
PartItems(parts) == [level : Nat, text : PartTexts(parts), size : Nat]

LEMMA TransitionType ==
    ASSUME NEW parts, NEW A, NEW active \in Seq(A), NEW part \in Range(parts),
           part.path \in Seq(Range(part.path))
    PROVE  EmitHeadingTransition(active, part.path) \in Seq(PartItems(parts))
<1> DEFINE target == part.path
           common == CommonPrefix(active, target)
           start == IF common = Len(target) /\ common < Len(active) /\ target # <<>>
                    THEN common - 1 ELSE common
<1>1. common \in Nat /\ common <= Len(target) /\ Len(target) \in Nat
  <2>1. common \in Nat /\ common <= Len(target)
    BY CommonPrefixType
  <2> HIDE DEF common
  <2> QED BY <2>1
<1>2. start \in Nat /\ start <= Len(target)
  <2> HIDE DEF common
  <2> QED BY <1>1
<1>3. ASSUME NEW i \in 1..(Len(target) - start)
      PROVE  Heading(start + i, target[start + i]) \in PartItems(parts)
  <2> HIDE DEF start, common
  <2>1. start + i \in Nat /\ start + i \in 1..Len(target)
    BY <1>1, <1>2
  <2>2. target[start + i] \in Range(target)
    BY <2>1
  <2>3. target[start + i] \in PartTexts(parts)
    BY <2>2 DEF PartTexts
  <2> HIDE DEF target
  <2> QED BY <2>1, <2>3 DEF Heading, PartItems
<1>4. EmitHeadingTransition(active, target) =
        IF target = active THEN <<>>
        ELSE [i \in 1..(Len(target) - start) |-> Heading(start + i, target[start + i])]
  BY DEF EmitHeadingTransition
<1>5. Len(target) - start \in Nat
  <2> HIDE DEF start
  <2> QED BY <1>1, <1>2
<1> HIDE DEF start, common, target
<1> DEFINE P == PartItems(parts)
           N == Len(target) - start
           row(i) == Heading(start + i, target[start + i])
<1>6. \A i \in 1..N : row(i) \in P
  BY <1>3
<1>7. EmitHeadingTransition(active, target) = IF target = active THEN <<>> ELSE [i \in 1..N |-> row(i)]
  BY <1>4
<1> HIDE DEF P, N, row
<1>8. EmitHeadingTransition(active, target) \in Seq(P)
  BY <1>5, <1>6, <1>7 DEF N
<1> QED BY <1>8 DEF P, target

IsParts(parts) ==
    /\ parts \in Seq(Range(parts))
    /\ \A part \in Range(parts) : part.path \in Seq(Range(part.path)) /\ part.size \in Nat
Paths(parts) == {<<>>} \cup {part.path : part \in Range(parts)}

-----------------------------------------------------------------------------
(* The headings over the parts of a source *)

(* The headings that lead to a section.                                    *)
Stack(path) == [n \in 1..Len(path) |-> Heading(n, path[n])]

LEMMA StackType ==
    ASSUME NEW A, NEW path \in Seq(A)
    PROVE  /\ Stack(path) \in Seq([level : Nat, text : A, size : Nat])
           /\ Len(Stack(path)) = Len(path) /\ \A n \in 1..Len(path) : Stack(path)[n] = Heading(n, path[n])
<1> DEFINE H == [level : Nat, text : A, size : Nat]
<1>1. Len(path) \in Nat /\ \A n \in 1..Len(path) : path[n] \in A
  OBVIOUS
<1>2. \A n \in 1..Len(path) : Heading(n, path[n]) \in H
  BY <1>1 DEF Heading
<1> HIDE DEF H
<1>3. Stack(path) \in [1..Len(path) -> H]
  BY <1>2 DEF Stack
<1>4. Stack(path) \in Seq(H)
  BY <1>1, <1>3, FunctionSequence
<1>5. \A n \in 1..Len(path) : Stack(path)[n] = Heading(n, path[n])
  BY DEF Stack
<1>6. Len(Stack(path)) = Len(path)
  BY <1>1, <1>3, <1>4
<1> QED BY <1>4, <1>5, <1>6 DEF H

(* A heading closes those of its own level and below.                      *)
LEMMA AboveStack ==
    ASSUME NEW A, NEW path \in Seq(A), NEW level \in Nat \ {0}, level - 1 <= Len(path)
    PROVE  Above(Stack(path), level) = level - 1
<1> DEFINE open == Stack(path)
           T == {n \in 0..Len(open) : \A m \in 1..n : open[m].level < level}
<1>1. Len(open) = Len(path) /\ Len(path) \in Nat /\ \A n \in 1..Len(path) : open[n].level = n
  <2>1. Len(open) = Len(path) /\ \A n \in 1..Len(path) : open[n] = Heading(n, path[n])
    BY StackType
  <2>2. Len(path) \in Nat /\ \A n \in 1..Len(path) : Heading(n, path[n]).level = n
    BY DEF Heading
  <2> HIDE DEF open
  <2> QED BY <2>1, <2>2
<1> HIDE DEF open
<1>2. level - 1 \in T
  BY <1>1
<1>3. \A n \in T : n <= level - 1
  <2> SUFFICES ASSUME NEW n \in T, n > level - 1 PROVE FALSE
    BY <1>1
  <2>1. level \in 1..n /\ level \in 1..Len(path)
    BY <1>1
  <2> QED BY <1>1, <2>1
<1>4. T \in SUBSET (0..Len(path)) /\ T # {}
  BY <1>1, <1>2
<1>5. Max(T) \in T /\ \A n \in T : n <= Max(T)
  <2> HIDE DEF T
  <2> QED BY <1>1, <1>4, LargestOf
<1>6. Above(open, level) = Max(T)
  BY DEF Above
<1>7. Max(T) \in Int /\ level - 1 \in Int
  BY <1>1, <1>5
<1> HIDE DEF T
<1> QED BY <1>2, <1>3, <1>5, <1>6, <1>7 DEF open

(* A heading that goes on where the path agrees with the target.           *)
LEMMA NextHeading ==
    ASSUME NEW A, NEW path \in Seq(A), NEW B, NEW target \in Seq(B), NEW j \in 1..Len(target),
           j - 1 <= Len(path), \A m \in 1..(j - 1) : path[m] = target[m]
    PROVE  NextHeadings(Stack(path), Heading(j, target[j])) = Stack(SubSeq(target, 1, j))
<1> DEFINE open == Stack(path)
           item == Heading(j, target[j])
           short == SubSeq(target, 1, j)
<1>1. j \in Nat \ {0} /\ Len(path) \in Nat /\ Len(target) \in Nat
  OBVIOUS
<1>2. ~IsBody(item) /\ item.level = j
  BY <1>1 DEF IsBody, Heading
<1>3. Above(open, j) = j - 1
  BY <1>1, AboveStack
<1>4. NextHeadings(open, item) = Append(SubSeq(open, 1, j - 1), item)
  BY <1>2, <1>3 DEF NextHeadings
<1>5. short \in Seq(B) /\ Len(short) = j /\ \A m \in 1..j : short[m] = target[m]
  BY <1>1
<1> DEFINE U == [level : Nat, text : A, size : Nat] \cup {item}
<1>6. open \in Seq(U) /\ Len(open) = Len(path) /\ \A m \in 1..Len(path) : open[m] = Heading(m, path[m])
  <2>1. open \in Seq([level : Nat, text : A, size : Nat]) /\ Len(open) = Len(path)
        /\ \A m \in 1..Len(path) : open[m] = Heading(m, path[m])
    BY StackType
  <2> HIDE DEF open, item
  <2> QED BY <2>1, SequenceWithin
<1> HIDE DEF open, short
<1> DEFINE before == SubSeq(open, 1, j - 1)
           left == Append(before, item)
<1>7. item \in U
  OBVIOUS
<1> HIDE DEF U, item
<1>8. before \in Seq(U) /\ Len(before) = j - 1 /\ \A m \in 1..(j - 1) : before[m] = Heading(m, target[m])
  <2>1. before \in Seq(U) /\ Len(before) = j - 1 /\ \A m \in 1..(j - 1) : before[m] = open[m]
    BY <1>1, <1>6
  <2> QED BY <1>1, <1>6, <2>1
<1>9. left \in Seq(U) /\ Len(left) = j /\ \A m \in 1..j : left[m] = IF m = j THEN item ELSE before[m]
  <2> HIDE DEF before
  <2> QED BY <1>1, <1>7, <1>8
<1> HIDE DEF before, left
<1>10. \A m \in 1..j : left[m] = Heading(m, short[m])
  <2> SUFFICES ASSUME NEW m \in 1..j PROVE left[m] = Heading(m, short[m])
    OBVIOUS
  <2>1. CASE m = j
    BY <1>1, <1>5, <1>9, <2>1 DEF item
  <2>2. CASE m # j
    <3>1. m \in 1..(j - 1)
      BY <1>1, <2>2
    <3> QED BY <1>5, <1>8, <1>9, <2>2, <3>1
  <2> QED BY <2>1, <2>2
<1>11. left = Stack(short)
  <2>1. left = [m \in 1..j |-> left[m]]
    BY <1>9
  <2> QED BY <1>5, <1>10, <2>1 DEF Stack
<1> QED BY <1>4, <1>11 DEF left, open, item, short, before

(* The headings over each item: what OpenHeadings computes.                *)
Follows(s, items) ==
    /\ s = [n \in 0..Len(items) |-> s[n]] /\ s[0] = <<>>
    /\ \A n \in 1..Len(items) : s[n] = NextHeadings(s[n - 1], items[n])

(* An item with text is a part, under the headings of its section when it  *)
(* has one.                                                                *)
UnderItsSection(parts, item, open) ==
    item.size = 0 \/ \E part \in Range(parts) : /\ part.element = item.text
                                                /\ part.path = <<>> \/ open = Stack(part.path)

Sectioned(parts, path, items, s) ==
    /\ Follows(s, items) /\ s[Len(items)] = Stack(path)
    /\ \A n \in 1..Len(items) : UnderItsSection(parts, items[n], s[n])

LEMMA SectionedNext ==
    ASSUME NEW parts, NEW path, NEW next, NEW P, NEW items \in Seq(P), NEW item \in P, NEW s,
           Sectioned(parts, path, items, s), NextHeadings(Stack(path), item) = Stack(next),
           UnderItsSection(parts, item, Stack(next))
    PROVE  \E t : Sectioned(parts, next, Append(items, item), t)
<1> DEFINE k == Len(items)
           more == Append(items, item)
           t == [n \in 0..(k + 1) |-> IF n = k + 1 THEN Stack(next) ELSE s[n]]
<1>1. k \in Nat /\ Len(more) = k + 1 /\ more[k + 1] = item /\ \A n \in 1..k : more[n] = items[n]
  OBVIOUS
<1>2. /\ s[0] = <<>> /\ s[k] = Stack(path)
      /\ \A n \in 1..k : s[n] = NextHeadings(s[n - 1], items[n]) /\ UnderItsSection(parts, items[n], s[n])
  BY DEF Sectioned, Follows
<1> HIDE DEF k, more
<1>3. t[k + 1] = Stack(next) /\ \A n \in 0..k : t[n] = s[n]
  BY <1>1
<1>4. t = [n \in 0..(k + 1) |-> t[n]]
  OBVIOUS
<1> HIDE DEF t
<1>5. t[0] = <<>>
  BY <1>1, <1>2, <1>3
<1>6. \A n \in 1..(k + 1) : n = k + 1 \/ n \in 1..k
  BY <1>1
<1>7. ASSUME NEW n \in 1..(k + 1)
      PROVE  t[n] = NextHeadings(t[n - 1], more[n]) /\ UnderItsSection(parts, more[n], t[n])
  <2>1. CASE n = k + 1
    <3>1. t[n - 1] = Stack(path)
      BY <1>1, <1>2, <1>3, <2>1
    <3> QED BY <1>1, <1>3, <2>1, <3>1
  <2>2. CASE n \in 1..k
    <3>1. t[n] = s[n] /\ t[n - 1] = s[n - 1] /\ more[n] = items[n]
      BY <1>1, <1>3, <2>2
    <3> QED BY <1>2, <2>2, <3>1
  <2> QED BY <1>6, <2>1, <2>2
<1>8. Sectioned(parts, next, more, t)
  BY <1>1, <1>3, <1>4, <1>5, <1>7 DEF Sectioned, Follows
<1> QED BY <1>8 DEF more

LEMMA TakenNext ==
    ASSUME NEW P, NEW s \in Seq(P), NEW more \in Seq(P), NEW i \in Nat, i + 1 <= Len(more)
    PROVE  s \o SubSeq(more, 1, i + 1) = Append(s \o SubSeq(more, 1, i), more[i + 1])
<1> DEFINE taken == SubSeq(more, 1, i)
           next == SubSeq(more, 1, i + 1)
           left == s \o next
           right == Append(s \o taken, more[i + 1])
<1>1. Len(s) \in Nat /\ Len(more) \in Nat /\ more[i + 1] \in P
  OBVIOUS
<1>2. taken \in Seq(P) /\ Len(taken) = i /\ \A m \in 1..i : taken[m] = more[m]
  BY <1>1
<1>3. next \in Seq(P) /\ Len(next) = i + 1 /\ \A m \in 1..(i + 1) : next[m] = more[m]
  BY <1>1
<1> HIDE DEF taken, next
<1>4. /\ left \in Seq(P) /\ Len(left) = Len(s) + i + 1
      /\ \A m \in 1..(Len(s) + i + 1) : left[m] = IF m <= Len(s) THEN s[m] ELSE next[m - Len(s)]
  BY <1>1, <1>3
<1> DEFINE before == s \o taken
<1>5. /\ before \in Seq(P) /\ Len(before) = Len(s) + i
      /\ \A m \in 1..(Len(s) + i) : before[m] = IF m <= Len(s) THEN s[m] ELSE taken[m - Len(s)]
  BY <1>1, <1>2
<1> HIDE DEF left, before
<1>6. /\ right \in Seq(P) /\ Len(right) = Len(s) + i + 1
      /\ \A m \in 1..(Len(s) + i + 1) : right[m] = IF m = Len(s) + i + 1 THEN more[i + 1] ELSE before[m]
  <2>1. right = Append(before, more[i + 1])
    BY DEF before
  <2> QED BY <1>1, <1>5, <2>1
<1> HIDE DEF right
<1>7. ASSUME NEW m \in 1..(Len(s) + i + 1) PROVE left[m] = right[m]
  <2>1. CASE m = Len(s) + i + 1
    <3>1. ~ (m <= Len(s)) /\ m - Len(s) = i + 1 /\ i + 1 \in 1..(i + 1)
      BY <1>1, <2>1
    <3>2. left[m] = next[i + 1]
      BY <1>4, <3>1
    <3>3. next[i + 1] = more[i + 1]
      BY <1>3, <3>1
    <3>4. right[m] = more[i + 1]
      BY <1>6, <2>1
    <3> QED BY <3>2, <3>3, <3>4
  <2>2. CASE m # Len(s) + i + 1
    <3>0. m \in 1..(Len(s) + i)
      BY <1>1, <2>2
    <3>1. m \in 1..(Len(s) + i) /\ right[m] = before[m]
      BY <1>6, <2>2, <3>0
    <3>2. CASE m <= Len(s)
      BY <1>4, <1>5, <3>1, <3>2
    <3>3. CASE ~(m <= Len(s))
      <4>1. m - Len(s) \in 1..i /\ m - Len(s) \in 1..(i + 1)
        BY <1>1, <3>1, <3>3
      <4> QED BY <1>2, <1>3, <1>4, <1>5, <3>1, <3>3, <4>1
    <3> QED BY <3>2, <3>3
  <2> QED BY <2>1, <2>2
<1>8. left = right
  <2>1. left = [m \in 1..(Len(s) + i + 1) |-> left[m]] /\ right = [m \in 1..(Len(s) + i + 1) |-> right[m]]
    BY <1>4, <1>6
  <2> QED BY <1>7, <2>1
<1> QED BY <1>8 DEF left, right, before, taken, next

(* From one section to another.                                            *)
LEMMA TransitionSectioned ==
    ASSUME NEW parts, NEW A, NEW path \in Seq(A), NEW B, NEW target \in Seq(B), NEW active,
           active = <<>> \/ active = path, NEW P, NEW items \in Seq(P),
           EmitHeadingTransition(active, target) \in Seq(P),
           NEW s, Sectioned(parts, path, items, s)
    PROVE  \E t : Sectioned(parts, IF target = <<>> THEN path ELSE target,
                            items \o EmitHeadingTransition(active, target), t)
<1> DEFINE common == CommonPrefix(active, target)
           start == IF common = Len(target) /\ common < Len(active) /\ target # <<>>
                    THEN common - 1 ELSE common
           k == Len(target) - start
           row(i) == Heading(start + i, target[start + i])
           headings == [i \in 1..k |-> row(i)]
<1>1. EmitHeadingTransition(active, target) = IF target = active THEN <<>> ELSE headings
  BY DEF EmitHeadingTransition
<1>2. CASE target = active
  <2>1. items \o <<>> = items
    OBVIOUS
  <2>2. path = IF target = <<>> THEN path ELSE target
    BY <1>2
  <2> HIDE DEF headings
  <2> QED BY <1>1, <1>2, <2>1, <2>2
<1>3. CASE target # active
  <2>1. /\ Len(path) \in Nat /\ Len(target) \in Nat /\ Len(active) \in Nat
        /\ active \in Seq(A) /\ Len(active) <= Len(path) /\ \A m \in 1..Len(active) : active[m] = path[m]
    <3>1. CASE active = <<>>
      BY <3>1
    <3>2. CASE active = path
      BY <3>2
    <3> QED BY <3>1, <3>2
  <2>2. /\ common \in Nat /\ common <= Len(active) /\ common <= Len(target)
        /\ SubSeq(active, 1, common) = SubSeq(target, 1, common)
    BY <2>1, CommonPrefixType
  <2>3. PICK c \in Nat : c = common
    BY <2>2
  <2>4. \A m \in 1..c : active[m] = target[m]
    <3>1. \A m \in 1..c : SubSeq(active, 1, c)[m] = active[m] /\ SubSeq(target, 1, c)[m] = target[m]
      BY <2>1, <2>2, <2>3
    <3> HIDE DEF common
    <3> QED BY <2>2, <2>3, <3>1
  <2>5. c = Len(target) /\ ~(c < Len(active)) => FALSE
    <3> SUFFICES ASSUME c = Len(target), ~(c < Len(active)) PROVE FALSE
      OBVIOUS
    <3> HIDE DEF common
    <3>1. Len(active) = Len(target)
      BY <2>1, <2>2, <2>3
    <3>2. active = [m \in 1..Len(active) |-> active[m]] /\ target = [m \in 1..Len(target) |-> target[m]]
      BY <2>1
    <3> QED BY <1>3, <2>4, <3>1, <3>2
  <2>6. start \in Nat /\ start <= c /\ start <= Len(path) /\ start <= Len(target)
        /\ (target # <<>> => start < Len(target))
    <3>1. target # <<>> <=> Len(target) # 0
      OBVIOUS
    <3> HIDE DEF common
    <3> QED BY <2>1, <2>2, <2>3, <2>5, <3>1
  <2>7. \A m \in 1..start : path[m] = target[m]
    <3> HIDE DEF common, start
    <3> QED BY <2>1, <2>2, <2>3, <2>4, <2>6
  <2>8. headings \in Seq(P)
    BY <1>1, <1>3
  <2> HIDE DEF common, start
  <2>9. k \in Nat /\ DOMAIN headings = 1..k /\ Len(headings) = k /\ \A i \in 1..k : headings[i] = row(i)
    BY <2>1, <2>6, <2>8
  <2> HIDE DEF headings
  <2> DEFINE Reached(i) ==
               \E q \in Seq(A \cup B) :
                   /\ i = 0 => q = path
                   /\ i > 0 => q = SubSeq(target, 1, start + i)
                   /\ \E t : Sectioned(parts, q, items \o SubSeq(headings, 1, i), t)
             T == {i \in Nat : i <= k => Reached(i)}
  <2>10. 0 \in T
    <3>1. items \o SubSeq(headings, 1, 0) = items
      BY <2>8
    <3>2. path \in Seq(A \cup B)
      OBVIOUS
    <3>3. Sectioned(parts, path, items \o SubSeq(headings, 1, 0), s)
      BY <3>1
    <3> DEFINE taken == items \o SubSeq(headings, 1, 0)
    <3>4. \E q \in Seq(A \cup B) : /\ 0 = 0 => q = path
                                   /\ 0 > 0 => q = SubSeq(target, 1, start + 0)
                                   /\ \E t : Sectioned(parts, q, taken, t)
      <4> HIDE DEF taken
      <4>1. \E t : Sectioned(parts, path, taken, t)
        BY <3>3 DEF taken
      <4> QED BY <3>2, <4>1
    <3>5. Reached(0)
      BY <3>4
    <3> HIDE DEF Reached
    <3> QED BY <3>5
  <2>11. ASSUME NEW i \in T PROVE i + 1 \in T
    <3> SUFFICES ASSUME i + 1 <= k PROVE Reached(i + 1)
      <4> HIDE DEF Reached
      <4> QED OBVIOUS
    <3> DEFINE more == items \o SubSeq(headings, 1, i)
               j == start + (i + 1)
               item == headings[i + 1]
    <3>1. i \in Nat /\ i + 1 \in 1..k /\ i <= k
      <4> HIDE DEF Reached
      <4> QED BY <2>9
    <3>2. Reached(i)
      <4> HIDE DEF Reached
      <4> QED BY <2>9, <3>1
    <3>3. PICK q \in Seq(A \cup B) : /\ i = 0 => q = path
                                     /\ i > 0 => q = SubSeq(target, 1, start + i)
                                     /\ \E t : Sectioned(parts, q, more, t)
      BY <3>2
    <3> HIDE DEF Reached, T
    <3>4. j \in 1..Len(target) /\ j - 1 = start + i
      BY <2>1, <2>6, <3>1
    <3>5. Len(q) \in Nat /\ j - 1 <= Len(q) /\ \A m \in 1..(j - 1) : q[m] = target[m]
      <4>1. CASE i = 0
        BY <2>1, <2>6, <2>7, <3>1, <3>3, <3>4, <4>1
      <4>2. CASE i > 0
        <5>1. q = SubSeq(target, 1, j - 1)
          BY <3>3, <3>4, <4>2
        <5>2. Len(q) = j - 1 /\ \A m \in 1..(j - 1) : q[m] = target[m]
          BY <2>1, <3>4, <5>1
        <5> QED BY <3>4, <5>2
      <4> QED BY <3>1, <4>1, <4>2
    <3>6. item = Heading(j, target[j]) /\ item \in P
      <4>1. item = row(i + 1) /\ item \in P
        BY <2>8, <2>9, <3>1
      <4> QED BY <4>1
    <3> DEFINE next == SubSeq(target, 1, j)
    <3>7. NextHeadings(Stack(q), item) = Stack(next)
      <4> HIDE DEF j
      <4> QED BY <3>4, <3>5, <3>6, NextHeading
    <3>8. UnderItsSection(parts, item, Stack(next))
      BY <3>6 DEF UnderItsSection, Heading
    <3>9. more \in Seq(P)
      <4>1. SubSeq(headings, 1, i) \in Seq(P)
        BY <2>8, <2>9, <3>1
      <4> QED BY <4>1
    <3>10. Append(more, item) = items \o SubSeq(headings, 1, i + 1)
      BY <2>8, <2>9, <3>1, TakenNext
    <3> HIDE DEF more, item, next
    <3>11. \E t : Sectioned(parts, next, Append(more, item), t)
      BY <3>3, <3>6, <3>7, <3>8, <3>9, SectionedNext
    <3>12. next \in Seq(A \cup B)
      <4>1. target \in Seq(A \cup B)
        OBVIOUS
      <4> HIDE DEF j
      <4> QED BY <2>1, <3>4, <4>1 DEF next
    <3> DEFINE taken == items \o SubSeq(headings, 1, i + 1)
    <3>13. \E t : Sectioned(parts, next, taken, t)
      BY <3>10, <3>11
    <3>14. i + 1 > 0 /\ i + 1 # 0 /\ next = SubSeq(target, 1, start + (i + 1))
      BY <3>1 DEF next
    <3> HIDE DEF taken, next
    <3>15. \E open \in Seq(A \cup B) : /\ i + 1 = 0 => open = path
                                       /\ i + 1 > 0 => open = SubSeq(target, 1, start + (i + 1))
                                       /\ \E t : Sectioned(parts, open, taken, t)
      BY <3>12, <3>13, <3>14
    <3> QED BY <3>15 DEF Reached, taken
  <2>12. k \in T
    <3>1. T = Nat
      <4>1. T \in SUBSET Nat
        OBVIOUS
      <4> HIDE DEF T
      <4> QED BY <2>10, <2>11, <4>1, AllNumbers
    <3> HIDE DEF T
    <3> QED BY <2>9, <3>1
  <2>13. Reached(k)
    <3> HIDE DEF Reached
    <3> QED BY <2>9, <2>12
  <2>14. SubSeq(headings, 1, k) = headings
    BY <2>8, <2>9
  <2>15. CASE target = <<>>
    <3>1. k = 0
      BY <2>1, <2>6, <2>15
    <3> DEFINE all == items \o headings
    <3>2. \E t : Sectioned(parts, path, all, t)
      BY <2>13, <2>14, <3>1
    <3>3. items \o EmitHeadingTransition(active, target) = all
      BY <1>1, <1>3
    <3>4. (IF target = <<>> THEN path ELSE target) = path
      BY <2>15
    <3> HIDE DEF all
    <3> QED BY <3>2, <3>3, <3>4
  <2>16. CASE target # <<>>
    <3>1. k > 0 /\ start + k = Len(target)
      BY <2>1, <2>6, <2>16
    <3>2. SubSeq(target, 1, Len(target)) = target
      OBVIOUS
    <3>3. PICK q : /\ q = SubSeq(target, 1, start + k)
                   /\ \E t : Sectioned(parts, q, items \o SubSeq(headings, 1, k), t)
      BY <2>13, <3>1
    <3>4. q = target
      BY <3>1, <3>2, <3>3
    <3> DEFINE all == items \o headings
    <3>5. \E t : Sectioned(parts, target, all, t)
      BY <2>14, <3>3, <3>4
    <3>6. items \o EmitHeadingTransition(active, target) = all
      BY <1>1, <1>3
    <3>7. (IF target = <<>> THEN path ELSE target) = target
      BY <2>16
    <3> HIDE DEF all
    <3> QED BY <3>5, <3>6, <3>7
  <2> QED BY <2>15, <2>16
<1> QED BY <1>2, <1>3

(* A document while it is made of its parts.                               *)
Made(parts) ==
    {built \in [active : Paths(parts), items : Seq(PartItems(parts))] :
        \E path \in Seq(PartTexts(parts)) :
            /\ built.active = <<>> \/ built.active = path
            /\ \E s : Sectioned(parts, path, built.items, s)}

LEMMA PathType ==
    ASSUME NEW parts, IsParts(parts), NEW path \in Paths(parts)
    PROVE  path \in Seq(PartTexts(parts))
<1>1. CASE path = <<>>
  BY <1>1
<1>2. CASE path # <<>>
  <2>1. PICK part \in Range(parts) : path = part.path
    BY <1>2 DEF Paths
  <2>2. path \in Seq(Range(path)) /\ Range(path) \subseteq PartTexts(parts)
    BY <2>1 DEF IsParts, PartTexts
  <2> QED BY <2>2, SequenceWithin
<1> QED BY <1>1, <1>2

LEMMA EmitPartMakes ==
    ASSUME NEW parts, IsParts(parts), NEW built \in Made(parts), NEW part \in Range(parts)
    PROVE  EmitPart(built, part) \in Made(parts)
<1> DEFINE P == PartItems(parts)
           target == part.path
           transition == EmitHeadingTransition(built.active, target)
           led == built.items \o transition
           items == led \o <<AddPart(part)>>
<1>1. built.active \in Paths(parts) /\ built.items \in Seq(P)
  BY DEF Made
<1>2. part.path \in Seq(Range(part.path)) /\ part.size \in Nat /\ target \in Paths(parts)
  BY DEF IsParts, Paths
<1>3. target \in Seq(PartTexts(parts)) /\ built.active \in Seq(PartTexts(parts))
  BY <1>1, <1>2, PathType
<1>4. transition \in Seq(P)
  BY <1>2, <1>3, TransitionType
<1>5. AddPart(part) \in P
  BY <1>2 DEF AddPart, Body, PartItems, PartTexts
<1>6. PICK path \in Seq(PartTexts(parts)) : /\ built.active = <<>> \/ built.active = path
                                            /\ \E s : Sectioned(parts, path, built.items, s)
  BY DEF Made
<1>7. PICK s : Sectioned(parts, path, built.items, s)
  BY <1>6
<1>8. PICK next : next = IF target = <<>> THEN path ELSE target
  OBVIOUS
<1>9. \E t : Sectioned(parts, next, led, t)
  <2> HIDE DEF P, target
  <2>1. \E t : Sectioned(parts, IF target = <<>> THEN path ELSE target,
                         built.items \o EmitHeadingTransition(built.active, target), t)
    BY <1>1, <1>3, <1>4, <1>6, <1>7, TransitionSectioned
  <2> HIDE DEF transition
  <2> QED BY <1>8, <2>1 DEF transition
<1>10. next \in Seq(PartTexts(parts)) /\ (target = <<>> \/ target = next)
  BY <1>3, <1>6, <1>8
<1>11. led \in Seq(P)
  <2> HIDE DEF P, transition
  <2> QED BY <1>1, <1>4
<1>12. Append(led, AddPart(part)) = items /\ items \in Seq(P)
  <2> HIDE DEF P, led
  <2> QED BY <1>5, <1>11
<1>13. NextHeadings(Stack(next), AddPart(part)) = Stack(next)
  BY DEF NextHeadings, IsBody, AddPart, Body
<1>14. UnderItsSection(parts, AddPart(part), Stack(next))
  <2>1. part.path = <<>> \/ Stack(next) = Stack(part.path)
    BY <1>10
  <2>2. AddPart(part).text = part.element
    BY DEF AddPart, Body
  <2> QED BY <2>1, <2>2 DEF UnderItsSection
<1>15. \E t : Sectioned(parts, next, items, t)
  <2> HIDE DEF P, led, items
  <2>1. PICK t : Sectioned(parts, next, led, t)
    BY <1>9
  <2>2. \E u : Sectioned(parts, next, Append(led, AddPart(part)), u)
    BY <1>5, <1>11, <1>13, <1>14, <2>1, SectionedNext
  <2> QED BY <1>12, <2>2
<1>16. EmitPart(built, part) = [active |-> target, items |-> items]
  BY DEF EmitPart
<1> HIDE DEF items, target, P
<1>17. [active |-> target, items |-> items] \in Made(parts)
  BY <1>2, <1>10, <1>12, <1>15 DEF Made, P, target
<1> QED BY <1>16, <1>17

LEMMA DocumentFromItemMakes ==
    ASSUME NEW parts, IsParts(parts)
    PROVE  /\ DocumentFromItem(parts) \in Seq(PartItems(parts))
           /\ \E path, s : Sectioned(parts, path, DocumentFromItem(parts), s)
<1> DEFINE start == [active |-> <<>>, items |-> <<>>]
<1>a. start \in Made(parts)
  <2> DEFINE s == [n \in 0..0 |-> <<>>]
  <2>1. Follows(s, <<>>) /\ s[0] = <<>>
    BY DEF Follows
  <2>2. Stack(<<>>) = <<>>
    BY DEF Stack
  <2> HIDE DEF s
  <2>3. Sectioned(parts, <<>>, <<>>, s)
    BY <2>1, <2>2 DEF Sectioned
  <2>4. start.active = <<>> /\ start.items = <<>>
        /\ start \in [active : Paths(parts), items : Seq(PartItems(parts))]
    BY DEF Paths
  <2>5. <<>> \in Seq(PartTexts(parts))
    OBVIOUS
  <2> HIDE DEF start
  <2> QED BY <2>3, <2>4, <2>5 DEF Made
<1>b. \A built \in Made(parts), part \in Range(parts) : EmitPart(built, part) \in Made(parts)
  BY EmitPartMakes
<1>c. DocumentFromItem(parts) = Folded(EmitPart, start, parts).items
  BY DEF DocumentFromItem
<1>d. \A built \in Made(parts) : /\ built.items \in Seq(PartItems(parts))
                                 /\ \E path, s : Sectioned(parts, path, built.items, s)
  BY DEF Made
<1> HIDE DEF start
<1> DEFINE k == Len(parts)
           By(f) == f = [n \in 0..Len(parts) |-> IF n = 0 THEN start ELSE EmitPart(f[n - 1], parts[n])]
           after == CHOOSE f : By(f)
           D == [n \in 0..k |-> Made(parts)]
           G == [n \in 1..k |-> [x \in D[n - 1] |-> EmitPart(x, parts[n])]]
<1>1. k \in Nat
  BY DEF IsParts
<1>2. start \in D[0]
  BY <1>1, <1>a
<1>3. \A n \in 1..k : \A x \in D[n - 1] : EmitPart(x, parts[n]) \in D[n]
  <2> SUFFICES ASSUME NEW n \in 1..k, NEW x \in Made(parts) PROVE EmitPart(x, parts[n]) \in Made(parts)
    BY <1>1
  <2>1. parts[n] \in Range(parts)
    BY DEF IsParts, Range
  <2> HIDE DEF k
  <2> QED BY <1>b, <2>1
<1>4. PICK f : IsLoop(f, k, start, G, D)
  <2>1. \A n \in 1..k : \A x \in D[n - 1] : G[n][x] \in D[n]
    BY <1>3
  <2> HIDE DEF D, G, k
  <2> QED BY <1>1, <1>2, <2>1, LoopExists
<1>5. By(f)
  <2>1. \A n \in 1..k : f[n - 1] \in D[n - 1]
    <3> HIDE DEF D, G
    <3> QED BY <1>1, <1>4 DEF IsLoop
  <2>2. \A n \in 1..k : G[n][f[n - 1]] = EmitPart(f[n - 1], parts[n])
    <3> HIDE DEF D
    <3> QED BY <2>1
  <2> HIDE DEF D, G
  <2>3. f = [n \in 0..k |-> f[n]] /\ f[0] = start /\ \A n \in 1..k : f[n] = G[n][f[n - 1]]
    BY <1>4 DEF IsLoop
  <2> HIDE DEF k
  <2>4. \A n \in 1..k : f[n] = EmitPart(f[n - 1], parts[n])
    BY <2>2, <2>3
  <2>5. \A n \in 0..k : n # 0 => n \in 1..k
    BY <1>1
  <2>6. f = [n \in 0..k |-> IF n = 0 THEN start ELSE EmitPart(f[n - 1], parts[n])]
    BY <2>3, <2>4, <2>5
  <2> QED BY <2>6 DEF k
<1>6. By(after)
  <2> HIDE DEF By
  <2> QED BY <1>5
<1>7. after[0] = start /\ \A n \in 1..k : after[n] = EmitPart(after[n - 1], parts[n])
  <2> HIDE DEF after
  <2>1. \A n \in 0..k : after[n] = IF n = 0 THEN start ELSE EmitPart(after[n - 1], parts[n])
    BY <1>6
  <2>2. 0 \in 0..k /\ \A n \in 1..k : n \in 0..k /\ n # 0
    BY <1>1
  <2> HIDE DEF k
  <2> QED BY <2>1, <2>2
<1>8. after[k] \in D[k]
  <2> HIDE DEF after, D, k
  <2>1. after[0] \in D[0] /\ \A n \in 1..k : after[n - 1] \in D[n - 1] => after[n] \in D[n]
    BY <1>2, <1>3, <1>7
  <2> QED BY <1>1, <2>1, LoopStays
<1>9. Folded(EmitPart, start, parts) = after[k]
  BY DEF Folded
<1> HIDE DEF after, By
<1>10. after[k] \in Made(parts)
  BY <1>1, <1>8
<1>11. DocumentFromItem(parts) = after[k].items
  BY <1>9, <1>c
<1> QED BY <1>10, <1>11, <1>d

(* There is one way to count the headings.                                 *)
LEMMA OpenHeadingsFollow ==
    ASSUME NEW items, Len(items) \in Nat, NEW s, Follows(s, items)
    PROVE  \A n \in 0..Len(items) : OpenHeadings(items)[n] = s[n]
<1> DEFINE By(f) == f = [n \in 0..Len(items) |-> IF n = 0 THEN <<>> ELSE NextHeadings(f[n - 1], items[n])]
           open == CHOOSE f : By(f)
           k == Len(items)
<1>1. By(s)
  <2>0. s[0] = <<>> /\ \A n \in 1..k : s[n] = NextHeadings(s[n - 1], items[n])
    BY DEF Follows
  <2>1. \A n \in 0..k : s[n] = IF n = 0 THEN <<>> ELSE NextHeadings(s[n - 1], items[n])
    <3>1. \A n \in 0..k : n = 0 \/ n \in 1..k
      OBVIOUS
    <3> HIDE DEF k
    <3> QED BY <2>0, <3>1
  <2> QED BY <2>1 DEF Follows
<1>2. By(open)
  <2> HIDE DEF By
  <2> QED BY <1>1
<1>3. OpenHeadings(items) = open
  BY DEF OpenHeadings
<1> HIDE DEF open
<1>4. open[0] = <<>> /\ \A n \in 1..k : open[n] = NextHeadings(open[n - 1], items[n])
  <2>1. \A n \in 0..k : open[n] = IF n = 0 THEN <<>> ELSE NextHeadings(open[n - 1], items[n])
    BY <1>2
  <2>2. 0 \in 0..k /\ \A n \in 1..k : n \in 0..k /\ n # 0
    OBVIOUS
  <2> HIDE DEF k, By
  <2> QED BY <2>1, <2>2
<1> DEFINE D == [n \in 0..k |-> {s[n]}]
<1>5. ASSUME NEW n \in 0..k PROVE open[n] = s[n]
  <2>1. open[0] \in D[0]
    BY <1>4 DEF Follows
  <2>2. \A m \in 1..n : open[m - 1] \in D[m - 1] => open[m] \in D[m]
    <3> SUFFICES ASSUME NEW m \in 1..n, open[m - 1] \in D[m - 1] PROVE open[m] \in D[m]
      OBVIOUS
    <3>1. m \in 1..k /\ m \in 0..k /\ m - 1 \in 0..k
      OBVIOUS
    <3>2. open[m - 1] = s[m - 1]
      BY <3>1
    <3>3. open[m] = s[m]
      BY <1>4, <3>1, <3>2 DEF Follows
    <3> QED BY <3>1, <3>3
  <2>3. open[n] \in D[n]
    <3>1. n \in Nat
      OBVIOUS
    <3> HIDE DEF D, By, k
    <3> QED BY ONLY <2>1, <2>2, <3>1, LoopStays
  <2> QED BY <2>3
<1> QED BY <1>3, <1>5

LEMMA IsDocumentOf ==
    ASSUME NEW content \in Contents
    PROVE  IsDocument(Document(content))
<1>1. WellFormed(content)
  BY SearchAssumption
<1>2. CASE content.parts = <<>>
  BY <1>1, <1>2 DEF WellFormed, Document, IsDocument
<1>3. CASE content.parts # <<>>
  <2> DEFINE s == Document(content)
             P == PartItems(content.parts)
  <2>1. s \in Seq(P)
    BY <1>1, <1>3, DocumentFromItemMakes DEF WellFormed, Document, IsParts
  <2>2. s \in Seq(Range(s)) /\ Range(s) \subseteq P
    <3> HIDE DEF s, P
    <3> QED BY <2>1 DEF Range
  <2>3. \A item \in P : item.size \in Nat
    BY DEF PartItems
  <2> HIDE DEF P
  <2> QED BY <2>2, <2>3 DEF IsDocument
<1> QED BY <1>2, <1>3

(* A chunk of any content: stretches of text, and the spans that cite it.  *)
LEMMA ChunkFacts ==
    ASSUME NEW content \in Contents
    PROVE  LET chunks == ChunksOf[content]
           IN  /\ Len(chunks) \in Nat
               /\ \A n \in 1..Len(chunks) :
                    /\ chunks[n].text \in Seq(Pieces(ElementTexts(Document(content))))
                    /\ chunks[n].spans = CitationSpans(Document(content), chunks[n].text)
<1> DEFINE document == Document(content)
           split == IF content.strategy = "line" THEN LineChunks(document) ELSE HybridChunks(document)
           row(n) == [text |-> split[n].text, section |-> ChunkSectionPath(content.parts, split[n]),
                      spans |-> CitationSpans(document, split[n].text)]
           P == Seq(Pieces(ElementTexts(document)))
<1>1. IsDocument(document)
  BY IsDocumentOf
<1>2. ChunksOf[content] = [n \in DOMAIN split |-> row(n)]
  BY DEF ChunksOf, Chunks
<1> HIDE DEF document
<1>3. \E H : split \in Seq([text : P, headings : H])
  <2>1. LineChunks(document) \in Seq(Raw(document, HeadingPaths(document)))
    BY <1>1, ChunksUnderType DEF LineChunks
  <2>2. HybridChunks(document) \in Seq(Raw(document, DoclingHeadings(document)))
    BY <1>1, HybridChunksType
  <2> HIDE DEF P
  <2> QED BY <2>1, <2>2 DEF Raw, P
<1>4. PICK H : split \in Seq([text : P, headings : H])
  BY <1>3
<1> HIDE DEF split
<1>5. Len(split) \in Nat /\ DOMAIN split = 1..Len(split) /\ \A n \in 1..Len(split) : split[n].text \in P
  <2> HIDE DEF P
  <2> DEFINE T == [text : P, headings : H]
  <2>1. \A x \in T : x.text \in P
    OBVIOUS
  <2>2. split \in Seq(T)
    BY <1>4
  <2> HIDE DEF T
  <2>3. Len(split) \in Nat /\ DOMAIN split = 1..Len(split) /\ \A n \in 1..Len(split) : split[n] \in T
    BY <2>2
  <2> QED BY <2>1, <2>3
<1> DEFINE chunks == ChunksOf[content]
<1>6. Len(chunks) = Len(split) /\ \A n \in 1..Len(split) : chunks[n] = row(n)
  <2> HIDE DEF row
  <2> QED BY <1>2, <1>5
<1>7. \A n \in 1..Len(split) : row(n).text \in P /\ row(n).spans = CitationSpans(document, row(n).text)
  <2> HIDE DEF P
  <2> QED BY <1>5
<1> HIDE DEF row, chunks, P
<1>8. /\ Len(chunks) \in Nat
      /\ \A n \in 1..Len(chunks) :
            chunks[n].text \in P /\ chunks[n].spans = CitationSpans(document, chunks[n].text)
  BY <1>5, <1>6, <1>7
<1> QED BY <1>8 DEF chunks, P, document

(* The path of a part can be looked up by its element.                     *)
LEMMA PathOfPart ==
    ASSUME NEW content, WellFormed(content), NEW part \in Range(content.parts)
    PROVE  PathOf(content.parts, part.element) = part.path
<1> DEFINE parts == content.parts
           found == CHOOSE p \in Range(parts) : p.element = part.element
<1>1. found \in Range(parts) /\ found.element = part.element
  OBVIOUS
<1>2. PathOf(parts, part.element) = found.path
  BY DEF PathOf
<1> HIDE DEF found
<1>3. \A i, j \in DOMAIN parts : parts[i].element = parts[j].element => i = j
  BY DEF WellFormed
<1>4. found = part
  BY <1>1, <1>3 DEF Range
<1> QED BY <1>2, <1>4

LEMMA SplitPieces ==
    ASSUME NEW item, item.size \in Nat
    PROVE  /\ \A n \in DOMAIN Split(item) : Split(item)[n].element = item.text
           /\ item.size = 0 => DOMAIN Split(item) = {}
<1>1. \A n \in DOMAIN Split(item) : Split(item)[n].element = item.text
  BY DEF Split, Piece
<1>2. ASSUME item.size = 0 PROVE DOMAIN Split(item) = {}
  <2>1. MaxTokens \in Nat /\ MaxTokens > 0
    BY MaxTokensAssumption
  <2> DEFINE a == item.size + MaxTokens - 1
  <2>2. a = MaxTokens - 1
    BY <1>2, <2>1
  <2> HIDE DEF a
  <2>3. a \div MaxTokens = 0
    BY <2>1, <2>2
  <2>4. DOMAIN Split(item) = 1..(a \div MaxTokens)
    BY DEF Split, a
  <2> QED BY <2>3, <2>4
<1> QED BY <1>1, <1>2

(* Over each item with text Docling finds the headings of its section.     *)
LEMMA DoclingSections ==
    ASSUME NEW content, WellFormed(content), NEW document, document = DocumentFromItem(content.parts),
           NEW i \in DOMAIN document
    PROVE  document[i].size = 0 \/ PathOf(content.parts, document[i].text) \in {<<>>, DoclingHeadings(document)[i]}
<1> DEFINE parts == content.parts
<1>1. IsParts(parts)
  BY DEF WellFormed, IsParts
<1>2. document \in Seq(PartItems(parts))
  BY <1>1, DocumentFromItemMakes
<1>3. PICK path, s : Sectioned(parts, path, document, s)
  BY <1>1, DocumentFromItemMakes
<1>4. i \in 1..Len(document) /\ Len(document) \in Nat /\ i \in 0..Len(document)
  BY <1>2
<1>5. Follows(s, document) /\ UnderItsSection(parts, document[i], s[i])
  BY <1>3, <1>4 DEF Sectioned
<1>6. OpenHeadings(document)[i] = s[i]
  BY <1>4, <1>5, OpenHeadingsFollow
<1>7. DoclingHeadings(document)[i] = TextsOf(s[i])
  BY <1>6 DEF DoclingHeadings
<1>8. ASSUME document[i].size # 0
      PROVE  PathOf(parts, document[i].text) \in {<<>>, DoclingHeadings(document)[i]}
  <2>1. PICK part \in Range(parts) : part.element = document[i].text /\ (part.path = <<>> \/ s[i] = Stack(part.path))
    BY <1>5, <1>8 DEF UnderItsSection
  <2>2. PathOf(parts, document[i].text) = part.path
    BY <2>1, PathOfPart
  <2>3. part.path \in Seq(Range(part.path))
    BY <1>1 DEF IsParts
  <2>4. TextsOf(Stack(part.path)) = part.path
    <3> DEFINE open == Stack(part.path)
    <3>1. DOMAIN open = 1..Len(part.path) /\ \A n \in 1..Len(part.path) : open[n].text = part.path[n]
      BY DEF Stack, Heading
    <3>2. part.path = [n \in 1..Len(part.path) |-> part.path[n]]
      BY <2>3
    <3> HIDE DEF open
    <3>3. TextsOf(open) = [n \in 1..Len(part.path) |-> part.path[n]]
      BY <3>1 DEF TextsOf
    <3> QED BY <3>2, <3>3 DEF open
  <2> QED BY <1>7, <2>1, <2>2, <2>4
<1> QED BY <1>8

(* A chunk whose parts are of one section, as far as they have one.        *)
OfOneSection(parts, chunk, path) ==
    \A n \in DOMAIN chunk.text : PathOf(parts, chunk.text[n].element) \in {<<>>, path}

LEMMA SectionOfChunk ==
    ASSUME NEW parts, parts # <<>>, NEW T, NEW chunk, chunk.text \in Seq(T),
           NEW path, OfOneSection(parts, chunk, path)
    PROVE  OfOneSection(parts, chunk, ChunkSectionPath(parts, chunk))
<1> DEFINE text == chunk.text
           own == {n \in DOMAIN text : parts # <<>> /\ PathOf(parts, text[n].element) # <<>>}
           section == ChunkSectionPath(parts, chunk)
<1>1. section = IF own # {} THEN PathOf(parts, text[Min(own)].element) ELSE chunk.headings
  BY DEF ChunkSectionPath
<1>2. own \in SUBSET Nat
  <2>1. DOMAIN text = 1..Len(text)
    OBVIOUS
  <2> QED BY <2>1
<1>3. \A n \in DOMAIN text : PathOf(parts, text[n].element) \in {<<>>, path}
  BY DEF OfOneSection
<1>4. \A n \in own : n \in DOMAIN text /\ PathOf(parts, text[n].element) # <<>>
  OBVIOUS
<1>5. \A n \in DOMAIN text : PathOf(parts, text[n].element) # <<>> => n \in own
  OBVIOUS
<1> HIDE DEF own, section
<1>6. CASE own = {}
  BY <1>5, <1>6 DEF OfOneSection
<1>7. CASE own # {}
  <2>1. PICK first \in own : \A n \in own : first <= n
    BY <1>2, <1>7, SmallestNumber
  <2>2. Min(own) \in own
    BY <2>1 DEF Min
  <2>3. section = path
    BY <1>1, <1>3, <1>4, <1>7, <2>2
  <2> QED BY <2>3 DEF section
<1> QED BY <1>6, <1>7

LEMMA RowOfPiece ==
    ASSUME NEW document, IsDocument(document), NEW paths, NEW i \in DOMAIN document,
           NEW n \in DOMAIN Split(document[i])
    PROVE  LET row == [text |-> <<Split(document[i])[n]>>, headings |-> paths[i]]
           IN  /\ row \in Raw(document, paths)
               /\ DOMAIN row.text = {1} /\ row.text[1].element = document[i].text
               /\ row.headings = paths[i] /\ document[i].size # 0
<1> DEFINE P == Pieces(ElementTexts(document))
           pieces == Split(document[i])
<1>1. document[i].size \in Nat /\ document[i].text \in ElementTexts(document)
  BY DEF IsDocument, Range, ElementTexts
<1>2. pieces \in Seq(P)
  BY <1>1, SplitType
<1>3. pieces[n].element = document[i].text /\ document[i].size # 0
  BY <1>1, SplitPieces
<1> HIDE DEF P, pieces
<1>4. <<pieces[n]>> \in Seq(P)
  BY <1>2 DEF pieces
<1>5. [text |-> <<pieces[n]>>, headings |-> paths[i]] \in Raw(document, paths)
  BY <1>4 DEF Raw, P
<1> QED BY <1>3, <1>5 DEF pieces

LEMMA JoinedElements ==
    ASSUME NEW P, NEW s \in Seq(P), NEW t \in Seq(P)
    PROVE  s \o t \in Seq(P) /\ \A m \in DOMAIN (s \o t) : (s \o t)[m] \in Range(s) \cup Range(t)
<1>1. /\ Len(s) \in Nat /\ Len(t) \in Nat /\ DOMAIN s = 1..Len(s) /\ DOMAIN t = 1..Len(t)
  OBVIOUS
<1>2. PICK both : both = s \o t
  OBVIOUS
<1>3. both \in Seq(P) /\ DOMAIN both = 1..(Len(s) + Len(t))
  BY <1>1, <1>2
<1>4. \A m \in 1..(Len(s) + Len(t)) : both[m] = IF m <= Len(s) THEN s[m] ELSE t[m - Len(s)]
  BY <1>1, <1>2
<1>5. ASSUME NEW m \in 1..(Len(s) + Len(t)) PROVE both[m] \in Range(s) \cup Range(t)
  <2>1. CASE m <= Len(s)
    <3>1. m \in DOMAIN s
      BY <1>1, <2>1
    <3> QED BY <1>4, <2>1, <3>1 DEF Range
  <2>2. CASE ~(m <= Len(s))
    <3>1. m - Len(s) \in DOMAIN t
      BY <1>1, <2>2
    <3> QED BY <1>4, <2>2, <3>1 DEF Range
  <2> QED BY <2>1, <2>2
<1> QED BY <1>2, <1>3, <1>5

(* A chunk of one section is merged with one of the same section only.     *)
LEMMA LineSections ==
    ASSUME NEW parts, NEW document, IsDocument(document), NEW n \in DOMAIN LineChunks(document)
    PROVE  \E path : OfOneSection(parts, LineChunks(document)[n], path)
<1> DEFINE R == {chunk \in Raw(document, HeadingPaths(document)) : DOMAIN chunk.text = {1}}
<1>1. LineChunks(document) \in Seq(R)
  BY RowOfPiece, ChunksUnderWithin DEF LineChunks
<1>2. LineChunks(document)[n] \in R
  <2> HIDE DEF R
  <2> QED BY <1>1
<1>3. PICK chunk : chunk = LineChunks(document)[n]
  OBVIOUS
<1>4. DOMAIN chunk.text = {1}
  BY <1>2, <1>3
<1> QED BY <1>3, <1>4 DEF OfOneSection

LEMMA HybridSections ==
    ASSUME NEW content, WellFormed(content), NEW document, document = DocumentFromItem(content.parts),
           IsDocument(document), NEW n \in DOMAIN HybridChunks(document)
    PROVE  \E path : OfOneSection(content.parts, HybridChunks(document)[n], path)
<1> DEFINE parts == content.parts
           paths == DoclingHeadings(document)
           R == {chunk \in Raw(document, paths) : OfOneSection(parts, chunk, chunk.headings)}
<1>1. ASSUME NEW i \in DOMAIN document, NEW m \in DOMAIN Split(document[i])
      PROVE  [text |-> <<Split(document[i])[m]>>, headings |-> paths[i]] \in R
  <2>1. PICK row : row = [text |-> <<Split(document[i])[m]>>, headings |-> paths[i]]
    OBVIOUS
  <2>2. /\ row \in Raw(document, paths) /\ DOMAIN row.text = {1} /\ row.text[1].element = document[i].text
        /\ row.headings = paths[i] /\ document[i].size # 0
    BY <2>1, RowOfPiece
  <2>3. PathOf(parts, document[i].text) \in {<<>>, paths[i]}
    BY <2>2, DoclingSections
  <2> HIDE DEF paths, parts
  <2>4. OfOneSection(parts, row, row.headings)
    BY <2>2, <2>3 DEF OfOneSection
  <2> QED BY <2>1, <2>2, <2>4
<1>2. ChunksUnder(document, paths) \in Seq(R)
  <2> HIDE DEF R, paths
  <2> QED BY <1>1, ChunksUnderWithin
<1>3. ASSUME NEW x \in R, NEW y \in R, x.headings = y.headings
      PROVE  [y EXCEPT !.text = x.text \o y.text] \in R
  <2>0. OfOneSection(parts, x, x.headings) /\ OfOneSection(parts, y, y.headings)
    OBVIOUS
  <2> DEFINE P == Pieces(ElementTexts(document))
             both == x.text \o y.text
             chunk == [y EXCEPT !.text = both]
  <2>1. x.text \in Seq(P) /\ y.text \in Seq(P) /\ y \in Raw(document, paths)
    BY DEF Raw
  <2>2. /\ \A m \in DOMAIN x.text : PathOf(parts, x.text[m].element) \in {<<>>, y.headings}
        /\ \A m \in DOMAIN y.text : PathOf(parts, y.text[m].element) \in {<<>>, y.headings}
    BY <1>3, <2>0 DEF OfOneSection
  <2> HIDE DEF P, R, paths, parts
  <2>3. both \in Seq(P) /\ \A m \in DOMAIN both : both[m] \in Range(x.text) \cup Range(y.text)
    BY <2>1, JoinedElements
  <2> HIDE DEF both
  <2>4. \A piece \in Range(x.text) \cup Range(y.text) : PathOf(parts, piece.element) \in {<<>>, y.headings}
    BY <2>2 DEF Range
  <2>5. chunk \in Raw(document, paths) /\ chunk.text = both /\ chunk.headings = y.headings
    BY <2>1, <2>3 DEF Raw, P
  <2> HIDE DEF chunk
  <2>6. OfOneSection(parts, chunk, chunk.headings)
    BY <2>3, <2>4, <2>5 DEF OfOneSection
  <2>7. chunk \in R
    BY <2>5, <2>6 DEF R
  <2> QED BY <2>7 DEF chunk, both
<1>4. HybridChunks(document) \in Seq(R)
  <2> HIDE DEF R
  <2> QED BY <1>2, <1>3, HybridChunksWithin DEF paths
<1>5. HybridChunks(document)[n] \in R
  <2> HIDE DEF R
  <2> QED BY <1>4
<1>6. PICK chunk : chunk = HybridChunks(document)[n]
  OBVIOUS
<1> QED BY <1>5, <1>6

(* Chunks never straddle the sections of a source.                         *)
LEMMA ChunksKeepSections ==
    ASSUME NEW content \in Contents, content.parts # <<>>, NEW n \in 1..Len(ChunksOf[content])
    PROVE  OfOneSection(content.parts, ChunksOf[content][n], ChunksOf[content][n].section)
<1> DEFINE parts == content.parts
           document == Document(content)
           split == IF content.strategy = "line" THEN LineChunks(document) ELSE HybridChunks(document)
           chunks == ChunksOf[content]
<1>1. WellFormed(content) /\ IsDocument(document) /\ document = DocumentFromItem(parts)
  BY IsDocumentOf, SearchAssumption DEF Document
<1>2. chunks = [m \in DOMAIN split |-> [text |-> split[m].text,
                                       section |-> ChunkSectionPath(parts, split[m]),
                                       spans |-> CitationSpans(document, split[m].text)]]
  BY DEF ChunksOf, Chunks
<1>3. Len(chunks) \in Nat /\ \E T : chunks[n].text \in Seq(T)
  BY ChunkFacts
<1> HIDE DEF document, chunks
<1>4. \A m \in DOMAIN split : \E path : OfOneSection(parts, split[m], path)
  <2>1. CASE content.strategy = "line"
    BY <1>1, <2>1, LineSections
  <2>2. CASE content.strategy # "line"
    BY <1>1, <2>2, HybridSections
  <2> QED BY <2>1, <2>2
<1>5. Len(split) \in Nat /\ DOMAIN split = 1..Len(split)
  <2>1. \E R : split \in Seq(R)
    BY <1>1, ChunksUnderType, HybridChunksType DEF LineChunks
  <2> HIDE DEF split
  <2> QED BY <2>1
<1> HIDE DEF split
<1>6. n \in DOMAIN split
  <2>1. Len(chunks) = Len(split)
    BY <1>2, <1>5
  <2> QED BY <1>5, <2>1 DEF chunks
<1>7. chunks[n].text = split[n].text /\ chunks[n].section = ChunkSectionPath(parts, split[n])
  BY <1>2, <1>6
<1>8. PICK path : OfOneSection(parts, split[n], path)
  BY <1>4, <1>6
<1>9. OfOneSection(parts, split[n], chunks[n].section)
  BY <1>3, <1>7, <1>8, SectionOfChunk
<1> QED BY <1>7, <1>9 DEF OfOneSection, chunks

-----------------------------------------------------------------------------
(* The invariant of a search *)

Stages == {"ready", "processing", "cited", "tombstoned", "upserted", "failed"}
Chunked(d, version) == ChunksOf[versions[d][version]]

(* rows are those of the chunks that the document has now, all live.       *)
HoldsCurrent(rows, d) ==
    \A n \in Numbers : IF n <= Len(CurrentChunks(d)) THEN rows[n] = [version |-> Current(d), live |-> TRUE]
                       ELSE ~rows[n].live

IndexTyped ==
    /\ versions \in [Documents -> Seq(Contents)]
    /\ indexing \in [Documents -> Stages]
    /\ published \in [Documents -> Nat]
    /\ points \in [Documents -> [Numbers -> Row]]
    /\ citations \in [Documents -> [Numbers -> Row]]

(* A live point is one of the version that was published last, and none is *)
(* live while they are replaced; between the last write to a store and the *)
(* next run the store holds the current chunks and no others.              *)
IndexedDocument(d) ==
    /\ Current(d) \in 1..MaxVersions /\ published[d] \in 1..Current(d)
    /\ \A n \in Numbers : points[d][n].live =>
            /\ indexing[d] # "tombstoned"
            /\ points[d][n].version = published[d] /\ n <= Len(Chunked(d, published[d]))
    /\ indexing[d] \in {"cited", "tombstoned", "upserted", "ready"} => HoldsCurrent(citations[d], d)
    /\ indexing[d] \in {"upserted", "ready"} => HoldsCurrent(points[d], d)

Indexed == \A d \in Documents : IndexedDocument(d)

IndexInv == IndexTyped /\ Indexed

(* A hit is a chunk of a version the document has had.                     *)
DocumentHits ==
    {hit \in Hit : /\ hit.version \in 1..Current(hit.document)
                   /\ hit.number <= Len(Chunked(hit.document, hit.version))}

Outcomes == {"none", "success", "partial_success", "timeout", "retrieval_failure", "empty"}
ResultRow == [state : Failures \cup {"waiting", "answered"}, hits : Seq(Hit)]
CallRow == [stage : {"searching", "answered"}, since : [Documents -> Nat], outcome : Outcomes,
            evidence : Seq([reference : Nat, hit : Hit]), results : Seq(ResultRow)]
IdentityRow == [document : Documents, number : Numbers]
ShownRow == [reference : Nat, document : Documents, number : Numbers, version : Nat, since : Nat]

(* What the model has seen: each hit under its reference.                  *)
Citable ==
    {source \in [reference : DOMAIN references, hit : DocumentHits] :
        \E s \in shown : /\ s.reference = source.reference /\ s.document = source.hit.document
                         /\ s.number = source.hit.number /\ s.version = source.hit.version}

(* A call finds what was published when it began, or later, and what it    *)
(* gives as evidence has been shown.                                       *)
FoundSince(since) == {hit \in DocumentHits : hit.version >= since[hit.document]}
SoundCalls ==
    {call \in CallRow :
        /\ \A d \in Documents : call.since[d] <= published[d]
        /\ \A q \in DOMAIN call.results : Range(call.results[q].hits) \subseteq FoundSince(call.since)
        /\ Range(call.evidence) \subseteq Citable}

TurnTyped ==
    /\ readable \subseteq Collections /\ scope \subseteq Collections
    /\ phase \in {"new", "running", "answered"} /\ queries \in 0..MaxQueries
    /\ references \in Seq(IdentityRow) /\ OneEach(references)
    /\ shown \subseteq ShownRow
    /\ evidence \in [DOMAIN evidence -> Hit]

(* The reference of what was shown is its place among the references.      *)
Referenced ==
    \A s \in shown : /\ s.reference \in DOMAIN references
                     /\ references[s.reference] = Identity(s)
                     /\ s.version >= s.since

(* It is a chunk of a version the document has had.                        *)
ChunksShown ==
    \A s \in shown : \E hit \in DocumentHits :
        s.document = hit.document /\ s.number = hit.number /\ s.version = hit.version

TurnInv ==
    /\ TurnTyped
    /\ calls \in Seq(SoundCalls)
    /\ Referenced /\ ChunksShown
    /\ \A r \in DOMAIN evidence : [reference |-> r, hit |-> evidence[r]] \in Citable
    /\ answer # None => phase = "answered" /\ answer \in DocumentHits

(* A view that no run has overtaken is one of the current chunks, the      *)
(* cited one among them when the document still has its version.           *)
Viewed ==
    /\ view = [stage |-> view.stage, focused |-> view.focused, payloads |-> view.payloads,
               elements |-> view.elements, version |-> view.version, clean |-> view.clean]
    /\ view.stage \in {"none", "denied", "not_found", "points", "open"}
    /\ view.stage # "none" => answer # None
    /\ view.stage = "none" => ~view.clean
    /\ view.clean => view.version \in 1..Current(answer.document)
    /\ view.clean /\ view.stage = "points" =>
        /\ \A payload \in view.payloads :
            /\ payload.version = view.version /\ payload.number \in Numbers
            /\ payload.number <= Len(Chunked(answer.document, view.version))
        /\ view.focused /\ view.version = answer.version =>
            \E payload \in view.payloads : payload.number = answer.number

SearchInv == IndexInv /\ TurnInv /\ Viewed /\ CitationOpens

-----------------------------------------------------------------------------
(* The index beside a search *)

LEMMA NumbersType == \A n \in Numbers : n \in Int
BY DEF Numbers

LEMMA TombstonedType ==
    ASSUME NEW rows \in [Numbers -> Row]
    PROVE  Tombstoned(rows) \in [Numbers -> Row] /\ \A n \in Numbers : ~Tombstoned(rows)[n].live
BY DEF Tombstoned, Row

LEMMA ReplacedType ==
    ASSUME NEW rows \in [Numbers -> Row], NEW d, Current(d) \in 1..MaxVersions
    PROVE  Replaced(rows, d) \in [Numbers -> Row] /\ HoldsCurrent(Replaced(rows, d), d)
<1>1. [version |-> Current(d), live |-> TRUE] \in Row
  BY DEF Row
<1>2. \A n \in Numbers : [rows[n] EXCEPT !.live = FALSE] \in Row /\ ~[rows[n] EXCEPT !.live = FALSE].live
  BY DEF Row
<1> QED BY <1>1, <1>2 DEF Replaced, HoldsCurrent

(* What a document has had it keeps, and a version is published for good.  *)
Grown ==
    \A d \in Documents :
        /\ Current(d) <= Current(d)' /\ \A v \in 1..Current(d) : versions'[d][v] = versions[d][v]
        /\ published[d] <= published'[d]

LEMMA DocumentKept ==
    ASSUME NEW d, IndexedDocument(d), versions'[d] = versions[d], indexing'[d] = indexing[d],
           published'[d] = published[d], points'[d] = points[d], citations'[d] = citations[d]
    PROVE  IndexedDocument(d)'
BY DEF IndexedDocument, Current, CurrentChunks, Chunked, HoldsCurrent, ChunksOf

LEMMA IndexStep ==
    ASSUME IndexInv, NEW d \in Rewritten, Index(d)
    PROVE  IndexInv' /\ Grown
<1>0. /\ d \in Documents
      /\ versions \in [Documents -> Seq(Contents)] /\ indexing \in [Documents -> Stages]
      /\ published \in [Documents -> Nat]
      /\ points \in [Documents -> [Numbers -> Row]] /\ citations \in [Documents -> [Numbers -> Row]]
      /\ \A e \in Documents : IndexedDocument(e)
  BY SearchAssumption DEF IndexInv, IndexTyped, Indexed
<1>1. /\ Current(d) \in 1..MaxVersions /\ published[d] \in 1..Current(d) /\ MaxVersions \in Nat
      /\ Current(d) \in Nat /\ published[d] \in Nat
  BY <1>0, SearchAssumption DEF IndexedDocument
<1> DEFINE Goal == IndexTyped' /\ IndexedDocument(d)' /\ Grown
<1>2. /\ \A e \in Documents : e # d => /\ versions'[e] = versions[e] /\ indexing'[e] = indexing[e]
                                       /\ published'[e] = published[e] /\ points'[e] = points[e]
                                       /\ citations'[e] = citations[e]
  BY <1>0 DEF Index, StartIndexing, ReplaceForItem, TombstonePoints, UpsertPoints, MarkReady, FailIndexing, Stage
<1>3. SUFFICES Goal
  <2>1. ASSUME NEW e \in Documents, e # d PROVE IndexedDocument(e)'
    BY <1>0, <1>2, <2>1, DocumentKept
  <2> QED BY <1>0, <2>1 DEF IndexInv, Indexed
<1>4. ASSUME versions' = versions, published' = published PROVE Grown
  BY <1>0, <1>4 DEF Grown, Current, IndexedDocument
<1>5. CASE StartIndexing(d)
  <2>1. /\ indexing' = [indexing EXCEPT ![d] = "processing"]
        /\ UNCHANGED <<published, points, citations>>
    BY <1>5 DEF StartIndexing, Stage
  <2>2. CASE versions' = versions
    <3>1. IndexTyped'
      BY <1>0, <2>1, <2>2 DEF IndexTyped, Stages
    <3>2. IndexedDocument(d)'
      <4>1. indexing'[d] = "processing"
        BY <1>0, <2>1
      <4> QED BY <1>0, <2>1, <2>2, <4>1 DEF IndexedDocument, Current, Chunked
    <3> QED BY <1>4, <2>1, <2>2, <3>1, <3>2
  <2>3. CASE versions' # versions
    <3>1. PICK content \in Contents : /\ Current(d) < MaxVersions
                                      /\ versions' = [versions EXCEPT ![d] = Append(@, content)]
      BY <1>5, <2>3 DEF StartIndexing
    <3> DEFINE s == Append(versions[d], content)
    <3>2. /\ versions'[d] = s /\ s \in Seq(Contents) /\ Len(s) = Current(d) + 1
          /\ \A v \in 1..Current(d) : s[v] = versions[d][v]
      <4>1. versions[d] \in Seq(Contents)
        BY <1>0
      <4> QED BY <1>0, <3>1, <4>1 DEF Current
    <3> HIDE DEF s
    <3>3. IndexTyped'
      <4>1. versions' \in [Documents -> Seq(Contents)]
        BY <1>0, <3>1, <3>2 DEF s
      <4> QED BY <1>0, <2>1, <4>1 DEF IndexTyped, Stages
    <3>4. IndexedDocument(d)'
      <4>1. indexing'[d] = "processing"
        BY <1>0, <2>1
      <4>2. Current(d)' = Current(d) + 1 /\ versions'[d][published[d]] = versions[d][published[d]]
        BY <1>1, <3>2 DEF Current
      <4>3. Chunked(d, published[d])' = Chunked(d, published[d])
        BY <2>1, <4>2 DEF Chunked, ChunksOf
      <4>4. \A n \in Numbers : points[d][n].live =>
                points[d][n].version = published[d] /\ n <= Len(Chunked(d, published[d]))
        BY <1>0 DEF IndexedDocument
      <4> QED BY <1>1, <2>1, <3>1, <4>1, <4>2, <4>3, <4>4 DEF IndexedDocument
    <3>5. Grown
      <4> SUFFICES ASSUME NEW e \in Documents
                   PROVE  /\ Current(e) <= Current(e)' /\ \A v \in 1..Current(e) : versions'[e][v] = versions[e][v]
                          /\ published[e] <= published'[e]
        BY DEF Grown
      <4>1. published[e] <= published'[e]
        BY <1>0, <2>1
      <4>2. CASE e = d
        BY <1>1, <3>2, <4>1, <4>2 DEF Current
      <4>3. CASE e # d
        <5>1. versions'[e] = versions[e] /\ Current(e) \in Nat
          BY <1>0, <1>2, <4>3 DEF Current
        <5> QED BY <4>1, <5>1 DEF Current
      <4> QED BY <4>2, <4>3
    <3> QED BY <3>3, <3>4, <3>5
  <2> QED BY <2>2, <2>3
<1>6. CASE ReplaceForItem(d)
  <2>1. /\ indexing[d] = "processing" /\ indexing' = [indexing EXCEPT ![d] = "cited"]
        /\ citations' = [citations EXCEPT ![d] = Replaced(citations[d], d)]
        /\ UNCHANGED <<versions, published, points>>
    BY <1>6 DEF ReplaceForItem, Stage
  <2>2. Replaced(citations[d], d) \in [Numbers -> Row] /\ HoldsCurrent(Replaced(citations[d], d), d)
    BY <1>0, <1>1, ReplacedType
  <2>3. IndexTyped'
    BY <1>0, <2>1, <2>2 DEF IndexTyped, Stages
  <2>4. indexing'[d] = "cited" /\ citations'[d] = Replaced(citations[d], d)
    BY <1>0, <2>1
  <2>5. HoldsCurrent(citations[d], d)'
    BY <2>1, <2>2, <2>4 DEF HoldsCurrent, CurrentChunks, Current, ChunksOf
  <2>6. IndexedDocument(d)'
    BY <1>0, <2>1, <2>4, <2>5 DEF IndexedDocument, Current, Chunked, ChunksOf
  <2> QED BY <1>4, <2>1, <2>3, <2>6
<1>7. CASE TombstonePoints(d)
  <2>1. /\ indexing[d] = "cited" /\ indexing' = [indexing EXCEPT ![d] = "tombstoned"]
        /\ points' = [points EXCEPT ![d] = Tombstoned(points[d])]
        /\ UNCHANGED <<versions, published, citations>>
    BY <1>7 DEF TombstonePoints, Stage
  <2>2. Tombstoned(points[d]) \in [Numbers -> Row] /\ \A n \in Numbers : ~Tombstoned(points[d])[n].live
    BY <1>0, TombstonedType
  <2>3. IndexTyped'
    BY <1>0, <2>1, <2>2 DEF IndexTyped, Stages
  <2>4. indexing'[d] = "tombstoned" /\ points'[d] = Tombstoned(points[d])
    BY <1>0, <2>1
  <2>5. HoldsCurrent(citations[d], d)'
    BY <1>0, <2>1 DEF IndexedDocument, HoldsCurrent, CurrentChunks, Current, ChunksOf
  <2>6. IndexedDocument(d)'
    BY <1>1, <2>1, <2>2, <2>4, <2>5 DEF IndexedDocument, Current
  <2> QED BY <1>4, <2>1, <2>3, <2>6
<1>8. CASE UpsertPoints(d)
  <2> DEFINE rows == [n \in Numbers |-> IF n <= Len(CurrentChunks(d))
                                        THEN [version |-> Current(d), live |-> TRUE] ELSE points[d][n]]
  <2>1. /\ indexing[d] = "tombstoned" /\ indexing' = [indexing EXCEPT ![d] = "upserted"]
        /\ points' = [points EXCEPT ![d] = rows]
        /\ published' = [published EXCEPT ![d] = Current(d)]
        /\ UNCHANGED <<versions, citations>>
    BY <1>8 DEF UpsertPoints, Stage
  <2>2. \A n \in Numbers : ~points[d][n].live /\ points[d][n] \in Row
    BY <1>0, <2>1 DEF IndexedDocument
  <2>3. [version |-> Current(d), live |-> TRUE] \in Row
    BY <1>1 DEF Row
  <2>4. rows \in [Numbers -> Row] /\ HoldsCurrent(rows, d)
    BY <2>2, <2>3 DEF HoldsCurrent
  <2>5. /\ \A n \in Numbers : rows[n].live => n <= Len(CurrentChunks(d)) /\ rows[n].version = Current(d)
    BY <2>2
  <2> HIDE DEF rows
  <2>6. IndexTyped'
    BY <1>0, <1>1, <2>1, <2>4 DEF IndexTyped, Stages
  <2>7. /\ indexing'[d] = "upserted" /\ points'[d] = rows /\ published'[d] = Current(d)
    BY <1>0, <2>1
  <2>8. HoldsCurrent(citations[d], d)' /\ HoldsCurrent(points[d], d)'
    BY <1>0, <2>1, <2>4, <2>7 DEF IndexedDocument, HoldsCurrent, CurrentChunks, Current, ChunksOf
  <2>9. Current(d)' = Current(d) /\ Chunked(d, published[d])' = CurrentChunks(d)
    BY <2>1, <2>7 DEF Current, Chunked, CurrentChunks, ChunksOf
  <2>10. IndexedDocument(d)'
    BY <1>1, <2>5, <2>7, <2>8, <2>9 DEF IndexedDocument
  <2>11. Grown
    <3>1. \A e \in Documents : published[e] <= published'[e]
      BY <1>0, <1>1, <2>1
    <3> QED BY <1>0, <2>1, <3>1 DEF Grown, Current, IndexedDocument
  <2> QED BY <2>6, <2>10, <2>11
<1>9. CASE MarkReady(d)
  <2>1. /\ indexing[d] = "upserted" /\ indexing' = [indexing EXCEPT ![d] = "ready"]
        /\ UNCHANGED <<versions, published, points, citations>>
    BY <1>9 DEF MarkReady, Stage
  <2>2. indexing'[d] = "ready"
    BY <1>0, <2>1
  <2>3. IndexTyped'
    BY <1>0, <2>1 DEF IndexTyped, Stages
  <2>4. IndexedDocument(d)'
    BY <1>0, <2>1, <2>2 DEF IndexedDocument, HoldsCurrent, CurrentChunks, Current, Chunked, ChunksOf
  <2> QED BY <1>4, <2>1, <2>3, <2>4
<1>10. CASE FailIndexing(d)
  <2>1. /\ indexing' = [indexing EXCEPT ![d] = "failed"]
        /\ UNCHANGED <<versions, published, points, citations>>
    BY <1>10 DEF FailIndexing, Stage
  <2>2. indexing'[d] = "failed"
    BY <1>0, <2>1
  <2>3. IndexTyped'
    BY <1>0, <2>1 DEF IndexTyped, Stages
  <2>4. IndexedDocument(d)'
    BY <1>0, <2>1, <2>2 DEF IndexedDocument, Current, Chunked, ChunksOf
  <2> QED BY <1>4, <2>1, <2>3, <2>4
<1> QED BY <1>5, <1>6, <1>7, <1>8, <1>9, <1>10 DEF Index

LEMMA HitsKept ==
    ASSUME IndexInv, IndexInv', Grown
    PROVE  DocumentHits \subseteq DocumentHits'
<1> SUFFICES ASSUME NEW hit \in DocumentHits PROVE hit \in DocumentHits'
  OBVIOUS
<1> DEFINE d == hit.document
           v == hit.version
<1>1. hit \in Hit /\ d \in Documents /\ v \in 1..Current(d) /\ hit.number <= Len(Chunked(d, v))
  BY DEF DocumentHits, Hit
<1>2. Current(d) \in Int /\ Current(d)' \in Int /\ Current(d) <= Current(d)' /\ versions'[d][v] = versions[d][v]
  <2> HIDE DEF d, v
  <2>1. Current(d) \in 1..MaxVersions /\ Current(d)' \in 1..MaxVersions
    BY <1>1 DEF IndexInv, Indexed, IndexedDocument
  <2> QED BY <1>1, <2>1 DEF Grown
<1>3. v \in (1..Current(d))' /\ Chunked(d, v)' = Chunked(d, v)
  BY <1>1, <1>2 DEF Chunked
<1> QED BY <1>1, <1>3 DEF DocumentHits

(* A turn that a step leaves alone, beside an index that goes on.          *)
LEMMA CallsKept ==
    ASSUME IndexInv, Grown, IndexTyped', DocumentHits \subseteq DocumentHits', Citable \subseteq Citable'
    PROVE  SoundCalls \subseteq SoundCalls'
<1> SUFFICES ASSUME NEW call \in SoundCalls PROVE call \in SoundCalls'
  OBVIOUS
<1>1. call \in CallRow /\ Range(call.evidence) \subseteq Citable
      /\ \A q \in DOMAIN call.results : Range(call.results[q].hits) \subseteq FoundSince(call.since)
  BY DEF SoundCalls
<1>a. \A d \in Documents : call.since[d] <= published[d]
  BY DEF SoundCalls
<1>2. FoundSince(call.since) \subseteq FoundSince(call.since)'
  BY DEF FoundSince
<1>3. \A d \in Documents : call.since[d] \in Nat /\ published[d] \in Nat /\ published'[d] \in Nat
                           /\ published[d] <= published'[d]
  BY <1>1 DEF CallRow, IndexInv, IndexTyped, Grown
<1>4. ASSUME NEW d \in Documents PROVE call.since[d] <= published'[d]
  <2>1. call.since[d] <= published[d]
    BY <1>a
  <2> QED BY <1>3, <2>1
<1> QED BY <1>1, <1>2, <1>4 DEF SoundCalls

LEMMA CitableKept ==
    ASSUME DocumentHits \subseteq DocumentHits', references' = references, shown' = shown
    PROVE  Citable \subseteq Citable'
BY DEF Citable

LEMMA TurnKept ==
    ASSUME SearchInv, IndexInv', Grown, UNCHANGED turn, readable' \subseteq readable
    PROVE  TurnInv'
<1>1. DocumentHits \subseteq DocumentHits'
  BY HitsKept DEF SearchInv
<1>2. Citable \subseteq Citable'
  BY <1>1, CitableKept DEF turn
<1>3. SoundCalls \subseteq SoundCalls'
  BY <1>1, <1>2, CallsKept DEF SearchInv, IndexInv
<1>4. calls' \in Seq(SoundCalls')
  <2>1. calls \in Seq(SoundCalls) /\ calls' = calls
    BY DEF SearchInv, TurnInv, turn
  <2> QED BY <1>3, <2>1, SequenceWithin
<1>5. TurnTyped' /\ Referenced' /\ ChunksShown'
  BY <1>1 DEF SearchInv, TurnInv, TurnTyped, Referenced, ChunksShown, turn
<1> QED BY <1>1, <1>2, <1>4, <1>5 DEF SearchInv, TurnInv, turn

(* A reader who is not there yet, or whose document goes on without him.   *)
LEMMA ViewKept ==
    ASSUME SearchInv, IndexInv', Grown, view' = view, answer # None => answer' = answer
    PROVE  Viewed' /\ CitationOpens'
<1> USE DEF SearchInv
<1>1. CASE ~view.clean
  <2>1. Viewed'
    BY <1>1 DEF Viewed
  <2>2. CitationOpens'
    BY <1>1 DEF CitationOpens
  <2> QED BY <2>1, <2>2
<1>2. CASE view.clean
  <2>1. answer # None /\ answer' = answer /\ view.version \in 1..Current(answer.document)
    BY <1>2 DEF Viewed
  <2>2. answer.document \in Documents
    BY <2>1 DEF TurnInv, DocumentHits, Hit
  <2>3. PICK d \in Documents, v \in 1..Current(answer.document) : d = answer.document /\ v = view.version
    BY <2>1, <2>2
  <2>4. Current(d) \in Int /\ Current(d)' \in Int /\ Current(d) <= Current(d)' /\ versions'[d][v] = versions[d][v]
    <3>1. Current(d) \in 1..MaxVersions /\ Current(d)' \in 1..MaxVersions
      BY DEF IndexInv, Indexed, IndexedDocument
    <3> QED BY <2>1, <2>3, <3>1 DEF Grown
  <2>5. v \in (1..Current(d))' /\ Chunked(d, v)' = Chunked(d, v)
    BY <2>1, <2>3, <2>4 DEF Chunked
  <2>6. Current(answer.document)' = Current(d)' /\ Chunked(answer.document, view.version)' = Chunked(d, v)'
    BY <2>1, <2>3 DEF Current, Chunked
  <2>7. Viewed'
    BY <1>2, <2>1, <2>3, <2>5, <2>6 DEF Viewed
  <2>8. CitationOpens'
    BY <1>2, <2>1, <2>3, <2>4 DEF CitationOpens
  <2> QED BY <2>7, <2>8
<1> QED BY <1>1, <1>2

LEMMA IndexSame ==
    ASSUME IndexInv, UNCHANGED index
    PROVE  IndexInv' /\ Grown
<1>1. IndexTyped'
  BY DEF IndexInv, IndexTyped, index
<1>2. \A d \in Documents : IndexedDocument(d)'
  BY DocumentKept DEF IndexInv, Indexed, index
<1>3. \A d \in Documents : Current(d) \in Int /\ published[d] \in Int
  BY DEF IndexInv, Indexed, IndexedDocument
<1> QED BY <1>1, <1>2, <1>3 DEF IndexInv, Indexed, Grown, Current, index

LEMMA SearchStarts ==
    ASSUME SearchInit
    PROVE  SearchInv
<1>1. PICK content \in Contents : versions = [d \in Documents |-> <<content>>]
  BY DEF SearchInit
<1>2. \A d \in Documents : versions[d] = <<content>> /\ Current(d) = 1
  BY <1>1 DEF Current
<1>3. \A d \in Documents : /\ indexing[d] = "ready" /\ published[d] = 1
                           /\ points[d] = citations[d]
                           /\ \A n \in Numbers : points[d][n] = IF n <= Len(CurrentChunks(d))
                                                 THEN [version |-> 1, live |-> TRUE] ELSE Absent
  BY DEF SearchInit
<1>4. 1 \in 1..MaxVersions /\ MaxVersions \in Nat
  BY SearchAssumption
<1>5. IndexTyped
  <2>1. [version |-> 1, live |-> TRUE] \in Row /\ Absent \in Row
    BY <1>4 DEF Row, Absent
  <2>2. versions \in [Documents -> Seq(Contents)]
    BY <1>1
  <2>3. points \in [Documents -> [Numbers -> Row]] /\ citations = points
    BY <2>1 DEF SearchInit
  <2> QED BY <2>2, <2>3 DEF IndexTyped, SearchInit, Stages
<1>6. ASSUME NEW d \in Documents PROVE IndexedDocument(d)
  <2>1. HoldsCurrent(points[d], d) /\ HoldsCurrent(citations[d], d)
    <3>1. \A n \in Numbers : IF n <= Len(CurrentChunks(d)) THEN points[d][n] = [version |-> 1, live |-> TRUE]
                             ELSE ~points[d][n].live
      BY <1>3 DEF Absent
    <3> QED BY <1>2, <1>3, <3>1 DEF HoldsCurrent
  <2>2. \A n \in Numbers : points[d][n].live => points[d][n].version = 1 /\ n <= Len(CurrentChunks(d))
    BY <1>3 DEF Absent
  <2>3. Chunked(d, published[d]) = CurrentChunks(d)
    BY <1>2, <1>3 DEF Chunked, CurrentChunks
  <2> QED BY <1>2, <1>3, <1>4, <2>1, <2>2, <2>3 DEF IndexedDocument
<1>7. TurnInv
  <2>1. /\ readable \subseteq Collections /\ scope = {} /\ phase = "new" /\ queries = 0 /\ calls = <<>>
        /\ references = <<>> /\ evidence = <<>> /\ shown = {} /\ answer = None
    BY DEF SearchInit
  <2>2. queries \in 0..MaxQueries
    BY <2>1, SearchAssumption
  <2>3. TurnTyped
    BY <2>1, <2>2 DEF TurnTyped, OneEach
  <2> QED BY <2>1, <2>3 DEF TurnInv, Referenced, ChunksShown
<1>8. Viewed /\ CitationOpens
  BY DEF SearchInit, NoView, Viewed, CitationOpens
<1> QED BY <1>5, <1>6, <1>7, <1>8 DEF SearchInv, IndexInv, Indexed

-----------------------------------------------------------------------------
(* The steps of a turn *)

(* What a step of the turn leaves alone.                                   *)
LEMMA BesideTheTurn ==
    ASSUME SearchInv, UNCHANGED <<index, readable, view>>, answer # None => answer' = answer, TurnInv'
    PROVE  SearchInv'
<1>1. IndexInv' /\ Grown
  BY IndexSame DEF SearchInv
<1> QED BY <1>1, ViewKept DEF SearchInv

LEMMA HitsSame ==
    ASSUME UNCHANGED index
    PROVE  DocumentHits' = DocumentHits
BY DEF DocumentHits, Current, Chunked, index

LEMMA ResolveScopeStep ==
    ASSUME SearchInv, NEW selected, ResolveScope(selected)
    PROVE  SearchInv'
<1>1. UNCHANGED <<index, readable, queries, calls, references, evidence, shown, answer, view>>
      /\ scope' \subseteq readable /\ phase' = "running" /\ phase = "new"
  BY DEF ResolveScope
<1>2. Citable' = Citable /\ SoundCalls' = SoundCalls
  <2>1. DocumentHits' = DocumentHits
    BY <1>1, HitsSame
  <2>2. Citable' = Citable
    BY <1>1, <2>1 DEF Citable
  <2>3. published' = published
    BY <1>1 DEF index
  <2> QED BY <2>1, <2>2, <2>3 DEF SoundCalls, FoundSince
<1>3. TurnInv'
  BY <1>1, <1>2, HitsSame DEF SearchInv, TurnInv, TurnTyped, Referenced, ChunksShown
<1> QED BY <1>1, <1>3, BesideTheTurn

LEMMA SequenceChanged ==
    ASSUME NEW S, NEW s \in Seq(S), NEW c \in DOMAIN s, NEW x \in S
    PROVE  [s EXCEPT ![c] = x] \in Seq(S)
OBVIOUS

(* What a step of the turn may do to its calls while none of them ends.    *)
LEMMA CallsStep ==
    ASSUME SearchInv, queries' \in 0..MaxQueries, calls' \in Seq(SoundCalls),
           UNCHANGED <<index, readable, scope, phase, references, evidence, shown, answer, view>>
    PROVE  SearchInv'
<1>1. Citable' = Citable /\ SoundCalls' = SoundCalls
  <2>1. DocumentHits' = DocumentHits
    BY HitsSame
  <2>2. Citable' = Citable
    BY <2>1 DEF Citable
  <2>3. published' = published
    BY DEF index
  <2> QED BY <2>1, <2>2, <2>3 DEF SoundCalls, FoundSince
<1>2. TurnInv'
  BY <1>1, HitsSame DEF SearchInv, TurnInv, TurnTyped, Referenced, ChunksShown
<1> QED BY <1>2, BesideTheTurn

LEMMA StartRoundStep ==
    ASSUME SearchInv, NEW asked \in Rounds, StartRound(asked)
    PROVE  SearchInv'
<1> DEFINE new(c) == [stage |-> "searching", since |-> published, outcome |-> "none", evidence |-> <<>>,
                      results |-> [q \in 1..asked[c] |-> Result("waiting", <<>>)]]
<1>1. /\ UNCHANGED <<index, readable, scope, phase, references, evidence, shown, answer, view>>
      /\ calls' = [c \in DOMAIN asked |-> new(c)]
      /\ queries' = queries + Folded(+, 0, asked) /\ queries' <= MaxQueries
  BY DEF StartRound
<1>2. asked \in Seq(Nat)
  BY SearchAssumption
<1>3. queries' \in 0..MaxQueries
  <2>1. queries \in Nat /\ MaxQueries \in Nat
    BY SearchAssumption DEF SearchInv, TurnInv, TurnTyped
  <2> DEFINE total == Folded(+, 0, asked)
  <2>2. total \in Nat
    BY <1>2, SumType
  <2>3. queries' = queries + total /\ queries' <= MaxQueries
    BY <1>1
  <2> HIDE DEF total
  <2> QED BY <2>1, <2>2, <2>3
<1>4. ASSUME NEW c \in DOMAIN asked PROVE new(c) \in SoundCalls
  <2>1. asked[c] \in Nat
    BY <1>2
  <2>2. Result("waiting", <<>>) \in ResultRow
    BY DEF Result, ResultRow
  <2>3. new(c).results \in Seq(ResultRow)
    BY <2>1, <2>2
  <2>4. published \in [Documents -> Nat]
    BY DEF SearchInv, IndexInv, IndexTyped
  <2>5. new(c) \in CallRow
    BY <2>3, <2>4 DEF CallRow, Outcomes
  <2>6. \A q \in DOMAIN new(c).results : Range(new(c).results[q].hits) = {}
    BY DEF Result, Range
  <2>7. \A d \in Documents : new(c).since[d] <= published[d]
    BY <2>4
  <2>8. Range(new(c).evidence) = {}
    BY DEF Range
  <2> HIDE DEF new
  <2> QED BY <2>5, <2>6, <2>7, <2>8 DEF SoundCalls
<1>5. calls' \in Seq(SoundCalls)
  <2> HIDE DEF new
  <2>1. Len(asked) \in Nat /\ DOMAIN asked = 1..Len(asked)
    BY <1>2
  <2>2. calls' \in [1..Len(asked) -> SoundCalls]
    BY <1>1, <1>4, <2>1
  <2> QED BY <2>1, <2>2, FunctionSequence
<1> QED BY <1>1, <1>3, <1>5, CallsStep

(* One call gets new results.                                              *)
LEMMA ResultsStep ==
    ASSUME SearchInv, NEW c \in DOMAIN calls, NEW results \in Seq(ResultRow),
           \A q \in DOMAIN results : Range(results[q].hits) \subseteq FoundSince(calls[c].since),
           calls' = [calls EXCEPT ![c] = [calls[c] EXCEPT !.results = results]],
           UNCHANGED <<index, readable, scope, phase, queries, references, evidence, shown, answer, view>>
    PROVE  SearchInv'
<1>1. calls \in Seq(SoundCalls) /\ calls[c] \in SoundCalls
  BY DEF SearchInv, TurnInv
<1> DEFINE call == [calls[c] EXCEPT !.results = results]
<1>2. calls[c] \in CallRow
  BY <1>1 DEF SoundCalls
<1>3. call \in CallRow /\ call.since = calls[c].since /\ call.evidence = calls[c].evidence /\ call.results = results
  BY <1>2 DEF CallRow
<1>4. call \in SoundCalls
  <2> HIDE DEF call
  <2> QED BY <1>1, <1>3 DEF SoundCalls
<1>5. calls' \in Seq(SoundCalls)
  <2> HIDE DEF call
  <2>1. calls' = [calls EXCEPT ![c] = call]
    BY DEF call
  <2>2. c \in DOMAIN calls
    OBVIOUS
  <2>3. PICK changed : changed = [calls EXCEPT ![c] = call]
    OBVIOUS
  <2>4. changed \in Seq(SoundCalls)
    BY <1>1, <1>4, <2>2, <2>3
  <2> QED BY <2>1, <2>3, <2>4
<1>6. queries' \in 0..MaxQueries
  BY DEF SearchInv, TurnInv, TurnTyped
<1> QED BY <1>5, <1>6, CallsStep

LEMMA CallTyped ==
    ASSUME SearchInv, NEW c \in DOMAIN calls
    PROVE  /\ calls[c] \in CallRow /\ calls[c].results \in Seq(ResultRow)
           /\ \A q \in DOMAIN calls[c].results :
                Range(calls[c].results[q].hits) \subseteq FoundSince(calls[c].since)
<1>1. calls[c] \in SoundCalls
  BY DEF SearchInv, TurnInv
<1> QED BY <1>1 DEF SoundCalls, CallRow

LEMMA EndQueryStep ==
    ASSUME SearchInv, NEW c, NEW q, NEW result \in ResultRow, EndQuery(c, q, result),
           Range(result.hits) \subseteq FoundSince(calls[c].since)
    PROVE  SearchInv'
<1>1. /\ c \in DOMAIN calls /\ q \in DOMAIN calls[c].results
      /\ calls' = [calls EXCEPT ![c].results[q] = result]
      /\ UNCHANGED <<index, readable, scope, phase, queries, references, evidence, shown, answer, view>>
  BY DEF EndQuery, Searching, Waiting
<1> DEFINE results == [calls[c].results EXCEPT ![q] = result]
<1>2. calls' = [calls EXCEPT ![c] = [calls[c] EXCEPT !.results = results]]
  BY <1>1
<1>3. results \in Seq(ResultRow) /\ DOMAIN results = DOMAIN calls[c].results
  BY <1>1, CallTyped
<1>4. \A p \in DOMAIN results : Range(results[p].hits) \subseteq FoundSince(calls[c].since)
  <2>1. \A p \in DOMAIN results : results[p] = IF p = q THEN result ELSE calls[c].results[p]
    BY <1>1
  <2> HIDE DEF results
  <2> QED BY <1>1, <1>3, <2>1, CallTyped
<1> HIDE DEF results
<1> QED BY <1>1, <1>2, <1>3, <1>4, ResultsStep

LEMMA QueryFailsStep ==
    ASSUME SearchInv, NEW c, NEW q, QueryFails(c, q)
    PROVE  SearchInv'
<1> DEFINE result == Result("retrieval_failure", <<>>)
<1>1. result \in ResultRow /\ Range(result.hits) = {}
  BY DEF Result, ResultRow, Failures, Range
<1>2. EndQuery(c, q, result)
  BY DEF QueryFails
<1> HIDE DEF result
<1> QED BY <1>1, <1>2, EndQueryStep

LEMMA DeadlineStep ==
    ASSUME SearchInv, NEW c, Deadline(c)
    PROVE  SearchInv'
<1> DEFINE late == Result("timeout", <<>>)
           old == calls[c].results
           results == [q \in DOMAIN old |-> IF q \in Waiting(c) THEN late ELSE old[q]]
<1>1. /\ c \in DOMAIN calls
      /\ calls' = [calls EXCEPT ![c].results =
            [q \in DOMAIN @ |-> IF q \in Waiting(c) THEN Result("timeout", <<>>) ELSE @[q]]]
      /\ UNCHANGED <<index, readable, scope, phase, queries, references, evidence, shown, answer, view>>
  BY DEF Deadline, Searching
<1>2. calls' = [calls EXCEPT ![c] = [calls[c] EXCEPT !.results = results]]
  BY <1>1
<1>3. late \in ResultRow /\ Range(late.hits) = {}
  BY DEF Result, ResultRow, Failures, Range
<1>4. old \in Seq(ResultRow) /\ \A q \in DOMAIN old : Range(old[q].hits) \subseteq FoundSince(calls[c].since)
  BY <1>1, CallTyped
<1> HIDE DEF late, old
<1>5. results \in Seq(ResultRow)
  BY <1>3, <1>4
<1>6. \A q \in DOMAIN results : Range(results[q].hits) \subseteq FoundSince(calls[c].since)
  BY <1>3, <1>4
<1> HIDE DEF results
<1> QED BY <1>1, <1>2, <1>5, <1>6, ResultsStep

(* A finite set of numbers has a bound.                                    *)
LEMMA FiniteBound ==
    ASSUME NEW S \in SUBSET Nat, IsFiniteSet(S)
    PROVE  \E m \in Nat : \A x \in S : x <= m
<1> DEFINE n == Cardinality(S)
<1>1. n \in Nat /\ ExistsBijection(1..n, S)
  BY FS_CardinalityType
<1> HIDE DEF n
<1>2. PICK f \in [1..n -> S] : \A x \in S : \E i \in 1..n : f[i] = x
  BY <1>1 DEF ExistsBijection, Bijection, Surjection, Injection
<1>a. \A i \in 1..n : f[i] \in Nat
  BY <1>2
<1> DEFINE T == {k \in Nat : k <= n => \E m \in Nat : \A i \in 1..k : f[i] <= m}
<1>3. 0 \in T
  OBVIOUS
<1>4. ASSUME NEW k \in T PROVE k + 1 \in T
  <2> SUFFICES ASSUME k + 1 <= n PROVE \E m \in Nat : \A i \in 1..(k + 1) : f[i] <= m
    OBVIOUS
  <2>1. PICK m \in Nat : \A i \in 1..k : f[i] <= m
    BY <1>1
  <2>2. k \in Nat /\ k + 1 \in 1..n /\ f[k + 1] \in Nat /\ \A i \in 1..k : f[i] \in Nat
    <3>1. k \in Nat
      OBVIOUS
    <3> HIDE DEF T
    <3>2. k + 1 \in 1..n /\ \A i \in 1..k : i \in 1..n
      BY <1>1, <3>1
    <3> QED BY <1>a, <3>1, <3>2
  <2> HIDE DEF T
  <2>3. CASE f[k + 1] <= m
    <3>1. \A i \in 1..(k + 1) : i = k + 1 \/ i \in 1..k
      BY <2>2
    <3>2. \A i \in 1..(k + 1) : f[i] <= m
      BY <2>1, <2>3, <3>1
    <3> QED BY <3>2
  <2>4. CASE m <= f[k + 1]
    <3>1. \A i \in 1..(k + 1) : i = k + 1 \/ i \in 1..k
      BY <2>2
    <3>2. \A i \in 1..(k + 1) : f[i] <= f[k + 1]
      BY <2>1, <2>2, <2>4, <3>1
    <3> QED BY <2>2, <3>2
  <2> QED BY <2>2, <2>3, <2>4
<1>5. T = Nat
  <2>1. T \in SUBSET Nat
    OBVIOUS
  <2> HIDE DEF T
  <2> QED BY <1>3, <1>4, <2>1, AllNumbers
<1>6. \E m \in Nat : \A i \in 1..n : f[i] <= m
  <2>1. n \in T
    <3> HIDE DEF T
    <3> QED BY <1>1, <1>5
  <2> QED BY <1>1, <2>1
<1> QED BY <1>2, <1>6

LEMMA MaxChunksType ==
    ASSUME Contents # {}
    PROVE  MaxChunks \in Nat
<1> DEFINE f == [content \in Contents |-> Len(ChunksOf[content])]
           lengths == {Len(ChunksOf[content]) : content \in Contents}
<1>1. lengths \in SUBSET Nat /\ lengths # {}
  BY ChunkFacts
<1>2. IsFiniteSet(lengths)
  <2>1. f \in Surjection(Contents, lengths)
    BY DEF Surjection
  <2> HIDE DEF f, lengths
  <2> QED BY <2>1, FS_Surjection, SearchAssumption
<1>3. MaxChunks = Max(lengths)
  BY DEF MaxChunks
<1> HIDE DEF lengths
<1>4. PICK m \in Nat : \A x \in lengths : x <= m
  BY <1>1, <1>2, FiniteBound
<1>5. lengths \in SUBSET (0..m)
  BY <1>1, <1>4
<1>6. Max(lengths) \in lengths
  BY <1>1, <1>5, LargestOf
<1> QED BY <1>1, <1>3, <1>6

(* A search sees finitely many points: no number has two versions.         *)
LEMMA CandidatesFinite ==
    ASSUME SearchInv
    PROVE  IsFiniteSet(Candidates)
<1>1. CASE Candidates = {}
  BY <1>1, FS_EmptySet
<1>2. CASE Candidates # {}
  <2>1. Contents # {}
    <3>1. PICK d : d \in Documents
      BY <1>2 DEF Candidates
    <3>2. versions[d] \in Seq(Contents) /\ Len(versions[d]) \in 1..MaxVersions
      BY <3>1 DEF SearchInv, IndexInv, IndexTyped, Indexed, IndexedDocument, Current
    <3> QED BY <3>2
  <2>2. IsFiniteSet(Numbers)
    <3>1. MaxChunks \in Int
      BY <2>1, MaxChunksType
    <3> QED BY <3>1, FS_Interval DEF Numbers
  <2> DEFINE P == Documents \X Numbers
             hit(p) == [document |-> p[1], number |-> p[2], version |-> points[p[1]][p[2]].version]
             f == [p \in P |-> hit(p)]
             hits == {hit(p) : p \in P}
  <2>3. IsFiniteSet(P)
    BY <2>2, FS_Product, SearchAssumption
  <2>4. f \in Surjection(P, hits)
    <3> HIDE DEF P, hit
    <3> QED BY DEF Surjection
  <2>5. Candidates \in SUBSET hits
    <3> SUFFICES ASSUME NEW h \in Candidates PROVE h \in hits
      OBVIOUS
    <3>1. h \in [document : Documents, number : Numbers, version : 1..MaxVersions]
          /\ points[h.document][h.number] = [version |-> h.version, live |-> TRUE]
      BY DEF Candidates
    <3>2. <<h.document, h.number>> \in P /\ h = hit(<<h.document, h.number>>)
      BY <3>1
    <3> HIDE DEF P, hit
    <3> QED BY <3>2
  <2>6. IsFiniteSet(hits)
    <3> HIDE DEF P, f, hits
    <3> QED BY <2>3, <2>4, FS_Surjection
  <2> HIDE DEF hits
  <2> QED BY <2>5, <2>6, FS_Subset
<1> QED BY <1>1, <1>2

LEMMA SearchFinds ==
    ASSUME SearchInv, NEW hits \in SearchItemContent
    PROVE  \E k \in Nat : hits \in [1..k -> Candidates]
<1>1. CASE scope = {}
  BY <1>1 DEF SearchItemContent
<1>2. CASE scope # {}
  <2> DEFINE k == Min({ResultLimit, Cardinality(Candidates)})
  <2>1. hits \in [1..k -> Candidates]
    BY <1>2 DEF SearchItemContent, Rankings
  <2>2. k \in Nat
    <3>1. Cardinality(Candidates) \in Nat /\ ResultLimit \in Nat
      BY CandidatesFinite, FS_CardinalityType, SearchAssumption
    <3>2. Cardinality(Candidates) \in Int /\ ResultLimit \in Int
      BY <3>1
    <3>3. k \in {ResultLimit, Cardinality(Candidates)}
      BY <3>2, MinOfTwo
    <3> HIDE DEF k
    <3> QED BY <3>1, <3>3
  <2> HIDE DEF k
  <2> QED BY <2>1, <2>2
<1> QED BY <1>1, <1>2

(* What is live in the index was published last.                           *)
LEMMA CandidateFacts ==
    ASSUME SearchInv, NEW c \in DOMAIN calls, NEW hit \in Candidates, NEW score \in 1..2
    PROVE  [document |-> hit.document, number |-> hit.number, version |-> hit.version, score |-> score]
             \in FoundSince(calls[c].since)
<1> DEFINE d == hit.document
           n == hit.number
           v == hit.version
           found == [document |-> d, number |-> n, version |-> v, score |-> score]
<1>1. d \in Documents /\ n \in Numbers /\ v \in 1..MaxVersions
      /\ points[d][n] = [version |-> v, live |-> TRUE]
  BY DEF Candidates
<1>2. found \in Hit
  BY <1>1 DEF Hit
<1>3. points[d][n].live /\ points[d][n].version = v
  BY <1>1
<1> HIDE DEF d, n, v
<1>4. v = published[d] /\ n <= Len(Chunked(d, v)) /\ v \in 1..Current(d)
  BY <1>1, <1>3 DEF SearchInv, IndexInv, Indexed, IndexedDocument
<1>5. found.document = d /\ found.number = n /\ found.version = v
  OBVIOUS
<1> HIDE DEF found
<1>6. found \in DocumentHits
  BY <1>2, <1>4, <1>5 DEF DocumentHits
<1>7. calls[c] \in SoundCalls
  BY DEF SearchInv, TurnInv
<1>8. calls[c].since[d] <= v
  BY <1>1, <1>4, <1>7 DEF SoundCalls
<1>9. calls[c].since[d] \in Int /\ v \in Int
  BY <1>1, <1>4, <1>7 DEF SoundCalls, CallRow, SearchInv, IndexInv, IndexTyped
<1> QED BY <1>5, <1>6, <1>8, <1>9 DEF FoundSince, found, d, n, v

LEMMA RetrieveStep ==
    ASSUME SearchInv, NEW c, NEW q, Retrieve(c, q)
    PROVE  SearchInv'
<1>1. PICK hits \in SearchItemContent, score \in 1..2 :
        EndQuery(c, q, Result("answered", [n \in DOMAIN hits |->
            [document |-> hits[n].document, number |-> hits[n].number,
             version |-> hits[n].version, score |-> score]]))
  BY DEF Retrieve
<1>2. c \in DOMAIN calls
  BY <1>1 DEF EndQuery, Searching
<1>3. PICK k \in Nat : hits \in [1..k -> Candidates]
  BY SearchFinds
<1> DEFINE row(hit) == [document |-> hit.document, number |-> hit.number,
                        version |-> hit.version, score |-> score]
           rows == [n \in DOMAIN hits |-> row(hits[n])]
           result == Result("answered", rows)
<1>4. EndQuery(c, q, result)
  BY <1>1
<1>5. \A hit \in Candidates : row(hit) \in FoundSince(calls[c].since)
  BY <1>2, CandidateFacts
<1> HIDE DEF row
<1>6. rows \in [1..k -> FoundSince(calls[c].since)]
  BY <1>3, <1>5
<1>7. rows \in Seq(Hit)
  <2>1. FoundSince(calls[c].since) \subseteq Hit
    BY DEF FoundSince, DocumentHits
  <2> HIDE DEF rows
  <2>2. rows \in [1..k -> Hit]
    BY <1>6, <2>1
  <2> QED BY <1>3, <2>2, FunctionSequence
<1>8. Range(rows) \subseteq FoundSince(calls[c].since)
  <2> HIDE DEF rows
  <2> QED BY <1>6 DEF Range
<1> HIDE DEF rows
<1>9. result \in ResultRow /\ result.hits = rows
  BY <1>7 DEF Result, ResultRow
<1> HIDE DEF result
<1> QED BY <1>4, <1>8, <1>9, EndQueryStep

(* What a call that ends gives as evidence and shows, ref being the        *)
(* references of its hits.                                                 *)
EvidenceOf(ref, hits) == [n \in DOMAIN hits |-> [reference |-> ref[hits[n]], hit |-> hits[n]]]
EndedWith(call, outcome, sources) ==
    [call EXCEPT !.stage = "answered", !.outcome = outcome, !.evidence = sources]
ShownRows(since, ref, hits) ==
    {[reference |-> ref[hit], document |-> hit.document, number |-> hit.number,
      version |-> hit.version, since |-> since[hit.document]] : hit \in Range(hits)}

(* The identities of more hits have references; the hits are shown, and    *)
(* are the evidence of one call.                                           *)
LEMMA EvidenceStep ==
    ASSUME SearchInv, NEW c \in DOMAIN calls, NEW hits \in Seq(FoundSince(calls[c].since)),
           NEW assigned \in Seq(IdentityRow), OneEach(assigned), Extends(assigned, references),
           NEW ref, \A hit \in Range(hits) : ref[hit] \in DOMAIN assigned /\ assigned[ref[hit]] = Identity(hit),
           NEW outcome \in Outcomes,
           references' = assigned,
           calls' = [calls EXCEPT ![c] = EndedWith(calls[c], outcome, EvidenceOf(ref, hits))],
           shown' = shown \cup ShownRows(calls[c].since, ref, hits),
           UNCHANGED <<index, readable, scope, phase, queries, evidence, answer, view>>
    PROVE  SearchInv'
<1> DEFINE since == calls[c].since
           row(hit) == [reference |-> ref[hit], document |-> hit.document, number |-> hit.number,
                        version |-> hit.version, since |-> since[hit.document]]
           rows == {row(hit) : hit \in Range(hits)}
           sources == [n \in DOMAIN hits |-> [reference |-> ref[hits[n]], hit |-> hits[n]]]
           call == EndedWith(calls[c], outcome, sources)
<1>1. DocumentHits' = DocumentHits
  BY HitsSame
<1>2. calls \in Seq(SoundCalls) /\ calls[c] \in SoundCalls /\ calls[c] \in CallRow
  BY CallTyped DEF SearchInv, TurnInv
<1>3. /\ references \in Seq(IdentityRow) /\ OneEach(references) /\ shown \subseteq ShownRow
  BY DEF SearchInv, TurnInv, TurnTyped
<1>4. DOMAIN references \subseteq DOMAIN assigned /\ DOMAIN assigned \subseteq Nat
      /\ \A i \in DOMAIN references : assigned[i] = references[i]
  <2>1. /\ Len(references) \in Nat /\ DOMAIN references = 1..Len(references)
        /\ Len(assigned) \in Nat /\ DOMAIN assigned = 1..Len(assigned)
    BY <1>3
  <2>2. Len(references) <= Len(assigned) /\ \A i \in 1..Len(references) : assigned[i] = references[i]
    BY DEF Extends
  <2> QED BY <2>1, <2>2
<1>5. shown' = shown \cup rows /\ calls' = [calls EXCEPT ![c] = call]
  BY DEF ShownRows, EvidenceOf
<1>6. Range(hits) \subseteq FoundSince(since) /\ FoundSince(since) \subseteq DocumentHits
      /\ DocumentHits \subseteq Hit
  <2>1. Range(hits) \subseteq FoundSince(since)
    BY DEF Range
  <2> QED BY <2>1 DEF FoundSince, DocumentHits
<1>7. Citable \subseteq Citable'
  BY <1>1, <1>4, <1>5 DEF Citable
<1>8. SoundCalls \subseteq SoundCalls'
  BY <1>1, <1>7 DEF SoundCalls, FoundSince, index
<1>9. ASSUME NEW hit \in Range(hits)
      PROVE  /\ [reference |-> ref[hit], hit |-> hit] \in Citable'
             /\ row(hit) \in ShownRow /\ row(hit).reference \in DOMAIN assigned
             /\ assigned[row(hit).reference] = Identity(row(hit)) /\ row(hit).version >= row(hit).since
             /\ hit \in DocumentHits /\ row(hit).document = hit.document
             /\ row(hit).number = hit.number /\ row(hit).version = hit.version
  <2>1. hit \in DocumentHits /\ hit \in Hit /\ hit.version >= since[hit.document] /\ ref[hit] \in DOMAIN assigned
        /\ assigned[ref[hit]] = Identity(hit)
    BY <1>6 DEF FoundSince
  <2>2. since \in [Documents -> Nat] /\ hit.document \in Documents /\ hit.number \in Numbers
        /\ hit.version \in Nat
    BY <1>2, <2>1, SearchAssumption DEF CallRow, Hit
  <2>3. row(hit) \in rows
    OBVIOUS
  <2>4. row(hit).reference = ref[hit] /\ row(hit).document = hit.document /\ row(hit).number = hit.number
        /\ row(hit).version = hit.version /\ row(hit).since = since[hit.document]
    OBVIOUS
  <2>5. row(hit) \in ShownRow
    <3> HIDE DEF since
    <3> QED BY <1>4, <2>1, <2>2 DEF ShownRow
  <2> HIDE DEF since, row, rows
  <2>6. [reference |-> ref[hit], hit |-> hit] \in Citable'
    <3> DEFINE source == [reference |-> ref[hit], hit |-> hit]
    <3>1. source \in [reference : DOMAIN references', hit : DocumentHits'] /\ row(hit) \in shown'
          /\ source.reference = ref[hit] /\ source.hit = hit
      BY <1>1, <1>5, <2>1, <2>3
    <3> HIDE DEF source
    <3>2. source \in Citable'
      BY <2>4, <3>1 DEF Citable
    <3> QED BY <3>2 DEF source
  <2> QED BY <2>1, <2>4, <2>5, <2>6 DEF Identity
<1>10. sources \in Seq([reference : Nat, hit : Hit])
  <2>1. \A n \in DOMAIN hits : hits[n] \in Range(hits) /\ ref[hits[n]] \in Nat /\ hits[n] \in Hit
    BY <1>4, <1>6 DEF Range
  <2>2. Len(hits) \in Nat /\ DOMAIN hits = 1..Len(hits)
    OBVIOUS
  <2>3. sources \in [1..Len(hits) -> [reference : Nat, hit : Hit]]
    BY <2>1, <2>2
  <2> HIDE DEF sources
  <2> QED BY <2>2, <2>3, FunctionSequence
<1>11. Range(sources) \subseteq Citable'
  <2>1. \A n \in DOMAIN hits : hits[n] \in Range(hits)
    BY DEF Range
  <2>2. \A n \in DOMAIN sources : sources[n] \in Citable'
    BY <1>9, <2>1
  <2> HIDE DEF sources
  <2> QED BY <2>2 DEF Range
<1> HIDE DEF sources, row
<1>12. /\ call \in CallRow /\ call.since = calls[c].since /\ call.evidence = sources
       /\ call.results = calls[c].results
  BY <1>2, <1>10 DEF CallRow, EndedWith
<1>13. call \in SoundCalls'
  <2> HIDE DEF call
  <2>1. calls[c] \in SoundCalls'
    BY <1>2, <1>8
  <2> QED BY <1>11, <1>12, <2>1 DEF SoundCalls
<1> HIDE DEF call, rows, since
<1>14. calls' \in Seq(SoundCalls')
  <2>1. calls \in Seq(SoundCalls')
    BY <1>2, <1>8, SequenceWithin
  <2> QED BY <1>5, <1>13, <2>1, SequenceChanged
<1>15. TurnTyped'
  <2>1. rows \subseteq ShownRow
    BY <1>9 DEF rows
  <2>2. shown' \subseteq ShownRow
    BY <1>3, <1>5, <2>1
  <2> QED BY <2>2 DEF SearchInv, TurnInv, TurnTyped
<1>16. Referenced'
  <2> SUFFICES ASSUME NEW s \in shown'
               PROVE  /\ s.reference \in DOMAIN assigned /\ assigned[s.reference] = Identity(s)
                      /\ s.version >= s.since
    BY DEF Referenced, Identity
  <2>1. CASE s \in shown
    <3>1. s.reference \in DOMAIN references /\ references[s.reference] = Identity(s) /\ s.version >= s.since
      BY <2>1 DEF SearchInv, TurnInv, Referenced
    <3> QED BY <1>4, <3>1
  <2>2. CASE s \in rows
    BY <1>9, <2>2 DEF rows
  <2> QED BY <1>5, <2>1, <2>2
<1>17. \A r \in DOMAIN evidence' : [reference |-> r, hit |-> evidence'[r]] \in Citable'
  BY <1>7 DEF SearchInv, TurnInv
<1>18. ChunksShown'
  <2> SUFFICES ASSUME NEW s \in shown'
               PROVE  \E hit \in DocumentHits : /\ s.document = hit.document /\ s.number = hit.number
                                                /\ s.version = hit.version
    BY <1>1 DEF ChunksShown
  <2>1. CASE s \in shown
    BY <2>1 DEF SearchInv, TurnInv, ChunksShown
  <2>2. CASE s \in rows
    BY <1>9, <2>2 DEF rows
  <2> QED BY <1>5, <2>1, <2>2
<1>19. TurnInv'
  BY <1>1, <1>14, <1>15, <1>16, <1>17, <1>18 DEF SearchInv, TurnInv
<1> QED BY <1>19, BesideTheTurn

LEMMA HitLength ==
    ASSUME SearchInv, NEW hit \in DocumentHits
    PROVE  Length(ChunkOf(hit.document, hit.version, hit.number).text) \in Nat
<1> DEFINE content == versions[hit.document][hit.version]
           chunks == ChunksOf[content]
           n == hit.number
<1>1. hit.document \in Documents /\ hit.version \in 1..Current(hit.document) /\ n \in Numbers /\ n <= Len(chunks)
  BY DEF DocumentHits, Hit, Chunked
<1>2. content \in Contents
  <2>1. versions[hit.document] \in Seq(Contents)
    BY <1>1 DEF SearchInv, IndexInv, IndexTyped
  <2> QED BY <1>1, <2>1 DEF Current
<1>3. /\ Len(chunks) \in Nat
      /\ \A m \in 1..Len(chunks) : chunks[m].text \in Seq(Pieces(ElementTexts(Document(content))))
  <2> HIDE DEF content
  <2> QED BY <1>2, ChunkFacts
<1>4. n \in 1..Len(chunks)
  <2> HIDE DEF chunks, n
  <2> QED BY <1>1, <1>3 DEF Numbers
<1>5. Length(chunks[n].text) \in Nat
  <2> HIDE DEF chunks, n
  <2> QED BY <1>3, <1>4, LengthType
<1> QED BY <1>5 DEF ChunkOf

LEMMA CompleteStep ==
    ASSUME SearchInv, NEW c, Complete(c)
    PROVE  SearchInv'
<1> DEFINE results == calls[c].results
           H == FoundSince(calls[c].since)
           merged == Merged(results)
           built == Build(merged)
           ids == [n \in DOMAIN merged |-> Identity(merged[n])]
           assigned == Folded(Assign, references, ids)
           Reference(hit) == CHOOSE n \in DOMAIN assigned :
                                /\ assigned[n] = Identity(hit)
                                /\ \A m \in (n + 1)..Len(assigned) : assigned[m] # assigned[n]
           outcome == Outcome(results, built)
<1>1. c \in DOMAIN calls
  BY DEF Complete, Searching
<1>2. /\ references' = assigned
      /\ calls' = [calls EXCEPT
                   ![c].stage = "answered", ![c].outcome = outcome,
                   ![c].evidence = [n \in DOMAIN built.included |->
                        [reference |-> Reference(built.included[n]), hit |-> built.included[n]]]]
      /\ shown' = shown \cup {[reference |-> Reference(hit), document |-> hit.document,
                        number |-> hit.number, version |-> hit.version,
                        since |-> calls[c].since[hit.document]] : hit \in Range(built.blocks)}
      /\ UNCHANGED <<index, readable, scope, phase, queries, evidence, answer, view>>
  BY DEF Complete
<1>3. merged \in Seq(H)
  <2>1. results \in Seq(ResultRow) /\ \A q \in DOMAIN results : Range(results[q].hits) \subseteq H
    BY <1>1, CallTyped
  <2> HIDE DEF results, H
  <2>2. Len(results) \in Nat /\ DOMAIN results = 1..Len(results)
    BY <2>1
  <2>3. ASSUME NEW q \in 1..Len(results) PROVE results[q].hits \in Seq(H)
    <3>1. results[q] \in ResultRow /\ Range(results[q].hits) \subseteq H
      BY <2>1, <2>2, <2>3
    <3>2. results[q].hits \in Seq(Hit)
      BY <3>1 DEF ResultRow
    <3> QED BY <3>1, <3>2 DEF Range
  <2> QED BY <2>2, <2>3, MergedWithin
<1> HIDE DEF merged
<1>4. Range(merged) \subseteq H /\ merged \in Seq(Range(merged))
  <2> HIDE DEF H
  <2> QED BY <1>3 DEF Range
<1>5. built \in Built(Range(merged))
  <2>1. \A hit \in Range(merged) : Length(ChunkOf(hit.document, hit.version, hit.number).text) \in Nat
    BY <1>4, HitLength DEF FoundSince
  <2> HIDE DEF H
  <2> QED BY <1>4, <2>1, BuildWithin
<1> DEFINE hits == built.included
<1>6. built.blocks = hits /\ hits \in Seq(Range(merged))
  <2> HIDE DEF built
  <2> QED BY <1>5 DEF Built
<1>7. ids \in Seq(IdentityRow)
  <2>1. \A hit \in H : Identity(hit) \in IdentityRow
    BY DEF FoundSince, DocumentHits, Hit, Identity, IdentityRow
  <2> HIDE DEF H
  <2>2. Len(merged) \in Nat /\ DOMAIN merged = 1..Len(merged) /\ \A n \in 1..Len(merged) : merged[n] \in H
    BY <1>3
  <2>3. ids \in [1..Len(merged) -> IdentityRow]
    BY <2>1, <2>2
  <2> HIDE DEF ids
  <2> QED BY <2>2, <2>3, FunctionSequence
<1>8. assigned \in Assignments(IdentityRow, references, ids, Len(ids))
  <2>1. references \in Seq(IdentityRow) /\ OneEach(references)
    BY DEF SearchInv, TurnInv, TurnTyped
  <2> HIDE DEF ids
  <2> QED BY <1>7, <2>1, AssignAll
<1>9. /\ assigned \in Seq(IdentityRow) /\ OneEach(assigned) /\ Extends(assigned, references)
      /\ \A m \in 1..Len(ids) : ids[m] \in Range(assigned)
  <2> HIDE DEF assigned, ids
  <2> QED BY <1>8 DEF Assignments
<1>10. \A hit \in Range(merged) : Identity(hit) \in Range(assigned)
  <2>1. Len(ids) = Len(merged) /\ DOMAIN merged = 1..Len(merged)
    <3> HIDE DEF H
    <3> QED BY <1>3
  <2>2. \A n \in DOMAIN merged : ids[n] = Identity(merged[n])
    OBVIOUS
  <2> HIDE DEF ids, assigned
  <2> QED BY <1>9, <2>1, <2>2 DEF Range
<1> HIDE DEF assigned, ids, built
<1>11. ASSUME NEW hit \in Range(merged)
       PROVE  Reference(hit) \in DOMAIN assigned /\ assigned[Reference(hit)] = Identity(hit)
  <2>1. PICK n \in DOMAIN assigned : assigned[n] = Identity(hit)
    BY <1>10 DEF Range
  <2>2. \A m \in (n + 1)..Len(assigned) : assigned[m] # assigned[n]
    <3>1. DOMAIN assigned = 1..Len(assigned) /\ Len(assigned) \in Nat
      BY <1>9
    <3>2. \A m \in (n + 1)..Len(assigned) : m \in DOMAIN assigned /\ m # n
      BY <3>1
    <3> QED BY <1>9, <3>2 DEF OneEach
  <2> QED BY <2>1, <2>2
<1> HIDE DEF Reference
<1> DEFINE ref == [hit \in Range(merged) |-> Reference(hit)]
<1>12. \A hit \in Range(merged) : ref[hit] = Reference(hit)
  OBVIOUS
<1>13. Range(hits) \subseteq Range(merged) /\ \A n \in DOMAIN hits : hits[n] \in Range(merged)
  <2> HIDE DEF hits
  <2> QED BY <1>6 DEF Range
<1>14. outcome \in Outcomes
  BY DEF Outcome, Outcomes
<1> HIDE DEF ref, outcome, hits
<1>15. hits \in Seq(H)
  <2> HIDE DEF H
  <2> QED BY <1>4, <1>6, SequenceWithin
<1>16. EvidenceOf(ref, hits) = [n \in DOMAIN hits |-> [reference |-> Reference(hits[n]), hit |-> hits[n]]]
  BY <1>12, <1>13 DEF EvidenceOf
<1>17. ShownRows(calls[c].since, ref, hits)
         = {[reference |-> Reference(hit), document |-> hit.document, number |-> hit.number,
             version |-> hit.version, since |-> calls[c].since[hit.document]] : hit \in Range(hits)}
  BY <1>12, <1>13 DEF ShownRows
<1>18. calls' = [calls EXCEPT ![c] = EndedWith(calls[c], outcome, EvidenceOf(ref, hits))]
  <2> DEFINE sources == EvidenceOf(ref, hits)
  <2>1. calls' = [calls EXCEPT ![c].stage = "answered", ![c].outcome = outcome, ![c].evidence = sources]
    BY <1>2, <1>16 DEF hits
  <2> HIDE DEF sources
  <2>2. [calls EXCEPT ![c].stage = "answered", ![c].outcome = outcome, ![c].evidence = sources]
          = [calls EXCEPT ![c] = EndedWith(calls[c], outcome, sources)]
    BY <1>1 DEF EndedWith
  <2>3. calls' = [calls EXCEPT ![c] = EndedWith(calls[c], outcome, sources)]
    BY <2>1, <2>2, Zenon
  <2> QED BY <2>3 DEF sources
<1>19. shown' = shown \cup ShownRows(calls[c].since, ref, hits)
  BY <1>2, <1>6, <1>17 DEF hits
<1>20. \A hit \in Range(hits) : ref[hit] \in DOMAIN assigned /\ assigned[ref[hit]] = Identity(hit)
  BY <1>11, <1>12, <1>13
<1>21. references' = assigned /\ UNCHANGED <<index, readable, scope, phase, queries, evidence, answer, view>>
  BY <1>2
<1> QED BY <1>1, <1>9, <1>14, <1>15, <1>18, <1>19, <1>20, <1>21, EvidenceStep

LEMMA FinishRoundStep ==
    ASSUME SearchInv, FinishRound
    PROVE  SearchInv'
<1> DEFINE M == {<<source.reference, source.hit>> : source \in Citable}
           R == DOMAIN references
<1>1. /\ evidence' = Folded(KeptOf, evidence, calls) /\ calls' = <<>>
      /\ UNCHANGED <<index, readable, scope, phase, queries, references, shown, answer, view>>
  BY DEF FinishRound
<1>2. \A source \in Citable : /\ source.reference \in R /\ source.hit \in DocumentHits
                              /\ source = [reference |-> source.reference, hit |-> source.hit]
                              /\ <<source.reference, source.hit>> \in M
  BY DEF Citable
<1>3. ASSUME NEW r, NEW hit, <<r, hit>> \in M
      PROVE  [reference |-> r, hit |-> hit] \in Citable
  BY <1>2, <1>3
<1> HIDE DEF M
<1>4. evidence \in Sources(R, DocumentHits, M)
  <2>1. \A r \in DOMAIN evidence : [reference |-> r, hit |-> evidence[r]] \in Citable
    BY DEF SearchInv, TurnInv
  <2>2. \A r \in DOMAIN evidence : r \in R /\ evidence[r] \in DocumentHits /\ <<r, evidence[r]>> \in M
    <3> SUFFICES ASSUME NEW r \in DOMAIN evidence
                 PROVE  r \in R /\ evidence[r] \in DocumentHits /\ <<r, evidence[r]>> \in M
      OBVIOUS
    <3> DEFINE source == [reference |-> r, hit |-> evidence[r]]
    <3>1. source \in Citable /\ source.reference = r /\ source.hit = evidence[r]
      BY <2>1
    <3> HIDE DEF source
    <3> QED BY <1>2, <3>1
  <2>3. evidence = [r \in DOMAIN evidence |-> evidence[r]]
    BY DEF SearchInv, TurnInv, TurnTyped
  <2> HIDE DEF R
  <2>4. evidence \in [DOMAIN evidence -> DocumentHits] /\ DOMAIN evidence \in SUBSET R
    BY <2>2, <2>3
  <2> QED BY <2>2, <2>4 DEF Sources
<1>5. Len(calls) \in Nat /\ DOMAIN calls = 1..Len(calls)
  BY DEF SearchInv, TurnInv
<1>6. ASSUME NEW c \in 1..Len(calls)
      PROVE  /\ Len(calls[c].evidence) \in Nat
             /\ \A n \in 1..Len(calls[c].evidence) :
                    LET source == calls[c].evidence[n]
                    IN  /\ source.reference \in R /\ source.hit \in DocumentHits
                        /\ <<source.reference, source.hit>> \in M
  <2>1. calls[c] \in SoundCalls
    BY <1>5 DEF SearchInv, TurnInv
  <2>2. calls[c].evidence \in Seq([reference : Nat, hit : Hit]) /\ Range(calls[c].evidence) \subseteq Citable
    BY <2>1 DEF SoundCalls, CallRow
  <2>3. Len(calls[c].evidence) \in Nat /\ \A n \in 1..Len(calls[c].evidence) : calls[c].evidence[n] \in Citable
    BY <2>2 DEF Range
  <2> HIDE DEF R
  <2> QED BY <1>2, <2>3
<1> DEFINE kept == Folded(KeptOf, evidence, calls)
<1>7. kept \in Sources(R, DocumentHits, M)
  <2> HIDE DEF R
  <2> QED BY <1>4, <1>5, <1>6, KeptOfAll
<1>8. evidence' = kept
  BY <1>1
<1> HIDE DEF kept
<1>9. /\ evidence' \in [DOMAIN evidence' -> DocumentHits]
      /\ \A r \in DOMAIN evidence' : <<r, evidence'[r]>> \in M
  BY <1>7, <1>8 DEF Sources
<1>10. \A r \in DOMAIN evidence' : [reference |-> r, hit |-> evidence'[r]] \in Citable
  BY <1>3, <1>9
<1>11. Citable' = Citable /\ DocumentHits' = DocumentHits
  <2>1. DocumentHits' = DocumentHits
    BY <1>1, HitsSame
  <2> QED BY <1>1, <2>1 DEF Citable
<1>12. TurnInv'
  <2>1. evidence' \in [DOMAIN evidence' -> Hit]
    BY <1>9 DEF DocumentHits
  <2>2. TurnTyped'
    BY <1>1, <2>1 DEF SearchInv, TurnInv, TurnTyped
  <2> QED BY <1>1, <1>10, <1>11, <2>2 DEF SearchInv, TurnInv, Referenced, ChunksShown
<1> QED BY <1>1, <1>12, BesideTheTurn

LEMMA AnswerStep ==
    ASSUME SearchInv, NEW reference \in DOMAIN evidence, Answer(reference)
    PROVE  SearchInv'
<1>1. /\ phase = "running" /\ answer' = evidence[reference] /\ phase' = "answered"
      /\ UNCHANGED <<index, readable, scope, queries, calls, references, evidence, shown, view>>
  BY DEF Answer
<1>2. answer = None
  BY <1>1 DEF SearchInv, TurnInv
<1>3. evidence[reference] \in DocumentHits
  <2> DEFINE source == [reference |-> reference, hit |-> evidence[reference]]
  <2>1. source \in Citable /\ source.hit = evidence[reference]
    BY DEF SearchInv, TurnInv
  <2> HIDE DEF source
  <2> QED BY <2>1 DEF Citable
<1>4. DocumentHits' = DocumentHits /\ Citable' = Citable /\ SoundCalls' = SoundCalls
  <2>1. DocumentHits' = DocumentHits
    BY <1>1, HitsSame
  <2>2. Citable' = Citable
    BY <1>1, <2>1 DEF Citable
  <2>3. published' = published
    BY <1>1 DEF index
  <2> QED BY <2>1, <2>2, <2>3 DEF SoundCalls, FoundSince
<1>5. TurnInv'
  BY <1>1, <1>3, <1>4 DEF SearchInv, TurnInv, TurnTyped, Referenced, ChunksShown
<1> QED BY <1>1, <1>2, <1>5, BesideTheTurn

-----------------------------------------------------------------------------
(* The steps of a reader *)

(* What a chunk shows as an element is the whole text of the element.      *)
LEMMA ShownWhole ==
    ASSUME NEW content \in Contents, NEW n \in 1..Len(ChunksOf[content]), NEW chunk,
           chunk = ChunksOf[content][n], ShowsElement(chunk.text, chunk)
    PROVE  LET e == Candidate(chunk.text, chunk)
           IN  e.text = <<Piece(e.element, 0, ElementSize(Document(content), e.element))>>
<1> DEFINE text == chunk.text
           document == Document(content)
           element == text[1].element
           exact == /\ Cardinality(ElementsOf(text)) = 1
                    /\ text = <<Piece(element, 0, ElementSize(document, element))>>
<1>1. text \in Seq(Pieces(ElementTexts(document))) /\ chunk.spans = CitationSpans(document, text)
  BY ChunkFacts
<1>2. Length(text) \in Nat
  <2> HIDE DEF text
  <2> QED BY <1>1, LengthType
<1>3. Len(chunk.spans) = 1 /\ chunk.spans[1].end = Length(text)
  BY DEF ShowsElement
<1>4. chunk.spans = [m \in DOMAIN text |-> [element |-> text[m].element, end |-> IF exact THEN text[m].to ELSE -1]]
  BY <1>1 DEF CitationSpans
<1> HIDE DEF text, document, exact
<1>5. DOMAIN text = 1..1
  <2>1. Len(text) \in Nat /\ DOMAIN text = 1..Len(text)
    BY <1>1
  <2>2. Len(chunk.spans) = Len(text)
    BY <1>4, <2>1
  <2> QED BY <1>3, <2>1, <2>2
<1>6. chunk.spans[1] = [element |-> element, end |-> IF exact THEN text[1].to ELSE -1]
  BY <1>4, <1>5
<1>7. exact
  BY <1>2, <1>3, <1>6
<1>8. chunk.spans[1].element = element
  BY <1>6
<1> QED BY <1>7, <1>8 DEF Candidate, exact, text, document

LEMMA ReaderStep ==
    ASSUME SearchInv, UNCHANGED <<index, readable, turn>>, Viewed', CitationOpens'
    PROVE  SearchInv'
<1>1. IndexInv' /\ Grown
  BY IndexSame DEF SearchInv
<1> QED BY <1>1, TurnKept DEF SearchInv

(* The document of the answer while no run is under way on it.             *)
LEMMA ReadyDocument ==
    ASSUME SearchInv, answer # None, indexing[answer.document] = "ready"
    PROVE  LET d == answer.document
           IN  /\ d \in Documents /\ Current(d) \in 1..Current(d)
               /\ versions[d][Current(d)] \in Contents
               /\ \A n \in Numbers :
                    /\ points[d][n].live <=> n <= Len(CurrentChunks(d))
                    /\ n <= Len(CurrentChunks(d)) =>
                        /\ points[d][n].version = Current(d)
                        /\ citations[d][n].live /\ citations[d][n].version = Current(d)
               /\ answer.number \in Numbers
               /\ answer.version = Current(d) => answer.number <= Len(CurrentChunks(d))
<1> DEFINE d == answer.document
<1>1. answer \in DocumentHits /\ d \in Documents /\ answer.number \in Numbers
      /\ answer.number <= Len(Chunked(d, answer.version))
  BY DEF SearchInv, TurnInv, DocumentHits, Hit
<1>2. IndexedDocument(d) /\ versions[d] \in Seq(Contents)
  BY <1>1 DEF SearchInv, IndexInv, Indexed, IndexTyped
<1> HIDE DEF d
<1>3. Current(d) \in 1..Current(d) /\ HoldsCurrent(points[d], d) /\ HoldsCurrent(citations[d], d)
  BY <1>2 DEF IndexedDocument, d
<1>4. versions[d][Current(d)] \in Contents
  BY <1>2, <1>3 DEF Current
<1>5. \A n \in Numbers : /\ points[d][n].live <=> n <= Len(CurrentChunks(d))
                         /\ n <= Len(CurrentChunks(d)) =>
                             /\ points[d][n].version = Current(d)
                             /\ citations[d][n].live /\ citations[d][n].version = Current(d)
  BY <1>3 DEF HoldsCurrent
<1>6. answer.version = Current(d) => answer.number <= Len(CurrentChunks(d))
  BY <1>1 DEF Chunked, CurrentChunks, d
<1> QED BY <1>1, <1>3, <1>4, <1>5, <1>6 DEF d

LEMMA OpenPointsStep ==
    ASSUME SearchInv, NEW focused \in BOOLEAN, OpenPoints(focused)
    PROVE  SearchInv'
<1> DEFINE d == answer.document
           payloads == Payloads(d, IF focused THEN {answer.number} ELSE Numbers)
           stage == CASE CollectionOf[d] \notin readable -> "denied"
                      [] focused /\ payloads = {} -> "not_found"
                      [] OTHER -> "points"
           clean == indexing[d] = "ready"
<1>1. /\ answer # None
      /\ view' = [NoView EXCEPT !.stage = stage, !.focused = focused, !.payloads = payloads,
                                !.version = Current(d), !.clean = clean]
      /\ UNCHANGED <<index, readable, turn>>
  BY DEF OpenPoints
<1>2. /\ view' = [stage |-> view'.stage, focused |-> view'.focused, payloads |-> view'.payloads,
                  elements |-> view'.elements, version |-> view'.version, clean |-> view'.clean]
      /\ view'.stage = stage /\ view'.focused = focused /\ view'.payloads = payloads
      /\ view'.version = Current(d) /\ view'.clean = clean
  <2> HIDE DEF stage, payloads, clean
  <2> QED BY <1>1 DEF NoView
<1>3. /\ stage \in {"denied", "not_found", "points"}
      /\ stage = "not_found" => focused /\ payloads = {}
      /\ stage = "points" => ~(focused /\ payloads = {})
  <2> HIDE DEF payloads
  <2> QED OBVIOUS
<1>4. answer' = answer /\ Current(d)' = Current(d) /\ \A v : Chunked(d, v)' = Chunked(d, v)
  BY <1>1 DEF turn, index, Current, Chunked
<1>5. ASSUME clean
      PROVE  /\ Current(d) \in 1..Current(d)
             /\ \A payload \in payloads :
                    /\ payload.version = Current(d) /\ payload.number \in Numbers
                    /\ payload.number <= Len(Chunked(d, Current(d)))
             /\ focused /\ Current(d) = answer.version =>
                    \E payload \in payloads : payload.number = answer.number
  <2> HIDE DEF d
  <2>1. /\ Current(d) \in 1..Current(d) /\ answer.number \in Numbers
        /\ answer.version = Current(d) => answer.number <= Len(CurrentChunks(d))
        /\ \A n \in Numbers :
            /\ points[d][n].live <=> n <= Len(CurrentChunks(d))
            /\ n <= Len(CurrentChunks(d)) => points[d][n].version = Current(d)
    BY <1>1, <1>5, ReadyDocument DEF d
  <2> DEFINE numbers == IF focused THEN {answer.number} ELSE Numbers
  <2>2. numbers \subseteq Numbers
    BY <2>1
  <2>3. payloads = {[number |-> n, version |-> points[d][n].version] : n \in {m \in numbers : points[d][m].live}}
    BY DEF Payloads
  <2>4. focused => answer.number \in numbers
    OBVIOUS
  <2> HIDE DEF numbers, payloads
  <2>5. \A payload \in payloads :
            /\ payload.version = Current(d) /\ payload.number \in Numbers
            /\ payload.number <= Len(Chunked(d, Current(d)))
    BY <2>1, <2>2, <2>3 DEF CurrentChunks, Chunked
  <2>6. ASSUME focused, Current(d) = answer.version
        PROVE  \E payload \in payloads : payload.number = answer.number
    <3>1. points[d][answer.number].live /\ answer.number \in numbers
      BY <2>1, <2>4, <2>6
    <3>2. [number |-> answer.number, version |-> points[d][answer.number].version] \in payloads
      BY <2>3, <3>1
    <3> QED BY <3>2
  <2> QED BY <2>1, <2>5, <2>6
<1> HIDE DEF payloads, stage, clean
<1>6. Viewed'
  BY <1>1, <1>2, <1>3, <1>4, <1>5 DEF Viewed, d
<1>7. CitationOpens'
  BY <1>2, <1>3, <1>4, <1>5 DEF CitationOpens
<1> QED BY <1>1, <1>6, <1>7, ReaderStep

LEMMA OpenCitationsStep ==
    ASSUME SearchInv, OpenCitations
    PROVE  SearchInv'
<1> DEFINE d == answer.document
           content == versions[d][Current(d)]
           cited == {payload \in view.payloads : citations[d][payload.number].live}
           Citation(payload) ==
               LET row == citations[d][payload.number]
               IN  IF row.live THEN ChunkOf(d, row.version, payload.number)
                   ELSE [section |-> <<>>, spans |-> <<>>]
           opened == {[text |-> ChunkOf(d, payload.version, payload.number).text,
                       citation |-> Citation(payload)] : payload \in view.payloads}
           elements == ViewerElements(opened)
           stage == IF view.focused /\ cited = {} THEN "not_found" ELSE "open"
           clean == view.clean /\ indexing[d] = "ready" /\ view.version = Current(d)
<1>1. /\ view.stage = "points"
      /\ view' = [view EXCEPT !.stage = stage, !.elements = elements, !.version = Current(d), !.clean = clean]
      /\ UNCHANGED <<index, readable, turn>>
  BY DEF OpenCitations
<1>2. /\ view = [stage |-> view.stage, focused |-> view.focused, payloads |-> view.payloads,
                 elements |-> view.elements, version |-> view.version, clean |-> view.clean]
      /\ answer # None
  BY <1>1 DEF SearchInv, Viewed
<1>3. /\ view' = [stage |-> view'.stage, focused |-> view'.focused, payloads |-> view'.payloads,
                  elements |-> view'.elements, version |-> view'.version, clean |-> view'.clean]
      /\ view'.stage = stage /\ view'.elements = elements
      /\ view'.version = Current(d) /\ view'.clean = clean
  <2> HIDE DEF stage, elements, clean
  <2> QED BY <1>1, <1>2
<1>4. stage \in {"not_found", "open"} /\ (stage = "not_found" => view.focused /\ cited = {})
  <2> HIDE DEF cited
  <2> QED OBVIOUS
<1>5. answer' = answer /\ Current(d)' = Current(d) /\ versions' = versions
  BY <1>1 DEF turn, index, Current
<1>6. ASSUME clean
      PROVE  /\ Current(d) \in 1..Current(d)
             /\ stage = "not_found" => Current(d) # answer.version
             /\ \A e \in elements : e.text = <<Piece(e.element, 0, ElementSize(Document(content), e.element))>>
  <2>1. /\ Current(d) \in 1..Current(d) /\ content \in Contents
        /\ \A n \in Numbers : n <= Len(CurrentChunks(d)) =>
                citations[d][n].live /\ citations[d][n].version = Current(d)
    BY <1>2, <1>6, ReadyDocument
  <2>2. /\ \A payload \in view.payloads :
            /\ payload.version = Current(d) /\ payload.number \in Numbers
            /\ payload.number <= Len(ChunksOf[content])
        /\ view.focused /\ Current(d) = answer.version =>
            \E payload \in view.payloads : payload.number = answer.number
    BY <1>1, <1>6 DEF SearchInv, Viewed, Chunked
  <2>3. CurrentChunks(d) = ChunksOf[content]
    BY DEF CurrentChunks
  <2> HIDE DEF d
  <2>4. \A payload \in view.payloads :
            /\ citations[d][payload.number].live /\ citations[d][payload.number].version = Current(d)
    <3> HIDE DEF content
    <3> QED BY <2>1, <2>2, <2>3
  <2>5. stage = "not_found" => Current(d) # answer.version
    BY <1>4, <2>2, <2>4
  <2>6. ASSUME NEW e \in elements
        PROVE  e.text = <<Piece(e.element, 0, ElementSize(Document(content), e.element))>>
    <3>1. PICK p \in opened : ShowsElement(p.text, p.citation) /\ e = Candidate(p.text, p.citation)
      <4> HIDE DEF opened
      <4> QED BY DEF ViewerElements
    <3>2. PICK payload \in view.payloads :
            p = [text |-> ChunkOf(d, payload.version, payload.number).text, citation |-> Citation(payload)]
      <4> HIDE DEF Citation
      <4> QED BY <3>1
    <3> DEFINE n == payload.number
               chunk == ChunksOf[content][n]
    <3>3. ChunkOf(d, payload.version, n) = chunk /\ Citation(payload) = chunk
      BY <2>2, <2>4 DEF ChunkOf
    <3>4. p.text = chunk.text /\ p.citation = chunk
      <4> HIDE DEF Citation, chunk
      <4> QED BY <3>2, <3>3
    <3>5. n \in 1..Len(ChunksOf[content])
      <4>1. n \in Numbers /\ n <= Len(ChunksOf[content]) /\ Len(ChunksOf[content]) \in Nat
        <5> HIDE DEF content
        <5> QED BY <2>1, <2>2, ChunkFacts
      <4> HIDE DEF content, n
      <4> QED BY <4>1 DEF Numbers
    <3>6. PICK whole : whole = chunk
      OBVIOUS
    <3>7. ShowsElement(whole.text, whole) /\ e = Candidate(whole.text, whole) /\ whole = ChunksOf[content][n]
      <4> HIDE DEF content
      <4> QED BY <3>1, <3>4, <3>6
    <3> HIDE DEF content, chunk, n, opened, elements
    <3> QED BY <2>1, <3>5, <3>7, ShownWhole
  <2> QED BY <2>1, <2>5, <2>6
<1> HIDE DEF stage, elements, clean
<1>7. Viewed'
  BY <1>2, <1>3, <1>4, <1>5, <1>6 DEF Viewed
<1>8. CitationOpens'
  BY <1>3, <1>4, <1>5, <1>6 DEF CitationOpens
<1> QED BY <1>1, <1>7, <1>8, ReaderStep

-----------------------------------------------------------------------------
(* The invariant holds *)

LEMMA SearchStep ==
    ASSUME SearchInv, [SearchNext]_searchVars
    PROVE  SearchInv'
<1>1. CASE UNCHANGED searchVars
  <2>1. UNCHANGED <<index, readable, turn, view>>
    BY <1>1 DEF searchVars, index, turn
  <2>2. IndexInv' /\ Grown
    BY <2>1, IndexSame DEF SearchInv
  <2>3. TurnInv' /\ Viewed' /\ CitationOpens'
    BY <2>1, <2>2, TurnKept, ViewKept DEF turn
  <2> QED BY <2>2, <2>3 DEF SearchInv
<1>2. ASSUME NEW d \in Rewritten, Index(d) PROVE SearchInv'
  <2>1. UNCHANGED <<readable, turn, view>>
    BY <1>2 DEF Index
  <2>2. IndexInv' /\ Grown
    BY <1>2, IndexStep DEF SearchInv
  <2>3. TurnInv' /\ Viewed' /\ CitationOpens'
    BY <2>1, <2>2, TurnKept, ViewKept DEF turn
  <2> QED BY <2>2, <2>3 DEF SearchInv
<1>3. ASSUME NEW collection \in Collections, Revoke(collection) PROVE SearchInv'
  <2>1. UNCHANGED <<index, turn, view>> /\ readable' \subseteq readable
    BY <1>3 DEF Revoke
  <2>2. IndexInv' /\ Grown
    BY <2>1, IndexSame DEF SearchInv
  <2>3. TurnInv' /\ Viewed' /\ CitationOpens'
    BY <2>1, <2>2, TurnKept, ViewKept DEF turn
  <2> QED BY <2>2, <2>3 DEF SearchInv
<1>4. ASSUME NEW selected, ResolveScope(selected) PROVE SearchInv'
  BY <1>4, ResolveScopeStep
<1>5. ASSUME NEW asked \in Rounds, StartRound(asked) PROVE SearchInv'
  BY <1>5, StartRoundStep
<1>6. ASSUME NEW c, NEW q, Retrieve(c, q) \/ QueryFails(c, q) PROVE SearchInv'
  BY <1>6, RetrieveStep, QueryFailsStep
<1>7. ASSUME NEW c, Deadline(c) \/ Complete(c) PROVE SearchInv'
  BY <1>7, DeadlineStep, CompleteStep
<1>8. CASE FinishRound
  BY <1>8, FinishRoundStep
<1>9. ASSUME NEW reference \in DOMAIN evidence, Answer(reference) PROVE SearchInv'
  BY <1>9, AnswerStep
<1>10. ASSUME NEW focused \in BOOLEAN, OpenPoints(focused) PROVE SearchInv'
  BY <1>10, OpenPointsStep
<1>11. CASE OpenCitations
  BY <1>11, OpenCitationsStep
<1> QED BY <1>1, <1>2, <1>3, <1>4, <1>5, <1>6, <1>7, <1>8, <1>9, <1>10, <1>11 DEF SearchNext

(* What the properties of a search rest on: the index holds what it should *)
(* between any two writes, what calls find and show is of the index of its *)
(* time, and a view shows what the document holds.                         *)
THEOREM SearchInvariant == SearchSpec => []SearchInv
<1>1. SearchInit => SearchInv
  BY SearchStarts
<1>2. SearchInv /\ [SearchNext]_searchVars => SearchInv'
  BY SearchStep
<1> QED BY <1>1, <1>2, PTL DEF SearchSpec

(* Every variable of a search stays in its type.                           *)
THEOREM SearchTypeCorrect == SearchSpec => []SearchTypeOK
<1>1. SearchInv => SearchTypeOK
  <2> SUFFICES ASSUME SearchInv PROVE SearchTypeOK
    OBVIOUS
  <2>1. ASSUME NEW d \in Documents
        PROVE  /\ versions[d] # <<>> /\ Range(versions[d]) \subseteq Contents
               /\ Current(d) <= MaxVersions /\ published[d] \in 1..Current(d)
               /\ indexing[d] \in {"ready", "processing", "cited", "tombstoned", "upserted", "failed"}
    <3>1. versions[d] \in Seq(Contents) /\ indexing[d] \in Stages /\ Current(d) \in 1..MaxVersions
          /\ published[d] \in 1..Current(d)
      BY DEF SearchInv, IndexInv, IndexTyped, Indexed, IndexedDocument
    <3>2. versions[d] # <<>> /\ Range(versions[d]) \subseteq Contents
      BY <3>1 DEF Current, Range
    <3> QED BY <3>1, <3>2, SearchAssumption DEF Stages
  <2>2. ASSUME NEW c \in DOMAIN calls
        PROVE  /\ calls[c].stage \in {"searching", "answered"}
               /\ \A q \in DOMAIN calls[c].results :
                    /\ calls[c].results[q].state \in Failures \cup {"waiting", "answered"}
                    /\ Range(calls[c].results[q].hits) \subseteq Hit
    <3>1. calls[c] \in CallRow /\ calls[c].results \in Seq(ResultRow)
          /\ \A q \in DOMAIN calls[c].results :
                Range(calls[c].results[q].hits) \subseteq FoundSince(calls[c].since)
      BY CallTyped
    <3>2. FoundSince(calls[c].since) \subseteq Hit
      BY DEF FoundSince, DocumentHits
    <3>3. \A q \in DOMAIN calls[c].results : calls[c].results[q] \in ResultRow
      BY <3>1
    <3> QED BY <3>1, <3>2, <3>3 DEF CallRow, ResultRow
  <2>3. DOMAIN evidence \subseteq 1..Len(references)
    <3>1. references \in Seq(IdentityRow)
      BY DEF SearchInv, TurnInv, TurnTyped
    <3>2. \A r \in DOMAIN evidence : [reference |-> r, hit |-> evidence[r]] \in Citable
      BY DEF SearchInv, TurnInv
    <3>3. \A r \in DOMAIN evidence : r \in DOMAIN references
      BY <3>2 DEF Citable
    <3> QED BY <3>1, <3>3
  <2>4. Range(evidence) \subseteq Hit /\ answer \in Hit \cup {None}
    BY DEF SearchInv, TurnInv, TurnTyped, DocumentHits, Range
  <2> QED BY <2>1, <2>2, <2>3, <2>4
          DEF SearchInv, SearchTypeOK, IndexInv, IndexTyped, TurnInv, TurnTyped, Viewed
<1> QED BY <1>1, SearchInvariant, PTL

(* What the answer of a turn can cite, the model has seen under the same   *)
(* reference, and a reference never stands for two chunks: whatever calls  *)
(* run beside each other, for every budget (orchestrator.py).              *)
THEOREM CitedEvidenceWasShown == SearchSpec => []EvidenceWasShown
<1>1. SearchInv => EvidenceWasShown
  <2> SUFFICES ASSUME SearchInv PROVE EvidenceWasShown
    OBVIOUS
  <2>1. ASSUME NEW reference \in DOMAIN evidence
        PROVE  \E s \in shown : /\ s.reference = reference
                                /\ s.document = evidence[reference].document
                                /\ s.number = evidence[reference].number
                                /\ s.version = evidence[reference].version
    <3> DEFINE source == [reference |-> reference, hit |-> evidence[reference]]
    <3>1. source \in Citable /\ source.reference = reference /\ source.hit = evidence[reference]
      BY DEF SearchInv, TurnInv
    <3> HIDE DEF source
    <3> QED BY <3>1 DEF Citable
  <2>2. \A s, t \in shown : s.reference = t.reference <=> Identity(s) = Identity(t)
    <3>1. \A s \in shown : s.reference \in DOMAIN references /\ references[s.reference] = Identity(s)
      BY DEF SearchInv, TurnInv, Referenced
    <3>2. OneEach(references)
      BY DEF SearchInv, TurnInv, TurnTyped
    <3> QED BY <3>1, <3>2 DEF OneEach
  <2> QED BY <2>1, <2>2 DEF EvidenceWasShown
<1> QED BY <1>1, SearchInvariant, PTL

(* A call shows no version that the index had replaced before it began.    *)
THEOREM SearchIsNeverStale == SearchSpec => []NoStaleEvidence
<1>1. SearchInv => NoStaleEvidence
  BY DEF SearchInv, TurnInv, Referenced, NoStaleEvidence
<1> QED BY <1>1, SearchInvariant, PTL

(* A citation of what the document still holds opens, for every content    *)
(* and however often the document is indexed again.                        *)
THEOREM CitationsOpen == SearchSpec => []CitationOpens
<1>1. SearchInv => CitationOpens
  BY DEF SearchInv
<1> QED BY <1>1, SearchInvariant, PTL

(* The section a model is shown a chunk with is that of all its parts, for *)
(* every way the parts and their sections follow each other (chunking.py). *)
THEOREM EvidenceKeepsItsSection == SearchSpec => []EvidenceIsOfItsSection
<1>1. SearchInv => EvidenceIsOfItsSection
  <2> SUFFICES ASSUME SearchInv, NEW s \in shown,
                      versions[s.document][s.version].parts # <<>>,
                      NEW n \in DOMAIN ChunkOf(s.document, s.version, s.number).text
               PROVE  PathOf(versions[s.document][s.version].parts,
                             ChunkOf(s.document, s.version, s.number).text[n].element)
                        \in {<<>>, ChunkOf(s.document, s.version, s.number).section}
    BY DEF EvidenceIsOfItsSection
  <2> DEFINE content == versions[s.document][s.version]
             chunks == ChunksOf[content]
             m == s.number
  <2>1. PICK hit \in DocumentHits : /\ s.document = hit.document /\ s.number = hit.number
                                    /\ s.version = hit.version
    BY DEF SearchInv, TurnInv, ChunksShown
  <2>2. /\ s.document \in Documents /\ s.version \in 1..Current(s.document)
        /\ m \in Numbers /\ m <= Len(chunks)
    BY <2>1 DEF DocumentHits, Hit, Chunked
  <2>3. content \in Contents
    <3>1. versions[s.document] \in Seq(Contents)
      BY <2>2 DEF SearchInv, IndexInv, IndexTyped
    <3> QED BY <2>2, <3>1 DEF Current
  <2>4. Len(chunks) \in Nat
    BY <2>3, ChunkFacts
  <2>5. m \in 1..Len(chunks)
    <3> HIDE DEF chunks, m
    <3> QED BY <2>2, <2>4 DEF Numbers
  <2>6. ChunkOf(s.document, s.version, s.number) = chunks[m]
    BY DEF ChunkOf
  <2>7. OfOneSection(content.parts, chunks[m], chunks[m].section)
    <3> HIDE DEF content, m
    <3> QED BY <2>3, <2>5, ChunksKeepSections DEF content
  <2> HIDE DEF chunks, m
  <2> QED BY <2>6, <2>7 DEF OfOneSection
<1> QED BY <1>1, SearchInvariant, PTL

=============================================================================
