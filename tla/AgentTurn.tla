----------------------------- MODULE AgentTurn -----------------------------
(***************************************************************************)
(* One turn of the agent: the loop that samples a model, runs the tools it *)
(* asks for at the same time, puts what came of them into the context of   *)
(* the next sample, and stops at its limits; the client that follows the   *)
(* events and may leave; and the chat service that stores the answer.      *)
(*                                                                         *)
(* agent/{agent,turn,sampling,session,context_manager}.py,                 *)
(* agent/tools/core/orchestrator.py and services/chat.py.  The model, its  *)
(* transport and the tools are the environment.                            *)
(***************************************************************************)
EXTENDS Integers, Sequences, FiniteSets, FiniteSetsExt

CONSTANTS
    Signatures,      \* tool requests that can run: a name and its arguments
    MaxCalls,        \* bound: tool calls in one response
    MaxModelTurns, MaxToolRounds, MaxToolCalls, MaxRetries,
    Budget           \* max_tool_context_characters

SessionConfiguration ==
    /\ MaxModelTurns \in Nat \ {0} /\ MaxToolRounds \in Nat /\ MaxToolRounds < MaxModelTurns
    /\ MaxToolCalls \in Nat \ {0} /\ MaxRetries \in Nat /\ Budget \in Nat \ {0}
ASSUME ConfigurationAssumption == SessionConfiguration
ASSUME SignaturesAssumption == "invalid" \notin Signatures /\ MaxCalls \in Nat

VARIABLES
    pc,
    iteration, toolRound, toolCalls,   \* the counters of TurnContext
    executed,      \* executed_tool_signatures
    context,       \* ConversationState.items after the initial ones
    toolsOffered,  \* the step has tool names
    attempt, emitted,   \* of this sampling request
    response,      \* the response that settled it
    observation,   \* what came of each of its calls
    runs,          \* how often each request was run: a history variable
    gone,          \* the client has disconnected
    finalAnswer,   \* what the chat service takes for the answer
    stored         \* the message it stored

vars == <<pc, iteration, toolRound, toolCalls, executed, context, toolsOffered, attempt,
          emitted, response, observation, runs, gone, finalAnswer, stored>>

counters == <<iteration, toolRound, toolCalls, executed>>
sampling == <<toolsOffered, attempt, emitted>>
client == <<gone, finalAnswer, stored>>

Texts == {"none", "text", "arguments"}   \* "arguments": a tool payload as prose
Ended == {"done", "failed", "closed", "broken"}

(* A response: whether it completed, its calls ("invalid" stands for one   *)
(* that cannot be decoded, is unknown, not exposed, or does not fit the    *)
(* schema), and its final_answer_text: all text without calls, and beside  *)
(* calls the text that the provider labels the final answer; other text    *)
(* beside calls is commentary and left out.                                *)
Calls == UNION {[1..n -> Signatures \cup {"invalid"}] : n \in 0..MaxCalls}
Response == [completed : BOOLEAN, calls : Calls, text : Texts]
NoResponse == [completed |-> FALSE, calls |-> <<>>, text |-> "none"]

(* An item of the context: its kind, the sample and the call it belongs    *)
(* to, and its size.                                                       *)
Item == [kind : {"message", "call", "output", "image"}, round : Nat, call : Nat, size : Nat]

(* An observation: still running, or its size and whether an image came.   *)
Running == [size |-> 0, image |-> FALSE]
Refusal == [size |-> 1, image |-> FALSE]
Results == {[size |-> 2, image |-> FALSE], [size |-> 1, image |-> TRUE]}

TypeOK ==
    /\ pc \in {"asked", "start", "streaming", "settled", "executing"} \cup Ended \cup {"stored"}
    /\ iteration \in 0..MaxModelTurns
    /\ toolRound \in 0..MaxToolRounds
    /\ toolCalls \in 0..MaxToolCalls
    /\ executed \subseteq Signatures
    /\ context \in Seq(Item)
    /\ toolsOffered \in BOOLEAN /\ attempt \in 0..MaxRetries /\ emitted \in BOOLEAN
    /\ response \in Response
    /\ observation \in Seq(Results \cup {Running, Refusal})
    /\ runs \in [Signatures -> Nat]
    /\ gone \in BOOLEAN /\ finalAnswer \in Texts /\ stored \in Texts

Init ==
    /\ pc = "asked"
    /\ iteration = 0 /\ toolRound = 0 /\ toolCalls = 0 /\ executed = {}
    /\ context = <<>>
    /\ toolsOffered = FALSE /\ attempt = 0 /\ emitted = FALSE
    /\ response = NoResponse /\ observation = <<>>
    /\ runs = [s \in Signatures |-> 0]
    /\ gone = FALSE /\ finalAnswer = "none" /\ stored = "none"

-----------------------------------------------------------------------------
(* stream_turn: the user may ask, the collections and attachments are      *)
(* found, and the question is stored; or the request is refused.           *)
StartTurn ==
    /\ pc = "asked"
    /\ pc' \in {"start", "broken"}
    /\ UNCHANGED <<counters, context, sampling, response, observation, runs, client>>

-----------------------------------------------------------------------------
(* The context of a sample *)

(* _matching_call *)
MatchingCall(k) ==
    {j \in DOMAIN context : context[j].kind = "call" /\ context[j].round = context[k].round
                                                    /\ context[j].call = context[k].call}

SizeOf(positions) == MapThenSumSet(LAMBDA k : context[k].size, positions)

(* A mistake to be caught: an output that is dropped leaves its call.      *)
TakeOutputAlone(so, k) ==
    IF so.in # {} /\ SizeOf({k} \cup MatchingCall(k)) > so.left THEN so
    ELSE [so EXCEPT !.in = @ \cup {k} \cup MatchingCall(k),
                    !.left = @ - SizeOf({k} \cup MatchingCall(k))]

(* An output comes with its call or not at all.                            *)
TakeOutput(so, k) ==
    LET interaction == {k} \cup MatchingCall(k) IN
    IF so.in # {} /\ SizeOf(interaction) > so.left
    THEN [so EXCEPT !.out = @ \cup interaction]
    ELSE [so EXCEPT !.in = @ \cup interaction, !.left = @ - SizeOf(interaction)]

TakeItem(so, k) ==
    IF context[k].kind = "call" /\ k \in so.in \cup so.out THEN so
    ELSE IF so.in # {} /\ context[k].size > so.left THEN so
    ELSE [so EXCEPT !.in = @ \cup {k}, !.left = @ - context[k].size]

(* _selected_input_items, the positions of the context that the next       *)
(* sample shows the model: from the newest item to the oldest, what fits;  *)
(* the first one is taken whatever its size.                               *)
Input ==
    LET n == Len(context)
        so[k \in 0..n] ==
          IF k = 0 THEN [in |-> {}, out |-> {}, left |-> Budget]
          ELSE LET item == n + 1 - k IN
               IF context[item].kind = "output" THEN TakeOutput(so[k - 1], item)
               ELSE TakeItem(so[k - 1], item)
    IN  so[n].in

-----------------------------------------------------------------------------
(* Sampling *)

(* AgentExecutionError: one more event, response.failed, for a client that *)
(* is there.                                                               *)
Fail == pc' = IF gone THEN "closed" ELSE "failed"

(* A mistake to be caught: one round too many.                             *)
ToolsAllowedOnceMore == toolRound <= MaxToolRounds /\ toolCalls < MaxToolCalls

(* Session._tool_router *)
ToolsAllowed == toolRound < MaxToolRounds /\ toolCalls < MaxToolCalls

(* The loop of run_turn raises out_of_turns when none are left, which never *)
(* happens: see NeverOutOfTurns.                                           *)
TurnsLeft == iteration < MaxModelTurns

StartSampling ==
    /\ pc = "start" /\ TurnsLeft
    /\ iteration' = iteration + 1
    /\ toolsOffered' = ToolsAllowed
    /\ attempt' = 0 /\ emitted' = FALSE
    /\ response' = NoResponse /\ observation' = <<>>
    /\ pc' = "streaming"
    /\ UNCHANGED <<toolRound, toolCalls, executed, context, runs, client>>

(* A part of the response reaches the chat service, which stops reading    *)
(* once the client is gone; closing the generator ends the transport.      *)
StreamEvent ==
    /\ pc = "streaming"
    /\ emitted' = TRUE
    /\ pc' = IF gone THEN "closed" ELSE pc
    /\ UNCHANGED <<counters, context, toolsOffered, attempt, response, observation, runs, client>>

(* sample: the transport failed, for the moment, before it said anything.  *)
Retry ==
    /\ pc = "streaming" /\ ~emitted /\ attempt < MaxRetries
    /\ attempt' = attempt + 1
    /\ UNCHANGED <<pc, counters, context, toolsOffered, emitted, response, observation,
                   runs, client>>

(* It failed for good or too late, or its stream ended without a response. *)
TransportFails ==
    /\ pc = "streaming"
    /\ Fail
    /\ UNCHANGED <<counters, context, sampling, response, observation, runs, client>>

(* The terminal event; of a completed response the chat service keeps the  *)
(* answer, if it is still reading.                                         *)
Settle ==
    /\ pc = "streaming"
    /\ \E r \in Response :
         /\ ~r.completed => r = NoResponse
         /\ response' = r
         /\ finalAnswer' = IF ~gone /\ r.completed /\ r.text # "none" THEN r.text ELSE finalAnswer
         /\ pc' = IF gone THEN "closed" ELSE "settled"
    /\ emitted' = TRUE
    /\ UNCHANGED <<counters, context, toolsOffered, attempt, observation, runs, gone, stored>>

-----------------------------------------------------------------------------
(* Tools *)

(* session.record(response.output) *)
Output(r) ==
    (IF r.text = "none" THEN <<>>
     ELSE <<[kind |-> "message", round |-> iteration, call |-> 0, size |-> 1]>>)
    \o [c \in DOMAIN r.calls |-> [kind |-> "call", round |-> iteration, call |-> c, size |-> 1]]

(* The arguments of the call are those of the schema of a known tool.      *)
Fits(call) == call # "invalid"

(* A mistake to be caught: the request is noted once it has run.           *)
AdmitUnnoted(calls) ==
    LET fit == {c \in DOMAIN calls : Fits(calls[c]) /\ calls[c] \notin executed}
    IN  {c \in fit : Cardinality({d \in fit : d < c}) < MaxToolCalls - toolCalls}

(* execute: the calls that will run, in their order: fit, never requested  *)
(* before in this turn, and within what is left of the limit.              *)
Admit(calls) ==
    LET fresh == {c \in DOMAIN calls :
                    /\ Fits(calls[c]) /\ calls[c] \notin executed
                    /\ ~ \E d \in 1..(c - 1) : calls[d] = calls[c]}
    IN  {c \in fresh : Cardinality({d \in fresh : d < c}) < MaxToolCalls - toolCalls}

(* A completed response that asks for tools; a call that is not admitted   *)
(* is answered with an error at once.                                      *)
StartTools ==
    /\ pc = "settled" /\ response.completed /\ response.calls # <<>>
    /\ toolsOffered
    /\ LET calls == response.calls
           admitted == Admit(calls)
       IN  /\ observation' = [c \in DOMAIN calls |-> IF c \in admitted THEN Running ELSE Refusal]
           /\ executed' = executed \cup {calls[c] : c \in admitted}
           /\ runs' = [s \in Signatures |->
                         runs[s] + Cardinality({c \in admitted : calls[c] = s})]
    /\ context' = context \o Output(response)
    /\ toolRound' = toolRound + 1
    /\ pc' = "executing"
    /\ UNCHANGED <<iteration, toolCalls, sampling, response, client>>

(* A mistake to be caught: a tool has no time limit, and hangs.            *)
FinishToolUntimed(c) ==
    /\ pc = "executing" /\ observation[c] = Running /\ gone
    /\ pc' = "closed"
    /\ UNCHANGED <<counters, context, sampling, response, observation, runs, client>>

(* Tools run at once and end in any order, within their time: with a       *)
(* result, an error or a timeout.  Each start and end is an event, at      *)
(* which a client that is gone is noticed and what still runs cancelled.   *)
FinishTool(c) ==
    /\ pc = "executing" /\ observation[c] = Running
    /\ \E result \in Results : observation' = [observation EXCEPT ![c] = result]
    /\ pc' = IF gone THEN "closed" ELSE pc
    /\ UNCHANGED <<counters, context, sampling, response, runs, client>>

Images == {c \in DOMAIN observation : observation[c].image}

Outputs ==
    [c \in DOMAIN observation |->
        [kind |-> "output", round |-> iteration, call |-> c, size |-> observation[c].size]]

(* A mistake to be caught: a call that was refused gets no output.         *)
ObservationsOfRuns == SelectSeq(Outputs, LAMBDA o : observation[o.call] # Refusal)

(* One output for each call, in the order of the calls, then the images in *)
(* one message.                                                            *)
Observations ==
    Outputs \o (IF Images = {} THEN <<>>
                ELSE <<[kind |-> "image", round |-> iteration, call |-> 0, size |-> Budget + 1]>>)

(* A mistake to be caught: the calls that were refused count as well.      *)
FinishToolsCountingAll ==
    /\ pc = "executing"
    /\ \A c \in DOMAIN observation : observation[c] # Running
    /\ context' = context \o Observations
    /\ toolCalls' = toolCalls + Len(observation)
    /\ pc' = IF gone THEN "closed" ELSE "start"
    /\ UNCHANGED <<iteration, toolRound, executed, sampling, response, observation, runs, client>>

(* The calls that count against the limit are those that were run.         *)
FinishTools ==
    /\ pc = "executing"
    /\ \A c \in DOMAIN observation : observation[c] # Running
    /\ context' = context \o Observations
    /\ toolCalls' = toolCalls + Cardinality({c \in DOMAIN observation : observation[c] # Refusal})
    /\ pc' = IF gone THEN "closed" ELSE "start"
    /\ UNCHANGED <<iteration, toolRound, executed, sampling, response, observation, runs, client>>

(* A tool payload as prose is told from an answer by the tools that were   *)
(* offered: without tools it passes.                                       *)
IsToolPayload(text) == text = "arguments" /\ toolsOffered

Answers(r) == r.calls = <<>> /\ r.text # "none" /\ ~IsToolPayload(r.text)

(* A tool call where none was offered, or neither a call nor an answer.    *)
Reject ==
    /\ pc = "settled" /\ response.completed
    /\ ~Answers(response) /\ ~(response.calls # <<>> /\ toolsOffered)
    /\ Fail
    /\ context' = context \o Output(response)
    /\ UNCHANGED <<counters, sampling, response, observation, runs, client>>

(* An answer, or a response that the provider ended otherwise.             *)
Return ==
    /\ pc = "settled"
    /\ response.completed => Answers(response)
    /\ pc' = "done"
    /\ UNCHANGED <<counters, context, sampling, response, observation, runs, client>>

(* Any other error, of the sandbox or the resources of the step, passes    *)
(* through the agent and the chat service: no event, nothing stored.       *)
Break ==
    /\ pc \in {"start", "settled"}
    /\ pc' = "broken"
    /\ UNCHANGED <<counters, context, sampling, response, observation, runs, client>>

-----------------------------------------------------------------------------
(* The client and the chat service *)

Disconnect ==
    /\ ~gone /\ pc \notin Ended \cup {"stored"}
    /\ gone' = TRUE
    /\ UNCHANGED <<pc, counters, context, sampling, response, observation, runs, finalAnswer, stored>>

(* The stream has ended or is closed: finish_turn stores the answer, or    *)
(* fails with what the answer refers to, or is not reached, when the       *)
(* client's leaving cancels the request itself.                            *)
FinishTurn ==
    /\ pc \in {"done", "failed", "closed"}
    /\ stored' \in {finalAnswer, "none"}
    /\ pc' = "stored"
    /\ UNCHANGED <<counters, context, sampling, response, observation, runs, gone, finalAnswer>>

Step ==
    \/ StartTurn \/ StartSampling \/ Retry \/ TransportFails \/ Settle
    \/ StartTools \/ (\E c \in DOMAIN observation : FinishTool(c)) \/ FinishTools
    \/ Reject \/ Return \/ Break \/ FinishTurn

Next == Step \/ StreamEvent \/ Disconnect

Spec == Init /\ [][Next]_vars

(* The event loop runs the turn on; the transport's timeout ends a stream  *)
(* that says nothing, and wait_for a tool.                                 *)
FairSpec == Spec /\ WF_vars(Step)

-----------------------------------------------------------------------------
(* The model is shown a function call and its output together or neither:  *)
(* a provider refuses a request in which one of them is missing.           *)
InputIsPaired ==
    pc = "start" =>
        LET input == Input
            Pair(k) == {j \in DOMAIN context :
                          /\ context[j].kind \in {"call", "output"}
                          /\ context[j].round = context[k].round /\ context[j].call = context[k].call}
        IN  \A k \in input : context[k].kind \in {"call", "output"} =>
                Cardinality(Pair(k)) = 2 /\ Pair(k) \subseteq input

RunsOnce == \A s \in Signatures : runs[s] <= 1

(* A tool request runs at most once in a turn, and those that run stay     *)
(* within the limit, however many calls one response holds.                *)
RunsWithinLimits ==
    /\ RunsOnce
    /\ Cardinality({s \in Signatures : runs[s] # 0}) <= MaxToolCalls

(* The limit on samples never cuts a turn off: tools are withdrawn early   *)
(* enough for the model to be asked for an answer without them.            *)
NeverOutOfTurns == pc = "start" => TurnsLeft

(* A turn comes to an end.                                                 *)
TurnEnds == <>(pc \in {"stored", "broken"})

(* What is stored as the answer is an answer.  is_tool_arguments_payload   *)
(* says of a payload serialized as text: "Such text is an internal         *)
(* command, never a user answer."                                          *)
StoredAnswerIsAnswer == stored # "arguments"

(* _selected_input_items: "The latest tool output is always retained with  *)
(* its matching function call."                                            *)
LatestOutputRetained ==
    pc = "start" =>
        LET outputs == {k \in DOMAIN context : context[k].kind = "output"} IN
        outputs # {} => Max(outputs) \in Input
=============================================================================
