--------------------------- MODULE ResponseStream ---------------------------
(***************************************************************************)
(* One model response on its way from the provider to the reader: the      *)
(* provider's events pass the citation projection and the reducer, and the *)
(* events that come out are folded a second time by the web client and by  *)
(* the terminal client (agent/citation_stream.py, agent/reducer.py,        *)
(* agent/turn.py, web/src/modules/chat/message-stream.ts, tui/state.py).   *)
(*                                                                         *)
(* The answer is a sequence of chunks, each a few characters; the provider *)
(* cuts it into deltas wherever it likes.  An item has one accumulated     *)
(* text: the text of a message, the summary of a reasoning item, the       *)
(* arguments of a function call.                                           *)
(***************************************************************************)
EXTENDS Integers, Sequences, FiniteSets, SequencesExt, Loops

CONSTANTS
    References,     \* the evidence ids that retrieval issued
    Invented,       \* an id that retrieval never issued
    Numerals,       \* what the numbers of citations read like: "[1]", "[2]", ...
    Replies,        \* the texts the model may write, as sequences of chunks
    Shapes,         \* the sequences of item kinds a response may have
    MaxMarkerLength \* _MAX_MARKER_LENGTH, in characters of the model

\* What a model writes beside citations: a word, an open bracket, a close
\* bracket, a double bracket that is no citation, an open bracket at the very
\* end, a double bracket or a citation that is never closed.
Prose == {"word", "open", "close", "cell", "edge", "stray", "torn"}
Letters == {"a", "[", "]", "cite:"}
Prefix == <<"[", "[", "cite:">>
Marker(id) == Prefix \o <<id, "]", "]">>

ASSUME ReferencesAssumption ==
    /\ IsFiniteSet(References) /\ Invented \notin References
    /\ (References \cup {Invented}) \cap (Prose \cup Letters \cup {"none"}) = {}
    /\ Numerals \in Seq(Range(Numerals)) /\ Cardinality(References) <= Len(Numerals)
    /\ MaxMarkerLength \in Nat /\ MaxMarkerLength >= Len(Marker(Invented))
ASSUME RepliesAssumption == Replies \subseteq Seq(References \cup {Invented} \cup Prose)
ASSUME ShapesAssumption ==
    \A s \in Shapes :
        /\ s \in Seq({"message", "reasoning", "call"})
        /\ Cardinality({i \in DOMAIN s : s[i] = "message"}) = 1

Characters(chunk) ==
    CASE chunk = "word"   -> <<"a">>
      [] chunk = "open"   -> <<"[", "a">>
      [] chunk = "close"  -> <<"]">>
      [] chunk = "cell"   -> <<"[", "[", "a", "]", "]">>
      [] chunk = "edge"   -> <<"a", "[">>
      [] chunk = "stray"  -> <<"[", "[", "a">>
      [] chunk = "torn"   -> Prefix \o <<"a", "a", "a", "a">>
      [] OTHER            -> Marker(chunk)

AddChunk(text, chunk) == text \o Characters(chunk)
Written(reply) == Folded(AddChunk, <<>>, reply)

VARIABLES
    provider,   \* what the model writes and how much of it was sent
    projection, \* CitationProjection: what was held back, projected, cited
    reducer,    \* ResponseReducer: the response as the server rebuilds it
    web,        \* the turn as the browser rebuilds it
    terminal    \* the turn as the terminal client rebuilds it

streamVars == <<provider, projection, reducer, web, terminal>>

\* Events that add or finish an item, and events that address its text.  What
\* a refusal, a reasoning summary and the arguments of a call are streamed with
\* is a delta or the end of a text as well.
ItemEvents == {"item added", "item done"}
ContentEvents == {"part added", "part done", "delta", "text done", "annotation"}

NoItem == [text |-> <<>>, annotations |-> <<>>, phase |-> "none"]
Items == DOMAIN provider.kinds
Message == CHOOSE i \in Items : provider.kinds[i] = "message"
Text == Written(provider.reply)

-----------------------------------------------------------------------------
(* The citation projection.                                                *)

Find(s, pair, from) ==
    LET at == {i \in from .. Len(s) - 1 : <<s[i], s[i + 1]>> = pair}
    IN  IF at = {} THEN 0 ELSE CHOOSE i \in at : \A j \in at : i <= j

Fragment(text) == [text |-> text, cites |-> "none"]
Cited(id) == [text |-> <<>>, cites |-> id]

\* A citation grounds something only when retrieval issued its reference; an
\* invented one is dropped.
MarkerFragments(marker) ==
    IF ~IsPrefix(Prefix, marker) THEN <<Fragment(marker)>>
    ELSE LET id == SubSeq(marker, 4, Len(marker) - 2)
         IN  IF \E r \in provider.evidence : id = <<r>>
             THEN <<Cited(id[1])>> ELSE <<>>

(* A mistake to be caught: what is held back is not bounded. *)
WaitsForever(candidate) == IsPrefix(candidate, Prefix) \/ IsPrefix(Prefix, candidate)
(* A mistake to be caught: a bracket at the end of a delta is shown at once. *)
EndsAnyhow(text) == FALSE

\* What may be the beginning of a citation is held back.
Waits(candidate) ==
    /\ IsPrefix(candidate, Prefix) \/ IsPrefix(Prefix, candidate)
    /\ Len(candidate) <= MaxMarkerLength
EndsInBracket(text) == Last(text) = "["

\* What a buffer holds that can be shown, and what must wait for more.
Returned(scan, text, kept) ==
    [shown |-> Append(scan.shown, Fragment(text)), kept |-> kept, rest |-> <<>>]
Unbracketed(scan) ==
    IF EndsInBracket(scan.rest) THEN Returned(scan, Front(scan.rest), <<"[">>)
    ELSE Returned(scan, scan.rest, <<>>)
Bracketed(scan, start) ==
    LET before == SubSeq(scan.rest, 1, start - 1)
        candidate == SubSeq(scan.rest, start, Len(scan.rest))
        end == Find(candidate, <<"]", "]">>, 3)
    IN  CASE end # 0 ->
                [shown |-> Append(scan.shown, Fragment(before))
                             \o MarkerFragments(SubSeq(candidate, 1, end + 1)),
                 kept |-> <<>>, rest |-> SubSeq(candidate, end + 2, Len(candidate))]
          [] end = 0 /\ Waits(candidate)  -> Returned(scan, before, candidate)
          [] end = 0 /\ ~Waits(candidate) -> Returned(scan, scan.rest, <<>>)

\* One turn of the loop over what remains.  A turn takes at least one character,
\* so as many turns as there are characters come to the end.
Scan(scan, turn) ==
    LET start == Find(scan.rest, <<"[", "[">>, 1)
    IN  CASE scan.rest = <<>>                -> scan
          [] scan.rest # <<>> /\ start = 0 -> Unbracketed(scan)
          [] scan.rest # <<>> /\ start # 0 -> Bracketed(scan, start)
Process(buffer) == Folded(Scan, [shown |-> <<>>, kept |-> <<>>, rest |-> buffer], buffer)

\* The references in the order of their first citation; the place of one is
\* the number the reader sees.
AppendNew(known, new) == IF new \in Range(known) THEN known ELSE Append(known, new)
NumberOf(known, id) == CHOOSE n \in DOMAIN known : known[n] = id
Numeral(n) == <<Numerals[n]>>

\* One fragment: text is forwarded as it is, a citation as its whole number
\* and an annotation that brackets it.
Forward(state, fragment) ==
    IF fragment.cites = "none"
    THEN IF fragment.text = <<>> THEN state
         ELSE [state EXCEPT !.text = @ \o fragment.text,
                            !.out = Append(@, [type |-> "delta", index |-> Message,
                                               text |-> fragment.text])]
    ELSE LET known == AppendNew(state.known, fragment.cites)
             number == Numeral(NumberOf(known, fragment.cites))
             annotation == [cites |-> fragment.cites, number |-> number,
                            start |-> Len(state.text),
                            end |-> Len(state.text) + Len(number)]
         IN  [state EXCEPT
                !.text = @ \o number,
                !.known = known,
                !.annotations = Append(@, annotation),
                !.out = @ \o
                    <<[type |-> "delta", index |-> Message, text |-> number],
                      [type |-> "annotation", index |-> Message,
                       at |-> Len(state.annotations) + 1,
                       annotation |-> annotation]>>]

\* A delta of the message: the text that can be shown, its citations, and what
\* is held back.
ProjectDelta(event) ==
    LET scan == Process(projection.kept \o event.text)
    IN  [Folded(Forward, projection, scan.shown)
            EXCEPT !.kept = scan.kept, !.started = TRUE]

(* A mistake to be caught: what was held back is dropped at the end. *)
ProjectTextDoneDropping(event) ==
    LET flushed == [projection EXCEPT !.kept = <<>>]
    IN  [flushed EXCEPT !.out = Append(@, [event EXCEPT !.text = flushed.text])]

\* The end of the text: what was held back is no citation after all, and the
\* text is the one that was projected.
ProjectTextDone(event) ==
    LET flushed == IF projection.kept = <<>> THEN projection
                   ELSE [Forward(projection, Fragment(projection.kept))
                            EXCEPT !.kept = <<>>, !.started = TRUE]
    IN  [flushed EXCEPT !.out = Append(@, [event EXCEPT !.text = flushed.text])]

MergedAnnotations(existing, more) == Folded(AppendNew, existing, more)

\* The end of the part or of the message: its text and annotations are the
\* projected ones, if any of it was projected.
ProjectWhole(event) ==
    LET item == [event.item EXCEPT
                    !.text = projection.text,
                    !.annotations = MergedAnnotations(@, projection.annotations)]
    IN  [projection EXCEPT !.out =
            <<IF projection.started THEN [event EXCEPT !.item = item] ELSE event>>]

\* CitationProjection.project: without evidence nothing is touched.
Project(event) ==
    IF provider.evidence = {} \/ event.type \notin
            {"delta", "text done", "part done", "item done"}
       \/ event.index # Message
    THEN [projection EXCEPT !.out = <<event>>]
    ELSE CASE event.type = "delta"     -> ProjectDelta(event)
           [] event.type = "text done" -> ProjectTextDone(event)
           [] OTHER                    -> ProjectWhole(event)

-----------------------------------------------------------------------------
(* The reducer: accumulators per item, a shell once the item is known, and *)
(* the items rebuilt from both.                                            *)

InsertAnnotation(annotations, at, annotation) ==
    LET place == IF at <= Len(annotations) THEN at ELSE Len(annotations) + 1
    IN  InsertAt(annotations, place, annotation)

\* What an item or part carries replaces the text when it is not empty, and
\* adds the annotations that are new.
Seeded(old, item) ==
    [old EXCEPT !.text = IF item.text # <<>> THEN item.text ELSE @,
                !.annotations = MergedAnnotations(@, item.annotations)]
Placed(old, item) == [Seeded(old, item) EXCEPT !.phase = item.phase]

\* The end of the response: items the stream never showed are taken from the
\* snapshot, and a message without a phase gets the one its response implies.
SettleResponse(state, event) ==
    LET missing == DOMAIN event.output \ state.shells
        shells == state.shells \cup missing
        placed == [i \in Items |-> IF i \in missing THEN Placed(state.items[i], event.output[i].item)
                                   ELSE state.items[i]]
        calls == \E i \in shells : provider.kinds[i] = "call"
        implied == IF calls THEN "commentary" ELSE "final_answer"
    IN  [shells |-> shells, status |-> event.status,
         items |-> [i \in Items |->
            IF i \in shells \cap {Message} /\ placed[i].phase = "none"
            THEN [placed[i] EXCEPT !.phase = implied] ELSE placed[i]]]

Reduce(state, event) ==
    CASE event.type = "created"    -> [state EXCEPT !.status = "in_progress"]
      [] event.type = "terminal"   -> SettleResponse(state, event)
      [] event.type = "error"      -> [state EXCEPT !.status = "failed"]
      [] event.type \in ItemEvents ->
            [state EXCEPT !.shells = @ \cup {event.index},
                          !.items[event.index] = Placed(@, event.item)]
      [] event.type \in {"part added", "part done"} ->
            [state EXCEPT !.items[event.index] = Seeded(@, event.item)]
      [] event.type = "delta" ->
            [state EXCEPT !.items[event.index].text = @ \o event.text]
      [] event.type = "text done"  ->
            [state EXCEPT !.items[event.index].text = event.text]
      [] event.type = "annotation" ->
            [state EXCEPT !.items[event.index].annotations =
                InsertAnnotation(@, event.at, event.annotation)]

\* The response's output in index order.
InOrder(S) ==
    CHOOSE s \in [1 .. Cardinality(S) -> S] : \A m, n \in DOMAIN s : m < n => s[m] < s[n]
OutputItems(state) ==
    LET order == InOrder(state.shells)
    IN  [n \in DOMAIN order |-> [id |-> order[n], at |-> n, item |-> state.items[order[n]]]]

-----------------------------------------------------------------------------
(* The web client folds the forwarded events into its own items.           *)

(* A mistake to be caught: an item stays where it was first listed. *)
ReplaceItemOnce(order, id, index) ==
    IF id \in Range(order) THEN order
    ELSE InsertAt(order, IF index <= Len(order) THEN index ELSE Len(order) + 1, id)

\* Where the browser lists the item id that was reported at an index.
ReplaceItem(order, id, index) ==
    IF id \notin Range(order)
    THEN InsertAt(order, IF index <= Len(order) THEN index ELSE Len(order) + 1, id)
    ELSE LET at == CHOOSE n \in DOMAIN order : order[n] = id
         IN  IF at # index /\ index <= Len(order)
             THEN InsertAt(RemoveAt(order, at), index, id) ELSE order

\* A repeated item keeps what was streamed when it carries nothing itself; a
\* function call is taken as it comes.
MergeItem(state, id, incoming) ==
    LET old == state.items[id]
        text == IF incoming.text # <<>> THEN incoming.text ELSE old.text
    IN  IF id \notin Range(state.order) THEN incoming
        ELSE CASE provider.kinds[id] = "message"   ->
                    [incoming EXCEPT !.text = text,
                        !.annotations = MergedAnnotations(old.annotations, incoming.annotations)]
               [] provider.kinds[id] = "reasoning" -> [incoming EXCEPT !.text = text]
               [] provider.kinds[id] = "call"      -> incoming

UpsertItem(state, id, index, incoming) ==
    [state EXCEPT !.items[id] = MergeItem(state, id, incoming),
                  !.order = ReplaceItem(@, id, index)]

\* The snapshot's items are taken at their positions in it.
TakeEntry(state, entry) == UpsertItem(state, entry.id, entry.at, entry.item)
Reconcile(state, output) == Folded(TakeEntry, state, output)

\* An event that addresses the text of one item.
UpdateItem(state, i, item) ==
    [state EXCEPT !.items[i] = item, !.order = ReplaceItem(@, i, i)]

WebFold(state, event) ==
    CASE event.type = "created" -> [state EXCEPT !.status = "streaming"]
      [] event.type = "terminal" ->
            LET next == Reconcile(state, event.output)
                calls == \E i \in Range(next.order) : provider.kinds[i] = "call"
            IN  [next EXCEPT !.status =
                    IF event.status # "completed" THEN "failed"
                    ELSE IF calls THEN "streaming" ELSE "completed"]
      [] event.type \in {"error", "failure"} -> [state EXCEPT !.status = "failed"]
      [] event.type \in ItemEvents ->
            UpsertItem(state, event.index, event.index, event.item)
      [] event.type = "part done" ->
            UpdateItem(state, event.index,
                [state.items[event.index] EXCEPT
                    !.text = event.item.text, !.annotations = event.item.annotations])
      [] event.type = "delta" ->
            UpdateItem(state, event.index,
                [state.items[event.index] EXCEPT !.text = @ \o event.text])
      [] event.type = "text done" ->
            UpdateItem(state, event.index,
                [state.items[event.index] EXCEPT !.text = event.text])
      [] event.type = "annotation" ->
            UpdateItem(state, event.index,
                [state.items[event.index] EXCEPT !.annotations =
                    InsertAnnotation(@, event.at, event.annotation)])

-----------------------------------------------------------------------------
(* The terminal client takes an item event for the response whose id the   *)
(* event carries.                                                          *)

ResponseId(event) == IF "response_id" \in DOMAIN event THEN event.response_id ELSE ""

TerminalFold(state, event) ==
    CASE event.type = "terminal" ->
            [state EXCEPT !.status =
                IF event.status # "completed" THEN event.status
                ELSE IF state.text # <<>> /\ ~state.calls THEN "completed" ELSE @]
      [] event.type = "failure" -> [state EXCEPT !.status = "failed"]
      [] event.type \in {"created", "error"} -> state
      [] event.type \in ItemEvents \cup ContentEvents ->
            IF ResponseId(event) = "" THEN state
            ELSE CASE event.type \in ItemEvents ->
                        [state EXCEPT
                            !.calls = @ \/ provider.kinds[event.index] = "call",
                            !.text = IF event.index = Message
                                     THEN event.item.text ELSE @]
                   [] event.type \in {"delta", "text done"} /\ event.index = Message ->
                        [state EXCEPT !.text =
                            IF event.type = "delta" THEN @ \o event.text ELSE event.text]
                   [] OTHER -> state

-----------------------------------------------------------------------------
(* The provider.                                                           *)

FullText(i) == IF i = Message THEN Text ELSE <<"v", "w">>
SentText(i) == SubSeq(FullText(i), 1, provider.sent[i])
Full(i) == [NoItem EXCEPT !.text = SentText(i)]

InitProvider ==
    \E reply \in Replies, kinds \in Shapes, evidence \in {{}, References} :
        provider = [reply |-> reply, kinds |-> kinds, evidence |-> evidence,
                    sent |-> [i \in DOMAIN kinds |-> 0],
                    stage |-> [i \in DOMAIN kinds |-> "new"], ended |-> "no"]
InitProjection ==
    projection = [text |-> <<>>, kept |-> <<>>, annotations |-> <<>>,
                  known |-> <<>>, started |-> FALSE, out |-> <<>>]
InitReducer ==
    reducer = [shells |-> {}, items |-> [i \in Items |-> NoItem], status |-> "none"]
InitWeb ==
    web = [order |-> <<>>, items |-> [i \in Items |-> NoItem], status |-> "streaming"]
InitTerminal ==
    terminal = [text |-> <<>>, calls |-> FALSE, status |-> "in_progress"]
StreamInit == InitProvider /\ InitProjection /\ InitReducer /\ InitWeb /\ InitTerminal

\* run_sampling_request: each event passes the projection; what comes out passes
\* the reducer, which replaces the response of the last one, and reaches the clients.
Forwarded(event, reduced) ==
    IF event.type = "terminal" THEN [event EXCEPT !.output = OutputItems(reduced)] ELSE event
Deliver(readers, event) ==
    LET reduced == Reduce(readers.reducer, event)
        forwarded == Forwarded(event, reduced)
    IN  [reducer |-> reduced, web |-> WebFold(readers.web, forwarded),
         terminal |-> TerminalFold(readers.terminal, forwarded)]
Emit(event) ==
    LET projected == Project(event)
        delivered == Folded(Deliver, [reducer |-> reducer, web |-> web, terminal |-> terminal],
                            projected.out)
    IN  /\ projection' = [projected EXCEPT !.out = <<>>]
        /\ reducer' = delivered.reducer
        /\ web' = delivered.web
        /\ terminal' = delivered.terminal

Open == provider.ended = "no" /\ reducer.status = "in_progress"
At(i, stage) == Open /\ provider.stage[i] = stage

Create ==
    /\ reducer.status = "none"
    /\ provider.ended = "no"
    /\ UNCHANGED provider
    /\ Emit([type |-> "created"])

AddItem(i) ==
    /\ At(i, "new")
    /\ provider' = [provider EXCEPT !.stage[i] = "added"]
    /\ Emit([type |-> "item added", index |-> i, item |-> NoItem])

SendDelta(i) ==
    /\ At(i, "added")
    /\ \E upto \in provider.sent[i] + 1 .. Len(FullText(i)) :
         /\ provider' = [provider EXCEPT !.sent[i] = upto]
         /\ Emit([type |-> "delta", index |-> i,
                  text |-> SubSeq(FullText(i), provider.sent[i] + 1, upto)])

\* The text of an item ends; before its time when the model hit its limit.
EndText(i) ==
    /\ At(i, "added")
    /\ provider.sent[i] > 0
    /\ provider' = [provider EXCEPT !.stage[i] = "written"]
    /\ Emit([type |-> "text done", index |-> i, text |-> SentText(i)])

EndPart(i) ==
    /\ At(i, "written")
    /\ i = Message
    /\ provider' = [provider EXCEPT !.stage[i] = "closed"]
    /\ Emit([type |-> "part done", index |-> i, item |-> Full(i)])

\* The item is repeated, or, for a text that was streamed, only its shell.
EndItem(i) ==
    /\ \/ At(i, "written") \/ At(i, "closed")
       \/ At(i, "added") /\ provider.sent[i] = Len(FullText(i))
    /\ provider' = [provider EXCEPT !.stage[i] = "done"]
    /\ \E item \in {Full(i)} \cup (IF provider.kinds[i] = "call" THEN {} ELSE {NoItem}) :
         Emit([type |-> "item done", index |-> i, item |-> item])

Whole(i) == provider.sent[i] = Len(FullText(i))

\* The response is complete once every item that was begun is; its snapshot
\* repeats the items, with one that was not streamed, or none of them.
CompleteResponse ==
    /\ Open
    /\ \A i \in Items : \/ provider.stage[i] = "new"
                        \/ provider.stage[i] = "done" /\ Whole(i)
    /\ provider' = [provider EXCEPT !.ended = "completed"]
    /\ \E output \in {[i \in Items |->
                         [id |-> i, at |-> i, item |-> [NoItem EXCEPT !.text = FullText(i)]]]}
                     \cup (IF \A i \in Items : provider.stage[i] = "done"
                           THEN {<<>>} ELSE {}) :
         Emit([type |-> "terminal", status |-> "completed", output |-> output])

\* The response stops at the model's limit or fails, with what was streamed.
Stop ==
    /\ Open
    /\ \E status \in {"incomplete", "failed"} :
         /\ provider' = [provider EXCEPT !.ended = status]
         /\ Emit([type |-> "terminal", status |-> status, output |-> <<>>])

\* The provider reports an error in place of the end.
Error ==
    /\ Open
    /\ provider' = [provider EXCEPT !.ended = "failed"]
    /\ Emit([type |-> "error"])

\* The connection breaks: the turn ends with a failure of its own, which no
\* longer passes the reducer.
BreakConnection ==
    /\ provider.ended = "no"
    /\ provider' = [provider EXCEPT !.ended = "failed"]
    /\ web' = WebFold(web, [type |-> "failure"])
    /\ terminal' = TerminalFold(terminal, [type |-> "failure"])
    /\ UNCHANGED <<projection, reducer>>

StreamNext ==
    \/ Create
    \/ \E i \in Items :
          AddItem(i) \/ SendDelta(i) \/ EndText(i) \/ EndPart(i) \/ EndItem(i)
    \/ CompleteResponse \/ Stop \/ Error \/ BreakConnection

StreamSpec == StreamInit /\ [][StreamNext]_streamVars
-----------------------------------------------------------------------------
(* What the stream promises.                                               *)

Characterset == Letters \cup References \cup {Invented} \cup Range(Numerals)
ItemType == [text : Seq(Characterset \cup {"v", "w"}),
             annotations : Seq([cites : References, number : Seq(Characterset),
                                start : Nat, end : Nat]),
             phase : {"none", "commentary", "final_answer"}]

StreamTypeOK ==
    /\ provider.ended \in {"no", "completed", "incomplete", "failed"}
    /\ \A i \in Items :
         /\ provider.sent[i] \in 0 .. Len(FullText(i))
         /\ provider.stage[i] \in {"new", "added", "written", "closed", "done"}
         /\ reducer.items[i] \in ItemType
         /\ web.items[i] \in ItemType
    /\ projection.text \in Seq(Characterset)
    /\ projection.kept \in Seq(Characterset)
    /\ Len(projection.kept) <= MaxMarkerLength
    /\ projection.out = <<>>
    /\ reducer.shells \subseteq Items
    /\ reducer.status \in {"none", "in_progress", "completed", "incomplete", "failed"}
    /\ Range(web.order) \subseteq Items
    /\ web.status \in {"streaming", "completed", "failed"}
    /\ terminal.status \in {"in_progress", "completed", "incomplete", "failed"}
    /\ terminal.text \in Seq(Characterset)

\* What the answer reads like once its citations are numbered: each citation
\* of an issued reference is a number and an annotation that brackets it, each
\* invented one is gone.  Without evidence nothing is rewritten.
ReadChunk(reading, chunk) ==
    CASE chunk \in References ->
            LET known == AppendNew(reading.known, chunk)
                number == Numeral(NumberOf(known, chunk))
                start == Len(reading.text)
            IN  [text |-> reading.text \o number, known |-> known,
                 annotations |-> Append(reading.annotations,
                    [cites |-> chunk, number |-> number,
                     start |-> start, end |-> start + Len(number)])]
      [] chunk = Invented -> reading
      [] OTHER -> [reading EXCEPT !.text = @ \o Characters(chunk)]

Reading ==
    LET blank == [text |-> <<>>, known |-> <<>>, annotations |-> <<>>]
    IN  IF provider.evidence = {} THEN [blank EXCEPT !.text = Text]
        ELSE Folded(ReadChunk, blank, provider.reply)

\* A double bracket the model never closes can hide a citation or not,
\* depending on where the deltas are cut; two brackets can come from two chunks.
Closed ==
    /\ Range(provider.reply) \cap {"stray", "torn"} = {}
    /\ \A n \in 1 .. Len(provider.reply) - 1 :
          provider.reply[n] = "edge" => Characters(provider.reply[n + 1])[1] # "["
CutShort == provider.stage[Message] \notin {"new", "added"} /\ ~Whole(Message)
Streamed(i) == provider.stage[i] # "new"

\* However the provider cuts the answer, the reader at every moment sees a
\* beginning of the finished reading, and the annotations of the citations in
\* it: never a piece of an internal marker that later disappears, never an
\* annotation in a wrong place (citation_stream.py, project).
ReaderSeesABeginning ==
    Closed /\ ~CutShort /\ Streamed(Message) =>
        /\ IsPrefix(web.items[Message].text, Reading.text)
        /\ IsPrefix(web.items[Message].annotations, Reading.annotations)

\* When the text has ended and nothing is held back, nothing is missing: the browser and the
\* response the server keeps both hold the finished reading with every
\* citation annotated, and the evidence recorded as used is the evidence cited
\* (citation_stream.py, _flush and _message; reducer.py, _seed).
NothingIsLost ==
    (/\ Closed /\ ~CutShort
     /\ provider.stage[Message] \in {"written", "closed", "done"}
     /\ projection.kept = <<>>) =>
        \A item \in {web.items[Message], reducer.items[Message]} :
            /\ item.text = Reading.text
            /\ item.annotations = Reading.annotations
            /\ projection.known = Reading.known

\* Once the browser took over a completed response it shows the items the
\* server keeps, in the server's order, whatever order they were announced in.
BrowserConverges ==
    reducer.status = "completed" =>
        /\ Range(web.order) = reducer.shells
        /\ \A m, n \in DOMAIN web.order : m < n => web.order[m] < web.order[n]
        /\ \A i \in reducer.shells : web.items[i] = reducer.items[i]

\* tui/state.py, final_text: "The final no-tool assistant message suitable for
\* next-turn history": the terminal client holds the answer of a completed
\* response that asked for no tool.
TerminalHoldsAnswer ==
    (/\ reducer.status = "completed"
     /\ \A i \in reducer.shells : provider.kinds[i] # "call") =>
        terminal.text = reducer.items[Message].text
=============================================================================
