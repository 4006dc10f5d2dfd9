---------------------------- MODULE KnowledgeSearch ----------------------------
(***************************************************************************)
(* The search of one agent turn in the documents of a tenant, and a reader *)
(* who opens what the answer cites: services/agent_runtime/                *)
(* knowledge_search.py, knowledge/, document_index/ and                    *)
(* services/knowledge_view.py, beside documents that are indexed again     *)
(* (services/item_ingestion.py).                                           *)
(*                                                                         *)
(* A round of the turn runs several calls at once, each with several       *)
(* queries.  The chunks of a document are numbered and the numbers are     *)
(* used again for the next version of it; a reference of the turn stands   *)
(* for (document, number).                                                 *)
(*                                                                         *)
(* Where AgentTurn has a definition of the same name, the one of the       *)
(* search says so: a module of proofs extends both.                        *)
(***************************************************************************)
EXTENDS DocumentChunks

CONSTANTS
    Documents,      \* the items in question
    Rewritten,      \* those that get new content
    Contents,       \* what they may hold
    CollectionOf,   \* the Collection of each
    Rounds,         \* what a model asks at once: for each call, how many queries
    ResultLimit,    \* of one query
    MaxCharacters,  \* max_characters, in the units of size
    HeaderSize,     \* what the header of a block takes
    MaxVersions,    \* bound of the model: how often a document changes
    MaxQueries,     \* bound of the model: how many queries a turn asks
    None

ASSUME SearchAssumption ==
    /\ IsFiniteSet(Documents) /\ Rewritten \subseteq Documents
    /\ IsFiniteSet(Contents) /\ \A content \in Contents : WellFormed(content)
    /\ DOMAIN CollectionOf = Documents
    /\ Rounds \subseteq Seq(Nat)
    /\ ResultLimit \in Nat \ {0} /\ MaxVersions \in Nat \ {0} /\ MaxQueries \in Nat \ {0}
    /\ HeaderSize \in Nat /\ MaxCharacters \in Nat /\ MaxCharacters > HeaderSize

VARIABLES
    versions,       \* the contents a document has had
    indexing,       \* where its index stands: index_status and the steps of a run
    published,      \* the version whose points were last written: a history variable
    points,         \* Qdrant: for each chunk number its version and whether it is live
    citations,      \* the table of citations, likewise
    readable,       \* the Collections the user may read now
    scope,          \* those of the turn
    phase,          \* of the turn: "new", "running" or "answered"
    queries,        \* how many queries the turn has asked
    calls,          \* the calls of the round
    references,     \* CitationReferences: (document, number) in order of assignment
    evidence,       \* TurnContext.evidence, by reference
    shown,          \* what contexts have shown the model: a history variable
    answer,         \* what the answer cites
    view            \* what the reader opens

searchVars == <<versions, indexing, published, points, citations, readable, scope, phase,
                queries, calls, references, evidence, shown, answer, view>>
index == <<versions, indexing, published, points, citations>>
turn == <<scope, phase, queries, calls, references, evidence, shown, answer>>

Collections == Range(CollectionOf)
ChunksOf == [content \in Contents |-> Chunks(content)]
ChunkOf(document, version, n) == ChunksOf[versions[document][version]][n]
Current(document) == Len(versions[document])
CurrentChunks(document) == ChunksOf[versions[document][Current(document)]]
MaxChunks == Max({Len(ChunksOf[content]) : content \in Contents})
Numbers == 1..MaxChunks

Absent == [version |-> 0, live |-> FALSE]
Result(state, hits) == [state |-> state, hits |-> hits]
NoView == [stage |-> "none", focused |-> FALSE, payloads |-> {}, elements |-> {}, version |-> 0,
           clean |-> FALSE]

-----------------------------------------------------------------------------
\* Indexing of a document, as process_item_content and replace_item_points do it.

SearchInit ==
    /\ \E content \in Contents : versions = [d \in Documents |-> <<content>>]
    /\ indexing = [d \in Documents |-> "ready"]
    /\ published = [d \in Documents |-> 1]
    /\ points = [d \in Documents |-> [n \in Numbers |->
                    IF n <= Len(CurrentChunks(d)) THEN [version |-> 1, live |-> TRUE] ELSE Absent]]
    /\ citations = points
    /\ readable \in {r \in SUBSET Collections : r # {}}
    /\ scope = {}
    /\ phase = "new"
    /\ queries = 0
    /\ calls = <<>>
    /\ references = <<>>
    /\ evidence = <<>>
    /\ shown = {}
    /\ answer = None
    /\ view = NoView

Stage(d, from, to) ==
    /\ indexing[d] = from
    /\ indexing' = [indexing EXCEPT ![d] = to]

\* New content of a document arrives, or the last run failed: a run begins.
StartIndexing(d) ==
    /\ indexing[d] \in {"ready", "failed"}
    /\ Stage(d, indexing[d], "processing")
    /\ \/ /\ Current(d) < MaxVersions
          /\ \E content \in Contents :
                versions' = [versions EXCEPT ![d] = Append(@, content)]
       \/ indexing[d] = "failed" /\ UNCHANGED versions
    /\ UNCHANGED <<published, points, citations>>

(* A mistake to be caught: a row that was deleted once stays deleted. *)
ReplacedUnrestored(rows, d) ==
    [n \in Numbers |->
        IF n <= Len(CurrentChunks(d))
        THEN [version |-> Current(d), live |-> rows[n].version = 0]
        ELSE [rows[n] EXCEPT !.live = FALSE]]

\* Every row is deleted, and those of the new chunks are written or restored.
Replaced(rows, d) ==
    [n \in Numbers |->
        IF n <= Len(CurrentChunks(d)) THEN [version |-> Current(d), live |-> TRUE]
        ELSE [rows[n] EXCEPT !.live = FALSE]]

ReplaceForItem(d) ==
    /\ Stage(d, "processing", "cited")
    /\ citations' = [citations EXCEPT ![d] = Replaced(@, d)]
    /\ UNCHANGED <<versions, published, points>>

(* A mistake to be caught: the upsert alone replaces the points. *)
NotTombstoned(rows) == rows

Tombstoned(rows) == [n \in Numbers |-> [rows[n] EXCEPT !.live = FALSE]]

TombstonePoints(d) ==
    /\ Stage(d, "cited", "tombstoned")
    /\ points' = [points EXCEPT ![d] = Tombstoned(@)]
    /\ UNCHANGED <<versions, published, citations>>

UpsertPoints(d) ==
    /\ Stage(d, "tombstoned", "upserted")
    /\ points' = [points EXCEPT ![d] =
            [n \in Numbers |-> IF n <= Len(CurrentChunks(d))
                               THEN [version |-> Current(d), live |-> TRUE] ELSE @[n]]]
    /\ published' = [published EXCEPT ![d] = Current(d)]
    /\ UNCHANGED <<versions, citations>>

MarkReady(d) ==
    /\ Stage(d, "upserted", "ready")
    /\ UNCHANGED <<versions, published, points, citations>>

\* A store, the embedder or the parser fails.
FailIndexing(d) ==
    /\ indexing[d] \in {"processing", "cited", "tombstoned", "upserted"}
    /\ Stage(d, indexing[d], "failed")
    /\ UNCHANGED <<versions, published, points, citations>>

Index(d) ==
    /\ StartIndexing(d) \/ ReplaceForItem(d) \/ TombstonePoints(d) \/ UpsertPoints(d)
        \/ MarkReady(d) \/ FailIndexing(d)
    /\ UNCHANGED <<readable, turn, view>>

\* An administrator takes a Collection away from the user.
Revoke(collection) ==
    /\ collection \in readable
    /\ readable' = readable \ {collection}
    /\ UNCHANGED <<index, turn, view>>

-----------------------------------------------------------------------------
\* The searches of a turn.

\* _resolve_knowledge_scope: what the user selected must be readable, and
\* nothing selected stands for everything.  The turn keeps what it found.
ResolveScope(selected) ==
    /\ phase = "new"
    /\ selected \subseteq readable
    /\ scope' = IF selected = {} THEN readable ELSE selected
    /\ phase' = "running"
    /\ UNCHANGED <<index, readable, queries, calls, references, evidence, shown, answer, view>>

\* The model asks for some calls at once.
StartRound(asked) ==
    /\ phase = "running"
    /\ calls = <<>>
    /\ queries' = queries + Folded(+, 0, asked)
    /\ queries' <= MaxQueries
    /\ calls' = [c \in DOMAIN asked |->
            [stage |-> "searching", since |-> published, outcome |-> "none", evidence |-> <<>>,
             results |-> [q \in 1..asked[c] |-> Result("waiting", <<>>)]]]
    /\ UNCHANGED <<index, readable, scope, phase, references, evidence, shown, answer, view>>

\* _access_filter: the points a search of the turn can see.
Candidates ==
    {hit \in [document : Documents, number : Numbers, version : 1..MaxVersions] :
        /\ CollectionOf[hit.document] \in scope
        /\ points[hit.document][hit.number] = [version |-> hit.version, live |-> TRUE]}

\* The embedder, the fusion of Qdrant and the reranker decide on the order.
Rankings(candidates) ==
    LET count == Min({ResultLimit, Cardinality(candidates)})
    IN  {hits \in [1..count -> candidates] : IsInjective(hits)}

\* search_item_content: nothing is asked of the index without a Collection.
SearchItemContent == IF scope = {} THEN {<<>>} ELSE Rankings(Candidates)

Waiting(c) == {q \in DOMAIN calls[c].results : calls[c].results[q].state = "waiting"}

Searching(c) == c \in DOMAIN calls /\ calls[c].stage = "searching"

EndQuery(c, q, result) ==
    /\ Searching(c) /\ q \in Waiting(c)
    /\ calls' = [calls EXCEPT ![c].results[q] = result]
    /\ UNCHANGED <<index, readable, scope, phase, queries, references, evidence, shown, answer, view>>

\* One query reads the index; its hits come with a score.
Retrieve(c, q) ==
    \E hits \in SearchItemContent, score \in 1..2 :
        EndQuery(c, q, Result("answered", [n \in DOMAIN hits |->
            [document |-> hits[n].document, number |-> hits[n].number,
             version |-> hits[n].version, score |-> score]]))

QueryFails(c, q) == EndQuery(c, q, Result("retrieval_failure", <<>>))

\* The deadline all queries of a call share.
Deadline(c) ==
    /\ Searching(c) /\ Waiting(c) # {}
    /\ calls' = [calls EXCEPT ![c].results =
            [q \in DOMAIN @ |-> IF q \in Waiting(c) THEN Result("timeout", <<>>) ELSE @[q]]]
    /\ UNCHANGED <<index, readable, scope, phase, queries, references, evidence, shown, answer, view>>

Failures == {"timeout", "retrieval_failure"}
Identity(hit) == [document |-> hit.document, number |-> hit.number]

\* CitationReferences.reference: the reference is the place in the order.
Assign(assigned, identity) ==
    IF identity \in Range(assigned) THEN assigned ELSE Append(assigned, identity)

\* _merged_evidence: the hits of all queries that answered, each chunk once.
Unseen(merged, hit) ==
    IF \E n \in DOMAIN merged : Identity(merged[n]) = Identity(hit) THEN merged
    ELSE Append(merged, hit)
Collected(merged, result) == Folded(Unseen, merged, result.hits)
Merged(results) == Folded(Collected, <<>>, results)

(* A mistake to be caught: what did not fit is evidence all the same. *)
BuildAll(merged) == merged

(* A mistake to be caught: what does not fit is evidence all the same. *)
IncludeAll(built, hit) ==
    LET room == built.remaining - HeaderSize
        size == Length(ChunkOf(hit.document, hit.version, hit.number).text)
        more == [built EXCEPT !.included = Append(@, hit)]
    IN  IF built.full \/ room <= 0 THEN [more EXCEPT !.full = TRUE]
        ELSE [more EXCEPT !.blocks = Append(@, hit), !.remaining = room - Min({size, room})]

\* One block of EvidenceContextBuilder.build: the first that has no room ends
\* the text, and the text of a block may be clipped.
AddBlock(built, hit) ==
    LET room == built.remaining - HeaderSize
        size == Length(ChunkOf(hit.document, hit.version, hit.number).text)
    IN  IF built.full \/ room <= 0 THEN [built EXCEPT !.full = TRUE]
        ELSE [built EXCEPT !.blocks = Append(@, hit), !.included = Append(@, hit),
                           !.remaining = room - Min({size, room})]

Build(merged) ==
    Folded(AddBlock, [blocks |-> <<>>, included |-> <<>>, remaining |-> MaxCharacters, full |-> FALSE],
             merged)

Outcome(results, built) ==
    LET failures == {r.state : r \in Range(results)} \cap Failures
    IN  IF built.included # <<>> THEN IF failures # {} THEN "partial_success" ELSE "success"
        ELSE IF failures = {"timeout"} THEN "timeout"
        ELSE IF failures # {} THEN "retrieval_failure" ELSE "empty"

\* The end of AgentKnowledgeSearchService.search, which never waits.
Complete(c) ==
    /\ Searching(c) /\ Waiting(c) = {}
    /\ LET merged == Merged(calls[c].results)
           built == Build(merged)
           assigned == Folded(Assign, references, [n \in DOMAIN merged |-> Identity(merged[n])])
           Reference(hit) == CHOOSE n \in DOMAIN assigned :
                                /\ assigned[n] = Identity(hit)
                                /\ \A m \in (n + 1)..Len(assigned) : assigned[m] # assigned[n]
       IN  /\ references' = assigned
           /\ calls' = [calls EXCEPT
                   ![c].stage = "answered", ![c].outcome = Outcome(calls[c].results, built),
                   ![c].evidence = [n \in DOMAIN built.included |->
                        [reference |-> Reference(built.included[n]), hit |-> built.included[n]]]]
           /\ shown' = shown \cup {[reference |-> Reference(hit), document |-> hit.document,
                        number |-> hit.number, version |-> hit.version,
                        since |-> calls[c].since[hit.document]] : hit \in Range(built.blocks)}
    /\ UNCHANGED <<index, readable, scope, phase, queries, evidence, answer, view>>

(* A mistake to be caught: evidence is kept in order, not by reference. *)
KeptInOrder(known, source) ==
    [r \in 1..(Cardinality(DOMAIN known) + 1) |-> IF r \in DOMAIN known THEN known[r] ELSE source.hit]

\* ToolOrchestrator.execute: once every call of the round has ended, their
\* evidence is kept by reference, the better scored one first.
Kept(known, source) ==
    IF \/ source.reference \notin DOMAIN known
       \/ source.hit.score > known[source.reference].score
    THEN [r \in DOMAIN known \cup {source.reference} |->
             IF r = source.reference THEN source.hit ELSE known[r]]
    ELSE known

KeptOf(known, call) == Folded(Kept, known, call.evidence)

FinishRound ==
    /\ calls # <<>>
    /\ \A c \in DOMAIN calls : calls[c].stage = "answered"
    /\ evidence' = Folded(KeptOf, evidence, calls)
    /\ calls' = <<>>
    /\ UNCHANGED <<index, readable, scope, phase, queries, references, shown, answer, view>>

\* The model answers and cites; a reference without evidence is not rendered.
Answer(reference) ==
    /\ phase = "running"
    /\ calls = <<>>
    /\ reference \in DOMAIN evidence
    /\ answer' = evidence[reference]
    /\ phase' = "answered"
    /\ UNCHANGED <<index, readable, scope, queries, calls, references, evidence, shown, view>>

-----------------------------------------------------------------------------
\* A reader opens the document of the citation, at the chunk or as a whole.

Payloads(d, numbers) ==
    {[number |-> n, version |-> points[d][n].version] : n \in {m \in numbers : points[d][m].live}}

\* KnowledgeViewService.get_item reads the points of the document...
OpenPoints(focused) ==
    /\ answer # None /\ view = NoView
    /\ LET d == answer.document
           payloads == Payloads(d, IF focused THEN {answer.number} ELSE Numbers)
       IN  view' = [NoView EXCEPT
               !.stage = CASE CollectionOf[d] \notin readable -> "denied"
                           [] focused /\ payloads = {} -> "not_found"
                           [] OTHER -> "points",
               !.focused = focused, !.payloads = payloads,
               !.version = Current(d),
               !.clean = indexing[d] = "ready"]
    /\ UNCHANGED <<index, readable, turn>>

\* ...and then the citations, by the numbers of the chunks.
OpenCitations ==
    /\ view.stage = "points"
    /\ LET d == answer.document
           cited == {payload \in view.payloads : citations[d][payload.number].live}
           Citation(payload) ==
               LET row == citations[d][payload.number]
               IN  IF row.live THEN ChunkOf(d, row.version, payload.number)
                   ELSE [section |-> <<>>, spans |-> <<>>]
       IN  view' = [view EXCEPT
               !.stage = IF view.focused /\ cited = {}
                         THEN "not_found" ELSE "open",
               !.elements = ViewerElements(
                   {[text |-> ChunkOf(d, payload.version, payload.number).text,
                     citation |-> Citation(payload)] : payload \in view.payloads}),
               !.version = Current(d),
               !.clean = @ /\ indexing[d] = "ready" /\ view.version = Current(d)]
    /\ UNCHANGED <<index, readable, turn>>

-----------------------------------------------------------------------------

SearchNext ==
    \/ \E d \in Rewritten : Index(d)
    \/ \E collection \in Collections : Revoke(collection)
    \/ \E selected \in SUBSET Collections : ResolveScope(selected)
    \/ \E asked \in Rounds : StartRound(asked)
    \/ \E c \in DOMAIN calls : \/ \E q \in Waiting(c) : Retrieve(c, q) \/ QueryFails(c, q)
                              \/ Deadline(c)
                              \/ Complete(c)
    \/ FinishRound
    \/ \E reference \in DOMAIN evidence : Answer(reference)
    \/ \E focused \in BOOLEAN : OpenPoints(focused)
    \/ OpenCitations

SearchSpec == SearchInit /\ [][SearchNext]_searchVars

-----------------------------------------------------------------------------
\* Properties.

Hit == [document : Documents, number : Numbers, version : 1..MaxVersions, score : 1..2]
Row == [version : 0..MaxVersions, live : BOOLEAN]

(* Every variable stays in its type.                                       *)
SearchTypeOK ==
    /\ \A d \in Documents :
        /\ versions[d] # <<>> /\ Range(versions[d]) \subseteq Contents
        /\ Current(d) <= MaxVersions /\ published[d] \in 1..Current(d)
        /\ indexing[d] \in {"ready", "processing", "cited", "tombstoned", "upserted", "failed"}
    /\ points \in [Documents -> [Numbers -> Row]]
    /\ citations \in [Documents -> [Numbers -> Row]]
    /\ readable \subseteq Collections /\ scope \subseteq Collections
    /\ phase \in {"new", "running", "answered"} /\ queries \in 0..MaxQueries
    /\ \A c \in DOMAIN calls :
        /\ calls[c].stage \in {"searching", "answered"}
        /\ \A q \in DOMAIN calls[c].results :
            /\ calls[c].results[q].state \in Failures \cup {"waiting", "answered"}
            /\ Range(calls[c].results[q].hits) \subseteq Hit
    /\ DOMAIN evidence \subseteq 1..Len(references)
    /\ Range(evidence) \subseteq Hit
    /\ answer \in Hit \cup {None}
    /\ view.stage \in {"none", "denied", "not_found", "points", "open"}

(* What a reference of the answer resolves to was shown to the model under *)
(* that reference: neither a hit that the budget left out, nor one of a    *)
(* call beside it, can be cited (context_builder.py, orchestrator.py).     *)
(* "the same chunk keeps one reference across retrieval rounds and         *)
(* concurrent tool calls" (CitationReferences), and no two chunks share it.*)
EvidenceWasShown ==
    /\ \A reference \in DOMAIN evidence : \E s \in shown :
            /\ s.reference = reference
            /\ s.document = evidence[reference].document
            /\ s.number = evidence[reference].number
            /\ s.version = evidence[reference].version
    /\ \A s, t \in shown : s.reference = t.reference <=> Identity(s) = Identity(t)

(* A call never shows a version of a document that had been replaced in    *)
(* the index before the call began, although the chunks of the new version *)
(* take over its numbers and may be fewer (replace_item_points).           *)
NoStaleEvidence == \A s \in shown : s.version >= s.since

(* The section a piece of evidence is shown with is the section of every   *)
(* part in it that has one: chunks never straddle the sections of a source *)
(* (_emit_heading_transition, _chunk_section_path).                        *)
EvidenceIsOfItsSection ==
    \A s \in shown :
        LET content == versions[s.document][s.version]
            chunk == ChunkOf(s.document, s.version, s.number)
        IN  content.parts # <<>> =>
                \A n \in DOMAIN chunk.text :
                    PathOf(content.parts, chunk.text[n].element) \in {<<>>, chunk.section}

(* A viewer that is not overtaken by an indexing run opens every citation  *)
(* of what the document still holds, unless the Collection was taken away, *)
(* and shows each element with its whole text (replace_for_item, get_item, *)
(* viewer_elements).                                                       *)
CitationOpens ==
    view.clean =>
        /\ view.stage = "not_found" => view.version # answer.version
        /\ view.stage = "open" =>
            LET content == versions[answer.document][view.version]
            IN  \A e \in view.elements :
                    e.text = <<Piece(e.element, 0, ElementSize(Document(content), e.element))>>
=============================================================================
