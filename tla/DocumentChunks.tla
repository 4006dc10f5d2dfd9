---------------------------- MODULE DocumentChunks ----------------------------
(***************************************************************************)
(* How a document becomes chunks with citations, and how a viewer puts the *)
(* chunks back together: connector/processing/chunking.py and mapper.py,   *)
(* document_index/payload.py, services/citation.py and                     *)
(* services/document_presentation.py.  Everything here is a function of    *)
(* its arguments.                                                          *)
(*                                                                         *)
(* A document of a connector is a sequence of parts [element, path, size]; *)
(* a file is a Docling document, a sequence of items of which those with a *)
(* level are headings.  Text is abstracted to intervals: a piece           *)
(* [element, from, to] is that stretch of the text of an element.          *)
(***************************************************************************)
EXTENDS Integers, Sequences, FiniteSets, SequencesExt, FiniteSetsExt, Loops

CONSTANT MaxTokens      \* what fits into one chunk

ASSUME MaxTokensAssumption == MaxTokens \in Nat \ {0}

Heading(level, text) == [level |-> level, text |-> text, size |-> 0]
Body(element, size) == [level |-> 0, text |-> element, size |-> size]
IsBody(item) == item.level = 0

\* The content of a document: the parts a connector delivers, each an element of
\* its own, or the items of a file, in order and with how much text they have.
WellFormed(content) ==
    /\ content.parts \in Seq(Range(content.parts))
    /\ content.document \in Seq(Range(content.document))
    /\ \A part \in Range(content.parts) : part.path \in Seq(Range(part.path)) /\ part.size \in Nat
    /\ \A i, j \in DOMAIN content.parts :
            content.parts[i].element = content.parts[j].element => i = j
    /\ \A item \in Range(content.document) : item.level \in Nat /\ item.size \in Nat

-----------------------------------------------------------------------------
\* From parts to a Docling document.

CommonPrefix(left, right) ==
    Max({n \in 0..Min({Len(left), Len(right)}) : SubSeq(left, 1, n) = SubSeq(right, 1, n)})

(* A mistake to be caught: going up writes nothing. *)
EmitNewHeadings(active, target) ==
    LET common == CommonPrefix(active, target)
    IN  [i \in 1..(Len(target) - common) |-> Heading(common + i, target[common + i])]

\* _emit_heading_transition: what leads from one section to another.  Going
\* up to an ancestor repeats the heading of the ancestor.
EmitHeadingTransition(active, target) ==
    LET common == CommonPrefix(active, target)
        start == IF common = Len(target) /\ common < Len(active) /\ target # <<>>
                 THEN common - 1 ELSE common
    IN  IF target = active THEN <<>>
        ELSE [i \in 1..(Len(target) - start) |-> Heading(start + i, target[start + i])]

AddPart(part) == Body(part.element, part.size)

EmitPart(built, part) ==
    [active |-> part.path,
     items |-> built.items \o EmitHeadingTransition(built.active, part.path) \o <<AddPart(part)>>]

DocumentFromItem(parts) ==
    Folded(EmitPart, [active |-> <<>>, items |-> <<>>], parts).items

-----------------------------------------------------------------------------
\* The headings over each item: as the mapper counts them, and as Docling does.

HeadingPaths(document) ==
    LET Under(paths, item) ==
            LET above == IF paths = <<>> THEN <<>> ELSE Last(paths)
            IN  Append(paths,
                       IF IsBody(item) THEN above
                       ELSE Append(SubSeq(above, 1, Min({item.level - 1, Len(above)})), item.text))
    IN  Folded(Under, <<>>, document)

\* Docling keeps the last heading of each level that no higher one has ended.
Above(open, level) == Max({n \in 0..Len(open) : \A m \in 1..n : open[m].level < level})

NextHeadings(open, item) ==
    IF IsBody(item) THEN open ELSE Append(SubSeq(open, 1, Above(open, item.level)), item)

OpenHeadings(document) ==
    LET open[n \in 0..Len(document)] ==
            IF n = 0 THEN <<>> ELSE NextHeadings(open[n - 1], document[n])
    IN  open

TextsOf(items) == [n \in DOMAIN items |-> items[n].text]

DoclingHeadings(document) ==
    LET open == OpenHeadings(document)
    IN  [i \in DOMAIN document |-> TextsOf(open[i])]

-----------------------------------------------------------------------------
\* Chunks of a document.

Piece(element, from, to) == [element |-> element, from |-> from, to |-> to]
Longer(length, piece) == length + piece.to - piece.from
Length(text) == Folded(Longer, 0, text)

\* The splitter of Docling: pieces that fit, none for an item without text.
Split(item) ==
    [n \in 1..((item.size + MaxTokens - 1) \div MaxTokens) |->
        Piece(item.text, (n - 1) * MaxTokens, Min({n * MaxTokens, item.size}))]

ChunksUnder(document, paths) ==
    Folded(\o, <<>>, [i \in DOMAIN document |->
        [n \in DOMAIN Split(document[i]) |->
            [text |-> <<Split(document[i])[n]>>, headings |-> paths[i]]]])

\* The merger of Docling: neighbours under the same headings, while they fit.
MergePeers(chunks, chunk) ==
    IF /\ chunks # <<>>
       /\ Last(chunks).headings = chunk.headings
       /\ Length(Last(chunks).text) + Length(chunk.text) <= MaxTokens
    THEN Append(Front(chunks), [chunk EXCEPT !.text = Last(chunks).text \o chunk.text])
    ELSE Append(chunks, chunk)

HybridChunks(document) ==
    Folded(MergePeers, <<>>, ChunksUnder(document, DoclingHeadings(document)))
LineChunks(document) == ChunksUnder(document, HeadingPaths(document))

ElementsOf(text) == {text[n].element : n \in DOMAIN text}
ElementSize(document, element) ==
    (CHOOSE item \in Range(document) : IsBody(item) /\ item.text = element).size

\* One span for each element; it has offsets only when the chunk is exactly
\* the text of the one element.
CitationSpans(document, text) ==
    LET exact == /\ Cardinality(ElementsOf(text)) = 1
                 /\ text = <<Piece(text[1].element, 0, ElementSize(document, text[1].element))>>
    IN  [n \in DOMAIN text |->
            [element |-> text[n].element,
             end |-> IF exact THEN text[n].to ELSE -1]]

PathOf(parts, element) == (CHOOSE part \in Range(parts) : part.element = element).path

\* The section of the first part that has one, then the headings of Docling.
ChunkSectionPath(parts, chunk) ==
    LET own == {n \in DOMAIN chunk.text : /\ parts # <<>>
                                          /\ PathOf(parts, chunk.text[n].element) # <<>>}
    IN  IF own # {} THEN PathOf(parts, chunk.text[Min(own)].element) ELSE chunk.headings

\* _chunk_document.  The chunks of a document are numbered in order.
Document(content) ==
    IF content.parts = <<>> THEN content.document ELSE DocumentFromItem(content.parts)

Chunks(content) ==
    LET document == Document(content)
        split == IF content.strategy = "line" THEN LineChunks(document) ELSE HybridChunks(document)
    IN  [n \in DOMAIN split |->
            [text |-> split[n].text,
             section |-> ChunkSectionPath(content.parts, split[n]),
             spans |-> CitationSpans(document, split[n].text)]]

-----------------------------------------------------------------------------
\* The viewer.

\* _add_citation_content: a chunk shows an element when it is its whole text.
ShowsElement(text, citation) ==
    /\ text # <<>>
    /\ Len(citation.spans) = 1
    /\ citation.spans[1].end = Length(text)

Candidate(text, citation) ==
    [element |-> citation.spans[1].element, text |-> text, section |-> citation.section]

\* viewer_elements: an element two chunks disagree about is not shown at all.
ViewerElements(payloads) ==
    LET shown == {Candidate(payload.text, payload.citation) :
                      payload \in {p \in payloads : ShowsElement(p.text, p.citation)}}
    IN  {c \in shown : \A other \in shown : other.element = c.element => other = c}

=============================================================================
