--------------------------- MODULE ClientInvariants ---------------------------
(***************************************************************************)
(* What ClientProofs proves of the states of AccessSession and of          *)
(* ResponseStream. Of the first: what a request knows, and which rows it   *)
(* holds locked. Of the second: how far its loops have come, what the      *)
(* provider has sent of each item, what the three readers hold of it, what *)
(* the projection of the citations has made of the deltas it was given,    *)
(* and what the text it was given reads like.                              *)
(***************************************************************************)
EXTENDS AccessSession, ResponseStream

-----------------------------------------------------------------------------
(* Access sessions *)

Replacing == {"registering", "signing", "verified", "switching"}
Account == {"none", "active", "suspended"}
Membership == {"none", "active", "inactive"}

RequestRow ==
    [pc : {"idle", "registering", "signing", "verified", "switching", "resolved", "answering"},
     parent : Sessions \cup {None}, user : Users \cup {None}, tenant : Tenants \cup {None},
     session : Sessions \cup {None}, conversation : Conversations \cup {None}]

(* What a request knows is what the steps it has still to take will need.  *)
Prepared ==
    \A q \in Requests :
        /\ request[q].pc \in Replacing => request[q].user \in Users
        /\ request[q].pc = "switching" => request[q].tenant \in Tenants
        /\ request[q].pc \in {"resolved", "answering"} => request[q].session \in Sessions
        /\ request[q].pc = "answering" => request[q].conversation \in Conversations

(* A user's session names its user, a guest's nobody.                      *)
Identified ==
    \A s \in Sessions : /\ session[s].kind = "user" => session[s].user \in Users
                        /\ session[s].kind = "guest" => session[s].user = None

Typed == TypeOK /\ Prepared /\ Identified

-----------------------------------------------------------------------------
(* One successor *)

(* A row that a request has locked to replace it is still active, and no   *)
(* other request has it locked.                                            *)
Locked ==
    \A q \in Requests : request[q].parent # None =>
        /\ session[request[q].parent].status = "active"
        /\ \A p \in Requests \ {q} : request[p].parent # request[q].parent

(* A session is the parent of one other at most, and exactly if it was     *)
(* superseded.                                                             *)
Succeeded ==
    /\ \A x \in Sessions : session[x].parent # None =>
         /\ session[session[x].parent].status = "superseded"
         /\ \A y \in Sessions : session[y].parent = session[x].parent => y = x
    /\ \A s \in Sessions : session[s].status = "superseded" =>
         \E x \in Sessions : session[x].parent = s

SuccessorInv == Typed /\ Locked /\ Succeeded

(* The effect of Supersede on the fields that matter here.                 *)
Successor(parent, u, t) ==
    \E s \in Sessions :
      /\ session[s] = NoSession
      /\ session'[s].status = "active" /\ session'[s].parent = parent
      /\ session'[s].kind = "user" /\ session'[s].user = u /\ session'[s].tenant = t
      /\ parent # None /\ session[parent].kind = "guest" => t = session[parent].tenant
      /\ \A x \in Sessions \ {s} :
           /\ session'[x].status = IF x = parent THEN "superseded" ELSE session[x].status
           /\ session'[x].parent = session[x].parent
           /\ session'[x].kind = session[x].kind
           /\ session'[x].user = session[x].user
           /\ session'[x].tenant = session[x].tenant

-----------------------------------------------------------------------------
(* Conversations *)

(* Requests, conversations, messages and successors refer to rows that     *)
(* exist, and a row in use exists.                                         *)
Known ==
    /\ \A s \in Sessions : session[s].status # "none" \/ session[s].parent # None =>
         session[s].kind # "none"
    /\ \A q \in Requests : request[q].session # None => session[request[q].session].kind # "none"
    /\ \A c \in Conversations :
         /\ conversation[c].creator # None => session[conversation[c].creator].kind # "none"
         /\ \A s \in conversation[c].wrote : session[s].kind # "none"

(* Who wrote in a conversation and did not begin it is its owner; that     *)
(* nobody owns it is no way in.                                            *)
Private ==
    \A c \in Conversations : \A s \in conversation[c].wrote :
        /\ session[s].tenant = conversation[c].tenant
        /\ \/ s = conversation[c].creator
           \/ conversation[c].owner # None /\ session[s].user = conversation[c].owner

ConversationInv == SuccessorInv /\ Known /\ Private /\ AdoptedByHeir

(* What a session is does not change once it exists, and what exists in    *)
(* the next state is in use as before or new.                              *)
Kept ==
    \A s \in Sessions :
        /\ session[s].kind # "none" =>
             /\ session'[s].kind = session[s].kind /\ session'[s].user = session[s].user
             /\ session'[s].tenant = session[s].tenant /\ session'[s].parent = session[s].parent
        /\ session'[s].status # "none" \/ session'[s].parent # None => session'[s].kind # "none"

-----------------------------------------------------------------------------
(* The stream of a response: its loops *)

(* f goes from base by the steps G through the sets D.                     *)
IsLoop(f, k, base, G, D) ==
    /\ f = [n \in 0..k |-> f[n]] /\ f[0] = base
    /\ \A n \in 1..k : f[n] = G[n][f[n - 1]]
    /\ \A n \in 0..k : f[n] \in D[n]

AddChunkFold(f, s, base, D) ==
    /\ f[0] = base /\ \A n \in 1..Len(s) : f[n] = AddChunk(f[n - 1], s[n])
    /\ \A n \in 0..Len(s) : f[n] \in D[n]
    /\ Folded(AddChunk, base, s) = f[Len(s)]

ScanFold(f, s, base, D) ==
    /\ f[0] = base /\ \A n \in 1..Len(s) : f[n] = Scan(f[n - 1], s[n])
    /\ \A n \in 0..Len(s) : f[n] \in D[n]
    /\ Folded(Scan, base, s) = f[Len(s)]

ForwardFold(f, s, base, D) ==
    /\ f[0] = base /\ \A n \in 1..Len(s) : f[n] = Forward(f[n - 1], s[n])
    /\ \A n \in 0..Len(s) : f[n] \in D[n]
    /\ Folded(Forward, base, s) = f[Len(s)]

AppendNewFold(f, s, base, D) ==
    /\ f[0] = base /\ \A n \in 1..Len(s) : f[n] = AppendNew(f[n - 1], s[n])
    /\ \A n \in 0..Len(s) : f[n] \in D[n]
    /\ Folded(AppendNew, base, s) = f[Len(s)]

ReadChunkFold(f, s, base, D) ==
    /\ f[0] = base /\ \A n \in 1..Len(s) : f[n] = ReadChunk(f[n - 1], s[n])
    /\ \A n \in 0..Len(s) : f[n] \in D[n]
    /\ Folded(ReadChunk, base, s) = f[Len(s)]

TakeFold(f, s, base, D) ==
    /\ f[0] = base /\ \A n \in 1..Len(s) : f[n] = TakeEntry(f[n - 1], s[n])
    /\ \A n \in 0..Len(s) : f[n] \in D[n]
    /\ Folded(TakeEntry, base, s) = f[Len(s)]

-----------------------------------------------------------------------------
(* What the provider sends *)

MessageTexts == Seq(Characterset)
Words == Seq(Characterset \cup {"v", "w"})
ReplyChunks == References \cup {Invented} \cup Prose
ItemStages == {"new", "added", "written", "closed", "done"}

Provided ==
    /\ provider = [reply |-> provider.reply, kinds |-> provider.kinds,
                   evidence |-> provider.evidence, sent |-> provider.sent,
                   stage |-> provider.stage, ended |-> provider.ended]
    /\ provider.reply \in Replies /\ provider.kinds \in Shapes
    /\ provider.evidence \in {{}, References}
    /\ provider.sent \in [Items -> Nat] /\ provider.stage \in [Items -> ItemStages]
    /\ \A i \in Items : /\ provider.sent[i] <= Len(FullText(i))
                        /\ provider.stage[i] = "new" => provider.sent[i] = 0
                        /\ provider.stage[i] = "written" => provider.sent[i] > 0
    /\ provider.ended \in {"no", "completed", "incomplete", "failed"}

-----------------------------------------------------------------------------
(* What the readers make of an event *)

(* e was put into s at p; what was at p was taken out of s.                *)
WithInserted(new, S, s, p, e) ==
    /\ new \in Seq(S) /\ Len(new) = Len(s) + 1
    /\ \A n \in 1 .. Len(s) + 1 :
          new[n] = IF n < p THEN s[n] ELSE IF n = p THEN e ELSE s[n - 1]

WithRemoved(new, S, s, p) ==
    /\ new \in Seq(S) /\ Len(new) = Len(s) - 1
    /\ \A n \in 1 .. Len(s) - 1 : new[n] = IF n < p THEN s[n] ELSE s[n + 1]

(* order lists the members of S, each once. *)
Lists(order, S) ==
    /\ order \in Seq(S) /\ \A e \in S : \E n \in 1 .. Len(order) : order[n] = e
    /\ \A m, n \in 1 .. Len(order) : order[m] = order[n] => m = n

(* An item is put at its index, and what was listed before it stays.       *)
PutAt(new, order, id, place) ==
    (/\ place <= Len(order) + 1
     /\ \A n \in 1 .. place - 1 : order[n] # id)
    => place <= Len(new) /\ new[place] = id /\ \A n \in 1 .. place - 1 : new[n] = order[n]

Annotations == [cites : References, number : MessageTexts, start : Nat, end : Nat]
ItemsSeen == [Items -> ItemType]
Quiet == [text |-> <<>>, calls |-> FALSE, status |-> "in_progress"]

(* The three readers while the response streams: the reducer and the browser   *)
(* hold the same items, and the terminal client has taken nothing.             *)
Synced(r, items, shells, status) ==
    /\ r = [reducer |-> [shells |-> shells, items |-> items, status |-> status],
            web |-> [order |-> r.web.order, items |-> items, status |-> "streaming"],
            terminal |-> Quiet]
    /\ Lists(r.web.order, shells)

DeltaOf(i, text) == [type |-> "delta", index |-> i, text |-> text]
TextDoneOf(i, text) == [type |-> "text done", index |-> i, text |-> text]

AnnotationOf(i, at, annotation) ==
    [type |-> "annotation", index |-> i, at |-> at, annotation |-> annotation]

PartDoneOf(i, item) == [type |-> "part done", index |-> i, item |-> item]
ItemAddedOf(i, item) == [type |-> "item added", index |-> i, item |-> item]
ItemDoneOf(i, item) == [type |-> "item done", index |-> i, item |-> item]
Rising(s) == \A m, n \in DOMAIN s : m < n => s[m] < s[n]

(* The browser takes over the snapshot: it lists its items in its order.   *)
TakenOver(next, T, G, st) ==
    \E H \in ItemsSeen : /\ next = [order |-> InOrder(T), items |-> H, status |-> st]
                         /\ \A i \in T : H[i] = G[i]

(* What the readers hold once the stream is over, of the items F that were  *)
(* streamed with the shells S.                                              *)
FinishedIn(I, seen, d, F, S, status) ==
    \E T \in SUBSET I, G \in seen, H \in seen :
        /\ d.reducer = [shells |-> T, items |-> G, status |-> status]
        /\ d.web.items = H /\ Lists(d.web.order, T)
        /\ d.web.status \in {"streaming", "completed", "failed"}
        /\ \A i \in T : H[i] = G[i]
        /\ S \subseteq T
        /\ \A i \in S : G[i].text = F[i].text /\ G[i].annotations = F[i].annotations
        /\ status = "completed" => Rising(d.web.order)
        /\ d.terminal.text = <<>>
        /\ d.terminal.status \in {"in_progress", "completed", "incomplete", "failed"}

Finished(d, F, S, status) == FinishedIn(Items, ItemsSeen, d, F, S, status)

Snapshot(output, F, S) ==
    /\ DOMAIN output \subseteq Items
    /\ \A i \in DOMAIN output \ S :
            /\ F[i] = NoItem
            /\ output[i].item = [NoItem EXCEPT !.text = FullText(i)]

TerminalOf(status, output) == [type |-> "terminal", status |-> status, output |-> output]

SettledAs(red, T, F, S, status) ==
    \E G \in ItemsSeen :
        /\ red = [shells |-> T, items |-> G, status |-> status]
        /\ \A i \in S : G[i].text = F[i].text /\ G[i].annotations = F[i].annotations

DeliverRun(f, s, base) ==
    f = [n \in 0 .. Len(s) |-> IF n = 0 THEN base ELSE Deliver(f[n - 1], s[n])]

-----------------------------------------------------------------------------
(* The projection of the citations *)

KnownLists == {s \in Seq(References) : \A m, n \in 1 .. Len(s) : s[m] = s[n] => m = n}
Fragments == {Fragment(t) : t \in MessageTexts} \cup {Cited(id) : id \in References}

MessageEvents ==
    {DeltaOf(Message, t) : t \in MessageTexts}
    \cup {AnnotationOf(Message, n, a) : n \in Nat, a \in Annotations}

(* The annotations of a text begin at different places in it.              *)
Apart(annotations, text) ==
    \A n \in 1 .. Len(annotations) :
        /\ annotations[n].start < Len(text)
        /\ \A m \in 1 .. n - 1 : annotations[m].start < annotations[n].start

Projections ==
    {x \in [text : MessageTexts, kept : MessageTexts, annotations : Seq(Annotations), known : KnownLists,
            started : BOOLEAN, out : Seq(MessageEvents)] : Apart(x.annotations, x.text)}

CitedAnnotation(x, id) ==
    LET number == Numeral(NumberOf(AppendNew(x.known, id), id))
    IN  [cites |-> id, number |-> number, start |-> Len(x.text), end |-> Len(x.text) + Len(number)]

(* The readers took what a projection has put out, and display it.         *)
Display(F, x) ==
    [F EXCEPT ![Message] = [text |-> x.text, annotations |-> x.annotations, phase |-> "none"]]

InSync(x, r, F, S, st) == Synced(Folded(Deliver, r, x.out), Display(F, x), S, st)
Scans == {x \in [shown : Seq(Fragments), kept : MessageTexts, rest : MessageTexts] : Len(x.kept) <= MaxMarkerLength}

FoundAt(f, s, a, b, from) ==
    /\ f = 0 => \A i \in from .. Len(s) - 1 : ~(s[i] = a /\ s[i + 1] = b)
    /\ f # 0 => /\ f \in from .. Len(s) - 1 /\ s[f] = a /\ s[f + 1] = b
                /\ \A i \in from .. f - 1 : ~(s[i] = a /\ s[i + 1] = b)

Blank == [text |-> <<>>, kept |-> <<>>, annotations |-> <<>>, known |-> <<>>,
          started |-> FALSE, out |-> <<>>]

-----------------------------------------------------------------------------
(* The states of the stream *)

ProjectionRight ==
    /\ projection \in Projections /\ projection.out = <<>>
    /\ Len(projection.kept) <= MaxMarkerLength
    /\ ~projection.started => projection = Blank
    /\ provider.evidence = {} => ~projection.started
    /\ provider.evidence # {} /\ ~projection.started => provider.sent[Message] = 0
    /\ projection.started => provider.stage[Message] # "new"

(* What the readers are shown of each item.                                *)
Shown ==
    [i \in Items |-> IF i = Message /\ provider.evidence # {}
                     THEN [text |-> projection.text, annotations |-> projection.annotations,
                           phase |-> "none"]
                     ELSE [text |-> SentText(i), annotations |-> <<>>, phase |-> "none"]]

Begun == {i \in Items : provider.stage[i] # "new"}
Readers == [reducer |-> reducer, web |-> web, terminal |-> terminal]

Projected(p, S, st, started) ==
    /\ [p EXCEPT !.out = <<>>] \in Projections /\ p.started = started
    /\ Len(p.kept) <= MaxMarkerLength
    /\ Synced(Folded(Deliver, Readers, p.out), Display(Shown, p), S, st)

(* An event that leaves the projection and what is shown as they are.      *)
LeftAlone(p, S, st) ==
    /\ [p EXCEPT !.out = <<>>] = projection
    /\ Synced(Folded(Deliver, Readers, p.out), Shown, S, st)

PlainItem(text) == [text |-> text, annotations |-> <<>>, phase |-> "none"]
ItemEventOf(type, i, item) == [type |-> type, index |-> i, item |-> item]
Ends == {"no", "completed", "incomplete", "failed"}

ReadersRight ==
    /\ provider.ended = "no" =>
        /\ Synced(Readers, Shown, Begun, reducer.status)
        /\ reducer.status \in {"none", "in_progress"}
    /\ provider.ended # "no" =>
        /\ Finished(Readers, Shown, Begun, reducer.status)
        /\ reducer.status \in {"none", "in_progress", "completed", "incomplete", "failed"}

StreamRight == Provided /\ ProjectionRight /\ ReadersRight

SameResponse ==
    /\ provider'.reply = provider.reply /\ provider'.kinds = provider.kinds
    /\ provider'.evidence = provider.evidence

(* The provider moves on within the same response.                         *)
Moved(sent, stage, ended) ==
    provider' = [reply |-> provider.reply, kinds |-> provider.kinds,
                 evidence |-> provider.evidence, sent |-> sent, stage |-> stage, ended |-> ended]

SendsDelta(i, upto) ==
    /\ provider' = [provider EXCEPT !.sent[i] = upto]
    /\ Emit(DeltaOf(i, SubSeq(FullText(i), provider.sent[i] + 1, upto)))

(* What the readers hold, whether the stream is over or not.               *)
Held ==
    \E T \in SUBSET Items, G \in ItemsSeen, H \in ItemsSeen :
        /\ reducer.shells = T /\ reducer.items = G /\ web.items = H /\ Lists(web.order, T)
        /\ web.status \in {"streaming", "completed", "failed"}
        /\ \A i \in T : H[i] = G[i]
        /\ \A i \in Begun : i \in T /\ G[i].text = Shown[i].text
                            /\ G[i].annotations = Shown[i].annotations
        /\ reducer.status \in {"none", "in_progress", "completed", "incomplete", "failed"}
        /\ reducer.status = "completed" => Rising(web.order)
        /\ terminal.text = <<>>
        /\ terminal.status \in {"in_progress", "completed", "incomplete", "failed"}

-----------------------------------------------------------------------------
(* What a reply reads like, character by character *)

Readings == [text : MessageTexts, known : KnownLists, annotations : Seq(Annotations)]

Unread == [text |-> <<>>, known |-> <<>>, annotations |-> <<>>]

(* The longer reading has the piece of text more.                          *)
Longer(r, old, piece) ==
    /\ r.text = old.text \o piece /\ r.known = old.known /\ r.annotations = old.annotations

Begins(s, t) == Len(s) <= Len(t) /\ \A n \in 1 .. Len(s) : s[n] = t[n]
Grown(old, r) == Begins(old.text, r.text) /\ Begins(old.annotations, r.annotations)
Opening(t, i) == t[i] = "[" /\ t[i + 1] = "["

MarkerAt(t, s) ==
    /\ s + 5 <= Len(t) /\ t[s] = "[" /\ t[s + 1] = "[" /\ t[s + 2] = "cite:"
    /\ t[s + 3] \in References \cup {Invented} /\ t[s + 4] = "]" /\ t[s + 5] = "]"

CellAt(t, i) ==
    /\ i + 4 <= Len(t) /\ t[i] = "[" /\ t[i + 1] = "[" /\ t[i + 2] = "a"
    /\ t[i + 3] = "]" /\ t[i + 4] = "]"

Inside(M, q) == \E s \in M : s <= q /\ q <= s + 5

(* The text t has its citations at the places M, its double brackets are   *)
(* citations or cells, and read[q] is what its first q characters read     *)
(* like, where the beginning of a citation reads like nothing yet.         *)
Parsed(t, M, read) ==
    /\ t \in MessageTexts /\ M \in SUBSET (1 .. Len(t))
    /\ read \in [0 .. Len(t) -> Readings] /\ read[0] = Unread
    /\ \A s \in M : /\ MarkerAt(t, s) /\ (\A q \in s .. s + 4 : read[q] = read[s - 1])
                    /\ read[s + 5] = ReadChunk(read[s - 1], t[s + 3])
    /\ \A q \in 1 .. Len(t) : ~Inside(M, q) => Longer(read[q], read[q - 1], <<t[q]>>)
    /\ \A i \in 1 .. Len(t) - 1 : Opening(t, i) => i \in M \/ CellAt(t, i)

(* Extending a text by a piece.                                            *)
Extends(more, t, piece) ==
    /\ more \in MessageTexts /\ Len(more) = Len(t) + Len(piece)
    /\ Len(t) \in Nat /\ Len(piece) \in Nat
    /\ \A q \in 1 .. Len(t) : more[q] = t[q]
    /\ \A n \in 1 .. Len(piece) : more[Len(t) + n] = piece[n]

ParsedUpTo(t, r, M) ==
    \E read : Parsed(t, M, read) /\ read[Len(t)] = r

EndsOpen(t) == Len(t) > 0 /\ t[Len(t)] = "["

(* The brackets in a chunk of prose.                                       *)
Bracketing(p, chunk) ==
    /\ p \in MessageTexts /\ Len(p) \in Nat /\ Len(p) >= 1
    /\ \A n \in 1 .. Len(p) - 1 :
          p[n] = "[" /\ p[n + 1] = "["
            => n = 1 /\ Len(p) = 5 /\ p[3] = "a" /\ p[4] = "]" /\ p[5] = "]"
    /\ p[Len(p)] = "[" => chunk = "edge"

(* The text, parsed.                                                       *)
Readable == \E M : ParsedUpTo(Text, Reading, M)

-----------------------------------------------------------------------------
(* What the projection shows of it *)

(* The projection holds what was read.                                     *)
Agrees(x, r) == x.text = r.text /\ x.known = r.known /\ x.annotations = r.annotations

ShownTo(x, shown, r) == Agrees(Folded(Forward, x, shown), r)

(* Forwarding one fragment after the other.                                *)
ForwardRun(f, s, base) ==
    f = [n \in 0 .. Len(s) |-> IF n = 0 THEN base ELSE Forward(f[n - 1], s[n])]

(* The place q of the text cuts no citation; what follows it up to u may   *)
(* be the beginning of one, and is nothing that is complete.               *)
Uncut(M, q) == \A s \in M : s + 5 <= q \/ s > q

Waiting(M, q, u) == \A s \in M : s + 5 <= q \/ (s > q /\ s + 5 > u)
Cutting(t, M, read, u, x) == Parsed(t, M, read) /\ u \in 0 .. Len(t) /\ x \in Projections

(* The scan has shown the first q of u characters, and goes on with the    *)
(* others, or has stopped and holds them back.                             *)
Going(t, M, read, u, x, y, q) ==
    /\ y \in Scans /\ q \in 0 .. u /\ ShownTo(x, y.shown, read[q])
    /\ y.kept = <<>> /\ y.rest = SubSeq(t, q + 1, u) /\ Uncut(M, q)

StoppedAt(t, M, read, u, x, y, q) ==
    /\ y \in Scans /\ q \in 0 .. u /\ ShownTo(x, y.shown, read[q])
    /\ y.rest = <<>> /\ y.kept = SubSeq(t, q + 1, u) /\ Waiting(M, q, u)

MovesOn(t, M, read, u, x, y, q) ==
    \/ \E e \in 0 .. u : StoppedAt(t, M, read, u, x, y, e)
    \/ \E e \in q + 1 .. u : Going(t, M, read, u, x, y, e)

(* What follows a double bracket at i, as far as it was sent.              *)
Candidate(c, t, i, u) ==
    /\ c \in MessageTexts /\ c = SubSeq(t, i, u) /\ Len(c) = u - i + 1
    /\ i \in Nat /\ u \in Nat /\ i >= 1 /\ i < u /\ u <= Len(t) /\ Len(t) \in Nat
    /\ t \in Seq(Characterset) /\ Opening(t, i)
    /\ \A n \in 1 .. Len(c) : c[n] = t[i + n - 1]

(* The rest of a scan at q is cut at the double bracket.                   *)
CutAt(y, t, q, i, u, start) ==
    /\ Candidate(SubSeq(y.rest, start, Len(y.rest)), t, i, u)
    /\ SubSeq(y.rest, 1, start - 1) = SubSeq(t, q + 1, i - 1)
    /\ i \in q + 1 .. u - 1

(* A double bracket at i, the first since q.                               *)
FirstOpening(t, q, i) == Opening(t, i) /\ \A v \in q + 1 .. i - 1 : ~Opening(t, v)

Third(c, t, i) == Len(c) >= 3 => c[3] = t[i + 2]

(* The first u characters of the text were sent: p of them are shown as    *)
(* what they read like, the others are held back.                          *)
MidwayAt(t, M, read, u, x, p) ==
    /\ Parsed(t, M, read) /\ u \in 0 .. Len(t) /\ p \in 0 .. u
    /\ Agrees(x, read[p]) /\ x.kept = SubSeq(t, p + 1, u) /\ Waiting(M, p, u)

Caught(t, r, x, u) == \E M, read, p : MidwayAt(t, M, read, u, x, p) /\ read[Len(t)] = r

Midway ==
    Closed /\ ~CutShort /\ provider.evidence # {} =>
        Caught(Text, Reading, projection, provider.sent[Message])

(* Text a and annotations c are a beginning of the finished reading, and   *)
(* all of it once everything was sent and nothing is held back.            *)
BeginningShown(a, c) ==
    /\ a \in Seq(Characterset) /\ c \in Seq(Annotations)
    /\ Reading.text \in Seq(Characterset) /\ Reading.annotations \in Seq(Annotations)
    /\ Begins(a, Reading.text) /\ Begins(c, Reading.annotations)
    /\ Whole(Message) /\ projection.kept = <<>> =>
        a = Reading.text /\ c = Reading.annotations /\ projection.known = Reading.known

================================================================================
