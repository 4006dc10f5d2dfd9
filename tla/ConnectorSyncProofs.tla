------------------------- MODULE ConnectorSyncProofs -------------------------
(***************************************************************************)
(* Proofs about ConnectorSync for any documents, any configuration of the  *)
(* connectors, any number of changes, attempts and worker slots.  What is  *)
(* said of the index holds while the attempts of the source follow one     *)
(* another (OneAttempt): an attempt that Temporal has given up and that    *)
(* runs on beside its successor can break it.                              *)
(***************************************************************************)
EXTENDS ConnectorSync, TLAPS

OneAttempt == \A s, t \in Slots : pc[s] # "idle" /\ pc[t] # "idle" => s = t

-----------------------------------------------------------------------------
(* Types *)

Handling == {"processing", "citations", "embed", "tombstone", "upsert", "ready", "index_failed"}
Deleting == {"hierarchy", "deletes", "delete_points"}
Underway == {"list"} \cup Deleting \cup {"items"} \cup Handling

(* No position is ahead of the clock.                                      *)
Clocked ==
    /\ oldest <= clock /\ checkpoint.at <= clock
    /\ \A i \in Items : changed[i] <= clock
    /\ \A s \in Slots : run[s].from.at <= clock /\ run[s].next.at <= clock

(* What an attempt has found before and after each of its steps.           *)
Shaped(s) ==
    /\ pc[s] \in {"idle", "source"} => run[s] = Blank
    /\ pc[s] \in {"discover"} \cup Underway => run[s].scope \in AllScopes
    /\ pc[s] \in {"discover", "list"} =>
         /\ run[s].writes = {} /\ run[s].deletes = {} /\ run[s].content = Blank.content
    /\ pc[s] \in Handling \cup {"items"} => run[s].deletes = {}
    /\ pc[s] \in Handling \cup {"delete_points"} => run[s].item \in Items
    /\ pc[s] \in Handling => run[s].content[run[s].item] # 0 /\ run[s].item \notin run[s].writes

(* An attempt that is to start is one of those that are left.              *)
Retried == wfOpen /\ wfSlot = None => wfAttempt < MaxAttempts

Typed == TypeOK /\ Clocked /\ Retried /\ \A s \in Slots : Shaped(s)

-----------------------------------------------------------------------------
(* The index *)

Indexed(i, content) ==
    /\ row[i] = "live" /\ indexStatus[i] = "ready"
    /\ points[i] = {content} /\ citations[i] = content

(* The document is there and was last changed no later than this.          *)
Stands(i, at) == present[i] /\ 0 < changed[i] /\ changed[i] <= at
Covered(scope, at) == \A i \in scope : Stands(i, at) => Indexed(i, changed[i])

(* The documents that an attempt still deletes, and those it works on.     *)
Deletes(s) == run[s].deletes \cup IF pc[s] = "delete_points" THEN {run[s].item} ELSE {}
Touched(s) == run[s].writes \cup Deletes(s) \cup IF pc[s] \in Handling THEN {run[s].item} ELSE {}

(* While an attempt is under way the checkpoint is the one it started from *)
(* or one that the next attempt does not use, and none of the documents    *)
(* the attempt works on is behind it.                                      *)
Ahead(s) ==
    HasFeed /\ Usable =>
        /\ pc[s] \in {"discover"} \cup Underway => checkpoint = run[s].from /\ config = run[s].scope
        /\ pc[s] # "list"
        /\ pc[s] \in Underway => \A i \in Touched(s) : changed[i] > checkpoint.at

(* A page token that is still good is one behind which all is indexed.     *)
FromCovered(s) ==
    HasFeed /\ pc[s] = "discover" /\ ~NeedsListing(run[s]) => Covered(run[s].scope, run[s].from.at)

(* What is reported as deleted does not stand.                             *)
DeletesGone(s) ==
    pc[s] \in Underway => \A i \in Deletes(s) : ~(i \in run[s].scope /\ Stands(i, run[s].next.at))

(* Of the documents that stand, each is still to be written, or its        *)
(* content was read, or it was indexed before.                             *)
Found(s) ==
    /\ pc[s] \in Underway => run[s].next.scope = run[s].scope
    /\ HasFeed /\ pc[s] \in Underway \ {"list"} /\ run[s].failed = {} =>
         \A i \in run[s].scope :
            Stands(i, run[s].next.at) =>
                \/ i \in run[s].writes \/ run[s].content[i] # 0
                \/ Indexed(i, changed[i])

(* The content that was read is the one of the document, if it stands.     *)
Fresh(s) ==
    pc[s] \in Underway =>
        \A i \in Items : run[s].content[i] # 0 /\ changed[i] <= run[s].next.at =>
                            run[s].content[i] = changed[i]

(* What was read and is no longer to be written is indexed, unless         *)
(* something failed.                                                       *)
Written(s) ==
    /\ pc[s] \in Deleting => \A i \in Items : run[s].content[i] # 0 => i \in run[s].writes
    /\ pc[s] \in Underway /\ run[s].failed = {} =>
         \A i \in Items :
            run[s].content[i] # 0 /\ i \notin run[s].writes =>
                (pc[s] \in Handling /\ i = run[s].item) \/ Indexed(i, run[s].content[i])

(* How far the document is that is being processed.                        *)
Progress(s) ==
    LET i == run[s].item
        content == run[s].content[i]
    IN  /\ pc[s] \in {"processing", "citations", "embed", "tombstone", "upsert", "ready"} =>
             row[i] = "live"
        /\ pc[s] \in {"embed", "tombstone", "upsert", "ready"} => citations[i] = content
        /\ pc[s] = "upsert" => points[i] = {}
        /\ pc[s] = "ready" => points[i] = {content}

Attempt(s) ==
    /\ Ahead(s) /\ FromCovered(s) /\ DeletesGone(s)
    /\ Found(s) /\ Fresh(s) /\ Written(s) /\ Progress(s)

Covers == HasFeed /\ Usable => Covered(config, checkpoint.at)

Mirrors == Covers /\ \A s \in Slots : Attempt(s)

-----------------------------------------------------------------------------
(* Types are kept *)

LEMMA Facts ==
    ASSUME Typed
    PROVE  /\ Scopes \subseteq SUBSET Items /\ Scopes \subseteq AllScopes
           /\ AllScopes \subseteq SUBSET Items
           /\ None \notin Items /\ None \notin Slots /\ None \notin AllScopes
           /\ HasFeed \in BOOLEAN /\ config \in Scopes
           /\ clock \in Nat /\ clock <= MaxChanges /\ oldest \in Nat /\ checkpoint.at \in Nat
           /\ \A i \in Items : changed[i] \in Nat
           /\ \A s \in Slots : run[s].from.at \in Nat /\ run[s].next.at \in Nat
<1>1. connector \in Connectors /\ config \in Scopes
  BY DEF Typed, TypeOK
<1>2. connector \in [feed : BOOLEAN, scopes : SUBSET SUBSET Items, pageOf : [Items -> Items]]
  BY <1>1, ConnectorAssumption
<1>3. Scopes \subseteq SUBSET Items /\ Scopes \subseteq AllScopes /\ HasFeed \in BOOLEAN
  BY <1>1, <1>2 DEF Scopes, AllScopes, HasFeed
<1>a. AllScopes \subseteq SUBSET Items
  BY ConnectorAssumption DEF AllScopes
<1>4. clock \in Nat /\ clock <= MaxChanges /\ oldest \in Nat /\ checkpoint.at \in Nat
      /\ \A i \in Items : changed[i] \in Nat
  BY BoundAssumption DEF Typed, TypeOK, Position, Checkpoint
<1>5. \A s \in Slots : run[s].from.at \in Nat /\ run[s].next.at \in Nat
  BY DEF Typed, TypeOK, Run, Checkpoint, Position
<1> QED BY <1>1, <1>3, <1>a, <1>4, <1>5, NoneAssumption

LEMMA BlankType == Blank \in Run
<1>1. 0 \in Position
  BY BoundAssumption DEF Position
<1> QED BY <1>1 DEF Blank, Run, NoCheckpoint, Checkpoint, Kinds

(* A step of an attempt is of one slot.                                    *)
Moves(s, step, r) == pc' = [pc EXCEPT ![s] = step] /\ run' = [run EXCEPT ![s] = r]

SlotTyped(step, r) ==
    /\ step \in Steps /\ r \in Run
    /\ r.from.at <= clock /\ r.next.at <= clock
    /\ step \in {"idle", "source"} => r = Blank
    /\ step \in {"discover"} \cup Underway => r.scope \in AllScopes
    /\ step \in {"discover", "list"} =>
         r.writes = {} /\ r.deletes = {} /\ r.content = Blank.content
    /\ step \in Handling \cup {"items"} => r.deletes = {}
    /\ step \in Handling \cup {"delete_points"} => r.item \in Items
    /\ step \in Handling => r.content[r.item] # 0 /\ r.item \notin r.writes

Slotted == pc' \in [Slots -> Steps] /\ run' \in [Slots -> Run] /\ (\A s \in Slots : Shaped(s))'
           /\ \A s \in Slots : run'[s].from.at <= clock' /\ run'[s].next.at <= clock'

LEMMA SlotMoves ==
    ASSUME Typed, NEW s \in Slots, NEW step, NEW r, Moves(s, step, r), SlotTyped(step, r), clock' = clock
    PROVE  Slotted
<1>1. pc' \in [Slots -> Steps] /\ run' \in [Slots -> Run]
  BY DEF Moves, SlotTyped, Typed, TypeOK
<1>2. \A t \in Slots : IF t = s THEN pc'[t] = step /\ run'[t] = r ELSE pc'[t] = pc[t] /\ run'[t] = run[t]
  BY DEF Moves, Typed, TypeOK
<1>3. \A t \in Slots : Shaped(t)' /\ run'[t].from.at <= clock' /\ run'[t].next.at <= clock'
  <2> SUFFICES ASSUME NEW t \in Slots
               PROVE  Shaped(t)' /\ run'[t].from.at <= clock' /\ run'[t].next.at <= clock'
    OBVIOUS
  <2>1. CASE t = s
    BY <1>2, <2>1 DEF SlotTyped, Shaped
  <2>2. CASE t # s
    <3>1. Shaped(t) /\ run[t].from.at <= clock /\ run[t].next.at <= clock
      BY DEF Typed, Clocked
    <3> QED BY <1>2, <2>2, <3>1 DEF Shaped
  <2> QED BY <2>1, <2>2
<1> QED BY <1>1, <1>3 DEF Slotted

LEMMA SlotsStay ==
    ASSUME Typed, UNCHANGED <<pc, run>>, clock' \in Nat, clock <= clock'
    PROVE  Slotted
<1>1. \A t \in Slots : Shaped(t)'
  BY DEF Typed, Shaped
<1>2. \A t \in Slots : run'[t].from.at <= clock' /\ run'[t].next.at <= clock'
  BY Facts DEF Typed, Clocked
<1> QED BY <1>1, <1>2 DEF Slotted, Typed, TypeOK

LEMMA AttemptEndsTyped ==
    ASSUME Typed, NEW result, AttemptEnds(result)
    PROVE  wfOpen' \in BOOLEAN /\ wfAttempt' \in 0..MaxAttempts /\ wfSlot' \in Slots \cup {None} /\ Retried'
<1>1. wfOpen' \in BOOLEAN
  BY Zenon DEF AttemptEnds
<1>2. wfOpen' => wfAttempt < MaxAttempts
  BY Zenon DEF AttemptEnds
<1>3. wfAttempt' = (IF wfOpen' THEN wfAttempt ELSE 0) /\ wfSlot' = None
  BY DEF AttemptEnds
<1> QED BY <1>1, <1>2, <1>3, BoundAssumption DEF Typed, TypeOK, Retried

OtherTypes ==
    /\ clock' \in Position /\ oldest' \in Position /\ oldest' <= clock'
    /\ changed' \in [Items -> Position] /\ present' \in [Items -> BOOLEAN]
    /\ \A i \in Items : changed'[i] <= clock'
    /\ connector' \in Connectors /\ config' \in Scopes'
    /\ enabled' \in {"ready", "paused", "deleted"}
    /\ checkpoint' \in Checkpoint /\ checkpoint'.at <= clock'
    /\ row' \in [Items -> {"absent", "live", "deleted"}]
    /\ indexStatus' \in [Items -> {"pending", "processing", "ready", "failed"}]
    /\ citations' \in [Items -> Position] /\ points' \in [Items -> SUBSET Position]
    /\ wfOpen' \in BOOLEAN /\ wfAttempt' \in 0..MaxAttempts /\ wfSlot' \in Slots \cup {None}
    /\ Retried'

LEMMA TypedTogether == Slotted /\ OtherTypes => Typed'
BY DEF Slotted, OtherTypes, Typed, TypeOK, Clocked

LEMMA TypedProvider ==
    ASSUME Typed, (\E i \in Items : Change(i) \/ Remove(i)) \/ ExpireTokens
    PROVE  Typed'
<1>1. /\ clock' \in Position /\ clock <= clock' /\ oldest' \in Position /\ oldest' <= clock'
      /\ changed' \in [Items -> Position] /\ present' \in [Items -> BOOLEAN]
      /\ \A j \in Items : changed'[j] <= clock'
  <2> USE Facts, BoundAssumption
  <2>1. ASSUME NEW i \in Items, Change(i) \/ Remove(i)
        PROVE  /\ clock' \in Position /\ clock <= clock' /\ oldest' \in Position /\ oldest' <= clock'
               /\ changed' \in [Items -> Position] /\ present' \in [Items -> BOOLEAN]
               /\ \A j \in Items : changed'[j] <= clock'
    <3>1. /\ clock < MaxChanges /\ clock' = clock + 1 /\ oldest' = oldest
          /\ changed' = [changed EXCEPT ![i] = clock + 1]
          /\ \E there \in BOOLEAN : present' = [present EXCEPT ![i] = there]
      BY <2>1 DEF Change, Remove
    <3> QED BY <3>1 DEF Typed, TypeOK, Clocked, Position
  <2>2. CASE ExpireTokens
    BY <2>2 DEF ExpireTokens, Typed, TypeOK, Clocked, Position
  <2> QED BY <2>1, <2>2
<1>2. UNCHANGED <<source, items, derived, temporal, pc, run>>
  BY DEF Change, Remove, ExpireTokens
<1>3. Slotted
  BY <1>1, <1>2, SlotsStay DEF Position
<1>4. OtherTypes
  <2>1. checkpoint'.at <= clock'
    BY <1>1, <1>2, Facts DEF source, Typed, Clocked, Position
  <2> QED BY <1>1, <1>2, <2>1 DEF OtherTypes, source, items, derived, temporal, Typed, TypeOK, Scopes, Retried
<1> QED BY <1>3, <1>4, TypedTogether

LEMMA TypedOperate ==
    ASSUME Typed, Operate \/ StartIngestion \/ ActivityTimeout
    PROVE  Typed'
<1>1. Slotted
  <2>1. UNCHANGED <<pc, run, clock>>
    BY DEF Operate, UpdateConfig, UpdateStatus, DeleteSource, CancelIngestion, StartIngestion,
           ActivityTimeout, provider
  <2> QED BY <2>1, Facts, SlotsStay
<1>2. OtherTypes
  <2>1. UNCHANGED <<provider, items, derived, connector>>
    BY DEF Operate, UpdateConfig, UpdateStatus, DeleteSource, CancelIngestion, StartIngestion,
           ActivityTimeout, source
  <2>2. /\ config' \in Scopes /\ enabled' \in {"ready", "paused", "deleted"}
        /\ checkpoint' \in Checkpoint /\ checkpoint'.at <= clock
    <3>1. NoCheckpoint \in Checkpoint /\ NoCheckpoint.at <= clock
      BY Facts, BoundAssumption DEF NoCheckpoint, Checkpoint, Position
    <3>2. \/ config' \in Scopes /\ checkpoint' = NoCheckpoint /\ enabled' = enabled
          \/ UNCHANGED <<config, checkpoint>> /\ enabled' \in {"ready", "paused", "deleted", enabled}
      BY DEF Operate, UpdateConfig, UpdateStatus, DeleteSource, CancelIngestion, StartIngestion,
             ActivityTimeout, source
    <3> QED BY <3>1, <3>2 DEF Typed, TypeOK, Clocked
  <2>3. /\ wfOpen' \in BOOLEAN /\ wfAttempt' \in 0..MaxAttempts /\ wfSlot' \in Slots \cup {None}
        /\ Retried'
    <3>1. CASE ActivityTimeout
      BY <3>1, AttemptEndsTyped DEF ActivityTimeout
    <3>2. CASE StartIngestion \/ CancelIngestion
      <4>1. wfOpen' \in BOOLEAN
        BY <3>2, Zenon DEF StartIngestion, CancelIngestion
      <4>2. wfAttempt' = 0 /\ wfSlot' = None
        BY <3>2 DEF StartIngestion, CancelIngestion
      <4>3. 0 \in 0..MaxAttempts /\ 0 < MaxAttempts
        BY BoundAssumption
      <4> QED BY <4>1, <4>2, <4>3 DEF Retried
    <3>3. CASE UNCHANGED temporal
      BY <3>3 DEF temporal, Typed, TypeOK, Retried
    <3>4. ActivityTimeout \/ StartIngestion \/ CancelIngestion \/ UNCHANGED temporal
      BY DEF Operate, UpdateConfig, UpdateStatus, DeleteSource
    <3> QED BY <3>1, <3>2, <3>3, <3>4
  <2> QED BY <2>1, <2>2, <2>3 DEF OtherTypes, provider, items, derived, Typed, TypeOK, Clocked, Scopes
<1> QED BY <1>1, <1>2, TypedTogether

-----------------------------------------------------------------------------
(* What the steps of an attempt do to its slot *)

LEMMA GoesTo ==
    ASSUME Typed, NEW s \in Slots, NEW step, Goto(s, step), UNCHANGED run
    PROVE  Moves(s, step, run[s])
BY DEF Typed, TypeOK, Moves, Goto

LEMMA FailAttemptMoves ==
    ASSUME Typed, NEW s \in Slots, NEW kind \in Kinds, FailAttempt(s, kind)
    PROVE  Moves(s, "report", [run[s] EXCEPT !.failed = @ \cup {kind}])
BY DEF FailAttempt, Moves, Goto

LEMMA FailedTyped ==
    ASSUME Typed, NEW s \in Slots, NEW kind \in Kinds, NEW r, r = [run[s] EXCEPT !.failed = @ \cup {kind}]
    PROVE  SlotTyped("report", r)
<1>1. run[s] \in Run /\ run[s].from.at <= clock /\ run[s].next.at <= clock
  BY DEF Typed, TypeOK, Clocked
<1>2. r \in Run /\ r.from = run[s].from /\ r.next = run[s].next
  BY <1>1 DEF Run
<1> QED BY <1>1, <1>2 DEF SlotTyped, Steps, Handling, Deleting, Underway

LEMMA LoadSourceMoves ==
    ASSUME Typed, NEW s \in Slots, LoadSource(s)
    PROVE  \/ Moves(s, "discover", [run[s] EXCEPT !.scope = config, !.from = checkpoint])
           \/ \E kind \in Kinds : Moves(s, "report", [run[s] EXCEPT !.failed = @ \cup {kind}])
<1>1. CASE enabled = "ready" /\ Goto(s, "discover")
           /\ run' = [run EXCEPT ![s].scope = config, ![s].from = checkpoint]
  BY <1>1 DEF Moves, Goto
<1>2. ASSUME NEW kind \in Kinds, FailAttempt(s, kind)
      PROVE  Moves(s, "report", [run[s] EXCEPT !.failed = @ \cup {kind}])
  BY <1>2, FailAttemptMoves
<1>3. "final" \in Kinds /\ "retry" \in Kinds
  BY DEF Kinds
<1> QED BY <1>1, <1>2, <1>3 DEF LoadSource

Known(r, next, writes, deletes) == [r EXCEPT !.next = next, !.writes = writes, !.deletes = deletes]

LEMMA DiscoverMoves ==
    ASSUME Typed, NEW s \in Slots, Discover(s), NEW next, next = [at |-> clock, scope |-> run[s].scope],
           NEW seen, seen = Since(run[s].from.at),
           NEW there, there = {i \in seen \cap run[s].scope : present[i]}
    PROVE  \/ HasFeed /\ ~NeedsListing(run[s]) /\ Moves(s, "hierarchy", Known(run[s], next, there, seen \ there))
           \/ ~(HasFeed /\ ~NeedsListing(run[s])) /\ Moves(s, "list", [run[s] EXCEPT !.next = next])
           \/ \E kind \in Kinds : Moves(s, "report", [run[s] EXCEPT !.failed = @ \cup {kind}])
<1>1. CASE HasFeed /\ ~NeedsListing(run[s]) /\ Goto(s, "hierarchy")
           /\ run' = [run EXCEPT ![s].next = next, ![s].writes = there, ![s].deletes = seen \ there]
  BY <1>1 DEF Moves, Goto, Known
<1>2. CASE ~(HasFeed /\ ~NeedsListing(run[s])) /\ Goto(s, "list") /\ run' = [run EXCEPT ![s].next = next]
  BY <1>2 DEF Moves, Goto
<1>3. ASSUME NEW kind \in Kinds, FailAttempt(s, kind)
      PROVE  Moves(s, "report", [run[s] EXCEPT !.failed = @ \cup {kind}])
  BY <1>3, FailAttemptMoves
<1> QED BY <1>1, <1>2, <1>3 DEF Discover

LEMMA ListScopeMoves ==
    ASSUME Typed, NEW s \in Slots, ListScope(s)
    PROVE  \/ Moves(s, "hierarchy", [run[s] EXCEPT !.writes = {i \in run[s].scope : present[i]}])
           \/ \E kind \in Kinds : Moves(s, "report", [run[s] EXCEPT !.failed = @ \cup {kind}])
<1>1. CASE run' = [run EXCEPT ![s].writes = {i \in run[s].scope : present[i]}] /\ Goto(s, "hierarchy")
  BY <1>1 DEF Moves, Goto
<1>2. ASSUME NEW kind \in Kinds, FailAttempt(s, kind)
      PROVE  Moves(s, "report", [run[s] EXCEPT !.failed = @ \cup {kind}])
  BY <1>2, FailAttemptMoves
<1> QED BY <1>1, <1>2 DEF ListScope

Read(r, found) ==
    [r EXCEPT !.writes = found, !.content = [i \in Items |-> IF i \in found THEN changed[i] ELSE 0]]

LEMMA CrawlMoves ==
    ASSUME Typed, NEW s \in Slots, Crawl(s)
    PROVE  \/ \E found \in SUBSET Items : Moves(s, "hierarchy", Read(run[s], found))
           \/ \E kind \in Kinds : Moves(s, "report", [run[s] EXCEPT !.failed = @ \cup {kind}])
<1> DEFINE Finds(found) ==
             /\ run' = [run EXCEPT ![s].writes = found,
                          ![s].content = [i \in Items |-> IF i \in found THEN changed[i] ELSE 0]]
             /\ Goto(s, "hierarchy")
<1>1. CASE \E listed \in SUBSET ListedPages(run[s]) :
           \E pages \in ConvertPages(listed), attachments \in FetchAttachments(listed) :
             Finds(pages \cup attachments)
  <2>0. PICK listed \in SUBSET ListedPages(run[s]) :
               \E pages \in ConvertPages(listed), attachments \in FetchAttachments(listed) :
                  Finds(pages \cup attachments)
    BY <1>1
  <2>1. PICK pages \in ConvertPages(listed), attachments \in FetchAttachments(listed) :
               Finds(pages \cup attachments)
    BY <2>0
  <2>2. pages \cup attachments \in SUBSET Items
    BY DEF ListedPages, ConvertPages, FetchAttachments, ConvertAttachments, Since
  <2>3. Moves(s, "hierarchy", Read(run[s], pages \cup attachments))
    BY <2>1 DEF Moves, Goto, Read
  <2> QED BY <2>2, <2>3
<1>2. ASSUME NEW kind \in Kinds, FailAttempt(s, kind)
      PROVE  Moves(s, "report", [run[s] EXCEPT !.failed = @ \cup {kind}])
  BY <1>2, FailAttemptMoves
<1> QED BY <1>1, <1>2 DEF Crawl

LEMMA HierarchyMoves ==
    ASSUME Typed, NEW s \in Slots, Hierarchy(s)
    PROVE  \/ Moves(s, "deletes", run[s])
           \/ \E kind \in Kinds : Moves(s, "deletes", [run[s] EXCEPT !.failed = @ \cup {kind}])
<1>1. CASE UNCHANGED run
  BY <1>1, GoesTo DEF Hierarchy
<1>2. ASSUME NEW kind \in Kinds, run' = [run EXCEPT ![s].failed = @ \cup {kind}]
      PROVE  Moves(s, "deletes", [run[s] EXCEPT !.failed = @ \cup {kind}])
  BY <1>2 DEF Hierarchy, Moves, Goto
<1> QED BY <1>1, <1>2 DEF Hierarchy

LEMMA DeleteItemMoves ==
    ASSUME Typed, NEW s \in Slots, DeleteItem(s)
    PROVE  \E i \in run[s].deletes :
             \/ /\ row[i] = "live" /\ row' = [row EXCEPT ![i] = "deleted"]
                /\ citations' = [citations EXCEPT ![i] = 0]
                /\ Moves(s, "delete_points", [run[s] EXCEPT !.deletes = @ \ {i}, !.item = i])
             \/ /\ UNCHANGED <<row, citations>>
                /\ Moves(s, "deletes", [run[s] EXCEPT !.deletes = @ \ {i}])
             \/ /\ UNCHANGED <<row, citations>>
                /\ Moves(s, "deletes", [run[s] EXCEPT !.deletes = @ \ {i}, !.failed = @ \cup {"retry"}])
<1>1. PICK i \in run[s].deletes :
         \/ /\ row[i] = "live"
            /\ row' = [row EXCEPT ![i] = "deleted"]
            /\ citations' = [citations EXCEPT ![i] = 0]
            /\ run' = [run EXCEPT ![s].deletes = @ \ {i}, ![s].item = i]
            /\ Goto(s, "delete_points")
         \/ /\ row[i] # "live"
            /\ run' = [run EXCEPT ![s].deletes = @ \ {i}]
            /\ UNCHANGED <<row, citations, pc>>
         \/ /\ run' = [run EXCEPT ![s].deletes = @ \ {i}, ![s].failed = @ \cup {"retry"}]
            /\ UNCHANGED <<row, citations, pc>>
  BY DEF DeleteItem
<1>2. pc = [pc EXCEPT ![s] = "deletes"]
  BY DEF DeleteItem, Typed, TypeOK
<1>3. CASE run' = [run EXCEPT ![s].deletes = @ \ {i}, ![s].item = i] /\ Goto(s, "delete_points")
           /\ row[i] = "live" /\ row' = [row EXCEPT ![i] = "deleted"]
           /\ citations' = [citations EXCEPT ![i] = 0]
  BY <1>3 DEF Moves, Goto
<1>4. CASE run' = [run EXCEPT ![s].deletes = @ \ {i}] /\ UNCHANGED <<row, citations, pc>>
  BY <1>2, <1>4 DEF Moves
<1>5. CASE run' = [run EXCEPT ![s].deletes = @ \ {i}, ![s].failed = @ \cup {"retry"}]
           /\ UNCHANGED <<row, citations, pc>>
  BY <1>2, <1>5 DEF Moves
<1> QED BY <1>1, <1>3, <1>4, <1>5

LEMMA DeletePointsMoves ==
    ASSUME Typed, NEW s \in Slots, DeletePoints(s)
    PROVE  \/ Moves(s, "deletes", [run[s] EXCEPT !.item = None])
           \/ Moves(s, "deletes", [run[s] EXCEPT !.item = None, !.failed = @ \cup {"retry"}])
BY DEF DeletePoints, Moves, Goto

LEMMA LoadItemMoves ==
    ASSUME Typed, NEW s \in Slots, LoadItem(s)
    PROVE  \E i \in run[s].writes :
             /\ run[s].content[i] = 0
             /\ \/ \E content \in Download(i) : Moves(s, "items", [run[s] EXCEPT !.content[i] = content])
                \/ \E kind \in Kinds :
                      Moves(s, "items", [run[s] EXCEPT !.writes = @ \ {i}, !.failed = @ \cup {kind}])
<1>1. PICK i \in run[s].writes :
         /\ run[s].content[i] = 0
         /\ \/ \E content \in Download(i) : run' = [run EXCEPT ![s].content[i] = content]
            \/ \E kind \in Kinds : run' = [run EXCEPT ![s].writes = @ \ {i}, ![s].failed = @ \cup {kind}]
  BY DEF LoadItem
<1>2. pc = [pc EXCEPT ![s] = "items"] /\ UNCHANGED pc
  BY DEF LoadItem, Typed, TypeOK
<1>3. ASSUME NEW content \in Download(i), run' = [run EXCEPT ![s].content[i] = content]
      PROVE  Moves(s, "items", [run[s] EXCEPT !.content[i] = content])
  BY <1>2, <1>3 DEF Moves
<1>4. ASSUME NEW kind \in Kinds, run' = [run EXCEPT ![s].writes = @ \ {i}, ![s].failed = @ \cup {kind}]
      PROVE  Moves(s, "items", [run[s] EXCEPT !.writes = @ \ {i}, !.failed = @ \cup {kind}])
  BY <1>2, <1>4 DEF Moves
<1> QED BY <1>1, <1>3, <1>4

LEMMA PersistItemMoves ==
    ASSUME Typed, NEW s \in Slots, PersistItem(s)
    PROVE  \E i \in run[s].writes :
             /\ run[s].content[i] # 0
             /\ \/ /\ row' = [row EXCEPT ![i] = "live"]
                   /\ indexStatus' = [indexStatus EXCEPT ![i] = "pending"]
                   /\ Moves(s, "processing", [run[s] EXCEPT !.writes = @ \ {i}, !.item = i])
                \/ /\ UNCHANGED items
                   /\ \E kind \in Kinds :
                        Moves(s, "items", [run[s] EXCEPT !.writes = @ \ {i}, !.failed = @ \cup {kind}])
<1>1. PICK i \in run[s].writes :
         /\ run[s].content[i] # 0
         /\ \/ /\ enabled = "ready"
               /\ row' = [row EXCEPT ![i] = "live"]
               /\ indexStatus' = [indexStatus EXCEPT ![i] = "pending"]
               /\ run' = [run EXCEPT ![s].writes = @ \ {i}, ![s].item = i]
               /\ Goto(s, "processing")
            \/ /\ \E kind \in Kinds :
                    run' = [run EXCEPT ![s].writes = @ \ {i}, ![s].failed = @ \cup {kind}]
               /\ UNCHANGED <<items, pc>>
  BY DEF PersistItem
<1>2. pc = [pc EXCEPT ![s] = "items"]
  BY DEF PersistItem, Typed, TypeOK
<1>3. CASE row' = [row EXCEPT ![i] = "live"] /\ indexStatus' = [indexStatus EXCEPT ![i] = "pending"]
           /\ run' = [run EXCEPT ![s].writes = @ \ {i}, ![s].item = i] /\ Goto(s, "processing")
  <2>1. Moves(s, "processing", [run[s] EXCEPT !.writes = @ \ {i}, !.item = i])
    BY <1>3 DEF Moves, Goto
  <2> QED BY <1>1, <1>3, <2>1
<1>4. CASE UNCHANGED <<items, pc>> /\ \E kind \in Kinds :
              run' = [run EXCEPT ![s].writes = @ \ {i}, ![s].failed = @ \cup {kind}]
  <2>1. PICK kind \in Kinds : run' = [run EXCEPT ![s].writes = @ \ {i}, ![s].failed = @ \cup {kind}]
    BY <1>4
  <2>2. Moves(s, "items", [run[s] EXCEPT !.writes = @ \ {i}, !.failed = @ \cup {kind}])
    BY <1>2, <1>4, <2>1 DEF Moves
  <2> QED BY <1>1, <1>4, <2>2
<1> QED BY <1>1, <1>3, <1>4

LEMMA FailsMoves ==
    ASSUME Typed, NEW s \in Slots, NEW kind \in Kinds, Fails(s, kind)
    PROVE  Moves(s, "index_failed", [run[s] EXCEPT !.failure = kind])
BY DEF Fails, Moves, Goto

(* A step of process_item_content goes on to the next or fails.            *)
LEMMA ProcessingMoves ==
    ASSUME Typed, NEW s \in Slots,
           MarkIndexProcessing(s) \/ ReplaceCitations(s) \/ Embed(s) \/ TombstonePoints(s) \/ UpsertPoints(s)
    PROVE  \/ \E kind \in Kinds : Moves(s, "index_failed", [run[s] EXCEPT !.failure = kind])
           \/ \E step \in {"citations", "embed", "tombstone", "upsert", "ready"} : Moves(s, step, run[s])
<1>1. (\E kind \in Kinds : Fails(s, kind))
      \/ \E step \in {"citations", "embed", "tombstone", "upsert", "ready"} : Goto(s, step) /\ UNCHANGED run
  BY Zenon DEF MarkIndexProcessing, ReplaceCitations, Embed, TombstonePoints, UpsertPoints, Kinds
<1> QED BY <1>1, FailsMoves, GoesTo

LEMMA NextItemMoves ==
    ASSUME Typed, NEW s \in Slots, NEW kind \in Kinds, NextItem(s, kind)
    PROVE  Moves(s, "items", [run[s] EXCEPT !.failed = @ \cup {kind}, !.item = None, !.failure = "retry"])
BY DEF NextItem, Moves, Goto

LEMMA LeaveMoves ==
    ASSUME Typed, NEW s \in Slots, Leave(s)
    PROVE  Moves(s, "idle", Blank)
BY DEF Leave, Moves, Goto

LEMMA DiscoveringTyped ==
    ASSUME Typed, NEW s \in Slots, LoadSource(s) \/ Discover(s) \/ ListScope(s) \/ Crawl(s)
    PROVE  Typed'
<1> PICK r : r = run[s]
  OBVIOUS
<1>1. /\ r \in Run /\ r.from.at <= clock /\ r.next.at <= clock
      /\ pc[s] = "source" => r = Blank
      /\ pc[s] \in {"discover"} \cup Underway => r.scope \in AllScopes
      /\ pc[s] \in {"discover", "list"} => r.writes = {} /\ r.deletes = {} /\ r.content = Blank.content
  BY DEF Typed, TypeOK, Clocked, Shaped
<1>2. /\ UNCHANGED <<provider, source, items, derived, temporal>>
      /\ pc[s] \in {"source", "discover", "list"}
      /\ pc[s] # "source" => r.scope \in AllScopes
  <2>1. /\ UNCHANGED <<provider, source, items, derived, temporal>>
        /\ pc[s] \in {"source", "discover", "list"}
    BY DEF LoadSource, Discover, ListScope, Crawl
  <2> QED BY <1>1, <2>1 DEF Underway
<1>d. /\ Discover(s) => pc[s] = "discover"
      /\ ListScope(s) \/ Crawl(s) => pc[s] = "list"
  BY DEF Discover, ListScope, Crawl
<1>3. OtherTypes
  BY <1>2 DEF OtherTypes, provider, source, items, derived, temporal, Typed, TypeOK, Clocked, Scopes, Retried
<1>4. \E step, q : Moves(s, step, q) /\ SlotTyped(step, q)
  <2>1. ASSUME NEW kind \in Kinds, Moves(s, "report", [r EXCEPT !.failed = @ \cup {kind}])
        PROVE  \E step, q : Moves(s, step, q) /\ SlotTyped(step, q)
    BY <2>1, FailedTyped
  <2>2. CASE LoadSource(s)
    <3>1. PICK q : q = [r EXCEPT !.scope = config, !.from = checkpoint]
      OBVIOUS
    <3>2. SlotTyped("discover", q)
      <4>1. config \in AllScopes /\ checkpoint \in Checkpoint /\ checkpoint.at <= clock /\ r = Blank
        BY <1>1, <2>2, Facts DEF LoadSource, Typed, TypeOK, Clocked
      <4>2. q \in Run
        BY <1>1, <3>1, <4>1 DEF Run
      <4>3. /\ q.scope = config /\ q.from = checkpoint /\ q.next = Blank.next /\ q.writes = {} /\ q.deletes = {}
            /\ q.content = Blank.content
        BY <3>1, <4>1 DEF Blank
      <4> QED BY <1>1, <4>1, <4>2, <4>3 DEF SlotTyped, Steps, Handling, Deleting, Underway
    <3> QED BY <2>1, <2>2, <3>1, <3>2, LoadSourceMoves
  <2>3. CASE Discover(s)
    <3>1. PICK next : next = [at |-> clock, scope |-> r.scope]
      OBVIOUS
    <3>2. PICK seen : seen = Since(r.from.at)
      OBVIOUS
    <3>3. PICK there : there = {i \in seen \cap r.scope : present[i]}
      OBVIOUS
    <3>4. next \in Checkpoint /\ next.at <= clock /\ seen \subseteq Items /\ there \subseteq Items
      BY <1>1, <3>1, <3>2, <3>3, Facts DEF Checkpoint, Since, Run, Typed, TypeOK
    <3>5. SlotTyped("hierarchy", Known(r, next, there, seen \ there))
      <4>1. PICK q : q = Known(r, next, there, seen \ there)
        OBVIOUS
      <4>2. q \in Run /\ q.scope = r.scope /\ q.from = r.from /\ q.next = next
        BY <1>1, <3>4, <4>1 DEF Known, Run
      <4> QED BY <1>1, <1>2, <1>d, <2>3, <3>4, <4>1, <4>2 DEF SlotTyped, Steps, Handling, Deleting, Underway
    <3>6. SlotTyped("list", [r EXCEPT !.next = next])
      <4>1. PICK q : q = [r EXCEPT !.next = next]
        OBVIOUS
      <4>2. q \in Run /\ q.scope = r.scope /\ q.from = r.from /\ q.next = next /\ q.writes = r.writes /\ q.deletes = r.deletes
            /\ q.content = r.content
        BY <1>1, <3>4, <4>1 DEF Run
      <4> QED BY <1>1, <1>2, <1>d, <2>3, <3>4, <4>1, <4>2 DEF SlotTyped, Steps, Handling, Deleting, Underway
    <3> QED BY <2>1, <2>3, <3>1, <3>2, <3>3, <3>5, <3>6, DiscoverMoves
  <2>4. CASE ListScope(s)
    <3>1. PICK q : q = [r EXCEPT !.writes = {i \in r.scope : present[i]}]
      OBVIOUS
    <3>2. SlotTyped("hierarchy", q)
      <4>1. {i \in r.scope : present[i]} \subseteq Items
        BY <1>1, <2>4, Facts DEF ListScope, Underway
      <4>2. q \in Run /\ q.scope = r.scope /\ q.from = r.from /\ q.next = r.next
        BY <1>1, <3>1, <4>1 DEF Run
      <4> QED BY <1>1, <1>2, <1>d, <2>4, <3>1, <4>2 DEF SlotTyped, Steps, Handling, Deleting, Underway
    <3> QED BY <2>1, <2>4, <3>1, <3>2, ListScopeMoves
  <2>5. CASE Crawl(s)
    <3>1. ASSUME NEW found \in SUBSET Items PROVE SlotTyped("hierarchy", Read(r, found))
      <4>1. PICK q : q = Read(r, found)
        OBVIOUS
      <4>2. q \in Run /\ q.scope = r.scope /\ q.from = r.from /\ q.next = r.next
        <5>1. [i \in Items |-> IF i \in found THEN changed[i] ELSE 0] \in [Items -> Position]
          BY BoundAssumption DEF Typed, TypeOK, Position
        <5> QED BY <1>1, <4>1, <5>1 DEF Read, Run
      <4> QED BY <1>1, <1>2, <1>d, <2>5, <4>1, <4>2 DEF SlotTyped, Steps, Handling, Deleting, Underway
    <3> QED BY <2>1, <2>5, <3>1, CrawlMoves
  <2> QED BY <2>2, <2>3, <2>4, <2>5
<1> QED BY <1>2, <1>3, <1>4, SlotMoves, TypedTogether DEF provider

LEMMA DeletingTyped ==
    ASSUME Typed, NEW s \in Slots, Hierarchy(s) \/ DeleteItem(s) \/ DeletePoints(s) \/ DeletesDone(s)
    PROVE  Typed'
<1> PICK r : r = run[s]
  OBVIOUS
<1>1. /\ r \in Run /\ r.from.at <= clock /\ r.next.at <= clock
      /\ pc[s] \in Deleting => r.scope \in AllScopes
      /\ pc[s] = "delete_points" => r.item \in Items
  BY DEF Typed, TypeOK, Clocked, Shaped, Underway
<1>2. pc[s] \in Deleting /\ UNCHANGED <<provider, source, indexStatus, temporal>>
  BY DEF Hierarchy, DeleteItem, DeletePoints, DeletesDone, Deleting, items
<1>3. /\ row' \in [Items -> {"absent", "live", "deleted"}]
      /\ citations' \in [Items -> Position] /\ points' \in [Items -> SUBSET Position]
  <2>1. CASE Hierarchy(s) \/ DeletesDone(s)
    BY <2>1 DEF Hierarchy, DeletesDone, items, derived, Typed, TypeOK
  <2>2. CASE DeleteItem(s)
    BY <2>2, BoundAssumption DEF DeleteItem, Typed, TypeOK, Position
  <2>3. CASE DeletePoints(s)
    BY <2>3 DEF DeletePoints, items, Typed, TypeOK
  <2> QED BY <2>1, <2>2, <2>3
<1>4. OtherTypes
  BY <1>2, <1>3 DEF OtherTypes, provider, source, temporal, Typed, TypeOK, Clocked, Scopes, Retried
<1>5. \E step, q : Moves(s, step, q) /\ SlotTyped(step, q)
  <2>1. ASSUME NEW q \in Run, q.scope = r.scope, q.from = r.from, q.next = r.next
        PROVE  SlotTyped("deletes", q) /\ (q.item \in Items => SlotTyped("delete_points", q))
    BY <1>1, <1>2, <2>1 DEF SlotTyped, Steps, Handling
  <2>2. CASE Hierarchy(s)
    <3>1. ASSUME NEW kind \in Kinds PROVE SlotTyped("deletes", [r EXCEPT !.failed = @ \cup {kind}])
      <4>1. PICK q : q = [r EXCEPT !.failed = @ \cup {kind}]
        OBVIOUS
      <4>2. q \in Run /\ q.scope = r.scope /\ q.from = r.from /\ q.next = r.next
        BY <1>1, <4>1 DEF Run
      <4> QED BY <2>1, <4>1, <4>2
    <3> QED BY <1>1, <2>1, <2>2, <3>1, HierarchyMoves
  <2>3. CASE DeleteItem(s)
    <3>1. PICK i \in r.deletes :
            \/ Moves(s, "delete_points", [r EXCEPT !.deletes = @ \ {i}, !.item = i])
            \/ Moves(s, "deletes", [r EXCEPT !.deletes = @ \ {i}])
            \/ Moves(s, "deletes", [r EXCEPT !.deletes = @ \ {i}, !.failed = @ \cup {"retry"}])
      BY <2>3, DeleteItemMoves
    <3>2. i \in Items
      BY <1>1 DEF Run
    <3>3. PICK a, b, c : /\ a = [r EXCEPT !.deletes = @ \ {i}, !.item = i]
                         /\ b = [r EXCEPT !.deletes = @ \ {i}]
                         /\ c = [r EXCEPT !.deletes = @ \ {i}, !.failed = @ \cup {"retry"}]
      OBVIOUS
    <3>4. a \in Run /\ a.scope = r.scope /\ a.from = r.from /\ a.next = r.next /\ a.item = i
      BY <1>1, <3>2, <3>3 DEF Run
    <3>5. b \in Run /\ b.scope = r.scope /\ b.from = r.from /\ b.next = r.next
      BY <1>1, <3>2, <3>3 DEF Run
    <3>6. c \in Run /\ c.scope = r.scope /\ c.from = r.from /\ c.next = r.next
      BY <1>1, <3>2, <3>3 DEF Run, Kinds
    <3> QED BY <2>1, <3>1, <3>2, <3>3, <3>4, <3>5, <3>6
  <2>4. CASE DeletePoints(s)
    <3>1. PICK a, b : /\ a = [r EXCEPT !.item = None]
                      /\ b = [r EXCEPT !.item = None, !.failed = @ \cup {"retry"}]
      OBVIOUS
    <3>2. a \in Run /\ a.scope = r.scope /\ a.from = r.from /\ a.next = r.next
      BY <1>1, <3>1 DEF Run
    <3>3. b \in Run /\ b.scope = r.scope /\ b.from = r.from /\ b.next = r.next
      BY <1>1, <3>1 DEF Run, Kinds
    <3> QED BY <2>1, <2>4, <3>1, <3>2, <3>3, DeletePointsMoves
  <2>5. CASE DeletesDone(s)
    <3>1. SlotTyped("items", r)
      BY <1>1, <1>2, <2>5 DEF DeletesDone, SlotTyped, Steps, Handling
    <3>2. Moves(s, "items", r)
      BY <2>5, GoesTo DEF DeletesDone
    <3> QED BY <3>1, <3>2
  <2> QED BY <2>2, <2>3, <2>4, <2>5
<1> QED BY <1>2, <1>4, <1>5, SlotMoves, TypedTogether DEF provider

LEMMA WritingTyped ==
    ASSUME Typed, NEW s \in Slots, LoadItem(s) \/ PersistItem(s)
    PROVE  Typed'
<1> PICK r : r = run[s]
  OBVIOUS
<1>1. /\ r \in Run /\ r.from.at <= clock /\ r.next.at <= clock
      /\ pc[s] = "items" /\ r.scope \in AllScopes /\ r.deletes = {}
  BY DEF Typed, TypeOK, Clocked, Shaped, Underway, LoadItem, PersistItem
<1>2. UNCHANGED <<provider, source, derived, temporal>>
  BY DEF LoadItem, PersistItem
<1>3. /\ row' \in [Items -> {"absent", "live", "deleted"}]
      /\ indexStatus' \in [Items -> {"pending", "processing", "ready", "failed"}]
  BY DEF LoadItem, PersistItem, items, Typed, TypeOK
<1>4. OtherTypes
  BY <1>2, <1>3 DEF OtherTypes, provider, source, derived, temporal, Typed, TypeOK, Clocked, Scopes, Retried
<1>5. \E step, q : Moves(s, step, q) /\ SlotTyped(step, q)
  <2>1. ASSUME NEW q \in Run, q.scope = r.scope, q.from = r.from, q.next = r.next, q.deletes = {}
        PROVE  /\ SlotTyped("items", q)
               /\ q.item \in Items /\ q.content[q.item] # 0 /\ q.item \notin q.writes =>
                     SlotTyped("processing", q)
    BY <1>1, <2>1 DEF SlotTyped, Steps, Handling
  <2>2. ASSUME NEW i \in r.writes, NEW kind \in Kinds
        PROVE  SlotTyped("items", [r EXCEPT !.writes = @ \ {i}, !.failed = @ \cup {kind}])
    <3>1. PICK q : q = [r EXCEPT !.writes = @ \ {i}, !.failed = @ \cup {kind}]
      OBVIOUS
    <3>2. q \in Run /\ q.scope = r.scope /\ q.from = r.from /\ q.next = r.next /\ q.deletes = {}
      BY <1>1, <3>1 DEF Run
    <3> QED BY <2>1, <3>1, <3>2
  <2>3. CASE LoadItem(s)
    <3>1. PICK i \in r.writes :
            \/ \E content \in Download(i) : Moves(s, "items", [r EXCEPT !.content[i] = content])
            \/ \E kind \in Kinds : Moves(s, "items", [r EXCEPT !.writes = @ \ {i}, !.failed = @ \cup {kind}])
      BY <2>3, LoadItemMoves
    <3>2. ASSUME NEW content \in Download(i) PROVE SlotTyped("items", [r EXCEPT !.content[i] = content])
      <4>1. PICK q : q = [r EXCEPT !.content[i] = content]
        OBVIOUS
      <4>2. i \in Items /\ content \in Position
        BY <1>1 DEF Download, Run, Typed, TypeOK
      <4>3. q \in Run /\ q.scope = r.scope /\ q.from = r.from /\ q.next = r.next /\ q.deletes = {}
        BY <1>1, <4>1, <4>2 DEF Run
      <4> QED BY <2>1, <4>1, <4>3
    <3> QED BY <2>2, <3>1, <3>2
  <2>4. CASE PersistItem(s)
    <3>1. PICK i \in r.writes :
            /\ r.content[i] # 0
            /\ \/ Moves(s, "processing", [r EXCEPT !.writes = @ \ {i}, !.item = i])
               \/ \E kind \in Kinds :
                     Moves(s, "items", [r EXCEPT !.writes = @ \ {i}, !.failed = @ \cup {kind}])
      BY <2>4, PersistItemMoves
    <3>2. SlotTyped("processing", [r EXCEPT !.writes = @ \ {i}, !.item = i])
      <4>1. PICK q : q = [r EXCEPT !.writes = @ \ {i}, !.item = i]
        OBVIOUS
      <4>2. i \in Items
        BY <1>1 DEF Run
      <4>3. /\ q \in Run /\ q.scope = r.scope /\ q.from = r.from /\ q.next = r.next /\ q.deletes = {}
            /\ q.item = i /\ q.content = r.content /\ q.writes = r.writes \ {i}
        BY <1>1, <4>1, <4>2 DEF Run
      <4> QED BY <2>1, <3>1, <4>1, <4>2, <4>3
    <3> QED BY <2>2, <3>1, <3>2
  <2> QED BY <2>3, <2>4
<1> QED BY <1>2, <1>4, <1>5, SlotMoves, TypedTogether DEF provider

LEMMA ProcessingTyped ==
    ASSUME Typed, NEW s \in Slots,
           \/ MarkIndexProcessing(s) \/ ReplaceCitations(s) \/ Embed(s) \/ TombstonePoints(s)
           \/ UpsertPoints(s) \/ MarkIndexReady(s) \/ MarkIndexFailed(s)
    PROVE  Typed'
<1> PICK r : r = run[s]
  OBVIOUS
<1>1. pc[s] \in Handling
  BY DEF MarkIndexProcessing, ReplaceCitations, Embed, TombstonePoints, UpsertPoints, MarkIndexReady,
         MarkIndexFailed, Handling
<1>2. /\ r \in Run /\ r.from.at <= clock /\ r.next.at <= clock
      /\ r.scope \in AllScopes /\ r.deletes = {}
      /\ r.item \in Items /\ r.content[r.item] # 0 /\ r.item \notin r.writes
  BY <1>1 DEF Typed, TypeOK, Clocked, Shaped, Underway
<1>3. r.content[r.item] \in Position
  BY <1>2 DEF Run
<1>4. UNCHANGED <<provider, source, row, temporal>>
  BY Zenon DEF MarkIndexProcessing, ReplaceCitations, Embed, TombstonePoints, UpsertPoints, MarkIndexReady,
         MarkIndexFailed, SetIndexStatus, items
<1>5. /\ indexStatus' \in [Items -> {"pending", "processing", "ready", "failed"}]
      /\ citations' \in [Items -> Position] /\ points' \in [Items -> SUBSET Position]
  <2>1. CASE MarkIndexProcessing(s) \/ MarkIndexReady(s) \/ MarkIndexFailed(s)
    BY <2>1 DEF MarkIndexProcessing, MarkIndexReady, MarkIndexFailed, SetIndexStatus, items, derived,
                Typed, TypeOK
  <2>2. CASE Embed(s)
    BY <2>2 DEF Embed, items, derived, Typed, TypeOK
  <2>3. CASE ReplaceCitations(s)
    BY <1>3, <2>3 DEF ReplaceCitations, items, Typed, TypeOK
  <2>4. CASE TombstonePoints(s)
    BY <2>4 DEF TombstonePoints, items, Typed, TypeOK
  <2>5. CASE UpsertPoints(s)
    BY <1>3, <2>5 DEF UpsertPoints, items, Typed, TypeOK
  <2> QED BY <2>1, <2>2, <2>3, <2>4, <2>5
<1>6. OtherTypes
  BY <1>4, <1>5 DEF OtherTypes, provider, source, temporal, Typed, TypeOK, Clocked, Scopes, Retried
<1>7. \E step, q : Moves(s, step, q) /\ SlotTyped(step, q)
  <2>1. ASSUME NEW q \in Run, q.scope = r.scope, q.from = r.from, q.next = r.next, q.deletes = {}
        PROVE  /\ SlotTyped("items", q)
               /\ q.item = r.item /\ q.content = r.content /\ q.writes = r.writes =>
                     \A step \in Handling : SlotTyped(step, q)
    BY <1>2, <2>1 DEF SlotTyped, Steps, Handling
  <2>2. ASSUME NEW kind \in Kinds PROVE SlotTyped("index_failed", [r EXCEPT !.failure = kind])
    <3>1. PICK q : q = [r EXCEPT !.failure = kind]
      OBVIOUS
    <3>2. /\ q \in Run /\ q.scope = r.scope /\ q.from = r.from /\ q.next = r.next /\ q.deletes = {}
          /\ q.item = r.item /\ q.content = r.content /\ q.writes = r.writes
      BY <1>2, <3>1 DEF Run
    <3> QED BY <2>1, <3>1, <3>2 DEF Handling
  <2>3. CASE MarkIndexProcessing(s) \/ ReplaceCitations(s) \/ Embed(s) \/ TombstonePoints(s) \/ UpsertPoints(s)
    <3>1. \A step \in Handling : SlotTyped(step, r)
      BY <1>2, <2>1
    <3> QED BY <2>2, <2>3, <3>1, ProcessingMoves DEF Handling
  <2>4. CASE MarkIndexReady(s)
    <3>1. CASE run' = [run EXCEPT ![s].item = None] /\ Goto(s, "items")
      <4>1. PICK q : q = [r EXCEPT !.item = None]
        OBVIOUS
      <4>2. q \in Run /\ q.scope = r.scope /\ q.from = r.from /\ q.next = r.next /\ q.deletes = {}
        BY <1>2, <4>1 DEF Run
      <4>3. Moves(s, "items", q)
        BY <3>1, <4>1 DEF Moves, Goto
      <4> QED BY <2>1, <4>2, <4>3
    <3>2. CASE Fails(s, "retry")
      BY <2>2, <3>2, FailsMoves DEF Kinds
    <3> QED BY <2>4, <3>1, <3>2 DEF MarkIndexReady
  <2>5. CASE MarkIndexFailed(s)
    <3>1. PICK kind \in Kinds : NextItem(s, kind)
      BY <1>2, <2>5 DEF MarkIndexFailed, Kinds, Run
    <3>2. PICK q : q = [r EXCEPT !.failed = @ \cup {kind}, !.item = None, !.failure = "retry"]
      OBVIOUS
    <3>3. q \in Run /\ q.scope = r.scope /\ q.from = r.from /\ q.next = r.next /\ q.deletes = {}
      BY <1>2, <3>2 DEF Run, Kinds
    <3> QED BY <2>1, <3>1, <3>2, <3>3, NextItemMoves
  <2> QED BY <2>3, <2>4, <2>5
<1> QED BY <1>4, <1>6, <1>7, SlotMoves, TypedTogether DEF provider

LEMMA EndingTyped ==
    ASSUME Typed, NEW s \in Slots, StartAttempt(s) \/ Complete(s) \/ Report(s) \/ Crash(s)
    PROVE  Typed'
<1> PICK r : r = run[s]
  OBVIOUS
<1>1. r \in Run /\ r.from.at <= clock /\ r.next.at <= clock /\ r.next \in Checkpoint
      /\ (pc[s] = "idle" => r = Blank)
  BY DEF Typed, TypeOK, Clocked, Shaped, Run
<1>2. UNCHANGED <<provider, items, derived, connector, config, enabled>>
  BY DEF StartAttempt, Complete, Report, Crash, source
<1>3. checkpoint' \in Checkpoint /\ checkpoint'.at <= clock
  <2>1. checkpoint' = checkpoint \/ checkpoint' = r.next
    BY DEF StartAttempt, Complete, Report, Crash, source
  <2> QED BY <1>1, <2>1 DEF Typed, TypeOK, Clocked
<1>4. wfOpen' \in BOOLEAN /\ wfAttempt' \in 0..MaxAttempts /\ wfSlot' \in Slots \cup {None} /\ Retried'
  <2>1. CASE StartAttempt(s)
    BY <2>1, Facts, BoundAssumption DEF StartAttempt, Typed, TypeOK, Retried
  <2>2. CASE UNCHANGED temporal
    BY <2>2 DEF temporal, Typed, TypeOK, Retried
  <2>3. CASE AttemptEnds(Result(run[s].failed))
    BY <2>3, AttemptEndsTyped
  <2>4. StartAttempt(s) \/ UNCHANGED temporal \/ AttemptEnds(Result(run[s].failed))
    BY Zenon DEF Complete, Report, Crash
  <2> QED BY <2>1, <2>2, <2>3, <2>4
<1>5. OtherTypes
  BY <1>2, <1>3, <1>4 DEF OtherTypes, provider, items, derived, Typed, TypeOK, Clocked, Scopes
<1>6. \E step, q : Moves(s, step, q) /\ SlotTyped(step, q)
  <2>1. SlotTyped("idle", Blank)
    <3>1. 0 <= clock
      BY Facts
    <3> QED BY <3>1, BlankType DEF SlotTyped, Steps, Handling, Deleting, Underway, Blank, NoCheckpoint
  <2>2. CASE Report(s) \/ Crash(s)
    BY <2>1, <2>2, LeaveMoves DEF Report, Crash
  <2>3. CASE StartAttempt(s)
    <3>1. SlotTyped("source", r)
      BY <1>1, <2>3 DEF StartAttempt, SlotTyped, Steps, Handling, Deleting, Underway
    <3>2. Moves(s, "source", r)
      BY <2>3, GoesTo DEF StartAttempt
    <3> QED BY <3>1, <3>2
  <2>4. CASE Complete(s)
    <3>1. ASSUME NEW q \in Run, q.from = r.from, q.next = r.next PROVE SlotTyped("report", q)
      BY <1>1, <3>1 DEF SlotTyped, Steps, Handling, Deleting, Underway
    <3>2. CASE UNCHANGED run
      <4>1. Moves(s, "report", r)
        BY <2>4, <3>2, GoesTo DEF Complete
      <4> QED BY <1>1, <3>1, <4>1
    <3>3. CASE \E kind \in Kinds : run' = [run EXCEPT ![s].failed = {kind}]
      <4>1. PICK kind \in Kinds : run' = [run EXCEPT ![s].failed = {kind}]
        BY <3>3
      <4>2. PICK q : q = [r EXCEPT !.failed = {kind}]
        OBVIOUS
      <4>3. q \in Run /\ q.from = r.from /\ q.next = r.next
        BY <1>1, <4>2 DEF Run
      <4>4. Moves(s, "report", q)
        BY <2>4, <4>1, <4>2 DEF Complete, Moves, Goto
      <4> QED BY <3>1, <4>3, <4>4
    <3> QED BY <2>4, <3>2, <3>3 DEF Complete
  <2> QED BY <2>2, <2>3, <2>4
<1> QED BY <1>2, <1>5, <1>6, SlotMoves, TypedTogether DEF provider

LEMMA TypedInit == Init => Typed
<1> SUFFICES ASSUME Init PROVE Typed
  OBVIOUS
<1>1. 0 \in Position /\ 0 \in 0..MaxAttempts /\ NoCheckpoint \in Checkpoint
  BY BoundAssumption DEF Position, NoCheckpoint, Checkpoint
<1>2. /\ changed = [i \in Items |-> 0] /\ clock = 0 /\ oldest = 0 /\ NoCheckpoint.at = 0
      /\ checkpoint = NoCheckpoint
  BY DEF Init, NoCheckpoint
<1>3. \A s \in Slots : pc[s] = "idle" /\ run[s] = Blank
  BY DEF Init
<1>4. TypeOK
  BY <1>1, BlankType DEF Init, TypeOK, Steps
<1>5. Clocked
  BY <1>2, <1>3 DEF Clocked, Blank, NoCheckpoint
<1>6. Retried
  BY DEF Init, Retried
<1>7. \A s \in Slots : Shaped(s)
  BY <1>3 DEF Shaped, Handling, Deleting, Underway
<1> QED BY <1>4, <1>5, <1>6, <1>7 DEF Typed

LEMMA TypedNext == Typed /\ [Next]_vars => Typed'
<1> SUFFICES ASSUME Typed, [Next]_vars PROVE Typed'
  OBVIOUS
<1>1. CASE (\E i \in Items : Change(i) \/ Remove(i)) \/ ExpireTokens
  BY <1>1, TypedProvider
<1>3. CASE Operate \/ StartIngestion \/ ActivityTimeout
  BY <1>3, TypedOperate
<1>4. ASSUME NEW s \in Slots, StartAttempt(s) \/ Step(s) \/ Crash(s) PROVE Typed'
  BY <1>4, DiscoveringTyped, DeletingTyped, WritingTyped, ProcessingTyped, EndingTyped DEF Step
<1>5. CASE UNCHANGED vars
  <2>1. UNCHANGED <<provider, source, items, derived, temporal, pc, run>>
    BY <1>5 DEF vars
  <2>2. Slotted
    BY <2>1, Facts, SlotsStay DEF provider
  <2>3. OtherTypes
    BY <2>1 DEF OtherTypes, provider, source, items, derived, temporal, Typed, TypeOK, Clocked, Scopes,
                Retried
  <2> QED BY <2>2, <2>3, TypedTogether
<1> QED BY <1>1, <1>3, <1>4, <1>5 DEF Next

(* Whatever the provider, the operator, Temporal and any number of worker  *)
(* slots do at the same time, every column, every step of an attempt and   *)
(* what it has found keep their type.                                      *)
THEOREM TypeCorrect == Spec => []TypeOK
<1>1. Typed => TypeOK
  BY DEF Typed
<1> QED BY <1>1, TypedInit, TypedNext, PTL DEF Spec

-----------------------------------------------------------------------------
(* The index is kept up *)

(* Between attempts, and before or after its work, an attempt owes nothing.*)
LEMMA NothingOwed ==
    ASSUME NEW s \in Slots, pc'[s] \in {"idle", "source", "report"}
    PROVE  Attempt(s)'
<1>1. pc'[s] \notin {"discover"} \cup Underway
  BY DEF Underway, Deleting, Handling
<1> QED BY <1>1 DEF Attempt, Ahead, FromCovered, DeletesGone, Found, Fresh, Written, Progress,
                    Underway, Deleting, Handling

LEMMA OthersIdle ==
    ASSUME Typed, OneAttempt, OneAttempt', NEW s \in Slots, NEW step, NEW r, Moves(s, step, r),
           pc[s] # "idle" \/ step # "idle", Attempt(s)'
    PROVE  \A t \in Slots : Attempt(t)'
<1> SUFFICES ASSUME NEW t \in Slots, t # s PROVE Attempt(t)'
  OBVIOUS
<1>1. pc'[t] = pc[t] /\ pc'[s] = step
  BY DEF Moves, Typed, TypeOK
<1>2. pc'[t] = "idle"
  BY <1>1 DEF OneAttempt
<1> QED BY <1>2, NothingOwed

(* The provider: what changes is ahead of every position, and does not     *)
(* stand for what looks up to one.                                         *)
LEMMA MirrorsProvider ==
    ASSUME Typed, Mirrors, (\E i \in Items : Change(i) \/ Remove(i)) \/ ExpireTokens
    PROVE  Mirrors'
<1>1. /\ UNCHANGED <<source, items, derived, pc, run>> /\ oldest <= oldest' /\ oldest' \in Nat
      /\ \A i \in Items : \/ changed'[i] = changed[i] /\ present'[i] = present[i]
                          \/ changed'[i] = clock + 1
  <2>1. CASE ExpireTokens
    BY <2>1, Facts DEF ExpireTokens, Typed, Clocked
  <2>2. ASSUME NEW i \in Items, Change(i) \/ Remove(i)
        PROVE  /\ UNCHANGED <<source, items, derived, pc, run>> /\ oldest <= oldest' /\ oldest' \in Nat
               /\ \A j \in Items : \/ changed'[j] = changed[j] /\ present'[j] = present[j]
                                   \/ changed'[j] = clock + 1
    BY <2>2, Facts DEF Change, Remove, Typed, TypeOK
  <2> QED BY <2>1, <2>2
<1>2. \A at \in 0..clock : \A i \in Items : Stands(i, at)' => Stands(i, at) /\ changed'[i] = changed[i]
  BY <1>1, Facts DEF Stands
<1>3. HasFeed' = HasFeed /\ (HasFeed /\ Usable' => Usable)
  <2>1. UNCHANGED <<connector, config, checkpoint>> /\ oldest \in Nat /\ checkpoint.at \in Nat
    BY <1>1, Facts DEF source
  <2>2. HasFeed' = HasFeed
    BY <2>1 DEF HasFeed
  <2>3. ASSUME HasFeed, Usable' PROVE Usable
    BY <1>1, <2>1, <2>2, <2>3 DEF Usable
  <2> QED BY <2>2, <2>3
<1>4. \A i, content : Indexed(i, content)' <=> Indexed(i, content)
  BY <1>1 DEF Indexed, items, derived
<1>5. checkpoint.at \in 0..clock /\ config \in SUBSET Items
  BY Facts DEF Typed, Clocked
<1>6. Covers'
  <2> PICK at : at = checkpoint.at
    OBVIOUS
  <2>1. checkpoint' = checkpoint /\ config' = config
    BY <1>1 DEF source
  <2> SUFFICES ASSUME HasFeed, Usable', NEW i \in config, Stands(i, at)'
               PROVE  Indexed(i, changed[i])'
    BY <1>3, <2>1 DEF Covers, Covered
  <2>2. i \in Items /\ Stands(i, at) /\ changed'[i] = changed[i]
    BY <1>2, <1>5
  <2>3. Indexed(i, changed[i])
    BY <1>3, <2>2 DEF Mirrors, Covers, Covered
  <2> QED BY <1>4, <2>2, <2>3 DEF Indexed
<1>7. ASSUME NEW s \in Slots PROVE Attempt(s)'
  <2> PICK r : r = run[s]
    OBVIOUS
  <2>1. /\ run' = run /\ pc' = pc /\ UNCHANGED <<checkpoint, config>>
        /\ r.from.at \in 0..clock /\ r.next.at \in 0..clock
        /\ \A i \in Items : changed[i] <= clock /\ changed[i] \in Nat
    BY <1>1, Facts DEF source, Typed, Clocked
  <2>2. /\ Attempt(s) /\ r \in Run
        /\ pc[s] \in {"discover"} \cup Underway => r.scope \in SUBSET Items
        /\ pc[s] \in Handling \cup {"delete_points"} => r.item \in Items
    BY Facts DEF Mirrors, Typed, TypeOK, Shaped
  <2>3. Deletes(s)' = Deletes(s) /\ Touched(s)' = Touched(s) /\ Touched(s) \subseteq Items
        /\ Deletes(s) \subseteq Items
    BY <2>1, <2>2 DEF Deletes, Touched, Run
  <2>4. Ahead(s)'
    <3>1. \A i \in Items : changed[i] > checkpoint.at => changed'[i] > checkpoint.at
      BY <1>1, <1>5, <2>1, Facts
    <3> QED BY <1>3, <2>1, <2>2, <2>3, <3>1 DEF Attempt, Ahead
  <2>5. FromCovered(s)'
    <3> SUFFICES ASSUME HasFeed, pc[s] = "discover", ~NeedsListing(r)', NEW i \in r.scope,
                        Stands(i, r.from.at)'
                 PROVE  Indexed(i, changed[i])'
      BY <1>3, <2>1 DEF FromCovered, Covered
    <3>1. ~NeedsListing(r)
      BY <1>1, <2>1, Facts DEF NeedsListing
    <3>2. i \in Items /\ Stands(i, r.from.at) /\ changed'[i] = changed[i]
      BY <1>2, <2>1, <2>2
    <3> QED BY <1>4, <2>2, <3>1, <3>2 DEF Attempt, FromCovered, Covered
  <2>6. DeletesGone(s)'
    BY <1>2, <2>1, <2>2, <2>3 DEF Attempt, DeletesGone
  <2>7. Found(s)'
    <3>1. r.next.scope = r.scope \/ pc[s] \notin Underway
      BY <2>2 DEF Attempt, Found
    <3>2. ASSUME HasFeed, pc[s] \in Underway \ {"list"}, r.failed = {}, NEW i \in r.scope,
                 Stands(i, r.next.at)'
          PROVE  i \in r.writes \/ r.content[i] # 0 \/ Indexed(i, changed[i])'
      <4>1. i \in Items /\ Stands(i, r.next.at) /\ changed'[i] = changed[i]
        BY <1>2, <2>1, <2>2, <3>2
      <4> QED BY <1>4, <2>2, <3>2, <4>1 DEF Attempt, Found
    <3> QED BY <1>3, <2>1, <3>1, <3>2 DEF Found
  <2>8. Fresh(s)'
    <3>1. \A i \in Items : changed'[i] <= r.next.at => changed'[i] = changed[i]
      BY <1>1, <2>1, Facts
    <3> QED BY <2>1, <2>2, <3>1 DEF Attempt, Fresh
  <2>9. Written(s)' /\ Progress(s)'
    <3>1. Written(s)'
      BY <1>4, <2>1, <2>2 DEF Attempt, Written
    <3>2. Progress(s)'
      BY <1>1, <2>1, <2>2 DEF Attempt, Progress, items, derived
    <3> QED BY <3>1, <3>2
  <2> QED BY <2>4, <2>5, <2>6, <2>7, <2>8, <2>9 DEF Attempt
<1> QED BY <1>6, <1>7 DEF Mirrors

(* The operator and Temporal.                                              *)
LEMMA MirrorsOperate ==
    ASSUME Typed, Typed', Mirrors,
           Operate \/ StartIngestion \/ ActivityTimeout \/ UNCHANGED vars
    PROVE  Mirrors'
<1>1. /\ UNCHANGED <<provider, items, derived, pc, run, connector>>
      /\ UNCHANGED <<config, checkpoint>> \/ checkpoint' = NoCheckpoint
  BY DEF Operate, UpdateConfig, UpdateStatus, DeleteSource, CancelIngestion, StartIngestion,
         ActivityTimeout, vars, source
<1>2. HasFeed' = HasFeed
  BY <1>1 DEF HasFeed
<1>3. UNCHANGED <<config, checkpoint>> \/ (HasFeed => ~Usable')
  <2>1. ASSUME checkpoint' = NoCheckpoint, HasFeed PROVE ~Usable'
    <3>1. checkpoint'.scope = None /\ config' \in Scopes' /\ Scopes' = Scopes
      BY <1>1, <2>1 DEF NoCheckpoint, Typed, TypeOK, Scopes
    <3> QED BY <1>2, <2>1, <3>1, Facts DEF Usable
  <2> QED BY <1>1, <2>1
<1>4. HasFeed /\ Usable' => Usable /\ UNCHANGED <<config, checkpoint>>
  BY <1>1, <1>2, <1>3 DEF Usable, provider
<1>5. Covers'
  BY <1>1, <1>2, <1>4 DEF Mirrors, Covers, Covered, Stands, Indexed, provider, items, derived
<1>6. ASSUME NEW s \in Slots PROVE Attempt(s)'
  <2>1. Attempt(s)
    BY DEF Mirrors
  <2>2. Ahead(s)'
    BY <1>1, <1>2, <1>4, <2>1 DEF Attempt, Ahead, Touched, Deletes, provider
  <2>3. FromCovered(s)' /\ DeletesGone(s)' /\ Found(s)' /\ Fresh(s)' /\ Written(s)' /\ Progress(s)'
    BY <1>1, <1>2, <2>1
       DEF Attempt, FromCovered, DeletesGone, Found, Fresh, Written, Progress, Deletes, NeedsListing,
           Covered, Stands, Indexed, provider, items, derived
  <2> QED BY <2>2, <2>3 DEF Attempt
<1> QED BY <1>5, <1>6 DEF Mirrors

SameIndex(i) ==
    row'[i] = row[i] /\ indexStatus'[i] = indexStatus[i] /\ points'[i] = points[i] /\ citations'[i] = citations[i]

(* What an attempt works on is ahead of the checkpoint.                    *)
LEMMA CoversKept ==
    ASSUME Typed, Mirrors, UNCHANGED <<provider, source>>, NEW s \in Slots, pc[s] \in Underway,
           \A i \in Items : i \in Touched(s) \/ SameIndex(i)
    PROVE  Covers'
<1>1. HasFeed' = HasFeed /\ Usable' = Usable /\ UNCHANGED <<checkpoint, config, changed, present>>
  BY DEF provider, source, HasFeed, Usable
<1> SUFFICES ASSUME HasFeed, Usable, NEW i \in config, Stands(i, checkpoint.at)
             PROVE  Indexed(i, changed[i])'
  BY <1>1 DEF Covers, Covered, Stands
<1>2. i \in Items /\ changed[i] \in Nat /\ checkpoint.at \in Nat
  BY Facts
<1>3. Indexed(i, changed[i])
  BY DEF Mirrors, Covers, Covered
<1>4. i \notin Touched(s)
  <2>1. \A j \in Touched(s) : changed[j] > checkpoint.at
    BY DEF Mirrors, Attempt, Ahead
  <2> QED BY <1>2, <2>1 DEF Stands
<1> QED BY <1>1, <1>2, <1>3, <1>4 DEF Indexed, SameIndex

(* A step of an attempt that knows what it works on.                       *)
LEMMA AttemptKept ==
    ASSUME Typed, Typed', Mirrors, OneAttempt, OneAttempt', UNCHANGED <<provider, source>>,
           NEW s \in Slots, NEW r, r = run[s], NEW step, NEW q, Moves(s, step, q),
           pc[s] \in Underway \ {"list"}, step \in Underway \ {"list"},
           q.scope = r.scope, q.from = r.from, q.next = r.next, q.failed = {} => r.failed = {},
           Touched(s)' \subseteq Touched(s), Deletes(s)' \subseteq Deletes(s),
           \A i \in Items : SameIndex(i) \/ i \in Deletes(s) \/ (i \in Touched(s) /\ r.content[i] # 0),
           \A i \in Items : \/ q.content[i] = r.content[i]
                            \/ r.content[i] = 0 /\ q.content[i] = changed[i],
           q.failed = {} => \A i \in r.writes : i \in q.writes \/ q.content[i] # 0,
           step \in Deleting => pc[s] \in Deleting /\ q.writes = r.writes /\ q.content = r.content,
           q.failed = {} =>
             \A i \in Items : q.content[i] # 0 /\ i \notin q.writes =>
                \/ step \in Handling /\ i = q.item
                \/ Indexed(i, q.content[i])'
                \/ SameIndex(i) /\ i \notin r.writes /\ q.content[i] = r.content[i]
                     /\ (pc[s] \notin Handling \/ i # r.item),
           Progress(s)'
    PROVE  Mirrors'
<1>1. pc'[s] = step /\ run'[s] = q /\ r \in Run /\ r.scope \in SUBSET Items /\ r.writes \subseteq Items
  <2>1. pc'[s] = step /\ run'[s] = q /\ r \in Run
    BY DEF Moves, Typed, TypeOK
  <2>2. r.scope \in AllScopes
    BY DEF Typed, Shaped
  <2> QED BY <2>1, <2>2, Facts DEF Run
<1>2. Attempt(s)
  BY DEF Mirrors
<1>3. UNCHANGED <<clock, changed, present, oldest, connector, config, checkpoint>>
      /\ HasFeed' = HasFeed /\ Usable' = Usable
  BY DEF provider, source, HasFeed, Usable
<1>4. Covers'
  <2>1. Deletes(s) \subseteq Touched(s)
    BY DEF Touched
  <2> QED BY <2>1, CoversKept
<1>5. Ahead(s)'
  BY <1>1, <1>2, <1>3 DEF Attempt, Ahead
<1>6. FromCovered(s)'
  BY <1>1 DEF FromCovered, Underway, Deleting, Handling
<1>7. DeletesGone(s)'
  BY <1>1, <1>2, <1>3 DEF Attempt, DeletesGone, Stands
<1>8. Found(s)'
  <2>1. q.next.scope = q.scope
    BY <1>2 DEF Attempt, Found
  <2>2. ASSUME HasFeed, q.failed = {}, NEW i \in q.scope, Stands(i, q.next.at)
        PROVE  i \in q.writes \/ q.content[i] # 0 \/ Indexed(i, changed[i])'
    <3>1. i \in Items /\ (i \in r.writes \/ r.content[i] # 0 \/ Indexed(i, changed[i]))
      BY <1>1, <1>2, <2>2 DEF Attempt, Found
    <3>2. CASE i \in r.writes
      BY <2>2, <3>2
    <3>3. CASE r.content[i] # 0
      BY <3>1, <3>3
    <3>4. CASE Indexed(i, changed[i]) /\ r.content[i] = 0
      <4>1. i \notin Deletes(s)
        BY <1>2, <2>2 DEF Attempt, DeletesGone
      <4>2. SameIndex(i)
        BY <3>1, <3>4, <4>1
      <4> QED BY <1>3, <3>4, <4>2 DEF Indexed, SameIndex
    <3> QED BY <3>1, <3>2, <3>3, <3>4
  <2> QED BY <1>1, <1>3, <2>1, <2>2 DEF Found, Stands
<1>9. Fresh(s)'
  <2> SUFFICES ASSUME NEW i \in Items, q.content[i] # 0, changed[i] <= q.next.at
               PROVE  q.content[i] = changed[i]
    BY <1>1, <1>3 DEF Fresh
  <2> QED BY <1>2 DEF Attempt, Fresh
<1>10. Written(s)'
  <2>1. ASSUME step \in Deleting, NEW i \in Items, q.content[i] # 0 PROVE i \in q.writes
    BY <1>2, <2>1 DEF Attempt, Written
  <2>2. ASSUME q.failed = {}, NEW i \in Items, q.content[i] # 0, i \notin q.writes
        PROVE  (step \in Handling /\ i = q.item) \/ Indexed(i, q.content[i])'
    <3>1. CASE SameIndex(i) /\ i \notin r.writes /\ q.content[i] = r.content[i]
               /\ (pc[s] \notin Handling \/ i # r.item)
      <4>1. Indexed(i, r.content[i])
        BY <1>2, <2>2, <3>1 DEF Attempt, Written
      <4> QED BY <3>1, <4>1 DEF Indexed, SameIndex
    <3> QED BY <2>2, <3>1
  <2>3. \A i \in Items : Indexed(i, q.content[i])' <=> Indexed(i, run[s].content[i])'
    BY <1>1 DEF Indexed
  <2> QED BY <1>1, <2>1, <2>2, <2>3 DEF Written
<1>11. Attempt(s)'
  BY <1>5, <1>6, <1>7, <1>8, <1>9, <1>10 DEF Attempt
<1>12. \A t \in Slots : Attempt(t)'
  <2>1. pc[s] # "idle"
    BY DEF Underway, Deleting, Handling
  <2> QED BY <1>11, <2>1, OthersIdle
<1> QED BY <1>4, <1>12 DEF Mirrors

LEMMA DeletingMirrors ==
    ASSUME Typed, Typed', Mirrors, OneAttempt, OneAttempt', NEW s \in Slots,
           Hierarchy(s) \/ DeleteItem(s) \/ DeletePoints(s) \/ DeletesDone(s)
    PROVE  Mirrors'
<1> PICK r : r = run[s]
  OBVIOUS
<1>1. r \in Run /\ pc[s] \in Deleting /\ UNCHANGED <<provider, source>>
  BY DEF Typed, TypeOK, Hierarchy, DeleteItem, DeletePoints, DeletesDone, Deleting
(* Nothing was written yet; what was read is to be written.                *)
<1>2. ASSUME NEW step \in Deleting \cup {"items"}, NEW q, Moves(s, step, q),
             q.scope = r.scope, q.from = r.from, q.next = r.next, q.failed = {} => r.failed = {},
             q.writes = r.writes, q.content = r.content,
             q.deletes \cup (IF step = "delete_points" THEN {q.item} ELSE {}) \subseteq Deletes(s),
             \A i \in Items : SameIndex(i) \/ i \in Deletes(s)
      PROVE  Mirrors'
  <2>1. pc'[s] = step /\ run'[s] = q
    BY <1>2 DEF Moves, Typed, TypeOK
  <2>2. pc[s] \in Underway \ {"list"} /\ step \in Underway \ {"list"}
        /\ pc[s] \notin Handling /\ step \notin Handling
    BY <1>1 DEF Underway, Deleting, Handling
  <2>3. Deletes(s)' \subseteq Deletes(s) /\ Touched(s)' \subseteq Touched(s)
    BY <1>2, <2>1, <2>2 DEF Deletes, Touched
  <2>4. Progress(s)'
    BY <2>1, <2>2 DEF Progress, Handling
  <2>5. \A i \in Items : q.content[i] # 0 => i \in q.writes
    BY <1>1, <1>2 DEF Mirrors, Attempt, Written
  <2>6. step \in Deleting => pc[s] \in Deleting
    BY <1>1
  <2> QED BY <1>1, <1>2, <2>2, <2>3, <2>4, <2>5, <2>6, AttemptKept
<1>3. CASE Hierarchy(s) \/ DeletesDone(s)
  <2>1. \A i : SameIndex(i)
    BY <1>3 DEF Hierarchy, DeletesDone, items, derived, SameIndex
  <2>2. r.deletes \subseteq Deletes(s) /\ "deletes" \in Deleting
    BY DEF Deletes, Deleting
  <2>3. CASE Moves(s, "deletes", r) \/ Moves(s, "items", r)
    BY <1>2, <2>1, <2>2, <2>3
  <2>4. ASSUME NEW kind \in Kinds, Moves(s, "deletes", [r EXCEPT !.failed = @ \cup {kind}]) PROVE Mirrors'
    <3>1. PICK q : q = [r EXCEPT !.failed = @ \cup {kind}]
      OBVIOUS
    <3>2. /\ q.scope = r.scope /\ q.from = r.from /\ q.next = r.next /\ q.failed # {}
          /\ q.writes = r.writes /\ q.content = r.content /\ q.deletes = r.deletes
      BY <1>1, <3>1 DEF Run
    <3> QED BY <1>2, <2>1, <2>2, <2>4, <3>1, <3>2
  <2> QED BY <1>3, <2>3, <2>4, HierarchyMoves, GoesTo DEF DeletesDone
<1>4. CASE DeleteItem(s)
  <2>1. PICK i \in r.deletes :
             \/ /\ row' = [row EXCEPT ![i] = "deleted"]
                /\ citations' = [citations EXCEPT ![i] = 0]
                /\ Moves(s, "delete_points", [r EXCEPT !.deletes = @ \ {i}, !.item = i])
             \/ /\ UNCHANGED <<row, citations>>
                /\ Moves(s, "deletes", [r EXCEPT !.deletes = @ \ {i}])
             \/ /\ UNCHANGED <<row, citations>>
                /\ Moves(s, "deletes", [r EXCEPT !.deletes = @ \ {i}, !.failed = @ \cup {"retry"}])
    BY <1>4, DeleteItemMoves
  <2>2. r.deletes \subseteq Deletes(s) /\ "deletes" \in Deleting /\ "delete_points" \in Deleting
    BY DEF Deletes, Deleting
  <2>3. \A j \in Items : SameIndex(j) \/ j \in Deletes(s)
    <3>1. UNCHANGED <<indexStatus, points>>
      BY <1>4 DEF DeleteItem
    <3>2. \A j \in Items : j # i => row'[j] = row[j] /\ citations'[j] = citations[j]
      BY <2>1 DEF Typed, TypeOK
    <3> QED BY <2>2, <3>1, <3>2 DEF SameIndex
  <2>4. PICK a, b, c : /\ a = [r EXCEPT !.deletes = @ \ {i}, !.item = i]
                       /\ b = [r EXCEPT !.deletes = @ \ {i}]
                       /\ c = [r EXCEPT !.deletes = @ \ {i}, !.failed = @ \cup {"retry"}]
    OBVIOUS
  <2>5. /\ a.scope = r.scope /\ a.from = r.from /\ a.next = r.next /\ a.failed = r.failed
        /\ a.writes = r.writes /\ a.content = r.content /\ a.deletes = r.deletes \ {i} /\ a.item = i
    BY <1>1, <2>4 DEF Run
  <2>6. /\ b.scope = r.scope /\ b.from = r.from /\ b.next = r.next /\ b.failed = r.failed
        /\ b.writes = r.writes /\ b.content = r.content /\ b.deletes = r.deletes \ {i}
    BY <1>1, <2>4 DEF Run
  <2>7. /\ c.scope = r.scope /\ c.from = r.from /\ c.next = r.next /\ c.failed # {}
        /\ c.writes = r.writes /\ c.content = r.content /\ c.deletes = r.deletes \ {i}
    BY <1>1, <2>4 DEF Run
  <2>8. CASE Moves(s, "delete_points", a)
    <3>1. a.deletes \cup {a.item} \subseteq Deletes(s)
      BY <2>2, <2>5
    <3> QED BY <1>2, <2>2, <2>3, <2>5, <2>8, <3>1
  <2>9. CASE Moves(s, "deletes", b)
    BY <1>2, <2>2, <2>3, <2>6, <2>9
  <2>10. CASE Moves(s, "deletes", c)
    BY <1>2, <2>2, <2>3, <2>7, <2>10
  <2> QED BY <2>1, <2>4, <2>8, <2>9, <2>10
<1>5. CASE DeletePoints(s)
  <2>1. r.deletes \subseteq Deletes(s) /\ r.item \in Deletes(s) /\ "deletes" \in Deleting
    BY <1>5 DEF DeletePoints, Deletes, Deleting
  <2>2. \A j \in Items : SameIndex(j) \/ j \in Deletes(s)
    <3>1. UNCHANGED <<row, indexStatus, citations>>
          /\ (points' = points \/ points' = [points EXCEPT ![r.item] = {}])
      BY <1>5 DEF DeletePoints, items
    <3>2. \A j \in Items : j # r.item => points'[j] = points[j]
      BY <3>1 DEF Typed, TypeOK
    <3> QED BY <2>1, <3>1, <3>2 DEF SameIndex
  <2>3. PICK a, b : /\ a = [r EXCEPT !.item = None]
                    /\ b = [r EXCEPT !.item = None, !.failed = @ \cup {"retry"}]
    OBVIOUS
  <2>4. /\ a.scope = r.scope /\ a.from = r.from /\ a.next = r.next /\ a.failed = r.failed
        /\ a.writes = r.writes /\ a.content = r.content /\ a.deletes = r.deletes
    BY <1>1, <2>3 DEF Run
  <2>5. /\ b.scope = r.scope /\ b.from = r.from /\ b.next = r.next /\ b.failed # {}
        /\ b.writes = r.writes /\ b.content = r.content /\ b.deletes = r.deletes
    BY <1>1, <2>3 DEF Run
  <2>6. CASE Moves(s, "deletes", a)
    BY <1>2, <2>1, <2>2, <2>4, <2>6
  <2>7. CASE Moves(s, "deletes", b)
    BY <1>2, <2>1, <2>2, <2>5, <2>7
  <2> QED BY <1>5, <2>3, <2>6, <2>7, DeletePointsMoves
<1> QED BY <1>3, <1>4, <1>5

LEMMA WritingMirrors ==
    ASSUME Typed, Typed', Mirrors, OneAttempt, OneAttempt', NEW s \in Slots,
           LoadItem(s) \/ PersistItem(s)
    PROVE  Mirrors'
<1> PICK r : r = run[s]
  OBVIOUS
<1>1. /\ r \in Run /\ pc[s] = "items" /\ UNCHANGED <<provider, source, derived>>
      /\ r.deletes = {} /\ r.writes \subseteq Items
  BY DEF Typed, TypeOK, Shaped, Run, LoadItem, PersistItem
<1>2. /\ pc[s] \in Underway \ {"list"} /\ pc[s] \notin Deleting /\ pc[s] \notin Handling
      /\ "items" \in Underway \ {"list"} /\ "items" \notin Deleting /\ "items" \notin Handling
      /\ "processing" \in Underway \ {"list"} /\ "processing" \notin Deleting
      /\ "processing" \in Handling
  BY <1>1 DEF Underway, Deleting, Handling
<1>3. Deletes(s) = {} /\ Touched(s) = r.writes
  BY <1>1, <1>2 DEF Deletes, Touched
<1>a. ASSUME NEW step \in {"items", "processing"}, NEW q, Moves(s, step, q),
             q.scope = r.scope, q.from = r.from, q.next = r.next, q.failed = {} => r.failed = {},
             Touched(s)' \subseteq r.writes, Deletes(s)' = {},
             \A i \in Items : SameIndex(i) \/ (i \in r.writes /\ r.content[i] # 0),
             \A i \in Items : \/ q.content[i] = r.content[i]
                              \/ r.content[i] = 0 /\ q.content[i] = changed[i],
             q.failed = {} => \A i \in r.writes : i \in q.writes \/ q.content[i] # 0,
             q.failed = {} =>
               \A i \in Items : q.content[i] # 0 /\ i \notin q.writes =>
                  \/ step = "processing" /\ i = q.item
                  \/ SameIndex(i) /\ i \notin r.writes /\ q.content[i] = r.content[i],
             Progress(s)'
      PROVE  Mirrors'
  <2>1. step \in Underway \ {"list"} /\ step \notin Deleting /\ (step = "processing" => step \in Handling)
    BY <1>2, <1>a
  <2>2. Touched(s)' \subseteq Touched(s) /\ Deletes(s)' \subseteq Deletes(s)
    BY <1>3, <1>a
  <2>3. \A i \in Items : SameIndex(i) \/ i \in Deletes(s) \/ (i \in Touched(s) /\ r.content[i] # 0)
    BY <1>3, <1>a
  <2>4. q.failed = {} =>
             \A i \in Items : q.content[i] # 0 /\ i \notin q.writes =>
                \/ step \in Handling /\ i = q.item
                \/ Indexed(i, q.content[i])'
                \/ SameIndex(i) /\ i \notin r.writes /\ q.content[i] = r.content[i]
                     /\ (pc[s] \notin Handling \/ i # r.item)
    <3> HIDE DEF Indexed, SameIndex
    <3> QED BY <1>2, <1>a, <2>1
  <2>5. step \in Deleting => pc[s] \in Deleting /\ q.writes = r.writes /\ q.content = r.content
    BY <2>1
  <2> QED BY <1>1, <1>2, <1>a, <2>1, <2>2, <2>3, <2>4, <2>5, AttemptKept
<1>4. ASSUME NEW i \in r.writes, NEW kind \in Kinds, \A j \in Items : SameIndex(j),
             Moves(s, "items", [r EXCEPT !.writes = @ \ {i}, !.failed = @ \cup {kind}])
      PROVE  Mirrors'
  <2> PICK q : q = [r EXCEPT !.writes = @ \ {i}, !.failed = @ \cup {kind}]
    OBVIOUS
  <2>1. /\ q.scope = r.scope /\ q.from = r.from /\ q.next = r.next /\ q.failed # {}
        /\ q.writes = r.writes \ {i} /\ q.content = r.content /\ q.deletes = {}
    BY <1>1 DEF Run
  <2>2. pc'[s] = "items" /\ run'[s] = q
    BY <1>4 DEF Moves, Typed, TypeOK
  <2>3. Deletes(s)' = {} /\ Touched(s)' = r.writes \ {i}
    BY <1>2, <2>1, <2>2 DEF Deletes, Touched
  <2>4. Progress(s)'
    BY <2>2 DEF Progress
  <2> QED BY <1>a, <1>4, <2>1, <2>3, <2>4
<1>5. CASE LoadItem(s)
  <2>1. \A j \in Items : SameIndex(j)
    BY <1>1, <1>5 DEF LoadItem, items, derived, SameIndex
  <2>2. PICK i \in r.writes :
             /\ r.content[i] = 0
             /\ \/ \E content \in Download(i) : Moves(s, "items", [r EXCEPT !.content[i] = content])
                \/ \E kind \in Kinds : Moves(s, "items", [r EXCEPT !.writes = @ \ {i}, !.failed = @ \cup {kind}])
    BY <1>5, LoadItemMoves
  <2>3. ASSUME NEW content \in Download(i), Moves(s, "items", [r EXCEPT !.content[i] = content])
        PROVE  Mirrors'
    <3>0. PICK q : q = [r EXCEPT !.content[i] = content]
      OBVIOUS
    <3>1. /\ q.scope = r.scope /\ q.from = r.from /\ q.next = r.next /\ q.failed = r.failed
          /\ q.writes = r.writes /\ q.deletes = {}
      BY <1>1, <3>0 DEF Run
    <3>2. \A j \in Items : q.content[j] = IF j = i THEN changed[i] ELSE r.content[j]
      BY <1>1, <3>0 DEF Run, Download
    <3>m. Moves(s, "items", q)
      BY <2>3, <3>0
    <3>3. pc'[s] = "items" /\ run'[s] = q
      BY <3>m DEF Moves, Typed, TypeOK
    <3>4. Deletes(s)' = {} /\ Touched(s)' = r.writes
      BY <1>2, <3>1, <3>3 DEF Deletes, Touched
    <3>5. Progress(s)'
      BY <3>3 DEF Progress
    <3>6. \A j \in Items : q.content[j] # 0 /\ j \notin q.writes =>
             SameIndex(j) /\ j \notin r.writes /\ q.content[j] = r.content[j]
      BY <2>1, <3>1, <3>2
    <3>7. \A j \in Items : q.content[j] = r.content[j] \/ (r.content[j] = 0 /\ q.content[j] = changed[j])
      BY <2>2, <3>2
    <3> QED BY <1>a, <2>1, <3>1, <3>4, <3>5, <3>6, <3>7, <3>m
  <2> QED BY <1>4, <2>1, <2>2, <2>3
<1>6. CASE PersistItem(s)
  <2>1. PICK i \in r.writes :
             /\ r.content[i] # 0
             /\ \/ /\ row' = [row EXCEPT ![i] = "live"]
                   /\ indexStatus' = [indexStatus EXCEPT ![i] = "pending"]
                   /\ Moves(s, "processing", [r EXCEPT !.writes = @ \ {i}, !.item = i])
                \/ /\ UNCHANGED items
                   /\ \E kind \in Kinds : Moves(s, "items", [r EXCEPT !.writes = @ \ {i}, !.failed = @ \cup {kind}])
    BY <1>6, PersistItemMoves
  <2>2. ASSUME UNCHANGED items PROVE \A j \in Items : SameIndex(j)
    BY <1>1, <2>2 DEF items, derived, SameIndex
  <2>3. CASE /\ row' = [row EXCEPT ![i] = "live"]
             /\ indexStatus' = [indexStatus EXCEPT ![i] = "pending"]
             /\ Moves(s, "processing", [r EXCEPT !.writes = @ \ {i}, !.item = i])
    <3>0. PICK q : q = [r EXCEPT !.writes = @ \ {i}, !.item = i]
      OBVIOUS
    <3>1. /\ q.scope = r.scope /\ q.from = r.from /\ q.next = r.next /\ q.failed = r.failed
          /\ q.writes = r.writes \ {i} /\ q.deletes = {} /\ q.content = r.content /\ q.item = i
      BY <1>1, <3>0 DEF Run
    <3>m. Moves(s, "processing", q)
      BY <2>3, <3>0
    <3>2. \A j \in Items : j # i => SameIndex(j)
      BY <1>1, <2>3 DEF derived, SameIndex, Typed, TypeOK
    <3>3. pc'[s] = "processing" /\ run'[s] = q
      BY <3>m DEF Moves, Typed, TypeOK
    <3>4. Deletes(s)' = {} /\ Touched(s)' = r.writes
      BY <1>2, <3>1, <3>3 DEF Deletes, Touched
    <3>5. Progress(s)'
      <4>1. row'[i] = "live"
        BY <1>1, <2>3 DEF Typed, TypeOK
      <4> QED BY <3>1, <3>3, <4>1 DEF Progress
    <3>6. \A j \in Items : q.content[j] # 0 /\ j \notin q.writes =>
             j = q.item \/ (SameIndex(j) /\ j \notin r.writes /\ q.content[j] = r.content[j])
      BY <3>1, <3>2
    <3>7. \A j \in Items : SameIndex(j) \/ (j \in Touched(s) /\ r.content[j] # 0)
      BY <1>3, <2>1, <3>2
    <3>8. \A j \in r.writes : j \in q.writes \/ q.content[j] # 0
      BY <2>1, <3>1
    <3> QED BY <1>a, <1>3, <3>1, <3>4, <3>5, <3>6, <3>7, <3>8, <3>m
  <2> QED BY <1>4, <2>1, <2>2, <2>3
<1> QED BY <1>5, <1>6

LEMMA ProcessingMirrors ==
    ASSUME Typed, Typed', Mirrors, OneAttempt, OneAttempt', NEW s \in Slots,
           \/ MarkIndexProcessing(s) \/ ReplaceCitations(s) \/ Embed(s) \/ TombstonePoints(s)
           \/ UpsertPoints(s) \/ MarkIndexReady(s) \/ MarkIndexFailed(s)
    PROVE  Mirrors'
<1> PICK r : r = run[s]
  OBVIOUS
<1> PICK i : i = r.item
  OBVIOUS
<1> PICK content : content = r.content[i]
  OBVIOUS
<1>1. pc[s] \in Handling
  BY DEF MarkIndexProcessing, ReplaceCitations, Embed, TombstonePoints, UpsertPoints, MarkIndexReady,
         MarkIndexFailed, Handling
<1>2. /\ r \in Run /\ r.deletes = {}
      /\ i \in Items /\ content # 0 /\ i \notin r.writes
  BY <1>1 DEF Typed, TypeOK, Shaped
<1>3. UNCHANGED <<provider, source, row>>
  BY Zenon DEF MarkIndexProcessing, ReplaceCitations, Embed, TombstonePoints, UpsertPoints, MarkIndexReady,
         MarkIndexFailed, SetIndexStatus, items
<1>4. \A step \in Handling \cup {"items"} : step \in Underway \ {"list"} /\ step \notin Deleting
  BY DEF Underway, Deleting, Handling
<1>5. Deletes(s) = {} /\ Touched(s) = r.writes \cup {i}
  BY <1>1, <1>2 DEF Deletes, Touched, Handling
<1>6. ASSUME NEW step \in Handling \cup {"items"}, NEW q, Moves(s, step, q),
             q.scope = r.scope, q.from = r.from, q.next = r.next, q.failed = {} => r.failed = {},
             q.deletes = {}, q.writes = r.writes, q.content = r.content, step \in Handling => q.item = i,
             \A j \in Items : j # i => SameIndex(j),
             step = "items" => q.failed # {} \/ Indexed(i, content)',
             Progress(s)'
      PROVE  Mirrors'
  <2>1. pc'[s] = step /\ run'[s] = q
    BY <1>6 DEF Moves, Typed, TypeOK
  <2>2. Touched(s)' \subseteq Touched(s) /\ Deletes(s)' \subseteq Deletes(s)
    BY <1>5, <1>6, <2>1 DEF Deletes, Touched, Handling
  <2>3. \A j \in Items : SameIndex(j) \/ j \in Deletes(s) \/ (j \in Touched(s) /\ r.content[j] # 0)
    BY <1>2, <1>5, <1>6
  <2>4. q.failed = {} =>
             \A j \in Items : q.content[j] # 0 /\ j \notin q.writes =>
                \/ step \in Handling /\ j = q.item
                \/ Indexed(j, q.content[j])'
                \/ SameIndex(j) /\ j \notin r.writes /\ q.content[j] = r.content[j]
                     /\ (pc[s] \notin Handling \/ j # r.item)
    <3> SUFFICES ASSUME q.failed = {}, NEW j \in Items, j \notin q.writes
                 PROVE  \/ step \in Handling /\ j = q.item
                        \/ Indexed(j, q.content[j])'
                        \/ SameIndex(j) /\ j \notin r.writes /\ q.content[j] = r.content[j] /\ j # r.item
      OBVIOUS
    <3>1. CASE j # i
      BY <1>6, <3>1
    <3>2. CASE j = i /\ step \in Handling
      BY <1>6, <3>2
    <3>3. CASE j = i /\ step = "items"
      <4>1. Indexed(i, content)' /\ content = q.content[i]
        BY <1>6, <3>3
      <4>2. Indexed(i, q.content[i])'
        BY <4>1 DEF Indexed
      <4> QED BY <3>3, <4>2 DEF Indexed
    <3> QED BY <3>1, <3>2, <3>3
  <2>5. step \in Underway \ {"list"} /\ pc[s] \in Underway \ {"list"} /\ step \notin Deleting
    BY <1>1, <1>4
  <2> QED BY <1>3, <1>6, <2>2, <2>3, <2>4, <2>5, AttemptKept
<1>7. ASSUME NEW kind \in Kinds, Fails(s, kind), \A j \in Items : j # i => SameIndex(j)
      PROVE  Mirrors'
  <2>1. PICK q : q = [r EXCEPT !.failure = kind]
    OBVIOUS
  <2>2. /\ q.scope = r.scope /\ q.from = r.from /\ q.next = r.next /\ q.failed = r.failed
        /\ q.deletes = {} /\ q.writes = r.writes /\ q.content = r.content /\ q.item = i
    BY <1>2, <2>1 DEF Run
  <2>3. Moves(s, "index_failed", q)
    BY <1>7, <2>1, FailsMoves
  <2>4. Progress(s)'
    <3>1. pc'[s] = "index_failed"
      BY <2>3 DEF Moves, Typed, TypeOK
    <3> QED BY <3>1 DEF Progress
  <2>5. "index_failed" \in Handling
    BY DEF Handling
  <2> QED BY <1>6, <1>7, <2>2, <2>3, <2>4, <2>5
<1>8. ASSUME NEW step \in Handling, Goto(s, step), UNCHANGED run,
             \A j \in Items : j # i => SameIndex(j),
             LET c == citations'[i] IN
               /\ step \in {"processing", "citations", "embed", "tombstone", "upsert", "ready"} =>
                    row'[i] = "live"
               /\ step \in {"embed", "tombstone", "upsert", "ready"} => c = content
               /\ step = "upsert" => points'[i] = {}
               /\ step = "ready" => points'[i] = {content}
      PROVE  Mirrors'
  <2>1. Moves(s, step, r)
    BY <1>8, GoesTo
  <2>2. pc'[s] = step /\ run'[s] = r
    BY <2>1 DEF Moves, Typed, TypeOK
  <2>3. Progress(s)'
    BY <1>8, <2>2 DEF Progress
  <2>4. step # "items"
    BY <1>8 DEF Handling
  <2> QED BY <1>2, <1>6, <1>8, <2>1, <2>3, <2>4
<1>9. Progress(s)
  BY DEF Mirrors, Attempt
<1>k. "retry" \in Kinds /\ "final" \in Kinds
  BY DEF Kinds
<1>10. CASE MarkIndexProcessing(s)
  <2>1. \A j \in Items : j # i => SameIndex(j)
    BY <1>10 DEF MarkIndexProcessing, SetIndexStatus, items, derived, SameIndex, Typed, TypeOK
  <2>2. row'[i] = "live"
    BY <1>3, <1>9, <1>10 DEF MarkIndexProcessing, Progress
  <2>3. CASE Goto(s, "citations") /\ UNCHANGED run
    BY <1>8, <2>1, <2>2, <2>3 DEF Handling
  <2> QED BY <1>7, <1>k, <1>10, <2>1, <2>3 DEF MarkIndexProcessing
<1>11. CASE ReplaceCitations(s)
  <2>1. \A j \in Items : j # i => SameIndex(j)
    BY <1>11 DEF ReplaceCitations, items, SameIndex, Typed, TypeOK
  <2>2. row'[i] = "live"
    BY <1>3, <1>9, <1>11 DEF ReplaceCitations, Progress
  <2>3. CASE citations' = [citations EXCEPT ![i] = content] /\ Goto(s, "embed") /\ UNCHANGED run
    <3>1. citations'[i] = content
      BY <1>2, <2>3 DEF Typed, TypeOK
    <3> QED BY <1>8, <2>1, <2>2, <2>3, <3>1 DEF Handling
  <2> QED BY <1>7, <1>k, <1>11, <2>1, <2>3 DEF ReplaceCitations
<1>12. CASE Embed(s)
  <2>1. \A j \in Items : SameIndex(j)
    BY <1>12 DEF Embed, items, derived, SameIndex
  <2>2. row'[i] = "live" /\ citations'[i] = content
    BY <1>2, <1>9, <1>12, <2>1 DEF Embed, Progress, SameIndex
  <2>3. CASE Goto(s, "tombstone") /\ UNCHANGED run
    BY <1>8, <2>1, <2>2, <2>3 DEF Handling
  <2> QED BY <1>7, <1>12, <2>1, <2>3 DEF Embed
<1>13. CASE TombstonePoints(s)
  <2>1. \A j \in Items : j # i => SameIndex(j)
    BY <1>13 DEF TombstonePoints, items, SameIndex, Typed, TypeOK
  <2>2. row'[i] = "live" /\ citations'[i] = content
    BY <1>3, <1>9, <1>13 DEF TombstonePoints, Progress
  <2>3. CASE points' = [points EXCEPT ![i] = {}] /\ Goto(s, "upsert") /\ UNCHANGED run
    <3>1. points'[i] = {}
      BY <1>2, <2>3 DEF Typed, TypeOK
    <3> QED BY <1>8, <2>1, <2>2, <2>3, <3>1 DEF Handling
  <2> QED BY <1>7, <1>k, <1>13, <2>1, <2>3 DEF TombstonePoints
<1>14. CASE UpsertPoints(s)
  <2>1. \A j \in Items : j # i => SameIndex(j)
    BY <1>14 DEF UpsertPoints, items, SameIndex, Typed, TypeOK
  <2>2. row'[i] = "live" /\ citations'[i] = content /\ points[i] = {}
    BY <1>3, <1>9, <1>14 DEF UpsertPoints, Progress
  <2>3. CASE points' = [points EXCEPT ![i] = @ \cup {content}] /\ Goto(s, "ready") /\ UNCHANGED run
    <3>1. points'[i] = {content}
      BY <1>2, <2>2, <2>3 DEF Typed, TypeOK
    <3> QED BY <1>8, <2>1, <2>2, <2>3, <3>1 DEF Handling
  <2> QED BY <1>7, <1>k, <1>14, <2>1, <2>3 DEF UpsertPoints
<1>15. CASE MarkIndexReady(s)
  <2>1. \A j \in Items : j # i => SameIndex(j)
    BY <1>15 DEF MarkIndexReady, SetIndexStatus, items, derived, SameIndex, Typed, TypeOK
  <2>2. CASE SetIndexStatus(i, "ready") /\ Goto(s, "items") /\ run' = [run EXCEPT ![s].item = None]
    <3>1. PICK q : q = [r EXCEPT !.item = None]
      OBVIOUS
    <3>2. /\ q.scope = r.scope /\ q.from = r.from /\ q.next = r.next /\ q.failed = r.failed
          /\ q.deletes = {} /\ q.writes = r.writes /\ q.content = r.content
      BY <1>2, <3>1 DEF Run
    <3>3. Moves(s, "items", q)
      BY <2>2, <3>1 DEF Moves, Goto
    <3>4. Progress(s)'
      <4>1. pc'[s] = "items"
        BY <3>3 DEF Moves, Typed, TypeOK
      <4> QED BY <4>1 DEF Progress
    <3>5. Indexed(i, content)'
      <4>1. /\ row[i] = "live" /\ citations[i] = content /\ points[i] = {content}
        BY <1>9, <1>15 DEF MarkIndexReady, Progress
      <4>2. indexStatus'[i] = "ready" /\ UNCHANGED derived
        BY <1>2, <1>15, <2>2 DEF MarkIndexReady, SetIndexStatus, Typed, TypeOK
      <4> QED BY <1>3, <4>1, <4>2 DEF Indexed, derived
    <3>6. "items" \notin Handling
      BY DEF Handling
    <3> QED BY <1>6, <2>1, <3>2, <3>3, <3>4, <3>5, <3>6
  <2> QED BY <1>7, <1>k, <1>15, <2>1, <2>2 DEF MarkIndexReady
<1>16. CASE MarkIndexFailed(s)
  <2>1. \A j \in Items : j # i => SameIndex(j)
    BY <1>16 DEF MarkIndexFailed, SetIndexStatus, items, derived, SameIndex, Typed, TypeOK
  <2>2. PICK kind \in Kinds : NextItem(s, kind)
    BY <1>2, <1>k, <1>16 DEF MarkIndexFailed, Run
  <2>3. PICK q : q = [r EXCEPT !.failed = @ \cup {kind}, !.item = None, !.failure = "retry"]
    OBVIOUS
  <2>4. /\ q.scope = r.scope /\ q.from = r.from /\ q.next = r.next /\ q.failed # {}
        /\ q.deletes = {} /\ q.writes = r.writes /\ q.content = r.content
    BY <1>2, <2>3 DEF Run
  <2>5. Moves(s, "items", q)
    BY <2>2, <2>3, NextItemMoves
  <2>6. Progress(s)'
    <3>1. pc'[s] = "items"
      BY <2>5 DEF Moves, Typed, TypeOK
    <3> QED BY <3>1 DEF Progress
  <2>7. "items" \notin Handling
    BY DEF Handling
  <2> QED BY <1>6, <2>1, <2>4, <2>5, <2>6, <2>7
<1> QED BY <1>10, <1>11, <1>12, <1>13, <1>14, <1>15, <1>16

LEMMA DiscoveringMirrors ==
    ASSUME Typed, Typed', Mirrors, OneAttempt, OneAttempt', NEW s \in Slots,
           LoadSource(s) \/ Discover(s) \/ ListScope(s) \/ Crawl(s)
    PROVE  Mirrors'
<1> PICK r : r = run[s]
  OBVIOUS
<1>1. /\ UNCHANGED <<provider, source, items, derived, temporal>>
      /\ pc[s] \in {"source", "discover", "list"}
  BY DEF LoadSource, Discover, ListScope, Crawl
<1>2. /\ r \in Run /\ Attempt(s)
      /\ pc[s] = "source" => r = Blank
      /\ pc[s] \in {"discover", "list"} =>
            /\ r.scope \in SUBSET Items /\ r.writes = {} /\ r.deletes = {}
            /\ \A i \in Items : r.content[i] = 0
  <2>1. /\ r \in Run /\ Attempt(s)
        /\ pc[s] = "source" => r = Blank
        /\ pc[s] \in {"discover"} \cup Underway => r.scope \in AllScopes
        /\ pc[s] \in {"discover", "list"} =>
              r.writes = {} /\ r.deletes = {} /\ r.content = Blank.content
    BY DEF Mirrors, Typed, TypeOK, Shaped
  <2>2. \A i \in Items : Blank.content[i] = 0
    BY DEF Blank
  <2> QED BY <2>1, <2>2, Facts DEF Underway
<1>3. /\ HasFeed' = HasFeed /\ Usable' = Usable
      /\ UNCHANGED <<clock, changed, present, oldest, connector, config, checkpoint>>
      /\ \A i, content : Indexed(i, content)' <=> Indexed(i, content)
  BY <1>1 DEF provider, source, items, derived, HasFeed, Usable, Indexed
<1>4. Covers'
  BY <1>3 DEF Mirrors, Covers, Covered, Stands, Indexed
<1>5. SUFFICES Attempt(s)'
  <2>1. \E step, q : Moves(s, step, q)
    BY LoadSourceMoves, DiscoverMoves, ListScopeMoves, CrawlMoves
  <2>2. pc[s] # "idle"
    BY <1>1
  <2> QED BY <1>4, <2>1, <2>2, OthersIdle DEF Mirrors
<1>6. ASSUME NEW kind, Moves(s, "report", [r EXCEPT !.failed = @ \cup {kind}]) PROVE Attempt(s)'
  <2>1. pc'[s] = "report"
    BY <1>6 DEF Moves, Typed, TypeOK
  <2> QED BY <2>1, NothingOwed
<1>7. CASE LoadSource(s)
  <2>1. PICK q : q = [r EXCEPT !.scope = config, !.from = checkpoint]
    OBVIOUS
  <2>2. q.scope = config /\ q.from = checkpoint
    BY <1>2, <2>1 DEF Run
  <2>3. ASSUME Moves(s, "discover", q) PROVE Attempt(s)'
    <3>1. pc'[s] = "discover" /\ run'[s] = q
      BY <2>3 DEF Moves, Typed, TypeOK
    <3>2. Ahead(s)'
      BY <1>3, <2>2, <3>1 DEF Ahead, Underway, Deleting, Handling
    <3>3. FromCovered(s)'
      <4>1. ASSUME HasFeed, ~NeedsListing(q) PROVE Covered(config, checkpoint.at)
        <5>1. Usable
          BY <2>2, <4>1, Facts DEF NeedsListing, Usable
        <5> QED BY <4>1, <5>1 DEF Mirrors, Covers
      <4> QED BY <1>3, <2>2, <3>1, <4>1 DEF FromCovered, Covered, Stands, NeedsListing, Indexed
    <3>4. DeletesGone(s)' /\ Found(s)' /\ Fresh(s)' /\ Written(s)' /\ Progress(s)'
      BY <3>1 DEF DeletesGone, Found, Fresh, Written, Progress, Underway, Deleting, Handling
    <3> QED BY <3>2, <3>3, <3>4 DEF Attempt
  <2> QED BY <1>6, <1>7, <2>1, <2>3, LoadSourceMoves
<1>8. CASE Discover(s)
  <2>0. pc[s] = "discover"
    BY <1>8 DEF Discover
  <2>1. PICK next : next = [at |-> clock, scope |-> r.scope]
    OBVIOUS
  <2>2. PICK seen : seen = Since(r.from.at)
    OBVIOUS
  <2>3. PICK there : there = {i \in seen \cap r.scope : present[i]}
    OBVIOUS
  <2>4. PICK q, u : q = Known(r, next, there, seen \ there) /\ u = [r EXCEPT !.next = next]
    OBVIOUS
  <2>5. /\ q.scope = r.scope /\ q.from = r.from /\ q.next = next /\ q.writes = there
        /\ q.deletes = seen \ there /\ q.content = r.content
    BY <1>2, <2>4 DEF Known, Run
  <2>6. /\ u.scope = r.scope /\ u.from = r.from /\ u.next = next /\ u.writes = {}
        /\ u.deletes = {} /\ u.content = r.content
    BY <1>2, <2>0, <2>4 DEF Run
  <2>7. /\ seen = {i \in Items : changed[i] > r.from.at} /\ r.from.at \in Nat
        /\ next.at = clock /\ next.scope = r.scope
    BY <2>1, <2>2, Facts DEF Since
  <2>8. ASSUME HasFeed, ~NeedsListing(r), Moves(s, "hierarchy", q) PROVE Attempt(s)'
    <3>1. pc'[s] = "hierarchy" /\ run'[s] = q
      BY <2>8 DEF Moves, Typed, TypeOK
    <3>2. "hierarchy" \in Underway /\ "hierarchy" \in Deleting /\ "hierarchy" \notin Handling
      BY DEF Underway, Deleting, Handling
    <3>3. Deletes(s)' = seen \ there /\ Touched(s)' = seen
      BY <2>3, <2>5, <3>1, <3>2 DEF Deletes, Touched
    <3>4. Ahead(s)'
      <4>1. Usable => checkpoint = r.from /\ config = r.scope
        BY <1>2, <2>0, <2>8 DEF Attempt, Ahead
      <4>2. Usable => \A i \in seen : changed[i] > checkpoint.at
        BY <2>7, <4>1
      <4> QED BY <1>3, <2>5, <3>1, <3>3, <4>1, <4>2 DEF Ahead
    <3>5. DeletesGone(s)'
      BY <1>3, <2>3, <2>5, <3>1, <3>3 DEF DeletesGone, Stands
    <3>6. Found(s)'
      <4>1. ASSUME NEW i \in r.scope, Stands(i, clock) PROVE i \in there \/ Indexed(i, changed[i])
        <5>1. CASE changed[i] > r.from.at
          BY <1>2, <2>0, <2>3, <2>7, <4>1, <5>1 DEF Stands
        <5>2. CASE ~(changed[i] > r.from.at)
          <6>1. Stands(i, r.from.at)
            BY <1>2, <2>0, <2>7, <4>1, <5>2, Facts DEF Stands
          <6> QED BY <1>2, <2>0, <2>8, <6>1 DEF Attempt, FromCovered, Covered
        <5> QED BY <5>1, <5>2
      <4> QED BY <1>3, <2>5, <2>7, <3>1, <4>1 DEF Found, Stands
    <3>7. FromCovered(s)' /\ Fresh(s)' /\ Written(s)' /\ Progress(s)'
      BY <1>2, <2>0, <2>5, <3>1, <3>2 DEF FromCovered, Fresh, Written, Progress
    <3> QED BY <3>4, <3>5, <3>6, <3>7 DEF Attempt
  <2>9. ASSUME ~(HasFeed /\ ~NeedsListing(r)), Moves(s, "list", u) PROVE Attempt(s)'
    <3>1. pc'[s] = "list" /\ run'[s] = u
      BY <2>9 DEF Moves, Typed, TypeOK
    <3>2. "list" \in Underway /\ "list" \notin Deleting /\ "list" \notin Handling
      BY DEF Underway, Deleting, Handling
    <3>3. ~(HasFeed /\ Usable)
      <4>1. HasFeed /\ Usable => checkpoint = r.from /\ config = r.scope
        BY <1>2, <2>0 DEF Attempt, Ahead
      <4> QED BY <2>9, <4>1, Facts DEF NeedsListing, Usable
    <3>4. Ahead(s)'
      BY <1>3, <3>3 DEF Ahead
    <3>5. DeletesGone(s)'
      BY <2>6, <3>1 DEF DeletesGone, Deletes
    <3>6. FromCovered(s)' /\ Found(s)' /\ Fresh(s)' /\ Written(s)' /\ Progress(s)'
      BY <1>2, <2>0, <2>6, <2>7, <3>1, <3>2 DEF FromCovered, Found, Fresh, Written, Progress
    <3> QED BY <3>4, <3>5, <3>6 DEF Attempt
  <2> QED BY <1>6, <1>8, <2>1, <2>2, <2>3, <2>4, <2>8, <2>9, DiscoverMoves
<1>9. CASE ListScope(s)
  <2>0. pc[s] = "list"
    BY <1>9 DEF ListScope
  <2>1. PICK q : q = [r EXCEPT !.writes = {i \in r.scope : present[i]}]
    OBVIOUS
  <2>2. /\ q.scope = r.scope /\ q.from = r.from /\ q.next = r.next /\ q.deletes = {}
        /\ q.writes = {i \in r.scope : present[i]} /\ q.content = r.content
    BY <1>2, <2>0, <2>1 DEF Run
  <2>3. ASSUME Moves(s, "hierarchy", q) PROVE Attempt(s)'
    <3>1. pc'[s] = "hierarchy" /\ run'[s] = q
      BY <2>3 DEF Moves, Typed, TypeOK
    <3>2. "hierarchy" \in Underway /\ "hierarchy" \in Deleting /\ "hierarchy" \notin Handling
      BY DEF Underway, Deleting, Handling
    <3>3. Ahead(s)'
      BY <1>2, <1>3, <2>0 DEF Attempt, Ahead
    <3>4. DeletesGone(s)'
      BY <2>2, <3>1 DEF DeletesGone, Deletes
    <3>5. Found(s)'
      <4>1. q.next.scope = q.scope
        BY <1>2, <2>0, <2>2 DEF Attempt, Found, Underway
      <4> QED BY <1>3, <2>2, <3>1, <4>1 DEF Found, Stands
    <3>6. FromCovered(s)' /\ Fresh(s)' /\ Written(s)' /\ Progress(s)'
      BY <1>2, <2>0, <2>2, <3>1, <3>2 DEF FromCovered, Fresh, Written, Progress
    <3> QED BY <3>3, <3>4, <3>5, <3>6 DEF Attempt
  <2> QED BY <1>6, <1>9, <2>1, <2>3, ListScopeMoves
<1>10. CASE Crawl(s)
  <2>0. pc[s] = "list" /\ ~HasFeed
    BY <1>10 DEF Crawl
  <2>1. ASSUME NEW found \in SUBSET Items, NEW q, Moves(s, "hierarchy", q), q = Read(r, found)
        PROVE  Attempt(s)'
    <3>1. /\ q.scope = r.scope /\ q.from = r.from /\ q.next = r.next /\ q.deletes = {}
          /\ q.writes = found
      BY <1>2, <2>0, <2>1 DEF Run, Read
    <3>2. \A i \in Items : q.content[i] = IF i \in found THEN changed[i] ELSE 0
      BY <1>2, <2>1 DEF Run, Read
    <3>3. pc'[s] = "hierarchy" /\ run'[s] = q
      BY <2>1 DEF Moves, Typed, TypeOK
    <3>4. "hierarchy" \in Underway /\ "hierarchy" \in Deleting /\ "hierarchy" \notin Handling
      BY DEF Underway, Deleting, Handling
    <3>5. Ahead(s)' /\ FromCovered(s)'
      BY <1>3, <2>0 DEF Ahead, FromCovered
    <3>6. DeletesGone(s)'
      BY <3>1, <3>3 DEF DeletesGone, Deletes
    <3>7. Found(s)'
      <4>1. q.next.scope = q.scope
        BY <1>2, <2>0, <3>1 DEF Attempt, Found, Underway
      <4> QED BY <1>3, <2>0, <3>3, <4>1 DEF Found
    <3>8. Fresh(s)' /\ Written(s)' /\ Progress(s)'
      BY <1>3, <3>1, <3>2, <3>3, <3>4 DEF Fresh, Written, Progress
    <3> QED BY <3>5, <3>6, <3>7, <3>8 DEF Attempt
  <2> QED BY <1>6, <1>10, <2>1, CrawlMoves
<1> QED BY <1>1, <1>7, <1>8, <1>9, <1>10

(* What a run that completes without a failure has read is indexed.        *)
LEMMA ReadIsIndexed ==
    ASSUME Mirrors, NEW s \in Slots, pc[s] = "items", run[s].writes = {}, run[s].failed = {},
           NEW i \in Items, run[s].content[i] # 0
    PROVE  Indexed(i, run[s].content[i])
<1>1. pc[s] \in Underway /\ pc[s] \notin Handling
  BY DEF Underway, Handling
<1> QED BY <1>1 DEF Mirrors, Attempt, Written

(* An attempt that starts or ends.  Its own work being done, the next      *)
(* checkpoint covers what this run found, read, or met as already indexed. *)
LEMMA EndingMirrors ==
    ASSUME Typed, Typed', Mirrors, OneAttempt, OneAttempt', NEW s \in Slots,
           StartAttempt(s) \/ Complete(s) \/ Report(s) \/ Crash(s)
    PROVE  Mirrors'
<1> PICK r : r = run[s]
  OBVIOUS
<1>1. /\ UNCHANGED <<provider, items, derived, connector, config, enabled>>
      /\ UNCHANGED checkpoint \/ (Complete(s) /\ r.failed = {} /\ checkpoint' = r.next)
  BY DEF StartAttempt, Complete, Report, Crash, source
<1>2. HasFeed' = HasFeed /\ \A i, content : Indexed(i, content)' <=> Indexed(i, content)
  BY <1>1 DEF items, derived, HasFeed, Indexed
<1>3. ASSUME NEW i \in Items, Complete(s), r.failed = {}, HasFeed, i \in r.scope,
             Stands(i, r.next.at)
      PROVE  Indexed(i, changed[i])
  <2>1. pc[s] = "items" /\ r.writes = {}
    BY <1>3 DEF Complete
  <2>2. pc[s] \in Underway \ {"list"}
    BY <2>1 DEF Underway
  <2>3. Found(s) /\ Fresh(s)
    BY DEF Mirrors, Attempt
  <2>4. CASE r.content[i] # 0
    <3>1. r.content[i] = changed[i]
      BY <1>3, <2>2, <2>3, <2>4 DEF Fresh, Stands
    <3>2. Indexed(i, r.content[i])
      BY <1>3, <2>1, <2>4, ReadIsIndexed
    <3> QED BY <3>1, <3>2
  <2>5. CASE r.content[i] = 0
    BY <1>3, <2>1, <2>2, <2>3, <2>5 DEF Found
  <2> QED BY <2>4, <2>5
<1>4. Covers'
  <2>1. CASE UNCHANGED checkpoint
    <3>1. Usable' = Usable
      BY <1>1, <1>2, <2>1 DEF Usable, provider
    <3> QED BY <1>1, <1>2, <2>1, <3>1 DEF Mirrors, Covers, Covered, Stands, Indexed, provider
  <2>2. CASE Complete(s) /\ r.failed = {} /\ checkpoint' = r.next
    <3>1. UNCHANGED <<changed, present, config>> /\ config \in SUBSET Items
      BY <1>1, Facts DEF provider
    <3>2. r.next.scope = r.scope
      <4>1. pc[s] \in Underway
        BY <2>2 DEF Complete, Underway
      <4> QED BY <4>1 DEF Mirrors, Attempt, Found
    <3> SUFFICES ASSUME HasFeed, Usable', NEW i \in config, Stands(i, r.next.at)
                 PROVE  Indexed(i, changed[i])'
      BY <1>2, <2>2, <3>1 DEF Covers, Covered, Stands
    <3>3. r.scope = config
      BY <1>2, <2>2, <3>1, <3>2 DEF Usable
    <3>4. Indexed(i, changed[i])
      BY <1>3, <2>2, <3>1, <3>3
    <3> QED BY <1>2, <3>1, <3>4 DEF Indexed
  <2> QED BY <1>1, <2>1, <2>2
<1>5. PICK step, q : /\ Moves(s, step, q) /\ step \in {"idle", "source", "report"}
                     /\ pc[s] # "idle" \/ step # "idle"
  <2>1. CASE Report(s) \/ Crash(s)
    <3>1. Moves(s, "idle", Blank) /\ pc[s] # "idle"
      BY <2>1, LeaveMoves DEF Report, Crash
    <3> QED BY <3>1
  <2>2. CASE StartAttempt(s)
    <3>1. Moves(s, "source", r)
      BY <2>2, GoesTo DEF StartAttempt
    <3> QED BY <3>1
  <2>3. CASE Complete(s) /\ UNCHANGED run
    <3>1. Moves(s, "report", r)
      BY <2>3, GoesTo DEF Complete
    <3> QED BY <3>1
  <2>4. ASSUME Complete(s), NEW kind \in Kinds, run' = [run EXCEPT ![s].failed = {kind}]
        PROVE  Moves(s, "report", [r EXCEPT !.failed = {kind}])
    BY <2>4 DEF Complete, Moves, Goto
  <2>5. Complete(s) => UNCHANGED run \/ \E kind \in Kinds : run' = [run EXCEPT ![s].failed = {kind}]
    BY DEF Complete
  <2>6. ASSUME Complete(s), NEW kind \in Kinds, run' = [run EXCEPT ![s].failed = {kind}]
        PROVE  \E q : Moves(s, "report", q)
    BY <2>4, <2>6
  <2> QED BY <2>1, <2>2, <2>3, <2>5, <2>6
<1>6. Attempt(s)'
  <2>1. pc'[s] = step
    BY <1>5 DEF Moves, Typed, TypeOK
  <2> QED BY <1>5, <2>1, NothingOwed
<1> QED BY <1>4, <1>5, <1>6, OthersIdle DEF Mirrors

LEMMA MirrorsInit == Init => Mirrors
<1> SUFFICES ASSUME Init PROVE Mirrors
  OBVIOUS
<1>1. Typed
  BY TypedInit
<1>2. Covers
  <2>1. checkpoint.scope = None
    BY DEF Init, NoCheckpoint
  <2> QED BY <1>1, <2>1, Facts DEF Covers, Usable
<1>3. ASSUME NEW s \in Slots PROVE Attempt(s)
  <2>1. pc[s] = "idle"
    BY DEF Init
  <2> QED BY <2>1 DEF Attempt, Ahead, FromCovered, DeletesGone, Found, Fresh, Written, Progress,
                      Underway, Deleting, Handling
<1> QED BY <1>2, <1>3 DEF Mirrors

LEMMA MirrorsNext == Typed /\ Mirrors /\ OneAttempt /\ OneAttempt' /\ [Next]_vars => Mirrors'
<1> SUFFICES ASSUME Typed, Mirrors, OneAttempt, OneAttempt', [Next]_vars PROVE Mirrors'
  OBVIOUS
<1>1. Typed'
  BY TypedNext
<1>2. CASE (\E i \in Items : Change(i) \/ Remove(i)) \/ ExpireTokens
  BY <1>2, MirrorsProvider
<1>3. CASE Operate \/ StartIngestion \/ ActivityTimeout \/ UNCHANGED vars
  BY <1>1, <1>3, MirrorsOperate
<1>4. ASSUME NEW s \in Slots, StartAttempt(s) \/ Step(s) \/ Crash(s) PROVE Mirrors'
  <2>1. \/ LoadSource(s) \/ Discover(s) \/ ListScope(s) \/ Crawl(s)
        \/ Hierarchy(s) \/ DeleteItem(s) \/ DeletePoints(s) \/ DeletesDone(s)
        \/ LoadItem(s) \/ PersistItem(s)
        \/ MarkIndexProcessing(s) \/ ReplaceCitations(s) \/ Embed(s) \/ TombstonePoints(s)
        \/ UpsertPoints(s) \/ MarkIndexReady(s) \/ MarkIndexFailed(s)
        \/ StartAttempt(s) \/ Complete(s) \/ Report(s) \/ Crash(s)
    BY <1>4 DEF Step
  <2> QED BY <1>1, <2>1, DiscoveringMirrors, DeletingMirrors, WritingMirrors, ProcessingMirrors,
             EndingMirrors
<1> QED BY <1>2, <1>3, <1>4 DEF Next

(* For any connector, any scopes and any number of documents, changes,     *)
(* attempts and slots: as long as the attempts of the source follow one    *)
(* another, a document of the scope that the next run will not look at is  *)
(* searchable with its current content and only that, and citable.  Runs   *)
(* that fail, crash or are repeated, page tokens that expire and operators *)
(* who change the scope under a run do not break this.                     *)
THEOREM CheckpointStaysCovered == Spec /\ []OneAttempt => []CheckpointCoversUpdates
<1>1. Typed /\ Mirrors => CheckpointCoversUpdates
  <2> SUFFICES ASSUME Typed, Mirrors, NEW i \in config, HasFeed, present[i], Behind(i)
               PROVE  /\ row[i] = "live" /\ indexStatus[i] = "ready"
                      /\ points[i] = {changed[i]} /\ citations[i] = changed[i]
    BY DEF CheckpointCoversUpdates
  <2>1. Stands(i, checkpoint.at) /\ Usable
    BY DEF Behind, Stands
  <2> QED BY <2>1 DEF Mirrors, Covers, Covered, Indexed
<1>2. Spec => []Typed
  BY TypedInit, TypedNext, PTL DEF Spec
<1>3. Spec /\ []OneAttempt => []Mirrors
  BY <1>2, MirrorsInit, MirrorsNext, PTL DEF Spec
<1> QED BY <1>1, <1>2, <1>3, PTL

(* Likewise: when the checkpoint moves past what a run has listed, all the *)
(* run has read is searchable with the content it read.  Of a crawl this   *)
(* holds as well.                                                          *)
THEOREM ListedStaysIndexed == Spec /\ []OneAttempt => ListedIsIndexed
<1> DEFINE Passed ==
      checkpoint' \notin {checkpoint, NoCheckpoint} =>
        \E s \in Slots :
            /\ checkpoint' = run[s].next
            /\ \A i \in Items : run[s].content[i] # 0 =>
                 /\ row[i] = "live" /\ indexStatus[i] = "ready"
                 /\ points[i] = {run[s].content[i]}
<1>1. Mirrors /\ [Next]_vars => Passed
  <2> SUFFICES ASSUME Mirrors, [Next]_vars, checkpoint' \notin {checkpoint, NoCheckpoint}
               PROVE  Passed
    OBVIOUS
  <2>1. PICK s \in Slots : Complete(s) /\ run[s].failed = {} /\ checkpoint' = run[s].next
    <3>1. CASE \E s \in Slots : Complete(s)
      BY <3>1 DEF Complete
    <3>2. CASE Operate
      BY <3>2 DEF Operate, UpdateConfig, UpdateStatus, DeleteSource, CancelIngestion, source
    <3>3. CASE UNCHANGED source
      BY <3>3 DEF source
    <3>4. ASSUME NEW s \in Slots, StartAttempt(s) \/ Step(s) \/ Crash(s)
          PROVE  Complete(s) \/ UNCHANGED source
      BY <3>4, Zenon
         DEF Step, StartAttempt, Crash, LoadSource, Discover, ListScope, Crawl, Hierarchy, DeleteItem,
             DeletePoints, DeletesDone, LoadItem, PersistItem, MarkIndexProcessing, ReplaceCitations,
             Embed, TombstonePoints, UpsertPoints, MarkIndexReady, MarkIndexFailed, Report
    <3>5. ASSUME NEW i \in Items, Change(i) \/ Remove(i) PROVE UNCHANGED source
      BY <3>5 DEF Change, Remove
    <3>6. (ExpireTokens \/ StartIngestion \/ ActivityTimeout => UNCHANGED source)
          /\ (UNCHANGED vars => UNCHANGED source)
      BY DEF ExpireTokens, StartIngestion, ActivityTimeout, vars
    <3> QED BY <3>1, <3>2, <3>3, <3>4, <3>5, <3>6 DEF Next
  <2>2. pc[s] = "items" /\ run[s].writes = {}
    BY <2>1 DEF Complete
  <2> QED BY <2>1, <2>2, ReadIsIndexed DEF Indexed
<1>2. Spec => []Typed
  BY TypedInit, TypedNext, PTL DEF Spec
<1>3. Spec /\ []OneAttempt => []Mirrors
  BY <1>2, MirrorsInit, MirrorsNext, PTL DEF Spec
<1>4. Spec /\ []OneAttempt => [][Passed]_vars
  BY <1>1, <1>3, PTL DEF Spec
<1> QED BY <1>4 DEF ListedIsIndexed
=============================================================================
