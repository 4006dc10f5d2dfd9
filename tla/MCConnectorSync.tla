---------------------------- MODULE MCConnectorSync ----------------------------
(***************************************************************************)
(* The instances of ConnectorSync that TLC checks.                         *)
(***************************************************************************)
EXTENDS ConnectorSync, TLC

CONSTANTS i1, i2

Apart == [i \in Items |-> i]

\* A feed of one document, and a crawl of a page with an attachment.
Feed == [feed |-> TRUE, scopes |-> {{}, {i1}}, pageOf |-> Apart]
Crawling == [feed |-> FALSE, scopes |-> {{i1, i2}}, pageOf |-> [i \in Items |-> i1]]
FeedAndCrawl == {Feed, Crawling}

(* For CheckpointIsOfScope, which does not hold: a crawl whose scope grows. *)
RescopedCrawl == {[feed |-> FALSE, scopes |-> {{i1}, {i1, i2}}, pageOf |-> Apart]}

FixedFeed == {[feed |-> TRUE, scopes |-> {{i1}}, pageOf |-> Apart]}

=============================================================================
