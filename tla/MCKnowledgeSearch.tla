--------------------------- MODULE MCKnowledgeSearch ---------------------------
(***************************************************************************)
(* The instance of KnowledgeSearch that TLC checks.                        *)
(***************************************************************************)
EXTENDS KnowledgeSearch, TLC

CONSTANTS d1, c1

Part(element, path, size) == [element |-> element, path |-> path, size |-> size]
Page(parts) == [strategy |-> "hybrid", parts |-> parts, document |-> <<>>]
File(strategy, document) == [strategy |-> strategy, parts |-> <<>>, document |-> document]

\* A section and the end of the one around it; a part that is split; a file
\* with two short items under one heading.
Sections == Page(<<Part("e1", <<"A", "B">>, 1), Part("e2", <<"A">>, 1)>>)
Long == Page(<<Part("e1", <<>>, 3)>>)
Short == File("hybrid", <<Heading(1, "A"), Body("e1", 1), Body("e2", 1)>>)
Lines == File("line", <<Body("e1", 2), Body("e2", 1)>>)
AllContents == {Sections, Long, Short, Lines}

Home == d1 :> c1
OneOrTwoCalls == {<<1>>, <<2>>, <<1, 1>>}

=============================================================================
