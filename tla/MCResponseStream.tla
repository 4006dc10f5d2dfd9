-------------------------- MODULE MCResponseStream --------------------------
(* The response stream for TLC: replies that cite, invent, repeat and come   *)
(* close to citing, in responses of up to three items.                       *)
EXTENDS ResponseStream

MCReplies ==
    {<<"word", "k1", "word">>, <<"k2", "k1", "k2">>, <<"invented", "word", "k1">>,
     <<"open", "k1", "close">>, <<"cell", "k1", "close">>, <<"close", "cell", "open">>,
     <<"k1", "edge">>, <<"stray", "k1">>, <<"torn", "k1">>}

MCNumerals == <<"1", "2">>

MCShapes ==
    {<<"message">>, <<"message", "call">>, <<"reasoning", "call", "message">>}
=============================================================================
