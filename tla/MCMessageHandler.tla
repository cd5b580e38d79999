-------------------------- MODULE MCMessageHandler --------------------------
(* An instance of MessageHandler for TLC. *)
EXTENDS MessageHandler

Block(sig, tok, ttl) == [sig |-> sig, tok |-> tok, ttl |-> ttl]
Tool(name) == [name |-> name, sig |-> name, tok |-> 1, ttl |-> "none"]

\* The first turn of a conversation and the second, which repeats it.
Turn1 == <<[role |-> "user", blocks |-> <<Block("u1", 2, "none")>>]>>
Turn2 == Turn1 \o <<[role |-> "assistant", blocks |-> <<Block("a1", 3, "none")>>],
                    [role |-> "user", blocks |-> <<Block("u2", 1, "none")>>]>>

\* A system prompt whose first block changes with every request, and one whose
\* only block asks for the long lifetime.
System(clock) == <<Block(clock, 1, "none"), Block("rules", 2, "5m")>>
LongSystem == <<Block("rules", 2, "1h")>>

Request(endpoint, stream, query, session, key, total, tools, system, messages) ==
  [endpoint |-> endpoint, stream |-> stream, query |-> query, session |-> session, key |-> key,
   total |-> total, tools |-> tools, system |-> system, messages |-> messages]

Search(name) == <<Tool(name), Tool("exec")>>

MCCandidates ==
  <<{Request("v1", TRUE, FALSE, "A", 1, 6, <<>>, System("noon"), Turn1),
     Request("v1", FALSE, FALSE, NoSession, 1, 5, Search("web_search"), <<>>, Turn1),
     Request("v1", TRUE, TRUE, NoSession, 0, 4, <<Tool("WebSearch")>>, <<>>, Turn1)},
    {Request("cc", TRUE, FALSE, "A", 2, 8, <<>>, System("late"), Turn2),
     Request("v1", FALSE, FALSE, "B", 1, 3, <<>>, LongSystem, Turn1),
     Request("cc", TRUE, FALSE, NoSession, 1, 11, Search("WebSearch"), <<>>, Turn2)}>>

\* One request at a time, of every kind.
OneOfEach == <<MCCandidates[1] \union MCCandidates[2]>>

MCChunkContents == {<<>>, <<"web_search">>, <<"exec", "web_search">>}

TwoSearches == MCChunkContents \union {<<"web_search", "web_search">>}
=============================================================================
