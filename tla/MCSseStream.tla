--------------------------- MODULE MCSseStream ---------------------------
(* Instances of SseStream for TLC. *)
EXTENDS SseStream

\* Text, white space, tags, and tags with text on either side, in one event.
AllChunks ==
    {<<Word>>, <<Word, Word>>, <<Blank>>, <<Open>>, <<Close>>, <<Open, Word>>,
     <<Close, Word>>, <<Word, Open>>, <<Open, Word, Close, Blank, Word>>}
=============================================================================
