---------------------------- MODULE FrameDecoder ----------------------------
(***************************************************************************)
(* EventStreamDecoder (kiro/parser/decoder.rs, frame.rs): the upstream's   *)
(* byte stream is cut into frames.  The bytes of the stream are numbered;  *)
(* the buffer is a sequence of these numbers.  Each chunk from the network *)
(* is fed to the decoder, which is then asked for frames until it has none *)
(* (create_sse_stream in anthropic/handlers.rs; a request that is not      *)
(* streamed feeds the whole body as one chunk).                            *)
(*                                                                         *)
(* What the first bytes of the buffer say depends on where they come from: *)
(* at the beginning of a frame they are its prelude, anywhere else they    *)
(* are read as a length that the CRC does not confirm.                     *)
(***************************************************************************)
EXTENDS Naturals, Sequences, FiniteSets, SequencesExt, Subsequences

CONSTANTS
    FrameSets,    \* set of streams: sequences of [kind, size]
    Garbage,      \* lengths read where there is no good prelude
    ChunkSizes,   \* sizes of chunks
    PreludeSize,  \* PRELUDE_SIZE (12)
    MinMessage,   \* MIN_MESSAGE_SIZE (16)
    MaxMessage,   \* MAX_MESSAGE_SIZE
    MaxErrors,    \* DEFAULT_MAX_ERRORS (5)
    MaxBuffer     \* DEFAULT_MAX_BUFFER_SIZE

\* Intact, or with damaged contents (MessageCrcMismatch, HeaderParseFailed), a
\* header that is cut short or of an unknown type (Incomplete, InvalidHeaderType),
\* or a damaged prelude.
Kinds == {"ok", "bad_crc", "bad_header", "bad_prelude"}

VARIABLES
    frames,     \* the stream
    garbage,    \* what is read as a length where there is no good prelude
    fed,        \* bytes that have left the network
    buffer,     \* the decoder's buffer
    state,      \* DecoderState (Parsing is left before decode returns)
    errors,     \* error_count
    decoded,    \* the frames that were returned
    pc,         \* "network": waiting for a chunk; "decode": in decode_iter; "end"
    dropped     \* history: a chunk did not fit into the buffer

vars == <<frames, garbage, fed, buffer, state, errors, decoded, pc, dropped>>

-----------------------------------------------------------------------------
\* Number of the last byte of frame k.
EndOf(k) == Sums([j \in DOMAIN frames |-> frames[j].size])[k]
StartOf(k) == EndOf(k) - frames[k].size + 1
StreamSize == EndOf(Len(frames))
Bytes(k) == [j \in 1 .. frames[k].size |-> StartOf(k) + j - 1]

\* The frame with a good prelude at the beginning of the buffer, 0 if there is
\* none: the prelude's CRC tells which (a CRC that matches by chance is left out).
Here ==
    LET at == {k \in DOMAIN frames :
                 /\ frames[k].kind # "bad_prelude"
                 /\ SubSeq(buffer, 1, PreludeSize) = SubSeq(Bytes(k), 1, PreludeSize)}
    IN IF at = {} THEN 0 ELSE CHOOSE k \in at : TRUE

total_length == IF Here = 0 THEN garbage ELSE frames[Here].size

\* The headers of the frame in the buffer are well formed.
parse_headers == frames[Here].kind # "bad_header"

\* What parse_frame says of the buffer, in the order of its tests.
parse_frame ==
    IF Len(buffer) < PreludeSize THEN "more"
    ELSE IF total_length < MinMessage \/ total_length > MaxMessage THEN "prelude_error"
    ELSE IF Len(buffer) < total_length THEN "more"
    ELSE IF Here = 0 THEN "prelude_error"
    ELSE IF frames[Here].kind = "bad_crc" \/ SubSeq(buffer, 1, total_length) # Bytes(Here)
         THEN "data_error"
    ELSE IF ~parse_headers THEN "other_error"
    ELSE "frame"

Advance(n) == buffer' = SubSeq(buffer, n + 1, Len(buffer))

\* Mutant: one byte more than the damaged frame.
recover_one_more(result) == Advance(IF result = "data_error" THEN total_length + 1 ELSE 1)

\* try_recover: the whole frame after an error of its data phase, one byte after
\* every other error.
try_recover(result) == Advance(IF result = "data_error" THEN total_length ELSE 1)

-----------------------------------------------------------------------------
\* A chunk that does not fit is dropped; otherwise the decoder leaves Recovering.
feed(n) ==
    IF Len(buffer) + n > MaxBuffer THEN dropped' = TRUE /\ UNCHANGED <<buffer, state>>
    ELSE /\ buffer' = buffer \o [j \in 1 .. n |-> fed + j]
         /\ state' = IF state = "Recovering" THEN "Ready" ELSE state
         /\ UNCHANGED dropped

Feed ==
    /\ pc = "network"
    /\ \E n \in ChunkSizes :
         /\ fed + n <= StreamSize
         /\ feed(n)
         /\ fed' = fed + n
    /\ pc' = "decode"
    /\ UNCHANGED <<frames, garbage, errors, decoded>>

\* The iterator ends in Stopped and Recovering, and when decode needs more data.
IterEnds ==
    /\ pc = "decode"
    /\ \/ state \in {"Stopped", "Recovering"} /\ UNCHANGED state
       \/ /\ state = "Ready"
          /\ buffer = << >> \/ parse_frame = "more"
          /\ UNCHANGED state
    /\ pc' = "network"
    /\ UNCHANGED <<frames, garbage, fed, buffer, errors, decoded, dropped>>

DecodeFrame ==
    /\ pc = "decode" /\ state = "Ready" /\ buffer # << >> /\ parse_frame = "frame"
    /\ decoded' = Append(decoded, Here)
    /\ errors' = 0
    /\ Advance(total_length)
    /\ UNCHANGED <<frames, garbage, fed, state, pc, dropped>>

\* After MaxErrors errors in a row the decoder stops for good.
DecodeError ==
    /\ pc = "decode" /\ state = "Ready" /\ buffer # << >>
    /\ parse_frame \in {"prelude_error", "data_error", "other_error"}
    /\ errors' = errors + 1
    /\ IF errors + 1 >= MaxErrors
       THEN state' = "Stopped" /\ UNCHANGED buffer
       ELSE state' = "Recovering" /\ try_recover(parse_frame)
    /\ UNCHANGED <<frames, garbage, fed, decoded, pc, dropped>>

\* The upstream closes the connection after its last byte or breaks it before.
EndOfStream ==
    /\ pc = "network"
    /\ pc' = "end"
    /\ UNCHANGED <<frames, garbage, fed, buffer, state, errors, decoded, dropped>>

Done == pc = "end" /\ UNCHANGED vars

Init ==
    /\ frames \in FrameSets /\ garbage \in Garbage
    /\ fed = 0 /\ buffer = << >> /\ state = "Ready" /\ errors = 0 /\ decoded = << >>
    /\ pc = "network" /\ dropped = FALSE

Next == Feed \/ IterEnds \/ DecodeFrame \/ DecodeError \/ EndOfStream \/ Done

Spec == Init /\ [][Next]_vars
-----------------------------------------------------------------------------
Intact(k) == frames[k].kind = "ok"

\* However the network cuts the stream and whatever is damaged or dropped, only
\* intact frames are returned, each at most once and in order.  Recovery never
\* throws one away: as long as the buffer has not overflowed, an intact frame
\* that has arrived is returned or still waits in the buffer.  And an undamaged
\* stream is decoded at once: whenever the decoder waits for the network, every
\* frame that has arrived has been returned.  (feed, decode, try_recover.)
IntactFramesKept ==
    /\ \A k \in DOMAIN decoded : Intact(decoded[k])
    /\ \A j, k \in DOMAIN decoded : j < k => decoded[j] < decoded[k]
    /\ ~dropped => \A k \in DOMAIN frames :
         Intact(k) /\ EndOf(k) <= fed =>
             \/ k \in ToSet(decoded)
             \/ ToSet(Bytes(k)) \subseteq ToSet(buffer)
    /\ (\A k \in DOMAIN frames : Intact(k)) /\ ~dropped /\ pc = "network" =>
         decoded = [k \in 1 .. Cardinality({j \in DOMAIN frames : EndOf(j) <= fed}) |-> k]
=============================================================================
