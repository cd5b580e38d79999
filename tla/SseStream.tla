----------------------------- MODULE SseStream -----------------------------
(***************************************************************************)
(* The conversion of the upstream's events into the SSE events a client    *)
(* receives: StreamContext on top of SseStateManager and                   *)
(* ToolJsonAccumulator (anthropic/stream.rs), driven by create_sse_stream  *)
(* (anthropic/handlers.rs).                                                *)
(*                                                                         *)
(* The context is a record; a handler is an operator from contexts to      *)
(* contexts that appends the SSE events it returns to the field `out`, so  *)
(* that one upstream event is one action.  Content is a sequence of        *)
(* tokens: a piece of text (a positive number, in the order of arrival),   *)
(* white space, or a <thinking> or </thinking> tag; a quoted tag is text.  *)
(* The tail of the buffer that is held back because it may be the          *)
(* beginning of a tag is the last `hold` tokens.                           *)
(***************************************************************************)
EXTENDS Integers, Sequences, FiniteSets, SequencesExt

CONSTANTS
    Chunks,     \* contents an assistantResponseEvent may have, as shapes
    Tools,      \* tool_use ids
    MaxEvents,  \* bound on the upstream events of one answer
    MaxHold     \* bound on the tokens held back

Blank == 0
Open == -1
Close == -2
Word == 1     \* in a shape: a piece of text, numbered when it arrives

ASSUME StreamAssumption ==
    /\ \A c \in Chunks : \A k \in DOMAIN c : c[k] \in {Blank, Open, Close, Word}
    /\ MaxEvents \in Nat /\ MaxHold \in Nat \ {0}
    /\ IsFiniteSet(Tools)

VARIABLES
    ctx,    \* the StreamContext with its SseStateManager, and what it sent
    phase,  \* "waiting" for the first bytes, "streaming", "done"
    seen    \* number of upstream events processed

vars == <<ctx, phase, seen>>

NoBlock == 0

IsText(t) == t > 0

Solid(s) == \E k \in DOMAIN s : s[k] # Blank     \* !s.trim().is_empty()

TrimStart(s) ==
    IF Solid(s) THEN SubSeq(s, CHOOSE k \in DOMAIN s :
                                 s[k] # Blank /\ \A j \in 1 .. k - 1 : s[j] = Blank, Len(s))
    ELSE << >>

DropFirst(s, n) == SubSeq(s, n + 1, Len(s))

\* Position of the first token t in s, 0 if there is none.
Find(s, t) ==
    IF \E k \in DOMAIN s : s[k] = t
    THEN CHOOSE k \in DOMAIN s : s[k] = t /\ \A j \in 1 .. k - 1 : s[j] # t
    ELSE 0

-----------------------------------------------------------------------------
(***************************************************************************)
(* SseStateManager.  Block k of `blocks` has index k - 1 on the wire; an   *)
(* index is drawn and its block started in one go.                         *)
(***************************************************************************)
Emit(c, e) == [c EXCEPT !.out = Append(@, e)]

Event(name, ix, what, data) == [ev |-> name, ix |-> ix, what |-> what, data |-> data]

IsOpen(c, ix, type) ==
    ix \in DOMAIN c.blocks /\ ~c.blocks[ix].stopped /\ c.blocks[ix].type = type

handle_content_block_stop(c, ix) ==
    IF ix \notin DOMAIN c.blocks \/ c.blocks[ix].stopped THEN c
    ELSE Emit([c EXCEPT !.blocks[ix].stopped = TRUE],
              Event("content_block_stop", ix, c.blocks[ix].type, << >>))

\* One after the other; the hash map may give the blocks in another order.
StopAll(c, ixs) ==
    LET stopped[k \in 0 .. Len(c.blocks)] ==
            IF k = 0 THEN c
            ELSE IF k \in ixs THEN handle_content_block_stop(stopped[k - 1], k)
            ELSE stopped[k - 1]
    IN stopped[Len(c.blocks)]

handle_content_block_delta(c, ix, what, data) ==
    IF ix \notin DOMAIN c.blocks \/ c.blocks[ix].stopped THEN c
    ELSE Emit(c, Event("content_block_delta", ix, what, data))

StopTexts(c) == StopAll(c, {ix \in DOMAIN c.blocks : IsOpen(c, ix, "text")})

AddBlock(c, type) ==
    Emit([c EXCEPT !.blocks = Append(@, [type |-> type, stopped |-> FALSE])],
         Event("content_block_start", Len(c.blocks) + 1, type, << >>))

\* A tool_use block first stops the open text block.
handle_content_block_start(c, type) ==
    AddBlock(IF type = "tool_use" THEN [StopTexts(c) EXCEPT !.has_tool_use = TRUE] ELSE c, type)

LastBlock(c) == Len(c.blocks)

get_stop_reason(c) ==
    IF c.stop_reason # "none" THEN c.stop_reason
    ELSE IF c.has_tool_use THEN "tool_use" ELSE "end_turn"

EndMessage(c) ==
    Emit(Emit(c, Event("message_delta", NoBlock, get_stop_reason(c), << >>)),
         Event("message_stop", NoBlock, "", << >>))

\* SseStateManager::generate_final_events
manager_final_events(c) ==
    EndMessage(StopAll(c, {ix \in DOMAIN c.blocks : ~c.blocks[ix].stopped}))

-----------------------------------------------------------------------------
(***************************************************************************)
(* Text and thinking blocks.                                               *)
(***************************************************************************)
AsText(c) == [c EXCEPT !.text_block_index = LastBlock(c)]
AsThinking(c) == [c EXCEPT !.thinking_block_index = LastBlock(c)]

\* Mutant: the block that tool_use has stopped is used again.
text_block_stale(c) ==
    IF c.text_block_index # NoBlock THEN c ELSE AsText(handle_content_block_start(c, "text"))

\* A new text block is started if there is none or it has been stopped.
text_block(c) ==
    IF IsOpen(c, c.text_block_index, "text") THEN c
    ELSE AsText(handle_content_block_start(c, "text"))

text_delta(c, text) == handle_content_block_delta(c, c.text_block_index, "text_delta", text)

create_text_delta_events(c, text) == text_delta(text_block(c), text)

start_thinking(c) == AsThinking(handle_content_block_start(c, "thinking"))

TextIfAny(c, text) == IF text = << >> THEN c ELSE create_text_delta_events(c, text)

\* Built by hand, past the checks of the state manager.
create_thinking_delta_event(c, data) ==
    Emit(c, Event("content_block_delta", c.thinking_block_index, "thinking_delta", data))

create_signature_delta_event(c) ==
    Emit(c, Event("content_block_delta", c.thinking_block_index, "signature_delta", << >>))

\* An empty thinking_delta, the signature and the stop.
CloseThinking(c) ==
    handle_content_block_stop(
        create_signature_delta_event(create_thinking_delta_event(c, << >>)),
        c.thinking_block_index)

close_text_if_open(c) ==
    IF IsOpen(c, c.text_block_index, "text")
    THEN handle_content_block_stop(c, c.text_block_index) ELSE c

\* Mutant: the flag is not reset.
close_reasoning_keeps_flag(c) == IF ~c.reasoning_block_open THEN c ELSE CloseThinking(c)

close_reasoning_if_open(c) ==
    IF ~c.reasoning_block_open THEN c
    ELSE [CloseThinking(c) EXCEPT !.reasoning_block_open = FALSE, !.thinking_extracted = TRUE]

-----------------------------------------------------------------------------
(***************************************************************************)
(* process_content_with_thinking: the three stages of its loop.            *)
(***************************************************************************)
\* Before the opening tag.  White space in front of it is dropped; without a
\* tag all but the tail is text, unless it is only white space.
BeforeThinking(c, hold) ==
    LET pos  == Find(c.buf, Open)
        text == SubSeq(c.buf, 1, IF pos > 0 THEN pos - 1 ELSE Len(c.buf) - hold)
        d    == IF Solid(text) THEN create_text_delta_events(c, text) ELSE c
    IN IF c.in_thinking_block \/ c.thinking_extracted THEN c
       ELSE IF pos > 0
       THEN [start_thinking(d) EXCEPT !.in_thinking_block = TRUE, !.strip_newline = TRUE,
                                      !.buf = DropFirst(@, pos)]
       ELSE [d EXCEPT !.buf = IF Solid(text) THEN DropFirst(@, Len(text)) ELSE @]

StripNewline(c) ==
    IF ~c.strip_newline \/ c.buf = << >> THEN c
    ELSE [c EXCEPT !.strip_newline = FALSE,
                   !.buf = IF Head(@) = Blank THEN Tail(@) ELSE @]

ThinkingIfAny(c, data) == IF data = << >> THEN c ELSE create_thinking_delta_event(c, data)

\* Inside thinking: up to the closing tag, or all but the tail.
InThinking(c, hold) ==
    LET pos  == Find(c.buf, Close)
        data == SubSeq(c.buf, 1, IF pos > 0 THEN pos - 1 ELSE Len(c.buf) - hold)
    IN IF ~c.in_thinking_block THEN c
       ELSE IF pos > 0
       THEN [CloseThinking(ThinkingIfAny(c, data))
               EXCEPT !.in_thinking_block = FALSE, !.thinking_extracted = TRUE,
                      !.strip_text = TRUE, !.buf = DropFirst(@, pos)]
       ELSE [ThinkingIfAny(c, data) EXCEPT !.buf = DropFirst(@, Len(data))]

\* After thinking everything is text; the white space that separates it from
\* the thinking is dropped once.
AfterThinking(c) ==
    LET text == IF c.strip_text THEN TrimStart(c.buf) ELSE c.buf
    IN IF c.in_thinking_block \/ ~c.thinking_extracted THEN c
       ELSE [TextIfAny(c, text) EXCEPT !.buf = << >>, !.strip_text = @ /\ text = << >>]

process_content_with_thinking(c, content, hold) ==
    LET Strip(d) == IF d.in_thinking_block THEN StripNewline(d) ELSE d
    IN AfterThinking(InThinking(Strip(BeforeThinking([c EXCEPT !.buf = @ \o content], hold)), hold))

ProcessText(c, content, hold) ==
    IF content = << >> THEN c
    ELSE IF c.thinking_enabled THEN process_content_with_thinking(c, content, hold)
                     ELSE create_text_delta_events(c, content)

\* ToolUseXmlLeakFilter::filter: text that may begin a leaked <tool_use> element
\* waits in the filter for the next event.
process_assistant_response(c, content, held, hold) ==
    ProcessText([c EXCEPT !.held = held], c.held \o content, hold)

-----------------------------------------------------------------------------
RedactedBlock(c) ==
    [handle_content_block_stop(c, LastBlock(c)) EXCEPT !.thinking_extracted = TRUE]

\* Reasoning goes on in a thinking block that tags have opened.
OpenReasoning(c) ==
    [IF IsOpen(c, c.thinking_block_index, "thinking") THEN c ELSE start_thinking(c)
       EXCEPT !.reasoning_block_open = TRUE, !.in_thinking_block = FALSE,
              !.thinking_extracted = TRUE]

process_reasoning_content(c, kind) ==
    LET Delta(d) == IF kind = "text" THEN create_thinking_delta_event(d, << >>) ELSE d
    IN IF kind = "redacted"
       THEN RedactedBlock(handle_content_block_start(
                close_text_if_open(close_reasoning_if_open(c)), "redacted_thinking"))
       ELSE Delta(IF c.reasoning_block_open THEN c ELSE OpenReasoning(close_text_if_open(c)))

-----------------------------------------------------------------------------
(***************************************************************************)
(* Tool calls.  ToolJsonAccumulator keeps per id the pieces of its JSON    *)
(* argument: nothing so far ("empty") or something ("partial").            *)
(***************************************************************************)
ToolBlock(c, id) ==
    [handle_content_block_stop(
        handle_content_block_delta(c, LastBlock(c), "input_json_delta", << >>), LastBlock(c))
       EXCEPT !.tool_block_indices[id] = LastBlock(c)]

\* A repeated id keeps its block, which has been started and stopped.
emit_completed_tool_use(c, id) ==
    IF c.tool_block_indices[id] # NoBlock THEN StopTexts(c)
    ELSE ToolBlock(handle_content_block_start(c, "tool_use"), id)

\* Mutant: thinking that is held back goes out as text, too.
flush_before_tool_in_thinking(c) ==
    IF c.thinking_enabled /\ ~c.thinking_extracted /\ c.buf # << >>
    THEN create_text_delta_events([c EXCEPT !.buf = << >>], c.buf) ELSE c

\* Text held back while looking for a tag goes out before the tool call.
flush_before_tool(c) ==
    IF c.thinking_enabled /\ ~c.in_thinking_block /\ ~c.thinking_extracted /\ c.buf # << >>
    THEN create_text_delta_events([c EXCEPT !.buf = << >>], c.buf) ELSE c

\* input: "" or a piece of JSON; valid: whether the pieces together parse.  A
\* closing tag is recognised as soon as it is complete, so none is left in the
\* buffer here.
process_tool_use(c, id, input, stop, valid) ==
    LET acc == IF input = "" /\ c.tools[id] # "partial" THEN "empty" ELSE "partial"
        c1 == [flush_before_tool(c) EXCEPT !.has_tool_use = TRUE,
                                           !.tools[id] = IF stop THEN "none" ELSE acc]
    IN IF ~stop THEN c1
       ELSE IF acc = "empty" \/ valid THEN emit_completed_tool_use(c1, id)
       ELSE [c1 EXCEPT !.tool_json_error = TRUE, !.stop_reason = "error"]

Pending(c, what) == {id \in Tools : c.tools[id] = what}

emit_all(c, ids) ==
    LET emitted[k \in 0 .. Len(ids)] ==
            IF k = 0 THEN c ELSE emit_completed_tool_use(emitted[k - 1], ids[k])
    IN emitted[Len(ids)]

\* Mutant: only calls whose end arrived are forwarded.
finish_tools_drops_empty(c) ==
    IF c.tool_json_error THEN c
    ELSE IF Pending(c, "partial") # {}
    THEN [c EXCEPT !.tool_json_error = TRUE, !.stop_reason = "error"]
    ELSE c

\* ToolJsonAccumulator::finish: calls without arguments are completed, half an
\* argument is an error, and then none of them is forwarded.
finish_tools(c) ==
    IF c.tool_json_error THEN c
    ELSE IF Pending(c, "partial") # {}
    THEN [c EXCEPT !.tool_json_error = TRUE, !.stop_reason = "error"]
    ELSE emit_all(c, SetToSeq(Pending(c, "empty")))

-----------------------------------------------------------------------------
\* What is left in the buffer at the end: thinking without its closing tag, or
\* text.
flush_at_end(c) ==
    IF ~c.thinking_enabled \/ c.buf = << >> THEN c
    ELSE IF c.in_thinking_block
    THEN [CloseThinking(create_thinking_delta_event(c, c.buf)) EXCEPT !.buf = << >>]
    ELSE [TextIfAny(c, IF c.strip_text THEN TrimStart(c.buf) ELSE c.buf) EXCEPT !.buf = << >>]

\* If there was nothing but thinking, a text block is made up.
only_thinking(c) ==
    IF /\ c.thinking_enabled /\ c.thinking_block_index # NoBlock
       /\ \A ix \in DOMAIN c.blocks : c.blocks[ix].type = "thinking"
    THEN create_text_delta_events([c EXCEPT !.stop_reason = "max_tokens"], << >>)
    ELSE c

\* StreamContext::generate_final_events
generate_final_events(c, hold) ==
    LET Flush(d) == ProcessText([d EXCEPT !.held = << >>], d.held, hold)
        Finish(d) == IF d.tool_json_error
                     THEN Emit(manager_final_events(d), Event("error", NoBlock, "", << >>))
                     ELSE manager_final_events(only_thinking(flush_at_end(d)))
    IN Finish(close_reasoning_if_open(Flush(finish_tools(c))))

\* generate_initial_events: without thinking the text block is there at once.
generate_initial_events(c) ==
    LET c1 == Emit(c, Event("message_start", NoBlock, "", << >>))
    IN IF c.thinking_enabled THEN c1
       ELSE [handle_content_block_start(c1, "text") EXCEPT !.text_block_index = 1]

NewContext(thinking) ==
    [thinking_enabled |-> thinking, blocks |-> << >>, out |-> << >>, stop_reason |-> "none", has_tool_use |-> FALSE,
     buf |-> << >>, held |-> << >>, in_thinking_block |-> FALSE,
     thinking_extracted |-> FALSE, reasoning_block_open |-> FALSE,
     strip_newline |-> FALSE, strip_text |-> FALSE,
     thinking_block_index |-> NoBlock, text_block_index |-> NoBlock,
     tools |-> [id \in Tools |-> "none"], tool_block_indices |-> [id \in Tools |-> NoBlock],
     tool_json_error |-> FALSE, input |-> << >>, called |-> {}, reasoned |-> FALSE]

-----------------------------------------------------------------------------
Init == ctx \in {NewContext(t) : t \in BOOLEAN} /\ phase = "waiting" /\ seen = 0

\* The first bytes of the upstream's answer release the initial events.
FirstChunk ==
    /\ phase = "waiting"
    /\ ctx' = generate_initial_events(ctx)
    /\ phase' = "streaming"
    /\ UNCHANGED seen

\* One upstream event.
Process(c) ==
    /\ phase = "streaming" /\ seen < MaxEvents
    /\ ctx' = c
    /\ seen' = seen + 1
    /\ UNCHANGED phase

Words(s) == Cardinality({k \in DOMAIN s : IsText(s[k])})

\* The pieces of text in a shape get the numbers after n.
Number(shape, n) ==
    [k \in DOMAIN shape |->
        IF shape[k] # Word THEN shape[k]
        ELSE n + Cardinality({j \in 1 .. k : shape[j] = Word})]


AssistantResponse ==
    \E shape \in Chunks, hold \in 1 .. MaxHold, keep \in BOOLEAN :
        LET content == Number(shape, Words(ctx.input))
            cut == IF keep /\ IsText(Last(content)) THEN Len(content) - 1 ELSE Len(content)
            c == [ctx EXCEPT !.input = @ \o content]
        IN Process(process_assistant_response(close_reasoning_if_open(c),
                     SubSeq(content, 1, cut), DropFirst(content, cut), hold))

ToolUse ==
    \E id \in Tools, input \in {"", "piece"}, stop \in BOOLEAN, valid \in BOOLEAN :
        Process(process_tool_use(
                  close_reasoning_if_open([ctx EXCEPT !.called = @ \cup {id}]),
                  id, input, stop, valid))

\* Reasoning is dropped when the client did not ask for thinking.
ReasoningContent ==
    \E kind \in {"text", "empty", "redacted"} :
        Process(IF ctx.thinking_enabled
                THEN [process_reasoning_content(ctx, kind) EXCEPT !.reasoned = TRUE] ELSE ctx)

\* The context window is full, or the content is too long.
Limit ==
    \E reason \in {"max_tokens", "model_context_window_exceeded"} :
        Process([ctx EXCEPT !.stop_reason = reason])

\* The upstream's answer ends, cleanly or not.
End ==
    /\ phase # "done"
    /\ \E hold \in 1 .. MaxHold :
         ctx' = generate_final_events(
                  IF phase = "waiting" THEN generate_initial_events(ctx) ELSE ctx, hold)
    /\ phase' = "done"
    /\ UNCHANGED seen

Done == phase = "done" /\ UNCHANGED vars

Next == FirstChunk \/ AssistantResponse \/ ToolUse \/ ReasoningContent \/ Limit \/ End \/ Done

Spec == Init /\ [][Next]_vars
-----------------------------------------------------------------------------
(***************************************************************************)
(* Properties.                                                             *)
(***************************************************************************)
At(k) == ctx.out[k]
Sent == DOMAIN ctx.out
Concat(what) == FlattenSeq([k \in Sent |-> IF At(k).what = what THEN At(k).data ELSE << >>])

\* A client can assemble the message: blocks are started in the order of their
\* indices, and deltas and the only stop of a block arrive while it is open
\* (thinking deltas bypass the state manager's check, so this rests on the flags).
\* message_delta is sent once, when every block that was started has been stopped,
\* and message_stop right after it.
BlocksWellFormed ==
    /\ \A k \in Sent :
         /\ At(k).ev = "content_block_start" =>
              At(k).ix = 1 + Cardinality({j \in 1 .. k - 1 : At(j).ev = "content_block_start"})
         /\ At(k).ev \in {"content_block_delta", "content_block_stop"} =>
              /\ \E j \in 1 .. k - 1 : At(j).ev = "content_block_start" /\ At(j).ix = At(k).ix
              /\ ~\E j \in 1 .. k - 1 : At(j).ev = "content_block_stop" /\ At(j).ix = At(k).ix
    /\ \A k \in Sent : At(k).ev = "message_delta" =>
         /\ ~\E j \in Sent \ {k} : At(j).ev = "message_delta"
         /\ k + 1 \in Sent /\ At(k + 1).ev = "message_stop"
         /\ \A j \in Sent : At(j).ix # NoBlock => j < k
         /\ \A j \in Sent : At(j).ev = "content_block_start" =>
              \E i \in j .. k : At(i).ev = "content_block_stop" /\ At(i).ix = At(j).ix

\* No text is swallowed, doubled or reordered by tag detection, tool calls,
\* reasoning or the end of the stream: unless a tool call was broken, the pieces
\* of text that arrived are the text and the thinking that were sent.
Increasing(s) == \A i, j \in DOMAIN s : i < j => s[i] < s[j]
SentText == SelectSeq(Concat("text_delta"), IsText)
SentThinking == SelectSeq(Concat("thinking_delta"), IsText)
TextArrives ==
    /\ Increasing(SentText) /\ Increasing(SentThinking)
    /\ ToSet(SentText) \cap ToSet(SentThinking) = {}
    /\ phase = "done" /\ ~ctx.tool_json_error =>
         ToSet(SentText) \cup ToSet(SentThinking) = 1 .. Words(ctx.input)

\* A broken tool call is never forwarded, a complete one always and once: unless
\* the message ends in an error, every tool the upstream called has its block,
\* and a message that stops for tool_use has one.
ToolCallsForwarded ==
    LET started(id) == ctx.tool_block_indices[id] # NoBlock
        tools == {k \in Sent : At(k).ev = "content_block_start" /\ At(k).what = "tool_use"}
    IN /\ Cardinality(tools) = Cardinality({id \in Tools : started(id)})
       /\ phase = "done" /\ ~ctx.tool_json_error => \A id \in ctx.called : started(id)
       /\ \A k \in Sent : At(k).ev = "message_delta" /\ At(k).what = "tool_use" => tools # {}

\* While the upstream marks thinking with tags only, exactly what stands between
\* the tags is sent as thinking, wherever the events split it and whatever tool
\* calls come in between; nothing of it is shown as text.
Thought ==
    LET from == Find(ctx.input, Open)
        len == Find(DropFirst(ctx.input, from), Close)
    IN IF ~ctx.thinking_enabled \/ from = 0 THEN << >>
       ELSE SubSeq(ctx.input, from + 1, IF len = 0 THEN Len(ctx.input) ELSE from + len - 1)
ThinkingSplit ==
    ~ctx.reasoned =>
    /\ ToSet(SentThinking) \subseteq ToSet(Thought)
    /\ ToSet(SentText) \cap ToSet(Thought) = {}
    /\ phase = "done" /\ ~ctx.tool_json_error => SentThinking = SelectSeq(Thought, IsText)
=============================================================================
