------------------------------ MODULE Converter ------------------------------
(***************************************************************************)
(* convert_request_with_mode (anthropic/converter.rs): the conversation a  *)
(* client sends becomes a Kiro conversation.  A client builds its          *)
(* conversation block by block, in any order, and Kiro may answer with a   *)
(* call of any tool it was given; every conversation on the way is         *)
(* converted as a request.                                                 *)
(*                                                                         *)
(* A text is the number of the block it came with.  Content that is a      *)
(* string is an array with one text block.                                 *)
(***************************************************************************)
EXTENDS ToolNames, Subsequences

CONSTANTS
    Settings,       \* set of [mode, tools, system, thinking, budget, effort, model, uses, room]
    ToolIds,        \* ids that results refer to
    Images,         \* images of tool results and of user messages
    BadImages,      \* images whose format is not supported
    BrokenImages    \* images maybe_shrink_image rejects

VARIABLES
    req,        \* the settings of the request
    messages,   \* its messages
    blocks,     \* number of blocks so far
    result      \* what the converter returns for it, Null for a ConversionError

vars == <<req, messages, blocks, result>>
-----------------------------------------------------------------------------
(***************************************************************************)
(* Content of user messages.                                               *)
(***************************************************************************)
Omitted == -1     \* "[image omitted: ...]"
Attached == -2    \* "[image attached]"
Spacer == 0       \* " "

\* What is collected from content, and the digests seen so far.
Nothing(seen) == [text |-> <<>>, images |-> <<>>, results |-> <<>>, seen |-> seen, err |-> FALSE]

\* The images after `image`, and the placeholder that takes its place in the
\* text.  Without `dedup` (the current message) every image is sent.
extract_kiro_image(acc, image, dedup) ==
    IF image \in BadImages \cup {Null} THEN [acc |-> acc, text |-> <<>>]
    ELSE IF dedup /\ image \in acc.seen THEN [acc |-> acc, text |-> <<Omitted>>]
    ELSE [acc |-> [acc EXCEPT !.images = Append(@, image), !.seen = @ \cup {image},
                              !.err = @ \/ image \in BrokenImages],
          text |-> <<>>]

\* A result's content: a text, or an image that extract_kiro_image has dealt with.
extract_tool_result_content(block, x) ==
    CASE block.image = Null -> <<block.text>>
      [] block.image # Null /\ x.text = <<>> -> <<Attached>>
      [] OTHER -> x.text

WithText(x) == [x.acc EXCEPT !.text = @ \o x.text]
WithResult(block, x) ==
    [x.acc EXCEPT !.results =
        Append(@, [id |-> block.id, text |-> extract_tool_result_content(block, x)])]

process_block(acc, block, dedup) ==
    CASE block.type = "text" -> [acc EXCEPT !.text = Append(@, block.text)]
      [] block.type = "image" ->
           WithText(extract_kiro_image(acc, block.image, dedup))
      [] block.type = "tool_result" ->
           WithResult(block, extract_kiro_image(acc, block.image, dedup))
      [] OTHER -> acc

process_message_content(acc, content, dedup) ==
    LET read[n \in 0 .. Len(content)] ==
            IF n = 0 THEN acc ELSE process_block(read[n - 1], content[n], dedup)
    IN read[Len(content)]
-----------------------------------------------------------------------------
(***************************************************************************)
(* The history: consecutive messages of one role become one message.       *)
(***************************************************************************)
UserMessage(c) == [role |-> "user", text |-> c.text, images |-> c.images,
                   results |-> c.results, uses |-> <<>>]
AssistantMessage(text, uses) == [role |-> "assistant", text |-> text, images |-> <<>>,
                                 results |-> <<>>, uses |-> uses]
Prompt == 1000    \* the texts the converter writes itself
Policy == 1001
Reply == AssistantMessage(<<1002>>, <<>>)   \* "I will follow these instructions.", "OK"

merge_user_messages(group, seen) ==
    process_message_content(Nothing(seen),
                            FlattenSeq([k \in DOMAIN group |-> group[k].content]), TRUE)

WithUse(acc, block, named) ==
    [text |-> acc.text, map |-> named.map,
     uses |-> Append(acc.uses,
         [id |-> block.id, name |-> named.name,
          input |-> map_tool_input_to_kiro(block.name, block.input, req.mode)]),
     err |-> acc.err \/ Unsupported(block.name, block.input, req.mode)]

\* Text and tool calls; thinking is left out.
convert_assistant_block(acc, block) ==
    CASE block.type = "text" -> [acc EXCEPT !.text = Append(@, block.text)]
      [] block.type = "tool_use" ->
           WithUse(acc, block, map_client_tool_name_to_kiro(block.name, acc.map, req.mode))
      [] OTHER -> acc

\* Kiro wants content besides the calls.
WithSpacer(a) == [a EXCEPT !.text = IF @ = <<>> /\ a.uses # <<>> THEN <<Spacer>> ELSE @]

merge_assistant_messages(group, map) ==
    LET content == FlattenSeq([k \in DOMAIN group |-> group[k].content])
        read[n \in 0 .. Len(content)] ==
            IF n = 0 THEN [text |-> <<>>, uses |-> <<>>, map |-> map, err |-> FALSE]
            ELSE convert_assistant_block(read[n - 1], content[n])
    IN WithSpacer(read[Len(content)])

ThinkingOn == {"enabled", "adaptive"}

\* A model is what its name contains: a family and a version.  Null: not supported.
map_model(model) ==
    LET version(vs) == LET found == SelectSeq(vs, LAMBDA v : v \in model)
                       IN IF found = <<>> THEN Null ELSE Head(found)
    IN CASE "sonnet" \in model -> <<"sonnet", version(<<"4.6", "4.5">>)>>
         [] "sonnet" \notin model /\ "opus" \in model ->
              <<"opus", version(<<"4.8", "4.7", "4.5", "4.6">>)>>
         [] model \cap {"sonnet", "opus"} = {} /\ "haiku" \in model -> <<"haiku", "4.5">>
         [] OTHER -> <<"none", Null>>

\* Models that take an effort, with the efforts they know.
native_reasoning_schema(id) ==
    CASE id \in {<<"opus", "4.8">>, <<"opus", "4.7">>} -> <<"low", "medium", "high", "xhigh", "max">>
      [] id \in {<<"opus", "4.6">>, <<"sonnet", "4.6">>} -> <<"low", "medium", "high", "max">>
      [] OTHER -> <<>>

effort_from_budget_tokens(tokens) ==
    CASE tokens <= 4000 -> "low"
      [] tokens \in 4001 .. 16000 -> "medium"
      [] tokens \in 16001 .. 64000 -> "high"
      [] OTHER -> "xhigh"

\* req.effort is Null without output_config, and "" when it is blank.
normalize_thinking_effort(e) ==
    IF e \in {"low", "medium", "high", "xhigh", "max"} THEN e ELSE "high"

WantedEffort ==
    CASE req.effort # Null -> normalize_thinking_effort(req.effort)
      [] req.effort = Null /\ req.thinking = "enabled" -> effort_from_budget_tokens(req.budget)
      [] OTHER -> "high"

\* Mutant: the effort is sent whether the model knows it or not.
select_effort_unchecked(schema) == WantedEffort

select_native_reasoning_effort(schema) ==
    IF Contains(schema, WantedEffort) THEN WantedEffort ELSE Last(schema)

build_additional_model_request_fields ==
    LET schema == native_reasoning_schema(map_model(req.model))
    IN IF \/ req.thinking = "disabled" \/ schema = <<>>
          \/ req.thinking \notin ThinkingOn /\ req.effort \in {Null, ""}
       THEN Null ELSE select_native_reasoning_effort(schema)

\* The tags that ask for thinking in the prompt, where there is no field for it.
NeedsPrefix == build_additional_model_request_fields = Null /\ req.thinking \in ThinkingOn

\* Messages of the system prompt.
system_messages ==
    LET user(text) == UserMessage([text |-> text, images |-> <<>>, results |-> <<>>])
        tags == IF NeedsPrefix /\ req.system # "tagged" THEN <<Prompt>> ELSE <<>>
    IN CASE req.system \in {"given", "tagged"} -> <<user(tags \o <<Policy>>), Reply>>
         [] req.system = "none" /\ NeedsPrefix -> <<user(<<Prompt>>), Reply>>
         [] OTHER -> <<>>

\* Mutant: the images of each message are deduplicated on their own.
flushed_user_forgets(acc, u) ==
    [acc EXCEPT !.history = Append(@, UserMessage(u)), !.err = @ \/ u.err, !.group = <<>>]

\* The buffered messages have become one message of the history.
flushed_user(acc, u) ==
    [acc EXCEPT !.history = Append(@, UserMessage(u)), !.seen = u.seen, !.err = @ \/ u.err,
                !.group = <<>>]
flushed_assistant(acc, a) ==
    [acc EXCEPT !.history = Append(@, AssistantMessage(a.text, a.uses)), !.map = a.map,
                !.err = @ \/ a.err, !.group = <<>>]

flush(acc) ==
    CASE acc.group = <<>> -> acc
      [] acc.group # <<>> /\ Head(acc.group).role = "user" ->
           flushed_user(acc, merge_user_messages(acc.group, acc.seen))
      [] OTHER -> flushed_assistant(acc, merge_assistant_messages(acc.group, acc.map))

buffer_message(acc, msg) ==
    [IF acc.group # <<>> /\ Head(acc.group).role # msg.role THEN flush(acc) ELSE acc
        EXCEPT !.group = Append(@, msg)]

\* Mutant: user messages at the end of the history get no answer.
with_no_reply(past, built) == built

\* User messages at the end of the history get the answer "OK".
with_reply(past, built) ==
    IF past # <<>> /\ Last(past).role = "user"
    THEN [built EXCEPT !.history = Append(@, Reply)] ELSE built

build_history(past, map) ==
    LET built[n \in 0 .. Len(past)] ==
            IF n = 0
            THEN [history |-> system_messages, group |-> <<>>, map |-> map, seen |-> {},
                  err |-> FALSE]
            ELSE buffer_message(built[n - 1], past[n])
    IN with_reply(past, flush(built[Len(past)]))
-----------------------------------------------------------------------------
(***************************************************************************)
(* Tools, and the pairing of calls and results.                            *)
(***************************************************************************)
WithTool(tools, named) ==
    [map |-> named.map,
     tools |-> IF \E k \in DOMAIN tools : Lower(tools[k]) = Lower(named.name)
               THEN tools ELSE Append(tools, named.name)]

\* Every tool once, by the name Kiro sees, ignoring case; fs_append is hidden.
convert_tools(tools) ==
    LET added(acc, name) ==
            IF req.mode = "ClaudeCode" /\ name = "fs_append" THEN acc
            ELSE WithTool(acc.tools, map_client_tool_name_to_kiro(name, acc.map, req.mode))
        converted[n \in 0 .. Len(tools)] ==
            IF n = 0 THEN [map |-> <<>>, tools |-> <<>>] ELSE added(converted[n - 1], tools[n])
    IN converted[Len(tools)]

UsesOf(history) == UNION {ToSet(history[k].uses) : k \in DOMAIN history}
ResultsOf(history) == UNION {ToSet(history[k].results) : k \in DOMAIN history}
Ids(S) == {x.id : x \in S}

\* Mutant: a result is kept for every call, answered or not.
validate_keeps_duplicates(history, results) ==
    [results |-> SelectSeq(results, LAMBDA r : r.id \in Ids(UsesOf(history))),
     orphans |-> (Ids(UsesOf(history)) \ Ids(ResultsOf(history))) \ Ids(ToSet(results))]

\* The results of the current message that answer an open call, the first one for
\* each, and the calls that stay open.
validate_tool_pairing(history, results) ==
    LET answered(acc, r) ==
            IF r.id \in acc.orphans
            THEN [results |-> Append(acc.results, r), orphans |-> acc.orphans \ {r.id}]
            ELSE acc
        paired[n \in 0 .. Len(results)] ==
            IF n = 0
            THEN [results |-> <<>>,
                  orphans |-> Ids(UsesOf(history)) \ Ids(ResultsOf(history))]
            ELSE answered(paired[n - 1], results[n])
    IN paired[Len(results)]

remove_orphaned_tool_uses(history, orphans) ==
    [k \in DOMAIN history |->
        [history[k] EXCEPT !.uses = Pick(@, {j \in DOMAIN @ : @[j].id \notin orphans})]]

collect_history_tool_names(history) ==
    LET uses == FlattenSeq([k \in DOMAIN history |-> history[k].uses])
    IN Pick([k \in DOMAIN uses |-> uses[k].name],
            {k \in DOMAIN uses : \A j \in 1 .. k - 1 : uses[j].name # uses[k].name})

\* Mutant: no tool gets a placeholder.
placeholders_omitted(history, tools) == tools

\* A tool that is called in the history and not defined gets a placeholder.
with_placeholders(history, tools) ==
    LET names == collect_history_tool_names(history)
    IN tools \o Pick(names, {n \in DOMAIN names :
                               \A k \in DOMAIN tools : Lower(tools[k]) # Lower(names[n])})
-----------------------------------------------------------------------------
(***************************************************************************)
(* The conversion.                                                         *)
(***************************************************************************)
\* Index of the last user message: what follows is a prefill and dropped.
LastUser(msgs) == Max({0} \cup {k \in DOMAIN msgs : msgs[k].role = "user"})

KiroRequest(current, history, results, declared, map) ==
    [history |-> history, text |-> current.text, images |-> current.images, results |-> results,
     tools |-> with_placeholders(history, declared), map |-> map,
     effort |-> build_additional_model_request_fields]

WithoutOrphans(current, built, paired, declared) ==
    KiroRequest(current, remove_orphaned_tool_uses(built.history, paired.orphans),
                paired.results, declared, built.map)

Paired(current, built, declared) ==
    IF current.err \/ built.err THEN Null
    ELSE WithoutOrphans(current, built,
                        validate_tool_pairing(built.history, current.results), declared)

WithHistory(kept, current, declared) ==
    Paired(current, build_history(Front(kept), declared.map), declared.tools)

convert_kept(kept) ==
    WithHistory(kept, process_message_content(Nothing({}), Last(kept).content, FALSE),
                convert_tools(req.tools))

convert_request_with_mode(msgs) ==
    IF map_model(req.model)[2] = Null \/ LastUser(msgs) = 0 THEN Null
    ELSE convert_kept(SubSeq(msgs, 1, LastUser(msgs)))
-----------------------------------------------------------------------------
(***************************************************************************)
(* The client's conversation.                                              *)
(***************************************************************************)
\* A block starts a message or continues the last one of the same role.
Add(role, block) ==
    /\ blocks < req.room /\ blocks' = blocks + 1
    /\ \/ messages' = Append(messages, [role |-> role, content |-> <<block>>])
       \/ /\ messages # <<>> /\ Last(messages).role = role
          /\ messages' = Append(Front(messages),
                 [role |-> role, content |-> Append(Last(messages).content, block)])
    /\ result' = convert_request_with_mode(messages')
    /\ UNCHANGED req

SayText == \E role \in {"user", "assistant"} : Add(role, [type |-> "text", text |-> blocks + 1])
ShowImage == \E i \in Images : Add("user", [type |-> "image", image |-> i])
Think == Add("assistant", [type |-> "thinking"])
CallTool == \E u \in req.uses :
    Add("assistant", [type |-> "tool_use", id |-> u.id, name |-> u.name, input |-> u.input])
GiveResult == \E i \in ToolIds, x \in Images \cup {Null} :
    Add("user", [type |-> "tool_result", id |-> i, image |-> x,
                 text |-> IF x = Null THEN blocks + 1 ELSE Null])

\* Kiro calls a tool it was given, and the client adds the call it gets.
KiroCalls ==
    /\ result # Null
    /\ \E k \in DOMAIN result.tools, i \in ToolIds :
         LET call == restore_tool_use_for_client(result.tools[k], <<>>, result.map)
         IN Add("assistant", [type |-> "tool_use", id |-> i, name |-> call.name,
                              input |-> call.input])

Init == req \in Settings /\ messages = <<>> /\ blocks = 0 /\ result = Null

Full == blocks = req.room /\ UNCHANGED vars

Next == SayText \/ ShowImage \/ Think \/ CallTool \/ GiveResult \/ KiroCalls \/ Full

Spec == Init /\ [][Next]_vars
-----------------------------------------------------------------------------
Kept == SubSeq(messages, 1, LastUser(messages))
BlocksOf(msgs) == UNION {ToSet(msgs[k].content) : k \in DOMAIN msgs}
Calls == {b \in BlocksOf(Kept) : b.type = "tool_use"}
ClientNames == ToSet(req.tools) \cup {b.name : b \in Calls}

\* Kiro rejects a request with a call that has no result: whatever the client
\* leaves out, repeats or answers twice, every call that is sent has a result, and
\* the current message answers calls of the history that nothing else answers, each
\* once (validate_tool_pairing, remove_orphaned_tool_uses).
CallsAnswered ==
    result # Null =>
        LET open == Ids(UsesOf(result.history)) \ Ids(ResultsOf(result.history))
        IN /\ open = Ids(ToSet(result.results))
           /\ Cardinality(open) = Len(result.results)

\* Every tool that is called in the history is defined, ignoring case, and every
\* tool Kiro can call is one the client knows, under a name that is mapped to the same
\* tool when the client sends the call back.
ToolsKnown ==
    result # Null =>
        /\ \A u \in UsesOf(result.history) :
             \E k \in DOMAIN result.tools : Lower(result.tools[k]) = Lower(u.name)
        /\ \A k \in DOMAIN result.tools :
             LET name == restore_tool_use_for_client(result.tools[k], <<>>, result.map).name
             IN /\ name \in ClientNames
                /\ map_client_tool_name_to_kiro(name, <<>>, req.mode).name = result.tools[k]

\* A call keeps its meaning on the way to Kiro and back: what is sent has the fields of the
\* schema that Kiro was given for the tool, and restoring it gives the name and the
\* arguments the client used.  (A client that has a tool with the name
\* of a Kiro tool besides the Claude Code tool that is mapped to it gets the latter.)
CallsSurvive ==
    result # Null /\ req.mode = "ClaudeCode"
      /\ (\A n \in ClientNames : \A b \in DOMAIN Builtin : n # Builtin[b]) =>
        \A u \in UsesOf(result.history) :
            \E b \in Calls :
                /\ b.id = u.id
                /\ restore_tool_use_for_client(u.name, u.input, result.map)
                     = [name |-> b.name, input |-> b.input]
                /\ b.name \in DOMAIN Builtin /\ b.input # <<>> =>
                     LET schema == kiro_builtin_tool_schema[b.name]
                     IN /\ schema.required \subseteq DOMAIN u.input
                        /\ DOMAIN u.input \subseteq schema.required \cup schema.optional

\* The roles alternate, the history ends with an answer, so that the current message
\* follows it, and no message of the assistant with calls is empty.  (A client whose first
\* message is the assistant's gets what it sent.)
HistoryAlternates ==
    result # Null /\ Head(Kept).role = "user" =>
        /\ Len(result.history) % 2 = 0
        /\ \A k \in DOMAIN result.history :
             /\ result.history[k].role = IF k % 2 = 1 THEN "user" ELSE "assistant"
             /\ result.history[k].uses # <<>> => result.history[k].text # <<>>

\* All text arrives once and in order, and the history has every supported image that was
\* shown before the current message, each once.
ContentKept ==
    result # Null =>
        LET said == FlattenSeq([k \in DOMAIN Kept |-> Kept[k].content])
            texts == FlattenSeq([k \in DOMAIN result.history |-> result.history[k].text])
                       \o result.text
            sent == FlattenSeq([k \in DOMAIN result.history |-> result.history[k].images])
            shown == {b.image : b \in {x \in BlocksOf(Front(Kept)) :
                                         x.type \in {"image", "tool_result"}}}
                       \ (BadImages \cup {Null})
        IN /\ Pick(texts, {k \in DOMAIN texts : texts[k] \in 1 .. 999})
                = Pick([k \in DOMAIN said |-> IF said[k].type = "text" THEN said[k].text ELSE Null],
                       {k \in DOMAIN said : said[k].type = "text"})
           /\ ToSet(sent) = shown /\ Len(sent) = Cardinality(shown)

\* A request for thinking reaches Kiro once: as a field with an effort the model knows,
\* or as tags in the prompt.  (A system prompt that is there but empty loses it.)
ThinkingRequestedOnce ==
    result # Null /\ req.thinking \in ThinkingOn =>
        LET tagged == \E k \in DOMAIN result.history :
                        result.history[k].role = "user" /\ Contains(result.history[k].text, Prompt)
        IN IF native_reasoning_schema(map_model(req.model)) # <<>>
           THEN Contains(native_reasoning_schema(map_model(req.model)), result.effort) /\ ~tagged
           ELSE result.effort = Null /\ (tagged <=> req.system \in {"none", "given"})
=============================================================================
