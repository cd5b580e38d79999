---------------------------- MODULE MCConverter ----------------------------
(***************************************************************************)
(* Converter with its parameters as constants, and their values for TLC.   *)
(***************************************************************************)
EXTENDS Integers, Sequences, SequencesExt

CONSTANTS LongNames, Shorten(_), Lower(_), Null, Settings, ToolIds, Images, BadImages,
          BrokenImages

VARIABLES req, messages, blocks, result

V == INSTANCE Converter

\* The texts of the client are the numbers below 1000, and an effort is never Null.
ASSUME ConverterAssumption ==
    /\ \A s \in Settings : s.room \in 0 .. 999 /\ s.tools \in Seq(ToSet(s.tools))
    /\ Null \notin {"low", "medium", "high", "xhigh", "max"}

\* The names a client may use: its tools and those of its calls.
NamesOf(s) == ToSet(s.tools) \cup {u.name : u \in s.uses}
KiroNames == {V!Builtin[n] : n \in DOMAIN V!Builtin}

\* The names that Shorten gives are neither names a client uses nor names of Kiro's tools.
ASSUME NamesAssumption ==
    \A s \in Settings : \A m, n \in NamesOf(s) : m \in LongNames =>
        /\ Shorten(m) \notin NamesOf(s) \cup KiroNames
        /\ n \in LongNames /\ Shorten(m) = Shorten(n) => m = n

\* The fields that the tables of ToolNames carry to Kiro and back.
Needed ==
    [Write |-> {"file_path", "content"}, Edit |-> {"file_path", "old_string", "new_string"},
     Bash |-> {"command"}, Read |-> {"file_path"}, Glob |-> {"pattern"}, Grep |-> {"pattern"},
     LS |-> {"path"}, WebSearch |-> {"query"}]
Optional ==
    [Write |-> {}, Edit |-> {}, Bash |-> {"timeout"}, Read |-> {"offset", "limit"}, Glob |-> {},
     Grep |-> {"glob", "case_sensitive"}, LS |-> {}, WebSearch |-> {}]

\* Such fields, none of them null.
KnownFields(name, input) ==
    /\ input = [k \in DOMAIN input |-> input[k]]
    /\ DOMAIN input \subseteq Needed[name] \cup Optional[name]
    /\ \A k \in DOMAIN input : input[k] # Null
    /\ "offset" \in DOMAIN input => input["offset"] \in Int
    /\ "limit" \in DOMAIN input => input["limit"] \in Nat \ {0}

\* Built-in tools are called with such arguments, with none, or with some that Kiro does not
\* support.
ASSUME UsesAssumption ==
    /\ Null \notin Int
    /\ \A s \in Settings : s.mode = "ClaudeCode" =>
         \A u \in s.uses : u.name \in DOMAIN V!Builtin =>
             \/ u.input = <<>> \/ V!Unsupported(u.name, u.input, s.mode)
             \/ KnownFields(u.name, u.input) /\ Needed[u.name] \subseteq DOMAIN u.input

ConverterSpec == V!Spec
-----------------------------------------------------------------------------

MCShorten(name) == IF name = "mcp__long" THEN "mcp_#1" ELSE name
MCLower(name) == IF name = "Foo" THEN "foo" ELSE name

Given(keys, value) == [k \in keys |-> value]

\* Calls a client makes: built-in tools with the arguments Claude Code gives them, tools
\* that differ in case only, a long name, and arguments that cannot be mapped.
MCUses ==
    {[id |-> 1, name |-> "Write", input |-> Given({"file_path", "content"}, "x")],
     [id |-> 1, name |-> "Read",
      input |-> [k \in {"file_path", "offset", "limit"} |-> IF k = "limit" THEN 2 ELSE 3]],
     [id |-> 2, name |-> "Read", input |-> Given({"pages"}, 1)],
     [id |-> 2, name |-> "Foo", input |-> <<>>],
     [id |-> 2, name |-> "foo", input |-> <<>>],
     [id |-> 1, name |-> "mcp__long", input |-> <<>>]}

\* The arguments of every built-in tool in the form the client uses.
OtherUses ==
    {[id |-> 1, name |-> "Edit", input |-> Given({"file_path", "old_string", "new_string"}, "x")],
     [id |-> 1, name |-> "Bash", input |-> Given({"command", "timeout"}, 7)],
     [id |-> 1, name |-> "Read", input |-> Given({"file_path", "limit"}, 5)],
     [id |-> 1, name |-> "Read", input |-> Given({"file_path", "offset"}, 5)],
     [id |-> 1, name |-> "Glob", input |-> Given({"pattern"}, "x")],
     [id |-> 1, name |-> "Grep", input |-> Given({"pattern", "glob", "case_sensitive"}, TRUE)],
     [id |-> 1, name |-> "LS", input |-> Given({"path"}, "x")],
     [id |-> 1, name |-> "WebSearch", input |-> Given({"query"}, "x")]}

Setting(mode, tools, system, thinking, budget, effort, model, uses, room) ==
    [mode |-> mode, tools |-> tools, system |-> system, thinking |-> thinking,
     budget |-> budget, effort |-> effort, model |-> model, uses |-> uses, room |-> room]

\* Long conversations with one setting, short ones with every other.
MCSettings ==
    {Setting("ClaudeCode", <<"Foo", "Write", "mcp__long">>, "none", "none", 0, Null,
             {"sonnet", "4.5"}, MCUses, 4)}
    \cup {Setting(mode, tools, "given", "adaptive", 0, Null, {"haiku"}, MCUses, 3) :
            mode \in {"ClaudeCode", "Raw"},
            tools \in {<<>>, <<"fs_write", "Write">>, <<"fs_append">>}}
    \cup {Setting("ClaudeCode", <<>>, "none", "none", 0, Null, {"haiku"}, OtherUses, 3)}
    \cup {Setting("Raw", <<>>, system, thinking, budget, effort, model, {}, 1) :
            system \in {"none", "empty", "given", "tagged"},
            thinking \in {"none", "disabled", "enabled", "adaptive"},
            budget \in {4000, 64001}, effort \in {Null, "", "xhigh"},
            model \in {{"opus", "4.8"}, {"opus", "4.5", "4.6"}, {"sonnet", "4.6"}, {"haiku"},
                       {"opus"}, {}}}
-----------------------------------------------------------------------------
\* validate_tool_pairing: every call that is sent has one result, in the history or in the
\* current message, whatever the client leaves out, repeats or answers twice.
CallsAnswered == V!CallsAnswered

\* create_placeholder_tool, map_tool_name: every tool that is called is defined, and what Kiro
\* can call is a tool of the client's.
ToolsKnown == V!ToolsKnown

\* map_tool_input_to_kiro: a call fits the schema Kiro has for the tool, and
\* restore_tool_use_for_client gives back what the client said.
CallsSurvive == V!CallsSurvive

\* build_history: roles alternate and the history ends with an answer.
HistoryAlternates == V!HistoryAlternates

\* process_message_content: all text arrives once and in order, and the history has every
\* supported image once.
ContentKept == V!ContentKept

\* build_additional_model_request_fields: a request for thinking reaches Kiro once.
ThinkingRequestedOnce == V!ThinkingRequestedOnce
=============================================================================
