------------------------------ MODULE ToolNames ------------------------------
(***************************************************************************)
(* Names and arguments of tools (anthropic/converter.rs): what a client's  *)
(* tool call becomes for Kiro, and what a Kiro tool call becomes for the   *)
(* client.  An input is a function from field names to values; Null is the *)
(* JSON null.                                                              *)
(***************************************************************************)
EXTENDS Integers, Sequences, FiniteSets, SequencesExt

CONSTANTS
    LongNames,    \* names longer than TOOL_NAME_MAX_LEN
    Shorten(_),   \* external: truncation and SHA-256, injective on LongNames
    Lower(_),     \* external: to_lowercase
    Null

\* claude_code_tool_name_to_kiro
Builtin ==
    [Write |-> "fs_write", Edit |-> "str_replace", Bash |-> "execute_bash",
     Read |-> "read_file", Glob |-> "file_search", Grep |-> "grep_search",
     LS |-> "list_directory", WebSearch |-> "web_search"]

\* A mapped name and the map of Kiro names to client names after it.  The names
\* of built-in tools never replace an entry, shortened ones do.
Named(name, map) == [name |-> name, map |-> map]
WithEntry(map, k, v) == [x \in DOMAIN map \cup {k} |-> IF x = k THEN v ELSE map[x]]

map_tool_name(name, map) ==
    IF name \notin LongNames THEN Named(name, map)
    ELSE Named(Shorten(name), WithEntry(map, Shorten(name), name))

map_client_tool_name_to_kiro(name, map, mode) ==
    IF mode = "ClaudeCode" /\ name \in DOMAIN Builtin
    THEN LET kiro == Builtin[name]
         IN Named(kiro, IF kiro \in DOMAIN map THEN map ELSE WithEntry(map, kiro, name))
    ELSE map_tool_name(name, map)
-----------------------------------------------------------------------------
(***************************************************************************)
(* Arguments.  A row <<out, in>> copies the first of the fields `in` that  *)
(* is present to the field `out`, unless it is null (take_first and        *)
(* maybe_insert).                                                          *)
(***************************************************************************)
take_first(obj, keys) ==
    LET present == {k \in DOMAIN keys : keys[k] \in DOMAIN obj}
    IN IF present = {} THEN Null ELSE obj[keys[Min(present)]]

maybe_insert(obj, rows) ==
    [out \in {r[1] : r \in {q \in rows : take_first(obj, q[2]) # Null}} |->
        take_first(obj, (CHOOSE r \in rows : r[1] = out)[2])]

Explanation == <<"explanation", <<"explanation">>>>

RowsToKiro ==
    [Write |-> {<<"path", <<"file_path", "path">>>>, <<"text", <<"content", "text">>>>},
     Edit |-> {<<"path", <<"file_path", "path">>>>, <<"oldStr", <<"old_string", "oldStr">>>>,
               <<"newStr", <<"new_string", "newStr">>>>},
     Bash |-> {<<"command", <<"command">>>>, <<"timeout", <<"timeout">>>>},
     Read |-> {<<"path", <<"file_path", "path">>>>, Explanation},
     Glob |-> {<<"query", <<"pattern", "query">>>>,
               <<"excludePattern", <<"excludePattern", "exclude">>>>, Explanation},
     Grep |-> {<<"query", <<"pattern", "query">>>>,
               <<"includePattern", <<"glob", "includePattern">>>>,
               <<"excludePattern", <<"excludePattern", "exclude">>>>,
               <<"caseSensitive", <<"caseSensitive", "case_sensitive">>>>, Explanation},
     LS |-> {<<"path", <<"path">>>>, <<"depth", <<"depth">>>>, Explanation},
     WebSearch |-> {<<"query", <<"query">>>>}]

RowsFromKiro ==
    [Write |-> {<<"file_path", <<"path", "file_path">>>>, <<"content", <<"text", "content">>>>},
     Edit |-> {<<"file_path", <<"path", "file_path">>>>,
               <<"old_string", <<"oldStr", "old_string">>>>,
               <<"new_string", <<"newStr", "new_string">>>>},
     Bash |-> {<<"command", <<"command">>>>, <<"timeout", <<"timeout">>>>},
     Read |-> {<<"file_path", <<"path", "file_path">>>>},
     Glob |-> {<<"pattern", <<"query", "pattern">>>>},
     Grep |-> {<<"pattern", <<"query", "pattern">>>>, <<"glob", <<"includePattern", "glob">>>>,
               <<"case_sensitive", <<"caseSensitive", "case_sensitive">>>>},
     LS |-> {<<"path", <<"path">>>>},
     WebSearch |-> {<<"query", <<"query">>>>}]

\* Schemas of the built-in tools: the fields that must and that may be there.
kiro_builtin_tool_schema ==
    [Write |-> [required |-> {"path", "text"}, optional |-> {}],
     Edit |-> [required |-> {"path", "oldStr", "newStr"}, optional |-> {}],
     Bash |-> [required |-> {"command"}, optional |-> {"timeout"}],
     Read |-> [required |-> {"path", "explanation"}, optional |-> {"start_line", "end_line"}],
     Glob |-> [required |-> {"query", "explanation"},
               optional |-> {"excludePattern", "includeIgnoredFiles"}],
     Grep |-> [required |-> {"query"},
               optional |-> {"caseSensitive", "includePattern", "excludePattern", "explanation"}],
     LS |-> [required |-> {"path", "explanation"}, optional |-> {"depth"}],
     WebSearch |-> [required |-> {"query"}, optional |-> {}]]

\* Fields of `a` and, where `a` has none, of `b`.
Over(a, b) == [k \in DOMAIN a \cup DOMAIN b |-> IF k \in DOMAIN a THEN a[k] ELSE b[k]]
Opt(present, k, v) == IF present THEN [x \in {k} |-> v] ELSE <<>>
Has(obj, k) == k \in DOMAIN obj /\ obj[k] # Null

\* Mutant: end_line is taken for the number of lines after the first one.
lines_to_kiro_off_by_one(obj) ==
    Over(Opt(Has(obj, "offset"), "start_line", obj["offset"]),
         Opt(Has(obj, "limit"), "end_line",
             IF Has(obj, "offset") THEN obj["offset"] + obj["limit"] ELSE obj["limit"]))

\* Lines offset .. offset + limit - 1; the first `limit` lines without an offset.
lines_to_kiro(obj) ==
    Over(Opt(Has(obj, "offset"), "start_line", obj["offset"]),
         Opt(Has(obj, "limit"), "end_line",
             IF Has(obj, "offset") THEN obj["offset"] + obj["limit"] - 1 ELSE obj["limit"]))

lines_from_kiro(obj) ==
    LET limit == IF Has(obj, "start_line") THEN obj["end_line"] - obj["start_line"] + 1
                 ELSE obj["end_line"]
    IN Over(Opt(Has(obj, "start_line"), "offset", obj["start_line"]),
            Opt(Has(obj, "end_line") /\ limit > 0, "limit", limit))

\* includeIgnoredFiles is "yes" or "no" for Kiro.
ignored_to_kiro(obj) ==
    LET v == take_first(obj, <<"includeIgnoredFiles", "include_ignored">>)
    IN Opt(DOMAIN obj \cap {"includeIgnoredFiles", "include_ignored"} # {}, "includeIgnoredFiles",
           CASE v = TRUE -> "yes" [] v = FALSE -> "no" [] OTHER -> v)

\* ToolCompatibilityError: Read has pages, which Kiro does not know.
Unsupported(name, input, mode) ==
    mode = "ClaudeCode" /\ name = "Read" /\ Has(input, "pages")

map_tool_input_to_kiro(name, input, mode) ==
    IF mode # "ClaudeCode" \/ name \notin DOMAIN Builtin THEN input
    ELSE LET out == maybe_insert(input, RowsToKiro[name])
             special == CASE name = "Read" -> lines_to_kiro(input)
                          [] name = "Glob" -> ignored_to_kiro(input)
                          [] OTHER -> <<>>
             explained == Opt(name \in {"Read", "Glob", "LS"}, "explanation", "default")
         IN Over(special, Over(out, explained))

map_tool_input_from_kiro(name, input) ==
    IF name \notin DOMAIN Builtin THEN input
    ELSE Over(maybe_insert(input, RowsFromKiro[name]),
              IF name = "Read" THEN lines_from_kiro(input) ELSE <<>>)

restore_tool_use_for_client(kiro, input, map) ==
    LET name == IF kiro \in DOMAIN map THEN map[kiro] ELSE kiro
    IN [name |-> name, input |-> map_tool_input_from_kiro(name, input)]
=============================================================================
