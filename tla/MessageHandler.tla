--------------------------- MODULE MessageHandler ---------------------------
(***************************************************************************)
(* The life of a request to /v1/messages or /cc/v1/messages, from the      *)
(* handler to the last byte: src/anthropic/handlers.rs (the three plain    *)
(* paths), websearch.rs (the direct search) and websearch_loop.rs (the     *)
(* loop that runs searches itself and feeds the results back), with the    *)
(* usage record, the trace and the prompt cache every path settles.        *)
(*                                                                         *)
(* The upstream is external: a call succeeds or fails, a body is a few     *)
(* chunks that end or break off.  What a chunk holds is the sequence of    *)
(* tool calls completed in it, or one whose JSON does not parse.           *)
(***************************************************************************)
EXTENDS CacheMetering

CONSTANTS
  Reqs,           \* requests served in one behaviour
  Candidates,     \* request -> what it may ask for
  MaxRounds,      \* MAX_WEB_SEARCH_ROUNDS
  ChunkContents,  \* tool calls that may be completed in one chunk
  MaxChunks,      \* bound of the model: chunks of one upstream body
  ChannelSize,    \* capacity of the mpsc channel of a streamed search loop
  MaxRestarts     \* bound of the model: restarts of the process

ASSUME RoundsAssumption == MaxRounds \in Nat
ASSUME ChannelAssumption == ChannelSize \in Nat \ {0}

\* MessagesRequest: the tools, the system prompt and the messages; of a piece of
\* text its signature and its tokens.
ToolType == [name : STRING, sig : STRING, tok : Nat, ttl : {"none", "5m", "1h"}]
BlockType == [sig : STRING, tok : Nat, ttl : {"none", "5m", "1h"}]
MessageType == [role : STRING, blocks : Seq(BlockType)]

IsRequest(q) ==
  q \in [endpoint : {"v1", "cc"}, stream : BOOLEAN, query : BOOLEAN, session : {q.session}, key : Nat,
         total : Nat, tools : Seq(ToolType), system : Seq(BlockType), messages : Seq(MessageType)]

ASSUME CandidatesAssumption == \A r \in Reqs : \A q \in Candidates[r] : IsRequest(q)

\* A chunk completes a sequence of tool calls; of each the model keeps the name.
ASSUME ChunkAssumption == ChunkContents \subseteq Seq(STRING)

VARIABLES
  ask,       \* request -> what it asks for
  pc,        \* request -> what the serving task does next
  plan,      \* request -> CacheUsagePlan
  round,     \* request -> round_idx
  body,      \* request -> the upstream body being decoded: [uses, flawed, chunks, searched]
  fed,       \* request -> rounds appended to payload.messages
  content,   \* request -> tool calls and searches in the final content
  records,   \* request -> statuses passed to UsageRecordHook::record
  traces,    \* request -> statuses passed to RequestTracer::finalize
  usage,     \* request -> <<input, creation, read>> recorded
  startup,   \* request -> the oneshot signal of a streamed search loop
  pending,   \* request -> SSE events the spawned task has still to send
  chan,      \* request -> the mpsc channel between task and response
  client,    \* request -> "absent", "waiting", "open", "closed" or "gone"
  got,       \* request -> what the client received
  restarts

jobVars == <<ask, plan, round, fed, content>>
ledgerVars == <<records, traces, usage>>
clientVars == <<startup, pending, chan, client, got>>
vars == <<cacheVars, jobVars, body, ledgerVars, clientVars, pc, restarts>>

\* Nothing decoded yet: no tool calls, none with invalid JSON, no chunk, no
\* search of this round answered.  Also what is left when the locals of
\* decode_round are dropped.
NoBody == [uses |-> <<>>, flawed |-> FALSE, chunks |-> 0, searched |-> 0]

DropsBody(r) == body' = [body EXCEPT ![r] = NoBody]

----------------------------------------------------------------------------
(* Routing *)

\* normalize_web_search_tool: Claude Code's own name for the tool.
WebSearchName(name) == IF name = "WebSearch" THEN "web_search" ELSE name

Normalized(q) ==
  [q EXCEPT !.tools = [i \in DOMAIN q.tools |->
                         [q.tools[i] EXCEPT !.name = WebSearchName(q.tools[i].name)]]]

HasWebSearchTool(q) == Len(q.tools) = 1 /\ q.tools[1].name = "web_search"

HasWebSearchAmongTools(q) ==
  Len(q.tools) > 1 /\ \E i \in DOMAIN q.tools : q.tools[i].name = "web_search"

\* Only a text the client has already rewritten into a query is searched for
\* directly; otherwise the model has to choose the query.
Route(q) ==
  CASE HasWebSearchTool(q) /\ q.query -> "direct"
    [] ~(HasWebSearchTool(q) /\ q.query) /\ (HasWebSearchTool(q) \/ HasWebSearchAmongTools(q))
         -> IF q.stream THEN "loop_sse" ELSE "loop_json"
    [] OTHER -> IF ~q.stream THEN "json"
                ELSE IF q.endpoint = "cc" THEN "buffered" ELSE "sse"

RouteOf(r) == Route(ask[r])
InLoop(r) == RouteOf(r) \in {"loop_sse", "loop_json"}
Streams(r) == RouteOf(r) \in {"sse", "buffered"}

----------------------------------------------------------------------------
(* Settling a request *)

\* UsageRecordHook::record and RequestTracer::finalize.
Recorded1(r, status) == records' = [records EXCEPT ![r] = Append(@, status)]
Traced(r, status) == traces' = [traces EXCEPT ![r] = Append(@, status)]

\* The prompt's tokens are contextUsage's or the estimate of count_all_tokens,
\* neither of which is what the cache plan estimates with.
RecordsUsage(r) ==
  usage' = [usage EXCEPT ![r] = SplitAgainstTotal(plan[r], ask[r].total)]

\* Paths that fail without a decoded body charge everything as input.
RecordsInput(r) ==
  usage' = [usage EXCEPT ![r] = <<ask[r].total, 0, 0>>]

\* The success of every path: the record, the commit, then the trace.
SettleSuccess(r) ==
  /\ Recorded1(r, "success")
  /\ RecordsUsage(r)
  /\ CommitSuccess(plan[r])
  /\ Traced(r, "success")
  /\ UNCHANGED <<writing, disk, now>>

SettleError(r, final) ==
  /\ Recorded1(r, "error")
  /\ Traced(r, final)
  /\ UNCHANGED cacheVars

\* The handler returns a complete response.
Responds(r, what) ==
  /\ client' = [client EXCEPT ![r] = "closed"]
  /\ got' = [got EXCEPT ![r] = Append(@, what)]
  /\ pc' = [pc EXCEPT ![r] = "ended"]
  /\ UNCHANGED <<startup, pending, chan>>

----------------------------------------------------------------------------
(* Arrival *)

\* post_messages before the plan: too many or too large images, or no provider.
RejectEarly(r) ==
  /\ pc[r] = "new"
  /\ \E q \in Candidates[r] : ask' = [ask EXCEPT ![r] = Normalized(q)]
  /\ Recorded1(r, "error")
  /\ Responds(r, "error_status")
  /\ UNCHANGED <<cacheVars, plan, round, body, fed, content, traces, usage, restarts>>

\* The cache is looked up before the request is routed.  A direct search goes
\* to the MCP endpoint, every other request is converted first.
Accept(r) ==
  /\ pc[r] = "new"
  /\ \E q \in Candidates[r] :
       /\ ask' = [ask EXCEPT ![r] = Normalized(q)]
       /\ LET segs == ExtractSegments(Normalized(q))
          IN /\ plan' = [plan EXCEPT ![r] = ComputeCacheUsage(Normalized(q), segs)]
             /\ entries' = Touched({segs[i].hash : i \in DOMAIN segs})
       /\ pc' = [pc EXCEPT ![r] = IF Route(Normalized(q)) = "direct" THEN "mcp" ELSE "convert"]
  /\ client' = [client EXCEPT ![r] = "waiting"]
  /\ UNCHANGED <<dirty, writing, disk, now, round, body, fed, content, ledgerVars, startup, pending,
                 chan, got, restarts>>

\* handle_websearch_request: whatever the search returns, a failure too, the
\* client gets a complete stream of events and the request counts as a success.
DirectSearch(r) ==
  /\ pc[r] = "mcp"
  /\ SettleSuccess(r)
  /\ Responds(r, "final")
  /\ UNCHANGED <<jobVars, body, restarts>>

----------------------------------------------------------------------------
(* The end of a search loop: run_web_search_loop and render_deferred_sse *)

\* Mutant: the error response is sent although the stream has started.
LoopErrorIgnoresStart(r) ==
  IF RouteOf(r) = "loop_json" THEN Responds(r, "error_status")
  ELSE /\ startup' = [startup EXCEPT ![r] = "failed"]
       /\ pc' = [pc EXCEPT ![r] = "ended"]
       /\ UNCHANGED <<pending, chan, client, got>>

\* run_web_search_loop_inner returned an error response.  Before the stream has
\* started the client gets it with its status, afterwards as an event.
LoopReturnsError(r) ==
  IF RouteOf(r) = "loop_json" THEN Responds(r, "error_status")
  ELSE IF startup[r] = "none"
       THEN /\ startup' = [startup EXCEPT ![r] = "failed"]
            /\ pc' = [pc EXCEPT ![r] = "ended"]
            /\ UNCHANGED <<pending, chan, client, got>>
       ELSE /\ pending' = [pending EXCEPT ![r] = <<"error_event">>]
            /\ pc' = [pc EXCEPT ![r] = "send"]
            /\ UNCHANGED <<startup, chan, client, got>>

\* build_sse_events: the start of the message and its blocks, and its end.
LoopEvents == <<"message", "final">>

\* Mutant: the final flush does not signal the start.
LoopSuccessUnsignalled(r) ==
  IF RouteOf(r) = "loop_json" THEN Responds(r, "final")
  ELSE /\ pending' = [pending EXCEPT ![r] = LoopEvents]
       /\ pc' = [pc EXCEPT ![r] = "send"]
       /\ UNCHANGED <<startup, chan, client, got>>

LoopReturnsSuccess(r) ==
  IF RouteOf(r) = "loop_json" THEN Responds(r, "final")
  ELSE /\ startup' = [startup EXCEPT ![r] = "started"]
       /\ pending' = [pending EXCEPT ![r] = LoopEvents]
       /\ pc' = [pc EXCEPT ![r] = "send"]
       /\ UNCHANGED <<chan, client, got>>

----------------------------------------------------------------------------
(* Conversion and the upstream call *)

\* Plain paths answer before a tracer exists; a round of the loop has one.
ConversionFails(r) ==
  /\ pc[r] = "convert"
  /\ Recorded1(r, "error")
  /\ IF InLoop(r) THEN Traced(r, "error") /\ LoopReturnsError(r)
     ELSE UNCHANGED traces /\ Responds(r, "error_status")
  /\ UNCHANGED <<cacheVars, jobVars, body, usage, restarts>>

\* The plain streams send their 200 at once and call the upstream when the
\* body is polled.
Convert(r) ==
  /\ pc[r] = "convert"
  /\ pc' = [pc EXCEPT ![r] = "call"]
  /\ client' = [client EXCEPT ![r] = IF Streams(r) THEN "open" ELSE @]
  /\ UNCHANGED <<cacheVars, jobVars, body, ledgerVars, startup, pending, chan, got, restarts>>

CallFails(r) ==
  /\ pc[r] = "call"
  /\ SettleError(r, "error") /\ RecordsInput(r)
  /\ IF InLoop(r) THEN LoopReturnsError(r)
     ELSE Responds(r, IF Streams(r) THEN "error_event" ELSE "error_status")
  /\ UNCHANGED <<jobVars, body, restarts>>

CallAnswers(r) ==
  /\ pc[r] = "call"
  /\ pc' = [pc EXCEPT ![r] = "body"]
  /\ UNCHANGED <<cacheVars, jobVars, body, ledgerVars, clientVars, restarts>>

\* What a chunk adds: tool calls, or one whose JSON does not parse.
Decodes(r) ==
  /\ pc[r] = "body"
  /\ body[r].chunks < MaxChunks
  /\ \/ \E c \in ChunkContents :
          body' = [body EXCEPT ![r].uses = @ \o c, ![r].chunks = @ + 1]
     \/ body' = [body EXCEPT ![r].flawed = TRUE, ![r].chunks = @ + 1]
  /\ UNCHANGED <<cacheVars, jobVars, ledgerVars, pc, pending, client, restarts>>

\* The client receives something with the first chunk of a body.
FirstChunkSends(r, what) ==
  /\ got' = [got EXCEPT ![r] = IF body[r].chunks = 0 THEN Append(@, what) ELSE @]
  /\ UNCHANGED <<startup, chan>>

\* create_sse_stream holds the initial events back until the first chunk.
StreamChunk(r) == RouteOf(r) = "sse" /\ Decodes(r) /\ FirstChunkSends(r, "message")

\* create_buffered_sse_stream sends a ping and keeps every event.
BufferedChunk(r) == RouteOf(r) = "buffered" /\ Decodes(r) /\ FirstChunkSends(r, "ping")

JsonChunk(r) == RouteOf(r) = "json" /\ Decodes(r) /\ UNCHANGED <<startup, chan, got>>

\* StreamFirstByteMarker: a ping and then the startup signal, once over all
\* rounds; whether the receiver still exists does not matter.
MarkFirstChunk(r) ==
  IF RouteOf(r) = "loop_sse" /\ startup[r] = "none"
  THEN /\ chan' = [chan EXCEPT ![r] = IF client[r] = "gone" THEN @ ELSE Append(@, "ping")]
       /\ startup' = [startup EXCEPT ![r] = "started"]
       /\ UNCHANGED got
  ELSE UNCHANGED <<startup, chan, got>>

\* decode_round.
LoopChunk(r) == InLoop(r) /\ Decodes(r) /\ MarkFirstChunk(r)

\* The keep-alive of the plain streams, never before the first chunk.  The
\* model sends one in a row.
Ping(r) ==
  /\ pc[r] = "body" /\ Streams(r)
  /\ body[r].chunks > 0 /\ Last(got[r]) # "ping"
  /\ got' = [got EXCEPT ![r] = Append(@, "ping")]
  /\ UNCHANGED <<cacheVars, jobVars, body, ledgerVars, pc, startup, pending, chan, client, restarts>>

----------------------------------------------------------------------------
(* The end of a body *)

\* What all plain paths do when the body has ended: invalid tool JSON is an
\* error and charged, anything else a success.
SettleBody(r) ==
  /\ pc[r] = "body"
  /\ IF body[r].flawed THEN SettleError(r, "error") /\ RecordsUsage(r) ELSE SettleSuccess(r)
  /\ content' = [content EXCEPT ![r] = [tools |-> body[r].uses, searches |-> 0]]
  /\ DropsBody(r)
  /\ UNCHANGED <<ask, plan, round, fed, restarts>>

\* generate_final_events closes the message; invalid tool JSON adds an error.
ClosingEvents(r) == IF body[r].flawed THEN "error_event" ELSE "final"

StreamBodyEnds(r) == RouteOf(r) = "sse" /\ SettleBody(r) /\ Responds(r, ClosingEvents(r))

\* finish_and_get_all_events: the whole message at once.
BufferedBodyEnds(r) == RouteOf(r) = "buffered" /\ SettleBody(r) /\ Responds(r, ClosingEvents(r))

JsonBodyEnds(r) ==
  /\ RouteOf(r) = "json"
  /\ SettleBody(r)
  /\ Responds(r, IF body[r].flawed THEN "error_status" ELSE "final")

\* A broken plain stream is closed with the same events as one that ended.
BrokenStream(r) ==
  /\ pc[r] = "body"
  /\ SettleError(r, "interrupted") /\ RecordsUsage(r)
  /\ Responds(r, ClosingEvents(r))
  /\ DropsBody(r)
  /\ UNCHANGED <<jobVars, restarts>>

StreamBodyBreaks(r) == RouteOf(r) = "sse" /\ BrokenStream(r)

BufferedBodyBreaks(r) == RouteOf(r) = "buffered" /\ BrokenStream(r)

JsonBodyBreaks(r) ==
  /\ pc[r] = "body" /\ RouteOf(r) = "json"
  /\ SettleError(r, "interrupted") /\ RecordsInput(r)
  /\ Responds(r, "error_status")
  /\ DropsBody(r)
  /\ UNCHANGED <<jobVars, restarts>>

\* run_round: invalid tool JSON is reported before a broken body.
RoundFails(r) ==
  /\ pc[r] = "body" /\ InLoop(r)
  /\ \/ body[r].flawed /\ SettleError(r, "error")
     \/ ~body[r].flawed /\ SettleError(r, "interrupted")
  /\ RecordsInput(r)
  /\ LoopReturnsError(r)
  /\ DropsBody(r)
  /\ UNCHANGED <<jobVars, restarts>>

\* Mutant: one search among the calls is enough.
SearchBesideOtherCalls(r) ==
  /\ \E i \in DOMAIN body[r].uses : body[r].uses[i] = "web_search"
  /\ round[r] < MaxRounds

\* Every call is a search, there is at least one, and the limit is not reached.
ShouldSearchRound(r) ==
  /\ body[r].uses # <<>>
  /\ \A i \in DOMAIN body[r].uses : body[r].uses[i] = "web_search"
  /\ round[r] < MaxRounds

RoundSearches(r) ==
  /\ pc[r] = "body" /\ InLoop(r) /\ ~body[r].flawed
  /\ ShouldSearchRound(r)
  /\ pc' = [pc EXCEPT ![r] = "search"]
  /\ UNCHANGED <<cacheVars, jobVars, body, ledgerVars, clientVars, restarts>>

\* The final content: the searches of all rounds, then the calls of this one.
RoundFlushes(r) ==
  /\ pc[r] = "body" /\ InLoop(r) /\ ~body[r].flawed
  /\ ~ShouldSearchRound(r)
  /\ content' = [content EXCEPT ![r] =
                   [tools |-> body[r].uses,
                    searches |-> SumFunction([k \in DOMAIN fed[r] |-> fed[r][k].results])]]
  /\ SettleSuccess(r)
  /\ LoopReturnsSuccess(r)
  /\ DropsBody(r)
  /\ UNCHANGED <<ask, plan, round, fed, restarts>>

\* One MCP call after the other; an empty answer is an answer.  After the last
\* one append_search_round feeds calls and results back.
SearchAnswers(r) ==
  /\ pc[r] = "search"
  /\ IF body[r].searched + 1 < Len(body[r].uses)
     THEN /\ body' = [body EXCEPT ![r].searched = @ + 1]
          /\ UNCHANGED <<fed, round, pc>>
     ELSE /\ fed' = [fed EXCEPT ![r] = Append(@, [uses |-> body[r].uses,
                                                 results |-> body[r].searched + 1])]
          /\ round' = [round EXCEPT ![r] = @ + 1]
          /\ pc' = [pc EXCEPT ![r] = "convert"]
          /\ DropsBody(r)
  /\ UNCHANGED <<cacheVars, ask, plan, content, ledgerVars, clientVars, restarts>>

\* Mutant: the failure is recorded and the loop goes on.
SearchFailureContinues(r) ==
  /\ pc[r] = "search"
  /\ SettleError(r, "error") /\ RecordsInput(r)
  /\ pc' = [pc EXCEPT ![r] = "convert"]
  /\ DropsBody(r)
  /\ UNCHANGED <<jobVars, clientVars, restarts>>

SearchFails(r) ==
  /\ pc[r] = "search"
  /\ SettleError(r, "error") /\ RecordsInput(r)
  /\ LoopReturnsError(r)
  /\ DropsBody(r)
  /\ UNCHANGED <<jobVars, restarts>>

----------------------------------------------------------------------------
(* The streamed search loop's channel and the client *)

\* The spawned task sends until all is sent or the receiver is gone.
SendEvent(r) ==
  /\ pc[r] = "send"
  /\ \/ /\ client[r] = "gone" \/ pending[r] = <<>>
        /\ pc' = [pc EXCEPT ![r] = "ended"]
        /\ UNCHANGED <<pending, chan>>
     \/ /\ client[r] # "gone" /\ pending[r] # <<>> /\ Len(chan[r]) < ChannelSize
        /\ chan' = [chan EXCEPT ![r] = Append(@, Head(pending[r]))]
        /\ pending' = [pending EXCEPT ![r] = Tail(@)]
        /\ UNCHANGED pc
  /\ UNCHANGED <<cacheVars, jobVars, body, ledgerVars, startup, client, got, restarts>>

\* startup_rx.await in render_deferred_sse.
StreamStarts(r) ==
  /\ client[r] = "waiting" /\ startup[r] # "none"
  /\ IF startup[r] = "started"
     THEN client' = [client EXCEPT ![r] = "open"] /\ UNCHANGED got
     ELSE /\ client' = [client EXCEPT ![r] = "closed"]
          /\ got' = [got EXCEPT ![r] = Append(@, "error_status")]
  /\ UNCHANGED <<cacheVars, jobVars, body, ledgerVars, pc, startup, pending, chan, restarts>>

ClientReads(r) ==
  /\ client[r] = "open" /\ chan[r] # <<>>
  /\ got' = [got EXCEPT ![r] = Append(@, Head(chan[r]))]
  /\ chan' = [chan EXCEPT ![r] = Tail(@)]
  /\ UNCHANGED <<cacheVars, jobVars, body, ledgerVars, pc, startup, pending, client, restarts>>

\* The receiver ends when the channel is empty and its senders are dropped.
StreamEnds(r) ==
  /\ client[r] = "open" /\ RouteOf(r) = "loop_sse"
  /\ chan[r] = <<>> /\ pc[r] = "ended"
  /\ client' = [client EXCEPT ![r] = "closed"]
  /\ UNCHANGED <<cacheVars, jobVars, body, ledgerVars, pc, startup, pending, chan, got, restarts>>

\* Mutant: the search loop runs in the handler's future.
DisconnectDropsAll(r) ==
  /\ client[r] \in {"waiting", "open"}
  /\ client' = [client EXCEPT ![r] = "gone"]
  /\ chan' = [chan EXCEPT ![r] = <<>>]
  /\ pc' = [pc EXCEPT ![r] = "ended"]
  /\ DropsBody(r)
  /\ UNCHANGED <<cacheVars, jobVars, ledgerVars, startup, pending, got, restarts>>

\* The connection goes away.  The server drops the handler's future or the body
\* stream, and with it the request; only the spawned task of a search loop
\* runs on.
Disconnect(r) ==
  /\ client[r] \in {"waiting", "open"}
  /\ client' = [client EXCEPT ![r] = "gone"]
  /\ chan' = [chan EXCEPT ![r] = <<>>]
  /\ pc' = [pc EXCEPT ![r] = IF RouteOf(r) = "loop_sse" THEN @ ELSE "ended"]
  /\ IF RouteOf(r) = "loop_sse" THEN UNCHANGED body ELSE DropsBody(r)
  /\ UNCHANGED <<cacheVars, jobVars, ledgerVars, startup, pending, got, restarts>>

----------------------------------------------------------------------------

NoAsk == [endpoint |-> "v1", stream |-> FALSE, query |-> FALSE, session |-> NoSession, key |-> 0,
          total |-> 0, tools |-> <<>>, system |-> <<>>, messages |-> <<>>]

Init ==
  /\ CacheInit
  /\ ask = [r \in Reqs |-> NoAsk]
  /\ pc = [r \in Reqs |-> "new"]
  /\ plan = [r \in Reqs |-> NoPlan]
  /\ round = [r \in Reqs |-> 0]
  /\ body = [r \in Reqs |-> NoBody]
  /\ fed = [r \in Reqs |-> <<>>]
  /\ content = [r \in Reqs |-> [tools |-> <<>>, searches |-> 0]]
  /\ records = [r \in Reqs |-> <<>>]
  /\ traces = [r \in Reqs |-> <<>>]
  /\ usage = [r \in Reqs |-> <<0, 0, 0>>]
  /\ startup = [r \in Reqs |-> "none"]
  /\ pending = [r \in Reqs |-> <<>>]
  /\ chan = [r \in Reqs |-> <<>>]
  /\ client = [r \in Reqs |-> "absent"]
  /\ got = [r \in Reqs |-> <<>>]
  /\ restarts = 0

\* What the process does for a request once it has arrived.
TaskStep(r) ==
  \/ DirectSearch(r)
  \/ ConversionFails(r) \/ Convert(r)
  \/ CallFails(r) \/ CallAnswers(r)
  \/ StreamChunk(r) \/ BufferedChunk(r) \/ JsonChunk(r) \/ LoopChunk(r) \/ Ping(r)
  \/ StreamBodyEnds(r) \/ BufferedBodyEnds(r) \/ JsonBodyEnds(r)
  \/ StreamBodyBreaks(r) \/ BufferedBodyBreaks(r) \/ JsonBodyBreaks(r)
  \/ RoundFails(r) \/ RoundSearches(r) \/ RoundFlushes(r)
  \/ SearchAnswers(r) \/ SearchFails(r)
  \/ SendEvent(r)

\* What the response and a client that stays connected do.
ResponseStep(r) == StreamStarts(r) \/ ClientReads(r) \/ StreamEnds(r)

CacheStep ==
  /\ Snapshot \/ WriteSnapshot \/ Tick
  /\ UNCHANGED <<jobVars, body, ledgerVars, clientVars, pc, restarts>>

\* The process ends and starts again; no request survives it.
Restart ==
  /\ restarts < MaxRestarts
  /\ restarts' = restarts + 1
  /\ ReloadCache
  /\ pc' = [r \in Reqs |-> IF pc[r] = "new" THEN "new" ELSE "ended"]
  /\ client' = [r \in Reqs |-> IF client[r] \in {"waiting", "open"} THEN "gone" ELSE client[r]]
  /\ chan' = [r \in Reqs |-> <<>>]
  /\ pending' = [r \in Reqs |-> <<>>]
  /\ body' = [r \in Reqs |-> NoBody]
  /\ UNCHANGED <<jobVars, ledgerVars, startup, got>>

Next ==
  \/ \E r \in Reqs :
       RejectEarly(r) \/ Accept(r) \/ TaskStep(r) \/ ResponseStep(r) \/ Disconnect(r)
  \/ CacheStep
  \/ Restart

SafetySpec == Init /\ [][Next]_vars

\* Calls and reads upstream have time limits, so every task goes on; a client
\* that stays connected reads.
Fairness == \A r \in Reqs : WF_vars(TaskStep(r)) /\ WF_vars(ResponseStep(r))

Spec == SafetySpec /\ Fairness

----------------------------------------------------------------------------
(* Properties *)

Settled(r) == records[r] # <<>>
Succeeded(r) == records[r] = <<"success">>

\* However a request ends - rejected, converted in vain, broken off upstream, in
\* the middle of a search, with its client gone - its usage is recorded at most
\* once and its trace at most once, with the same verdict; a client that was
\* answered was recorded.
AccountedOnce ==
  \A r \in Reqs :
    /\ Len(records[r]) <= 1 /\ Len(traces[r]) <= 1
    /\ traces[r] # <<>> => Settled(r) /\ (traces[r] = <<"success">> <=> Succeeded(r))
    /\ client[r] = "closed" => Settled(r)

\* A response that ends has told the client how: with the complete message or
\* with an error, last and once.  An error status comes alone, a success ends
\* with the message, and a failed search loop or a failed answer in one piece
\* never looks like a message.
EndsWithVerdict ==
  \A r \in Reqs : client[r] = "closed" =>
    /\ {i \in DOMAIN got[r] : got[r][i] \in {"final", "error_event", "error_status"}}
         = {Len(got[r])}
    /\ Last(got[r]) = "error_status" => Len(got[r]) = 1
    /\ Succeeded(r) => Last(got[r]) = "final"
    /\ InLoop(r) \/ RouteOf(r) = "json" => (Last(got[r]) = "final" => Succeeded(r))

\* A round fed back to the model consists of searches only, each with its
\* result; a call the client has to run is handed to it, and so is a search
\* only beside such a call or when the rounds are used up; the client is shown
\* every search that was made.
SearchesPaired ==
  \A r \in Reqs :
    /\ \A i \in DOMAIN fed[r] :
         /\ fed[r][i].results = Len(fed[r][i].uses)
         /\ ToSet(fed[r][i].uses) = {"web_search"}
    /\ Len(fed[r]) <= MaxRounds
    /\ Succeeded(r) /\ InLoop(r) =>
         /\ ToSet(content[r].tools) = {"web_search"} => Len(fed[r]) = MaxRounds
         /\ content[r].searches = SumFunction([k \in DOMAIN fed[r] |-> Len(fed[r][k].uses)])

\* The three parts recorded for a request add up to its prompt, and what is
\* charged as read from the cache was sent before by a request of the same
\* session, or without one of the same key, that succeeded.
UsageTruthful ==
  \A r \in Reqs : Settled(r) =>
    /\ \A i \in 1..3 : usage[r][i] >= 0
    /\ Succeeded(r) => usage[r][1] + usage[r][2] + usage[r][3] = ask[r].total
    /\ usage[r][3] > 0 =>
         \E d \in Reqs \ {r} :
           /\ Succeeded(d)
           /\ ask[d].session = ask[r].session
           /\ ask[r].session = NoSession => ask[d].key = ask[r].key
           /\ ToSet(plan[d].hashes) \intersect ToSet(plan[r].hashes) # {}

Outcome(r) ==
  IF pc[r] = "new" THEN "idle"
  ELSE IF Settled(r) THEN records[r][1]
  ELSE IF pc[r] = "ended" THEN "lost" ELSE "open"

M == INSTANCE Metering WITH
       outcome <- [r \in Reqs |-> Outcome(r)],
       asks <- [r \in Reqs |-> ToSet(plan[r].hashes)],
       hit <- [r \in Reqs |-> plan[r].hits],
       cached <- DOMAIN entries

\* The handlers, the loop and the table implement Metering: no path settles a
\* request twice or revives one, only a success adds prefixes to the cache, the
\* file brings back none that were not earned, and a request reads only what
\* the cache held when it arrived.
ImplementsMetering == M!Spec

\* Every request ends: the task comes to its end and the client has its answer
\* or is gone.  A task that sent into a channel nobody reads would not.
RequestsEnd ==
  \A r \in Reqs :
    pc[r] # "new" ~> (pc[r] = "ended" /\ client[r] \in {"closed", "gone"})

\* A streamed search loop is accounted for although its client left, unless the
\* process ends.
LoopOutlivesClient ==
  \A r \in Reqs :
    (client[r] = "gone" /\ RouteOf(r) = "loop_sse") ~> (Settled(r) \/ restarts > 0)
=============================================================================
