------------------------ MODULE MessageHandlerProofs ------------------------
(***************************************************************************)
(* Proofs about MessageHandler, for any set of requests, any table and any *)
(* contents of the upstream's bodies: every request is accounted for once, *)
(* the handlers implement Metering, a response that ends has given its     *)
(* client the verdict, the rounds of a search loop are paired, and what is *)
(* charged adds up and was earned.                                         *)
(***************************************************************************)
EXTENDS MessageHandler, SubsequenceProofs, TLAPS

----------------------------------------------------------------------------
(* The kinds of step a request takes *)

\* Where a request has not been settled yet.
Unsettled == {"new", "mcp", "convert", "call", "body", "search"}

PcValues == Unsettled \union {"send", "ended"}
ClientValues == {"absent", "waiting", "open", "closed", "gone"}
StartupValues == {"none", "started", "failed"}
Verdicts == {"success", "error"}

\* What a settled request leaves its response in: answered, failed before its
\* stream has started, or with events to send.
Concludes(r) ==
  \/ /\ pc' = [pc EXCEPT ![r] = "ended"]
     /\ client' = [client EXCEPT ![r] = "closed"]
     /\ UNCHANGED startup
  \/ /\ pc' = [pc EXCEPT ![r] = "ended"]
     /\ startup' = [startup EXCEPT ![r] = "failed"]
     /\ UNCHANGED client
  \/ /\ pc' = [pc EXCEPT ![r] = "send"]
     /\ startup' = startup \/ startup' = [startup EXCEPT ![r] = "started"]
     /\ UNCHANGED client

SettlesWell(r) ==
  /\ records' = [records EXCEPT ![r] = Append(@, "success")]
  /\ traces' = [traces EXCEPT ![r] = Append(@, "success")]
  /\ CommitSuccess(plan[r])
  /\ pc[r] # "new"

SettlesBadly(r) ==
  /\ records' = [records EXCEPT ![r] = Append(@, "error")]
  /\ \/ UNCHANGED traces
     \/ \E t \in {"error", "interrupted"} : traces' = [traces EXCEPT ![r] = Append(@, t)]
  /\ UNCHANGED entries

SettleKind(r) ==
  /\ pc[r] \in Unsettled
  /\ SettlesWell(r) \/ SettlesBadly(r)
  /\ Concludes(r)
  /\ UNCHANGED <<writing, disk, plan>>

\* A request goes on and nothing is accounted.
MoveKind(r) ==
  /\ pc[r] \in Unsettled \ {"new"}
  /\ pc' = pc \/ \E p \in Unsettled \ {"new"} : pc' = [pc EXCEPT ![r] = p]
  /\ client' = client \/ client' = [client EXCEPT ![r] = "open"]
  /\ startup' = startup \/ startup' = [startup EXCEPT ![r] = "started"]
  /\ UNCHANGED <<entries, writing, disk, plan, records, traces>>

\* The spawned task sends, or the client receives.
ReplyKind(r) ==
  /\ \/ pc' = pc
     \/ pc[r] = "send" /\ pc' = [pc EXCEPT ![r] = "ended"]
  /\ \/ client' = client
     \/ client[r] = "waiting" /\ startup[r] # "failed" /\ client' = [client EXCEPT ![r] = "open"]
     \/ /\ \/ startup[r] = "failed"
           \/ pc[r] = "ended" /\ client[r] = "open"
        /\ client' = [client EXCEPT ![r] = "closed"]
  /\ UNCHANGED <<entries, writing, disk, plan, records, traces, startup>>

LeaveKind(r) ==
  /\ client[r] \in {"waiting", "open"}
  /\ client' = [client EXCEPT ![r] = "gone"]
  /\ pc' = pc \/ pc' = [pc EXCEPT ![r] = "ended"]
  /\ UNCHANGED <<entries, writing, disk, plan, records, traces, startup>>

ShapeOK ==
  /\ pc \in [Reqs -> PcValues]
  /\ client \in [Reqs -> ClientValues]
  /\ startup \in [Reqs -> StartupValues]
  /\ plan = [r \in Reqs |-> plan[r]]
  /\ records = [r \in Reqs |-> records[r]]
  /\ traces = [r \in Reqs |-> traces[r]]

\* A successful end of the handlers that return a complete response.
LEMMA RespondsConcludes ==
    ASSUME NEW r \in Reqs, NEW what, Responds(r, what)
    PROVE  Concludes(r)
BY DEF Responds, Concludes

LEMMA LoopErrorConcludes ==
    ASSUME NEW r \in Reqs, LoopReturnsError(r)
    PROVE  Concludes(r)
BY RespondsConcludes DEF LoopReturnsError, Concludes

LEMMA LoopSuccessConcludes ==
    ASSUME NEW r \in Reqs, LoopReturnsSuccess(r)
    PROVE  Concludes(r)
BY RespondsConcludes DEF LoopReturnsSuccess, Concludes

LEMMA SettleSuccessKind ==
    ASSUME NEW r \in Reqs, pc[r] \in Unsettled, pc[r] # "new", SettleSuccess(r), Concludes(r),
           UNCHANGED plan
    PROVE  SettleKind(r)
BY DEF SettleSuccess, Recorded1, Traced, SettlesWell, SettleKind

LEMMA SettleErrorKind ==
    ASSUME NEW r \in Reqs, pc[r] \in Unsettled, NEW t \in {"error", "interrupted"},
           SettleError(r, t), Concludes(r), UNCHANGED plan
    PROVE  SettleKind(r)
BY DEF SettleError, Recorded1, Traced, SettlesBadly, SettleKind, cacheVars

LEMMA BodyKind ==
    ASSUME NEW r \in Reqs, NEW what, SettleBody(r), Responds(r, what)
    PROVE  SettleKind(r)
<1>1. pc[r] \in Unsettled /\ pc[r] # "new" /\ plan' = plan /\ Concludes(r)
  BY RespondsConcludes DEF SettleBody, Unsettled
<1>2. SettleError(r, "error") \/ SettleSuccess(r)
  BY DEF SettleBody
<1> QED
  BY <1>1, <1>2, SettleErrorKind, SettleSuccessKind

LEMMA SettlingKinds ==
    ASSUME NEW r \in Reqs,
           \/ RejectEarly(r) \/ DirectSearch(r) \/ ConversionFails(r) \/ CallFails(r)
           \/ StreamBodyEnds(r) \/ BufferedBodyEnds(r) \/ JsonBodyEnds(r)
           \/ StreamBodyBreaks(r) \/ BufferedBodyBreaks(r) \/ JsonBodyBreaks(r)
           \/ RoundFails(r) \/ RoundFlushes(r) \/ SearchFails(r)
    PROVE  SettleKind(r)
<1>1. CASE RejectEarly(r)
  BY <1>1, RespondsConcludes DEF RejectEarly, Recorded1, SettleKind, SettlesBadly, Unsettled, cacheVars
<1>2. CASE DirectSearch(r)
  <2>1. pc[r] \in Unsettled /\ pc[r] # "new" /\ plan' = plan /\ Concludes(r)
    BY <1>2, RespondsConcludes DEF DirectSearch, Unsettled, jobVars
  <2> QED
    BY <1>2, <2>1, SettleSuccessKind DEF DirectSearch
<1>3. CASE ConversionFails(r)
  <2>1. Concludes(r)
    BY <1>3, RespondsConcludes, LoopErrorConcludes DEF ConversionFails
  <2> QED
    BY <1>3, <2>1 DEF ConversionFails, Recorded1, Traced, SettleKind, SettlesBadly, Unsettled,
                      cacheVars, jobVars
<1>4. CASE CallFails(r)
  <2>1. pc[r] \in Unsettled /\ plan' = plan /\ Concludes(r)
    BY <1>4, RespondsConcludes, LoopErrorConcludes DEF CallFails, Unsettled, jobVars
  <2> QED
    BY <1>4, <2>1, SettleErrorKind DEF CallFails
<1>5. CASE StreamBodyEnds(r) \/ BufferedBodyEnds(r)
  BY <1>5, BodyKind DEF StreamBodyEnds, BufferedBodyEnds
<1>6. CASE JsonBodyEnds(r)
  BY <1>6, BodyKind DEF JsonBodyEnds
<1>7. CASE StreamBodyBreaks(r) \/ BufferedBodyBreaks(r)
  <2>1. BrokenStream(r)
    BY <1>7 DEF StreamBodyBreaks, BufferedBodyBreaks
  <2>2. pc[r] \in Unsettled /\ plan' = plan /\ Concludes(r) /\ SettleError(r, "interrupted")
    BY <2>1, RespondsConcludes DEF BrokenStream, Unsettled, jobVars
  <2> QED
    BY <2>2, SettleErrorKind
<1>8. CASE JsonBodyBreaks(r)
  <2>1. pc[r] \in Unsettled /\ plan' = plan /\ Concludes(r)
    BY <1>8, RespondsConcludes DEF JsonBodyBreaks, Unsettled, jobVars
  <2> QED
    BY <1>8, <2>1, SettleErrorKind DEF JsonBodyBreaks
<1>9. CASE RoundFails(r)
  <2>1. pc[r] \in Unsettled /\ plan' = plan /\ Concludes(r)
    BY <1>9, LoopErrorConcludes DEF RoundFails, Unsettled, jobVars
  <2> QED
    BY <1>9, <2>1, SettleErrorKind DEF RoundFails
<1>10. CASE RoundFlushes(r)
  <2>1. pc[r] \in Unsettled /\ pc[r] # "new" /\ plan' = plan /\ Concludes(r)
    BY <1>10, LoopSuccessConcludes DEF RoundFlushes, Unsettled
  <2> QED
    BY <1>10, <2>1, SettleSuccessKind DEF RoundFlushes
<1>11. CASE SearchFails(r)
  <2>1. pc[r] \in Unsettled /\ plan' = plan /\ Concludes(r)
    BY <1>11, LoopErrorConcludes DEF SearchFails, Unsettled, jobVars
  <2> QED
    BY <1>11, <2>1, SettleErrorKind DEF SearchFails
<1> QED
  BY <1>1, <1>2, <1>3, <1>4, <1>5, <1>6, <1>7, <1>8, <1>9, <1>10, <1>11

LEMMA ChunkKind ==
    ASSUME NEW r \in Reqs, Decodes(r), UNCHANGED startup
    PROVE  MoveKind(r)
BY DEF Decodes, MoveKind, Unsettled, cacheVars, jobVars, ledgerVars

LEMMA MovingKinds ==
    ASSUME NEW r \in Reqs, ShapeOK,
           \/ Convert(r) \/ CallAnswers(r)
           \/ StreamChunk(r) \/ BufferedChunk(r) \/ JsonChunk(r) \/ LoopChunk(r) \/ Ping(r)
           \/ RoundSearches(r) \/ SearchAnswers(r)
    PROVE  MoveKind(r)
<1>1. CASE Convert(r)
  <2>1. client' = client \/ client' = [client EXCEPT ![r] = "open"]
    <3>1. CASE Streams(r)
      BY <1>1, <3>1 DEF Convert
    <3>2. CASE ~Streams(r)
      BY <1>1, <3>2 DEF Convert, ShapeOK
    <3> QED
      BY <3>1, <3>2
  <2> QED
    BY <1>1, <2>1 DEF Convert, MoveKind, Unsettled, cacheVars, jobVars, ledgerVars
<1>2. CASE CallAnswers(r) \/ Ping(r) \/ RoundSearches(r) \/ SearchAnswers(r)
  BY <1>2 DEF CallAnswers, Ping, RoundSearches, SearchAnswers, MoveKind, Unsettled, cacheVars,
              jobVars, ledgerVars, clientVars
<1>3. CASE StreamChunk(r) \/ BufferedChunk(r) \/ JsonChunk(r)
  BY <1>3, ChunkKind DEF StreamChunk, BufferedChunk, JsonChunk, FirstChunkSends
<1>4. CASE LoopChunk(r)
  BY <1>4 DEF LoopChunk, MarkFirstChunk, Decodes, MoveKind, Unsettled, cacheVars, jobVars, ledgerVars
<1> QED
  BY <1>1, <1>2, <1>3, <1>4

LEMMA ReplyKinds ==
    ASSUME NEW r \in Reqs, ShapeOK, SendEvent(r) \/ ResponseStep(r)
    PROVE  ReplyKind(r)
<1>1. CASE SendEvent(r)
  BY <1>1 DEF SendEvent, ReplyKind, cacheVars, jobVars, ledgerVars
<1>2. CASE StreamStarts(r)
  <2>1. startup[r] \in {"started", "failed"}
    BY <1>2 DEF StreamStarts, ShapeOK, StartupValues
  <2> QED
    BY <1>2, <2>1 DEF StreamStarts, ReplyKind, cacheVars, jobVars, ledgerVars
<1>3. CASE ClientReads(r) \/ StreamEnds(r)
  BY <1>3 DEF ClientReads, StreamEnds, ReplyKind, cacheVars, jobVars, ledgerVars
<1> QED
  BY <1>1, <1>2, <1>3 DEF ResponseStep

LEMMA LeaveKinds ==
    ASSUME NEW r \in Reqs, ShapeOK, Disconnect(r)
    PROVE  LeaveKind(r)
<1>1. pc' = pc \/ pc' = [pc EXCEPT ![r] = "ended"]
  <2>1. CASE RouteOf(r) = "loop_sse"
    BY <2>1 DEF Disconnect, ShapeOK
  <2>2. CASE RouteOf(r) # "loop_sse"
    BY <2>2 DEF Disconnect
  <2> QED
    BY <2>1, <2>2
<1> QED
  BY <1>1 DEF Disconnect, LeaveKind, cacheVars, jobVars, ledgerVars

----------------------------------------------------------------------------
(* Accounting *)

LedgerOK(r) ==
  /\ records[r] \in {<<>>, <<"success">>, <<"error">>}
  /\ \/ traces[r] = <<>>
     \/ records[r] = <<"success">> /\ traces[r] = <<"success">>
     \/ records[r] = <<"error">> /\ traces[r] \in {<<"error">>, <<"interrupted">>}
  /\ pc[r] \in Unsettled => records[r] = <<>>
  /\ pc[r] = "new" => client[r] = "absent"
  /\ \/ pc[r] = "send"
     \/ startup[r] = "failed"
     \/ client[r] = "closed"
     \/ pc[r] = "ended" /\ client[r] \in {"waiting", "open"}
     => Settled(r)

BookInv == ShapeOK /\ \A r \in Reqs : LedgerOK(r)

\* What the books of a request say depends on its own state only.
LEMMA Local ==
    ASSUME NEW q \in Reqs, LedgerOK(q), pc'[q] = pc[q], client'[q] = client[q],
           startup'[q] = startup[q], records'[q] = records[q], traces'[q] = traces[q]
    PROVE  LedgerOK(q)'
BY DEF LedgerOK, Settled

LEMMA SettleBooks ==
    ASSUME BookInv, NEW r \in Reqs, SettleKind(r)
    PROVE  BookInv'
<1>1. records[r] = <<>> /\ traces[r] = <<>>
  BY DEF BookInv, LedgerOK, SettleKind
<1>2. ShapeOK'
  <2>1. pc' \in [Reqs -> PcValues] /\ client' \in [Reqs -> ClientValues] /\ startup' \in [Reqs -> StartupValues]
    BY DEF BookInv, ShapeOK, SettleKind, Concludes, PcValues, ClientValues, StartupValues
  <2> QED
    BY <2>1 DEF BookInv, ShapeOK, SettleKind, SettlesWell, SettlesBadly
<1>3. \/ records'[r] = <<"success">> /\ traces'[r] = <<"success">>
      \/ records'[r] = <<"error">> /\ traces'[r] \in {<<>>, <<"error">>, <<"interrupted">>}
  BY <1>1 DEF BookInv, ShapeOK, SettleKind, SettlesWell, SettlesBadly
<1>4. pc'[r] \in {"send", "ended"}
  BY DEF BookInv, ShapeOK, SettleKind, Concludes
<1>5. LedgerOK(r)'
  <2>1. records'[r] # <<>>
    BY <1>3
  <2>2. pc'[r] \notin Unsettled /\ pc'[r] # "new"
    BY <1>4 DEF Unsettled
  <2> QED
    BY <1>3, <2>1, <2>2 DEF LedgerOK, Settled
<1>6. ASSUME NEW q \in Reqs, q # r PROVE LedgerOK(q)'
  <2>1. records'[q] = records[q] /\ traces'[q] = traces[q]
    BY <1>6 DEF BookInv, ShapeOK, SettleKind, SettlesWell, SettlesBadly
  <2>2. pc'[q] = pc[q] /\ client'[q] = client[q] /\ startup'[q] = startup[q]
    BY <1>6 DEF BookInv, ShapeOK, SettleKind, Concludes
  <2> QED
    BY <2>1, <2>2, Local DEF BookInv
<1> QED
  BY <1>2, <1>5, <1>6 DEF BookInv

LEMMA QuietBooks ==
    ASSUME BookInv, NEW r \in Reqs, MoveKind(r) \/ ReplyKind(r) \/ LeaveKind(r)
    PROVE  BookInv'
<1>1. ShapeOK'
  BY DEF BookInv, ShapeOK, MoveKind, ReplyKind, LeaveKind, PcValues, ClientValues, StartupValues,
         Unsettled
<1>2. ASSUME NEW q \in Reqs, q # r PROVE LedgerOK(q)'
  BY <1>2, Local DEF BookInv, ShapeOK, MoveKind, ReplyKind, LeaveKind
<1>3. LedgerOK(r)'
  <2>1. CASE MoveKind(r)
    BY <2>1 DEF BookInv, ShapeOK, MoveKind, LedgerOK, Settled, Unsettled, ClientValues
  <2>2. CASE ReplyKind(r)
    BY <2>2 DEF BookInv, ShapeOK, ReplyKind, LedgerOK, Settled, Unsettled
  <2>3. CASE LeaveKind(r)
    BY <2>3 DEF BookInv, ShapeOK, LeaveKind, LedgerOK, Settled, Unsettled
  <2> QED
    BY <2>1, <2>2, <2>3
<1> QED
  BY <1>1, <1>2, <1>3 DEF BookInv

LEMMA AcceptBooks ==
    ASSUME BookInv, NEW r \in Reqs, Accept(r)
    PROVE  BookInv'
<1>1. PICK p \in {"mcp", "convert"} : pc' = [pc EXCEPT ![r] = p]
  BY DEF Accept
<1>2. client' = [client EXCEPT ![r] = "waiting"] /\ UNCHANGED <<startup, records, traces>> /\ pc[r] = "new"
  BY DEF Accept, ledgerVars
<1>3. plan' = [q \in Reqs |-> plan'[q]]
  BY DEF Accept, BookInv, ShapeOK
<1>4. ShapeOK'
  BY <1>1, <1>2, <1>3 DEF BookInv, ShapeOK, PcValues, ClientValues, Unsettled
<1>5. ASSUME NEW q \in Reqs, q # r PROVE LedgerOK(q)'
  BY <1>1, <1>2, <1>5, Local DEF BookInv, ShapeOK
<1>6. LedgerOK(r)'
  BY <1>1, <1>2 DEF BookInv, ShapeOK, LedgerOK, Settled, Unsettled
<1> QED
  BY <1>4, <1>5, <1>6 DEF BookInv

LEMMA RestartBooks ==
    ASSUME BookInv, Restart
    PROVE  BookInv'
<1>1. ShapeOK'
  BY DEF BookInv, ShapeOK, Restart, PcValues, ClientValues, Unsettled, jobVars, ledgerVars
<1>2. ASSUME NEW q \in Reqs PROVE LedgerOK(q)'
  <2>1. /\ pc'[q] = IF pc[q] = "new" THEN "new" ELSE "ended"
        /\ client'[q] = IF client[q] \in {"waiting", "open"} THEN "gone" ELSE client[q]
        /\ records'[q] = records[q] /\ traces'[q] = traces[q] /\ startup'[q] = startup[q]
    BY DEF Restart, ledgerVars
  <2> QED
    BY <2>1 DEF BookInv, LedgerOK, Settled, Unsettled
<1> QED
  BY <1>1, <1>2 DEF BookInv

LEMMA CacheBooks ==
    ASSUME BookInv, CacheStep \/ UNCHANGED vars
    PROVE  BookInv'
BY DEF BookInv, ShapeOK, LedgerOK, Settled, CacheStep, vars, jobVars, ledgerVars, clientVars

LEMMA RequestKinds ==
    ASSUME BookInv, NEW r \in Reqs,
           RejectEarly(r) \/ TaskStep(r) \/ ResponseStep(r) \/ Disconnect(r)
    PROVE  SettleKind(r) \/ MoveKind(r) \/ ReplyKind(r) \/ LeaveKind(r)
BY SettlingKinds, MovingKinds, ReplyKinds, LeaveKinds DEF TaskStep, BookInv

LEMMA NextBooks == BookInv /\ [Next]_vars => BookInv'
<1> SUFFICES ASSUME BookInv, [Next]_vars PROVE BookInv'
  OBVIOUS
<1>1. ASSUME NEW r \in Reqs, RejectEarly(r) \/ TaskStep(r) \/ ResponseStep(r) \/ Disconnect(r)
      PROVE  BookInv'
  BY <1>1, RequestKinds, SettleBooks, QuietBooks
<1> QED
  BY <1>1, AcceptBooks, RestartBooks, CacheBooks DEF Next

LEMMA InitBooks == Init => BookInv
<1> SUFFICES ASSUME Init PROVE BookInv
  OBVIOUS
<1>1. ShapeOK
  BY DEF Init, ShapeOK, PcValues, Unsettled, ClientValues, StartupValues
<1>2. ASSUME NEW r \in Reqs PROVE LedgerOK(r)
  BY DEF Init, LedgerOK
<1> QED
  BY <1>1, <1>2 DEF BookInv

LEMMA BookInvariant == SafetySpec => []BookInv
BY InitBooks, NextBooks, PTL DEF SafetySpec

LEMMA AtMostOne ==
    ASSUME NEW s, s = <<>> \/ \E v : s = <<v>>
    PROVE  Len(s) <= 1
<1>1. CASE s = <<>>
  BY <1>1
<1>2. ASSUME NEW v, s = <<v>> PROVE Len(s) <= 1
  BY <1>2
<1> QED
  BY <1>1, <1>2

\* However a request ends, it is recorded at most once and traced at most once, with
\* one verdict, and whoever was answered was recorded (UsageRecordHook::record and
\* RequestTracer::finalize on the paths of handlers.rs and websearch_loop.rs).
THEOREM AccountedTheorem == SafetySpec => []AccountedOnce
<1>1. BookInv => AccountedOnce
  <2> SUFFICES ASSUME BookInv, NEW r \in Reqs
               PROVE  /\ Len(records[r]) <= 1 /\ Len(traces[r]) <= 1
                      /\ traces[r] # <<>> => Settled(r) /\ (traces[r] = <<"success">> <=> Succeeded(r))
                      /\ client[r] = "closed" => Settled(r)
    BY DEF AccountedOnce
  <2>1. LedgerOK(r)
    BY DEF BookInv
  <2>2. Len(records[r]) <= 1
    <3>1. records[r] = <<>> \/ records[r] = <<"success">> \/ records[r] = <<"error">>
      BY <2>1 DEF LedgerOK
    <3> QED
      BY <3>1, AtMostOne
  <2>3. Len(traces[r]) <= 1
    <3>1. \/ traces[r] = <<>> \/ traces[r] = <<"success">>
          \/ traces[r] = <<"error">> \/ traces[r] = <<"interrupted">>
      BY <2>1 DEF LedgerOK
    <3> QED
      BY <3>1, AtMostOne
  <2>4. traces[r] # <<>> => Settled(r) /\ (traces[r] = <<"success">> <=> Succeeded(r))
    BY <2>1 DEF LedgerOK, Settled, Succeeded
  <2>5. client[r] = "closed" => Settled(r)
    BY <2>1 DEF LedgerOK
  <2> QED
    BY <2>2, <2>3, <2>4, <2>5
<1> QED
  BY <1>1, BookInvariant, PTL

----------------------------------------------------------------------------
(* The handlers implement Metering *)

\* The prefixes of the requests that succeeded.
EarnedHashes == UNION {ToSet(plan[q].hashes) : q \in {r \in Reqs : Succeeded(r)}}

\* Nothing is in the table, in a snapshot or on the disk that no successful request sent.
EarnedInv ==
  /\ DOMAIN entries \subseteq EarnedHashes
  /\ DOMAIN disk \subseteq EarnedHashes
  /\ \A w \in writing : DOMAIN w \subseteq EarnedHashes

LEMMA CommitDomain ==
    ASSUME NEW p, CommitSuccess(p)
    PROVE  DOMAIN entries' \subseteq DOMAIN entries \union ToSet(p.hashes)
BY DEF CommitSuccess, KeepOnly

\* What a request is charged as read was in the table when it came in.
LEMMA PlanHits ==
    ASSUME NEW q, NEW segs, NEW p, p = ComputeCacheUsage(q, segs)
    PROVE  p.hits \subseteq ToSet(p.hashes) \intersect DOMAIN entries
BY DEF ComputeCacheUsage, PlanOf, Hits, Unexpired, ToSet

LEMMA SettleImplements ==
    ASSUME BookInv, NEW r \in Reqs, SettleKind(r)
    PROVE  M!Succeed(r) \/ M!Fail(r) \/ M!Reject(r)
<1> DEFINE O == [q \in Reqs |-> Outcome(q)]
<1>1. records[r] = <<>>
  BY DEF BookInv, LedgerOK, SettleKind
<1>2. \A q \in Reqs : q # r => Outcome(q)' = Outcome(q)
  BY DEF BookInv, ShapeOK, SettleKind, SettlesWell, SettlesBadly, Concludes, Outcome, Settled
<1>3. pc'[r] # "new"
  BY DEF BookInv, ShapeOK, SettleKind, Concludes
<1>4. Outcome(r) = IF pc[r] = "new" THEN "idle" ELSE "open"
  BY <1>1 DEF Outcome, Settled, SettleKind, Unsettled
<1>5. UNCHANGED plan
  BY DEF SettleKind
<1>6. CASE SettlesWell(r)
  <2>1. records'[r] = <<"success">>
    BY <1>1, <1>6 DEF BookInv, ShapeOK, SettlesWell
  <2>2. Outcome(r)' = "success"
    BY <1>3, <2>1 DEF Outcome, Settled
  <2>3. O' = [O EXCEPT ![r] = "success"]
    BY <1>2, <2>2
  <2>4. DOMAIN entries' \subseteq DOMAIN entries \union ToSet(plan[r].hashes)
    BY <1>6, CommitDomain DEF SettlesWell
  <2>5. O[r] = "open"
    BY <1>4, <1>6 DEF SettlesWell
  <2>6. M!Succeed(r)
    BY <1>5, <2>3, <2>4, <2>5 DEF M!Succeed
  <2> QED
    BY <2>6
<1>7. CASE SettlesBadly(r)
  <2>1. records'[r] = <<"error">>
    BY <1>1, <1>7 DEF BookInv, ShapeOK, SettlesBadly
  <2>2. Outcome(r)' = "error"
    BY <1>3, <2>1 DEF Outcome, Settled
  <2>3. O' = [O EXCEPT ![r] = "error"]
    BY <1>2, <2>2
  <2>4. O[r] \in {"open", "idle"} /\ UNCHANGED entries
    BY <1>4, <1>7 DEF SettlesBadly
  <2> QED
    BY <1>5, <2>3, <2>4 DEF M!Fail, M!Reject
<1> QED
  BY <1>6, <1>7 DEF SettleKind

LEMMA QuietOutcome ==
    ASSUME BookInv, NEW r \in Reqs, MoveKind(r) \/ ReplyKind(r)
    PROVE  M!vars' = M!vars
<1> DEFINE O == [q \in Reqs |-> Outcome(q)]
<1>1. UNCHANGED <<records, plan, entries>>
  BY DEF MoveKind, ReplyKind
<1>2. pc'[r] = "new" <=> pc[r] = "new"
  BY DEF BookInv, ShapeOK, MoveKind, ReplyKind
<1>3. Settled(r) \/ (pc[r] = "ended" <=> pc'[r] = "ended")
  BY DEF BookInv, ShapeOK, LedgerOK, MoveKind, ReplyKind, Unsettled
<1>4. \A q \in Reqs : q # r => pc'[q] = pc[q]
  BY DEF BookInv, ShapeOK, MoveKind, ReplyKind
<1>5. \A q \in Reqs : Outcome(q)' = Outcome(q)
  BY <1>1, <1>2, <1>3, <1>4 DEF Outcome, Settled
<1>6. O' = O
  BY <1>5
<1> QED
  BY <1>1, <1>6 DEF M!vars

\* Only a request that was not settled is lost with its client.
LEMMA LeaveImplements ==
    ASSUME BookInv, NEW r \in Reqs, LeaveKind(r)
    PROVE  M!Fail(r) \/ M!vars' = M!vars
<1> DEFINE O == [q \in Reqs |-> Outcome(q)]
<1>1. UNCHANGED <<records, plan, entries>>
  BY DEF LeaveKind
<1>2. pc[r] # "new" /\ pc'[r] # "new"
  BY DEF BookInv, ShapeOK, LedgerOK, LeaveKind
<1>3. \A q \in Reqs : q # r => Outcome(q)' = Outcome(q)
  BY <1>1 DEF BookInv, ShapeOK, LeaveKind, Outcome, Settled
<1>4. CASE Outcome(r)' = Outcome(r)
  <2>1. O' = O
    BY <1>3, <1>4
  <2> QED
    BY <1>1, <2>1 DEF M!vars
<1>5. CASE Outcome(r)' # Outcome(r)
  <2>1. Outcome(r) = "open" /\ Outcome(r)' = "lost"
    BY <1>1, <1>2, <1>5 DEF BookInv, ShapeOK, LeaveKind, Outcome, Settled
  <2>2. O[r] = "open" /\ O' = [O EXCEPT ![r] = "lost"]
    BY <1>3, <2>1
  <2> QED
    BY <1>1, <2>2 DEF M!Fail
<1> QED
  BY <1>4, <1>5

LEMMA AcceptImplements ==
    ASSUME BookInv, NEW r \in Reqs, Accept(r)
    PROVE  M!Accept(r)
<1> DEFINE O == [q \in Reqs |-> Outcome(q)]
           A == [q \in Reqs |-> ToSet(plan[q].hashes)]
           H == [q \in Reqs |-> plan[q].hits]
<1>1. PICK p \in {"mcp", "convert"} : pc' = [pc EXCEPT ![r] = p]
  BY DEF Accept
<1>2. UNCHANGED records /\ pc[r] = "new" /\ records[r] = <<>>
  BY DEF Accept, ledgerVars, BookInv, LedgerOK, Unsettled
<1>3. PICK q \in Candidates[r] :
        /\ plan' = [plan EXCEPT ![r] = ComputeCacheUsage(Normalized(q), ExtractSegments(Normalized(q)))]
        /\ DOMAIN entries' = DOMAIN entries
  BY DEF Accept, Touched
<1> DEFINE new == ComputeCacheUsage(Normalized(q), ExtractSegments(Normalized(q)))
<1>4. new.hits \subseteq ToSet(new.hashes) \intersect DOMAIN entries
  BY PlanHits
<1> HIDE DEF new
<1>5. plan' = [plan EXCEPT ![r] = new]
  BY <1>3 DEF new
<1>6. plan'[r] = new /\ \A k \in Reqs : k # r => plan'[k] = plan[k]
  BY <1>5 DEF BookInv, ShapeOK
<1>7. Outcome(r) = "idle" /\ Outcome(r)' = "open" /\ \A k \in Reqs : k # r => Outcome(k)' = Outcome(k)
  BY <1>1, <1>2 DEF BookInv, ShapeOK, Outcome, Settled
<1>8. O[r] = "idle" /\ O' = [O EXCEPT ![r] = "open"]
  BY <1>7
<1>9. A' = [A EXCEPT ![r] = A'[r]] /\ H' = [H EXCEPT ![r] = H'[r]]
  BY <1>6
<1>10. H'[r] \subseteq A'[r] \intersect DOMAIN entries
  BY <1>4, <1>6
<1> QED
  BY <1>3, <1>8, <1>9, <1>10 DEF M!Accept

LEMMA RestartImplements ==
    ASSUME BookInv, EarnedInv, Restart
    PROVE  M!Restart
<1> DEFINE O == [q \in Reqs |-> Outcome(q)]
<1>1. UNCHANGED <<records, plan>>
  BY DEF Restart, ledgerVars, jobVars
<1>2. \A q \in Reqs : pc'[q] = IF pc[q] = "new" THEN "new" ELSE "ended"
  BY DEF Restart
<1>3. \A q \in Reqs : Outcome(q)' = IF Outcome(q) = "open" THEN "lost" ELSE Outcome(q)
  BY <1>1, <1>2 DEF BookInv, LedgerOK, Outcome, Settled
<1>4. O' = [q \in Reqs |-> IF O[q] = "open" THEN "lost" ELSE O[q]]
  BY <1>3
<1>5. DOMAIN entries' \subseteq EarnedHashes
  BY DEF Restart, ReloadCache, KeepOnly, Unexpired, EarnedInv, NoEntries
<1>6. EarnedHashes \subseteq UNION {ToSet(plan[q].hashes) : q \in {k \in Reqs : Outcome(k) = "success"}}
  BY DEF EarnedHashes, Succeeded, Outcome, Settled, BookInv, LedgerOK, Unsettled
<1> QED
  BY <1>1, <1>4, <1>5, <1>6 DEF M!Restart, M!Earned

\* Earned prefixes stay earned: a verdict is final, and so is the plan it belongs to.
LEMMA EarnedGrows ==
    ASSUME BookInv, NEW r \in Reqs, Accept(r) \/ SettleKind(r)
    PROVE  EarnedHashes \subseteq EarnedHashes'
<1>1. records[r] = <<>>
  BY DEF BookInv, LedgerOK, SettleKind, Accept, Unsettled
<1>2. ASSUME NEW q \in Reqs, Succeeded(q) PROVE Succeeded(q)' /\ plan'[q] = plan[q]
  <2>1. q # r
    BY <1>1, <1>2 DEF Succeeded
  <2>2. CASE Accept(r)
    BY <1>2, <2>1, <2>2 DEF BookInv, ShapeOK, Accept, Succeeded, ledgerVars
  <2>3. CASE SettleKind(r)
    BY <1>2, <2>1, <2>3 DEF BookInv, ShapeOK, SettleKind, SettlesWell, SettlesBadly, Succeeded
  <2> QED
    BY <2>2, <2>3
<1> QED
  BY <1>2 DEF EarnedHashes

LEMMA EarnedStep ==
    ASSUME BookInv, BookInv', EarnedInv, [Next]_vars
    PROVE  EarnedInv'
<1>1. ASSUME NEW r \in Reqs, Accept(r) PROVE EarnedInv'
  <2>1. DOMAIN entries' = DOMAIN entries /\ UNCHANGED <<writing, disk>>
    BY <1>1 DEF Accept, Touched
  <2> QED
    BY <1>1, <2>1, EarnedGrows DEF EarnedInv
<1>2. ASSUME NEW r \in Reqs, SettleKind(r) PROVE EarnedInv'
  <2>1. EarnedHashes \subseteq EarnedHashes'
    BY <1>2, EarnedGrows
  <2>2. DOMAIN entries' \subseteq EarnedHashes'
    <3>1. CASE SettlesWell(r)
      <4>1. DOMAIN entries' \subseteq DOMAIN entries \union ToSet(plan[r].hashes)
        BY <3>1, CommitDomain DEF SettlesWell
      <4>2. Succeeded(r)' /\ plan'[r] = plan[r]
        <5>1. records[r] = <<>>
          BY <1>2 DEF BookInv, LedgerOK, SettleKind
        <5>2. records'[r] = <<"success">>
          BY <3>1, <5>1 DEF BookInv, ShapeOK, SettlesWell
        <5> QED
          BY <1>2, <5>2 DEF SettleKind, Succeeded
      <4>3. ToSet(plan[r].hashes) \subseteq EarnedHashes'
        BY <4>2 DEF EarnedHashes
      <4> QED
        BY <2>1, <4>1, <4>3 DEF EarnedInv
    <3>2. CASE SettlesBadly(r)
      BY <2>1, <3>2 DEF SettlesBadly, EarnedInv
    <3> QED
      BY <1>2, <3>1, <3>2 DEF SettleKind
  <2> QED
    BY <1>2, <2>1, <2>2 DEF SettleKind, EarnedInv
<1>3. ASSUME NEW r \in Reqs, MoveKind(r) \/ ReplyKind(r) \/ LeaveKind(r) PROVE EarnedInv'
  <2>1. UNCHANGED <<entries, writing, disk, plan, records>>
    BY <1>3 DEF MoveKind, ReplyKind, LeaveKind
  <2>2. EarnedHashes' = EarnedHashes
    BY <2>1 DEF EarnedHashes, Succeeded
  <2> QED
    BY <2>1, <2>2 DEF EarnedInv
<1>4. CASE CacheStep
  <2>1. EarnedHashes' = EarnedHashes
    BY <1>4 DEF CacheStep, EarnedHashes, Succeeded, jobVars, ledgerVars
  <2>2. CASE Snapshot
    BY <2>1, <2>2 DEF Snapshot, KeepOnly, Unexpired, EarnedInv
  <2>3. CASE WriteSnapshot
    BY <2>1, <2>3 DEF WriteSnapshot, EarnedInv
  <2>4. CASE Tick
    BY <2>1, <2>4 DEF Tick, EarnedInv
  <2> QED
    BY <1>4, <2>2, <2>3, <2>4 DEF CacheStep
<1>5. CASE Restart
  <2>1. EarnedHashes' = EarnedHashes
    BY <1>5 DEF Restart, EarnedHashes, Succeeded, jobVars, ledgerVars
  <2>2. DOMAIN NoEntries = {}
    BY DEF NoEntries
  <2> QED
    BY <1>5, <2>1, <2>2 DEF Restart, ReloadCache, KeepOnly, Unexpired, EarnedInv
<1>6. CASE UNCHANGED vars
  BY <1>6 DEF vars, cacheVars, jobVars, ledgerVars, EarnedInv, EarnedHashes, Succeeded
<1> QED
  BY <1>1, <1>2, <1>3, <1>4, <1>5, <1>6, RequestKinds DEF Next

LEMMA InitEarned == Init => EarnedInv
BY DEF Init, CacheInit, NoEntries, EarnedInv

LEMMA InitImplements == Init => M!Init
<1> SUFFICES ASSUME Init PROVE M!Init
  OBVIOUS
<1>1. \A r \in Reqs : Outcome(r) = "idle"
  BY DEF Init, Outcome
<1>2. \A r \in Reqs : ToSet(plan[r].hashes) = {} /\ plan[r].hits = {}
  BY DEF Init, NoPlan, ToSet
<1>3. DOMAIN entries = {}
  BY DEF Init, CacheInit, NoEntries
<1> QED
  BY <1>1, <1>2, <1>3 DEF M!Init

LEMMA NextImplements ==
    ASSUME BookInv, EarnedInv, [Next]_vars
    PROVE  [M!Next]_(M!vars)
<1>1. ASSUME NEW r \in Reqs, SettleKind(r) \/ MoveKind(r) \/ ReplyKind(r) \/ LeaveKind(r)
      PROVE  [M!Next]_(M!vars)
  BY <1>1, SettleImplements, QuietOutcome, LeaveImplements DEF M!Next
<1>2. ASSUME NEW r \in Reqs, Accept(r) PROVE M!Next
  BY <1>2, AcceptImplements DEF M!Next
<1>3. CASE CacheStep
  <2>1. \A r \in Reqs : Outcome(r)' = Outcome(r)
    BY <1>3 DEF CacheStep, ledgerVars, Outcome, Settled
  <2>2. [r \in Reqs |-> Outcome(r)]' = [r \in Reqs |-> Outcome(r)] /\ plan' = plan
    BY <1>3, <2>1 DEF CacheStep, jobVars
  <2>3. DOMAIN entries' \subseteq DOMAIN entries
    BY <1>3 DEF CacheStep, Snapshot, WriteSnapshot, Tick, KeepOnly, Unexpired
  <2>4. M!Shed
    BY <2>2, <2>3 DEF M!Shed
  <2> QED
    BY <2>4 DEF M!Next
<1>4. CASE Restart
  BY <1>4, RestartImplements DEF M!Next
<1>5. CASE UNCHANGED vars
  <2>1. \A r \in Reqs : Outcome(r)' = Outcome(r)
    BY <1>5 DEF vars, ledgerVars, Outcome, Settled
  <2>2. [r \in Reqs |-> Outcome(r)]' = [r \in Reqs |-> Outcome(r)] /\ plan' = plan /\ entries' = entries
    BY <1>5, <2>1 DEF vars, jobVars, cacheVars
  <2> QED
    BY <2>2 DEF M!vars
<1> QED
  BY <1>1, <1>2, <1>3, <1>4, <1>5, RequestKinds DEF Next

\* The serving paths and the prompt cache implement Metering: no path settles a request
\* twice or revives one, only a success adds its own prefixes to the table, the file brings
\* none back that were not earned, and a request reads only what the table held when it
\* came in (compute_cache_usage, commit_success, flush_to_disk and CacheMeter::new).
THEOREM HandlersImplementMetering == SafetySpec => ImplementsMetering
<1>1. BookInv /\ BookInv' /\ EarnedInv /\ [Next]_vars => EarnedInv'
  BY EarnedStep
<1>2. BookInv /\ EarnedInv /\ [Next]_vars => [M!Next]_(M!vars)
  BY NextImplements
<1> QED
  BY <1>1, <1>2, InitEarned, InitImplements, BookInvariant, PTL
     DEF SafetySpec, ImplementsMetering, M!Spec

----------------------------------------------------------------------------
(* The client's answer *)

\* Words that leave an answer open, and those that close it.
Opening == {"message", "ping"}
Closing == {"final", "error_event", "error_status"}

\* An answer that goes on, and one that ends with v.
Partial(s) == s \in Seq(Opening)
Complete(s, v) == \E t \in Seq(Opening) : s = Append(t, v)

VerdictOf(r) == IF Succeeded(r) THEN "final" ELSE "error_event"

\* What EndsWithVerdict says of the answer to one request.
Answered(r) ==
  /\ {i \in DOMAIN got[r] : got[r][i] \in Closing} = {Len(got[r])}
  /\ Last(got[r]) = "error_status" => Len(got[r]) = 1
  /\ Succeeded(r) => Last(got[r]) = "final"
  /\ InLoop(r) \/ RouteOf(r) = "json" => (Last(got[r]) = "final" => Succeeded(r))

\* The end of a streamed search loop is with the task, in the channel or at the client.
OnItsWay(r) ==
  \/ pc[r] = "send" /\ Partial(got[r]) /\ Partial(chan[r]) /\ Complete(pending[r], VerdictOf(r))
  \/ pending[r] = <<>> /\ Partial(got[r]) /\ Complete(chan[r], VerdictOf(r))
  \/ pending[r] = <<>> /\ chan[r] = <<>> /\ Complete(got[r], VerdictOf(r))

\* A request answered by the handler itself.
PlainAnswer(r) ==
  /\ startup[r] = "none" /\ chan[r] = <<>> /\ pc[r] # "send"
  /\ pc[r] \in Unsettled \ {"new"} => client[r] \in {"waiting", "open"}
  /\ client[r] = "open" => Streams(r) /\ pc[r] \in {"call", "body"} /\ Partial(got[r])
  /\ client[r] = "waiting" => ~Streams(r) \/ pc[r] \notin {"call", "body"}

\* A request answered through the channel, while its client is there.
LoopAnswer(r) ==
  /\ startup[r] = "failed" => pc[r] = "ended" /\ client[r] # "open"
  /\ client[r] = "open" => startup[r] = "started"
  /\ client[r] \in {"waiting", "open"} =>
       IF pc[r] \in Unsettled THEN pending[r] = <<>> /\ Partial(got[r]) /\ Partial(chan[r])
       ELSE IF startup[r] = "failed" THEN ~Succeeded(r)
       ELSE OnItsWay(r)

AnswerOK(r) ==
  /\ pc[r] = "new" => /\ startup[r] = "none"
                      /\ pending[r] = <<>> /\ chan[r] = <<>> /\ got[r] = <<>>
  /\ pc[r] = "mcp" => RouteOf(r) = "direct"
  /\ pc[r] = "search" => InLoop(r)
  /\ client[r] = "waiting" => got[r] = <<>>
  /\ client[r] = "closed" => pc[r] = "ended" /\ Answered(r)
  /\ pc[r] # "new" => IF RouteOf(r) = "loop_sse" THEN LoopAnswer(r) ELSE PlainAnswer(r)

AnswerShape ==
  /\ ask = [r \in Reqs |-> ask[r]] /\ got = [r \in Reqs |-> got[r]]
  /\ pending = [r \in Reqs |-> pending[r]] /\ chan = [r \in Reqs |-> chan[r]]

AnswerInv == AnswerShape /\ \A r \in Reqs : AnswerOK(r)

LEMMA AppendEnds ==
    ASSUME NEW t \in Seq(Opening), NEW v \in Closing, NEW s, s = Append(t, v)
    PROVE  /\ {i \in DOMAIN s : s[i] \in Closing} = {Len(s)}
           /\ Last(s) = v
           /\ t = <<>> => Len(s) = 1
<1>1. Len(s) = Len(t) + 1 /\ s[Len(s)] = v /\ \A i \in 1..Len(t) : s[i] = t[i]
  OBVIOUS
<1>2. DOMAIN s = 1..Len(t) + 1 /\ Len(t) \in Nat
  OBVIOUS
<1>3. \A i \in 1..Len(t) : t[i] \notin Closing
  BY DEF Opening, Closing
<1>4. \A i \in DOMAIN s : s[i] \in Closing <=> i = Len(s)
  BY <1>1, <1>2, <1>3
<1>5. t = <<>> => Len(s) = 1
  BY <1>1
<1> QED
  BY <1>1, <1>2, <1>4, <1>5 DEF Last

LEMMA PartialEmpty == Partial(<<>>)
BY DEF Partial

LEMMA PartialGrows ==
    ASSUME NEW s, Partial(s), NEW w \in Opening
    PROVE  Partial(Append(s, w))
BY DEF Partial

LEMMA PartialRead ==
    ASSUME NEW s, Partial(s), s # <<>>
    PROVE  Head(s) \in Opening /\ Partial(Tail(s))
BY DEF Partial

LEMMA CompleteRead ==
    ASSUME NEW s, NEW v, Complete(s, v)
    PROVE  /\ s # <<>>
           /\ \/ Head(s) \in Opening /\ Complete(Tail(s), v)
              \/ Head(s) = v /\ Tail(s) = <<>>
<1>1. PICK t \in Seq(Opening) : s = Append(t, v)
  BY DEF Complete
<1>2. CASE t = <<>>
  BY <1>1, <1>2
<1>3. CASE t # <<>>
  <2>1. Head(t) \in Opening /\ Tail(t) \in Seq(Opening)
    BY <1>3
  <2>2. Head(s) = Head(t)
    BY <1>1, <1>3
  <2>3. Tail(s) = Append(Tail(t), v)
    <3>1. t \in Seq(Opening \union {v}) /\ s \in Seq(Opening \union {v})
      BY <1>1
    <3>2. Len(t) >= 1
      BY <1>3
    <3>3. Len(s) = Len(t) + 1 /\ Len(Tail(t)) = Len(t) - 1 /\ Len(t) \in Nat
      BY <1>1, <3>2
    <3>4. Tail(s) \in Seq(Opening \union {v}) /\ Append(Tail(t), v) \in Seq(Opening \union {v})
      <4>1. s # <<>> /\ Tail(t) \in Seq(Opening \union {v})
        BY <1>1, <3>1, <3>2
      <4>2. v \in Opening \union {v}
        OBVIOUS
      <4> QED
        BY <3>1, <4>1, <4>2
    <3>5. Len(Tail(s)) = Len(t) /\ Len(Append(Tail(t), v)) = Len(t)
      BY <3>1, <3>2, <3>3
    <3>6. ASSUME NEW i \in 1..Len(t) PROVE Tail(s)[i] = Append(Tail(t), v)[i]
      <4>1. Tail(s)[i] = s[i + 1]
        BY <3>1, <3>3
      <4>2. CASE i = Len(t)
        <5>1. s[i + 1] = v
          BY <1>1, <4>2
        <5>2. Append(Tail(t), v)[i] = v
          BY <3>3, <2>1, <4>2
        <5> QED
          BY <4>1, <5>1, <5>2
      <4>3. CASE i # Len(t)
        <5>1. i \in 1..Len(Tail(t)) /\ i + 1 \in 1..Len(t)
          BY <3>3, <4>3
        <5>2. s[i + 1] = t[i + 1]
          BY <1>1, <5>1
        <5>3. Tail(t)[i] = t[i + 1]
          BY <5>1
        <5>4. Append(Tail(t), v)[i] = Tail(t)[i]
          BY <2>1, <5>1
        <5> QED
          BY <4>1, <5>2, <5>3, <5>4
      <4> QED
        BY <4>2, <4>3
    <3>7. DOMAIN Tail(s) = 1..Len(t) /\ DOMAIN Append(Tail(t), v) = 1..Len(t)
      BY <3>4, <3>5
    <3> QED
      BY <3>4, <3>5, <3>6, <3>7, SeqEqual
  <2>4. s # <<>>
    BY <1>1
  <2>5. Complete(Tail(s), v)
    BY <2>1, <2>3 DEF Complete
  <2> QED
    BY <2>1, <2>2, <2>4, <2>5
<1> QED
  BY <1>2, <1>3

LEMMA LoopEventsComplete == Complete(LoopEvents, "final")
<1>1. <<"message">> \in Seq(Opening)
  BY DEF Opening
<1>2. <<"message", "final">> = Append(<<"message">>, "final")
  OBVIOUS
<1> QED
  BY <1>1, <1>2 DEF Complete, LoopEvents

LEMMA ErrorComplete == Complete(<<"error_event">>, "error_event")
<1>1. <<>> \in Seq(Opening)
  OBVIOUS
<1>2. <<"error_event">> = Append(<<>>, "error_event")
  OBVIOUS
<1> QED
  BY <1>1, <1>2 DEF Complete

\* A step of another request leaves what AnswerOK speaks about.
SameFor(q) ==
  /\ ask'[q] = ask[q] /\ pc'[q] = pc[q] /\ records'[q] = records[q]
  /\ startup'[q] = startup[q] /\ client'[q] = client[q]
  /\ pending'[q] = pending[q] /\ chan'[q] = chan[q] /\ got'[q] = got[q]

LEMMA LocalAnswer ==
    ASSUME NEW q \in Reqs, AnswerOK(q), SameFor(q)
    PROVE  AnswerOK(q)'
<1>1. RouteOf(q)' = RouteOf(q)
  BY DEF SameFor, RouteOf
<1>2. InLoop(q)' = InLoop(q) /\ Streams(q)' = Streams(q)
  BY <1>1 DEF InLoop, Streams
<1>3. Succeeded(q)' = Succeeded(q)
  BY DEF SameFor, Succeeded
<1>4. VerdictOf(q)' = VerdictOf(q)
  BY <1>3 DEF VerdictOf
<1>5. Answered(q)' = Answered(q)
  BY <1>1, <1>2, <1>3 DEF SameFor, Answered
<1>6. OnItsWay(q)' = OnItsWay(q)
  BY <1>4 DEF SameFor, OnItsWay
<1>7. PlainAnswer(q)' = PlainAnswer(q) /\ LoopAnswer(q)' = LoopAnswer(q)
  BY <1>2, <1>3, <1>6 DEF SameFor, PlainAnswer, LoopAnswer
<1> QED
  BY <1>1, <1>2, <1>5, <1>7 DEF SameFor, AnswerOK

\* Only the request that steps is answered.
RequestStep(r) ==
  RejectEarly(r) \/ Accept(r) \/ TaskStep(r) \/ ResponseStep(r) \/ Disconnect(r)

Frame(r) ==
  /\ \E a : ask' = [ask EXCEPT ![r] = a]
  /\ \E s : pending' = [pending EXCEPT ![r] = s]
  /\ \E s : chan' = [chan EXCEPT ![r] = s]
  /\ \E s : got' = [got EXCEPT ![r] = s]

LEMMA Unchanging ==
    ASSUME NEW f, NEW r \in Reqs, f = [q \in Reqs |-> f[q]]
    PROVE  f = [f EXCEPT ![r] = f[r]]
OBVIOUS

\* What an action that answers nothing may leave alone.
LEMMA StillFrame ==
    ASSUME AnswerShape, NEW r \in Reqs
    PROVE  /\ UNCHANGED ask => \E a : ask' = [ask EXCEPT ![r] = a]
           /\ UNCHANGED pending => \E s : pending' = [pending EXCEPT ![r] = s]
           /\ UNCHANGED chan => \E s : chan' = [chan EXCEPT ![r] = s]
           /\ UNCHANGED got => \E s : got' = [got EXCEPT ![r] = s]
<1>1. /\ ask = [ask EXCEPT ![r] = ask[r]] /\ pending = [pending EXCEPT ![r] = pending[r]]
      /\ chan = [chan EXCEPT ![r] = chan[r]] /\ got = [got EXCEPT ![r] = got[r]]
  BY Unchanging DEF AnswerShape
<1> QED
  BY <1>1

LEMMA RespondsFrame ==
    ASSUME AnswerShape, NEW r \in Reqs, NEW what, Responds(r, what), UNCHANGED ask
    PROVE  Frame(r)
BY StillFrame DEF Responds, Frame

LEMMA LoopErrorFrame ==
    ASSUME AnswerShape, NEW r \in Reqs, LoopReturnsError(r), UNCHANGED ask
    PROVE  Frame(r)
BY StillFrame, RespondsFrame DEF LoopReturnsError, Frame

LEMMA LoopSuccessFrame ==
    ASSUME AnswerShape, NEW r \in Reqs, LoopReturnsSuccess(r), UNCHANGED ask
    PROVE  Frame(r)
BY StillFrame, RespondsFrame DEF LoopReturnsSuccess, Frame

LEMMA ChunkFrame ==
    ASSUME AnswerShape, NEW r \in Reqs,
           StreamChunk(r) \/ BufferedChunk(r) \/ JsonChunk(r) \/ LoopChunk(r)
    PROVE  Frame(r)
<1>1. UNCHANGED <<ask, pending>>
  BY DEF StreamChunk, BufferedChunk, JsonChunk, LoopChunk, Decodes, jobVars
<1>2. CASE StreamChunk(r) \/ BufferedChunk(r)
  <2>1. UNCHANGED chan /\ \E s : got' = [got EXCEPT ![r] = s]
    BY <1>2 DEF StreamChunk, BufferedChunk, FirstChunkSends
  <2> QED
    BY <1>1, <2>1, StillFrame DEF Frame
<1>3. CASE JsonChunk(r)
  BY <1>1, <1>3, StillFrame DEF Frame, JsonChunk
<1>4. CASE LoopChunk(r)
  <2>1. UNCHANGED got /\ (UNCHANGED chan \/ \E s : chan' = [chan EXCEPT ![r] = s])
    BY <1>4 DEF LoopChunk, MarkFirstChunk
  <2> QED
    BY <1>1, <2>1, StillFrame DEF Frame
<1> QED
  BY <1>2, <1>3, <1>4

LEMMA TaskFrame ==
    ASSUME AnswerShape, NEW r \in Reqs, TaskStep(r)
    PROVE  Frame(r)
<1>1. CASE DirectSearch(r)
  BY <1>1, RespondsFrame DEF DirectSearch, jobVars
<1>2. CASE ConversionFails(r)
  BY <1>2, RespondsFrame, LoopErrorFrame DEF ConversionFails, jobVars
<1>3. CASE CallFails(r)
  BY <1>3, RespondsFrame, LoopErrorFrame DEF CallFails, jobVars
<1>4. CASE StreamBodyEnds(r) \/ BufferedBodyEnds(r) \/ JsonBodyEnds(r)
  BY <1>4, RespondsFrame DEF StreamBodyEnds, BufferedBodyEnds, JsonBodyEnds, SettleBody
<1>5. CASE StreamBodyBreaks(r) \/ BufferedBodyBreaks(r)
  BY <1>5, RespondsFrame DEF StreamBodyBreaks, BufferedBodyBreaks, BrokenStream, jobVars
<1>6. CASE JsonBodyBreaks(r)
  BY <1>6, RespondsFrame DEF JsonBodyBreaks, jobVars
<1>7. CASE RoundFails(r) \/ SearchFails(r)
  BY <1>7, LoopErrorFrame DEF RoundFails, SearchFails, jobVars
<1>8. CASE RoundFlushes(r)
  BY <1>8, LoopSuccessFrame DEF RoundFlushes
<1>9. CASE Convert(r) \/ CallAnswers(r) \/ RoundSearches(r) \/ SearchAnswers(r)
  <2>1. UNCHANGED <<ask, pending, chan, got>>
    BY <1>9 DEF Convert, CallAnswers, RoundSearches, SearchAnswers, jobVars, clientVars
  <2> QED
    BY <2>1, StillFrame DEF Frame
<1>10. CASE Ping(r)
  BY <1>10, StillFrame DEF Ping, Frame, jobVars
<1>11. CASE SendEvent(r)
  BY <1>11, StillFrame DEF SendEvent, Frame, jobVars
<1> QED
  BY <1>1, <1>2, <1>3, <1>4, <1>5, <1>6, <1>7, <1>8, <1>9, <1>10, <1>11, ChunkFrame DEF TaskStep

LEMMA StepFrame ==
    ASSUME AnswerShape, NEW r \in Reqs, RequestStep(r)
    PROVE  Frame(r)
<1>1. CASE RejectEarly(r)
  BY <1>1, StillFrame DEF RejectEarly, Responds, Frame
<1>2. CASE Accept(r)
  BY <1>2, StillFrame DEF Accept, Frame
<1>3. CASE StreamStarts(r)
  <2>1. UNCHANGED <<ask, pending, chan>> /\ (UNCHANGED got \/ \E s : got' = [got EXCEPT ![r] = s])
    BY <1>3 DEF StreamStarts, jobVars
  <2> QED
    BY <2>1, StillFrame DEF Frame
<1>4. CASE ClientReads(r) \/ StreamEnds(r)
  BY <1>4, StillFrame DEF ClientReads, StreamEnds, Frame, jobVars
<1>5. CASE Disconnect(r)
  BY <1>5, StillFrame DEF Disconnect, Frame, jobVars
<1> QED
  BY <1>1, <1>2, <1>3, <1>4, <1>5, TaskFrame DEF RequestStep, ResponseStep

LEMMA OthersKeep ==
    ASSUME BookInv, AnswerShape, NEW r \in Reqs, RequestStep(r)
    PROVE  AnswerShape' /\ \A q \in Reqs : q # r => SameFor(q)
<1>1. Frame(r)
  BY StepFrame
<1>2. AnswerShape'
  BY <1>1 DEF AnswerShape, Frame
<1>3. ASSUME NEW q \in Reqs, q # r PROVE SameFor(q)
  <2>1. /\ ask'[q] = ask[q] /\ pending'[q] = pending[q]
        /\ chan'[q] = chan[q] /\ got'[q] = got[q]
    BY <1>1, <1>3 DEF AnswerShape, Frame
  <2>2. pc'[q] = pc[q] /\ records'[q] = records[q] /\ startup'[q] = startup[q] /\ client'[q] = client[q]
    <3>1. CASE Accept(r)
      BY <1>3, <3>1 DEF Accept, BookInv, ShapeOK, ledgerVars
    <3>2. CASE SettleKind(r)
      BY <1>3, <3>2 DEF BookInv, ShapeOK, SettleKind, SettlesWell, SettlesBadly, Concludes
    <3>3. CASE MoveKind(r) \/ ReplyKind(r) \/ LeaveKind(r)
      BY <1>3, <3>3 DEF BookInv, ShapeOK, MoveKind, ReplyKind, LeaveKind
    <3> QED
      BY <3>1, <3>2, <3>3, RequestKinds DEF RequestStep
  <2> QED
    BY <2>1, <2>2 DEF SameFor
<1> QED
  BY <1>2, <1>3

LEMMA SameRoute ==
    ASSUME UNCHANGED ask, NEW r
    PROVE  RouteOf(r)' = RouteOf(r) /\ InLoop(r)' = InLoop(r) /\ Streams(r)' = Streams(r)
BY DEF RouteOf, InLoop, Streams

LEMMA SameVerdict ==
    ASSUME UNCHANGED records, NEW r
    PROVE  Succeeded(r)' = Succeeded(r) /\ VerdictOf(r)' = VerdictOf(r)
BY DEF Succeeded, VerdictOf

\* A request is settled with its verdict.
LEMMA SettleVerdict ==
    ASSUME BookInv, NEW r \in Reqs, SettleKind(r)
    PROVE  /\ SettlesWell(r) => Succeeded(r)'
           /\ SettlesBadly(r) => ~Succeeded(r)'
<1>1. records[r] = <<>>
  BY DEF BookInv, LedgerOK, SettleKind
<1>2. SettlesWell(r) => records'[r] = <<"success">>
  BY <1>1 DEF BookInv, ShapeOK, SettlesWell
<1>3. SettlesBadly(r) => records'[r] = <<"error">>
  BY <1>1 DEF BookInv, ShapeOK, SettlesBadly
<1> QED
  BY <1>2, <1>3 DEF Succeeded

\* A complete response carries the verdict of its request.
LEMMA RespondsAnswers ==
    ASSUME BookInv, AnswerShape, NEW r \in Reqs, NEW what \in Closing, Responds(r, what),
           startup[r] = "none", chan[r] = <<>>, Partial(got[r]),
           what = "error_status" => got[r] = <<>>,
           Succeeded(r)' => what = "final",
           InLoop(r)' \/ RouteOf(r)' = "json" => (what = "final" => Succeeded(r)')
    PROVE  AnswerOK(r)'
<1>1. /\ client'[r] = "closed" /\ pc'[r] = "ended" /\ got'[r] = Append(got[r], what)
      /\ startup'[r] = "none" /\ chan'[r] = <<>>
  BY DEF Responds, BookInv, ShapeOK, AnswerShape
<1>2. /\ {i \in DOMAIN got'[r] : got'[r][i] \in Closing} = {Len(got'[r])}
      /\ Last(got'[r]) = what
      /\ got[r] = <<>> => Len(got'[r]) = 1
  BY <1>1, AppendEnds DEF Partial
<1>3. Answered(r)'
  BY <1>2 DEF Answered
<1>4. LoopAnswer(r)' /\ PlainAnswer(r)'
  BY <1>1 DEF LoopAnswer, PlainAnswer, Unsettled
<1> QED
  BY <1>1, <1>3, <1>4 DEF AnswerOK

\* Who is still at work on a plain request has its client waiting, or streams to it.
LEMMA PlainWaits ==
    ASSUME AnswerInv, NEW r \in Reqs, pc[r] \in Unsettled \ {"new"}, RouteOf(r) # "loop_sse"
    PROVE  /\ startup[r] = "none" /\ chan[r] = <<>> /\ Partial(got[r])
           /\ ~Streams(r) \/ pc[r] \notin {"call", "body"} => got[r] = <<>>
<1>1. PlainAnswer(r) /\ (client[r] = "waiting" => got[r] = <<>>)
  BY DEF AnswerInv, AnswerOK, Unsettled
<1> QED
  BY <1>1, PartialEmpty DEF PlainAnswer

LEMMA LoopErrorAnswers ==
    ASSUME BookInv, AnswerInv, NEW r \in Reqs, pc[r] \in Unsettled \ {"new"}, InLoop(r),
           LoopReturnsError(r), UNCHANGED ask, ~Succeeded(r)'
    PROVE  AnswerOK(r)'
<1>1. RouteOf(r)' = RouteOf(r) /\ InLoop(r)' = InLoop(r)
  BY SameRoute
<1>2. AnswerOK(r)
  BY DEF AnswerInv
<1>3. CASE RouteOf(r) = "loop_json"
  <2>1. /\ startup[r] = "none" /\ chan[r] = <<>> /\ Partial(got[r])
        /\ got[r] = <<>>
    BY <1>3, PlainWaits DEF Streams
  <2>2. Responds(r, "error_status")
    BY <1>3 DEF LoopReturnsError
  <2> QED
    BY <2>1, <2>2, RespondsAnswers DEF Closing, AnswerInv
<1>4. CASE RouteOf(r) = "loop_sse"
  <2>1. LoopAnswer(r)
    BY <1>2, <1>4 DEF AnswerOK, Unsettled
  <2>2. CASE startup[r] = "none"
    <3>1. /\ startup'[r] = "failed" /\ pc'[r] = "ended" /\ UNCHANGED <<pending, chan, client, got>>
      BY <1>4, <2>2 DEF LoopReturnsError, BookInv, ShapeOK
    <3>2. client[r] # "open" /\ client[r] # "closed"
      BY <1>2, <2>1, <2>2 DEF LoopAnswer, AnswerOK, Unsettled
    <3>3. LoopAnswer(r)'
      BY <3>1, <3>2 DEF LoopAnswer, Unsettled
    <3> QED
      BY <1>1, <1>2, <1>4, <3>1, <3>2, <3>3 DEF AnswerOK
  <2>3. CASE startup[r] # "none"
    <3>1. /\ pending'[r] = <<"error_event">> /\ pc'[r] = "send"
          /\ UNCHANGED <<startup, chan, client, got>>
      BY <1>4, <2>3 DEF LoopReturnsError, BookInv, ShapeOK, AnswerInv, AnswerShape
    <3>2. startup[r] = "started"
      BY <2>1, <2>3 DEF LoopAnswer, BookInv, ShapeOK, StartupValues, Unsettled
    <3>3. VerdictOf(r)' = "error_event"
      BY DEF VerdictOf
    <3>4. client[r] \in {"waiting", "open"} => OnItsWay(r)'
      BY <2>1, <3>1, <3>3, ErrorComplete DEF LoopAnswer, OnItsWay
    <3>5. LoopAnswer(r)'
      BY <3>1, <3>2, <3>4 DEF LoopAnswer, Unsettled
    <3>6. client[r] # "closed"
      BY <1>2 DEF AnswerOK, Unsettled
    <3> QED
      BY <1>1, <1>2, <1>4, <3>1, <3>5, <3>6 DEF AnswerOK
  <2> QED
    BY <2>2, <2>3
<1> QED
  BY <1>3, <1>4 DEF InLoop

LEMMA LoopSuccessAnswers ==
    ASSUME BookInv, AnswerInv, NEW r \in Reqs, pc[r] \in Unsettled \ {"new"}, InLoop(r),
           LoopReturnsSuccess(r), UNCHANGED ask, Succeeded(r)'
    PROVE  AnswerOK(r)'
<1>1. RouteOf(r)' = RouteOf(r) /\ InLoop(r)' = InLoop(r)
  BY SameRoute
<1>2. AnswerOK(r)
  BY DEF AnswerInv
<1>3. CASE RouteOf(r) = "loop_json"
  <2>1. /\ startup[r] = "none" /\ chan[r] = <<>> /\ Partial(got[r])
    BY <1>3, PlainWaits
  <2>2. Responds(r, "final")
    BY <1>3 DEF LoopReturnsSuccess
  <2> QED
    BY <2>1, <2>2, RespondsAnswers DEF Closing, AnswerInv
<1>4. CASE RouteOf(r) = "loop_sse"
  <2>1. LoopAnswer(r)
    BY <1>2, <1>4 DEF AnswerOK, Unsettled
  <2>2. /\ pending'[r] = LoopEvents /\ pc'[r] = "send" /\ startup'[r] = "started"
        /\ UNCHANGED <<chan, client, got>>
    BY <1>4 DEF LoopReturnsSuccess, BookInv, ShapeOK, AnswerInv, AnswerShape
  <2>3. VerdictOf(r)' = "final"
    BY DEF VerdictOf
  <2>4. client[r] \in {"waiting", "open"} => OnItsWay(r)'
    BY <2>1, <2>2, <2>3, LoopEventsComplete DEF LoopAnswer, OnItsWay
  <2>5. LoopAnswer(r)'
    BY <2>2, <2>4 DEF LoopAnswer, Unsettled
  <2>6. client[r] # "closed"
    BY <1>2 DEF AnswerOK, Unsettled
  <2> QED
    BY <1>1, <1>2, <1>4, <2>2, <2>5, <2>6 DEF AnswerOK
<1> QED
  BY <1>3, <1>4 DEF InLoop

\* The ends of the plain paths.
LEMMA PlainEnds ==
    ASSUME BookInv, AnswerInv, NEW r \in Reqs,
           \/ RejectEarly(r) \/ DirectSearch(r)
           \/ StreamBodyEnds(r) \/ BufferedBodyEnds(r) \/ JsonBodyEnds(r)
           \/ StreamBodyBreaks(r) \/ BufferedBodyBreaks(r) \/ JsonBodyBreaks(r)
    PROVE  AnswerOK(r)'
<1> USE DEF Closing
<1>1. SettleKind(r) /\ AnswerOK(r)
  BY SettlingKinds DEF AnswerInv
<1>2. SettlesWell(r) => Succeeded(r)'
  BY <1>1, SettleVerdict
<1>3. SettlesBadly(r) => ~Succeeded(r)'
  BY <1>1, SettleVerdict
<1>4. CASE RejectEarly(r)
  <2>1. startup[r] = "none" /\ chan[r] = <<>> /\ got[r] = <<>>
    BY <1>1, <1>4 DEF RejectEarly, AnswerOK
  <2>2. ~Succeeded(r)'
    <3>1. records'[r] = Append(records[r], "error") /\ records[r] = <<>>
      BY <1>4 DEF RejectEarly, Recorded1, BookInv, ShapeOK, LedgerOK, Unsettled
    <3> QED
      BY <3>1 DEF Succeeded
  <2>3. Responds(r, "error_status")
    BY <1>4 DEF RejectEarly
  <2> QED
    BY <2>1, <2>2, <2>3, PartialEmpty, RespondsAnswers DEF AnswerInv
<1>5. CASE DirectSearch(r)
  <2>1. RouteOf(r) = "direct" /\ pc[r] = "mcp" /\ UNCHANGED ask
    BY <1>1, <1>5 DEF DirectSearch, AnswerOK, jobVars
  <2>2. startup[r] = "none" /\ chan[r] = <<>> /\ Partial(got[r])
    BY <2>1, PlainWaits DEF Unsettled
  <2>3. RouteOf(r)' = "direct" /\ ~InLoop(r)'
    BY <2>1, SameRoute DEF InLoop
  <2>4. Responds(r, "final")
    BY <1>5 DEF DirectSearch
  <2> QED
    BY <2>2, <2>3, <2>4, RespondsAnswers DEF AnswerInv
<1>6. CASE StreamBodyEnds(r) \/ BufferedBodyEnds(r)
  <2>1. Streams(r) /\ SettleBody(r) /\ Responds(r, ClosingEvents(r)) /\ UNCHANGED ask
    BY <1>6 DEF StreamBodyEnds, BufferedBodyEnds, SettleBody, Streams
  <2>2. startup[r] = "none" /\ chan[r] = <<>> /\ Partial(got[r])
    BY <2>1, PlainWaits DEF Unsettled, SettleBody, Streams
  <2>3. ~InLoop(r)' /\ RouteOf(r)' # "json"
    BY <2>1, SameRoute DEF InLoop, Streams
  <2>4. ClosingEvents(r) # "final" => ~Succeeded(r)'
    <3>1. ClosingEvents(r) # "final" => SettleError(r, "error")
      BY <2>1 DEF ClosingEvents, SettleBody
    <3>2. SettleError(r, "error") => SettlesBadly(r)
      BY DEF SettleError, SettlesBadly, Recorded1, Traced, cacheVars
    <3> QED
      BY <1>3, <3>1, <3>2
  <2> QED
    BY <2>1, <2>2, <2>3, <2>4, RespondsAnswers DEF AnswerInv, ClosingEvents
<1>7. CASE JsonBodyEnds(r)
  <2>1. RouteOf(r) = "json" /\ SettleBody(r) /\ UNCHANGED ask /\ pc[r] = "body"
    BY <1>7 DEF JsonBodyEnds, SettleBody
  <2>2. startup[r] = "none" /\ chan[r] = <<>> /\ got[r] = <<>>
    BY <2>1, PlainWaits DEF Unsettled, Streams
  <2>3. CASE body[r].flawed
    <3>1. Responds(r, "error_status") /\ SettleError(r, "error")
      BY <1>7, <2>1, <2>3 DEF JsonBodyEnds, SettleBody
    <3>2. SettlesBadly(r)
      BY <3>1 DEF SettleError, SettlesBadly, Recorded1, Traced, cacheVars
    <3> QED
      BY <1>3, <2>2, <3>1, <3>2, PartialEmpty, RespondsAnswers DEF AnswerInv
  <2>4. CASE ~body[r].flawed
    <3>1. Responds(r, "final") /\ SettleSuccess(r)
      BY <1>7, <2>1, <2>4 DEF JsonBodyEnds, SettleBody
    <3>2. SettlesWell(r)
      BY <2>1, <3>1 DEF SettleSuccess, SettlesWell, Recorded1, Traced
    <3> QED
      BY <1>2, <2>2, <3>1, <3>2, PartialEmpty, RespondsAnswers DEF AnswerInv
  <2> QED
    BY <2>3, <2>4
<1>8. CASE StreamBodyBreaks(r) \/ BufferedBodyBreaks(r)
  <2>1. /\ Streams(r) /\ pc[r] = "body" /\ Responds(r, ClosingEvents(r)) /\ UNCHANGED ask
        /\ SettleError(r, "interrupted")
    BY <1>8 DEF StreamBodyBreaks, BufferedBodyBreaks, BrokenStream, Streams, jobVars
  <2>2. startup[r] = "none" /\ chan[r] = <<>> /\ Partial(got[r])
    BY <2>1, PlainWaits DEF Unsettled, Streams
  <2>3. ~InLoop(r)' /\ RouteOf(r)' # "json"
    BY <2>1, SameRoute DEF InLoop, Streams
  <2>4. SettlesBadly(r)
    BY <2>1 DEF SettleError, SettlesBadly, Recorded1, Traced, cacheVars
  <2> QED
    BY <1>3, <2>1, <2>2, <2>3, <2>4, RespondsAnswers DEF AnswerInv, ClosingEvents
<1>9. CASE JsonBodyBreaks(r)
  <2>1. /\ RouteOf(r) = "json" /\ pc[r] = "body" /\ UNCHANGED ask
        /\ SettleError(r, "interrupted") /\ Responds(r, "error_status")
    BY <1>9 DEF JsonBodyBreaks, jobVars
  <2>2. startup[r] = "none" /\ chan[r] = <<>> /\ got[r] = <<>>
    BY <2>1, PlainWaits DEF Unsettled, Streams
  <2>3. SettlesBadly(r)
    BY <2>1 DEF SettleError, SettlesBadly, Recorded1, Traced, cacheVars
  <2> QED
    BY <1>3, <2>1, <2>2, <2>3, PartialEmpty, RespondsAnswers DEF AnswerInv
<1> QED
  BY <1>4, <1>5, <1>6, <1>7, <1>8, <1>9

\* Failures before the body, and the ends of a round.
LEMMA RoundEnds ==
    ASSUME BookInv, AnswerInv, NEW r \in Reqs,
           \/ ConversionFails(r) \/ CallFails(r) \/ RoundFails(r) \/ RoundFlushes(r) \/ SearchFails(r)
    PROVE  AnswerOK(r)'
<1> USE DEF Closing
<1>1. SettleKind(r) /\ AnswerOK(r) /\ pc[r] \in Unsettled \ {"new"} /\ UNCHANGED ask
  BY SettlingKinds DEF AnswerInv, ConversionFails, CallFails, RoundFails, RoundFlushes, SearchFails,
                       Unsettled, jobVars
<1>2. CASE RoundFlushes(r)
  <2>1. SettlesWell(r)
    BY <1>1, <1>2 DEF RoundFlushes, SettleSuccess, SettlesWell, Recorded1, Traced
  <2>2. Succeeded(r)' /\ LoopReturnsSuccess(r) /\ InLoop(r)
    BY <1>1, <1>2, <2>1, SettleVerdict DEF RoundFlushes
  <2> QED
    BY <1>1, <2>2, LoopSuccessAnswers
<1>3. ASSUME ~RoundFlushes(r) PROVE ~Succeeded(r)'
  <2>1. records'[r] = Append(records[r], "error") /\ records[r] = <<>>
    BY <1>1, <1>3 DEF ConversionFails, CallFails, RoundFails, SearchFails, SettleError, Recorded1,
                      BookInv, ShapeOK, LedgerOK
  <2> QED
    BY <2>1 DEF Succeeded
<1>4. CASE InLoop(r) /\ ~RoundFlushes(r)
  <2>1. LoopReturnsError(r)
    BY <1>4 DEF ConversionFails, CallFails, RoundFails, SearchFails
  <2> QED
    BY <1>1, <1>3, <1>4, <2>1, LoopErrorAnswers
<1>5. CASE ~InLoop(r)
  <2>1. RouteOf(r) # "loop_sse" /\ ~RoundFlushes(r)
    BY <1>5 DEF InLoop, RoundFlushes
  <2>2. startup[r] = "none" /\ chan[r] = <<>> /\ Partial(got[r])
    BY <1>1, <2>1, PlainWaits
  <2>3. CASE ConversionFails(r) \/ (CallFails(r) /\ ~Streams(r))
    <3>1. Responds(r, "error_status") /\ (pc[r] = "convert" \/ ~Streams(r))
      BY <1>5, <2>3 DEF ConversionFails, CallFails
    <3>2. got[r] = <<>>
      BY <1>1, <2>1, <3>1, PlainWaits
    <3> QED
      BY <1>3, <2>1, <2>2, <3>1, <3>2, RespondsAnswers DEF AnswerInv
  <2>4. CASE CallFails(r) /\ Streams(r)
    <3>1. Responds(r, "error_event")
      BY <1>5, <2>4 DEF CallFails
    <3> QED
      BY <1>3, <2>1, <2>2, <3>1, RespondsAnswers DEF AnswerInv
  <2>5. RoundFails(r) \/ SearchFails(r) => InLoop(r)
    BY <1>1 DEF RoundFails, SearchFails, AnswerOK
  <2> QED
    BY <1>5, <2>1, <2>3, <2>4, <2>5
<1> QED
  BY <1>2, <1>4, <1>5

LEMMA AcceptAnswers ==
    ASSUME BookInv, AnswerInv, NEW r \in Reqs, Accept(r)
    PROVE  AnswerOK(r)'
<1>1. /\ startup[r] = "none" /\ pending[r] = <<>> /\ chan[r] = <<>> /\ got[r] = <<>>
      /\ UNCHANGED <<startup, pending, chan, got>> /\ client'[r] = "waiting"
  BY DEF Accept, AnswerInv, AnswerOK, BookInv, ShapeOK
<1>2. PICK q \in Candidates[r] :
        /\ ask' = [ask EXCEPT ![r] = Normalized(q)]
        /\ pc' = [pc EXCEPT ![r] = IF Route(Normalized(q)) = "direct" THEN "mcp" ELSE "convert"]
  BY DEF Accept
<1>3. RouteOf(r)' = Route(Normalized(q))
  BY <1>2 DEF RouteOf, AnswerInv, AnswerShape
<1>4. pc'[r] \in {"mcp", "convert"} /\ (pc'[r] = "mcp" => RouteOf(r)' = "direct")
  BY <1>2, <1>3 DEF BookInv, ShapeOK
<1> QED
  BY <1>1, <1>4, PartialEmpty DEF AnswerOK, LoopAnswer, PlainAnswer, Unsettled

\* The first events of a body, and those between its first and its last.
LEMMA BodyGoesOn ==
    ASSUME BookInv, AnswerInv, NEW r \in Reqs,
           StreamChunk(r) \/ BufferedChunk(r) \/ JsonChunk(r) \/ Ping(r)
    PROVE  AnswerOK(r)'
<1>1. /\ UNCHANGED <<ask, records, pc, pending, client, startup, chan>>
      /\ RouteOf(r) \in {"sse", "buffered", "json"} /\ pc[r] = "body"
  BY DEF StreamChunk, BufferedChunk, JsonChunk, Ping, Decodes, FirstChunkSends, Streams, jobVars,
         ledgerVars
<1>2. got'[r] = got[r] \/ (Streams(r) /\ \E w \in Opening : got'[r] = Append(got[r], w))
  BY DEF StreamChunk, BufferedChunk, JsonChunk, Ping, FirstChunkSends, Streams, Opening, AnswerInv,
         AnswerShape
<1>3. Partial(got[r]) /\ PlainAnswer(r) /\ AnswerOK(r)
  BY <1>1, PlainWaits DEF AnswerInv, AnswerOK, Unsettled
<1>4. Partial(got'[r])
  BY <1>2, <1>3, PartialGrows
<1>5. RouteOf(r)' = RouteOf(r) /\ Streams(r)' = Streams(r)
  BY <1>1, SameRoute
<1>6. PlainAnswer(r)'
  BY <1>1, <1>3, <1>4, <1>5 DEF PlainAnswer
<1>7. client[r] = "waiting" => got'[r] = <<>>
  BY <1>1, <1>2, <1>3 DEF PlainAnswer, AnswerOK
<1> QED
  BY <1>1, <1>3, <1>5, <1>6, <1>7 DEF AnswerOK

\* decode_round sends at most a ping, into the channel.
LEMMA LoopChunkAnswers ==
    ASSUME BookInv, AnswerInv, NEW r \in Reqs, LoopChunk(r)
    PROVE  AnswerOK(r)'
<1>1. /\ UNCHANGED <<ask, records, pc, pending, client, got>> /\ InLoop(r) /\ pc[r] = "body"
      /\ MarkFirstChunk(r)
  BY DEF LoopChunk, Decodes, MarkFirstChunk, jobVars, ledgerVars
<1>2. AnswerOK(r)
  BY DEF AnswerInv
<1>3. RouteOf(r)' = RouteOf(r) /\ InLoop(r)' = InLoop(r) /\ Streams(r)' = Streams(r)
  BY <1>1, SameRoute
<1>4. client[r] # "closed"
  BY <1>1, <1>2 DEF AnswerOK
<1>5. CASE RouteOf(r) # "loop_sse"
  <2>1. UNCHANGED <<startup, chan>> /\ PlainAnswer(r)
    BY <1>1, <1>2, <1>5 DEF MarkFirstChunk, AnswerOK
  <2>2. PlainAnswer(r)'
    BY <1>1, <1>3, <2>1 DEF PlainAnswer
  <2> QED
    BY <1>1, <1>2, <1>3, <1>4, <1>5, <2>2 DEF AnswerOK
<1>6. CASE RouteOf(r) = "loop_sse"
  <2>1. LoopAnswer(r)
    BY <1>1, <1>2, <1>6 DEF AnswerOK
  <2>2. startup'[r] \in {"started", startup[r]}
    BY <1>1, <1>6 DEF MarkFirstChunk, BookInv, ShapeOK
  <2>3. chan'[r] = chan[r] \/ chan'[r] = Append(chan[r], "ping")
    <3>1. CASE startup[r] = "none" /\ client[r] # "gone"
      BY <1>1, <1>6, <3>1 DEF MarkFirstChunk, AnswerInv, AnswerShape
    <3>2. CASE startup[r] = "none" /\ client[r] = "gone"
      BY <1>1, <1>6, <3>2 DEF MarkFirstChunk, AnswerInv, AnswerShape
    <3>3. CASE startup[r] # "none"
      BY <1>1, <3>3 DEF MarkFirstChunk
    <3> QED
      BY <3>1, <3>2, <3>3
  <2>4. Partial(chan[r]) => Partial(chan'[r])
    BY <2>3, PartialGrows DEF Opening
  <2>5. startup'[r] # "failed"
    BY <1>1, <2>1, <2>2 DEF LoopAnswer
  <2>6. LoopAnswer(r)'
    BY <1>1, <2>1, <2>2, <2>4, <2>5 DEF LoopAnswer, Unsettled
  <2> QED
    BY <1>1, <1>2, <1>3, <1>4, <1>6, <2>6 DEF AnswerOK
<1> QED
  BY <1>5, <1>6

\* Between two rounds and between a round's phases nothing is sent.
LEMMA WorkAnswers ==
    ASSUME BookInv, AnswerInv, NEW r \in Reqs,
           Convert(r) \/ CallAnswers(r) \/ RoundSearches(r) \/ SearchAnswers(r)
    PROVE  AnswerOK(r)'
<1>1. UNCHANGED <<ask, records, startup, pending, chan, got>> /\ AnswerOK(r)
  BY DEF Convert, CallAnswers, RoundSearches, SearchAnswers, jobVars, ledgerVars, clientVars, AnswerInv
<1>2. RouteOf(r)' = RouteOf(r) /\ InLoop(r)' = InLoop(r) /\ Streams(r)' = Streams(r)
  BY <1>1, SameRoute
<1>3. pc[r] \in {"convert", "call", "body", "search"} /\ pc'[r] \in {"convert", "call", "body", "search"}
  BY DEF Convert, CallAnswers, RoundSearches, SearchAnswers, BookInv, ShapeOK
<1>4. client'[r] = client[r] \/ (Streams(r) /\ client'[r] = "open" /\ pc'[r] = "call")
  BY DEF Convert, CallAnswers, RoundSearches, SearchAnswers, BookInv, ShapeOK, clientVars
<1>5. client[r] # "closed" /\ client'[r] # "closed"
  BY <1>1, <1>3, <1>4 DEF AnswerOK
<1>6. pc'[r] = "search" => InLoop(r)
  BY <1>1, <1>3 DEF Convert, CallAnswers, RoundSearches, SearchAnswers, BookInv, ShapeOK, AnswerOK
<1>7. CASE RouteOf(r) = "loop_sse"
  <2>1. LoopAnswer(r) /\ client'[r] = client[r]
    BY <1>1, <1>3, <1>4, <1>7 DEF AnswerOK, Streams
  <2>2. LoopAnswer(r)'
    BY <1>1, <1>3, <2>1 DEF LoopAnswer, Unsettled
  <2> QED
    BY <1>1, <1>2, <1>3, <1>5, <1>6, <1>7, <2>1, <2>2 DEF AnswerOK
<1>8. CASE RouteOf(r) # "loop_sse"
  <2>1. PlainAnswer(r) /\ Partial(got[r])
    BY <1>1, <1>3, <1>8, PlainWaits DEF AnswerOK, Unsettled
  <2>2. Streams(r) => client'[r] = "open" /\ pc'[r] \in {"call", "body"}
    <3>1. CASE Convert(r)
      BY <3>1 DEF Convert, BookInv, ShapeOK
    <3>2. CASE CallAnswers(r)
      BY <2>1, <3>2 DEF CallAnswers, BookInv, ShapeOK, PlainAnswer, Unsettled, clientVars
    <3>3. CASE RoundSearches(r) \/ SearchAnswers(r)
      BY <1>1, <3>3 DEF RoundSearches, SearchAnswers, AnswerOK, InLoop, Streams
    <3> QED
      BY <3>1, <3>2, <3>3
  <2>3. client'[r] \in {"waiting", "open"} /\ (client'[r] = "waiting" => client[r] = "waiting")
    BY <1>3, <1>4, <2>1 DEF PlainAnswer, Unsettled
  <2>4. client'[r] = "open" => Streams(r)
    BY <1>4, <2>1 DEF PlainAnswer
  <2>5. PlainAnswer(r)'
    BY <1>1, <1>2, <1>3, <2>1, <2>2, <2>3, <2>4 DEF PlainAnswer
  <2> QED
    BY <1>1, <1>2, <1>3, <1>5, <1>6, <1>8, <2>3, <2>5 DEF AnswerOK
<1> QED
  BY <1>7, <1>8

\* Words move from the task to the channel and from the channel to the client, in order.
LEMMA SendAnswers ==
    ASSUME BookInv, AnswerInv, NEW r \in Reqs, SendEvent(r)
    PROVE  AnswerOK(r)'
<1>1. UNCHANGED <<ask, records, startup, client, got>> /\ pc[r] = "send" /\ AnswerOK(r)
  BY DEF SendEvent, jobVars, ledgerVars, AnswerInv
<1>2. RouteOf(r)' = RouteOf(r) /\ VerdictOf(r)' = VerdictOf(r)
  BY <1>1, SameRoute, SameVerdict
<1>3. RouteOf(r) = "loop_sse" /\ LoopAnswer(r)
  BY <1>1 DEF AnswerOK, PlainAnswer
<1>4. pc'[r] \in {"send", "ended"} /\ startup[r] # "failed" /\ client[r] # "closed"
  BY <1>1, <1>3 DEF SendEvent, BookInv, ShapeOK, LoopAnswer, AnswerOK
<1>5. client[r] \in {"waiting", "open"} => OnItsWay(r)'
  <2> SUFFICES ASSUME client[r] \in {"waiting", "open"} PROVE OnItsWay(r)'
    OBVIOUS
  <2>1. OnItsWay(r)
    BY <1>1, <1>3, <1>4 DEF LoopAnswer, Unsettled
  <2>2. CASE pending[r] = <<>>
    <3>1. ~Complete(pending[r], VerdictOf(r))
      BY <2>2, CompleteRead
    <3>2. UNCHANGED <<pending, chan>>
      BY <2>2 DEF SendEvent
    <3> QED
      BY <1>1, <1>2, <2>1, <3>1, <3>2 DEF OnItsWay
  <2>3. CASE pending[r] # <<>>
    <3>1. Partial(got[r]) /\ Partial(chan[r]) /\ Complete(pending[r], VerdictOf(r))
      BY <2>1, <2>3 DEF OnItsWay
    <3>2. /\ chan'[r] = Append(chan[r], Head(pending[r])) /\ pending'[r] = Tail(pending[r])
          /\ pc'[r] = "send"
      BY <1>1, <2>3 DEF SendEvent, AnswerInv, AnswerShape
    <3>3. CASE Head(pending[r]) \in Opening /\ Complete(Tail(pending[r]), VerdictOf(r))
      BY <1>1, <1>2, <3>1, <3>2, <3>3, PartialGrows DEF OnItsWay
    <3>4. CASE Head(pending[r]) = VerdictOf(r) /\ Tail(pending[r]) = <<>>
      <4>1. Complete(chan'[r], VerdictOf(r))
        BY <3>1, <3>2, <3>4 DEF Complete, Partial
      <4> QED
        BY <1>1, <1>2, <3>1, <3>2, <3>4, <4>1 DEF OnItsWay
    <3> QED
      BY <3>1, <3>3, <3>4, CompleteRead
  <2> QED
    BY <2>2, <2>3
<1>6. LoopAnswer(r)'
  BY <1>1, <1>3, <1>4, <1>5 DEF LoopAnswer, Unsettled
<1> QED
  BY <1>1, <1>2, <1>3, <1>4, <1>6 DEF AnswerOK

LEMMA ReadAnswers ==
    ASSUME BookInv, AnswerInv, NEW r \in Reqs, ClientReads(r)
    PROVE  AnswerOK(r)'
<1>1. /\ UNCHANGED <<ask, records, pc, startup, pending, client>> /\ AnswerOK(r)
      /\ client[r] = "open" /\ chan[r] # <<>>
      /\ got'[r] = Append(got[r], Head(chan[r])) /\ chan'[r] = Tail(chan[r])
  BY DEF ClientReads, jobVars, ledgerVars, AnswerInv, AnswerShape
<1>2. RouteOf(r)' = RouteOf(r) /\ InLoop(r)' = InLoop(r) /\ VerdictOf(r)' = VerdictOf(r)
  BY <1>1, SameRoute, SameVerdict
<1>3. pc[r] # "new"
  BY <1>1 DEF BookInv, LedgerOK
<1>4. RouteOf(r) = "loop_sse" /\ LoopAnswer(r)
  BY <1>1, <1>3 DEF AnswerOK, PlainAnswer
<1>5. ASSUME Partial(got[r]), Partial(chan[r]) PROVE Partial(got'[r]) /\ Partial(chan'[r])
  BY <1>1, <1>5, PartialRead, PartialGrows
<1>6. OnItsWay(r) => OnItsWay(r)'
  <2>1. CASE pc[r] = "send" /\ Partial(got[r]) /\ Partial(chan[r]) /\ Complete(pending[r], VerdictOf(r))
    BY <1>1, <1>2, <1>5, <2>1 DEF OnItsWay
  <2>2. CASE pending[r] = <<>> /\ Partial(got[r]) /\ Complete(chan[r], VerdictOf(r))
    <3>1. CASE Head(chan[r]) \in Opening /\ Complete(Tail(chan[r]), VerdictOf(r))
      BY <1>1, <1>2, <2>2, <3>1, PartialGrows DEF OnItsWay
    <3>2. CASE Head(chan[r]) = VerdictOf(r) /\ Tail(chan[r]) = <<>>
      <4>1. Complete(got'[r], VerdictOf(r))
        BY <1>1, <2>2, <3>2 DEF Complete, Partial
      <4> QED
        BY <1>1, <1>2, <2>2, <3>2, <4>1 DEF OnItsWay
    <3> QED
      BY <2>2, <3>1, <3>2, CompleteRead
  <2> QED
    BY <1>1, <2>1, <2>2 DEF OnItsWay
<1>7. LoopAnswer(r)'
  BY <1>1, <1>2, <1>4, <1>5, <1>6 DEF LoopAnswer, VerdictOf, Succeeded
<1> QED
  BY <1>1, <1>2, <1>3, <1>4, <1>7 DEF AnswerOK

\* The response starts with the signal, or is the error of a loop that never started.
LEMMA StartAnswers ==
    ASSUME BookInv, AnswerInv, NEW r \in Reqs, StreamStarts(r)
    PROVE  AnswerOK(r)'
<1>1. /\ UNCHANGED <<ask, records, pc, startup, pending, chan>> /\ AnswerOK(r)
      /\ client[r] = "waiting" /\ startup[r] # "none"
  BY DEF StreamStarts, jobVars, ledgerVars, AnswerInv
<1>2. RouteOf(r)' = RouteOf(r) /\ InLoop(r)' = InLoop(r) /\ VerdictOf(r)' = VerdictOf(r)
      /\ Succeeded(r)' = Succeeded(r)
  BY <1>1, SameRoute, SameVerdict
<1>3. pc[r] # "new" /\ got[r] = <<>>
  BY <1>1 DEF BookInv, LedgerOK, AnswerOK
<1>4. RouteOf(r) = "loop_sse" /\ LoopAnswer(r)
  BY <1>1, <1>3 DEF AnswerOK, PlainAnswer
<1>5. CASE startup[r] = "started"
  <2>1. client'[r] = "open" /\ UNCHANGED got
    BY <1>5 DEF StreamStarts, BookInv, ShapeOK
  <2>2. OnItsWay(r)' = OnItsWay(r)
    BY <1>1, <1>2, <2>1 DEF OnItsWay
  <2>3. LoopAnswer(r)'
    BY <1>1, <1>4, <1>5, <2>1, <2>2 DEF LoopAnswer
  <2> QED
    BY <1>1, <1>2, <1>3, <1>4, <2>1, <2>3 DEF AnswerOK
<1>6. CASE startup[r] = "failed"
  <2>1. client'[r] = "closed" /\ got'[r] = Append(<<>>, "error_status")
    BY <1>3, <1>6 DEF StreamStarts, BookInv, ShapeOK, AnswerInv, AnswerShape
  <2>2. pc[r] = "ended" /\ ~Succeeded(r)
    BY <1>1, <1>4, <1>6 DEF LoopAnswer, Unsettled
  <2>3. <<>> \in Seq(Opening) /\ "error_status" \in Closing
    BY DEF Closing
  <2>4. /\ {i \in DOMAIN got'[r] : got'[r][i] \in Closing} = {Len(got'[r])}
        /\ Last(got'[r]) = "error_status" /\ Len(got'[r]) = 1
    BY <2>1, <2>3, AppendEnds
  <2>5. Answered(r)'
    BY <1>2, <2>2, <2>4 DEF Answered
  <2>6. LoopAnswer(r)'
    BY <1>1, <2>1, <2>2 DEF LoopAnswer
  <2> QED
    BY <1>1, <1>2, <1>3, <1>4, <2>1, <2>2, <2>5, <2>6 DEF AnswerOK
<1> QED
  BY <1>1, <1>5, <1>6 DEF BookInv, ShapeOK, StartupValues

\* The stream of a search loop ends when everything has been read.
LEMMA EndAnswers ==
    ASSUME BookInv, AnswerInv, NEW r \in Reqs, StreamEnds(r)
    PROVE  AnswerOK(r)'
<1>1. /\ UNCHANGED <<ask, records, pc, startup, pending, chan, got>> /\ AnswerOK(r)
      /\ client[r] = "open" /\ client'[r] = "closed"
      /\ RouteOf(r) = "loop_sse" /\ chan[r] = <<>> /\ pc[r] = "ended"
  BY DEF StreamEnds, jobVars, ledgerVars, AnswerInv, BookInv, ShapeOK
<1>2. RouteOf(r)' = RouteOf(r) /\ InLoop(r)' = InLoop(r) /\ Succeeded(r)' = Succeeded(r)
  BY <1>1, SameRoute, SameVerdict
<1>3. LoopAnswer(r)
  BY <1>1 DEF AnswerOK
<1>4. Complete(got[r], VerdictOf(r))
  <2>1. OnItsWay(r)
    BY <1>1, <1>3 DEF LoopAnswer, Unsettled
  <2>2. ~Complete(chan[r], VerdictOf(r))
    BY <1>1, CompleteRead
  <2> QED
    BY <1>1, <2>1, <2>2 DEF OnItsWay
<1>5. PICK t \in Seq(Opening) : got[r] = Append(t, VerdictOf(r))
  BY <1>4 DEF Complete
<1>6. VerdictOf(r) \in Closing
  BY DEF VerdictOf, Closing
<1>7. /\ {i \in DOMAIN got[r] : got[r][i] \in Closing} = {Len(got[r])}
      /\ Last(got[r]) = VerdictOf(r)
  BY <1>5, <1>6, AppendEnds
<1>8. Answered(r)
  BY <1>7 DEF Answered, VerdictOf
<1>9. Answered(r)'
  BY <1>1, <1>2, <1>8 DEF Answered
<1>10. LoopAnswer(r)'
  BY <1>1, <1>3 DEF LoopAnswer
<1> QED
  BY <1>1, <1>2, <1>9, <1>10 DEF AnswerOK

LEMMA LeaveAnswers ==
    ASSUME BookInv, AnswerInv, NEW r \in Reqs, Disconnect(r)
    PROVE  AnswerOK(r)'
<1>1. /\ UNCHANGED <<ask, records, startup, pending, got>> /\ AnswerOK(r)
      /\ client[r] \in {"waiting", "open"} /\ client'[r] = "gone" /\ chan'[r] = <<>>
      /\ pc'[r] = IF RouteOf(r) = "loop_sse" THEN pc[r] ELSE "ended"
  BY DEF Disconnect, jobVars, ledgerVars, AnswerInv, AnswerShape, BookInv, ShapeOK
<1>2. RouteOf(r)' = RouteOf(r) /\ InLoop(r)' = InLoop(r)
  BY <1>1, SameRoute
<1>3. pc[r] # "new"
  BY <1>1 DEF BookInv, LedgerOK
<1>4. RouteOf(r) = "loop_sse" => LoopAnswer(r)'
  BY <1>1, <1>2, <1>3 DEF AnswerOK, LoopAnswer
<1>5. RouteOf(r) # "loop_sse" => PlainAnswer(r)'
  BY <1>1, <1>2, <1>3 DEF AnswerOK, PlainAnswer, Unsettled
<1> QED
  BY <1>1, <1>2, <1>3, <1>4, <1>5 DEF AnswerOK

LEMMA RestartAnswers ==
    ASSUME BookInv, AnswerInv, Restart
    PROVE  AnswerInv'
<1>1. UNCHANGED <<ask, records, startup, got>>
  BY DEF Restart, jobVars, ledgerVars
<1>2. AnswerShape'
  BY <1>1 DEF Restart, AnswerInv, AnswerShape
<1>3. ASSUME NEW r \in Reqs PROVE AnswerOK(r)'
  <2>1. /\ pc'[r] = IF pc[r] = "new" THEN "new" ELSE "ended"
        /\ client'[r] = IF client[r] \in {"waiting", "open"} THEN "gone" ELSE client[r]
        /\ chan'[r] = <<>> /\ pending'[r] = <<>>
    BY DEF Restart
  <2>2. RouteOf(r)' = RouteOf(r) /\ InLoop(r)' = InLoop(r) /\ Succeeded(r)' = Succeeded(r)
    BY <1>1, SameRoute, SameVerdict
  <2>3. Answered(r)' = Answered(r)
    BY <1>1, <2>2 DEF Answered
  <2>4. AnswerOK(r) /\ (pc[r] = "new" => client[r] = "absent")
    BY DEF AnswerInv, BookInv, LedgerOK
  <2>5. pc[r] # "new" /\ RouteOf(r) = "loop_sse" => LoopAnswer(r)'
    BY <1>1, <2>1, <2>4 DEF AnswerOK, LoopAnswer
  <2>6. pc[r] # "new" /\ RouteOf(r) # "loop_sse" => PlainAnswer(r)'
    BY <1>1, <2>1, <2>4 DEF AnswerOK, PlainAnswer, Unsettled
  <2> QED
    BY <1>1, <2>1, <2>2, <2>3, <2>4, <2>5, <2>6 DEF AnswerOK
<1> QED
  BY <1>2, <1>3 DEF AnswerInv

LEMMA IdleAnswers ==
    ASSUME AnswerInv, CacheStep \/ UNCHANGED vars
    PROVE  AnswerInv'
<1>1. UNCHANGED <<ask, pc, records, startup, client, pending, chan, got>>
  BY DEF CacheStep, vars, jobVars, ledgerVars, clientVars
<1>2. AnswerShape'
  BY <1>1 DEF AnswerInv, AnswerShape
<1>3. ASSUME NEW r \in Reqs PROVE AnswerOK(r)'
  BY <1>1, LocalAnswer DEF SameFor, AnswerInv
<1> QED
  BY <1>2, <1>3 DEF AnswerInv

LEMMA NextAnswers == BookInv /\ AnswerInv /\ [Next]_vars => AnswerInv'
<1> SUFFICES ASSUME BookInv, AnswerInv, [Next]_vars PROVE AnswerInv'
  OBVIOUS
<1>1. ASSUME NEW r \in Reqs, RequestStep(r) PROVE AnswerInv'
  <2>1. AnswerShape' /\ \A q \in Reqs : q # r => SameFor(q)
    BY <1>1, OthersKeep DEF AnswerInv
  <2>2. AnswerOK(r)'
    BY <1>1, AcceptAnswers, PlainEnds, RoundEnds, BodyGoesOn, LoopChunkAnswers, WorkAnswers,
       SendAnswers, ReadAnswers, StartAnswers, EndAnswers, LeaveAnswers
       DEF RequestStep, TaskStep, ResponseStep
  <2>3. ASSUME NEW q \in Reqs PROVE AnswerOK(q)'
    BY <2>1, <2>2, LocalAnswer DEF AnswerInv
  <2> QED
    BY <2>1, <2>3 DEF AnswerInv
<1> QED
  BY <1>1, RestartAnswers, IdleAnswers DEF Next, RequestStep

LEMMA InitAnswers == Init => AnswerInv
BY DEF Init, AnswerInv, AnswerShape, AnswerOK

LEMMA AnswerInvariant == SafetySpec => [](BookInv /\ AnswerInv)
<1>1. BookInv /\ AnswerInv /\ [Next]_vars => AnswerInv'
  BY NextAnswers
<1> QED
  BY <1>1, InitAnswers, BookInvariant, PTL DEF SafetySpec

\* A response that ends has told the client how, last and once: with the message, with an
\* error, or with an error status that comes alone; a success never ends otherwise, and a
\* failed search loop or a failed answer in one piece never ends like a message
\* (create_sse_stream, create_buffered_sse_stream, the non-stream handlers and
\* render_deferred_sse with its startup signal and its channel).
THEOREM VerdictTheorem == SafetySpec => []EndsWithVerdict
<1>1. AnswerInv => EndsWithVerdict
  BY DEF AnswerInv, AnswerOK, Answered, Closing, EndsWithVerdict
<1> QED
  BY <1>1, AnswerInvariant, PTL

----------------------------------------------------------------------------
(* The rounds of a search loop *)

BodyType == [uses : Seq(STRING), flawed : BOOLEAN, chunks : Int, searched : Int]
RoundType == [uses : Seq(STRING), results : Int]

AllSearches(uses) == ToSet(uses) = {"web_search"}

\* The rounds fed back are paired; a search under way is one of a round to search; what was
\* flushed is what SearchesPaired says.
RoundsOK(r) ==
  /\ body[r] \in BodyType /\ fed[r] \in Seq(RoundType)
  /\ \A i \in DOMAIN fed[r] : fed[r][i].results = Len(fed[r][i].uses) /\ AllSearches(fed[r][i].uses)
  /\ round[r] = Len(fed[r]) /\ Len(fed[r]) <= MaxRounds
  /\ IF pc[r] = "search"
     THEN AllSearches(body[r].uses) /\ round[r] < MaxRounds /\ body[r].searched < Len(body[r].uses)
     ELSE body[r].searched = 0
  /\ Succeeded(r) /\ InLoop(r) =>
       /\ AllSearches(content[r].tools) => Len(fed[r]) = MaxRounds
       /\ content[r].searches = SumFunction([k \in DOMAIN fed[r] |-> Len(fed[r][k].uses)])

RoundsShape ==
  /\ body = [r \in Reqs |-> body[r]] /\ fed = [r \in Reqs |-> fed[r]]
  /\ round = [r \in Reqs |-> round[r]] /\ content = [r \in Reqs |-> content[r]]

RoundsInv == RoundsShape /\ \A r \in Reqs : RoundsOK(r)

SameRounds(q) ==
  /\ body'[q] = body[q] /\ fed'[q] = fed[q] /\ round'[q] = round[q] /\ content'[q] = content[q]

LEMMA LocalRounds ==
    ASSUME NEW q \in Reqs, RoundsOK(q), SameFor(q), SameRounds(q)
    PROVE  RoundsOK(q)'
<1>1. InLoop(q)' = InLoop(q) /\ Succeeded(q)' = Succeeded(q)
  BY DEF SameFor, InLoop, RouteOf, Succeeded
<1> QED
  BY <1>1 DEF SameFor, SameRounds, RoundsOK

\* What an action does to the rounds of its request.
RoundsFrame(r) ==
  /\ \E x : body' = [body EXCEPT ![r] = x]
  /\ \E x : fed' = [fed EXCEPT ![r] = x]
  /\ \E x : round' = [round EXCEPT ![r] = x]
  /\ \E x : content' = [content EXCEPT ![r] = x]

LEMMA StillRounds ==
    ASSUME RoundsShape, NEW r \in Reqs
    PROVE  /\ UNCHANGED body => \E x : body' = [body EXCEPT ![r] = x]
           /\ UNCHANGED fed => \E x : fed' = [fed EXCEPT ![r] = x]
           /\ UNCHANGED round => \E x : round' = [round EXCEPT ![r] = x]
           /\ UNCHANGED content => \E x : content' = [content EXCEPT ![r] = x]
<1>1. /\ body = [body EXCEPT ![r] = body[r]] /\ fed = [fed EXCEPT ![r] = fed[r]]
      /\ round = [round EXCEPT ![r] = round[r]] /\ content = [content EXCEPT ![r] = content[r]]
  BY Unchanging DEF RoundsShape
<1> QED
  BY <1>1

LEMMA DecodesRounds ==
    ASSUME NEW r \in Reqs, Decodes(r)
    PROVE  \E x : body' = [body EXCEPT ![r] = x]
<1>1. CASE \E c \in ChunkContents :
             body' = [body EXCEPT ![r].uses = @ \o c, ![r].chunks = @ + 1]
  BY <1>1
<1>2. CASE body' = [body EXCEPT ![r].flawed = TRUE, ![r].chunks = @ + 1]
  BY <1>2
<1> QED
  BY <1>1, <1>2 DEF Decodes

LEMMA RoundsTouched ==
    ASSUME RoundsShape, NEW r \in Reqs, RequestStep(r)
    PROVE  RoundsFrame(r)
<1>1. CASE UNCHANGED <<body, fed, round, content>>
  BY <1>1, StillRounds DEF RoundsFrame
<1>2. CASE UNCHANGED <<fed, round, content>> /\ (Decodes(r) \/ DropsBody(r))
  BY <1>2, StillRounds, DecodesRounds DEF RoundsFrame, DropsBody
<1>3. CASE SettleBody(r) \/ RoundFlushes(r)
  BY <1>3, StillRounds DEF RoundsFrame, DropsBody, SettleBody, RoundFlushes
<1>4. CASE SearchAnswers(r)
  <2>1. CASE body[r].searched + 1 < Len(body[r].uses)
    <3>1. UNCHANGED <<fed, round, content>> /\ \E x : body' = [body EXCEPT ![r] = x]
      BY <1>4, <2>1 DEF SearchAnswers
    <3> QED
      BY <3>1, StillRounds DEF RoundsFrame
  <2>2. CASE ~(body[r].searched + 1 < Len(body[r].uses))
    <3>1. /\ UNCHANGED content
          /\ \E x : fed' = [fed EXCEPT ![r] = x]
          /\ \E x : round' = [round EXCEPT ![r] = x]
          /\ \E x : body' = [body EXCEPT ![r] = x]
      BY <1>4, <2>2 DEF SearchAnswers, DropsBody
    <3> QED
      BY <3>1, StillRounds DEF RoundsFrame
  <2> QED
    BY <2>1, <2>2
<1>5. CASE \/ RejectEarly(r) \/ Accept(r) \/ DirectSearch(r) \/ ConversionFails(r) \/ Convert(r)
           \/ CallFails(r) \/ CallAnswers(r) \/ Ping(r) \/ RoundSearches(r) \/ SendEvent(r)
           \/ ResponseStep(r)
  BY <1>1, <1>5 DEF RejectEarly, Accept, DirectSearch, ConversionFails, Convert, CallFails,
     CallAnswers, Ping, RoundSearches, SendEvent, ResponseStep, StreamStarts, ClientReads,
     StreamEnds, jobVars
<1>6. CASE StreamChunk(r) \/ BufferedChunk(r) \/ JsonChunk(r) \/ LoopChunk(r)
  BY <1>2, <1>6 DEF StreamChunk, BufferedChunk, JsonChunk, LoopChunk, Decodes, jobVars
<1>7. CASE \/ StreamBodyBreaks(r) \/ BufferedBodyBreaks(r) \/ JsonBodyBreaks(r)
           \/ RoundFails(r) \/ SearchFails(r)
  BY <1>2, <1>7 DEF StreamBodyBreaks, BufferedBodyBreaks, BrokenStream, JsonBodyBreaks, RoundFails,
     SearchFails, jobVars
<1>8. CASE Disconnect(r)
  BY <1>1, <1>2, <1>8 DEF Disconnect, jobVars
<1> QED
  BY <1>3, <1>4, <1>5, <1>6, <1>7, <1>8
     DEF RequestStep, TaskStep, StreamBodyEnds, BufferedBodyEnds, JsonBodyEnds

LEMMA OthersRounds ==
    ASSUME RoundsShape, NEW r \in Reqs, RequestStep(r)
    PROVE  RoundsShape' /\ \A q \in Reqs : q # r => SameRounds(q)
<1>1. RoundsFrame(r)
  BY RoundsTouched
<1> QED
  BY <1>1 DEF RoundsFrame, RoundsShape, SameRounds

\* No round is fed back and none flushed.
LEMMA NoRound ==
    ASSUME NEW r \in Reqs, RoundsOK(r), fed'[r] = fed[r], round'[r] = round[r],
           body'[r] \in BodyType, body'[r].searched = 0, pc'[r] # "search",
           Succeeded(r)' /\ InLoop(r)' => Succeeded(r) /\ InLoop(r) /\ content'[r] = content[r]
    PROVE  RoundsOK(r)'
BY DEF RoundsOK

LEMMA DroppedBody ==
    ASSUME RoundsShape, NEW r \in Reqs, DropsBody(r)
    PROVE  body'[r] \in BodyType /\ body'[r].searched = 0
<1>1. body'[r] = NoBody
  BY DEF DropsBody, RoundsShape
<1> QED
  BY <1>1 DEF NoBody, BodyType

LEMMA DecodedBody ==
    ASSUME RoundsShape, NEW r \in Reqs, RoundsOK(r), Decodes(r)
    PROVE  body'[r] \in BodyType /\ body'[r].searched = 0
<1>1. body[r] \in BodyType /\ body[r].searched = 0
  BY DEF RoundsOK, Decodes
<1>2. body[r].chunks + 1 \in Int
  BY <1>1 DEF BodyType
<1>3. CASE \E c \in ChunkContents :
             body' = [body EXCEPT ![r].uses = @ \o c, ![r].chunks = @ + 1]
  <2>1. PICK c \in ChunkContents : body' = [body EXCEPT ![r].uses = @ \o c, ![r].chunks = @ + 1]
    BY <1>3
  <2>2. body'[r] = [body[r] EXCEPT !.uses = body[r].uses \o c, !.chunks = body[r].chunks + 1]
    BY <2>1 DEF RoundsShape
  <2>3. body[r].uses \o c \in Seq(STRING)
    BY <1>1, ChunkAssumption DEF BodyType
  <2>4. PICK x \in BodyType : x = body[r]
    BY <1>1
  <2>5. PICK u \in Seq(STRING) : u = body[r].uses \o c
    BY <2>3
  <2>6. PICK n \in Int : n = body[r].chunks + 1
    BY <1>2
  <2>7. body'[r] = [x EXCEPT !.uses = u, !.chunks = n]
    BY <2>2, <2>4, <2>5, <2>6
  <2>8. body'[r] \in BodyType /\ body'[r].searched = x.searched
    BY <2>7 DEF BodyType
  <2> QED
    BY <1>1, <2>4, <2>8
<1>4. CASE body' = [body EXCEPT ![r].flawed = TRUE, ![r].chunks = @ + 1]
  <2>1. body'[r] = [body[r] EXCEPT !.flawed = TRUE, !.chunks = body[r].chunks + 1]
    BY <1>4 DEF RoundsShape
  <2>2. PICK x \in BodyType : x = body[r]
    BY <1>1
  <2>3. PICK n \in Int : n = body[r].chunks + 1
    BY <1>2
  <2>4. body'[r] = [x EXCEPT !.flawed = TRUE, !.chunks = n]
    BY <2>1, <2>2, <2>3
  <2>5. body'[r] \in BodyType /\ body'[r].searched = x.searched
    BY <2>4 DEF BodyType
  <2> QED
    BY <1>1, <2>2, <2>5
<1> QED
  BY <1>3, <1>4 DEF Decodes

\* Only a flush settles a search loop as a success.
LEMMA OnlyFlushSucceeds ==
    ASSUME BookInv, AnswerInv, NEW r \in Reqs, RequestStep(r), ~RoundFlushes(r)
    PROVE  Succeeded(r)' /\ InLoop(r)' => Succeeded(r) /\ InLoop(r) /\ content'[r] = content[r]
<1>1. CASE Accept(r)
  <2>1. records[r] = <<>> /\ UNCHANGED records
    BY <1>1 DEF Accept, BookInv, LedgerOK, Unsettled, ledgerVars
  <2> QED
    BY <2>1 DEF Succeeded
<1>2. CASE DirectSearch(r)
  <2>1. RouteOf(r) = "direct" /\ UNCHANGED ask
    BY <1>2 DEF DirectSearch, AnswerInv, AnswerOK, jobVars
  <2> QED
    BY <2>1, SameRoute DEF InLoop
<1>3. CASE StreamBodyEnds(r) \/ BufferedBodyEnds(r) \/ JsonBodyEnds(r)
  <2>1. ~InLoop(r) /\ UNCHANGED ask
    BY <1>3 DEF StreamBodyEnds, BufferedBodyEnds, JsonBodyEnds, SettleBody, InLoop
  <2> QED
    BY <2>1, SameRoute
<1>4. CASE \/ RejectEarly(r) \/ ConversionFails(r) \/ CallFails(r) \/ RoundFails(r) \/ SearchFails(r)
           \/ StreamBodyBreaks(r) \/ BufferedBodyBreaks(r) \/ JsonBodyBreaks(r)
  <2>1. records'[r] = Append(records[r], "error")
    BY <1>4 DEF RejectEarly, ConversionFails, CallFails, RoundFails, SearchFails, StreamBodyBreaks,
       BufferedBodyBreaks, BrokenStream, JsonBodyBreaks, SettleError, Recorded1, BookInv, ShapeOK
  <2>2. records[r] = <<>>
    BY <1>4, SettlingKinds DEF SettleKind, BookInv, LedgerOK
  <2> QED
    BY <2>1, <2>2 DEF Succeeded
<1>5. CASE MoveKind(r) \/ ReplyKind(r) \/ LeaveKind(r)
  <2>1. UNCHANGED records
    BY <1>5 DEF MoveKind, ReplyKind, LeaveKind
  <2>2. CASE SettleKind(r)
    BY <2>1, <2>2 DEF SettleKind, SettlesWell, SettlesBadly, BookInv, ShapeOK, LedgerOK
  <2>3. CASE UNCHANGED <<ask, content>>
    BY <2>1, <2>3, SameRoute, SameVerdict
  <2>4. SettleKind(r) \/ RoundFlushes(r) \/ Accept(r) \/ UNCHANGED <<ask, content>>
    BY SettlingKinds DEF RequestStep, TaskStep, ResponseStep, Convert, CallAnswers, StreamChunk,
       BufferedChunk, JsonChunk, LoopChunk, Decodes, Ping, RoundSearches, SearchAnswers, SendEvent,
       StreamStarts, ClientReads, StreamEnds, Disconnect, jobVars
  <2> QED
    BY <1>1, <2>2, <2>3, <2>4
<1> QED
  BY <1>1, <1>2, <1>3, <1>4, <1>5, MovingKinds, ReplyKinds, LeaveKinds
     DEF RequestStep, TaskStep, BookInv

LEMMA QuietRounds ==
    ASSUME BookInv, AnswerInv, RoundsInv, NEW r \in Reqs, RequestStep(r),
           ~RoundFlushes(r), ~RoundSearches(r), ~SearchAnswers(r)
    PROVE  RoundsOK(r)'
<1>1. RoundsOK(r) /\ RoundsShape
  BY DEF RoundsInv
<1>2. pc'[r] = "search" => pc[r] = "search" /\ UNCHANGED <<pc, body>>
  BY DEF RequestStep, TaskStep, ResponseStep, BookInv, ShapeOK, RejectEarly, Accept, DirectSearch,
     ConversionFails, Convert, CallFails, CallAnswers, StreamChunk, BufferedChunk, JsonChunk,
     LoopChunk, Decodes, Ping, StreamBodyEnds, BufferedBodyEnds, JsonBodyEnds, StreamBodyBreaks,
     BufferedBodyBreaks, BrokenStream, JsonBodyBreaks, RoundFails, SearchFails, SendEvent,
     StreamStarts, ClientReads, StreamEnds, Disconnect, Responds, LoopReturnsError
<1>3. UNCHANGED <<fed, round>>
  BY DEF RequestStep, TaskStep, ResponseStep, RejectEarly, Accept, DirectSearch,
     ConversionFails, Convert, CallFails, CallAnswers, StreamChunk, BufferedChunk, JsonChunk,
     LoopChunk, Decodes, Ping, StreamBodyEnds, BufferedBodyEnds, JsonBodyEnds, SettleBody,
     StreamBodyBreaks, BufferedBodyBreaks, BrokenStream, JsonBodyBreaks, RoundFails, SearchFails,
     SendEvent, StreamStarts, ClientReads, StreamEnds, Disconnect, jobVars
<1>4. UNCHANGED body \/ Decodes(r) \/ DropsBody(r)
  BY DEF RequestStep, TaskStep, ResponseStep, RejectEarly, Accept, DirectSearch,
     ConversionFails, Convert, CallFails, CallAnswers, StreamChunk, BufferedChunk, JsonChunk,
     LoopChunk, Ping, StreamBodyEnds, BufferedBodyEnds, JsonBodyEnds, SettleBody,
     StreamBodyBreaks, BufferedBodyBreaks, BrokenStream, JsonBodyBreaks, RoundFails, SearchFails,
     SendEvent, StreamStarts, ClientReads, StreamEnds, Disconnect
<1>5. Succeeded(r)' /\ InLoop(r)' => Succeeded(r) /\ InLoop(r) /\ content'[r] = content[r]
  BY OnlyFlushSucceeds
<1>6. CASE pc'[r] = "search"
  BY <1>1, <1>2, <1>3, <1>5, <1>6 DEF RoundsOK
<1>7. CASE pc'[r] # "search"
  <2>1. pc[r] = "search" => DropsBody(r)
    BY <1>7 DEF BookInv, ShapeOK, RequestStep, TaskStep, ResponseStep, RejectEarly, Accept, DirectSearch,
       ConversionFails, Convert, CallFails, CallAnswers, StreamChunk, BufferedChunk, JsonChunk,
       LoopChunk, Decodes, Ping, StreamBodyEnds, BufferedBodyEnds, JsonBodyEnds, SettleBody,
       StreamBodyBreaks, BufferedBodyBreaks, BrokenStream, JsonBodyBreaks, RoundFails, SearchFails,
       SendEvent, StreamStarts, ClientReads, StreamEnds, Disconnect
  <2>2. body'[r] \in BodyType /\ body'[r].searched = 0
    BY <1>1, <1>4, <2>1, DroppedBody, DecodedBody DEF RoundsOK
  <2> QED
    BY <1>1, <1>3, <1>5, <1>7, <2>2, NoRound
<1> QED
  BY <1>6, <1>7

LEMMA SearchStarts ==
    ASSUME BookInv, RoundsInv, NEW r \in Reqs, RoundSearches(r)
    PROVE  RoundsOK(r)'
<1>1. RoundsOK(r)
  BY DEF RoundsInv
<1>2. /\ UNCHANGED <<ask, fed, round, content, body, records>> /\ pc[r] = "body" /\ pc'[r] = "search"
      /\ ShouldSearchRound(r)
  BY DEF RoundSearches, jobVars, ledgerVars, BookInv, ShapeOK
<1>3. body[r].uses \in Seq(STRING) /\ body[r].searched = 0
  BY <1>1, <1>2 DEF RoundsOK, BodyType
<1>4. Len(body[r].uses) > 0
  BY <1>2, <1>3 DEF ShouldSearchRound
<1>5. AllSearches(body[r].uses)
  <2>1. 1 \in DOMAIN body[r].uses
    BY <1>3, <1>4
  <2> QED
    BY <1>2, <2>1 DEF ShouldSearchRound, AllSearches, ToSet
<1>6. InLoop(r)' = InLoop(r) /\ Succeeded(r)' = Succeeded(r)
  BY <1>2, SameRoute, SameVerdict
<1> QED
  BY <1>1, <1>2, <1>3, <1>4, <1>5, <1>6 DEF RoundsOK, ShouldSearchRound

LEMMA RoundFed ==
    ASSUME BookInv, RoundsInv, NEW r \in Reqs, SearchAnswers(r)
    PROVE  RoundsOK(r)'
<1>1. RoundsOK(r) /\ RoundsShape
  BY DEF RoundsInv
<1>2. UNCHANGED <<ask, content, records>> /\ pc[r] = "search"
  BY DEF SearchAnswers, ledgerVars
<1>3. ~Succeeded(r)'
  BY <1>2 DEF BookInv, LedgerOK, Unsettled, Succeeded
<1>4. PICK b \in BodyType : b = body[r]
  BY <1>1 DEF RoundsOK
<1>5. b.uses \in Seq(STRING) /\ b.searched \in Int /\ AllSearches(b.uses) /\ b.searched < Len(b.uses)
  BY <1>1, <1>2, <1>4 DEF RoundsOK, BodyType
<1>6. CASE b.searched + 1 < Len(b.uses)
  <2>1. body' = [body EXCEPT ![r].searched = @ + 1] /\ UNCHANGED <<fed, round, pc>>
    BY <1>4, <1>6 DEF SearchAnswers
  <2>2. PICK n \in Int : n = b.searched + 1
    BY <1>5
  <2>3. body'[r] = [b EXCEPT !.searched = n]
    BY <1>1, <1>4, <2>1, <2>2 DEF RoundsShape
  <2>4. body'[r] \in BodyType /\ body'[r].uses = b.uses /\ body'[r].searched = n
    BY <2>3 DEF BodyType
  <2> QED
    BY <1>1, <1>2, <1>3, <1>4, <1>6, <2>1, <2>2, <2>4 DEF RoundsOK
<1>7. CASE ~(b.searched + 1 < Len(b.uses))
  <2> DEFINE new == [uses |-> b.uses, results |-> b.searched + 1]
  <2>1. /\ fed'[r] = Append(fed[r], new) /\ round'[r] = round[r] + 1 /\ pc'[r] = "convert"
        /\ DropsBody(r)
    BY <1>1, <1>4, <1>7 DEF SearchAnswers, RoundsShape, BookInv, ShapeOK
  <2>2. new \in RoundType /\ new.results = Len(new.uses) /\ AllSearches(new.uses)
    BY <1>5, <1>7 DEF RoundType
  <2> HIDE DEF new
  <2>3. body'[r] \in BodyType /\ body'[r].searched = 0
    BY <1>1, <2>1, DroppedBody
  <2>4. fed[r] \in Seq(RoundType) /\ round[r] = Len(fed[r]) /\ round[r] < MaxRounds
    BY <1>1, <1>2 DEF RoundsOK
  <2>5. /\ fed'[r] \in Seq(RoundType) /\ Len(fed'[r]) = Len(fed[r]) + 1
        /\ \A i \in DOMAIN fed'[r] : fed'[r][i] = new \/ (i \in DOMAIN fed[r] /\ fed'[r][i] = fed[r][i])
    BY <2>1, <2>2, <2>4
  <2>6. \A i \in DOMAIN fed'[r] :
           fed'[r][i].results = Len(fed'[r][i].uses) /\ AllSearches(fed'[r][i].uses)
    BY <1>1, <2>2, <2>5 DEF RoundsOK
  <2>7. round'[r] = Len(fed'[r]) /\ Len(fed'[r]) <= MaxRounds
    BY <2>1, <2>4, <2>5, RoundsAssumption
  <2> QED
    BY <1>3, <2>1, <2>3, <2>5, <2>6, <2>7 DEF RoundsOK
<1> QED
  BY <1>6, <1>7

LEMMA RoundFlushed ==
    ASSUME BookInv, RoundsInv, NEW r \in Reqs, RoundFlushes(r)
    PROVE  RoundsOK(r)'
<1>1. RoundsOK(r) /\ RoundsShape
  BY DEF RoundsInv
<1>2. /\ UNCHANGED <<ask, fed, round>> /\ pc[r] = "body" /\ DropsBody(r) /\ ~ShouldSearchRound(r)
      /\ LoopReturnsSuccess(r)
  BY DEF RoundFlushes
<1>3. content'[r] = [tools |-> body[r].uses,
                     searches |-> SumFunction([k \in DOMAIN fed[r] |-> fed[r][k].results])]
  BY <1>1 DEF RoundFlushes, RoundsShape
<1>4. pc'[r] # "search"
  BY <1>2 DEF LoopReturnsSuccess, Responds, BookInv, ShapeOK
<1>5. body'[r] \in BodyType /\ body'[r].searched = 0
  BY <1>1, <1>2, DroppedBody
<1>6. [k \in DOMAIN fed[r] |-> fed[r][k].results] = [k \in DOMAIN fed[r] |-> Len(fed[r][k].uses)]
  BY <1>1 DEF RoundsOK
<1>7. content'[r].searches = SumFunction([k \in DOMAIN fed[r] |-> Len(fed[r][k].uses)])
  BY <1>3, <1>6
<1>8. AllSearches(content'[r].tools) => Len(fed[r]) = MaxRounds
  <2> SUFFICES ASSUME AllSearches(body[r].uses) PROVE Len(fed[r]) = MaxRounds
    BY <1>3
  <2>1. body[r].uses \in Seq(STRING)
    BY <1>1 DEF RoundsOK, BodyType
  <2>2. body[r].uses # <<>> /\ \A i \in DOMAIN body[r].uses : body[r].uses[i] = "web_search"
    <3>1. \A i \in DOMAIN body[r].uses : body[r].uses[i] \in ToSet(body[r].uses)
      BY DEF ToSet
    <3>2. body[r].uses = <<>> => ToSet(body[r].uses) = {}
      BY DEF ToSet
    <3> QED
      BY <3>1, <3>2 DEF AllSearches
  <2>3. ~(round[r] < MaxRounds)
    BY <1>2, <2>2 DEF ShouldSearchRound
  <2>4. round[r] = Len(fed[r]) /\ Len(fed[r]) <= MaxRounds /\ Len(fed[r]) \in Nat
    BY <1>1 DEF RoundsOK
  <2> QED
    BY <2>3, <2>4, RoundsAssumption
<1> QED
  BY <1>1, <1>2, <1>4, <1>5, <1>7, <1>8 DEF RoundsOK

LEMMA NextRounds == BookInv /\ AnswerInv /\ RoundsInv /\ [Next]_vars => RoundsInv'
<1> SUFFICES ASSUME BookInv, AnswerInv, RoundsInv, [Next]_vars PROVE RoundsInv'
  OBVIOUS
<1>1. ASSUME NEW r \in Reqs, RequestStep(r) PROVE RoundsInv'
  <2>1. \A q \in Reqs : q # r => SameFor(q)
    BY <1>1, OthersKeep DEF AnswerInv
  <2>2. RoundsShape' /\ \A q \in Reqs : q # r => SameRounds(q)
    BY <1>1, OthersRounds DEF RoundsInv
  <2>3. RoundsOK(r)'
    BY <1>1, QuietRounds, SearchStarts, RoundFed, RoundFlushed
  <2>4. ASSUME NEW q \in Reqs PROVE RoundsOK(q)'
    BY <2>1, <2>2, <2>3, LocalRounds DEF RoundsInv
  <2> QED
    BY <2>2, <2>4 DEF RoundsInv
<1>2. CASE Restart
  <2>1. UNCHANGED <<ask, fed, round, content, records>> /\ body' = [r \in Reqs |-> NoBody]
    BY <1>2 DEF Restart, jobVars, ledgerVars
  <2>2. RoundsShape'
    BY <2>1 DEF RoundsInv, RoundsShape
  <2>3. ASSUME NEW r \in Reqs PROVE RoundsOK(r)'
    <3>1. body'[r] \in BodyType /\ body'[r].searched = 0
      BY <2>1 DEF NoBody, BodyType
    <3>2. pc'[r] # "search"
      BY <1>2 DEF Restart
    <3>3. InLoop(r)' = InLoop(r) /\ Succeeded(r)' = Succeeded(r)
      BY <2>1, SameRoute, SameVerdict
    <3> QED
      BY <2>1, <3>1, <3>2, <3>3, NoRound DEF RoundsInv
  <2> QED
    BY <2>2, <2>3 DEF RoundsInv
<1>3. CASE CacheStep \/ UNCHANGED vars
  <2>1. UNCHANGED <<ask, pc, records, startup, client, pending, chan, got, body, fed, round, content>>
    BY <1>3 DEF CacheStep, vars, jobVars, ledgerVars, clientVars
  <2>2. RoundsShape'
    BY <2>1 DEF RoundsInv, RoundsShape
  <2>3. ASSUME NEW r \in Reqs PROVE RoundsOK(r)'
    BY <2>1, LocalRounds DEF SameFor, SameRounds, RoundsInv
  <2> QED
    BY <2>2, <2>3 DEF RoundsInv
<1> QED
  BY <1>1, <1>2, <1>3 DEF Next, RequestStep

LEMMA InitRounds == Init => RoundsInv
<1> SUFFICES ASSUME Init PROVE RoundsInv
  OBVIOUS
<1>1. RoundsShape
  BY DEF Init, RoundsShape
<1>2. ASSUME NEW r \in Reqs PROVE RoundsOK(r)
  <2>1. body[r] \in BodyType /\ body[r].searched = 0
    BY DEF Init, NoBody, BodyType
  <2> QED
    BY <2>1, RoundsAssumption DEF Init, RoundsOK, Succeeded
<1> QED
  BY <1>1, <1>2 DEF RoundsInv

\* A round is fed back only when all of its calls are searches, each with its result; a call
\* the client has to run, or a search beyond the limit, is handed to it; and the answer shows
\* every search that was made (should_search_round, append_search_round and the final flush
\* of websearch_loop.rs).
THEOREM SearchesTheorem == SafetySpec => []SearchesPaired
<1>1. RoundsInv => SearchesPaired
  BY DEF RoundsInv, RoundsOK, AllSearches, SearchesPaired
<1>2. BookInv /\ AnswerInv /\ RoundsInv /\ [Next]_vars => RoundsInv'
  BY NextRounds
<1> QED
  BY <1>1, <1>2, AnswerInvariant, InitRounds, PTL DEF SafetySpec

----------------------------------------------------------------------------
(* The segments of a request and its plan *)

PieceType == [sig : STRING, tok : Nat, hashed : BOOLEAN, cut : BOOLEAN]

\* What the price of a request depends on.
Priced(q) ==
  /\ q.total \in Nat
  /\ Len(q.tools) \in Nat
  /\ \A i \in 1 .. Len(q.tools) : q.tools[i].sig \in STRING /\ q.tools[i].tok \in Nat
  /\ q.system \in Seq(BlockType)
  /\ q.messages \in Seq(MessageType)

LEMMA NormalizedPriced ==
    ASSUME NEW q, IsRequest(q)
    PROVE  Priced(Normalized(q))
<1> DEFINE named(t) == [t EXCEPT !.name = WebSearchName(t.name)]
           tools == [i \in DOMAIN q.tools |-> named(q.tools[i])]
<1>1. q.tools \in Seq(ToolType)
  BY DEF IsRequest
<1>2. \A t \in ToolType : named(t).sig \in STRING /\ named(t).tok \in Nat
  BY DEF ToolType
<1>3. Normalized(q) = [q EXCEPT !.tools = tools]
  BY DEF Normalized
<1>4. DOMAIN q.tools = 1 .. Len(q.tools) /\ Len(q.tools) \in Nat
  BY <1>1
<1> HIDE DEF named
<1>5. Len(tools) \in Nat /\ \A i \in 1 .. Len(tools) : tools[i].sig \in STRING /\ tools[i].tok \in Nat
  BY <1>1, <1>2, <1>4
<1> HIDE DEF tools
<1>6. /\ Normalized(q).tools = tools /\ Normalized(q).total = q.total
      /\ Normalized(q).system = q.system /\ Normalized(q).messages = q.messages
  BY <1>3 DEF IsRequest
<1> QED
  BY <1>5, <1>6 DEF Priced, IsRequest

LEMMA BaseTyped ==
    ASSUME NEW q, Priced(q)
    PROVE  BasePieces(q) \in Seq(PieceType)
<1> DEFINE nt == Len(q.tools)
           n == nt + Len(q.system)
           at(i) == IF i <= nt THEN Piece(q.tools[i].sig, q.tools[i].tok, TRUE, i = n)
                    ELSE Piece(q.system[i - nt].sig, q.system[i - nt].tok,
                               ~SkippedBlock(q.system, i - nt), i = n)
<1>1. q.system \in Seq(BlockType) /\ nt \in Nat /\ Len(q.system) \in Nat /\ n \in Nat
  <2>1. q.system \in Seq(BlockType) /\ nt \in Nat
    BY DEF Priced
  <2>2. Len(q.system) \in Nat
    BY <2>1
  <2> HIDE DEF nt
  <2> QED
    BY <2>1, <2>2
<1>2. ASSUME NEW i \in 1 .. n PROVE at(i) \in PieceType
  <2>1. CASE i <= nt
    <3>1. q.tools[i].sig \in STRING /\ q.tools[i].tok \in Nat
      BY <1>1, <2>1 DEF Priced
    <3> QED
      BY <2>1, <3>1 DEF Piece, PieceType
  <2>2. CASE ~(i <= nt)
    <3>1. i - nt \in 1 .. Len(q.system)
      <4>1. i \in 1 .. nt + Len(q.system) /\ ~(i <= nt)
        BY <1>2, <2>2
      <4> HIDE DEF nt
      <4> QED
        BY <1>1, <4>1
    <3>2. q.system[i - nt] \in BlockType
      <4> DEFINE k == i - nt
      <4> HIDE DEF k
      <4>1. k \in 1 .. Len(q.system) => q.system[k] \in BlockType
        BY <1>1
      <4> QED
        BY <3>1, <4>1 DEF k
    <3>3. (~SkippedBlock(q.system, i - nt)) \in BOOLEAN
      BY DEF SkippedBlock
    <3> QED
      BY <2>2, <3>2, <3>3 DEF Piece, PieceType, BlockType
  <2> QED
    BY <2>1, <2>2
<1>3. BasePieces(q) = [i \in 1 .. n |-> at(i)]
  BY DEF BasePieces
<1> HIDE DEF at, n
<1> QED
  BY <1>1, <1>2, <1>3

LEMMA MessageTyped ==
    ASSUME NEW msg \in MessageType, NEW isLast \in BOOLEAN
    PROVE  MessagePieces(msg, isLast) \in Seq(PieceType)
<1> DEFINE n == Len(msg.blocks)
           head == Piece(msg.role, 0, TRUE, n = 0 /\ ~isLast)
           rest == [i \in 1 .. n |-> Piece(msg.blocks[i].sig, msg.blocks[i].tok, TRUE,
                                           msg.blocks[i].ttl # "none" \/ (i = n /\ ~isLast))]
<1>1. msg.blocks \in Seq(BlockType) /\ n \in Nat /\ msg.role \in STRING
  BY DEF MessageType
<1>2. head \in PieceType
  BY <1>1 DEF Piece, PieceType
<1>3. ASSUME NEW i \in 1 .. n
      PROVE  Piece(msg.blocks[i].sig, msg.blocks[i].tok, TRUE,
                   msg.blocks[i].ttl # "none" \/ (i = n /\ ~isLast)) \in PieceType
  <2>1. msg.blocks[i] \in BlockType
    BY <1>1
  <2> QED
    BY <2>1 DEF Piece, PieceType, BlockType
<1>4. rest \in Seq(PieceType)
  <2> DEFINE p(i) == Piece(msg.blocks[i].sig, msg.blocks[i].tok, TRUE,
                           msg.blocks[i].ttl # "none" \/ (i = n /\ ~isLast))
  <2>1. \A i \in 1 .. n : p(i) \in PieceType
    BY <1>3
  <2>2. rest = [i \in 1 .. n |-> p(i)]
    OBVIOUS
  <2> HIDE DEF p, rest
  <2> QED
    BY <1>1, <2>1, <2>2
<1>5. MessagePieces(msg, isLast) = <<head>> \o rest
  BY DEF MessagePieces
<1> HIDE DEF head, rest
<1> QED
  BY <1>2, <1>4, <1>5

LEMMA PiecesTyped ==
    ASSUME NEW q, Priced(q)
    PROVE  Pieces(q) \in Seq(PieceType)
<1> DEFINE n == Len(q.messages)
           ss == [i \in 1 .. n |-> MessagePieces(q.messages[i], i = n)]
<1>1. q.messages \in Seq(MessageType) /\ n \in Nat
  BY DEF Priced
<1>2. ASSUME NEW i \in 1 .. n PROVE MessagePieces(q.messages[i], i = n) \in Seq(PieceType)
  <2>1. q.messages[i] \in MessageType /\ (i = n) \in BOOLEAN
    BY <1>1
  <2> QED
    BY <2>1, MessageTyped
<1>3. ss \in Seq(Seq(PieceType))
  <2> DEFINE m(i) == MessagePieces(q.messages[i], i = n)
  <2>1. \A i \in 1 .. n : m(i) \in Seq(PieceType)
    BY <1>2
  <2>2. ss = [i \in 1 .. n |-> m(i)]
    OBVIOUS
  <2> HIDE DEF m, ss
  <2> QED
    BY <1>1, <2>1, <2>2
<1>4. FlattenSeq(ss) \in Seq(PieceType)
  BY <1>3, FlattenEffect
<1>5. Pieces(q) = BasePieces(q) \o FlattenSeq(ss)
  BY DEF Pieces
<1> HIDE DEF ss
<1> QED
  BY <1>4, <1>5, BaseTyped

LEMMA TokensTyped ==
    ASSUME NEW ps \in Seq(PieceType)
    PROVE  SumTokens(ps) \in Nat
<1> DEFINE toks == [i \in DOMAIN ps |-> ps[i].tok]
<1>1. toks \in Seq(Nat)
  <2>1. \A i \in DOMAIN ps : ps[i] \in PieceType
    OBVIOUS
  <2>2. \A p \in PieceType : p.tok \in Nat
    BY DEF PieceType
  <2> QED
    BY <2>1, <2>2
<1> HIDE DEF toks
<1>2. Total(toks) \in Nat
  BY <1>1, SumsEffect
<1> QED
  BY <1>2 DEF SumTokens, toks

\* What a segment is: its prefix starts with the seed.
IsSegment(x, seed) == x.tokens \in Nat /\ x.hash[1] = seed

LEMMA SegmentTyped ==
    ASSUME NEW ps \in Seq(PieceType), NEW i \in DOMAIN ps, NEW seed
    PROVE  IsSegment(SegmentAt(ps, i, seed), seed)
<1> DEFINE h == Hashed(SubSeq(ps, 1, i))
           sigs == [j \in DOMAIN h |-> h[j].sig]
<1>1. SubSeq(ps, 1, i) \in Seq(PieceType)
  OBVIOUS
<1>2. h \in Seq(PieceType)
  BY <1>1, PickEffect DEF Hashed
<1> HIDE DEF h
<1>3. SumTokens(h) \in Nat
  BY <1>2, TokensTyped
<1>4. sigs \in Seq(STRING)
  <2>1. \A j \in DOMAIN h : h[j] \in PieceType
    BY <1>2
  <2>2. \A p \in PieceType : p.sig \in STRING
    BY DEF PieceType
  <2> QED
    BY <1>2, <2>1, <2>2
<1> HIDE DEF sigs
<1>5. (<<seed>> \o sigs)[1] = seed
  BY <1>4
<1>6. SegmentAt(ps, i, seed) = [hash |-> <<seed>> \o sigs, tokens |-> SumTokens(h)]
  BY DEF SegmentAt, h, sigs
<1> QED
  BY <1>3, <1>5, <1>6 DEF IsSegment

LEMMA SegmentsTyped ==
    ASSUME NEW q, Priced(q)
    PROVE  LET segs == ExtractSegments(q)
           IN /\ Len(segs) \in Nat /\ DOMAIN segs = 1 .. Len(segs)
              /\ segs # <<>> => Len(segs) \in DOMAIN segs
              /\ \A k \in DOMAIN segs : IsSegment(segs[k], IsolationSeed(q))
<1> DEFINE ps == Pieces(q)
           seed == IsolationSeed(q)
           segs == [i \in DOMAIN ps |-> SegmentAt(ps, i, seed)]
           I == {i \in DOMAIN ps : ps[i].cut /\ segs[i].tokens > 0}
           T == {x \in {SegmentAt(ps, i, seed) : i \in DOMAIN ps} : IsSegment(x, seed)}
           x == ExtractSegments(q)
<1>1. ps \in Seq(PieceType)
  BY PiecesTyped
<1>2. x \in Seq(T)
  <2>1. CASE CacheEnabled(q)
    <3>1. \A i \in DOMAIN ps : SegmentAt(ps, i, seed) \in T
      BY <1>1, SegmentTyped
    <3>2. DOMAIN ps = 1 .. Len(ps) /\ Len(ps) \in Nat
      BY <1>1
    <3>3. x = Pick(segs, I)
      BY <2>1 DEF ExtractSegments, SegmentsOf
    <3> HIDE DEF T, ps, seed, I, x
    <3>4. segs \in Seq(T)
      BY <3>1, <3>2
    <3> HIDE DEF segs
    <3> QED
      BY <3>3, <3>4, PickEffect
  <2>2. CASE ~CacheEnabled(q)
    <3>1. x = <<>>
      BY <2>2 DEF ExtractSegments
    <3> HIDE DEF T, x
    <3> QED
      BY <3>1
  <2> QED
    BY <2>1, <2>2
<1>3. \A t \in T : IsSegment(t, seed)
  OBVIOUS
<1> HIDE DEF T, x, seed
<1>4. /\ Len(x) \in Nat /\ DOMAIN x = 1 .. Len(x) /\ (x # <<>> => Len(x) \in DOMAIN x)
      /\ \A k \in DOMAIN x : IsSegment(x[k], seed)
  BY <1>2, <1>3
<1> QED
  BY <1>4 DEF x, seed

LEMMA MaxIn ==
    ASSUME NEW S, S \subseteq Nat, S # {}, NEW n \in Nat, \A x \in S : x <= n
    PROVE  Max(S) \in S
<1>1. \E x \in S : \A y \in S : x >= y
  BY LargestExists
<1> QED
  BY <1>1 DEF Max

\* What a plan is based on.
PlanTyped(p) ==
  /\ p.read \in Nat /\ p.covered \in Nat /\ p.total \in Nat
  /\ p.read > 0 => p.hits # {}

LEMMA PlanEffect ==
    ASSUME NEW q, Priced(q), NEW p, p = ComputeCacheUsage(q, ExtractSegments(q))
    PROVE  PlanTyped(p) /\ \A h \in ToSet(p.hashes) : h[1] = IsolationSeed(q)
<1> DEFINE segs == ExtractSegments(q)
           H == Hits(segs)
           ttl == DetectMaxTtl(q)
           total == SumTokens(Pieces(q))
<1>1. /\ Len(segs) \in Nat /\ DOMAIN segs = 1 .. Len(segs)
      /\ segs # <<>> => Len(segs) \in DOMAIN segs
      /\ \A k \in DOMAIN segs : IsSegment(segs[k], IsolationSeed(q))
  BY SegmentsTyped
<1>2. total \in Nat
  BY PiecesTyped, TokensTyped
<1>3. p = PlanOf(segs, H, total, ttl)
  BY DEF ComputeCacheUsage
<1>4. H \subseteq DOMAIN segs
  BY DEF Hits
<1> HIDE DEF segs, H, ttl, total
<1>5. H # {} => Max(H) \in DOMAIN segs
  <2>1. H \subseteq Nat /\ \A x \in H : x <= Len(segs)
    BY <1>1, <1>4
  <2> QED
    BY <1>1, <1>4, <2>1, MaxIn
<1>6. p.read = IF H = {} THEN 0 ELSE segs[Max(H)].tokens
  BY <1>3 DEF PlanOf
<1>7. p.covered = IF segs = <<>> THEN 0 ELSE segs[Len(segs)].tokens
  BY <1>3 DEF PlanOf, Last
<1>8. p.total = total /\ p.hits = {segs[k].hash : k \in H} /\ p.hashes = [k \in DOMAIN segs |-> segs[k].hash]
  BY <1>3 DEF PlanOf
<1>9. PlanTyped(p)
  BY <1>1, <1>2, <1>5, <1>6, <1>7, <1>8 DEF PlanTyped, IsSegment
<1>10. \A h \in ToSet(p.hashes) : h[1] = IsolationSeed(q)
  BY <1>1, <1>8 DEF ToSet, IsSegment
<1> QED
  BY <1>9, <1>10

----------------------------------------------------------------------------
(* The usage of a request *)

LEMMA RoundTyped ==
    ASSUME NEW a \in Nat, NEW b \in Nat \ {0}
    PROVE  RoundDiv(a, b) \in Nat /\ (a = 0 => RoundDiv(a, b) = 0)
<1> DEFINE d == 2 * b
           n == 2 * a + b
<1>1. d \in Nat \ {0} /\ n \in Nat /\ (a = 0 => n < d)
  OBVIOUS
<1>2. RoundDiv(a, b) = n \div d
  BY DEF RoundDiv
<1> HIDE DEF d, n
<1>3. n \div d \in Nat /\ (n < d => n \div d = 0)
  BY <1>1
<1> QED
  BY <1>1, <1>2, <1>3

LEMMA MinOfTwo ==
    ASSUME NEW a \in Nat, NEW b \in Nat
    PROVE  Min({a, b}) \in Nat /\ Min({a, b}) <= b /\ Min({a, b}) <= a
<1>1. \E x \in {a, b} : \A y \in {a, b} : x <= y
  <2>1. CASE a <= b
    BY <2>1
  <2>2. CASE b <= a
    BY <2>2
  <2> QED
    BY <2>1, <2>2
<1>2. Min({a, b}) \in {a, b} /\ \A y \in {a, b} : Min({a, b}) <= y
  BY <1>1 DEF Min
<1> QED
  BY <1>2

\* The three parts of a split: natural numbers that add up to the prompt, and
\* nothing read where the plan found nothing.
IsSplit(u, p, total) ==
  \E a \in Nat : \E b \in Nat : \E c \in Nat :
    u = <<a, b, c>> /\ a + b + c = total /\ (c > 0 => p.read > 0)

LEMMA SplitEffect ==
    ASSUME NEW p, PlanTyped(p), NEW total \in Nat
    PROVE  IsSplit(SplitAgainstTotal(p, total), p, total)
<1>1. CASE p.covered = 0 \/ p.total = 0
  <2>1. SplitAgainstTotal(p, total) = <<total, 0, 0>>
    BY <1>1 DEF SplitAgainstTotal
  <2> QED
    BY <2>1 DEF IsSplit
<1>2. CASE p.covered # 0 /\ p.total # 0
  <2> DEFINE part == Min({p.covered, p.total})
             share == RoundDiv(total * part, p.total)
             cached == Min({share, total})
             found == RoundDiv(cached * p.read, p.covered)
             read == Min({found, cached})
  <2>1. p.covered \in Nat \ {0} /\ p.total \in Nat \ {0} /\ p.read \in Nat
    BY <1>2 DEF PlanTyped
  <2>2. SplitAgainstTotal(p, total) = <<total - cached, cached - read, read>>
    BY <1>2 DEF SplitAgainstTotal
  <2>3. part \in Nat
    BY <2>1, MinOfTwo
  <2> HIDE DEF part
  <2>4. share \in Nat
    <3>1. total * part \in Nat
      BY <2>3
    <3> QED
      BY <2>1, <3>1, RoundTyped
  <2> HIDE DEF share
  <2>5. cached \in Nat /\ cached <= total
    BY <2>4, MinOfTwo
  <2> HIDE DEF cached
  <2>6. found \in Nat /\ (p.read = 0 => found = 0)
    <3>1. cached * p.read \in Nat /\ (p.read = 0 => cached * p.read = 0)
      BY <2>1, <2>5
    <3> DEFINE x == cached * p.read
    <3> HIDE DEF x
    <3>2. RoundDiv(x, p.covered) \in Nat /\ (x = 0 => RoundDiv(x, p.covered) = 0)
      BY <2>1, <3>1, RoundTyped DEF x
    <3> QED
      BY <3>1, <3>2 DEF x
  <2> HIDE DEF found
  <2>7. read \in Nat /\ read <= cached /\ read <= found
    BY <2>5, <2>6, MinOfTwo
  <2> HIDE DEF read
  <2>8. /\ total - cached \in Nat /\ cached - read \in Nat
        /\ (total - cached) + (cached - read) + read = total
    BY <2>5, <2>7
  <2>9. read > 0 => p.read > 0
    BY <2>1, <2>6, <2>7
  <2> QED
    BY <2>2, <2>7, <2>8, <2>9 DEF IsSplit
<1> QED
  BY <1>1, <1>2

\* Another request has succeeded that sent the prefix.
Sent(h, r) == \E d \in Reqs : d # r /\ Succeeded(d) /\ h \in ToSet(plan[d].hashes)

\* A plan is made of the request's own prefixes, and finds those of a success.
PlanOK(r) ==
  /\ ask[r].total \in Nat
  /\ PlanTyped(plan[r])
  /\ \A h \in ToSet(plan[r].hashes) : h[1] = IsolationSeed(ask[r])
  /\ \A h \in plan[r].hits : h \in ToSet(plan[r].hashes) /\ Sent(h, r)
  /\ pc[r] = "new" => plan[r] = NoPlan

\* What has been recorded is a split of the prompt, and nothing before it is settled.
UsageOK(r) ==
  /\ \E t \in Nat : IsSplit(usage[r], plan[r], t) /\ (Succeeded(r) => t = ask[r].total)
  /\ ~Settled(r) => usage[r][3] = 0

UsageShape == usage = [r \in Reqs |-> usage[r]] /\ ask = [r \in Reqs |-> ask[r]]

UsageInv == UsageShape /\ \A r \in Reqs : PlanOK(r) /\ UsageOK(r)

LEMMA Truthful == BookInv /\ UsageInv => UsageTruthful
<1> SUFFICES ASSUME BookInv, UsageInv, NEW r \in Reqs
             PROVE  /\ \A i \in 1 .. 3 : usage[r][i] >= 0
                    /\ Succeeded(r) => usage[r][1] + usage[r][2] + usage[r][3] = ask[r].total
                    /\ usage[r][3] > 0 =>
                         \E d \in Reqs \ {r} :
                           /\ Succeeded(d)
                           /\ ask[d].session = ask[r].session
                           /\ ask[r].session = NoSession => ask[d].key = ask[r].key
                           /\ ToSet(plan[d].hashes) \intersect ToSet(plan[r].hashes) # {}
  BY DEF UsageTruthful
<1>1. PICK t \in Nat : IsSplit(usage[r], plan[r], t) /\ (Succeeded(r) => t = ask[r].total)
  BY DEF UsageInv, UsageOK
<1>2. PICK a \in Nat, b \in Nat, c \in Nat :
        usage[r] = <<a, b, c>> /\ a + b + c = t /\ (c > 0 => plan[r].read > 0)
  BY <1>1 DEF IsSplit
<1>3. ASSUME usage[r][3] > 0
      PROVE  \E d \in Reqs \ {r} :
               /\ Succeeded(d)
               /\ ask[d].session = ask[r].session
               /\ ask[r].session = NoSession => ask[d].key = ask[r].key
               /\ ToSet(plan[d].hashes) \intersect ToSet(plan[r].hashes) # {}
  <2>1. PICK h \in plan[r].hits : TRUE
    BY <1>2, <1>3 DEF UsageInv, PlanOK, PlanTyped
  <2>2. h \in ToSet(plan[r].hashes) /\ h[1] = IsolationSeed(ask[r]) /\ Sent(h, r)
    BY <2>1 DEF UsageInv, PlanOK
  <2>3. PICK d \in Reqs : d # r /\ Succeeded(d) /\ h \in ToSet(plan[d].hashes)
    BY <2>2 DEF Sent
  <2>4. IsolationSeed(ask[d]) = IsolationSeed(ask[r])
    BY <2>2, <2>3 DEF UsageInv, PlanOK
  <2>5. ask[d].session = ask[r].session /\ (ask[r].session = NoSession => ask[d].key = ask[r].key)
    BY <2>4 DEF IsolationSeed
  <2> QED
    BY <2>2, <2>3, <2>5
<1> QED
  BY <1>1, <1>2, <1>3

----------------------------------------------------------------------------
(* What a step charges *)

\* A request that has been planned settles, or goes on.
Charges(r) ==
  /\ UNCHANGED <<ask, plan>>
  /\ \/ RecordsUsage(r) /\ records'[r] # <<>>
     \/ RecordsInput(r) /\ records'[r] = <<"error">>
     \/ UNCHANGED usage /\ (UNCHANGED records \/ records'[r] = <<"error">>)

LEMMA ErrorRecorded ==
    ASSUME BookInv, NEW r \in Reqs, pc[r] \in Unsettled, Recorded1(r, "error")
    PROVE  records'[r] = <<"error">>
<1>1. records[r] = <<>>
  BY DEF BookInv, LedgerOK
<1> QED
  BY <1>1 DEF Recorded1, BookInv, ShapeOK

LEMMA SuccessCharges ==
    ASSUME BookInv, NEW r \in Reqs, pc[r] \in Unsettled, SettleSuccess(r)
    PROVE  RecordsUsage(r) /\ records'[r] # <<>>
<1>1. records[r] = <<>>
  BY DEF BookInv, LedgerOK
<1>2. records'[r] = <<"success">>
  BY <1>1 DEF SettleSuccess, Recorded1, BookInv, ShapeOK
<1> QED
  BY <1>2 DEF SettleSuccess

LEMMA StepCharges ==
    ASSUME BookInv, NEW r \in Reqs, RequestStep(r)
    PROVE  RejectEarly(r) \/ Accept(r) \/ Charges(r)
<1>1. CASE DirectSearch(r) \/ RoundFlushes(r)
  <2>1. pc[r] \in Unsettled /\ SettleSuccess(r) /\ UNCHANGED <<ask, plan>>
    BY <1>1 DEF DirectSearch, RoundFlushes, Unsettled, jobVars
  <2> QED
    BY <2>1, SuccessCharges DEF Charges
<1>2. CASE ConversionFails(r)
  <2>1. pc[r] \in Unsettled /\ Recorded1(r, "error") /\ UNCHANGED <<ask, plan, usage>>
    BY <1>2 DEF ConversionFails, Unsettled, jobVars
  <2> QED
    BY <2>1, ErrorRecorded DEF Charges
<1>3. CASE CallFails(r) \/ JsonBodyBreaks(r) \/ RoundFails(r) \/ SearchFails(r)
  <2>1. pc[r] \in Unsettled /\ Recorded1(r, "error") /\ RecordsInput(r) /\ UNCHANGED <<ask, plan>>
    BY <1>3 DEF CallFails, JsonBodyBreaks, RoundFails, SearchFails, SettleError, Unsettled, jobVars
  <2> QED
    BY <2>1, ErrorRecorded DEF Charges
<1>4. CASE StreamBodyBreaks(r) \/ BufferedBodyBreaks(r)
  <2>1. pc[r] \in Unsettled /\ Recorded1(r, "error") /\ RecordsUsage(r) /\ UNCHANGED <<ask, plan>>
    BY <1>4 DEF StreamBodyBreaks, BufferedBodyBreaks, BrokenStream, SettleError, Unsettled, jobVars
  <2> QED
    BY <2>1, ErrorRecorded DEF Charges
<1>5. CASE StreamBodyEnds(r) \/ BufferedBodyEnds(r) \/ JsonBodyEnds(r)
  <2>1. SettleBody(r)
    BY <1>5 DEF StreamBodyEnds, BufferedBodyEnds, JsonBodyEnds
  <2>2. pc[r] \in Unsettled /\ UNCHANGED <<ask, plan>>
    BY <2>1 DEF SettleBody, Unsettled
  <2>3. CASE body[r].flawed
    <3>1. Recorded1(r, "error") /\ RecordsUsage(r)
      BY <2>1, <2>3 DEF SettleBody, SettleError
    <3> QED
      BY <2>2, <3>1, ErrorRecorded DEF Charges
  <2>4. CASE ~body[r].flawed
    <3>1. SettleSuccess(r)
      BY <2>1, <2>4 DEF SettleBody
    <3> QED
      BY <2>2, <3>1, SuccessCharges DEF Charges
  <2> QED
    BY <2>3, <2>4
<1>6. CASE \/ Convert(r) \/ CallAnswers(r) \/ Ping(r) \/ RoundSearches(r) \/ SearchAnswers(r)
           \/ SendEvent(r) \/ ResponseStep(r) \/ Disconnect(r)
  BY <1>6 DEF Convert, CallAnswers, Ping, RoundSearches, SearchAnswers, SendEvent, ResponseStep,
     StreamStarts, ClientReads, StreamEnds, Disconnect, Charges, jobVars, ledgerVars
<1>7. CASE StreamChunk(r) \/ BufferedChunk(r) \/ JsonChunk(r) \/ LoopChunk(r)
  BY <1>7 DEF StreamChunk, BufferedChunk, JsonChunk, LoopChunk, Decodes, Charges, jobVars, ledgerVars
<1> QED
  BY <1>1, <1>2, <1>3, <1>4, <1>5, <1>6, <1>7 DEF RequestStep, TaskStep

----------------------------------------------------------------------------
(* UsageInv holds *)

\* What has succeeded stays so, with its plan.
Lasting == \A q \in Reqs : Succeeded(q) => Succeeded(q)' /\ plan'[q] = plan[q]

LEMMA SuccessLasts ==
    ASSUME BookInv, NEW r \in Reqs, RequestStep(r)
    PROVE  Lasting
<1> SUFFICES ASSUME NEW q \in Reqs, Succeeded(q)
             PROVE  Succeeded(q)' /\ plan'[q] = plan[q]
  BY DEF Lasting
<1>1. CASE Accept(r) \/ SettleKind(r)
  <2>1. records[r] = <<>>
    BY <1>1 DEF BookInv, LedgerOK, SettleKind, Accept, Unsettled
  <2>2. q # r
    BY <2>1 DEF Succeeded
  <2>3. CASE Accept(r)
    BY <2>2, <2>3 DEF BookInv, ShapeOK, Accept, Succeeded, ledgerVars
  <2>4. CASE SettleKind(r)
    BY <2>2, <2>4 DEF BookInv, ShapeOK, SettleKind, SettlesWell, SettlesBadly, Succeeded
  <2> QED
    BY <1>1, <2>3, <2>4
<1>2. CASE MoveKind(r) \/ ReplyKind(r) \/ LeaveKind(r)
  BY <1>2 DEF MoveKind, ReplyKind, LeaveKind, Succeeded
<1> QED
  BY <1>1, <1>2, RequestKinds DEF RequestStep

LEMMA StillSent ==
    ASSUME Lasting, NEW h, NEW r, Sent(h, r)
    PROVE  Sent(h, r)'
BY DEF Lasting, Sent

\* A plan that is left alone stays good.
LEMMA PlanKept ==
    ASSUME Lasting, NEW q \in Reqs, PlanOK(q), ask'[q] = ask[q], plan'[q] = plan[q],
           pc'[q] = "new" => pc[q] = "new"
    PROVE  PlanOK(q)'
<1>1. \A h \in plan'[q].hits : h \in ToSet(plan'[q].hashes) /\ Sent(h, q)'
  BY StillSent DEF PlanOK
<1>2. IsolationSeed(ask'[q]) = IsolationSeed(ask[q]) /\ PlanTyped(plan'[q]) /\ ask'[q].total \in Nat
  BY DEF PlanOK
<1>3. \A h \in ToSet(plan'[q].hashes) : h[1] = IsolationSeed(ask'[q])
  BY <1>2 DEF PlanOK
<1>4. pc'[q] = "new" => plan'[q] = NoPlan
  BY DEF PlanOK
<1> QED
  BY <1>1, <1>2, <1>3, <1>4 DEF PlanOK

LEMMA UsageKept ==
    ASSUME NEW q \in Reqs, UsageOK(q), ask'[q] = ask[q], plan'[q] = plan[q], usage'[q] = usage[q],
           records'[q] = records[q]
    PROVE  UsageOK(q)'
BY DEF UsageOK, Succeeded, Settled

\* A step of a request leaves the others alone.
LEMMA OthersUsage ==
    ASSUME BookInv, AnswerInv, UsageInv, NEW r \in Reqs, RequestStep(r),
           UNCHANGED plan \/ \E p : plan' = [plan EXCEPT ![r] = p],
           UNCHANGED usage \/ \E u : usage' = [usage EXCEPT ![r] = u]
    PROVE  UsageShape' /\ \A q \in Reqs : q # r => PlanOK(q)' /\ UsageOK(q)'
<1>1. AnswerShape' /\ \A q \in Reqs : q # r => SameFor(q)
  BY OthersKeep DEF AnswerInv
<1>2. UsageShape'
  BY <1>1 DEF UsageInv, UsageShape, AnswerShape
<1>3. Lasting
  BY SuccessLasts
<1>4. ASSUME NEW q \in Reqs, q # r PROVE PlanOK(q)' /\ UsageOK(q)'
  <2>1. ask'[q] = ask[q] /\ pc'[q] = pc[q] /\ records'[q] = records[q]
    BY <1>1, <1>4 DEF SameFor
  <2>2. plan'[q] = plan[q] /\ usage'[q] = usage[q]
    BY <1>4 DEF BookInv, ShapeOK, UsageInv, UsageShape
  <2>3. PlanOK(q) /\ UsageOK(q)
    BY DEF UsageInv
  <2> QED
    BY <1>3, <2>1, <2>2, <2>3, PlanKept, UsageKept
<1> QED
  BY <1>2, <1>4

LEMMA ChargesUsage ==
    ASSUME BookInv, AnswerInv, UsageInv, NEW r \in Reqs, RequestStep(r), Charges(r), ~Accept(r)
    PROVE  UsageInv'
<1>1. UsageShape' /\ \A q \in Reqs : q # r => PlanOK(q)' /\ UsageOK(q)'
  BY OthersUsage DEF Charges, RecordsUsage, RecordsInput
<1>2. PlanOK(r) /\ UsageOK(r) /\ ask'[r] = ask[r] /\ plan'[r] = plan[r]
  BY DEF UsageInv, Charges
<1>3. pc'[r] = "new" => pc[r] = "new"
  <2>1. SettleKind(r) \/ MoveKind(r) \/ ReplyKind(r) \/ LeaveKind(r)
    BY RequestKinds DEF RequestStep
  <2> QED
    BY <2>1 DEF SettleKind, MoveKind, ReplyKind, LeaveKind, Concludes, Unsettled, BookInv, ShapeOK
<1>4. PlanOK(r)'
  BY <1>2, <1>3, PlanKept, SuccessLasts
<1>5. ask[r].total \in Nat /\ PlanTyped(plan[r])
  BY <1>2 DEF PlanOK
<1>6. UsageOK(r)'
  <2>1. CASE RecordsUsage(r) /\ records'[r] # <<>>
    <3>1. usage'[r] = SplitAgainstTotal(plan[r], ask[r].total)
      BY <2>1 DEF RecordsUsage, UsageInv, UsageShape
    <3>2. IsSplit(usage'[r], plan'[r], ask'[r].total)
      BY <1>2, <1>5, <3>1, SplitEffect
    <3> QED
      BY <1>2, <1>5, <2>1, <3>2 DEF UsageOK, Settled
  <2>2. CASE RecordsInput(r) /\ records'[r] = <<"error">>
    <3>1. usage'[r] = <<ask[r].total, 0, 0>>
      BY <2>2 DEF RecordsInput, UsageInv, UsageShape
    <3>2. IsSplit(usage'[r], plan'[r], ask'[r].total)
      BY <1>2, <1>5, <3>1 DEF IsSplit
    <3> QED
      BY <1>2, <1>5, <2>2, <3>2 DEF UsageOK, Settled
  <2>3. CASE UNCHANGED usage /\ UNCHANGED records
    BY <1>2, <2>3, UsageKept
  <2>4. CASE UNCHANGED usage /\ records'[r] = <<"error">>
    BY <1>2, <2>4 DEF UsageOK, Succeeded, Settled
  <2> QED
    BY <2>1, <2>2, <2>3, <2>4 DEF Charges
<1> QED
  BY <1>1, <1>4, <1>6 DEF UsageInv

LEMMA RejectUsage ==
    ASSUME BookInv, AnswerInv, UsageInv, NEW r \in Reqs, RejectEarly(r)
    PROVE  UsageInv'
<1>1. UNCHANGED <<plan, usage>> /\ pc[r] = "new" /\ Recorded1(r, "error") /\ RequestStep(r)
  BY DEF RejectEarly, RequestStep
<1>2. UsageShape' /\ \A q \in Reqs : q # r => PlanOK(q)' /\ UsageOK(q)'
  BY <1>1, OthersUsage
<1>3. records'[r] = <<"error">>
  BY <1>1, ErrorRecorded DEF Unsettled
<1>4. pc'[r] # "new"
  BY DEF RejectEarly, Responds, BookInv, ShapeOK
<1>5. plan[r] = NoPlan /\ PlanTyped(plan[r]) /\ UsageOK(r)
  BY <1>1 DEF UsageInv, PlanOK
<1>6. ask'[r].total \in Nat
  <2>1. PICK q \in Candidates[r] : ask' = [ask EXCEPT ![r] = Normalized(q)]
    BY DEF RejectEarly
  <2>2. Priced(Normalized(q))
    BY <2>1, CandidatesAssumption, NormalizedPriced
  <2> QED
    BY <2>1, <2>2 DEF Priced, UsageInv, UsageShape
<1>7. ToSet(NoPlan.hashes) = {} /\ NoPlan.hits = {}
  BY DEF NoPlan, ToSet
<1>8. PlanOK(r)'
  BY <1>1, <1>4, <1>5, <1>6, <1>7 DEF PlanOK
<1>9. UsageOK(r)'
  BY <1>1, <1>3, <1>5 DEF UsageOK, Succeeded, Settled
<1> QED
  BY <1>2, <1>8, <1>9 DEF UsageInv

LEMMA AcceptUsage ==
    ASSUME BookInv, AnswerInv, EarnedInv, UsageInv, NEW r \in Reqs, Accept(r)
    PROVE  UsageInv'
<1>1. PICK q \in Candidates[r] :
        /\ ask' = [ask EXCEPT ![r] = Normalized(q)]
        /\ plan' = [plan EXCEPT ![r] = ComputeCacheUsage(Normalized(q), ExtractSegments(Normalized(q)))]
  BY DEF Accept
<1> DEFINE n == Normalized(q)
           p == ComputeCacheUsage(n, ExtractSegments(n))
<1>2. Priced(n)
  BY <1>1, CandidatesAssumption, NormalizedPriced
<1>3. PlanTyped(p) /\ \A h \in ToSet(p.hashes) : h[1] = IsolationSeed(n)
  BY <1>2, PlanEffect
<1>4. p.hits \subseteq ToSet(p.hashes) \intersect DOMAIN entries
  BY PlanHits
<1>5. n.total \in Nat
  BY <1>2 DEF Priced
<1>6. ask'[r] = n /\ plan'[r] = p
  BY <1>1 DEF UsageInv, UsageShape, BookInv, ShapeOK
<1> HIDE DEF n, p
<1>7. UNCHANGED <<usage, records>> /\ pc[r] = "new" /\ RequestStep(r)
  BY DEF Accept, RequestStep, ledgerVars
<1>8. UsageShape' /\ \A d \in Reqs : d # r => PlanOK(d)' /\ UsageOK(d)'
  BY <1>1, <1>7, OthersUsage
<1>9. records[r] = <<>>
  BY <1>7 DEF BookInv, LedgerOK, Unsettled
<1>10. pc'[r] # "new"
  BY DEF Accept, BookInv, ShapeOK
<1>11. \A h \in p.hits : Sent(h, r)'
  <2> SUFFICES ASSUME NEW h \in p.hits PROVE Sent(h, r)'
    OBVIOUS
  <2>1. PICK d \in Reqs : Succeeded(d) /\ h \in ToSet(plan[d].hashes)
    BY <1>4 DEF EarnedInv, EarnedHashes
  <2>2. d # r
    <3>1. records[r] # <<"success">>
      BY <1>9
    <3> QED
      BY <2>1, <3>1 DEF Succeeded
  <2>3. Succeeded(d)' /\ plan'[d] = plan[d]
    BY <1>7, <2>1, SuccessLasts DEF Lasting
  <2> QED
    BY <2>1, <2>2, <2>3 DEF Sent
<1>12. PlanOK(r)'
  BY <1>3, <1>4, <1>5, <1>6, <1>10, <1>11 DEF PlanOK
<1>13. UsageOK(r)'
  <2>1. PICK t \in Nat : IsSplit(usage[r], plan[r], t)
    BY DEF UsageInv, UsageOK
  <2>2. usage[r][3] = 0
    BY <1>9 DEF UsageInv, UsageOK, Settled
  <2>3. IsSplit(usage'[r], plan'[r], t)
    BY <1>7, <2>1, <2>2 DEF IsSplit
  <2> QED
    BY <1>7, <1>9, <2>2, <2>3 DEF UsageOK, Succeeded, Settled
<1> QED
  BY <1>8, <1>12, <1>13 DEF UsageInv

LEMMA NextUsage == BookInv /\ AnswerInv /\ EarnedInv /\ UsageInv /\ [Next]_vars => UsageInv'
<1> SUFFICES ASSUME BookInv, AnswerInv, EarnedInv, UsageInv, [Next]_vars PROVE UsageInv'
  OBVIOUS
<1>1. ASSUME NEW r \in Reqs, RequestStep(r) PROVE UsageInv'
  BY <1>1, StepCharges, ChargesUsage, RejectUsage, AcceptUsage
<1>2. CASE UNCHANGED <<ask, plan, usage, records>> /\ \A q \in Reqs : pc'[q] = "new" => pc[q] = "new"
  <2>1. Lasting
    BY <1>2 DEF Lasting, Succeeded
  <2>2. UsageShape'
    BY <1>2 DEF UsageInv, UsageShape
  <2>3. ASSUME NEW q \in Reqs PROVE PlanOK(q)' /\ UsageOK(q)'
    BY <1>2, <2>1, PlanKept, UsageKept DEF UsageInv
  <2> QED
    BY <2>2, <2>3 DEF UsageInv
<1>3. CASE CacheStep \/ UNCHANGED vars
  BY <1>2, <1>3 DEF CacheStep, vars, jobVars, ledgerVars
<1>4. CASE Restart
  <2>1. \A q \in Reqs : pc'[q] = "new" => pc[q] = "new"
    BY <1>4 DEF Restart
  <2> QED
    BY <1>2, <1>4, <2>1 DEF Restart, jobVars, ledgerVars
<1> QED
  BY <1>1, <1>3, <1>4 DEF Next, RequestStep

LEMMA InitUsage == Init => UsageInv
<1> SUFFICES ASSUME Init PROVE UsageInv
  OBVIOUS
<1>1. UsageShape
  BY DEF Init, UsageShape
<1>2. ASSUME NEW r \in Reqs PROVE PlanOK(r) /\ UsageOK(r)
  <2>1. ToSet(NoPlan.hashes) = {} /\ NoPlan.hits = {} /\ PlanTyped(NoPlan)
    BY DEF NoPlan, ToSet, PlanTyped
  <2>2. ask[r].total = 0 /\ plan[r] = NoPlan /\ usage[r] = <<0, 0, 0>> /\ records[r] = <<>>
    BY DEF Init, NoAsk
  <2>3. PlanOK(r)
    BY <2>1, <2>2 DEF PlanOK
  <2>4. IsSplit(<<0, 0, 0>>, plan[r], 0)
    BY DEF IsSplit
  <2> QED
    BY <2>2, <2>3, <2>4 DEF UsageOK, Succeeded, Settled
<1> QED
  BY <1>1, <1>2 DEF UsageInv

\* The three parts recorded for a request add up to its prompt, and what it is charged as read
\* from the cache was sent before by a request of the same session, or without one of the same
\* key, that succeeded (split_against_total and compute_cache_usage of cache_metering.rs, with
\* every path of the handlers that records a usage).
THEOREM UsageTheorem == SafetySpec => []UsageTruthful
<1>1. BookInv /\ BookInv' /\ EarnedInv /\ [Next]_vars => EarnedInv'
  BY EarnedStep
<1>2. BookInv /\ AnswerInv /\ EarnedInv /\ UsageInv /\ [Next]_vars => UsageInv'
  BY NextUsage
<1> QED
  BY <1>1, <1>2, AnswerInvariant, InitEarned, InitUsage, Truthful, PTL DEF SafetySpec
=============================================================================
