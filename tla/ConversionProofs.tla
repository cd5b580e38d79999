-------------------------- MODULE ConversionProofs --------------------------
(***************************************************************************)
(* What the conversions between the client and Kiro promise: that of the   *)
(* answer, for every sequence of upstream events (anthropic/stream.rs),    *)
(* and that of the request, for every conversation a client can build      *)
(* (anthropic/converter.rs).                                               *)
(***************************************************************************)
EXTENDS SseStream, MCConverter, FiniteSetTheorems, SubsequenceProofs, TLAPS

-----------------------------------------------------------------------------
(* What was sent, and the blocks it speaks of. *)

BlockKinds == {"text", "thinking", "redacted_thinking", "tool_use"}

BlockType == [type : BlockKinds, stopped : BOOLEAN]

Starts(o) == {k \in DOMAIN o : o[k].ev = "content_block_start"}

\* The clauses of BlocksWellFormed about one event.
Ordered(o, k) ==
  o[k].ev = "content_block_start" =>
    o[k].ix = 1 + Cardinality({j \in 1 .. k - 1 : o[j].ev = "content_block_start"})

Addressed(o, k) ==
  o[k].ev \in {"content_block_delta", "content_block_stop"} =>
    /\ \E j \in 1 .. k - 1 : o[j].ev = "content_block_start" /\ o[j].ix = o[k].ix
    /\ ~\E j \in 1 .. k - 1 : o[j].ev = "content_block_stop" /\ o[j].ix = o[k].ix

IsSeq(s) == \E S : s \in Seq(S)

Stops(o) == {k \in DOMAIN o : o[k].ev = "content_block_stop"}

\* The blocks are those started in the events, and stopped if the events say so.
Records(o, b) ==
  /\ IsFiniteSet(Starts(o)) /\ Cardinality(Starts(o)) = Len(b)
  /\ \A k \in Starts(o) : o[k].ix \in DOMAIN b
  /\ \A j, k \in Starts(o) : o[j].ix = o[k].ix => j = k
  /\ \A ix \in DOMAIN b : \E k \in Starts(o) : o[k].ix = ix
  /\ \A ix \in DOMAIN b : b[ix].stopped <=> \E k \in Stops(o) : o[k].ix = ix

EventsOK(o, b) ==
  /\ IsSeq(o) /\ b \in Seq(BlockType)
  /\ \A k \in DOMAIN o : Ordered(o, k) /\ Addressed(o, k) /\ o[k].ev # "message_delta"
  /\ Records(o, b)

\* Fields that the handlers assign.
Fields ==
  {"thinking_enabled", "blocks", "out", "stop_reason", "has_tool_use", "buf", "held",
   "in_thinking_block", "thinking_extracted", "reasoning_block_open", "strip_newline",
   "strip_text", "thinking_block_index", "text_block_index", "tools", "tool_block_indices",
   "tool_json_error", "input", "called", "reasoned"}

Sound(c) == Fields \subseteq DOMAIN c /\ EventsOK(c.out, c.blocks)

\* The thinking deltas go out unchecked, so the flags must be right about the block.
Flags == {"in_thinking_block", "thinking_extracted", "reasoning_block_open", "thinking_block_index"}

OpenThinking(c) == IsOpen(c, c.thinking_block_index, "thinking")

FlagsOK(c) ==
  /\ c.in_thinking_block => OpenThinking(c)
  /\ c.reasoning_block_open =>
       OpenThinking(c) /\ c.in_thinking_block = FALSE /\ c.thinking_extracted

Good(c) == Sound(c) /\ FlagsOK(c)

Moved(c, d) ==
  /\ Sound(d) /\ DOMAIN d = DOMAIN c
  /\ \A f \in Flags : d[f] = c[f]
  /\ \A ix : IsOpen(c, ix, "thinking") => IsOpen(d, ix, "thinking")

LEMMA MovedTwice ==
    ASSUME NEW c, NEW d, NEW e, Moved(c, d), Moved(d, e)
    PROVE  Moved(c, e)
BY DEF Moved

LEMMA MovedGood ==
    ASSUME NEW c, NEW d, Good(c), Moved(c, d)
    PROVE  Good(d)
BY DEF Moved, Good, FlagsOK, OpenThinking, Flags

\* p is o with e behind it.
Extends(o, e, p, n) ==
  /\ IsSeq(p) /\ n \in Nat /\ DOMAIN o = 1 .. n /\ n + 1 \notin DOMAIN o
  /\ DOMAIN p = DOMAIN o \cup {n + 1}
  /\ \A k \in DOMAIN o : p[k] = o[k]
  /\ p[n + 1] = e

\* Append, for sequences of elements of any kind.
LEMMA AppendAny ==
    ASSUME NEW s, IsSeq(s), NEW e
    PROVE  Extends(s, e, Append(s, e), Len(s))
<1>1. PICK S : s \in Seq(S)
  BY DEF IsSeq
<1>2. s \in Seq(S \cup {e}) /\ e \in S \cup {e}
  BY <1>1
<1>3. DOMAIN s = 1 .. Len(s) /\ DOMAIN Append(s, e) = 1 .. Len(s) + 1 /\ Len(s) \in Nat
  BY <1>2
<1>4. DOMAIN Append(s, e) = DOMAIN s \cup {Len(s) + 1} /\ Len(s) + 1 \notin DOMAIN s
  BY <1>3
<1> QED
  BY <1>2, <1>3, <1>4 DEF IsSeq, Extends

-----------------------------------------------------------------------------
(* One event more. *)

\* What is sent later changes nothing about the events before.
LEMMA Earlier ==
    ASSUME NEW o, NEW b, EventsOK(o, b), NEW p, NEW n \in Nat, DOMAIN o = 1 .. n,
           \A k \in DOMAIN o : p[k] = o[k]
    PROVE  \A k \in DOMAIN o : Ordered(p, k) /\ Addressed(p, k) /\ p[k].ev # "message_delta"
<1> SUFFICES ASSUME NEW k \in DOMAIN o
             PROVE  Ordered(p, k) /\ Addressed(p, k) /\ p[k].ev # "message_delta"
  OBVIOUS
<1>2. \A j \in 1 .. k - 1 : p[j] = o[j]
  OBVIOUS
<1>3. {j \in 1 .. k - 1 : p[j].ev = "content_block_start"} = {j \in 1 .. k - 1 : o[j].ev = "content_block_start"}
  BY <1>2
<1>4. Ordered(o, k) /\ Addressed(o, k) /\ o[k].ev # "message_delta"
  BY DEF EventsOK
<1>5. p[k] = o[k]
  OBVIOUS
<1>6. Ordered(p, k)
  BY <1>3, <1>4, <1>5 DEF Ordered
<1>7. Addressed(p, k)
  BY <1>2, <1>4, <1>5 DEF Addressed
<1> QED
  BY <1>4, <1>5, <1>6, <1>7

\* One more event that is in its place leaves all of them in their places.
LEMMA ExtendedEvents ==
    ASSUME NEW o, NEW b, EventsOK(o, b), NEW e, NEW p, NEW n, Extends(o, e, p, n),
           Ordered(p, n + 1), Addressed(p, n + 1), e.ev # "message_delta",
           NEW a \in Seq(BlockType), Records(p, a)
    PROVE  EventsOK(p, a)
<1>1. \A k \in DOMAIN p : Ordered(p, k) /\ Addressed(p, k) /\ p[k].ev # "message_delta"
  BY Earlier DEF Extends
<1> QED
  BY <1>1 DEF EventsOK, Extends

\* An event about no block is in place anywhere before message_delta.
LEMMA Unaddressed ==
    ASSUME NEW o, NEW b, EventsOK(o, b), NEW e,
           e.ev \notin {"content_block_start", "content_block_delta", "content_block_stop", "message_delta"}
    PROVE  EventsOK(Append(o, e), b)
<1> DEFINE p == Append(o, e)
           n == Len(o)
<1>1. Extends(o, e, p, n)
  BY AppendAny DEF EventsOK
<1> HIDE DEF p, n
<1>2. Starts(p) = Starts(o) /\ Stops(p) = Stops(o)
  BY <1>1 DEF Starts, Stops, Extends
<1>3. Ordered(p, n + 1) /\ Addressed(p, n + 1)
  BY <1>1 DEF Extends, Ordered, Addressed
<1>4. Records(o, b) /\ b \in Seq(BlockType)
  BY DEF EventsOK
<1>5. \A k \in Starts(o) \cup Stops(o) : p[k] = o[k]
  BY <1>1 DEF Starts, Stops, Extends
<1>6. Records(p, b)
  BY <1>2, <1>4, <1>5 DEF Records
<1> QED
  BY <1>1, <1>3, <1>4, <1>6, ExtendedEvents DEF p

\* A delta or a stop of a block that is open is in its place.
LEMMA OpenAddressed ==
    ASSUME NEW o, NEW b, EventsOK(o, b), NEW e, NEW p, NEW n, Extends(o, e, p, n),
           e.ix \in DOMAIN b, ~b[e.ix].stopped
    PROVE  Addressed(p, n + 1)
<1>1. PICK j \in Starts(o) : o[j].ix = e.ix
  BY DEF EventsOK, Records
<1>2. j \in 1 .. (n + 1) - 1 /\ p[j].ev = "content_block_start" /\ p[j].ix = e.ix
  BY <1>1 DEF Extends, Starts
<1>3. ~\E k \in 1 .. (n + 1) - 1 : p[k].ev = "content_block_stop" /\ p[k].ix = e.ix
  <2> SUFFICES ASSUME NEW k \in 1 .. (n + 1) - 1, p[k].ev = "content_block_stop", p[k].ix = e.ix
               PROVE  FALSE
    OBVIOUS
  <2>1. k \in Stops(o) /\ o[k].ix = e.ix
    BY DEF Extends, Stops
  <2> QED
    BY <2>1 DEF EventsOK, Records
<1>4. p[n + 1] = e
  BY DEF Extends
<1>5. /\ \E k \in 1 .. (n + 1) - 1 : p[k].ev = "content_block_start" /\ p[k].ix = p[n + 1].ix
      /\ ~\E k \in 1 .. (n + 1) - 1 : p[k].ev = "content_block_stop" /\ p[k].ix = p[n + 1].ix
  BY <1>2, <1>3, <1>4
<1> QED
  BY <1>5 DEF Addressed

\* A delta of an open block.
LEMMA Delta ==
    ASSUME NEW o, NEW b, EventsOK(o, b), NEW e, e.ev = "content_block_delta",
           e.ix \in DOMAIN b, ~b[e.ix].stopped
    PROVE  EventsOK(Append(o, e), b)
<1> DEFINE p == Append(o, e)
           n == Len(o)
<1>1. Extends(o, e, p, n)
  BY AppendAny DEF EventsOK
<1> HIDE DEF p, n
<1>2. Starts(p) = Starts(o) /\ Stops(p) = Stops(o)
  BY <1>1 DEF Starts, Stops, Extends
<1>3. Ordered(p, n + 1) /\ Addressed(p, n + 1)
  <2>1. Addressed(p, n + 1)
    BY <1>1, OpenAddressed
  <2>2. p[n + 1].ev = "content_block_delta"
    BY <1>1 DEF Extends
  <2> QED
    BY <2>1, <2>2 DEF Ordered
<1>4. Records(o, b) /\ b \in Seq(BlockType)
  BY DEF EventsOK
<1>5. \A k \in Starts(o) \cup Stops(o) : p[k] = o[k]
  BY <1>1 DEF Starts, Stops, Extends
<1>6. Records(p, b)
  BY <1>2, <1>4, <1>5 DEF Records
<1> QED
  BY <1>1, <1>3, <1>4, <1>6, ExtendedEvents DEF p

\* content_block_stop: the block is marked and the event says so.
Stopped(b, ix) == [b EXCEPT ![ix].stopped = TRUE]

\* The record of the blocks once one of them is stopped.
LEMMA StoppedBlocks ==
    ASSUME NEW b \in Seq(BlockType), NEW ix \in DOMAIN b
    PROVE  /\ Stopped(b, ix) \in Seq(BlockType)
           /\ DOMAIN Stopped(b, ix) = DOMAIN b /\ Len(Stopped(b, ix)) = Len(b)
           /\ Stopped(b, ix)[ix].stopped /\ Stopped(b, ix)[ix].type = b[ix].type
           /\ \A k \in DOMAIN b \ {ix} : Stopped(b, ix)[k] = b[k]
<1> DEFINE x == [b[ix] EXCEPT !.stopped = TRUE]
<1>1. b[ix] \in BlockType
  OBVIOUS
<1>2. x \in BlockType /\ x.stopped /\ x.type = b[ix].type
  BY <1>1 DEF BlockType
<1>3. Stopped(b, ix) = [b EXCEPT ![ix] = x]
  BY DEF Stopped
<1> HIDE DEF x
<1> QED
  BY <1>2, <1>3

\* The stop of an open block, with its record.
LEMMA Stop ==
    ASSUME NEW o, NEW b, EventsOK(o, b), NEW e, e.ev = "content_block_stop",
           e.ix \in DOMAIN b, ~b[e.ix].stopped
    PROVE  EventsOK(Append(o, e), Stopped(b, e.ix))
<1> DEFINE p == Append(o, e)
           n == Len(o)
           a == Stopped(b, e.ix)
<1>1. Extends(o, e, p, n)
  BY AppendAny DEF EventsOK
<1>2. /\ a \in Seq(BlockType) /\ DOMAIN a = DOMAIN b /\ Len(a) = Len(b)
      /\ a[e.ix].stopped
      /\ \A ix \in DOMAIN b \ {e.ix} : a[ix] = b[ix]
  BY StoppedBlocks DEF EventsOK
<1> HIDE DEF p, n, a
<1>3. Starts(p) = Starts(o) /\ Stops(p) = Stops(o) \cup {n + 1}
  BY <1>1 DEF Starts, Stops, Extends
<1>4. Ordered(p, n + 1) /\ Addressed(p, n + 1)
  <2>1. Addressed(p, n + 1)
    BY <1>1, OpenAddressed
  <2>2. p[n + 1].ev = "content_block_stop"
    BY <1>1 DEF Extends
  <2> QED
    BY <2>1, <2>2 DEF Ordered
<1>5. Records(o, b)
  BY DEF EventsOK
<1>6. (\A k \in Starts(o) \cup Stops(o) : p[k] = o[k]) /\ p[n + 1] = e
  BY <1>1 DEF Starts, Stops, Extends
<1>7. Records(p, a)
  <2>1. \A ix \in DOMAIN a : a[ix].stopped <=> \E k \in Stops(p) : p[k].ix = ix
    BY <1>2, <1>3, <1>5, <1>6 DEF Records
  <2> QED
    BY <2>1, <1>2, <1>3, <1>5, <1>6 DEF Records
<1> QED
  BY <1>1, <1>2, <1>4, <1>7, ExtendedEvents DEF p, a

\* The start of the next block, with its record.
LEMMA Start ==
    ASSUME NEW o, NEW b, EventsOK(o, b), NEW e, e.ev = "content_block_start",
           e.ix = Len(b) + 1, NEW x \in BlockType, ~x.stopped
    PROVE  EventsOK(Append(o, e), Append(b, x))
<1> DEFINE p == Append(o, e)
           n == Len(o)
           a == Append(b, x)
           m == Len(b) + 1
<1>1. Extends(o, e, p, n)
  BY AppendAny DEF EventsOK
<1>2. /\ a \in Seq(BlockType) /\ Len(b) \in Nat /\ Len(a) = m
      /\ DOMAIN a = DOMAIN b \cup {m} /\ m \notin DOMAIN b
      /\ a[m] = x
      /\ \A ix \in DOMAIN b : a[ix] = b[ix]
  <2>1. b \in Seq(BlockType)
    BY DEF EventsOK
  <2>2. DOMAIN b = 1 .. Len(b) /\ DOMAIN a = 1 .. Len(b) + 1 /\ Len(b) \in Nat
    BY <2>1
  <2>3. DOMAIN a = DOMAIN b \cup {m} /\ m \notin DOMAIN b
    BY <2>2
  <2> QED
    BY <2>1, <2>2, <2>3
<1>9. e.ix = m /\ Cardinality(Starts(o)) + 1 = m
  BY DEF EventsOK, Records
<1> HIDE DEF p, n, a, m
<1>3. Starts(p) = Starts(o) \cup {n + 1} /\ n + 1 \notin Starts(o) /\ Stops(p) = Stops(o)
  BY <1>1 DEF Starts, Stops, Extends
<1>4. Records(o, b)
  BY DEF EventsOK
<1>5. Ordered(p, n + 1)
  <2>1. {j \in 1 .. (n + 1) - 1 : p[j].ev = "content_block_start"} = Starts(o)
    BY <1>1 DEF Starts, Extends
  <2>2. p[n + 1].ix = 1 + Cardinality(Starts(o))
    BY <1>1, <1>2, <1>9, <1>4 DEF Extends, Records
  <2>3. p[n + 1].ix = 1 + Cardinality({j \in 1 .. (n + 1) - 1 : p[j].ev = "content_block_start"})
    BY <2>1, <2>2
  <2> QED
    BY <2>3 DEF Ordered
<1>6. Addressed(p, n + 1)
  BY <1>1 DEF Addressed, Extends
<1>7. (\A k \in Starts(o) \cup Stops(o) : p[k] = o[k]) /\ p[n + 1] = e
  BY <1>1 DEF Starts, Stops, Extends
<1>8. Records(p, a)
  <2>1. IsFiniteSet(Starts(p)) /\ Cardinality(Starts(p)) = Len(a)
    <3>1. IsFiniteSet(Starts(o)) /\ n + 1 \notin Starts(o)
      BY <1>3, <1>4 DEF Records
    <3>2. /\ IsFiniteSet(Starts(o) \cup {n + 1})
          /\ Cardinality(Starts(o) \cup {n + 1}) = Cardinality(Starts(o)) + 1
      BY <3>1, FS_AddElement
    <3> QED
      BY <3>2, <1>2, <1>3, <1>9
  <2>2. \A k \in Starts(p) : p[k].ix \in DOMAIN a
    BY <1>2, <1>3, <1>4, <1>7, <1>9 DEF Records
  <2>3. \A j, k \in Starts(p) : p[j].ix = p[k].ix => j = k
    BY <1>2, <1>3, <1>4, <1>7, <1>9 DEF Records
  <2>4. \A ix \in DOMAIN a : \E k \in Starts(p) : p[k].ix = ix
    BY <1>2, <1>3, <1>4, <1>7, <1>9 DEF Records
  <2>5. ~\E k \in Stops(o) : o[k].ix = m
    <3> SUFFICES ASSUME NEW k \in Stops(o), o[k].ix = m
                 PROVE  FALSE
      OBVIOUS
    <3>1. k \in DOMAIN o /\ Addressed(o, k) /\ o[k].ev = "content_block_stop"
      BY DEF EventsOK, Stops
    <3>2. PICK j \in 1 .. k - 1 : o[j].ev = "content_block_start" /\ o[j].ix = o[k].ix
      BY <3>1 DEF Addressed
    <3>3. j \in Starts(o)
      BY <3>1, <3>2, <1>1 DEF Starts, Extends
    <3> QED
      BY <3>2, <3>3, <1>2, <1>4 DEF Records
  <2>6. \A ix \in DOMAIN a : a[ix].stopped <=> \E k \in Stops(p) : p[k].ix = ix
    BY <1>2, <1>3, <1>4, <1>7, <2>5 DEF Records
  <2> QED
    BY <2>1, <2>2, <2>3, <2>4, <2>6 DEF Records
<1> QED
  BY <1>1, <1>2, <1>5, <1>6, <1>8, ExtendedEvents DEF p, a

-----------------------------------------------------------------------------
(* SseStateManager. *)

Untouched(c, d) == DOMAIN d = DOMAIN c /\ \A f \in DOMAIN c \ {"out", "blocks"} : d[f] = c[f]

ToolStarts(o) == {k \in Starts(o) : o[k].what = "tool_use"}

LEMMA ToolStartsAppend ==
    ASSUME NEW o, IsSeq(o), NEW e
    PROVE  /\ e.ev # "content_block_start" \/ e.what # "tool_use" =>
                ToolStarts(Append(o, e)) = ToolStarts(o)
           /\ e.ev = "content_block_start" /\ e.what = "tool_use" =>
                /\ ToolStarts(Append(o, e)) = ToolStarts(o) \cup {Len(o) + 1}
                /\ Len(o) + 1 \notin ToolStarts(o)
<1> DEFINE p == Append(o, e)
           n == Len(o)
<1>1. Extends(o, e, p, n)
  BY AppendAny
<1> HIDE DEF p, n
<1>2. \A k \in DOMAIN o : k \in ToolStarts(p) <=> k \in ToolStarts(o)
  BY <1>1 DEF Extends, Starts, ToolStarts
<1>3. ToolStarts(p) \subseteq DOMAIN o \cup {n + 1} /\ ToolStarts(o) \subseteq DOMAIN o /\ n + 1 \notin DOMAIN o
  BY <1>1 DEF Extends, Starts, ToolStarts
<1>4. n + 1 \in ToolStarts(p) <=> e.ev = "content_block_start" /\ e.what = "tool_use"
  BY <1>1 DEF Extends, Starts, ToolStarts
<1> QED
  BY <1>2, <1>3, <1>4 DEF p, n

\* The fields of an event.
LEMMA EventFields ==
    ASSUME NEW name, NEW ix, NEW what, NEW data
    PROVE  /\ Event(name, ix, what, data).ev = name /\ Event(name, ix, what, data).ix = ix
           /\ Event(name, ix, what, data).what = what
BY DEF Event

LEMMA EmitEffect ==
    ASSUME NEW c, Fields \subseteq DOMAIN c, NEW e
    PROVE  /\ Emit(c, e).out = Append(c.out, e) /\ Emit(c, e).blocks = c.blocks
           /\ Untouched(c, Emit(c, e))
BY DEF Emit, Untouched, Fields

LEMMA DeltaEffect ==
    ASSUME NEW c, Sound(c), NEW ix, ix \in DOMAIN c.blocks, ~c.blocks[ix].stopped, NEW what, NEW data
    PROVE  LET d == Emit(c, Event("content_block_delta", ix, what, data))
           IN  /\ Sound(d) /\ d.blocks = c.blocks /\ Untouched(c, d)
               /\ ToolStarts(d.out) = ToolStarts(c.out)
<1> DEFINE e == Event("content_block_delta", ix, what, data)
           d == Emit(c, e)
<1>1. e.ev = "content_block_delta" /\ e.ix = ix
  BY EventFields
<1> HIDE DEF e
<1>2. d.out = Append(c.out, e) /\ d.blocks = c.blocks /\ Untouched(c, d)
  BY EmitEffect DEF Sound
<1>3. EventsOK(Append(c.out, e), c.blocks)
  BY <1>1, Delta DEF Sound
<1>4. ToolStarts(Append(c.out, e)) = ToolStarts(c.out)
  BY <1>1, ToolStartsAppend DEF Sound, EventsOK
<1> QED
  BY <1>2, <1>3, <1>4 DEF Sound, Untouched, e

LEMMA StopEffect ==
    ASSUME NEW c, Sound(c), NEW ix
    PROVE  LET d == handle_content_block_stop(c, ix)
           IN  /\ Sound(d) /\ Untouched(c, d)
               /\ ToolStarts(d.out) = ToolStarts(c.out)
               /\ DOMAIN d.blocks = DOMAIN c.blocks
               /\ \A k \in DOMAIN c.blocks : d.blocks[k].type = c.blocks[k].type
               /\ \A k \in DOMAIN c.blocks \ {ix} : d.blocks[k] = c.blocks[k]
               /\ ix \in DOMAIN c.blocks => d.blocks[ix].stopped
<1> DEFINE d == handle_content_block_stop(c, ix)
<1>1. CASE ix \notin DOMAIN c.blocks \/ c.blocks[ix].stopped
  <2>1. d = c
    BY <1>1 DEF handle_content_block_stop
  <2> QED
    BY <1>1, <2>1 DEF Untouched
<1>2. CASE ~(ix \notin DOMAIN c.blocks \/ c.blocks[ix].stopped)
  <2> DEFINE e == Event("content_block_stop", ix, c.blocks[ix].type, << >>)
             b == Stopped(c.blocks, ix)
             m == [c EXCEPT !.blocks[ix].stopped = TRUE]
  <2>1. e.ev = "content_block_stop" /\ e.ix = ix
    BY EventFields
  <2>2. m.blocks = b /\ m.out = c.out /\ Untouched(c, m)
    BY DEF Stopped, Sound, Fields, Untouched
  <2>3. d = Emit(m, e)
    BY <1>2 DEF handle_content_block_stop
  <2>4. /\ b \in Seq(BlockType)
        /\ DOMAIN b = DOMAIN c.blocks
        /\ b[ix].stopped /\ b[ix].type = c.blocks[ix].type
        /\ \A k \in DOMAIN c.blocks \ {ix} : b[k] = c.blocks[k]
    BY <1>2, StoppedBlocks DEF Sound, EventsOK
  <2>5. EventsOK(Append(c.out, e), b)
    BY <1>2, <2>1, Stop DEF Sound
  <2>8. ToolStarts(Append(c.out, e)) = ToolStarts(c.out)
    BY <2>1, ToolStartsAppend DEF Sound, EventsOK
  <2> HIDE DEF e, b, m, d
  <2>6. d.out = Append(c.out, e) /\ d.blocks = b /\ Untouched(m, d)
    BY <2>2, <2>3, EmitEffect DEF Sound, Untouched
  <2>7. Sound(d) /\ Untouched(c, d)
    BY <2>2, <2>5, <2>6 DEF Sound, Untouched
  <2> QED
    BY <2>4, <2>6, <2>7, <2>8 DEF d
<1> QED
  BY <1>1, <1>2

\* handle_content_block_delta sends nothing about a block that is not open.
LEMMA DeltaChecked ==
    ASSUME NEW c, Sound(c), NEW ix, NEW what, NEW data
    PROVE  LET d == handle_content_block_delta(c, ix, what, data)
           IN  /\ Sound(d) /\ d.blocks = c.blocks /\ Untouched(c, d)
               /\ ToolStarts(d.out) = ToolStarts(c.out)
BY DeltaEffect DEF handle_content_block_delta, Untouched

LEMMA StartEffect ==
    ASSUME NEW c, Sound(c), NEW type \in BlockKinds
    PROVE  LET d == AddBlock(c, type)
           IN  /\ Sound(d) /\ Untouched(c, d)
               /\ Len(c.blocks) \in Nat /\ Len(d.blocks) = Len(c.blocks) + 1
               /\ DOMAIN d.blocks = DOMAIN c.blocks \cup {Len(d.blocks)}
               /\ \A k \in DOMAIN c.blocks : d.blocks[k] = c.blocks[k]
               /\ d.blocks[Len(d.blocks)] = [type |-> type, stopped |-> FALSE]
               /\ ToolStarts(d.out) =
                    ToolStarts(c.out) \cup (IF type = "tool_use" THEN {Len(c.out) + 1} ELSE {})
               /\ type = "tool_use" => Len(c.out) + 1 \notin ToolStarts(c.out)
<1> DEFINE x == [type |-> type, stopped |-> FALSE]
           e == Event("content_block_start", Len(c.blocks) + 1, type, << >>)
           m == [c EXCEPT !.blocks = Append(@, x)]
           d == AddBlock(c, type)
           b == Append(c.blocks, x)
<1>1. e.ev = "content_block_start" /\ e.ix = Len(c.blocks) + 1 /\ e.what = type
  BY EventFields
<1>2. x \in BlockType /\ ~x.stopped
  BY DEF BlockType
<1>3. m.blocks = b /\ m.out = c.out /\ Untouched(c, m)
  BY DEF Sound, Fields, Untouched
<1>4. d = Emit(m, e)
  BY DEF AddBlock
<1> HIDE DEF x, e, m, d
<1>5. c.blocks \in Seq(BlockType)
  BY DEF Sound, EventsOK
<1>6. /\ Len(c.blocks) \in Nat /\ Len(b) = Len(c.blocks) + 1
      /\ DOMAIN b = DOMAIN c.blocks \cup {Len(b)}
      /\ \A k \in DOMAIN c.blocks : b[k] = c.blocks[k]
      /\ b[Len(b)] = x
  <2>1. DOMAIN b = 1 .. Len(c.blocks) + 1 /\ DOMAIN c.blocks = 1 .. Len(c.blocks) /\ Len(c.blocks) \in Nat
    BY <1>2, <1>5
  <2>2. DOMAIN b = DOMAIN c.blocks \cup {Len(c.blocks) + 1}
    BY <2>1
  <2> QED
    BY <1>2, <1>5, <2>1, <2>2
<1>7. EventsOK(Append(c.out, e), b)
  BY <1>1, <1>2, Start DEF Sound
<1>10. /\ ToolStarts(Append(c.out, e)) =
             ToolStarts(c.out) \cup (IF type = "tool_use" THEN {Len(c.out) + 1} ELSE {})
       /\ type = "tool_use" => Len(c.out) + 1 \notin ToolStarts(c.out)
  BY <1>1, ToolStartsAppend DEF Sound, EventsOK
<1> HIDE DEF b
<1>8. d.out = Append(c.out, e) /\ d.blocks = b /\ Untouched(m, d)
  BY <1>3, <1>4, EmitEffect DEF Sound, Untouched
<1>9. Sound(d) /\ Untouched(c, d)
  BY <1>3, <1>7, <1>8 DEF Sound, Untouched
<1> QED
  BY <1>6, <1>8, <1>9, <1>10 DEF d, x

-----------------------------------------------------------------------------
(* Loops *)

\* The loop of StopAll over the first n blocks.
IsStopLoop(f, c, ixs, n) ==
  f = [k \in 0 .. n |->
         IF k = 0 THEN c
         ELSE IF k \in ixs THEN handle_content_block_stop(f[k - 1], k)
         ELSE f[k - 1]]

\* The loop of StopAll is a function: its value at a step follows from the one before.
LEMMA StopLoopExists ==
    ASSUME NEW c, NEW ixs
    PROVE  \A n \in Nat : \E f : IsStopLoop(f, c, ixs, n)
<1> DEFINE S == {n \in Nat : \E f : IsStopLoop(f, c, ixs, n)}
<1>1. 0 \in S
  <2> DEFINE f == [k \in 0 .. 0 |-> c]
  <2>1. IsStopLoop(f, c, ixs, 0)
    BY DEF IsStopLoop
  <2> QED
    BY <2>1
<1>2. ASSUME NEW n \in Nat, n \in S PROVE n + 1 \in S
  <2>1. PICK f : IsStopLoop(f, c, ixs, n)
    BY <1>2
  <2> DEFINE x == IF n + 1 \in ixs THEN handle_content_block_stop(f[n], n + 1) ELSE f[n]
             g == [k \in 0 .. n + 1 |-> IF k = n + 1 THEN x ELSE f[k]]
  <2>2. \A k \in 0 .. n : g[k] = f[k]
    OBVIOUS
  <2>3. g[n + 1] = x
    OBVIOUS
  <2>4. \A k \in 0 .. n + 1 :
          g[k] = IF k = 0 THEN c
                 ELSE IF k \in ixs THEN handle_content_block_stop(g[k - 1], k)
                 ELSE g[k - 1]
    <3> SUFFICES ASSUME NEW k \in 0 .. n + 1
                 PROVE  g[k] = IF k = 0 THEN c
                               ELSE IF k \in ixs THEN handle_content_block_stop(g[k - 1], k)
                               ELSE g[k - 1]
      OBVIOUS
    <3> HIDE DEF g
    <3>1. CASE k = n + 1
      <4>1. k # 0 /\ k - 1 = n /\ g[k - 1] = f[n] /\ k - 1 \in 0 .. n
        BY <2>2, <3>1
      <4> QED
        BY <2>3, <3>1, <4>1
    <3>2. CASE k \in 0 .. n /\ k # 0
      <4>1. k - 1 \in 0 .. n /\ g[k - 1] = f[k - 1] /\ g[k] = f[k]
        BY <2>2, <3>2
      <4> QED
        BY <2>1, <3>2, <4>1 DEF IsStopLoop
    <3>3. CASE k = 0
      BY <2>1, <2>2, <3>3 DEF IsStopLoop
    <3> QED
      BY <3>1, <3>2, <3>3
  <2>5. IsStopLoop(g, c, ixs, n + 1)
    BY <2>4 DEF IsStopLoop
  <2> QED
    BY <2>5
<1> QED
  BY <1>1, <1>2, NatSet

LEMMA StopAllIs ==
    ASSUME NEW c, NEW ixs, Len(c.blocks) \in Nat
    PROVE  \E f : IsStopLoop(f, c, ixs, Len(c.blocks)) /\ StopAll(c, ixs) = f[Len(c.blocks)]
<1> DEFINE g == CHOOSE f : IsStopLoop(f, c, ixs, Len(c.blocks))
<1>1. IsStopLoop(g, c, ixs, Len(c.blocks))
  BY StopLoopExists
<1>2. StopAll(c, ixs) = g[Len(c.blocks)]
  BY DEF StopAll, IsStopLoop
<1> QED
  BY <1>1, <1>2

\* StopAll stops the open ones of the blocks it is given and leaves the others alone.
LEMMA StopAllEffect ==
    ASSUME NEW c, Sound(c), NEW ixs
    PROVE  LET d == StopAll(c, ixs)
           IN  /\ Sound(d) /\ Untouched(c, d)
               /\ ToolStarts(d.out) = ToolStarts(c.out)
               /\ DOMAIN d.blocks = DOMAIN c.blocks
               /\ \A k \in DOMAIN c.blocks : d.blocks[k].type = c.blocks[k].type
               /\ \A k \in DOMAIN c.blocks \ ixs : d.blocks[k] = c.blocks[k]
               /\ \A k \in DOMAIN c.blocks \cap ixs : d.blocks[k].stopped
<1> DEFINE n == Len(c.blocks)
<1>1. n \in Nat /\ DOMAIN c.blocks = 1 .. n
  BY DEF Sound, EventsOK
<1>2. PICK f : IsStopLoop(f, c, ixs, n) /\ StopAll(c, ixs) = f[n]
  BY <1>1, StopAllIs
<1> DEFINE P(k, d) ==
             /\ Sound(d) /\ Untouched(c, d)
             /\ ToolStarts(d.out) = ToolStarts(c.out)
             /\ DOMAIN d.blocks = DOMAIN c.blocks
             /\ \A j \in DOMAIN c.blocks : d.blocks[j].type = c.blocks[j].type
             /\ \A j \in DOMAIN c.blocks \ ixs : d.blocks[j] = c.blocks[j]
             /\ \A j \in (1 .. k) \cap ixs : d.blocks[j].stopped
           S == {k \in Nat : k <= n => P(k, f[k])}
<1> HIDE DEF n
<1>3. 0 \in S
  <2>1. f[0] = c
    BY <1>1, <1>2 DEF IsStopLoop
  <2> QED
    BY <2>1 DEF Untouched
<1>4. ASSUME NEW k \in Nat, k \in S PROVE k + 1 \in S
  <2> SUFFICES ASSUME k + 1 <= n PROVE P(k + 1, f[k + 1])
    OBVIOUS
  <2>1. P(k, f[k]) /\ k + 1 \in 1 .. n
    BY <1>1, <1>4
  <2>2. f[k + 1] = IF k + 1 \in ixs THEN handle_content_block_stop(f[k], k + 1) ELSE f[k]
    <3>1. k + 1 \in 0 .. n /\ k + 1 # 0 /\ (k + 1) - 1 = k
      BY <1>1
    <3> QED
      BY <1>2, <3>1 DEF IsStopLoop
  <2>3. CASE k + 1 \notin ixs
    BY <2>1, <2>2, <2>3
  <2>4. CASE k + 1 \in ixs
    <3> DEFINE a == f[k]
               d == f[k + 1]
    <3>1. /\ Sound(d) /\ Untouched(a, d)
          /\ ToolStarts(d.out) = ToolStarts(a.out)
          /\ DOMAIN d.blocks = DOMAIN a.blocks
          /\ \A j \in DOMAIN a.blocks : d.blocks[j].type = a.blocks[j].type
          /\ \A j \in DOMAIN a.blocks \ {k + 1} : d.blocks[j] = a.blocks[j]
          /\ k + 1 \in DOMAIN a.blocks => d.blocks[k + 1].stopped
      BY <2>1, <2>2, <2>4, StopEffect
    <3> HIDE DEF a, d
    <3>2. P(k, a)
      BY <2>1 DEF a
    <3>3. Untouched(c, d)
      BY <3>1, <3>2 DEF Untouched
    <3>4. \A j \in DOMAIN c.blocks \ ixs : d.blocks[j] = c.blocks[j]
      BY <3>1, <3>2, <2>4
    <3>5. \A j \in (1 .. k + 1) \cap ixs : d.blocks[j].stopped
      <4>1. \A j \in 1 .. k : j \in DOMAIN c.blocks \ {k + 1}
        BY <1>1, <2>1
      <4>2. \A j \in 1 .. k + 1 : j \in 1 .. k \/ j = k + 1
        OBVIOUS
      <4>3. k + 1 \in DOMAIN c.blocks
        BY <1>1, <2>1
      <4> QED
        BY <4>1, <4>2, <4>3, <3>1, <3>2
    <3> QED
      BY <3>1, <3>2, <3>3, <3>4, <3>5 DEF d
  <2> QED
    BY <2>3, <2>4
<1>5. P(n, f[n])
  <2>1. Nat \subseteq S
    <3> HIDE DEF S
    <3> QED
      BY <1>3, <1>4, NatSet
  <2> HIDE DEF P
  <2> QED
    BY <1>1, <2>1
<1> QED
  BY <1>1, <1>2, <1>5

-----------------------------------------------------------------------------
(* Text. *)

ToolFields == {"tools", "tool_block_indices", "called", "tool_json_error", "has_tool_use"}

\* From c to d nothing happens to the tool calls.
Toolless(c, d) ==
  /\ ToolStarts(d.out) = ToolStarts(c.out)
  /\ \A f \in ToolFields : d[f] = c[f]
  /\ d.stop_reason = c.stop_reason \/ d.stop_reason \notin {"none", "tool_use"}

\* Nor to thinking.
Plain(c, d) == Moved(c, d) /\ Toolless(c, d)

LEMMA PlainTwice ==
    ASSUME NEW c, NEW d, NEW e, Plain(c, d), Plain(d, e)
    PROVE  Plain(c, e)
BY MovedTwice DEF Plain, Toolless

LEMMA ToollessTwice ==
    ASSUME NEW c, NEW d, NEW e, Toolless(c, d), Toolless(d, e)
    PROVE  Toolless(c, e)
BY DEF Toolless

LEMMA PlainSelf ==
    ASSUME NEW c, Sound(c)
    PROVE  Plain(c, c)
BY DEF Plain, Moved, Toolless

\* An assignment to other fields.
LEMMA Assigned ==
    ASSUME NEW c, Sound(c), NEW d, DOMAIN d = DOMAIN c, d.out = c.out, d.blocks = c.blocks,
           \A f \in Flags \cup ToolFields : d[f] = c[f],
           d.stop_reason = c.stop_reason \/ d.stop_reason \notin {"none", "tool_use"}
    PROVE  Plain(c, d)
BY DEF Plain, Moved, Toolless, Sound, IsOpen

LEMMA FrameToolless ==
    ASSUME NEW c, Sound(c), NEW d, Untouched(c, d), ToolStarts(d.out) = ToolStarts(c.out)
    PROVE  Toolless(c, d) /\ \A f \in Flags : d[f] = c[f]
BY DEF Toolless, ToolFields, Flags, Untouched, Sound, Fields

\* Blocks are added and text blocks stopped.
LEMMA FramePlain ==
    ASSUME NEW c, Sound(c), NEW d, Sound(d), Untouched(c, d), ToolStarts(d.out) = ToolStarts(c.out),
           \A k \in DOMAIN c.blocks :
             IsOpen(c, k, "thinking") => k \in DOMAIN d.blocks /\ d.blocks[k] = c.blocks[k]
    PROVE  Plain(c, d)
BY FrameToolless DEF Plain, Moved, Untouched, IsOpen

LEMMA PlainStart ==
    ASSUME NEW c, Sound(c), NEW type \in {"text", "thinking", "redacted_thinking"}
    PROVE  LET d == handle_content_block_start(c, type)
           IN  /\ Plain(c, d) /\ Untouched(c, d)
               /\ IsOpen(d, LastBlock(d), type)
               /\ LastBlock(d) \in DOMAIN d.blocks /\ d.blocks[LastBlock(d)].type = type
               /\ \A ix : IsOpen(c, ix, "thinking") => ix # LastBlock(d)
<1> DEFINE d == AddBlock(c, type)
<1>6. type # "tool_use"
  OBVIOUS
<1>7. type \in BlockKinds
  BY DEF BlockKinds
<1>1. handle_content_block_start(c, type) = d
  BY <1>6 DEF handle_content_block_start
<1>2. /\ Sound(d) /\ Untouched(c, d)
      /\ Len(c.blocks) \in Nat /\ Len(d.blocks) = Len(c.blocks) + 1
      /\ DOMAIN d.blocks = DOMAIN c.blocks \cup {Len(d.blocks)}
      /\ \A k \in DOMAIN c.blocks : d.blocks[k] = c.blocks[k]
      /\ d.blocks[Len(d.blocks)] = [type |-> type, stopped |-> FALSE]
      /\ ToolStarts(d.out) = ToolStarts(c.out) \cup (IF type = "tool_use" THEN {Len(c.out) + 1} ELSE {})
  BY <1>7, StartEffect
<1>3. DOMAIN c.blocks = 1 .. Len(c.blocks)
  BY DEF Sound, EventsOK
<1> HIDE DEF d
<1>4. Plain(c, d)
  <2>1. ToolStarts(d.out) = ToolStarts(c.out)
    BY <1>2, <1>6
  <2> QED
    BY <1>2, <2>1, FramePlain
<1>5. \A ix : IsOpen(c, ix, "thinking") => ix # Len(d.blocks)
  BY <1>2, <1>3 DEF IsOpen
<1> QED
  BY <1>1, <1>2, <1>4, <1>5 DEF d, LastBlock, IsOpen

LEMMA PlainStopTexts ==
    ASSUME NEW c, Sound(c)
    PROVE  Plain(c, StopTexts(c)) /\ Untouched(c, StopTexts(c))
<1> DEFINE ixs == {ix \in DOMAIN c.blocks : IsOpen(c, ix, "text")}
           d == StopAll(c, ixs)
<1>1. /\ Sound(d) /\ Untouched(c, d) /\ ToolStarts(d.out) = ToolStarts(c.out)
      /\ DOMAIN d.blocks = DOMAIN c.blocks
      /\ \A k \in DOMAIN c.blocks \ ixs : d.blocks[k] = c.blocks[k]
  BY StopAllEffect
<1>2. \A k : IsOpen(c, k, "thinking") => k \notin ixs
  BY DEF IsOpen
<1> HIDE DEF ixs, d
<1>3. Plain(c, d)
  BY <1>1, <1>2, FramePlain
<1> QED
  BY <1>1, <1>3 DEF StopTexts, d, ixs

\* A stop of anything but an open thinking block.
LEMMA PlainStop ==
    ASSUME NEW c, Sound(c), NEW ix, ~IsOpen(c, ix, "thinking")
    PROVE  /\ Plain(c, handle_content_block_stop(c, ix))
           /\ Untouched(c, handle_content_block_stop(c, ix))
<1> DEFINE d == handle_content_block_stop(c, ix)
<1>1. /\ Sound(d) /\ Untouched(c, d) /\ ToolStarts(d.out) = ToolStarts(c.out)
      /\ DOMAIN d.blocks = DOMAIN c.blocks
      /\ \A k \in DOMAIN c.blocks \ {ix} : d.blocks[k] = c.blocks[k]
  BY StopEffect
<1> HIDE DEF d
<1>2. Plain(c, d)
  BY <1>1, FramePlain
<1> QED
  BY <1>1, <1>2 DEF d

LEMMA PlainDelta ==
    ASSUME NEW c, Sound(c), NEW ix, NEW what, NEW data
    PROVE  /\ Plain(c, handle_content_block_delta(c, ix, what, data))
           /\ handle_content_block_delta(c, ix, what, data).blocks = c.blocks
<1> DEFINE d == handle_content_block_delta(c, ix, what, data)
<1>1. Sound(d) /\ d.blocks = c.blocks /\ Untouched(c, d) /\ ToolStarts(d.out) = ToolStarts(c.out)
  BY DeltaChecked
<1> HIDE DEF d
<1>2. Plain(c, d)
  BY <1>1, FramePlain
<1> QED
  BY <1>1, <1>2 DEF d

\* A piece of text goes to a text block, a new one if need be.
LEMMA PlainText ==
    ASSUME NEW c, Sound(c), NEW text
    PROVE  Plain(c, create_text_delta_events(c, text)) /\ Plain(c, TextIfAny(c, text))
<1>1. Plain(c, text_block(c))
  <2>1. CASE IsOpen(c, c.text_block_index, "text")
    BY <2>1, PlainSelf DEF text_block
  <2>2. CASE ~IsOpen(c, c.text_block_index, "text")
    <3> DEFINE d == handle_content_block_start(c, "text")
    <3>1. Plain(c, d)
      BY PlainStart
    <3> HIDE DEF d
    <3>2. Plain(d, AsText(d))
      BY <3>1, Assigned DEF AsText, Plain, Moved, Sound, Fields, Flags, ToolFields
    <3>3. text_block(c) = AsText(d)
      BY <2>2 DEF text_block, d
    <3> QED
      BY <3>1, <3>2, <3>3, PlainTwice
  <2> QED
    BY <2>1, <2>2
<1>2. Sound(text_block(c))
  BY <1>1 DEF Plain, Moved
<1>3. Plain(text_block(c), text_delta(text_block(c), text))
  BY <1>2, PlainDelta DEF text_delta
<1>4. Plain(c, create_text_delta_events(c, text))
  BY <1>1, <1>3, PlainTwice DEF create_text_delta_events
<1> QED
  BY <1>4, PlainSelf DEF TextIfAny

-----------------------------------------------------------------------------
(* Thinking. *)

\* The one kind of delta that no check guards: the flags must say that its block is open.
LEMMA ThinkingDelta ==
    ASSUME NEW c, Sound(c), OpenThinking(c), NEW data
    PROVE  /\ Plain(c, create_thinking_delta_event(c, data))
           /\ Plain(c, create_signature_delta_event(c))
           /\ Plain(c, ThinkingIfAny(c, data))
<1>1. c.thinking_block_index \in DOMAIN c.blocks /\ ~c.blocks[c.thinking_block_index].stopped
  BY DEF OpenThinking, IsOpen
<1>2. ASSUME NEW what, NEW x
      PROVE  Plain(c, Emit(c, Event("content_block_delta", c.thinking_block_index, what, x)))
  <2> DEFINE d == Emit(c, Event("content_block_delta", c.thinking_block_index, what, x))
  <2>1. /\ Sound(d) /\ d.blocks = c.blocks /\ Untouched(c, d)
        /\ ToolStarts(d.out) = ToolStarts(c.out)
    BY <1>1, DeltaEffect
  <2> HIDE DEF d
  <2>2. Plain(c, d)
    BY <2>1, FramePlain
  <2> QED
    BY <2>2 DEF d
<1>3. Plain(c, create_thinking_delta_event(c, data)) /\ Plain(c, create_signature_delta_event(c))
  BY <1>2 DEF create_thinking_delta_event, create_signature_delta_event
<1> QED
  BY <1>3, PlainSelf DEF ThinkingIfAny

\* Same flags, whatever happens to the blocks.
SameFlags(c, d) ==
  Sound(d) /\ DOMAIN d = DOMAIN c /\ Toolless(c, d) /\ \A f \in Flags : d[f] = c[f]

LEMMA OpenStays ==
    ASSUME NEW c, NEW d, OpenThinking(c), Plain(c, d)
    PROVE  OpenThinking(d) /\ Sound(d)
BY DEF OpenThinking, Plain, Moved, Flags

\* The end of a thinking block, and of the flag that spoke of it.
LEMMA ThinkingCloses ==
    ASSUME NEW c, Sound(c), OpenThinking(c)
    PROVE  SameFlags(c, CloseThinking(c))
<1> DEFINE a == create_thinking_delta_event(c, << >>)
           b == create_signature_delta_event(a)
           d == handle_content_block_stop(b, c.thinking_block_index)
<1>1. Plain(c, a)
  BY ThinkingDelta
<1>2. Sound(a) /\ OpenThinking(a)
  BY <1>1, OpenStays
<1> HIDE DEF a
<1>3. Plain(a, b)
  BY <1>2, ThinkingDelta
<1> HIDE DEF b
<1>4. Plain(c, b)
  BY <1>1, <1>3, PlainTwice
<1>5. Sound(b)
  BY <1>4 DEF Plain, Moved
<1>6. Sound(d) /\ Untouched(b, d) /\ ToolStarts(d.out) = ToolStarts(b.out)
  BY <1>5, StopEffect
<1> HIDE DEF d
<1>7. Toolless(b, d) /\ (\A f \in Flags : d[f] = b[f]) /\ DOMAIN d = DOMAIN b
  BY <1>5, <1>6, FrameToolless DEF Untouched
<1>8. SameFlags(c, d)
  BY <1>4, <1>6, <1>7, ToollessTwice DEF SameFlags, Plain, Moved
<1> QED
  BY <1>8 DEF CloseThinking, a, b, d

\* A thinking block starts and becomes the one the flags speak of.
LEMMA ThinkingStarts ==
    ASSUME NEW c, Sound(c)
    PROVE  LET d == start_thinking(c)
           IN  /\ Sound(d) /\ DOMAIN d = DOMAIN c /\ Toolless(c, d) /\ OpenThinking(d)
               /\ \A f \in Flags \ {"thinking_block_index"} : d[f] = c[f]
<1> DEFINE a == handle_content_block_start(c, "thinking")
           d == start_thinking(c)
<1>1. Plain(c, a) /\ IsOpen(a, LastBlock(a), "thinking")
  BY PlainStart
<1>2. d = [a EXCEPT !.thinking_block_index = LastBlock(a)]
  BY DEF start_thinking, AsThinking
<1> HIDE DEF a
<1>3. Sound(a) /\ DOMAIN a = DOMAIN c /\ Toolless(c, a) /\ \A f \in Flags : a[f] = c[f]
  BY <1>1 DEF Plain, Moved
<1>4. /\ d.out = a.out /\ d.blocks = a.blocks /\ DOMAIN d = DOMAIN a
      /\ d.thinking_block_index = LastBlock(a)
      /\ \A f \in (Flags \cup ToolFields \cup {"stop_reason"}) \ {"thinking_block_index"} : d[f] = a[f]
  BY <1>2, <1>3 DEF Sound, Fields, Flags, ToolFields
<1> HIDE DEF d
<1>5. Toolless(a, d)
  BY <1>4 DEF Toolless, ToolFields
<1>6. Sound(d) /\ OpenThinking(d)
  BY <1>1, <1>3, <1>4 DEF Sound, OpenThinking, IsOpen
<1> QED
  BY <1>3, <1>4, <1>5, <1>6, ToollessTwice DEF d

-----------------------------------------------------------------------------
(* Upstream events, one stage after the other. *)

\* A step that may open or close thinking, but keeps the flags right.
Kept(c, d) == Good(d) /\ Toolless(c, d)

LEMMA KeptTwice ==
    ASSUME NEW c, NEW d, NEW e, Kept(c, d), Kept(d, e)
    PROVE  Kept(c, e)
BY ToollessTwice DEF Kept

LEMMA PlainKept ==
    ASSUME NEW c, NEW d, Good(c), Plain(c, d)
    PROVE  Kept(c, d)
BY MovedGood DEF Kept, Plain

LEMMA KeptSelf ==
    ASSUME NEW c, Good(c)
    PROVE  Kept(c, c)
BY PlainSelf, PlainKept DEF Good

\* d is a with the flags that F names, or fields no one relies on, assigned.
Assigns(a, d, F) ==
  /\ DOMAIN d = DOMAIN a /\ d.out = a.out /\ d.blocks = a.blocks
  /\ \A f \in (Flags \cup ToolFields \cup {"stop_reason"}) \ F : d[f] = a[f]

LEMMA AssignsFlags ==
    ASSUME NEW a, Sound(a), NEW d, Assigns(a, d, Flags)
    PROVE  /\ Sound(d) /\ Toolless(a, d)
           /\ \A ix, type : IsOpen(d, ix, type) <=> IsOpen(a, ix, type)
BY DEF Assigns, Sound, Toolless, IsOpen, Flags, ToolFields

LEMMA PlainCloseText ==
    ASSUME NEW c, Sound(c)
    PROVE  Plain(c, close_text_if_open(c))
<1>1. CASE IsOpen(c, c.text_block_index, "text")
  <2>1. ~IsOpen(c, c.text_block_index, "thinking")
    BY <1>1 DEF IsOpen
  <2> QED
    BY <1>1, <2>1, PlainStop DEF close_text_if_open
<1>2. CASE ~IsOpen(c, c.text_block_index, "text")
  BY <1>2, PlainSelf DEF close_text_if_open
<1> QED
  BY <1>1, <1>2

LEMMA KeptCloseReasoning ==
    ASSUME NEW c, Good(c)
    PROVE  Kept(c, close_reasoning_if_open(c)) /\ ~close_reasoning_if_open(c).reasoning_block_open
<1>1. CASE ~c.reasoning_block_open
  BY <1>1, KeptSelf DEF close_reasoning_if_open
<1>2. CASE c.reasoning_block_open
  <2> DEFINE a == CloseThinking(c)
             d == [a EXCEPT !.reasoning_block_open = FALSE, !.thinking_extracted = TRUE]
  <2>1. Sound(c) /\ OpenThinking(c) /\ c.in_thinking_block = FALSE
    BY <1>2 DEF Good, FlagsOK
  <2>2. SameFlags(c, a)
    BY <2>1, ThinkingCloses
  <2> HIDE DEF a
  <2>3. Sound(a) /\ Toolless(c, a) /\ a.in_thinking_block = FALSE
    BY <2>1, <2>2 DEF SameFlags, Flags
  <2>4. /\ Assigns(a, d, Flags)
        /\ d.reasoning_block_open = FALSE /\ d.in_thinking_block = FALSE
    BY <2>3 DEF Assigns, Sound, Fields, Flags, ToolFields
  <2>5. d = close_reasoning_if_open(c)
    BY <1>2 DEF close_reasoning_if_open, a
  <2> HIDE DEF d
  <2>6. Sound(d) /\ Toolless(a, d)
    BY <2>3, <2>4, AssignsFlags
  <2>7. Good(d)
    BY <2>4, <2>6 DEF Good, FlagsOK
  <2> QED
    BY <2>3, <2>4, <2>5, <2>6, <2>7, ToollessTwice DEF Kept
<1> QED
  BY <1>1, <1>2

LEMMA KeptBefore ==
    ASSUME NEW c, Good(c), NEW hold
    PROVE  Kept(c, BeforeThinking(c, hold))
<1> DEFINE pos == Find(c.buf, Open)
           text == SubSeq(c.buf, 1, IF pos > 0 THEN pos - 1 ELSE Len(c.buf) - hold)
           d == IF Solid(text) THEN create_text_delta_events(c, text) ELSE c
           a == start_thinking(d)
           e == [a EXCEPT !.in_thinking_block = TRUE, !.strip_newline = TRUE,
                          !.buf = DropFirst(@, pos)]
           g == [d EXCEPT !.buf = IF Solid(text) THEN DropFirst(@, Len(text)) ELSE @]
           r == BeforeThinking(c, hold)
<1>1. r = IF c.in_thinking_block \/ c.thinking_extracted THEN c ELSE IF pos > 0 THEN e ELSE g
  BY DEF BeforeThinking
<1>2. Plain(c, d)
  BY PlainText, PlainSelf DEF Good
<1>3. Kept(c, d)
  BY <1>2, PlainKept
<1>4. d.in_thinking_block = c.in_thinking_block /\ d.thinking_extracted = c.thinking_extracted
  BY <1>2 DEF Plain, Moved, Flags
<1>5. Sound(d)
  BY <1>3 DEF Kept, Good
<1> HIDE DEF d, pos, text
<1>6. CASE c.in_thinking_block \/ c.thinking_extracted
  BY <1>1, <1>6, KeptSelf
<1>7. CASE ~(c.in_thinking_block \/ c.thinking_extracted) /\ pos > 0
  <2>1. /\ Sound(a) /\ DOMAIN a = DOMAIN d /\ Toolless(d, a) /\ OpenThinking(a)
        /\ \A f \in Flags \ {"thinking_block_index"} : a[f] = d[f]
    BY <1>5, ThinkingStarts
  <2> HIDE DEF a
  <2>2. /\ Assigns(a, e, Flags) /\ e.thinking_block_index = a.thinking_block_index
        /\ e.reasoning_block_open = a.reasoning_block_open
    BY <2>1 DEF Assigns, Sound, Fields, Flags, ToolFields
  <2> HIDE DEF e
  <2>3. Sound(e) /\ Toolless(a, e) /\ OpenThinking(e)
    BY <2>1, <2>2, AssignsFlags DEF OpenThinking
  <2>4. ~a.reasoning_block_open
    BY <1>3, <1>4, <1>7, <2>1 DEF Kept, Good, FlagsOK, Flags
  <2>5. Good(e)
    BY <2>2, <2>3, <2>4 DEF Good, FlagsOK
  <2> QED
    BY <1>1, <1>3, <1>7, <2>1, <2>3, <2>5, ToollessTwice DEF Kept
<1>8. CASE ~(c.in_thinking_block \/ c.thinking_extracted) /\ ~(pos > 0)
  <2>1. Plain(d, g)
    BY <1>5, Assigned DEF Sound, Fields, Flags, ToolFields
  <2> HIDE DEF g
  <2>2. Kept(d, g)
    BY <1>3, <2>1, PlainKept DEF Kept
  <2> QED
    BY <1>1, <1>3, <1>8, <2>2, KeptTwice
<1> QED
  BY <1>6, <1>7, <1>8

LEMMA KeptStrip ==
    ASSUME NEW c, Good(c)
    PROVE  Kept(c, StripNewline(c))
<1> DEFINE d == [c EXCEPT !.strip_newline = FALSE, !.buf = IF Head(@) = Blank THEN Tail(@) ELSE @]
<1>1. Sound(c)
  BY DEF Good
<1>2. /\ DOMAIN d = DOMAIN c /\ d.out = c.out /\ d.blocks = c.blocks
      /\ \A f \in Flags \cup ToolFields \cup {"stop_reason"} : d[f] = c[f]
  BY <1>1 DEF Sound, Fields, Flags, ToolFields
<1> HIDE DEF d
<1>3. Kept(c, d)
  BY <1>1, <1>2, Assigned, PlainKept
<1> QED
  BY <1>3, KeptSelf DEF StripNewline, d

LEMMA KeptIn ==
    ASSUME NEW c, Good(c), NEW hold
    PROVE  Kept(c, InThinking(c, hold))
<1> DEFINE pos == Find(c.buf, Close)
           data == SubSeq(c.buf, 1, IF pos > 0 THEN pos - 1 ELSE Len(c.buf) - hold)
           b == ThinkingIfAny(c, data)
           a == CloseThinking(b)
           e == [a EXCEPT !.in_thinking_block = FALSE, !.thinking_extracted = TRUE,
                          !.strip_text = TRUE, !.buf = DropFirst(@, pos)]
           g == [b EXCEPT !.buf = DropFirst(@, Len(data))]
           r == InThinking(c, hold)
<1>1. r = IF ~c.in_thinking_block THEN c ELSE IF pos > 0 THEN e ELSE g
  BY DEF InThinking
<1> HIDE DEF pos, data
<1>2. CASE ~c.in_thinking_block
  BY <1>1, <1>2, KeptSelf
<1>3. ASSUME c.in_thinking_block
      PROVE  /\ Plain(c, b) /\ Kept(c, b) /\ Sound(b) /\ OpenThinking(b)
             /\ ~b.reasoning_block_open
  <2>1. Sound(c) /\ OpenThinking(c) /\ ~c.reasoning_block_open
    BY <1>3 DEF Good, FlagsOK
  <2>2. Plain(c, b)
    BY <2>1, ThinkingDelta
  <2> HIDE DEF b
  <2>3. b.reasoning_block_open = c.reasoning_block_open
    BY <2>2 DEF Plain, Moved, Flags
  <2> QED
    BY <2>1, <2>2, <2>3, PlainKept, OpenStays
<1>4. CASE c.in_thinking_block /\ pos > 0
  <2> HIDE DEF b
  <2>1. SameFlags(b, a)
    BY <1>3, <1>4, ThinkingCloses
  <2> HIDE DEF a
  <2>2. Sound(a) /\ Toolless(b, a) /\ ~a.reasoning_block_open
    BY <1>3, <1>4, <2>1 DEF SameFlags, Flags
  <2>3. /\ Assigns(a, e, Flags) /\ ~e.reasoning_block_open /\ e.in_thinking_block = FALSE
    BY <2>2 DEF Assigns, Sound, Fields, Flags, ToolFields
  <2> HIDE DEF e
  <2>4. Sound(e) /\ Toolless(a, e)
    BY <2>2, <2>3, AssignsFlags
  <2>5. Good(e)
    BY <2>3, <2>4 DEF Good, FlagsOK
  <2> QED
    BY <1>1, <1>3, <1>4, <2>2, <2>4, <2>5, ToollessTwice DEF Kept
<1>5. CASE c.in_thinking_block /\ ~(pos > 0)
  <2> HIDE DEF b
  <2>1. Plain(b, g)
    BY <1>3, <1>5, Assigned DEF Sound, Fields, Flags, ToolFields
  <2> HIDE DEF g
  <2>2. Kept(b, g)
    BY <1>3, <1>5, <2>1, PlainKept DEF Kept
  <2> QED
    BY <1>1, <1>3, <1>5, <2>2, KeptTwice
<1> QED
  BY <1>2, <1>4, <1>5

LEMMA KeptAfter ==
    ASSUME NEW c, Good(c)
    PROVE  Kept(c, AfterThinking(c))
<1> DEFINE text == IF c.strip_text THEN TrimStart(c.buf) ELSE c.buf
           a == TextIfAny(c, text)
           d == [a EXCEPT !.buf = << >>, !.strip_text = @ /\ text = << >>]
<1>1. AfterThinking(c) = IF c.in_thinking_block \/ ~c.thinking_extracted THEN c ELSE d
  BY DEF AfterThinking
<1> HIDE DEF text
<1>2. Plain(c, a)
  BY PlainText DEF Good
<1> HIDE DEF a
<1>3. Kept(c, a)
  BY <1>2, PlainKept
<1>6. Sound(a)
  BY <1>3 DEF Kept, Good
<1>7. /\ DOMAIN d = DOMAIN a /\ d.out = a.out /\ d.blocks = a.blocks
      /\ \A f \in Flags \cup ToolFields \cup {"stop_reason"} : d[f] = a[f]
  BY <1>6 DEF Sound, Fields, Flags, ToolFields
<1> HIDE DEF d
<1>4. Plain(a, d)
  BY <1>6, <1>7, Assigned
<1>5. Kept(c, d)
  BY <1>3, <1>4, PlainKept, KeptTwice DEF Kept
<1> QED
  BY <1>1, <1>5, KeptSelf

\* process_content_with_thinking as a whole, in each of its three stages.
LEMMA KeptContent ==
    ASSUME NEW c, Good(c), NEW content, NEW hold
    PROVE  Kept(c, process_content_with_thinking(c, content, hold))
<1> DEFINE c1 == [c EXCEPT !.buf = @ \o content]
           c2 == BeforeThinking(c1, hold)
           c3 == IF c2.in_thinking_block THEN StripNewline(c2) ELSE c2
           c4 == InThinking(c3, hold)
           c5 == AfterThinking(c4)
<1>1. process_content_with_thinking(c, content, hold) = c5
  BY DEF process_content_with_thinking
<1>2. Plain(c, c1)
  BY Assigned DEF Good, Sound, Fields, Flags, ToolFields
<1> HIDE DEF c1
<1>3. Kept(c, c1) /\ Good(c1)
  BY <1>2, PlainKept DEF Kept
<1>4. Kept(c1, c2)
  BY <1>3, KeptBefore
<1> HIDE DEF c2
<1>5. Kept(c2, c3)
  BY <1>4, KeptStrip, KeptSelf DEF Kept
<1> HIDE DEF c3
<1>6. Kept(c3, c4)
  BY <1>5, KeptIn DEF Kept
<1> HIDE DEF c4
<1>7. Kept(c4, c5)
  BY <1>6, KeptAfter DEF Kept
<1> HIDE DEF c5
<1> QED
  BY <1>1, <1>3, <1>4, <1>5, <1>6, <1>7, KeptTwice

LEMMA KeptText ==
    ASSUME NEW c, Good(c), NEW content, NEW hold
    PROVE  Kept(c, ProcessText(c, content, hold))
<1>1. Kept(c, create_text_delta_events(c, content))
  BY PlainText, PlainKept DEF Good
<1> QED
  BY <1>1, KeptContent, KeptSelf DEF ProcessText

\* The text that waits in the filter is in no event yet.
LEMMA KeptHeld ==
    ASSUME NEW c, Good(c), NEW content, NEW held, NEW hold
    PROVE  Kept(c, ProcessText([c EXCEPT !.held = held], content, hold))
<1> DEFINE d == [c EXCEPT !.held = held]
<1>1. Plain(c, d)
  BY Assigned DEF Good, Sound, Fields, Flags, ToolFields
<1> HIDE DEF d
<1>2. Kept(c, d) /\ Good(d)
  BY <1>1, PlainKept DEF Kept
<1>3. Kept(d, ProcessText(d, content, hold))
  BY <1>2, KeptText
<1> QED
  BY <1>2, <1>3, KeptTwice DEF d

LEMMA KeptReasoning ==
    ASSUME NEW c, Good(c), NEW kind
    PROVE  Kept(c, process_reasoning_content(c, kind))
<1>1. CASE kind = "redacted"
  <2> DEFINE c1 == close_reasoning_if_open(c)
             c2 == close_text_if_open(c1)
             c3 == handle_content_block_start(c2, "redacted_thinking")
             c4 == handle_content_block_stop(c3, LastBlock(c3))
             d == [c4 EXCEPT !.thinking_extracted = TRUE]
  <2>1. process_reasoning_content(c, kind) = d
    BY <1>1 DEF process_reasoning_content, RedactedBlock
  <2>2. Kept(c, c1)
    BY KeptCloseReasoning
  <2> HIDE DEF c1
  <2>3. Plain(c1, c2)
    BY <2>2, PlainCloseText DEF Kept, Good
  <2> HIDE DEF c2
  <2>4. Plain(c2, c3) /\ c3.blocks[LastBlock(c3)].type = "redacted_thinking"
    BY <2>3, PlainStart DEF Plain, Moved
  <2> HIDE DEF c3
  <2>5. Plain(c3, c4)
    BY <2>4, PlainStop DEF Plain, Moved, IsOpen
  <2> HIDE DEF c4
  <2>6. Plain(c1, c4)
    BY <2>3, <2>4, <2>5, PlainTwice
  <2>7. Kept(c, c4)
    BY <2>2, <2>6, PlainKept, KeptTwice DEF Kept
  <2>8. Sound(c4) /\ FlagsOK(c4)
    BY <2>7 DEF Kept, Good
  <2>9. /\ Assigns(c4, d, {"thinking_extracted"}) /\ d.thinking_extracted
    BY <2>8 DEF Assigns, Sound, Fields, Flags, ToolFields
  <2> HIDE DEF d
  <2>10. Assigns(c4, d, Flags)
    BY <2>9 DEF Assigns, Flags
  <2>11. /\ Sound(d) /\ Toolless(c4, d)
         /\ \A ix, type : IsOpen(d, ix, type) <=> IsOpen(c4, ix, type)
    BY <2>8, <2>10, AssignsFlags
  <2>12. FlagsOK(d)
    BY <2>8, <2>9, <2>11 DEF FlagsOK, OpenThinking, Assigns, Flags
  <2> QED
    BY <2>1, <2>7, <2>11, <2>12, ToollessTwice DEF Kept, Good
<1>2. CASE kind # "redacted"
  <2> DEFINE c1 == close_text_if_open(c)
             o == IsOpen(c1, c1.thinking_block_index, "thinking")
             a == IF o THEN c1 ELSE start_thinking(c1)
             b == [a EXCEPT !.reasoning_block_open = TRUE, !.in_thinking_block = FALSE,
                            !.thinking_extracted = TRUE]
             e == IF c.reasoning_block_open THEN c ELSE b
             d == IF kind = "text" THEN create_thinking_delta_event(e, << >>) ELSE e
  <2>1. process_reasoning_content(c, kind) = d
    BY <1>2 DEF process_reasoning_content, OpenReasoning
  <2>2. Plain(c, c1)
    BY PlainCloseText DEF Good
  <2> HIDE DEF c1
  <2>3. Sound(c1) /\ Toolless(c, c1)
    BY <2>2 DEF Plain, Moved
  <2>4. Sound(a) /\ Toolless(c1, a) /\ OpenThinking(a)
    <3>1. CASE o
      BY <2>3, <3>1, PlainSelf DEF Plain, OpenThinking
    <3>2. CASE ~o
      BY <2>3, <3>2, ThinkingStarts
    <3> QED
      BY <3>1, <3>2
  <2> HIDE DEF a
  <2>5. /\ Assigns(a, b, Flags) /\ b.thinking_block_index = a.thinking_block_index
        /\ b.in_thinking_block = FALSE /\ b.thinking_extracted
    BY <2>4 DEF Assigns, Sound, Fields, Flags, ToolFields
  <2> HIDE DEF b
  <2>6. Sound(b) /\ Toolless(a, b) /\ OpenThinking(b)
    BY <2>4, <2>5, AssignsFlags DEF OpenThinking
  <2>7. Good(b)
    BY <2>5, <2>6 DEF Good, FlagsOK
  <2>8. Kept(c, b)
    BY <2>3, <2>4, <2>6, <2>7, ToollessTwice DEF Kept
  <2>9. Kept(c, e) /\ OpenThinking(e)
    BY <2>6, <2>8, KeptSelf DEF Good, FlagsOK
  <2> HIDE DEF e
  <2>10. Kept(e, create_thinking_delta_event(e, << >>))
    BY <2>9, ThinkingDelta, PlainKept DEF Kept, Good
  <2> QED
    BY <2>1, <2>9, <2>10, KeptTwice
<1> QED
  BY <1>1, <1>2

-----------------------------------------------------------------------------
(* Tool calls. *)

Begun(c) == {id \in Tools : c.tool_block_indices[id] # NoBlock}

\* Every call but those of X has its block, is still being read, or is reported.
ToolsOK(c, X) ==
  /\ c.tools = [id \in Tools |-> c.tools[id]]
  /\ \A id \in Tools : c.tools[id] \in {"none", "empty", "partial"}
  /\ c.tool_block_indices = [id \in Tools |-> c.tool_block_indices[id]]
  /\ IsFiniteSet(ToolStarts(c.out)) /\ Cardinality(ToolStarts(c.out)) = Cardinality(Begun(c))
  /\ c.called \subseteq Tools
  /\ \A id \in Tools : c.tools[id] # "none" => id \in c.called
  /\ \A id \in c.called \ X : id \in Begun(c) \/ c.tools[id] # "none" \/ c.tool_json_error
  /\ c.tool_json_error => c.stop_reason # "none"
  /\ c.stop_reason # "tool_use"
  /\ c.has_tool_use => c.called # {}

LEMMA ToollessOK ==
    ASSUME NEW c, NEW X, ToolsOK(c, X), NEW d, Toolless(c, d)
    PROVE  ToolsOK(d, X) /\ Begun(d) = Begun(c)
<1>1. /\ d.tools = c.tools /\ d.tool_block_indices = c.tool_block_indices
      /\ d.called = c.called /\ d.tool_json_error = c.tool_json_error
      /\ d.has_tool_use = c.has_tool_use /\ ToolStarts(d.out) = ToolStarts(c.out)
      /\ d.stop_reason = c.stop_reason \/ d.stop_reason \notin {"none", "tool_use"}
  BY DEF Toolless, ToolFields
<1>2. Begun(d) = Begun(c)
  BY <1>1 DEF Begun
<1> QED
  BY <1>1, <1>2 DEF ToolsOK

\* What a finished call changes, beside its block.
Emits(c, d) ==
  /\ Moved(c, d) /\ Begun(c) \subseteq Begun(d)
  /\ \A f \in {"tools", "called", "tool_json_error", "stop_reason"} : d[f] = c[f]

LEMMA EmitsTwice ==
    ASSUME NEW c, NEW d, NEW e, Emits(c, d), Emits(d, e)
    PROVE  Emits(c, e)
BY MovedTwice DEF Emits

\* A tool call whose arguments are complete: one block, begun, filled and stopped.
LEMMA EmitTool ==
    ASSUME IsFiniteSet(Tools), NEW c, Sound(c), NEW X, ToolsOK(c, X), NEW id \in c.called
    PROVE  LET d == emit_completed_tool_use(c, id)
           IN  Emits(c, d) /\ ToolsOK(d, X \ {id}) /\ id \in Begun(d)
<1> DEFINE d == emit_completed_tool_use(c, id)
<1>1. id \in Tools
  BY DEF ToolsOK
<1>2. CASE c.tool_block_indices[id] # NoBlock
  <2>1. d = StopTexts(c)
    BY <1>2 DEF emit_completed_tool_use
  <2> HIDE DEF d
  <2>2. Plain(c, d) /\ Untouched(c, d)
    BY <2>1, PlainStopTexts
  <2>3. ToolsOK(d, X) /\ Begun(d) = Begun(c)
    BY <2>2, ToollessOK DEF Plain
  <2>4. id \in Begun(d)
    BY <1>1, <1>2, <2>3 DEF Begun
  <2>5. Emits(c, d)
    BY <2>2, <2>3 DEF Emits, Plain, Untouched, Sound, Fields
  <2>6. ToolsOK(d, X \ {id})
    BY <2>3, <2>4 DEF ToolsOK
  <2> QED
    BY <2>4, <2>5, <2>6 DEF d
<1>3. CASE c.tool_block_indices[id] = NoBlock
  <2> DEFINE s == StopTexts(c)
             a == [s EXCEPT !.has_tool_use = TRUE]
             b == AddBlock(a, "tool_use")
             e == handle_content_block_delta(b, LastBlock(b), "input_json_delta", << >>)
             g == handle_content_block_stop(e, LastBlock(b))
             n == Len(a.out) + 1
  <2>1. d = [g EXCEPT !.tool_block_indices[id] = LastBlock(b)]
    BY <1>3 DEF emit_completed_tool_use, ToolBlock, handle_content_block_start
  <2>2. Plain(c, s) /\ Untouched(c, s) /\ Sound(s)
    BY PlainStopTexts DEF Plain, Moved
  <2> HIDE DEF s
  <2>3. /\ Sound(a) /\ Moved(s, a) /\ ToolStarts(a.out) = ToolStarts(c.out)
        /\ a.has_tool_use = TRUE /\ DOMAIN a = DOMAIN c
        /\ \A f \in DOMAIN c \ {"out", "blocks", "has_tool_use"} : a[f] = c[f]
    <3>1. /\ DOMAIN a = DOMAIN s /\ a.out = s.out /\ a.blocks = s.blocks /\ a.has_tool_use = TRUE
          /\ \A f \in DOMAIN s \ {"has_tool_use"} : a[f] = s[f]
      BY <2>2 DEF Sound, Fields
    <3> HIDE DEF a
    <3>2. Sound(a) /\ Moved(s, a)
      BY <3>1, <2>2 DEF Sound, Moved, IsOpen, Flags, Fields
    <3>3. DOMAIN s = DOMAIN c /\ \A f \in DOMAIN c \ {"out", "blocks"} : s[f] = c[f]
      BY <2>2 DEF Untouched
    <3>4. ToolStarts(a.out) = ToolStarts(c.out)
      BY <3>1, <2>2 DEF Plain, Toolless
    <3>5. \A f \in DOMAIN c \ {"out", "blocks", "has_tool_use"} : a[f] = c[f]
      BY <3>1, <3>3
    <3> QED
      BY <3>1, <3>2, <3>3, <3>4, <3>5
  <2> HIDE DEF a
  <2>4. /\ Sound(b) /\ Untouched(a, b)
        /\ Len(a.blocks) \in Nat /\ Len(b.blocks) = Len(a.blocks) + 1
        /\ \A k \in DOMAIN a.blocks : k \in DOMAIN b.blocks /\ b.blocks[k] = a.blocks[k]
        /\ b.blocks[LastBlock(b)].type = "tool_use"
        /\ ToolStarts(b.out) = ToolStarts(a.out) \cup {n} /\ n \notin ToolStarts(a.out)
    <3>1. "tool_use" \in BlockKinds
      BY DEF BlockKinds
    <3>2. /\ Sound(b) /\ Untouched(a, b)
          /\ Len(a.blocks) \in Nat /\ Len(b.blocks) = Len(a.blocks) + 1
          /\ DOMAIN b.blocks = DOMAIN a.blocks \cup {Len(b.blocks)}
          /\ \A k \in DOMAIN a.blocks : b.blocks[k] = a.blocks[k]
          /\ b.blocks[Len(b.blocks)] = [type |-> "tool_use", stopped |-> FALSE]
          /\ ToolStarts(b.out) =
               ToolStarts(a.out) \cup (IF "tool_use" = "tool_use" THEN {Len(a.out) + 1} ELSE {})
          /\ "tool_use" = "tool_use" => Len(a.out) + 1 \notin ToolStarts(a.out)
      BY <2>3, <3>1, StartEffect
    <3> HIDE DEF b
    <3> QED
      BY <3>2 DEF LastBlock
  <2> HIDE DEF b, n
  <2>5. Moved(a, b)
    BY <2>3, <2>4 DEF Moved, Untouched, Sound, Fields, Flags, IsOpen
  <2>6. Plain(b, e) /\ e.blocks = b.blocks /\ Untouched(b, e)
    BY <2>4, PlainDelta, DeltaChecked
  <2> HIDE DEF e
  <2>7. ~IsOpen(e, LastBlock(b), "thinking") /\ Sound(e)
    BY <2>4, <2>6 DEF IsOpen, Plain, Moved
  <2>8. Plain(e, g) /\ Untouched(e, g)
    BY <2>7, PlainStop
  <2> HIDE DEF g
  <2>9. Moved(c, g)
    BY <2>2, <2>3, <2>5, <2>6, <2>8, MovedTwice DEF Plain
  <2>10. /\ ToolStarts(g.out) = ToolStarts(c.out) \cup {n} /\ n \notin ToolStarts(c.out)
         /\ g.has_tool_use = TRUE
         /\ \A f \in DOMAIN c \ {"out", "blocks", "has_tool_use"} : g[f] = c[f]
    BY <2>3, <2>4, <2>6, <2>8 DEF Plain, Toolless, Untouched, Sound, Fields
  <2>11. DOMAIN g = DOMAIN c /\ Sound(g) /\ Fields \subseteq DOMAIN c
    BY <2>9 DEF Moved, Sound
  <2>12. LastBlock(b) # NoBlock
    BY <2>4 DEF LastBlock, NoBlock
  <2>13. /\ DOMAIN d = DOMAIN c
         /\ \A f \in DOMAIN c \ {"tool_block_indices"} : d[f] = g[f]
         /\ d.tool_block_indices = [c.tool_block_indices EXCEPT ![id] = LastBlock(b)]
    BY <2>1, <2>10, <2>11 DEF Fields
  <2> HIDE DEF d
  <2>14. d.out = g.out /\ d.blocks = g.blocks /\ \A f \in Flags : d[f] = g[f]
    BY <2>11, <2>13 DEF Fields, Flags
  <2>15. Moved(c, d)
    BY <2>9, <2>11, <2>13, <2>14 DEF Moved, Sound, IsOpen
  <2>16. Begun(d) = Begun(c) \cup {id} /\ id \notin Begun(c)
    BY <1>1, <1>3, <2>12, <2>13 DEF Begun, ToolsOK
  <2>17. /\ d.tools = c.tools /\ d.called = c.called /\ d.tool_json_error = c.tool_json_error
         /\ d.stop_reason = c.stop_reason
    BY <2>10, <2>11, <2>13 DEF Fields
  <2>18. Emits(c, d)
    BY <2>15, <2>16, <2>17 DEF Emits
  <2>19. /\ IsFiniteSet(ToolStarts(d.out))
         /\ Cardinality(ToolStarts(d.out)) = Cardinality(Begun(d))
    <3>1. IsFiniteSet(Begun(c))
      BY FS_Subset DEF Begun
    <3>2. Cardinality(Begun(d)) = Cardinality(Begun(c)) + 1
      BY <3>1, <2>16, FS_AddElement
    <3>3. /\ IsFiniteSet(ToolStarts(c.out) \cup {n})
          /\ Cardinality(ToolStarts(c.out) \cup {n}) = Cardinality(ToolStarts(c.out)) + 1
      BY <2>10, FS_AddElement DEF ToolsOK
    <3> QED
      BY <3>2, <3>3, <2>10, <2>14 DEF ToolsOK
  <2>20. ToolsOK(d, X \ {id})
    <3>1. d.tool_block_indices = [i \in Tools |-> d.tool_block_indices[i]]
      BY <1>1, <2>13 DEF ToolsOK
    <3>2. \A i \in d.called \ (X \ {id}) : i \in Begun(d) \/ d.tools[i] # "none" \/ d.tool_json_error
      BY <2>16, <2>17 DEF ToolsOK
    <3> QED
      BY <3>1, <3>2, <2>17, <2>19 DEF ToolsOK
  <2> QED
    BY <2>16, <2>18, <2>20 DEF d
<1> QED
  BY <1>2, <1>3

LEMMA PlainFlush ==
    ASSUME NEW c, Sound(c)
    PROVE  Plain(c, flush_before_tool(c))
<1> DEFINE a == [c EXCEPT !.buf = << >>]
<1>1. Plain(c, a)
  BY Assigned DEF Sound, Fields, Flags, ToolFields
<1> HIDE DEF a
<1>2. Plain(a, create_text_delta_events(a, c.buf))
  BY <1>1, PlainText DEF Plain, Moved
<1>3. Plain(c, create_text_delta_events(a, c.buf))
  BY <1>1, <1>2, PlainTwice
<1> QED
  BY <1>3, PlainSelf DEF flush_before_tool, a

LEMMA EmitsGood ==
    ASSUME NEW c, NEW d, Good(c), Emits(c, d)
    PROVE  Good(d)
BY MovedGood DEF Emits

\* One tool_use event: its call is collected, emitted or reported, and no other is touched.
LEMMA ToolUseStep ==
    ASSUME NEW c, Good(c), NEW id \in c.called, ToolsOK(c, {id}),
           NEW input, NEW stop \in BOOLEAN, NEW valid \in BOOLEAN
    PROVE  LET d == process_tool_use(c, id, input, stop, valid)
           IN  Good(d) /\ ToolsOK(d, {})
<1> DEFINE acc == IF input = "" /\ c.tools[id] # "partial" THEN "empty" ELSE "partial"
           now == IF stop THEN "none" ELSE acc
           b == flush_before_tool(c)
           c1 == [b EXCEPT !.has_tool_use = TRUE, !.tools[id] = now]
           e == emit_completed_tool_use(c1, id)
           x == [c1 EXCEPT !.tool_json_error = TRUE, !.stop_reason = "error"]
           d == process_tool_use(c, id, input, stop, valid)
<1>1. d = IF ~stop THEN c1 ELSE IF acc = "empty" \/ valid THEN e ELSE x
  BY DEF process_tool_use
<1>2. acc \in {"empty", "partial"}
  OBVIOUS
<1> HIDE DEF acc
<1>3. now \in {"none", "empty", "partial"} /\ (~stop => now # "none")
  BY <1>2
<1> HIDE DEF now, d
<1>4. Plain(c, b)
  BY PlainFlush DEF Good
<1> HIDE DEF b
<1>5. Good(b) /\ Toolless(c, b)
  BY <1>4, PlainKept DEF Kept
<1>6. ToolsOK(b, {id}) /\ id \in Tools /\ id \in b.called
  BY <1>5, ToollessOK DEF ToolsOK, Toolless, ToolFields
<1>7. /\ DOMAIN c1 = DOMAIN b /\ c1.has_tool_use = TRUE
      /\ \A f \in DOMAIN b \ {"has_tool_use", "tools"} : c1[f] = b[f]
      /\ c1.tools = [b.tools EXCEPT ![id] = now]
  BY <1>5 DEF Good, Sound, Fields
<1> HIDE DEF c1
<1>8. c1.out = b.out /\ c1.blocks = b.blocks /\ \A f \in Flags : c1[f] = b[f]
  BY <1>5, <1>7 DEF Good, Sound, Fields, Flags
<1>9. Good(c1)
  BY <1>5, <1>7, <1>8 DEF Good, Sound, FlagsOK, OpenThinking, IsOpen, Flags
<1>10. /\ c1.called = b.called /\ c1.tool_block_indices = b.tool_block_indices
       /\ c1.tool_json_error = b.tool_json_error /\ c1.stop_reason = b.stop_reason
  BY <1>5, <1>7 DEF Good, Sound, Fields
<1>11. ToolsOK(c1, {id}) /\ c1.tools[id] = now
  <2>1. c1.tools[id] = now /\ \A i \in Tools \ {id} : c1.tools[i] = b.tools[i]
    BY <1>6, <1>7 DEF ToolsOK
  <2>2. c1.tools = [i \in Tools |-> c1.tools[i]]
    BY <1>6, <1>7 DEF ToolsOK
  <2>3. Begun(c1) = Begun(b)
    BY <1>10 DEF Begun
  <2> QED
    BY <1>3, <1>6, <1>8, <1>10, <2>1, <2>2, <2>3 DEF ToolsOK
<1>12. CASE ~stop
  <2>1. ToolsOK(c1, {})
    BY <1>3, <1>11, <1>12 DEF ToolsOK
  <2> QED
    BY <1>1, <1>9, <1>12, <2>1 DEF d
<1>13. CASE stop /\ (acc = "empty" \/ valid)
  <2>1. Emits(c1, e) /\ ToolsOK(e, {id} \ {id})
    BY <1>6, <1>9, <1>10, <1>11, EmitTool, StreamAssumption DEF Good
  <2> HIDE DEF e
  <2>2. {id} \ {id} = {}
    OBVIOUS
  <2> QED
    BY <1>1, <1>9, <1>13, <2>1, <2>2, EmitsGood DEF d
<1>14. CASE stop /\ ~(acc = "empty" \/ valid)
  <2>1. /\ DOMAIN x = DOMAIN c1 /\ x.tool_json_error = TRUE /\ x.stop_reason = "error"
        /\ \A f \in DOMAIN c1 \ {"tool_json_error", "stop_reason"} : x[f] = c1[f]
    BY <1>9 DEF Good, Sound, Fields
  <2> HIDE DEF x
  <2>2. /\ x.out = c1.out /\ x.blocks = c1.blocks /\ x.called = c1.called /\ x.tools = c1.tools
        /\ x.tool_block_indices = c1.tool_block_indices /\ x.has_tool_use = c1.has_tool_use
        /\ \A f \in Flags : x[f] = c1[f]
    BY <1>9, <2>1 DEF Good, Sound, Fields, Flags
  <2>3. Good(x)
    BY <1>9, <2>1, <2>2 DEF Good, Sound, FlagsOK, OpenThinking, IsOpen, Flags
  <2>4. Begun(x) = Begun(c1)
    BY <2>2 DEF Begun
  <2>5. ToolsOK(x, {})
    BY <1>11, <2>1, <2>2, <2>4 DEF ToolsOK
  <2> QED
    BY <1>1, <1>14, <2>3, <2>5 DEF d
<1> QED
  BY <1>12, <1>13, <1>14

-----------------------------------------------------------------------------
(* The calls that are complete at the end. *)

IsEmitLoop(f, c, ids, n) ==
  f = [k \in 0 .. n |-> IF k = 0 THEN c ELSE emit_completed_tool_use(f[k - 1], ids[k])]

LEMMA EmitLoopExists ==
    ASSUME NEW c, NEW ids
    PROVE  \A n \in Nat : \E f : IsEmitLoop(f, c, ids, n)
<1> DEFINE S == {n \in Nat : \E f : IsEmitLoop(f, c, ids, n)}
<1>1. 0 \in S
  <2> DEFINE f == [k \in 0 .. 0 |-> c]
  <2>1. IsEmitLoop(f, c, ids, 0)
    BY DEF IsEmitLoop
  <2> QED
    BY <2>1
<1>2. ASSUME NEW n \in Nat, n \in S PROVE n + 1 \in S
  <2>1. PICK f : IsEmitLoop(f, c, ids, n)
    BY <1>2
  <2> DEFINE x == emit_completed_tool_use(f[n], ids[n + 1])
             g == [k \in 0 .. n + 1 |-> IF k = n + 1 THEN x ELSE f[k]]
  <2>2. \A k \in 0 .. n : g[k] = f[k]
    OBVIOUS
  <2>3. g[n + 1] = x
    OBVIOUS
  <2>4. \A k \in 0 .. n + 1 :
          g[k] = IF k = 0 THEN c ELSE emit_completed_tool_use(g[k - 1], ids[k])
    <3> SUFFICES ASSUME NEW k \in 0 .. n + 1
                 PROVE  g[k] = IF k = 0 THEN c ELSE emit_completed_tool_use(g[k - 1], ids[k])
      OBVIOUS
    <3> HIDE DEF g
    <3>1. CASE k = n + 1
      <4>1. k # 0 /\ k - 1 = n /\ g[k - 1] = f[n] /\ k - 1 \in 0 .. n
        BY <2>2, <3>1
      <4> QED
        BY <2>3, <3>1, <4>1
    <3>2. CASE k \in 0 .. n /\ k # 0
      <4>1. k - 1 \in 0 .. n /\ g[k - 1] = f[k - 1] /\ g[k] = f[k]
        BY <2>2, <3>2
      <4> QED
        BY <2>1, <3>2, <4>1 DEF IsEmitLoop
    <3>3. CASE k = 0
      BY <2>1, <2>2, <3>3 DEF IsEmitLoop
    <3> QED
      BY <3>1, <3>2, <3>3
  <2>5. IsEmitLoop(g, c, ids, n + 1)
    BY <2>4 DEF IsEmitLoop
  <2> QED
    BY <2>5
<1> QED
  BY <1>1, <1>2, NatSet

LEMMA EmitAllIs ==
    ASSUME NEW c, NEW ids, Len(ids) \in Nat
    PROVE  \E f : IsEmitLoop(f, c, ids, Len(ids)) /\ emit_all(c, ids) = f[Len(ids)]
<1> DEFINE g == CHOOSE f : IsEmitLoop(f, c, ids, Len(ids))
<1>1. IsEmitLoop(g, c, ids, Len(ids))
  BY EmitLoopExists
<1>2. emit_all(c, ids) = g[Len(ids)]
  BY DEF emit_all, IsEmitLoop
<1> QED
  BY <1>1, <1>2

LEMMA Listed ==
    ASSUME NEW S, IsFiniteSet(S)
    PROVE  /\ SetToSeq(S) \in [1 .. Cardinality(S) -> S] /\ Cardinality(S) \in Nat
           /\ Len(SetToSeq(S)) = Cardinality(S)
           /\ \A x \in S : \E k \in 1 .. Cardinality(S) : SetToSeq(S)[k] = x
<1> DEFINE n == Cardinality(S)
           f == SetToSeq(S)
<1>1. n \in Nat /\ ExistsBijection(1 .. n, S)
  BY FS_CardinalityType
<1>2. \E g \in [1 .. n -> S] : IsInjective(g)
  BY <1>1 DEF ExistsBijection, Bijection, Injection
<1>3. f \in [1 .. n -> S] /\ IsInjective(f)
  BY <1>2 DEF SetToSeq
<1> HIDE DEF f
<1>4. f \in Injection(1 .. n, S)
  BY <1>3 DEF Injection
<1>5. Cardinality(1 .. n) = n
  BY <1>1, FS_Interval
<1>6. f \in Surjection(1 .. n, S)
  BY <1>4, <1>5, FS_Injection
<1>7. \A x \in S : \E k \in 1 .. n : f[k] = x
  BY <1>6 DEF Surjection
<1>8. Len(f) = n
  BY <1>1, <1>3
<1> QED
  BY <1>1, <1>3, <1>7, <1>8 DEF f

\* The calls that waited are emitted one after the other, each of them once.
LEMMA EmitAll ==
    ASSUME NEW c, Sound(c), ToolsOK(c, {}), NEW ids, Len(ids) \in Nat,
           \A k \in 1 .. Len(ids) : ids[k] \in c.called
    PROVE  LET d == emit_all(c, ids)
           IN  Emits(c, d) /\ ToolsOK(d, {}) /\ \A k \in 1 .. Len(ids) : ids[k] \in Begun(d)
<1>1. PICK f : IsEmitLoop(f, c, ids, Len(ids)) /\ emit_all(c, ids) = f[Len(ids)]
  BY EmitAllIs
<1> DEFINE n == Len(ids)
           P(k, d) == /\ Emits(c, d) /\ ToolsOK(d, {})
                      /\ \A j \in 1 .. k : ids[j] \in Begun(d)
           S == {k \in Nat : k <= n => P(k, f[k])}
<1>2. 0 \in S
  <2>1. f[0] = c
    BY <1>1 DEF IsEmitLoop
  <2> QED
    BY <2>1, PlainSelf DEF Plain, Emits
<1>3. ASSUME NEW k \in Nat, k \in S PROVE k + 1 \in S
  <2> SUFFICES ASSUME k + 1 <= n PROVE P(k + 1, f[k + 1])
    OBVIOUS
  <2>1. P(k, f[k]) /\ k + 1 \in 1 .. n
    BY <1>3
  <2>2. f[k + 1] = emit_completed_tool_use(f[k], ids[k + 1])
    <3>1. k + 1 \in 0 .. n /\ k + 1 # 0 /\ (k + 1) - 1 = k
      OBVIOUS
    <3> QED
      BY <1>1, <3>1 DEF IsEmitLoop
  <2> DEFINE a == f[k]
             d == f[k + 1]
  <2>3. Sound(a) /\ ids[k + 1] \in a.called
    BY <2>1 DEF Emits, Moved
  <2>4. Emits(a, d) /\ ToolsOK(d, {} \ {ids[k + 1]}) /\ ids[k + 1] \in Begun(d)
    BY <2>1, <2>2, <2>3, EmitTool, StreamAssumption
  <2> HIDE DEF a, d
  <2>5. P(k, a)
    BY <2>1 DEF a
  <2>6. Emits(c, d)
    BY <2>4, <2>5, EmitsTwice
  <2>7. {} \ {ids[k + 1]} = {}
    OBVIOUS
  <2>8. \A j \in 1 .. k + 1 : ids[j] \in Begun(d)
    BY <2>4, <2>5 DEF Emits
  <2> QED
    BY <2>4, <2>6, <2>7, <2>8 DEF d
<1>4. Nat \subseteq S
  <2> HIDE DEF S
  <2> QED
    BY <1>2, <1>3, NatSet
<1>5. P(n, f[n])
  <2> HIDE DEF P
  <2> QED
    BY <1>4
<1> QED
  BY <1>1, <1>5

\* Unless the message ends in an error, every call has its block then.
AllBegun(c) == ~c.tool_json_error => c.called \subseteq Begun(c)

\* At the end of the upstream every call is emitted or the message ends in an error.
LEMMA FinishTools ==
    ASSUME NEW c, Good(c), ToolsOK(c, {})
    PROVE  LET d == finish_tools(c) IN Good(d) /\ ToolsOK(d, {}) /\ AllBegun(d)
<1>1. CASE c.tool_json_error
  BY <1>1 DEF finish_tools, AllBegun
<1>2. CASE ~c.tool_json_error /\ Pending(c, "partial") # {}
  <2> DEFINE d == [c EXCEPT !.tool_json_error = TRUE, !.stop_reason = "error"]
  <2>1. finish_tools(c) = d
    BY <1>2 DEF finish_tools
  <2>2. /\ DOMAIN d = DOMAIN c /\ d.tool_json_error = TRUE /\ d.stop_reason = "error"
        /\ \A f \in DOMAIN c \ {"tool_json_error", "stop_reason"} : d[f] = c[f]
    BY DEF Good, Sound, Fields
  <2> HIDE DEF d
  <2>3. /\ d.out = c.out /\ d.blocks = c.blocks /\ d.called = c.called /\ d.tools = c.tools
        /\ d.tool_block_indices = c.tool_block_indices /\ d.has_tool_use = c.has_tool_use
        /\ \A f \in Flags : d[f] = c[f]
    BY <2>2 DEF Good, Sound, Fields, Flags
  <2>4. Good(d)
    BY <2>2, <2>3 DEF Good, Sound, FlagsOK, OpenThinking, IsOpen, Flags
  <2>5. Begun(d) = Begun(c)
    BY <2>3 DEF Begun
  <2>6. ToolsOK(d, {})
    BY <2>2, <2>3, <2>5 DEF ToolsOK
  <2> QED
    BY <2>1, <2>2, <2>4, <2>6 DEF AllBegun
<1>3. CASE ~c.tool_json_error /\ Pending(c, "partial") = {}
  <2> DEFINE S == Pending(c, "empty")
             ids == SetToSeq(S)
             d == emit_all(c, ids)
  <2>1. finish_tools(c) = d
    BY <1>3 DEF finish_tools
  <2>2. IsFiniteSet(S)
    BY FS_Subset, StreamAssumption DEF Pending
  <2>3. S \subseteq c.called
    BY DEF Pending, ToolsOK
  <2>4. /\ Len(ids) \in Nat /\ \A k \in 1 .. Len(ids) : ids[k] \in S
        /\ \A x \in S : \E k \in 1 .. Len(ids) : ids[k] = x
    BY <2>2, Listed
  <2> HIDE DEF ids
  <2>5. Emits(c, d) /\ ToolsOK(d, {}) /\ \A k \in 1 .. Len(ids) : ids[k] \in Begun(d)
    BY <2>3, <2>4, EmitAll DEF Good
  <2> HIDE DEF d
  <2>6. S \subseteq Begun(d) /\ d.tools = c.tools /\ d.called = c.called
    BY <2>4, <2>5 DEF Emits
  <2>7. \A id \in Tools : c.tools[id] # "none" => id \in S
    BY <1>3 DEF ToolsOK, Pending
  <2>8. AllBegun(d)
    BY <2>5, <2>6, <2>7 DEF AllBegun, ToolsOK
  <2> QED
    BY <2>1, <2>5, <2>8, EmitsGood
<1> QED
  BY <1>1, <1>2, <1>3

-----------------------------------------------------------------------------
(* The end of the message. *)

\* The end behind the events o: message_delta, message_stop, and perhaps an error.
Closed(o, q, n, m) ==
  /\ n \in Nat /\ m \in {n + 2, n + 3} /\ DOMAIN o = 1 .. n /\ DOMAIN q = 1 .. m
  /\ \A k \in DOMAIN o : q[k] = o[k]
  /\ \A k \in n + 1 .. m : q[k].ix = NoBlock
  /\ q[n + 1].ev = "message_delta" /\ q[n + 2].ev = "message_stop"
  /\ m = n + 3 => q[n + 3].ev = "error"

\* BlocksWellFormed, of any sequence of events.
WellFormed(q) ==
  /\ \A k \in DOMAIN q :
       /\ q[k].ev = "content_block_start" =>
            q[k].ix = 1 + Cardinality({j \in 1 .. k - 1 : q[j].ev = "content_block_start"})
       /\ q[k].ev \in {"content_block_delta", "content_block_stop"} =>
            /\ \E j \in 1 .. k - 1 : q[j].ev = "content_block_start" /\ q[j].ix = q[k].ix
            /\ ~\E j \in 1 .. k - 1 : q[j].ev = "content_block_stop" /\ q[j].ix = q[k].ix
  /\ \A k \in DOMAIN q : q[k].ev = "message_delta" =>
       /\ ~\E j \in DOMAIN q \ {k} : q[j].ev = "message_delta"
       /\ k + 1 \in DOMAIN q /\ q[k + 1].ev = "message_stop"
       /\ \A j \in DOMAIN q : q[j].ix # NoBlock => j < k
       /\ \A j \in DOMAIN q : q[j].ev = "content_block_start" =>
            \E i \in j .. k : q[i].ev = "content_block_stop" /\ q[i].ix = q[j].ix

\* A message that is still open is well formed as far as it goes.
LEMMA SoundWellFormed ==
    ASSUME NEW o, NEW b, EventsOK(o, b)
    PROVE  WellFormed(o)
<1>1. \A k \in DOMAIN o : Ordered(o, k) /\ Addressed(o, k) /\ o[k].ev # "message_delta"
  BY DEF EventsOK
<1> QED
  BY <1>1 DEF WellFormed, Ordered, Addressed

\* Once every block is stopped, message_delta and message_stop complete the message.
LEMMA ClosedWellFormed ==
    ASSUME NEW o, NEW b, EventsOK(o, b), \A ix \in DOMAIN b : b[ix].stopped,
           NEW q, NEW n, NEW m, Closed(o, q, n, m)
    PROVE  WellFormed(q)
<1>1. \A k \in DOMAIN o : Ordered(q, k) /\ Addressed(q, k) /\ q[k].ev # "message_delta"
  BY Earlier DEF Closed
<1>2. \A k \in DOMAIN q : k \in DOMAIN o \/ k = n + 1 \/ k = n + 2 \/ k = n + 3
  BY DEF Closed
<1>3. \A k \in DOMAIN q \ DOMAIN o :
        q[k].ev \in {"message_delta", "message_stop", "error"} /\ q[k].ix = NoBlock
  BY <1>2 DEF Closed
<1>4. \A k \in DOMAIN q : Ordered(q, k) /\ Addressed(q, k)
  BY <1>1, <1>3 DEF Ordered, Addressed
<1>5. \A k \in DOMAIN q : q[k].ev = "message_delta" => k = n + 1
  BY <1>1, <1>2 DEF Closed
<1>6. n + 2 \in DOMAIN q /\ q[n + 2].ev = "message_stop"
  BY DEF Closed
<1>7. \A j \in DOMAIN q : q[j].ix # NoBlock => j < n + 1
  BY <1>3 DEF Closed
<1>8. ASSUME NEW j \in DOMAIN q, q[j].ev = "content_block_start"
      PROVE  \E i \in j .. n + 1 : q[i].ev = "content_block_stop" /\ q[i].ix = q[j].ix
  <2>1. j \in DOMAIN o /\ q[j] = o[j]
    BY <1>3, <1>8 DEF Closed
  <2>2. j \in Starts(o) /\ o[j].ix \in DOMAIN b
    BY <1>8, <2>1 DEF Starts, EventsOK, Records
  <2>3. PICK i \in Stops(o) : o[i].ix = o[j].ix
    BY <2>2 DEF EventsOK, Records
  <2>4. Addressed(o, i) /\ o[i].ev = "content_block_stop" /\ i \in 1 .. n
    BY DEF EventsOK, Stops, Closed
  <2>5. PICK s \in 1 .. i - 1 : o[s].ev = "content_block_start" /\ o[s].ix = o[i].ix
    BY <2>4 DEF Addressed
  <2>6. s \in Starts(o)
    BY <2>4, <2>5 DEF Starts, Closed
  <2>7. s = j
    BY <2>2, <2>3, <2>5, <2>6 DEF EventsOK, Records
  <2>8. i \in j .. n + 1 /\ q[i] = o[i]
    BY <2>1, <2>4, <2>5, <2>7 DEF Closed
  <2> QED
    BY <2>1, <2>3, <2>4, <2>8
<1>9. \A k \in DOMAIN q : q[k].ev = "message_delta" =>
       /\ ~\E j \in DOMAIN q \ {k} : q[j].ev = "message_delta"
       /\ k + 1 \in DOMAIN q /\ q[k + 1].ev = "message_stop"
       /\ \A j \in DOMAIN q : q[j].ix # NoBlock => j < k
       /\ \A j \in DOMAIN q : q[j].ev = "content_block_start" =>
            \E i \in j .. k : q[i].ev = "content_block_stop" /\ q[i].ix = q[j].ix
  <2> SUFFICES ASSUME NEW k \in DOMAIN q, q[k].ev = "message_delta"
               PROVE  /\ ~\E j \in DOMAIN q \ {k} : q[j].ev = "message_delta"
                      /\ k + 1 \in DOMAIN q /\ q[k + 1].ev = "message_stop"
                      /\ \A j \in DOMAIN q : q[j].ix # NoBlock => j < k
                      /\ \A j \in DOMAIN q : q[j].ev = "content_block_start" =>
                           \E i \in j .. k : q[i].ev = "content_block_stop" /\ q[i].ix = q[j].ix
    OBVIOUS
  <2>1. k = n + 1 /\ k + 1 = n + 2
    BY <1>5 DEF Closed
  <2> QED
    BY <1>5, <1>6, <1>7, <1>8, <2>1
<1> QED
  BY <1>4, <1>9 DEF WellFormed, Ordered, Addressed

\* What ToolCallsForwarded says of a context, and when the message is done.
Counted(c) == Cardinality(ToolStarts(c.out)) = Cardinality(Begun(c))

Announced(c) ==
  \A k \in DOMAIN c.out :
    c.out[k].ev = "message_delta" /\ c.out[k].what = "tool_use" => ToolStarts(c.out) # {}

Ended(c) == WellFormed(c.out) /\ Counted(c) /\ AllBegun(c) /\ Announced(c)

LEMMA ExtendedLen ==
    ASSUME NEW o, NEW e, NEW p, NEW n, Extends(o, e, p, n),
           NEW f, NEW q, NEW m, Extends(p, f, q, m)
    PROVE  m = n + 1
<1>1. n \in Nat /\ m \in Nat /\ 1 .. m = 1 .. n \cup {n + 1}
  BY DEF Extends
<1>2. m \in 1 .. n \cup {n + 1} \/ m = 0
  BY <1>1
<1>3. n + 1 \in 1 .. m
  BY <1>1
<1> QED
  BY <1>1, <1>2, <1>3

\* generate_final_events of the state manager: all blocks stopped, then the two last events.
LEMMA EndEffect ==
    ASSUME NEW c, Sound(c), ToolsOK(c, {}), AllBegun(c)
    PROVE  /\ Ended(manager_final_events(c))
           /\ Ended(Emit(manager_final_events(c), Event("error", NoBlock, "", << >>)))
<1> DEFINE ixs == {ix \in DOMAIN c.blocks : ~c.blocks[ix].stopped}
           a == StopAll(c, ixs)
           x == Event("message_delta", NoBlock, get_stop_reason(a), << >>)
           y == Event("message_stop", NoBlock, "", << >>)
           z == Event("error", NoBlock, "", << >>)
           d1 == Emit(a, x)
           d == Emit(d1, y)
           e == Emit(d, z)
           n == Len(a.out)
<1>1. d = manager_final_events(c)
  BY DEF manager_final_events, EndMessage
<1>2. /\ x.ev = "message_delta" /\ x.ix = NoBlock /\ x.what = get_stop_reason(a)
      /\ y.ev = "message_stop" /\ y.ix = NoBlock
      /\ z.ev = "error" /\ z.ix = NoBlock
  <2> HIDE DEF a
  <2>1. /\ x.ev = "message_delta" /\ x.ix = NoBlock /\ x.what = get_stop_reason(a)
    BY DEF Event
  <2>2. y.ev = "message_stop" /\ y.ix = NoBlock
    BY DEF Event
  <2>3. z.ev = "error" /\ z.ix = NoBlock
    BY DEF Event
  <2> QED
    BY <2>1, <2>2, <2>3
<1>3. /\ Sound(a) /\ Untouched(c, a) /\ ToolStarts(a.out) = ToolStarts(c.out)
      /\ DOMAIN a.blocks = DOMAIN c.blocks
      /\ \A k \in DOMAIN c.blocks \ ixs : a.blocks[k] = c.blocks[k]
      /\ \A k \in DOMAIN c.blocks \cap ixs : a.blocks[k].stopped
  BY StopAllEffect
<1>4. \A k \in DOMAIN a.blocks : a.blocks[k].stopped
  BY <1>3
<1> HIDE DEF ixs, a, x, y, z
<1>5. Toolless(c, a)
  BY <1>3, FrameToolless
<1>6. ToolsOK(a, {}) /\ AllBegun(a)
  BY <1>5, ToollessOK DEF AllBegun, Toolless, ToolFields
<1>7. /\ d1.out = Append(a.out, x) /\ Untouched(a, d1)
      /\ d.out = Append(d1.out, y) /\ Untouched(d1, d)
      /\ e.out = Append(d.out, z) /\ Untouched(d, e)
  BY <1>3, EmitEffect DEF Sound, Untouched
<1> HIDE DEF d1, d, e
<1>8. IsSeq(a.out) /\ EventsOK(a.out, a.blocks)
  BY <1>3 DEF Sound, EventsOK
<1>9. Extends(a.out, x, d1.out, n)
  BY <1>7, <1>8, AppendAny
<1>10. Extends(d1.out, y, d.out, n + 1)
  <2>1. Extends(d1.out, y, d.out, Len(d1.out))
    BY <1>7, <1>9, AppendAny DEF Extends
  <2>2. Len(d1.out) = n + 1
    BY <1>9, <2>1, ExtendedLen
  <2> QED
    BY <2>1, <2>2
<1>11. Extends(d.out, z, e.out, n + 2)
  <2>1. Extends(d.out, z, e.out, Len(d.out))
    <3>1. IsSeq(d.out)
      BY <1>10 DEF Extends
    <3> QED
      BY <1>7, <3>1, AppendAny
  <2>2. Len(d.out) = (n + 1) + 1
    BY <1>10, <2>1, ExtendedLen
  <2>3. n \in Nat
    BY <1>9 DEF Extends
  <2> QED
    BY <2>1, <2>2, <2>3
<1> HIDE DEF n
<1>12. Closed(a.out, d.out, n, n + 2)
  BY <1>2, <1>9, <1>10 DEF Closed, Extends
<1>13. Closed(a.out, e.out, n, n + 3)
  BY <1>2, <1>9, <1>10, <1>11 DEF Closed, Extends
<1>14. WellFormed(d.out) /\ WellFormed(e.out)
  BY <1>4, <1>8, <1>12, <1>13, ClosedWellFormed
<1>15. ToolStarts(d.out) = ToolStarts(a.out) /\ ToolStarts(e.out) = ToolStarts(a.out)
  <2>1. ToolStarts(d1.out) = ToolStarts(a.out)
    BY <1>2, <1>7, <1>8, ToolStartsAppend
  <2>2. ToolStarts(d.out) = ToolStarts(d1.out)
    BY <1>2, <1>7, <1>9, ToolStartsAppend DEF Extends
  <2>3. ToolStarts(e.out) = ToolStarts(d.out)
    BY <1>2, <1>7, <1>10, ToolStartsAppend DEF Extends
  <2> QED
    BY <2>1, <2>2, <2>3
<1>16. \A f \in ToolFields : d[f] = a[f] /\ e[f] = a[f]
  BY <1>3, <1>7 DEF Untouched, Sound, Fields, ToolFields
<1>17. Begun(d) = Begun(a) /\ Begun(e) = Begun(a)
  BY <1>16 DEF Begun, ToolFields
<1>18. Counted(d) /\ Counted(e)
  BY <1>6, <1>15, <1>17 DEF Counted, ToolsOK
<1>19. AllBegun(d) /\ AllBegun(e)
  BY <1>6, <1>16, <1>17 DEF AllBegun, ToolFields
<1>20. get_stop_reason(a) = "tool_use" => ToolStarts(a.out) # {}
  <2> SUFFICES ASSUME get_stop_reason(a) = "tool_use" PROVE ToolStarts(a.out) # {}
    OBVIOUS
  <2>1. a.stop_reason = "none" /\ a.has_tool_use
    BY <1>6 DEF get_stop_reason, ToolsOK
  <2>2. Begun(a) # {}
    BY <1>6, <2>1 DEF ToolsOK, AllBegun
  <2>3. IsFiniteSet(Begun(a))
    BY FS_Subset, StreamAssumption DEF Begun
  <2>4. Cardinality(Begun(a)) # 0
    BY <2>2, <2>3, FS_EmptySet
  <2> QED
    BY <1>6, <2>4, FS_EmptySet DEF ToolsOK
<1>21. \A k \in DOMAIN d.out : d.out[k].ev = "message_delta" => d.out[k].what = get_stop_reason(a)
  BY <1>2, <1>8, <1>9, <1>10 DEF Extends, EventsOK
<1>22. \A k \in DOMAIN e.out : e.out[k].ev = "message_delta" => e.out[k].what = get_stop_reason(a)
  BY <1>2, <1>11, <1>21 DEF Extends
<1>23. Announced(d) /\ Announced(e)
  BY <1>15, <1>20, <1>21, <1>22 DEF Announced
<1> QED
  BY <1>1, <1>14, <1>18, <1>19, <1>23 DEF Ended, e, z

\* What the end of the upstream flushes before the blocks are stopped.
LEMMA FlushAtEnd ==
    ASSUME NEW c, Good(c)
    PROVE  Sound(flush_at_end(c)) /\ Toolless(c, flush_at_end(c))
<1>1. CASE ~c.thinking_enabled \/ c.buf = << >>
  BY <1>1, PlainSelf DEF flush_at_end, Good, Plain
<1>2. CASE ~(~c.thinking_enabled \/ c.buf = << >>) /\ c.in_thinking_block
  <2> DEFINE a == create_thinking_delta_event(c, c.buf)
             b == CloseThinking(a)
             d == [b EXCEPT !.buf = << >>]
  <2>1. flush_at_end(c) = d
    BY <1>2 DEF flush_at_end
  <2>2. Sound(c) /\ OpenThinking(c)
    BY <1>2 DEF Good, FlagsOK
  <2>3. Plain(c, a)
    BY <2>2, ThinkingDelta
  <2> HIDE DEF a
  <2>4. SameFlags(a, b)
    BY <2>2, <2>3, OpenStays, ThinkingCloses
  <2> HIDE DEF b
  <2>5. Sound(b) /\ Toolless(c, b)
    BY <2>3, <2>4, ToollessTwice DEF SameFlags, Plain
  <2>6. Plain(b, d)
    BY <2>5, Assigned DEF Sound, Fields, Flags, ToolFields
  <2> HIDE DEF d
  <2> QED
    BY <2>1, <2>5, <2>6, ToollessTwice DEF Plain, Moved
<1>3. CASE ~(~c.thinking_enabled \/ c.buf = << >>) /\ ~c.in_thinking_block
  <2> DEFINE text == IF c.strip_text THEN TrimStart(c.buf) ELSE c.buf
             a == TextIfAny(c, text)
             d == [a EXCEPT !.buf = << >>]
  <2>1. flush_at_end(c) = d
    BY <1>3 DEF flush_at_end
  <2> HIDE DEF text
  <2>2. Plain(c, a)
    BY PlainText DEF Good
  <2> HIDE DEF a
  <2>3. Sound(a)
    BY <2>2 DEF Plain, Moved
  <2>4. Plain(a, d)
    BY <2>3, Assigned DEF Sound, Fields, Flags, ToolFields
  <2> HIDE DEF d
  <2> QED
    BY <2>1, <2>2, <2>4, PlainTwice DEF Plain, Moved
<1> QED
  BY <1>1, <1>2, <1>3

LEMMA OnlyThinking ==
    ASSUME NEW c, Sound(c)
    PROVE  Plain(c, only_thinking(c))
<1> DEFINE a == [c EXCEPT !.stop_reason = "max_tokens"]
<1>1. Plain(c, a)
  BY Assigned DEF Sound, Fields, Flags, ToolFields
<1> HIDE DEF a
<1>2. Plain(a, create_text_delta_events(a, << >>))
  BY <1>1, PlainText DEF Plain, Moved
<1>3. Plain(c, create_text_delta_events(a, << >>))
  BY <1>1, <1>2, PlainTwice
<1> QED
  BY <1>3, PlainSelf DEF only_thinking, a

\* generate_final_events as a whole: the message is complete and accounts for its calls.
LEMMA StreamEnds ==
    ASSUME NEW c, Good(c), ToolsOK(c, {}), NEW hold
    PROVE  Ended(generate_final_events(c, hold))
<1> DEFINE a == finish_tools(c)
           b == ProcessText([a EXCEPT !.held = << >>], a.held, hold)
           d == close_reasoning_if_open(b)
           e == only_thinking(flush_at_end(d))
           r == IF d.tool_json_error
                THEN Emit(manager_final_events(d), Event("error", NoBlock, "", << >>))
                ELSE manager_final_events(e)
<1>1. generate_final_events(c, hold) = r
  BY DEF generate_final_events
<1>2. Good(a) /\ ToolsOK(a, {}) /\ AllBegun(a)
  BY FinishTools
<1> HIDE DEF a
<1>3. Kept(a, b)
  BY <1>2, KeptHeld
<1> HIDE DEF b
<1>4. Kept(b, d)
  BY <1>3, KeptCloseReasoning DEF Kept
<1> HIDE DEF d
<1>5. Good(d) /\ Toolless(a, d)
  BY <1>3, <1>4, KeptTwice DEF Kept
<1>6. ToolsOK(d, {}) /\ AllBegun(d)
  BY <1>2, <1>5, ToollessOK DEF AllBegun, Toolless, ToolFields
<1>7. Sound(e) /\ Toolless(d, e)
  BY <1>5, FlushAtEnd, OnlyThinking, ToollessTwice DEF Plain, Moved
<1> HIDE DEF e
<1>8. ToolsOK(e, {}) /\ AllBegun(e)
  BY <1>6, <1>7, ToollessOK DEF AllBegun, Toolless, ToolFields
<1> QED
  BY <1>1, <1>5, <1>6, <1>7, <1>8, EndEffect DEF Good

-----------------------------------------------------------------------------
(* The stream as a whole. *)

\* After the initial events the message is open and calls no tool.
LEMMA StreamStarts ==
    ASSUME NEW t \in BOOLEAN
    PROVE  /\ Good(generate_initial_events(NewContext(t)))
           /\ ToolsOK(generate_initial_events(NewContext(t)), {})
<1> DEFINE c == NewContext(t)
           x == Event("message_start", NoBlock, "", << >>)
           a == Emit(c, x)
           b == handle_content_block_start(a, "text")
           d == [b EXCEPT !.text_block_index = 1]
           r == generate_initial_events(c)
<1>1. r = IF c.thinking_enabled THEN a ELSE d
  <2> HIDE DEF c
  <2> QED
    BY Zenon DEF generate_initial_events
<1>2. x.ev = "message_start"
  BY DEF Event
<1>3. /\ Fields \subseteq DOMAIN c /\ c.out = << >> /\ c.blocks = << >>
      /\ c.in_thinking_block = FALSE /\ c.reasoning_block_open = FALSE
      /\ c.tools = [id \in Tools |-> "none"] /\ c.tool_block_indices = [id \in Tools |-> NoBlock]
      /\ c.called = {} /\ c.tool_json_error = FALSE /\ c.stop_reason = "none"
      /\ c.has_tool_use = FALSE
  BY DEF NewContext, Fields
<1> HIDE DEF c, x
<1>4. Starts(c.out) = {} /\ Stops(c.out) = {} /\ ToolStarts(c.out) = {}
  BY <1>3 DEF Starts, Stops, ToolStarts
<1>5. EventsOK(c.out, c.blocks)
  <2>1. IsSeq(c.out) /\ c.blocks \in Seq(BlockType) /\ DOMAIN c.out = {} /\ DOMAIN c.blocks = {}
    <3>1. << >> \in Seq(BlockType) /\ DOMAIN << >> = {}
      OBVIOUS
    <3> QED
      BY <1>3, <3>1 DEF IsSeq
  <2>2. Records(c.out, c.blocks)
    BY <1>3, <1>4, <2>1, FS_EmptySet DEF Records
  <2> QED
    BY <2>1, <2>2 DEF EventsOK
<1>6. a.out = Append(c.out, x) /\ a.blocks = c.blocks /\ Untouched(c, a)
  BY <1>3, EmitEffect
<1> HIDE DEF a
<1>7. Sound(a)
  <2>1. EventsOK(Append(c.out, x), c.blocks)
    BY <1>2, <1>5, Unaddressed
  <2>2. EventsOK(a.out, a.blocks)
    BY <2>1, <1>6
  <2>3. Fields \subseteq DOMAIN a
    BY <1>3, <1>6 DEF Untouched
  <2> QED
    BY <2>2, <2>3 DEF Sound
<1>8. ToolStarts(a.out) = {}
  BY <1>2, <1>4, <1>5, <1>6, ToolStartsAppend DEF EventsOK
<1>9. /\ a.in_thinking_block = FALSE /\ a.reasoning_block_open = FALSE
      /\ a.tools = [id \in Tools |-> "none"] /\ a.tool_block_indices = [id \in Tools |-> NoBlock]
      /\ a.called = {} /\ a.tool_json_error = FALSE /\ a.stop_reason = "none"
      /\ a.has_tool_use = FALSE
  BY <1>3, <1>6 DEF Untouched, Fields
<1>10. Good(a)
  BY <1>7, <1>9 DEF Good, FlagsOK
<1>11. ToolsOK(a, {})
  <2>1. Begun(a) = {}
    BY <1>9 DEF Begun
  <2> QED
    BY <1>8, <1>9, <2>1, FS_EmptySet DEF ToolsOK
<1>12. Plain(a, b)
  BY <1>7, PlainStart
<1> HIDE DEF b
<1>13. Sound(b)
  BY <1>12 DEF Plain, Moved
<1>14. Plain(b, d)
  BY <1>13, Assigned DEF Sound, Fields, Flags, ToolFields
<1> HIDE DEF d
<1>15. Plain(a, d)
  BY <1>12, <1>14, PlainTwice
<1>16. Good(d) /\ ToolsOK(d, {})
  BY <1>10, <1>11, <1>15, PlainKept, ToollessOK DEF Kept
<1> QED
  BY <1>1, <1>10, <1>11, <1>16 DEF c

\* Nothing was sent, the message is open, or it is complete.
StreamInv ==
  /\ phase \in {"waiting", "streaming", "done"}
  /\ phase = "waiting" => \E t \in BOOLEAN : ctx = NewContext(t)
  /\ phase = "streaming" => Good(ctx) /\ ToolsOK(ctx, {})
  /\ phase = "done" => Ended(ctx)

\* No upstream event breaks the message.
LEMMA EventsKept ==
    ASSUME Good(ctx), ToolsOK(ctx, {}), AssistantResponse \/ ToolUse \/ ReasoningContent \/ Limit
    PROVE  Good(ctx') /\ ToolsOK(ctx', {})
<1>1. ASSUME NEW d, Kept(ctx, d) PROVE ToolsOK(d, {})
  BY <1>1, ToollessOK DEF Kept
<1>2. CASE AssistantResponse
  <2>1. PICK shape \in Chunks, hold \in 1 .. MaxHold, keep \in BOOLEAN :
          LET content == Number(shape, Words(ctx.input))
              cut == IF keep /\ IsText(Last(content)) THEN Len(content) - 1 ELSE Len(content)
              c == [ctx EXCEPT !.input = @ \o content]
          IN Process(process_assistant_response(close_reasoning_if_open(c),
                       SubSeq(content, 1, cut), DropFirst(content, cut), hold))
    BY <1>2 DEF AssistantResponse
  <2> DEFINE content == Number(shape, Words(ctx.input))
             cut == IF keep /\ IsText(Last(content)) THEN Len(content) - 1 ELSE Len(content)
             c == [ctx EXCEPT !.input = @ \o content]
             now == SubSeq(content, 1, cut)
             held == DropFirst(content, cut)
             a == close_reasoning_if_open(c)
  <2>2. ctx' = ProcessText([a EXCEPT !.held = held], a.held \o now, hold)
    BY <2>1 DEF Process, process_assistant_response
  <2> HIDE DEF content, now, held
  <2>3. Plain(ctx, c)
    BY Assigned DEF Good, Sound, Fields, Flags, ToolFields
  <2> HIDE DEF c
  <2>4. Kept(ctx, c)
    BY <2>3, PlainKept
  <2>5. Kept(c, a)
    BY <2>4, KeptCloseReasoning DEF Kept
  <2> HIDE DEF a
  <2>6. Kept(a, ctx')
    BY <2>2, <2>5, KeptHeld DEF Kept
  <2> QED
    BY <1>1, <2>4, <2>5, <2>6, KeptTwice DEF Kept
<1>3. CASE ToolUse
  <2>1. PICK id \in Tools, input \in {"", "piece"}, stop \in BOOLEAN, valid \in BOOLEAN :
          Process(process_tool_use(
                    close_reasoning_if_open([ctx EXCEPT !.called = @ \cup {id}]),
                    id, input, stop, valid))
    BY <1>3 DEF ToolUse
  <2> DEFINE c == [ctx EXCEPT !.called = @ \cup {id}]
             a == close_reasoning_if_open(c)
  <2>2. ctx' = process_tool_use(a, id, input, stop, valid)
    BY <2>1 DEF Process
  <2>3. /\ DOMAIN c = DOMAIN ctx /\ c.called = ctx.called \cup {id}
        /\ \A f \in DOMAIN ctx \ {"called"} : c[f] = ctx[f]
    BY DEF Good, Sound, Fields
  <2> HIDE DEF c
  <2>4. /\ c.out = ctx.out /\ c.blocks = ctx.blocks /\ c.tools = ctx.tools
        /\ c.tool_block_indices = ctx.tool_block_indices /\ c.has_tool_use = ctx.has_tool_use
        /\ c.tool_json_error = ctx.tool_json_error /\ c.stop_reason = ctx.stop_reason
        /\ \A f \in Flags : c[f] = ctx[f]
    BY <2>3 DEF Good, Sound, Fields, Flags
  <2>5. Good(c)
    BY <2>3, <2>4 DEF Good, Sound, FlagsOK, OpenThinking, IsOpen, Flags
  <2>6. Begun(c) = Begun(ctx)
    BY <2>4 DEF Begun
  <2>7. ToolsOK(c, {id}) /\ id \in c.called
    BY <2>3, <2>4, <2>6 DEF ToolsOK
  <2>8. Kept(c, a)
    BY <2>5, KeptCloseReasoning
  <2> HIDE DEF a
  <2>9. Good(a) /\ ToolsOK(a, {id}) /\ id \in a.called
    BY <2>7, <2>8, ToollessOK DEF Kept, Toolless, ToolFields
  <2> QED
    BY <2>2, <2>9, ToolUseStep
<1>4. CASE ReasoningContent
  <2>1. PICK kind \in {"text", "empty", "redacted"} :
          Process(IF ctx.thinking_enabled
                  THEN [process_reasoning_content(ctx, kind) EXCEPT !.reasoned = TRUE] ELSE ctx)
    BY <1>4 DEF ReasoningContent
  <2> DEFINE a == process_reasoning_content(ctx, kind)
             d == [a EXCEPT !.reasoned = TRUE]
  <2>2. ctx' = d \/ ctx' = ctx
    BY <2>1 DEF Process
  <2>3. Kept(ctx, a)
    BY KeptReasoning
  <2> HIDE DEF a
  <2>4. Plain(a, d)
    BY <2>3, Assigned DEF Kept, Good, Sound, Fields, Flags, ToolFields
  <2> HIDE DEF d
  <2>5. Kept(a, d)
    BY <2>3, <2>4, PlainKept DEF Kept
  <2> QED
    BY <1>1, <2>2, <2>3, <2>5, KeptTwice DEF Kept
<1>5. CASE Limit
  <2>1. PICK reason \in {"max_tokens", "model_context_window_exceeded"} :
          ctx' = [ctx EXCEPT !.stop_reason = reason]
    BY <1>5 DEF Limit, Process
  <2>2. Plain(ctx, ctx')
    BY <2>1, Assigned DEF Good, Sound, Fields, Flags, ToolFields
  <2> QED
    BY <1>1, <2>2, PlainKept DEF Kept
<1> QED
  BY <1>2, <1>3, <1>4, <1>5

LEMMA StreamInvInit == Init => StreamInv
BY DEF Init, StreamInv

LEMMA StreamInvNext == StreamInv /\ [Next]_vars => StreamInv'
<1> SUFFICES ASSUME StreamInv, [Next]_vars PROVE StreamInv'
  OBVIOUS
<1>1. CASE FirstChunk
  BY <1>1, StreamStarts DEF FirstChunk, StreamInv
<1>2. CASE AssistantResponse \/ ToolUse \/ ReasoningContent \/ Limit
  <2>1. phase = "streaming" /\ phase' = phase
    BY <1>2 DEF AssistantResponse, ToolUse, ReasoningContent, Limit, Process
  <2> QED
    BY <1>2, <2>1, EventsKept DEF StreamInv
<1>3. CASE End
  <2> DEFINE c == IF phase = "waiting" THEN generate_initial_events(ctx) ELSE ctx
  <2>1. Good(c) /\ ToolsOK(c, {})
    BY <1>3, StreamStarts DEF StreamInv, End
  <2>2. (\E hold \in 1 .. MaxHold : ctx' = generate_final_events(c, hold)) /\ phase' = "done"
    BY <1>3 DEF End
  <2> HIDE DEF c
  <2>3. Ended(ctx')
    BY <2>1, <2>2, StreamEnds
  <2> QED
    BY <2>2, <2>3 DEF StreamInv
<1>4. CASE UNCHANGED vars
  BY <1>4 DEF StreamInv, vars, Good, Sound, FlagsOK, OpenThinking, IsOpen, ToolsOK, Begun, Ended,
     Counted, AllBegun, Announced
<1> QED
  BY <1>1, <1>2, <1>3, <1>4 DEF Next, Done

LEMMA StreamInvariant == Spec => []StreamInv
BY StreamInvInit, StreamInvNext, PTL DEF Spec

\* A client can assemble the message, whatever the upstream sends and wherever it breaks off:
\* blocks start in order, deltas and the only stop of a block come while it is open, and
\* message_delta comes once, behind the stops of all of them, with message_stop right after it
\* (SseStateManager and the thinking deltas that go past it, anthropic/stream.rs).
THEOREM BlocksTheorem == Spec => []BlocksWellFormed
<1>1. StreamInv => BlocksWellFormed
  <2> SUFFICES ASSUME StreamInv PROVE WellFormed(ctx.out)
    BY DEF WellFormed, BlocksWellFormed, At, Sent
  <2>1. CASE phase = "waiting"
    <3>1. ctx.out = << >>
      BY <2>1 DEF StreamInv, NewContext
    <3> QED
      BY <3>1 DEF WellFormed
  <2>2. CASE phase = "streaming"
    BY <2>2, SoundWellFormed DEF StreamInv, Good, Sound
  <2>3. CASE phase = "done"
    BY <2>3 DEF StreamInv, Ended
  <2> QED
    BY <2>1, <2>2, <2>3 DEF StreamInv
<1> QED
  BY <1>1, StreamInvariant, PTL

\* Every complete tool call is forwarded and once, a broken one never: unless the message ends
\* in an error, each tool the upstream called has its block, and a message that stops for
\* tool_use has one (ToolJsonAccumulator and emit_completed_tool_use, anthropic/stream.rs).
THEOREM ToolCallsTheorem == Spec => []ToolCallsForwarded
<1>1. StreamInv => ToolCallsForwarded
  <2> SUFFICES ASSUME StreamInv
               PROVE  /\ Counted(ctx)
                      /\ phase = "done" => AllBegun(ctx)
                      /\ Announced(ctx)
    <3>1. {k \in Sent : At(k).ev = "content_block_start" /\ At(k).what = "tool_use"} = ToolStarts(ctx.out)
      BY DEF Sent, At, ToolStarts, Starts
    <3>2. {id \in Tools : ctx.tool_block_indices[id] # NoBlock} = Begun(ctx)
      BY DEF Begun
    <3> QED
      BY <3>1, <3>2 DEF ToolCallsForwarded, Counted, AllBegun, Announced, Begun, At, Sent
  <2>1. CASE phase = "waiting"
    <3>1. ctx.out = << >> /\ ctx.tool_block_indices = [id \in Tools |-> NoBlock]
      BY <2>1 DEF StreamInv, NewContext
    <3>2. ToolStarts(ctx.out) = {} /\ Begun(ctx) = {} /\ DOMAIN ctx.out = {}
      BY <3>1 DEF ToolStarts, Starts, Begun
    <3> QED
      BY <2>1, <3>2 DEF Counted, Announced
  <2>2. CASE phase = "streaming"
    BY <2>2 DEF StreamInv, Good, Sound, EventsOK, ToolsOK, Counted, Announced
  <2>3. CASE phase = "done"
    BY <2>3 DEF StreamInv, Ended
  <2> QED
    BY <2>1, <2>2, <2>3 DEF StreamInv
<1> QED
  BY <1>1, StreamInvariant, PTL

-----------------------------------------------------------------------------
(***************************************************************************)
(* The conversion of requests (anthropic/converter.rs).                    *)
(***************************************************************************)
LEMMA SameOperators ==
    /\ \A S : V!Cardinality(S) = Cardinality(S)
    /\ \A s, I : V!Pick(s, I) = Pick(s, I)
    /\ \A ss : V!FlattenSeq(ss) = FlattenSeq(ss)
    /\ \A s : V!ToSet(s) = ToSet(s)
<1>1. \A S : V!Cardinality(S) = Cardinality(S)
  BY DEF V!Cardinality, Cardinality
<1>2. \A s, I : V!Pick(s, I) = Pick(s, I)
  BY DEF V!Pick, Pick
<1>3. \A ss : V!FlattenSeq(ss) = FlattenSeq(ss)
  BY DEF V!FlattenSeq, FlattenSeq
<1>4. \A s : V!ToSet(s) = ToSet(s)
  BY DEF V!ToSet, ToSet
<1> QED
  BY <1>1, <1>2, <1>3, <1>4

\* The bodies of the loops over results, tools, blocks and messages.
PairStep(acc, r) ==
  IF r.id \in acc.orphans
  THEN [results |-> Append(acc.results, r), orphans |-> acc.orphans \ {r.id}]
  ELSE acc

ToolStep(acc, name) ==
  IF req.mode = "ClaudeCode" /\ name = "fs_append" THEN acc
  ELSE V!WithTool(acc.tools, V!map_client_tool_name_to_kiro(name, acc.map, req.mode))

Step(loop, p, acc, x) ==
  IF loop = "pair" THEN PairStep(acc, x)
  ELSE IF loop = "tools" THEN ToolStep(acc, x)
  ELSE IF loop = "user" THEN V!process_block(acc, x, p)
  ELSE IF loop = "assistant" THEN V!convert_assistant_block(acc, x)
  ELSE V!buffer_message(acc, x)

IsLoop(f, loop, p, a, s, n) ==
  f = [k \in 0 .. n |-> IF k = 0 THEN a ELSE Step(loop, p, f[k - 1], s[k])]

\* Each loop is a function: its value at a step follows from the one before.
LEMMA LoopExists ==
    ASSUME NEW loop, NEW p, NEW a, NEW s
    PROVE  \A n \in Nat : \E f : IsLoop(f, loop, p, a, s, n)
<1> DEFINE S == {n \in Nat : \E f : IsLoop(f, loop, p, a, s, n)}
<1>1. 0 \in S
  <2> DEFINE f == [k \in 0 .. 0 |-> a]
  <2>1. IsLoop(f, loop, p, a, s, 0)
    BY DEF IsLoop
  <2> QED
    BY <2>1
<1>2. ASSUME NEW n \in Nat, n \in S PROVE n + 1 \in S
  <2>1. PICK f : IsLoop(f, loop, p, a, s, n)
    BY <1>2
  <2> DEFINE x == Step(loop, p, f[n], s[n + 1])
             g == [k \in 0 .. n + 1 |-> IF k = n + 1 THEN x ELSE f[k]]
  <2>2. \A k \in 0 .. n : g[k] = f[k]
    OBVIOUS
  <2>3. g[n + 1] = x
    OBVIOUS
  <2>4. \A k \in 0 .. n + 1 : g[k] = IF k = 0 THEN a ELSE Step(loop, p, g[k - 1], s[k])
    <3> SUFFICES ASSUME NEW k \in 0 .. n + 1
                 PROVE  g[k] = IF k = 0 THEN a ELSE Step(loop, p, g[k - 1], s[k])
      OBVIOUS
    <3> HIDE DEF g
    <3>1. CASE k = n + 1
      <4>1. k # 0 /\ k - 1 = n /\ g[k - 1] = f[n] /\ k - 1 \in 0 .. n
        BY <2>2, <3>1
      <4> QED
        BY <2>3, <3>1, <4>1
    <3>2. CASE k \in 0 .. n /\ k # 0
      <4>1. k - 1 \in 0 .. n /\ g[k - 1] = f[k - 1] /\ g[k] = f[k]
        BY <2>2, <3>2
      <4> QED
        BY <2>1, <3>2, <4>1 DEF IsLoop
    <3>3. CASE k = 0
      BY <2>1, <2>2, <3>3 DEF IsLoop
    <3> QED
      BY <3>1, <3>2, <3>3
  <2>5. IsLoop(g, loop, p, a, s, n + 1)
    BY <2>4 DEF IsLoop
  <2> QED
    BY <2>5
<1> QED
  BY <1>1, <1>2, NatSet

-----------------------------------------------------------------------------
(* Calls and results *)

LEMMA AppendSet ==
    ASSUME NEW T, NEW s \in Seq(T), NEW x
    PROVE  /\ Append(s, x) \in Seq(T \cup {x})
           /\ V!ToSet(Append(s, x)) = V!ToSet(s) \cup {x}
<1>1. Len(s) \in Nat /\ DOMAIN s = 1 .. Len(s)
  OBVIOUS
<1>2. s \in Seq(T \cup {x})
  OBVIOUS
<1>3. /\ Append(s, x) \in Seq(T \cup {x}) /\ Len(Append(s, x)) = Len(s) + 1
      /\ \A k \in 1 .. Len(s) : Append(s, x)[k] = s[k]
      /\ Append(s, x)[Len(s) + 1] = x
  BY <1>2
<1>4. DOMAIN Append(s, x) = 1 .. Len(s) + 1
  BY <1>3
<1> DEFINE t == Append(s, x)
<1>5. 1 .. Len(s) + 1 = (1 .. Len(s)) \cup {Len(s) + 1}
  BY <1>1
<1> HIDE DEF t
<1>6. {t[i] : i \in DOMAIN t} = {s[i] : i \in DOMAIN s} \cup {x}
  BY <1>1, <1>3, <1>4, <1>5 DEF t
<1> QED
  BY <1>3, <1>6 DEF t, V!ToSet

Unanswered(h) == V!Ids(V!UsesOf(h)) \ V!Ids(V!ResultsOf(h))

IdsIn(rs) == V!Ids(V!ToSet(rs))

\* The results that were kept answer different calls, and what they answer is not open any more.
PairedSoFar(acc, open, T) ==
  /\ acc.results \in Seq(T)
  /\ acc.orphans = open \ IdsIn(acc.results)
  /\ IdsIn(acc.results) \subseteq open
  /\ IsFiniteSet(IdsIn(acc.results))
  /\ Cardinality(IdsIn(acc.results)) = Len(acc.results)

LEMMA PairStepKeeps ==
    ASSUME NEW open, NEW T, NEW acc, PairedSoFar(acc, open, T), NEW r \in T
    PROVE  PairedSoFar(PairStep(acc, r), open, T)
<1>1. CASE r.id \notin acc.orphans
  BY <1>1 DEF PairStep
<1>2. CASE r.id \in acc.orphans
  <2> DEFINE rs == acc.results
             b == PairStep(acc, r)
  <2>1. b.results = Append(rs, r) /\ b.orphans = acc.orphans \ {r.id}
    BY <1>2 DEF PairStep
  <2>2. rs \in Seq(T)
    BY DEF PairedSoFar
  <2>3. V!ToSet(Append(rs, r)) = V!ToSet(rs) \cup {r}
    BY <2>2, AppendSet
  <2>4. IdsIn(b.results) = IdsIn(rs) \cup {r.id}
    BY <2>1, <2>3 DEF IdsIn, V!Ids
  <2>5. r.id \notin IdsIn(rs) /\ r.id \in open
    BY <1>2 DEF PairedSoFar
  <2>6. /\ IsFiniteSet(IdsIn(b.results))
        /\ Cardinality(IdsIn(b.results)) = Cardinality(IdsIn(rs)) + 1
    <3>1. IsFiniteSet(IdsIn(rs)) /\ r.id \notin IdsIn(rs)
      BY <2>5 DEF PairedSoFar
    <3> HIDE DEF b, rs
    <3> QED
      BY <2>4, <3>1, FS_AddElement
  <2>7. b.results \in Seq(T) /\ Len(b.results) = Len(rs) + 1
    BY <2>1, <2>2
  <2>8. /\ acc.orphans = open \ IdsIn(rs) /\ IdsIn(rs) \subseteq open
        /\ Cardinality(IdsIn(rs)) = Len(rs)
    BY DEF PairedSoFar
  <2> HIDE DEF b, rs
  <2>9. b.orphans = open \ IdsIn(b.results) /\ IdsIn(b.results) \subseteq open
    BY <2>1, <2>4, <2>5, <2>8
  <2>10. Cardinality(IdsIn(b.results)) = Len(b.results)
    BY <2>6, <2>7, <2>8
  <2>11. PairedSoFar(b, open, T)
    BY <2>6, <2>7, <2>9, <2>10 DEF PairedSoFar
  <2> QED
    BY <2>11 DEF b
<1> QED
  BY <1>1, <1>2

LEMMA PairingEffect ==
    ASSUME NEW h, NEW T, NEW rs \in Seq(T)
    PROVE  PairedSoFar(V!validate_tool_pairing(h, rs), Unanswered(h), T)
<1> DEFINE L == Len(rs)
           a == [results |-> << >>, orphans |-> Unanswered(h)]
           f == CHOOSE f : f = [k \in 0 .. L |->
                  IF k = 0
                  THEN [results |-> << >>,
                        orphans |-> V!Ids(V!UsesOf(h)) \ V!Ids(V!ResultsOf(h))]
                  ELSE IF rs[k].id \in f[k - 1].orphans
                       THEN [results |-> Append(f[k - 1].results, rs[k]),
                             orphans |-> f[k - 1].orphans \ {rs[k].id}]
                       ELSE f[k - 1]]
           S == {n \in Nat : n <= L => PairedSoFar(f[n], Unanswered(h), T)}
<1>1. L \in Nat /\ \A k \in 1 .. L : rs[k] \in T
  OBVIOUS
<1>2. V!validate_tool_pairing(h, rs) = f[L]
  BY DEF V!validate_tool_pairing
<1>3. IsLoop(f, "pair", 0, a, rs, L)
  <2>1. PICK g : IsLoop(g, "pair", 0, a, rs, L)
    BY <1>1, LoopExists
  <2> QED
    BY <2>1 DEF IsLoop, Step, PairStep, Unanswered
<1> HIDE DEF f
<1>4. f[0] = a /\ \A k \in 1 .. L : f[k] = PairStep(f[k - 1], rs[k])
  BY <1>1, <1>3 DEF IsLoop, Step
<1>5. 0 \in S
  <2>1. a.results \in Seq(T) /\ V!ToSet(a.results) = {} /\ Len(a.results) = 0
    BY DEF V!ToSet
  <2>2. IdsIn(a.results) = {}
    BY <2>1 DEF IdsIn, V!Ids
  <2>3. IsFiniteSet(IdsIn(a.results)) /\ Cardinality(IdsIn(a.results)) = Len(a.results)
    BY <2>1, <2>2, FS_EmptySet
  <2>4. a.orphans = Unanswered(h) \ IdsIn(a.results) /\ IdsIn(a.results) \subseteq Unanswered(h)
    BY <2>2
  <2> HIDE DEF a
  <2> QED
    BY <1>4, <2>1, <2>3, <2>4 DEF PairedSoFar
<1>6. \A n \in Nat : n \in S => n + 1 \in S
  <2> HIDE DEF L, a
  <2> SUFFICES ASSUME NEW n \in Nat, n <= L => PairedSoFar(f[n], Unanswered(h), T), n + 1 <= L
               PROVE  PairedSoFar(f[n + 1], Unanswered(h), T)
    OBVIOUS
  <2>1. n <= L /\ n + 1 \in 1 .. L /\ (n + 1) - 1 = n
    BY <1>1
  <2> QED
    BY <1>1, <1>4, <2>1, PairStepKeeps
<1>7. Nat \subseteq S
  <2> HIDE DEF S
  <2> QED
    BY <1>5, <1>6, NatSet
<1> QED
  BY <1>1, <1>2, <1>7

-----------------------------------------------------------------------------
(* Content *)

\* A text of the client is a number, which no text of the converter is.
Numbered(T) == \A b \in T : b.type = "text" => b.text \in 1 .. 999

\* A message: the assistant shows no images and has no results.
Said(T) ==
  {m \in [role : {"user", "assistant"}, content : Seq(T)] :
     m.role = "assistant" => \A b \in V!ToSet(m.content) : b.type \notin {"image", "tool_result"}}

Conversation(ms) == \E T : Numbered(T) /\ ms \in Seq(Said(T))

\* The client's texts and the placeholders for images.
Texts == -1 .. 999

Collected(acc) ==
  /\ {"text", "images", "results", "seen", "err"} \subseteq DOMAIN acc
  /\ acc.text \in Seq(Texts)
  /\ IsSeq(acc.results)

LEMMA ImageKeeps ==
    ASSUME NEW acc, Collected(acc), NEW image, NEW dedup
    PROVE  /\ Collected(V!extract_kiro_image(acc, image, dedup).acc)
           /\ V!extract_kiro_image(acc, image, dedup).text \in Seq(Texts)
<1> DEFINE x == V!extract_kiro_image(acc, image, dedup)
           sent == [acc EXCEPT !.images = Append(@, image), !.seen = @ \cup {image},
                               !.err = @ \/ image \in BrokenImages]
<1>1. /\ x.acc \in {acc, sent}
      /\ x.text \in {<< >>, <<-1>>}
  <2> HIDE DEF sent
  <2>1. x = IF image \in BadImages \cup {Null} THEN [acc |-> acc, text |-> << >>]
            ELSE IF dedup /\ image \in acc.seen THEN [acc |-> acc, text |-> <<-1>>]
            ELSE [acc |-> sent, text |-> << >>]
    BY DEF V!extract_kiro_image, V!Omitted, sent
  <2> HIDE DEF x
  <2> QED
    BY <2>1
<1>2. sent.text = acc.text /\ sent.results = acc.results /\ DOMAIN sent = DOMAIN acc
  BY DEF Collected
<1>3. Collected(sent)
  <2> HIDE DEF sent
  <2> QED
    BY <1>2 DEF Collected
<1>4. << >> \in Seq(Texts) /\ <<-1>> \in Seq(Texts)
  BY DEF Texts
<1> HIDE DEF sent, x
<1> QED
  BY <1>1, <1>3, <1>4 DEF x

LEMMA BlockKeeps ==
    ASSUME NEW acc, Collected(acc), NEW b, b.type = "text" => b.text \in 1 .. 999, NEW dedup
    PROVE  Collected(V!process_block(acc, b, dedup))
<1> DEFINE x == V!extract_kiro_image(acc, b.image, dedup)
           d == V!process_block(acc, b, dedup)
<1>1. Collected(x.acc) /\ x.text \in Seq(Texts)
  BY ImageKeeps
<1> HIDE DEF x
<1>2. CASE b.type = "text"
  <2>1. d = [acc EXCEPT !.text = Append(@, b.text)]
    BY <1>2 DEF V!process_block
  <2>2. b.text \in Texts
    BY <1>2 DEF Texts
  <2>3. Append(acc.text, b.text) \in Seq(Texts)
    BY <2>2 DEF Collected
  <2> HIDE DEF d
  <2>4. d.text = Append(acc.text, b.text) /\ d.results = acc.results /\ DOMAIN d = DOMAIN acc
    BY <2>1 DEF Collected
  <2> QED
    BY <2>3, <2>4 DEF Collected, d
<1>3. CASE b.type = "image"
  <2> DEFINE y == x.acc
  <2>1. d = [y EXCEPT !.text = @ \o x.text]
    BY <1>3 DEF V!process_block, V!WithText, x
  <2>2. y.text \o x.text \in Seq(Texts)
    BY <1>1 DEF Collected
  <2> HIDE DEF d, y
  <2>3. d.text = y.text \o x.text /\ d.results = y.results /\ DOMAIN d = DOMAIN y
    BY <1>1, <2>1 DEF Collected, y
  <2> QED
    BY <1>1, <2>2, <2>3 DEF Collected, d, y
<1>4. CASE b.type = "tool_result"
  <2> DEFINE y == x.acc
             r == [id |-> b.id, text |-> V!extract_tool_result_content(b, x)]
  <2>1. d = [y EXCEPT !.results = Append(@, r)]
    BY <1>4 DEF V!process_block, V!WithResult, x
  <2> HIDE DEF d, y, r
  <2>2. d.text = y.text /\ d.results = Append(y.results, r) /\ DOMAIN d = DOMAIN y
    BY <1>1, <2>1 DEF Collected, y
  <2>3. IsSeq(Append(y.results, r))
    <3>1. PICK R : y.results \in Seq(R)
      BY <1>1 DEF Collected, IsSeq, y
    <3> QED
      BY <3>1, AppendSet DEF IsSeq
  <2> QED
    BY <1>1, <2>2, <2>3 DEF Collected, d, y
<1>5. CASE b.type \notin {"text", "image", "tool_result"}
  BY <1>5 DEF V!process_block
<1> QED
  BY <1>2, <1>3, <1>4, <1>5

LEMMA ContentEffect ==
    ASSUME NEW T, Numbered(T), NEW content \in Seq(T), NEW acc, Collected(acc), NEW dedup
    PROVE  Collected(V!process_message_content(acc, content, dedup))
<1> DEFINE L == Len(content)
           f == CHOOSE f : f = [k \in 0 .. L |->
                  IF k = 0 THEN acc ELSE V!process_block(f[k - 1], content[k], dedup)]
           S == {n \in Nat : n <= L => Collected(f[n])}
<1>1. L \in Nat /\ \A k \in 1 .. L : content[k] \in T
  OBVIOUS
<1>2. V!process_message_content(acc, content, dedup) = f[L]
  BY DEF V!process_message_content
<1>3. IsLoop(f, "user", dedup, acc, content, L)
  <2>1. PICK g : IsLoop(g, "user", dedup, acc, content, L)
    BY <1>1, LoopExists
  <2> QED
    BY <2>1 DEF IsLoop, Step
<1> HIDE DEF f
<1>4. f[0] = acc /\ \A k \in 1 .. L : f[k] = V!process_block(f[k - 1], content[k], dedup)
  BY <1>1, <1>3 DEF IsLoop, Step
<1>5. 0 \in S
  BY <1>4
<1>6. \A n \in Nat : n \in S => n + 1 \in S
  <2> HIDE DEF L
  <2> SUFFICES ASSUME NEW n \in Nat, n <= L => Collected(f[n]), n + 1 <= L
               PROVE  Collected(f[n + 1])
    OBVIOUS
  <2>1. n <= L /\ n + 1 \in 1 .. L /\ (n + 1) - 1 = n
    BY <1>1
  <2>2. content[n + 1].type = "text" => content[n + 1].text \in 1 .. 999
    BY <1>1, <2>1 DEF Numbered
  <2> QED
    BY <1>4, <2>1, <2>2, BlockKeeps
<1>7. Nat \subseteq S
  <2> HIDE DEF S
  <2> QED
    BY <1>5, <1>6, NatSet
<1> QED
  BY <1>1, <1>2, <1>7

\* Nothing has been collected yet.
LEMMA NothingCollected ==
    ASSUME NEW shown
    PROVE  Collected(V!Nothing(shown))
<1>1. V!Nothing(shown).text \in Seq(Texts) /\ V!Nothing(shown).results \in Seq({})
  BY DEF V!Nothing
<1> QED
  BY <1>1 DEF V!Nothing, Collected, IsSeq

-----------------------------------------------------------------------------
(* Messages of one role *)

LEMMA GroupContent ==
    ASSUME NEW T, NEW group \in Seq(Said(T))
    PROVE  V!FlattenSeq([k \in DOMAIN group |-> group[k].content]) \in Seq(T)
<1> DEFINE ss == [k \in DOMAIN group |-> group[k].content]
<1>1. DOMAIN group = 1 .. Len(group) /\ Len(group) \in Nat /\ \A k \in DOMAIN group : group[k] \in Said(T)
  OBVIOUS
<1>2. \A k \in DOMAIN group : ss[k] \in Seq(T)
  BY <1>1 DEF Said
<1>3. ss \in Seq(Seq(T))
  BY <1>1, <1>2
<1> HIDE DEF ss
<1>4. V!FlattenSeq(ss) \in Seq(T)
  BY <1>3, FlattenEffect, SameOperators
<1> QED
  BY <1>4 DEF ss

LEMMA UserEffect ==
    ASSUME NEW T, Numbered(T), NEW group \in Seq(Said(T)), NEW shown
    PROVE  Collected(V!merge_user_messages(group, shown))
<1> DEFINE content == V!FlattenSeq([k \in DOMAIN group |-> group[k].content])
<1>1. content \in Seq(T)
  BY GroupContent
<1>2. V!merge_user_messages(group, shown) = V!process_message_content(V!Nothing(shown), content, TRUE)
  BY DEF V!merge_user_messages
<1> HIDE DEF content
<1> QED
  BY <1>1, <1>2, ContentEffect, NothingCollected

Spoken(acc) ==
  /\ {"text", "uses", "map", "err"} \subseteq DOMAIN acc
  /\ IsSeq(acc.uses)

LEMMA AssistantBlockKeeps ==
    ASSUME NEW acc, Spoken(acc), NEW b
    PROVE  Spoken(V!convert_assistant_block(acc, b))
<1> DEFINE d == V!convert_assistant_block(acc, b)
           named == V!map_client_tool_name_to_kiro(b.name, acc.map, req.mode)
           u == [id |-> b.id, name |-> named.name,
                 input |-> V!map_tool_input_to_kiro(b.name, b.input, req.mode)]
           e == acc.err \/ V!Unsupported(b.name, b.input, req.mode)
<1>1. CASE b.type = "text"
  <2>1. d = [acc EXCEPT !.text = Append(@, b.text)]
    BY <1>1 DEF V!convert_assistant_block
  <2> HIDE DEF d
  <2>2. d.uses = acc.uses /\ DOMAIN d = DOMAIN acc
    BY <2>1 DEF Spoken
  <2> QED
    BY <2>2 DEF Spoken, d
<1>2. CASE b.type = "tool_use"
  <2>1. d = V!WithUse(acc, b, named)
    BY <1>2 DEF V!convert_assistant_block
  <2>2. V!WithUse(acc, b, named)
          = [text |-> acc.text, map |-> named.map, uses |-> Append(acc.uses, u), err |-> e]
    BY DEF V!WithUse
  <2> HIDE DEF d, named, u, e
  <2>3. d.uses = Append(acc.uses, u) /\ DOMAIN d = {"text", "map", "uses", "err"}
    BY <2>1, <2>2
  <2>4. IsSeq(Append(acc.uses, u))
    <3>1. PICK R : acc.uses \in Seq(R)
      BY DEF Spoken, IsSeq
    <3> QED
      BY <3>1, AppendSet DEF IsSeq
  <2> QED
    BY <2>3, <2>4 DEF Spoken, d
<1>3. CASE b.type \notin {"text", "tool_use"}
  BY <1>3 DEF V!convert_assistant_block
<1> QED
  BY <1>1, <1>2, <1>3

\* A message of the assistant with calls has content.
LEMMA AssistantEffect ==
    ASSUME NEW T, NEW group \in Seq(Said(T)), NEW map
    PROVE  LET a == V!merge_assistant_messages(group, map)
           IN IsSeq(a.uses) /\ (a.uses # << >> => a.text # << >>)
<1> DEFINE content == V!FlattenSeq([k \in DOMAIN group |-> group[k].content])
           L == Len(content)
           a == [text |-> << >>, uses |-> << >>, map |-> map, err |-> FALSE]
           f == CHOOSE f : f = [k \in 0 .. L |->
                  IF k = 0 THEN a ELSE V!convert_assistant_block(f[k - 1], content[k])]
           S == {n \in Nat : n <= L => Spoken(f[n])}
<1>1. L \in Nat /\ \A k \in 1 .. L : content[k] \in T
  <2>1. content \in Seq(T)
    BY GroupContent
  <2> HIDE DEF content
  <2> QED
    BY <2>1
<1>2. V!merge_assistant_messages(group, map) = V!WithSpacer(f[L])
  BY DEF V!merge_assistant_messages
<1>3. IsLoop(f, "assistant", 0, a, content, L)
  <2> HIDE DEF content, a
  <2>1. PICK g : IsLoop(g, "assistant", 0, a, content, L)
    BY <1>1, LoopExists
  <2> QED
    BY <2>1 DEF IsLoop, Step
<1> HIDE DEF f, content
<1>4. f[0] = a /\ \A k \in 1 .. L : f[k] = V!convert_assistant_block(f[k - 1], content[k])
  <2> HIDE DEF a
  <2> QED
    BY <1>1, <1>3 DEF IsLoop, Step
<1>5. 0 \in S
  <2>1. a.uses \in Seq({})
    OBVIOUS
  <2>2. Spoken(a)
    BY <2>1 DEF Spoken, IsSeq
  <2> QED
    BY <1>4, <2>2
<1>6. \A n \in Nat : n \in S => n + 1 \in S
  <2> HIDE DEF L
  <2> SUFFICES ASSUME NEW n \in Nat, n <= L => Spoken(f[n]), n + 1 <= L
               PROVE  Spoken(f[n + 1])
    OBVIOUS
  <2>1. n <= L /\ n + 1 \in 1 .. L /\ (n + 1) - 1 = n
    BY <1>1
  <2> QED
    BY <1>4, <2>1, AssistantBlockKeeps
<1>7. Nat \subseteq S
  <2> HIDE DEF S
  <2> QED
    BY <1>5, <1>6, NatSet
<1>8. Spoken(f[L])
  BY <1>1, <1>7
<1> DEFINE b == f[L]
           d == V!WithSpacer(b)
<1>9. d = [b EXCEPT !.text = IF @ = << >> /\ b.uses # << >> THEN <<0>> ELSE @]
  BY DEF V!WithSpacer, V!Spacer
<1>10. Spoken(b) /\ V!merge_assistant_messages(group, map) = d
  BY <1>2, <1>8
<1> HIDE DEF b, d
<1>11. d.uses = b.uses /\ d.text = IF b.text = << >> /\ b.uses # << >> THEN <<0>> ELSE b.text
  BY <1>9, <1>10 DEF Spoken
<1>12. <<0>> # << >>
  OBVIOUS
<1> QED
  BY <1>10, <1>11, <1>12 DEF Spoken

-----------------------------------------------------------------------------
(* The history *)

Asks(m) == m.role = "user" /\ V!Contains(m.text, V!Prompt)

Tagged(h) == \E k \in DOMAIN h : Asks(h[k])

GoodMessage(m) ==
  /\ {"role", "text", "images", "results", "uses"} \subseteq DOMAIN m
  /\ IsSeq(m.uses)
  /\ m.uses # << >> => m.text # << >>

\* What build_history keeps true of the history, the prompt set aside.
GoodHistory(h) ==
  /\ IsSeq(h)
  /\ \A k \in DOMAIN h : GoodMessage(h[k])
  /\ Tagged(h) <=> Tagged(V!system_messages)

RoleAt(k) == IF k % 2 = 1 THEN "user" ELSE "assistant"

Alternates(h) == \A k \in DOMAIN h : h[k].role = RoleAt(k)

LEMMA AppendMessage ==
    ASSUME NEW h, GoodHistory(h), NEW m, GoodMessage(m), ~Asks(m)
    PROVE  /\ GoodHistory(Append(h, m)) /\ Len(h) \in Nat /\ Len(Append(h, m)) = Len(h) + 1
           /\ Alternates(h) /\ m.role = RoleAt(Len(h) + 1) => Alternates(Append(h, m))
<1> DEFINE g == Append(h, m)
<1>1. PICK R : h \in Seq(R)
  BY DEF GoodHistory, IsSeq
<1>2. Len(h) \in Nat /\ DOMAIN h = 1 .. Len(h)
  BY <1>1
<1>3. g \in Seq(R \cup {m})
  BY <1>1, AppendSet
<1>4. /\ Len(g) = Len(h) + 1 /\ \A k \in 1 .. Len(h) : g[k] = h[k]
      /\ g[Len(h) + 1] = m
  <2>1. h \in Seq(R \cup {m})
    BY <1>1
  <2> QED
    BY <2>1
<1> HIDE DEF g
<1>5. DOMAIN g = (1 .. Len(h)) \cup {Len(h) + 1}
  <2>1. DOMAIN g = 1 .. Len(g)
    BY <1>3
  <2> QED
    BY <1>2, <1>4, <2>1
<1>6. Tagged(g) <=> Tagged(h)
  BY <1>2, <1>4, <1>5 DEF Tagged
<1>7. GoodHistory(g)
  BY <1>2, <1>3, <1>4, <1>5, <1>6 DEF GoodHistory, IsSeq
<1>8. Alternates(h) /\ m.role = RoleAt(Len(h) + 1) => Alternates(g)
  BY <1>2, <1>4, <1>5 DEF Alternates
<1> QED
  BY <1>2, <1>4, <1>7, <1>8 DEF g

\* What is known when n messages have been read: those of one role wait together, and the
\* history has the ones before.
Read(acc, past, n, T) ==
  /\ {"history", "group", "map", "seen", "err"} \subseteq DOMAIN acc
  /\ GoodHistory(acc.history)
  /\ acc.group \in Seq(Said(T))
  /\ \A k \in DOMAIN acc.group : acc.group[k].role = past[n].role
  /\ n = 0 <=> acc.group = << >>
  /\ past[1].role = "user" =>
       /\ Alternates(acc.history)
       /\ n = 0 => Len(acc.history) % 2 = 0
       /\ n # 0 => RoleAt(Len(acc.history) + 1) = past[n].role

\* The messages that wait become one message of the history.
LEMMA FlushEffect ==
    ASSUME NEW T, Numbered(T), NEW past, NEW n \in Nat \ {0}, NEW acc, Read(acc, past, n, T)
    PROVE  \E m : /\ V!flush(acc).history = Append(acc.history, m)
                  /\ GoodMessage(m) /\ ~Asks(m) /\ m.role = past[n].role
                  /\ V!flush(acc).group = << >> /\ DOMAIN V!flush(acc) = DOMAIN acc
<1> DEFINE group == acc.group
<1>1. /\ group \in Seq(Said(T)) /\ group # << >>
      /\ {"history", "group", "map", "seen", "err"} \subseteq DOMAIN acc
      /\ \A k \in DOMAIN group : group[k].role = past[n].role
  BY DEF Read
<1>2. Head(group) = group[1] /\ 1 \in DOMAIN group /\ group[1] \in Said(T)
  BY <1>1
<1>3. Head(group).role = past[n].role /\ Head(group).role \in {"user", "assistant"}
  BY <1>1, <1>2 DEF Said
<1>4. CASE Head(group).role = "user"
  <2> DEFINE u == V!merge_user_messages(group, acc.seen)
             m == V!UserMessage(u)
             d == V!flush(acc)
  <2>1. Collected(u)
    BY <1>1, UserEffect
  <2>2. d = [acc EXCEPT !.history = Append(@, m), !.seen = u.seen, !.err = @ \/ u.err,
                        !.group = << >>]
    BY <1>1, <1>4 DEF V!flush, V!flushed_user
  <2>3. m = [role |-> "user", text |-> u.text, images |-> u.images,
             results |-> u.results, uses |-> << >>]
    BY DEF V!UserMessage
  <2> HIDE DEF u, m, d
  <2>4. << >> \in Seq({})
    OBVIOUS
  <2>5. GoodMessage(m)
    BY <2>3, <2>4 DEF GoodMessage, IsSeq
  <2>6. ~Asks(m)
    <3>1. m.text \in Seq(Texts)
      BY <2>1, <2>3 DEF Collected
    <3>2. V!Prompt \notin Texts
      BY DEF V!Prompt, Texts
    <3>3. ~V!Contains(m.text, V!Prompt)
      <4>1. \A k \in 1 .. Len(m.text) : m.text[k] \in Texts
        BY <3>1
      <4> QED
        BY <4>1, <3>2 DEF V!Contains
    <3> QED
      BY <3>3 DEF Asks
  <2>7. d.history = Append(acc.history, m) /\ d.group = << >> /\ DOMAIN d = DOMAIN acc
    BY <1>1, <2>2
  <2> QED
    BY <1>3, <1>4, <2>3, <2>5, <2>6, <2>7 DEF d
<1>5. CASE Head(group).role = "assistant"
  <2> DEFINE a == V!merge_assistant_messages(group, acc.map)
             m == V!AssistantMessage(a.text, a.uses)
             d == V!flush(acc)
  <2>1. IsSeq(a.uses) /\ (a.uses # << >> => a.text # << >>)
    BY <1>1, AssistantEffect
  <2>2. d = [acc EXCEPT !.history = Append(@, m), !.map = a.map, !.err = @ \/ a.err,
                        !.group = << >>]
    BY <1>1, <1>5 DEF V!flush, V!flushed_assistant
  <2>3. m = [role |-> "assistant", text |-> a.text, images |-> << >>,
             results |-> << >>, uses |-> a.uses]
    BY DEF V!AssistantMessage
  <2> HIDE DEF a, m, d
  <2>4. GoodMessage(m)
    BY <2>1, <2>3 DEF GoodMessage
  <2>5. ~Asks(m)
    BY <2>3 DEF Asks
  <2>6. d.history = Append(acc.history, m) /\ d.group = << >> /\ DOMAIN d = DOMAIN acc
    BY <1>1, <2>2
  <2> QED
    BY <1>3, <1>5, <2>3, <2>4, <2>5, <2>6 DEF d
<1> QED
  BY <1>3, <1>4, <1>5

LEMMA ReadsOne ==
    ASSUME NEW T, Numbered(T), NEW past \in Seq(Said(T)), NEW n \in Nat, n + 1 <= Len(past),
           NEW acc, Read(acc, past, n, T)
    PROVE  Read(V!buffer_message(acc, past[n + 1]), past, n + 1, T)
<1> DEFINE msg == past[n + 1]
           group == acc.group
           d == V!buffer_message(acc, msg)
<1>1. msg \in Said(T) /\ msg.role \in {"user", "assistant"} /\ n + 1 \in Nat \ {0}
  <2>1. n + 1 \in 1 .. Len(past) /\ n + 1 # 0
    OBVIOUS
  <2>2. past[n + 1] \in Said(T)
    BY <2>1
  <2> QED
    BY <2>1, <2>2 DEF Said
<1>2. /\ group \in Seq(Said(T))
      /\ n = 0 <=> group = << >>
      /\ {"history", "group", "map", "seen", "err"} \subseteq DOMAIN acc
      /\ \A k \in DOMAIN group : group[k].role = past[n].role
      /\ GoodHistory(acc.history) /\ Len(acc.history) \in Nat
  <2>1. Len(acc.history) \in Nat
    BY DEF Read, GoodHistory, IsSeq
  <2> QED
    BY <2>1 DEF Read
<1>3. group # << >> => Head(group).role = past[n].role
  <2> HIDE DEF group, msg, d
  <2>1. group # << >> => 1 \in DOMAIN group /\ Head(group) = group[1]
    BY <1>2
  <2> QED
    BY <1>2, <2>1
<1>4. CASE n = 0 \/ past[n].role = msg.role
  <2>1. d = [acc EXCEPT !.group = Append(@, msg)]
    <3>1. ~(group # << >> /\ Head(group).role # msg.role)
      BY <1>2, <1>3, <1>4
    <3> QED
      BY <3>1 DEF V!buffer_message
  <2> DEFINE joined == Append(group, msg)
  <2>2. /\ joined \in Seq(Said(T)) /\ joined # << >>
        /\ \A k \in DOMAIN joined : joined[k].role = msg.role
    <3> HIDE DEF group, msg, d
    <3>1. joined \in Seq(Said(T)) /\ Len(joined) = Len(group) + 1 /\ Len(group) \in Nat
      BY <1>1, <1>2
    <3>2. joined[Len(group) + 1] = msg /\ \A k \in 1 .. Len(group) : joined[k] = group[k]
      BY <1>1, <1>2
    <3>3. DOMAIN joined = 1 .. Len(group) + 1 /\ DOMAIN group = 1 .. Len(group)
      BY <1>2, <3>1
    <3>4. \A k \in 1 .. Len(group) : group[k].role = msg.role
      BY <1>2, <1>4, <3>1, <3>3
    <3> HIDE DEF joined, group, msg
    <3>5. ASSUME NEW k \in DOMAIN joined PROVE joined[k].role = msg.role
      <4>1. k = Len(group) + 1 \/ k \in 1 .. Len(group)
        BY <3>1, <3>3
      <4> QED
        BY <3>2, <3>4, <4>1
    <3> QED
      BY <3>1, <3>3, <3>5
  <2> HIDE DEF d, joined
  <2>3. d.history = acc.history /\ d.group = joined /\ DOMAIN d = DOMAIN acc
    BY <1>2, <2>1 DEF joined
  <2>4. past[1].role = "user" =>
          Alternates(acc.history) /\ RoleAt(Len(acc.history) + 1) = msg.role
    <3>1. CASE n = 0
      BY <1>2, <3>1 DEF Read, RoleAt
    <3>2. CASE n # 0
      BY <1>4, <3>2 DEF Read
    <3> QED
      BY <3>1, <3>2
  <2> HIDE DEF msg, group
  <2>5. Read(d, past, n + 1, T)
    BY <1>1, <1>2, <2>2, <2>3, <2>4 DEF Read, msg
  <2> QED
    BY <2>5 DEF d, msg
<1>5. CASE n # 0 /\ past[n].role # msg.role
  <2> DEFINE b == V!flush(acc)
  <2>1. PICK m : /\ b.history = Append(acc.history, m)
                 /\ GoodMessage(m) /\ ~Asks(m) /\ m.role = past[n].role
                 /\ b.group = << >> /\ DOMAIN b = DOMAIN acc
    BY <1>5, FlushEffect
  <2>2. d = [b EXCEPT !.group = Append(@, msg)]
    <3>1. group # << >> /\ Head(group).role # msg.role
      BY <1>2, <1>3, <1>5
    <3> QED
      BY <3>1 DEF V!buffer_message
  <2> HIDE DEF b, d, msg, group
  <2>3. d.history = Append(acc.history, m) /\ d.group = <<msg>> /\ DOMAIN d = DOMAIN acc
    BY <1>2, <2>1, <2>2
  <2>4. <<msg>> \in Seq(Said(T)) /\ <<msg>> # << >> /\ \A k \in DOMAIN <<msg>> : <<msg>>[k] = msg
    BY <1>1
  <2>5. past[n].role \in {"user", "assistant"}
    <3>1. n \in 1 .. Len(past)
      BY <1>5
    <3>2. past[n] \in Said(T)
      BY <3>1
    <3> QED
      BY <3>2 DEF Said
  <2>6. GoodHistory(d.history) /\ Len(d.history) = Len(acc.history) + 1
    BY <1>2, <2>1, <2>3, AppendMessage
  <2>7. ASSUME past[1].role = "user"
        PROVE  Alternates(d.history) /\ RoleAt(Len(d.history) + 1) = msg.role
    <3>1. Alternates(acc.history) /\ RoleAt(Len(acc.history) + 1) = past[n].role
      BY <1>5, <2>7 DEF Read
    <3>2. Alternates(d.history)
      BY <1>2, <2>1, <2>3, <3>1, AppendMessage
    <3>3. RoleAt(Len(acc.history) + 2) # past[n].role
      BY <1>2, <3>1 DEF RoleAt
    <3>4. RoleAt(Len(d.history) + 1) # past[n].role
      BY <1>2, <2>6, <3>3
    <3> QED
      BY <1>1, <1>5, <2>5, <3>2, <3>4 DEF RoleAt
  <2>8. Read(d, past, n + 1, T)
    BY <1>1, <1>2, <2>3, <2>4, <2>6, <2>7 DEF Read, msg
  <2> QED
    BY <2>8 DEF d, msg
<1> QED
  BY <1>4, <1>5

\* The messages of the system prompt.
LEMMA SystemMessages ==
    /\ GoodHistory(V!system_messages) /\ Alternates(V!system_messages)
    /\ Len(V!system_messages) % 2 = 0
    /\ Tagged(V!system_messages) <=> V!NeedsPrefix /\ req.system \in {"none", "given"}
<1> DEFINE u(text) == V!UserMessage([text |-> text, images |-> << >>, results |-> << >>])
           tags == IF V!NeedsPrefix /\ req.system # "tagged" THEN <<1000>> ELSE << >>
           s == V!system_messages
           r == V!Reply
<1>1. s = IF req.system \in {"given", "tagged"} THEN <<u(tags \o <<1001>>), r>>
          ELSE IF req.system = "none" /\ V!NeedsPrefix THEN <<u(<<1000>>), r>>
          ELSE << >>
  BY DEF V!system_messages, V!Prompt, V!Policy
<1>2. r = [role |-> "assistant", text |-> <<1002>>, images |-> << >>, results |-> << >>,
           uses |-> << >>]
  BY DEF V!Reply, V!AssistantMessage
<1>3. \A t : u(t) = [role |-> "user", text |-> t, images |-> << >>, results |-> << >>,
                     uses |-> << >>]
  BY DEF V!UserMessage
<1>4. IsSeq(<< >>)
  <2>1. << >> \in Seq({})
    OBVIOUS
  <2> QED
    BY <2>1 DEF IsSeq
<1>5. GoodMessage(r) /\ ~Asks(r) /\ r.role = "assistant"
  BY <1>2, <1>4 DEF GoodMessage, Asks
<1>6. ASSUME NEW t
      PROVE  GoodMessage(u(t)) /\ u(t).role = "user" /\ u(t).text = t
  <2> HIDE DEF u
  <2> QED
    BY <1>3, <1>4 DEF GoodMessage
<1> HIDE DEF u, r
<1>7. ASSUME NEW m, GoodMessage(m), m.role = "user", s = <<m, r>>
      PROVE  /\ GoodHistory(s) /\ Alternates(s) /\ Len(s) % 2 = 0
             /\ Tagged(s) <=> V!Contains(m.text, V!Prompt)
  <2>1. <<m, r>> \in Seq({m, r}) /\ DOMAIN <<m, r>> = {1, 2} /\ Len(<<m, r>>) = 2
        /\ <<m, r>>[1] = m /\ <<m, r>>[2] = r
    OBVIOUS
  <2> HIDE DEF s
  <2>2. IsSeq(s) /\ DOMAIN s = {1, 2} /\ Len(s) = 2 /\ s[1] = m /\ s[2] = r
    BY <1>7, <2>1 DEF IsSeq
  <2>3. GoodHistory(s)
    BY <1>5, <1>7, <2>2 DEF GoodHistory, s
  <2>4. RoleAt(1) = "user" /\ RoleAt(2) = "assistant"
    BY DEF RoleAt
  <2>5. Alternates(s)
    BY <1>5, <1>7, <2>2, <2>4 DEF Alternates
  <2>6. Tagged(s) <=> Asks(m)
    BY <1>5, <2>2 DEF Tagged
  <2> QED
    BY <1>7, <2>2, <2>3, <2>5, <2>6 DEF Asks
<1>8. CASE req.system \in {"given", "tagged"}
  <2> DEFINE t == tags \o <<1001>>
  <2>1. V!Contains(t, V!Prompt) <=> V!NeedsPrefix /\ req.system # "tagged"
    <3>1. CASE V!NeedsPrefix /\ req.system # "tagged"
      <4>1. tags = <<1000>>
        BY <3>1
      <4> HIDE DEF tags
      <4>2. Len(t) = 2 /\ t[1] = 1000
        <5>1. <<1000>> \in Seq(Nat) /\ <<1001>> \in Seq(Nat) /\ Len(<<1000>>) = 1
              /\ Len(<<1001>>) = 1 /\ <<1000>>[1] = 1000
          OBVIOUS
        <5> QED
          BY <4>1, <5>1
      <4> HIDE DEF t
      <4> QED
        BY <3>1, <4>2 DEF V!Contains, V!Prompt
    <3>2. CASE ~(V!NeedsPrefix /\ req.system # "tagged")
      <4>1. tags = << >> /\ << >> \o <<1001>> = <<1001>>
        BY <3>2
      <4> HIDE DEF tags
      <4>2. t = <<1001>>
        BY <4>1
      <4> HIDE DEF t
      <4> QED
        BY <3>2, <4>2 DEF V!Contains, V!Prompt
    <3> QED
      BY <3>1, <3>2
  <2> HIDE DEF t, tags, s
  <2>2. s = <<u(t), r>>
    BY <1>1, <1>8 DEF t
  <2> QED
    BY <1>6, <1>7, <1>8, <2>1, <2>2 DEF s
<1>9. CASE req.system = "none" /\ V!NeedsPrefix
  <2>1. V!Contains(<<1000>>, V!Prompt)
    BY DEF V!Contains, V!Prompt
  <2> HIDE DEF tags, s
  <2>2. s = <<u(<<1000>>), r>>
    BY <1>1, <1>9
  <2> QED
    BY <1>6, <1>7, <1>9, <2>1, <2>2 DEF s
<1>10. CASE req.system \notin {"given", "tagged"} /\ ~(req.system = "none" /\ V!NeedsPrefix)
  <2> HIDE DEF tags, s
  <2>1. s = << >>
    BY <1>1, <1>10
  <2>2. DOMAIN s = {} /\ Len(s) = 0 /\ s \in Seq({})
    BY <2>1
  <2> QED
    BY <1>10, <2>2 DEF GoodHistory, Alternates, Tagged, IsSeq, s
<1> QED
  BY <1>8, <1>9, <1>10

\* The history has an even number of messages in turns if the conversation starts with the user's.
LEMMA HistoryEffect ==
    ASSUME NEW T, Numbered(T), NEW past \in Seq(Said(T)), NEW map
    PROVE  LET h == V!build_history(past, map).history
           IN /\ GoodHistory(h)
              /\ past = << >> \/ past[1].role = "user" => Alternates(h) /\ Len(h) % 2 = 0
<1> DEFINE L == Len(past)
           a == [history |-> V!system_messages, group |-> << >>, map |-> map, seen |-> {},
                 err |-> FALSE]
           f == CHOOSE f : f = [k \in 0 .. L |->
                  IF k = 0 THEN a ELSE V!buffer_message(f[k - 1], past[k])]
           S == {n \in Nat : n <= L => Read(f[n], past, n, T)}
           d == V!flush(f[L])
           r == V!Reply
           e == V!build_history(past, map)
<1>1. L \in Nat /\ \A k \in 1 .. L : past[k] \in Said(T)
  OBVIOUS
<1>2. e = IF past # << >> /\ past[L].role = "user"
          THEN [d EXCEPT !.history = Append(@, r)] ELSE d
  BY DEF V!build_history, V!with_reply, V!Last
<1>3. IsLoop(f, "history", 0, a, past, L)
  <2> HIDE DEF a
  <2>1. PICK g : IsLoop(g, "history", 0, a, past, L)
    BY <1>1, LoopExists
  <2> QED
    BY <2>1 DEF IsLoop, Step
<1> HIDE DEF f, d, e, r
<1>4. f[0] = a /\ \A k \in 1 .. L : f[k] = V!buffer_message(f[k - 1], past[k])
  <2> HIDE DEF a
  <2> QED
    BY <1>1, <1>3 DEF IsLoop, Step
<1>5. 0 \in S
  <2>1. /\ {"history", "group", "map", "seen", "err"} \subseteq DOMAIN a
        /\ a.history = V!system_messages /\ a.group = << >>
    OBVIOUS
  <2>2. << >> \in Seq(Said(T)) /\ DOMAIN << >> = {}
    OBVIOUS
  <2> HIDE DEF a
  <2>3. Read(a, past, 0, T)
    BY <2>1, <2>2, SystemMessages DEF Read
  <2> QED
    BY <1>4, <2>3
<1>6. \A n \in Nat : n \in S => n + 1 \in S
  <2> HIDE DEF a
  <2> SUFFICES ASSUME NEW n \in Nat, n <= L => Read(f[n], past, n, T), n + 1 <= L
               PROVE  Read(f[n + 1], past, n + 1, T)
    OBVIOUS
  <2>1. n <= L /\ n + 1 \in 1 .. L /\ (n + 1) - 1 = n
    BY <1>1
  <2>2. f[n + 1] = V!buffer_message(f[n], past[n + 1])
    BY <1>4, <2>1
  <2> QED
    BY <1>1, <2>1, <2>2, ReadsOne
<1>7. Nat \subseteq S
  <2> HIDE DEF S
  <2> QED
    BY <1>5, <1>6, NatSet
<1>8. Read(f[L], past, L, T)
  BY <1>1, <1>7
<1> HIDE DEF a
<1>9. CASE L = 0
  <2>1. past = << >>
    BY <1>9
  <2>2. f[L].group = << >>
    BY <1>8, <1>9 DEF Read
  <2>3. e = f[L]
    BY <1>2, <2>1, <2>2 DEF V!flush, d
  <2>4. f[L].history = V!system_messages
    BY <1>4, <1>9 DEF a
  <2> QED
    BY <2>3, <2>4, SystemMessages DEF e
<1>10. CASE L # 0
  <2> DEFINE h == f[L].history
  <2>1. PICK m : /\ d.history = Append(h, m)
                 /\ GoodMessage(m) /\ ~Asks(m) /\ m.role = past[L].role
                 /\ d.group = << >> /\ DOMAIN d = DOMAIN f[L]
    BY <1>1, <1>8, <1>10, FlushEffect DEF d
  <2>2. GoodHistory(h) /\ "history" \in DOMAIN d
    BY <1>8, <2>1 DEF Read
  <2>3. past # << >> /\ past[L].role \in {"user", "assistant"}
    <3>1. past[L] \in Said(T)
      BY <1>1, <1>10
    <3> QED
      BY <1>10, <3>1 DEF Said
  <2>4. past[1].role = "user" => Alternates(h) /\ RoleAt(Len(h) + 1) = past[L].role
    BY <1>8, <1>10 DEF Read
  <2> HIDE DEF h
  <2>5. /\ GoodHistory(d.history) /\ Len(h) \in Nat /\ Len(d.history) = Len(h) + 1
        /\ past[1].role = "user" => Alternates(d.history)
    BY <2>1, <2>2, <2>4, AppendMessage
  <2>6. GoodMessage(r) /\ ~Asks(r) /\ r.role = "assistant"
    <3>1. r = [role |-> "assistant", text |-> <<1002>>, images |-> << >>, results |-> << >>,
               uses |-> << >>]
      BY DEF V!Reply, V!AssistantMessage, r
    <3>2. << >> \in Seq({})
      OBVIOUS
    <3> QED
      BY <3>1, <3>2 DEF GoodMessage, IsSeq, Asks
  <2>7. CASE past[L].role = "user"
    <3>1. e.history = Append(d.history, r)
      BY <1>2, <2>2, <2>3, <2>7
    <3>2. past[1].role = "user" => r.role = RoleAt(Len(d.history) + 1) /\ (Len(d.history) + 1) % 2 = 0
      BY <2>4, <2>5, <2>6, <2>7 DEF RoleAt
    <3> QED
      BY <2>3, <2>5, <2>6, <3>1, <3>2, AppendMessage DEF e
  <2>8. CASE past[L].role = "assistant"
    <3>1. e = d
      BY <1>2, <2>8
    <3>2. past[1].role = "user" => Len(d.history) % 2 = 0
      BY <2>4, <2>5, <2>8 DEF RoleAt
    <3> QED
      BY <2>3, <2>5, <3>1, <3>2 DEF e
  <2> QED
    BY <2>3, <2>7, <2>8
<1> QED
  BY <1>9, <1>10

\* Calls without a result are taken out of the history, and nothing else is.
LEMMA PrunedEffect ==
    ASSUME NEW h, GoodHistory(h), NEW orphans
    PROVE  LET g == V!remove_orphaned_tool_uses(h, orphans)
           IN /\ DOMAIN g = DOMAIN h /\ Len(g) = Len(h)
              /\ \A k \in DOMAIN h :
                   /\ g[k].role = h[k].role /\ g[k].text = h[k].text /\ g[k].results = h[k].results
                   /\ g[k].images = h[k].images /\ IsSeq(g[k].uses)
                   /\ V!ToSet(g[k].uses) = {u \in V!ToSet(h[k].uses) : u.id \notin orphans}
                   /\ g[k].uses # << >> => h[k].uses # << >>
<1> DEFINE g == V!remove_orphaned_tool_uses(h, orphans)
<1>1. PICK R : h \in Seq(R)
  BY DEF GoodHistory, IsSeq
<1>2. g = [k \in DOMAIN h |-> [h[k] EXCEPT !.uses =
             V!Pick(@, {j \in DOMAIN @ : @[j].id \notin orphans})]]
  BY DEF V!remove_orphaned_tool_uses
<1> HIDE DEF g
<1>3. DOMAIN h = 1 .. Len(h) /\ Len(h) \in Nat
  BY <1>1
<1>4. DOMAIN g = DOMAIN h /\ Len(g) = Len(h)
  BY <1>2, <1>3
<1>5. ASSUME NEW k \in DOMAIN h
      PROVE  /\ g[k].role = h[k].role /\ g[k].text = h[k].text /\ g[k].results = h[k].results
             /\ g[k].images = h[k].images /\ IsSeq(g[k].uses)
             /\ V!ToSet(g[k].uses) = {u \in V!ToSet(h[k].uses) : u.id \notin orphans}
             /\ g[k].uses # << >> => h[k].uses # << >>
  <2> DEFINE m == h[k]
             s == m.uses
             I == {j \in DOMAIN s : s[j].id \notin orphans}
             p == Pick(s, I)
  <2>1. GoodMessage(m)
    BY DEF GoodHistory
  <2>2. g[k] = [m EXCEPT !.uses = p]
    BY <1>2, SameOperators
  <2>3. PICK U : s \in Seq(U)
    BY <2>1 DEF GoodMessage, IsSeq
  <2>4. p \in Seq(U) /\ ComesFrom(p, s, I, Len(s))
    BY <2>3, PickEffect
  <2>5. DOMAIN s = 1 .. Len(s) /\ DOMAIN p = 1 .. Len(p) /\ Len(s) \in Nat /\ Len(p) \in Nat
    BY <2>3, <2>4
  <2>6. I = {j \in 1 .. Len(s) : s[j].id \notin orphans}
    BY <2>5
  <2> HIDE DEF p, s, m, I
  <2>7. /\ \A i \in 1 .. Len(p) : \E a \in I : p[i] = s[a]
        /\ \A a \in I : \E i \in 1 .. Len(p) : p[i] = s[a]
    BY <2>4, <2>6 DEF ComesFrom
  <2>8. V!ToSet(p) = {u \in V!ToSet(s) : u.id \notin orphans}
    <3>1. V!ToSet(p) = {p[i] : i \in 1 .. Len(p)} /\ V!ToSet(s) = {s[i] : i \in 1 .. Len(s)}
      BY <2>5 DEF V!ToSet
    <3>2. ASSUME NEW i \in 1 .. Len(p)
          PROVE  p[i] \in V!ToSet(s) /\ p[i].id \notin orphans
      <4>1. PICK c \in I : p[i] = s[c]
        BY <2>7
      <4> QED
        BY <2>6, <3>1, <4>1
    <3>3. ASSUME NEW i \in 1 .. Len(s), s[i].id \notin orphans
          PROVE  s[i] \in V!ToSet(p)
      BY <2>6, <2>7, <3>1, <3>3
    <3> QED
      BY <3>1, <3>2, <3>3
  <2>9. p # << >> => s # << >>
    <3>1. ASSUME p # << >> PROVE Len(p) # 0
      BY <2>4, <3>1
    <3>2. ASSUME s = << >> PROVE Len(s) = 0
      BY <3>2
    <3> QED
      BY <2>5, <2>6, <2>7, <3>1, <3>2
  <2>10. /\ g[k].uses = p /\ g[k].role = m.role /\ g[k].text = m.text /\ g[k].results = m.results
         /\ g[k].images = m.images
    BY <2>1, <2>2 DEF GoodMessage
  <2>11. IsSeq(p)
    BY <2>4 DEF IsSeq
  <2> QED
    BY <2>8, <2>9, <2>10, <2>11 DEF m, s
<1> QED
  BY <1>4, <1>5 DEF g

-----------------------------------------------------------------------------
(* Thinking *)

\* Thinking is asked for with a field if the model knows one, and with tags otherwise.
LEMMA EffortEffect ==
    ASSUME req.thinking \in V!ThinkingOn
    PROVE  LET schema == V!native_reasoning_schema(V!map_model(req.model))
               effort == V!build_additional_model_request_fields
           IN IF schema # << >>
              THEN V!Contains(schema, effort) /\ ~V!NeedsPrefix
              ELSE effort = Null /\ V!NeedsPrefix
<1> DEFINE model == V!map_model(req.model)
           schema == V!native_reasoning_schema(model)
           effort == V!build_additional_model_request_fields
           wanted == V!WantedEffort
           all == {"low", "medium", "high", "xhigh", "max"}
<1>1. req.thinking \in {"enabled", "adaptive"}
  BY DEF V!ThinkingOn
<1>2. effort = IF schema = << >> THEN Null
               ELSE IF V!Contains(schema, wanted) THEN wanted ELSE schema[Len(schema)]
  <2> HIDE DEF schema
  <2> QED
    BY <1>1 DEF V!build_additional_model_request_fields, V!select_native_reasoning_effort,
                V!ThinkingOn, V!Last, schema
<1>3. schema \in {<<"low", "medium", "high", "xhigh", "max">>, <<"low", "medium", "high", "max">>,
                  << >>}
  <2> HIDE DEF model
  <2> QED
    BY DEF V!native_reasoning_schema
<1> HIDE DEF schema, effort, wanted
<1>4. ASSUME NEW s \in {<<"low", "medium", "high", "xhigh", "max">>,
                        <<"low", "medium", "high", "max">>}
      PROVE  s # << >> /\ V!Contains(s, s[Len(s)]) /\ \A x : V!Contains(s, x) => x \in all
  <2>1. s # << >> /\ Len(s) \in 4 .. 5
    OBVIOUS
  <2>2. \A k \in 1 .. Len(s) : s[k] \in all
    OBVIOUS
  <2> QED
    BY ONLY <2>1, <2>2 DEF V!Contains
<1>5. CASE schema # << >>
  <2>1. V!Contains(schema, effort)
    BY <1>2, <1>3, <1>4, <1>5
  <2>2. effort # Null
    BY <1>3, <1>4, <1>5, <2>1, ConverterAssumption
  <2> QED
    BY <1>5, <2>1, <2>2 DEF V!NeedsPrefix, schema, effort
<1>6. CASE schema = << >>
  BY <1>2, <1>6 DEF V!NeedsPrefix, schema, effort
<1> QED
  BY <1>5, <1>6

-----------------------------------------------------------------------------
(* The request that is sent *)

\* CallsAnswered, HistoryAlternates and ThinkingRequestedOnce, said of a request r.
AllAnswered(r) ==
  LET open == V!Ids(V!UsesOf(r.history)) \ V!Ids(V!ResultsOf(r.history))
  IN /\ open = V!Ids(V!ToSet(r.results))
     /\ V!Cardinality(open) = Len(r.results)

TakesTurns(r, ms) ==
  Head(SubSeq(ms, 1, V!LastUser(ms))).role = "user" =>
    /\ Len(r.history) % 2 = 0
    /\ \A k \in DOMAIN r.history :
         /\ r.history[k].role = IF k % 2 = 1 THEN "user" ELSE "assistant"
         /\ r.history[k].uses # << >> => r.history[k].text # << >>

AsksOnce(r, q) ==
  q.thinking \in V!ThinkingOn =>
    LET tagged == \E k \in DOMAIN r.history :
                    r.history[k].role = "user" /\ V!Contains(r.history[k].text, V!Prompt)
    IN IF V!native_reasoning_schema(V!map_model(q.model)) # << >>
       THEN V!Contains(V!native_reasoning_schema(V!map_model(q.model)), r.effort) /\ ~tagged
       ELSE r.effort = Null /\ (tagged <=> q.system \in {"none", "given"})

\* Calls that stay open are taken out, so those in the history are the answered ones.
LEMMA AnsweredEffect ==
    ASSUME NEW h, GoodHistory(h), NEW T, NEW rs \in Seq(T)
    PROVE  LET paired == V!validate_tool_pairing(h, rs)
               g == V!remove_orphaned_tool_uses(h, paired.orphans)
           IN /\ V!Ids(V!UsesOf(g)) \ V!Ids(V!ResultsOf(g)) = IdsIn(paired.results)
              /\ Cardinality(IdsIn(paired.results)) = Len(paired.results)
<1> DEFINE paired == V!validate_tool_pairing(h, rs)
           o == paired.orphans
           g == V!remove_orphaned_tool_uses(h, o)
<1>1. PairedSoFar(paired, Unanswered(h), T)
  BY PairingEffect
<1> HIDE DEF paired
<1>2. /\ DOMAIN g = DOMAIN h
      /\ \A k \in DOMAIN h :
           /\ g[k].results = h[k].results
           /\ V!ToSet(g[k].uses) = {u \in V!ToSet(h[k].uses) : u.id \notin o}
  <2> HIDE DEF g, o
  <2>1. g = V!remove_orphaned_tool_uses(h, o)
    BY DEF g
  <2> QED
    BY <2>1, PrunedEffect
<1>3. o = Unanswered(h) \ IdsIn(paired.results) /\ IdsIn(paired.results) \subseteq Unanswered(h)
  BY <1>1 DEF PairedSoFar
<1> HIDE DEF o, g
<1>4. V!UsesOf(g) = {u \in V!UsesOf(h) : u.id \notin o}
  <2>1. ASSUME NEW u PROVE u \in V!UsesOf(g) <=> \E k \in DOMAIN g : u \in V!ToSet(g[k].uses)
    BY DEF V!UsesOf
  <2>2. ASSUME NEW u PROVE u \in V!UsesOf(h) <=> \E k \in DOMAIN h : u \in V!ToSet(h[k].uses)
    BY DEF V!UsesOf
  <2> QED
    BY <1>2, <2>1, <2>2
<1>5. V!ResultsOf(g) = V!ResultsOf(h)
  <2>1. ASSUME NEW u PROVE u \in V!ResultsOf(g) <=> \E k \in DOMAIN g : u \in V!ToSet(g[k].results)
    BY DEF V!ResultsOf
  <2>2. ASSUME NEW u PROVE u \in V!ResultsOf(h) <=> \E k \in DOMAIN h : u \in V!ToSet(h[k].results)
    BY DEF V!ResultsOf
  <2> QED
    BY <1>2, <2>1, <2>2
<1>6. V!Ids(V!UsesOf(g)) = V!Ids(V!UsesOf(h)) \ o
  BY <1>4 DEF V!Ids
<1>7. V!Ids(V!UsesOf(g)) \ V!Ids(V!ResultsOf(g)) = IdsIn(paired.results)
  BY <1>3, <1>5, <1>6 DEF Unanswered
<1>8. Cardinality(IdsIn(paired.results)) = Len(paired.results)
  BY <1>1 DEF PairedSoFar
<1> QED
  BY <1>7, <1>8 DEF g, o, paired

\* What is sent ends before the prefill.
LEMMA LastUserBound ==
    ASSUME NEW T, NEW ms \in Seq(T)
    PROVE  V!LastUser(ms) \in 0 .. Len(ms)
<1> DEFINE S == {0} \cup {k \in DOMAIN ms : ms[k].role = "user"}
<1>1. DOMAIN ms = 1 .. Len(ms) /\ Len(ms) \in Nat
  OBVIOUS
<1>2. S \subseteq Nat /\ S \subseteq 0 .. Len(ms) /\ S # {} /\ \A y \in S : y <= Len(ms)
  BY <1>1
<1>3. V!LastUser(ms) = CHOOSE x \in S : \A y \in S : x >= y
  BY DEF V!LastUser, V!Max
<1> HIDE DEF S
<1>4. \E x \in S : \A y \in S : x >= y
  BY <1>1, <1>2, LargestExists
<1>5. V!LastUser(ms) \in S
  BY <1>3, <1>4
<1> QED
  BY <1>2, <1>5

\* A conversation becomes a request that Kiro takes.
LEMMA ConversionEffect ==
    ASSUME NEW ms, Conversation(ms),
           NEW r, r = V!convert_request_with_mode(ms), r # Null
    PROVE  AllAnswered(r) /\ TakesTurns(r, ms) /\ AsksOnce(r, req)
<1>1. PICK T : Numbered(T) /\ ms \in Seq(Said(T))
  BY DEF Conversation
<1> DEFINE last == V!LastUser(ms)
           kept == SubSeq(ms, 1, last)
           past == SubSeq(kept, 1, Len(kept) - 1)
           current == V!process_message_content(V!Nothing({}), kept[Len(kept)].content, FALSE)
           declared == V!convert_tools(req.tools)
           built == V!build_history(past, declared.map)
           h == built.history
           paired == V!validate_tool_pairing(h, current.results)
           g == V!remove_orphaned_tool_uses(h, paired.orphans)
           effort == V!build_additional_model_request_fields
<1>2. last \in 0 .. Len(ms)
  BY <1>1, LastUserBound
<1>3. last # 0 /\ r = V!convert_kept(kept)
  BY DEF V!convert_request_with_mode
<1> HIDE DEF last
<1>4. kept \in Seq(Said(T)) /\ Len(kept) = last /\ last \in Nat \ {0}
      /\ \A k \in 1 .. last : kept[k] = ms[k] /\ kept[k] \in Said(T)
  BY <1>1, <1>2, <1>3
<1>5. r = V!Paired(current, built, declared.tools)
  BY <1>3 DEF V!convert_kept, V!WithHistory, V!Front, V!Last
<1> HIDE DEF kept
<1>6. past \in Seq(Said(T)) /\ Len(past) = last - 1
      /\ (past = << >> \/ past[1] = kept[1]) /\ Head(kept) = kept[1]
  BY <1>4
<1> HIDE DEF past
<1>7. Collected(current)
  <2>1. kept[Len(kept)].content \in Seq(T)
    BY <1>4 DEF Said
  <2> QED
    BY <1>1, <2>1, ContentEffect, NothingCollected
<1> HIDE DEF declared
<1>8. /\ GoodHistory(h)
      /\ past = << >> \/ past[1].role = "user" => Alternates(h) /\ Len(h) % 2 = 0
  BY <1>1, <1>6, HistoryEffect
<1> HIDE DEF current, built
<1>9. r.history = g /\ r.results = paired.results /\ r.effort = effort
  <2>1. r = V!WithoutOrphans(current, built, paired, declared.tools)
    BY <1>5 DEF V!Paired
  <2> HIDE DEF paired, effort
  <2> QED
    BY <2>1 DEF V!WithoutOrphans, V!KiroRequest, effort
<1>10. AllAnswered(r)
  <2>1. PICK R : current.results \in Seq(R)
    BY <1>7 DEF Collected, IsSeq
  <2>2. /\ V!Ids(V!UsesOf(g)) \ V!Ids(V!ResultsOf(g)) = IdsIn(paired.results)
        /\ Cardinality(IdsIn(paired.results)) = Len(paired.results)
    BY <1>8, <2>1, AnsweredEffect
  <2> HIDE DEF g, paired
  <2> QED
    BY <1>9, <2>2, SameOperators DEF AllAnswered, IdsIn
<1> HIDE DEF paired
<1>11. /\ DOMAIN g = DOMAIN h /\ Len(g) = Len(h)
       /\ \A k \in DOMAIN h :
            /\ g[k].role = h[k].role /\ g[k].text = h[k].text
            /\ g[k].uses # << >> => h[k].uses # << >>
  BY <1>8, PrunedEffect
<1> HIDE DEF h, g
<1>12. TakesTurns(r, ms)
  <2> SUFFICES ASSUME Head(kept).role = "user"
               PROVE  /\ Len(g) % 2 = 0
                      /\ \A k \in DOMAIN g :
                           /\ g[k].role = IF k % 2 = 1 THEN "user" ELSE "assistant"
                           /\ g[k].uses # << >> => g[k].text # << >>
    BY <1>9 DEF TakesTurns, kept, last
  <2>1. Alternates(h) /\ Len(h) % 2 = 0
    BY <1>6, <1>8
  <2>2. \A k \in DOMAIN h : h[k].uses # << >> => h[k].text # << >>
    BY <1>8 DEF GoodHistory, GoodMessage
  <2> QED
    BY <1>11, <2>1, <2>2 DEF Alternates, RoleAt
<1>13. AsksOnce(r, req)
  <2> SUFFICES ASSUME req.thinking \in V!ThinkingOn
               PROVE  IF V!native_reasoning_schema(V!map_model(req.model)) # << >>
                      THEN V!Contains(V!native_reasoning_schema(V!map_model(req.model)), effort)
                           /\ ~Tagged(g)
                      ELSE effort = Null /\ (Tagged(g) <=> req.system \in {"none", "given"})
    BY <1>9 DEF AsksOnce, Tagged, Asks
  <2>1. Tagged(g) <=> Tagged(h)
    BY <1>11 DEF Tagged, Asks
  <2>2. Tagged(h) <=> V!NeedsPrefix /\ req.system \in {"none", "given"}
    BY <1>8, SystemMessages DEF GoodHistory
  <2> HIDE DEF effort
  <2> QED
    BY <2>1, <2>2, EffortEffect DEF effort
<1> QED
  BY <1>10, <1>12, <1>13

-----------------------------------------------------------------------------
(* The names of tools *)

\* The name of a client's tool for Kiro.
Kiro(n) == V!map_client_tool_name_to_kiro(n, << >>, req.mode).name

\* The map leads from names that Kiro knows back to tools in N.
Entries(map, N) == \A x \in DOMAIN map : map[x] \in N /\ Kiro(map[x]) = x

\* With the map, t is the name Kiro knows of a tool in N.
Stands(t, map, N) == t \in DOMAIN map \/ (t \in N /\ Kiro(t) = t)

LEMMA EntryKeeps ==
    ASSUME NEW N, NEW map, Entries(map, N), NEW v \in N, NEW k, Kiro(v) = k
    PROVE  LET m == V!WithEntry(map, k, v)
           IN Entries(m, N) /\ DOMAIN m = DOMAIN map \cup {k}
<1> DEFINE m == V!WithEntry(map, k, v)
<1>1. m = [x \in DOMAIN map \cup {k} |-> IF x = k THEN v ELSE map[x]]
  BY DEF V!WithEntry
<1> HIDE DEF m
<1>2. DOMAIN m = DOMAIN map \cup {k}
  BY <1>1
<1>3. ASSUME NEW x \in DOMAIN m PROVE m[x] \in N /\ Kiro(m[x]) = x
  <2>1. CASE x = k
    BY <1>1, <1>2, <2>1
  <2>2. CASE x # k
    BY <1>1, <1>2, <2>2 DEF Entries
  <2> QED
    BY <2>1, <2>2
<1> QED
  BY <1>2, <1>3 DEF Entries, m

\* A name is mapped whatever the map has, and the map grows with it.
LEMMA NamedEffect ==
    ASSUME NEW N, NEW map, Entries(map, N), NEW n \in N
    PROVE  LET d == V!map_client_tool_name_to_kiro(n, map, req.mode)
           IN /\ Entries(d.map, N) /\ DOMAIN map \subseteq DOMAIN d.map
              /\ Stands(d.name, d.map, N)
<1> DEFINE d == V!map_client_tool_name_to_kiro(n, map, req.mode)
           builtin == req.mode = "ClaudeCode" /\ n \in DOMAIN V!Builtin
           k == V!Builtin[n]
<1>1. CASE builtin
  <2>1. d = [name |-> k, map |-> IF k \in DOMAIN map THEN map ELSE V!WithEntry(map, k, n)]
    BY <1>1 DEF V!map_client_tool_name_to_kiro, V!Named
  <2>2. Kiro(n) = k
    BY <1>1 DEF Kiro, V!map_client_tool_name_to_kiro, V!Named
  <2> HIDE DEF d, k
  <2>3. d.name = k /\ d.map = IF k \in DOMAIN map THEN map ELSE V!WithEntry(map, k, n)
    BY <2>1
  <2>4. Entries(V!WithEntry(map, k, n), N) /\ DOMAIN V!WithEntry(map, k, n) = DOMAIN map \cup {k}
    BY <2>2, EntryKeeps
  <2>5. Entries(d.map, N) /\ DOMAIN map \subseteq DOMAIN d.map /\ d.name \in DOMAIN d.map
    BY <2>3, <2>4
  <2> QED
    BY <2>5 DEF Stands, d
<1>2. CASE ~builtin /\ n \in LongNames
  <2> DEFINE s == Shorten(n)
  <2>1. d = [name |-> s, map |-> V!WithEntry(map, s, n)]
    BY <1>2 DEF V!map_client_tool_name_to_kiro, V!map_tool_name, V!Named
  <2>2. Kiro(n) = s
    BY <1>2 DEF Kiro, V!map_client_tool_name_to_kiro, V!map_tool_name, V!Named
  <2> HIDE DEF d, s
  <2>3. d.name = s /\ d.map = V!WithEntry(map, s, n)
    BY <2>1
  <2>4. Entries(V!WithEntry(map, s, n), N) /\ DOMAIN V!WithEntry(map, s, n) = DOMAIN map \cup {s}
    BY <2>2, EntryKeeps
  <2>5. Entries(d.map, N) /\ DOMAIN map \subseteq DOMAIN d.map /\ d.name \in DOMAIN d.map
    BY <2>3, <2>4
  <2> QED
    BY <2>5 DEF Stands, d
<1>3. CASE ~builtin /\ n \notin LongNames
  <2>1. d = [name |-> n, map |-> map]
    BY <1>3 DEF V!map_client_tool_name_to_kiro, V!map_tool_name, V!Named
  <2>2. Kiro(n) = n
    BY <1>3 DEF Kiro, V!map_client_tool_name_to_kiro, V!map_tool_name, V!Named
  <2> HIDE DEF d
  <2>3. d.name = n /\ d.map = map
    BY <2>1
  <2> QED
    BY <2>2, <2>3 DEF Stands, d
<1> QED
  BY <1>1, <1>2, <1>3

\* What the client gets for a name that stands for one of its tools.
LEMMA RestoreEffect ==
    ASSUME NEW N, NEW map, Entries(map, N), NEW t, Stands(t, map, N)
    PROVE  LET n == V!restore_tool_use_for_client(t, << >>, map).name
           IN n \in N /\ Kiro(n) = t
<1> DEFINE n == V!restore_tool_use_for_client(t, << >>, map).name
<1>1. n = IF t \in DOMAIN map THEN map[t] ELSE t
  BY DEF V!restore_tool_use_for_client
<1> HIDE DEF n
<1> QED
  BY <1>1 DEF Entries, Stands, n

-----------------------------------------------------------------------------
(* The tools of the request *)

\* The tools converted so far stand for tools in N.
Declared(acc, N) ==
  /\ IsSeq(acc.tools) /\ Entries(acc.map, N)
  /\ \A k \in DOMAIN acc.tools : Stands(acc.tools[k], acc.map, N)

LEMMA ToolStepKeeps ==
    ASSUME NEW N, NEW acc, Declared(acc, N), NEW name \in N
    PROVE  Declared(ToolStep(acc, name), N)
<1> DEFINE named == V!map_client_tool_name_to_kiro(name, acc.map, req.mode)
           d == V!WithTool(acc.tools, named)
           ts == acc.tools
           old == \E k \in DOMAIN ts : Lower(ts[k]) = Lower(named.name)
<1>1. /\ Entries(named.map, N) /\ DOMAIN acc.map \subseteq DOMAIN named.map
      /\ Stands(named.name, named.map, N)
  BY NamedEffect DEF Declared
<1> HIDE DEF named
<1>2. d = [map |-> named.map, tools |-> IF old THEN ts ELSE Append(ts, named.name)]
  BY DEF V!WithTool
<1>3. d.map = named.map /\ d.tools = IF old THEN ts ELSE Append(ts, named.name)
  <2> HIDE DEF old, ts, d
  <2> QED
    BY <1>2
<1> HIDE DEF d, old
<1>4. PICK R : ts \in Seq(R)
  BY DEF Declared, IsSeq
<1>5. \A k \in DOMAIN ts : Stands(ts[k], named.map, N)
  BY <1>1 DEF Declared, Stands
<1> DEFINE us == Append(ts, named.name)
<1>6. IsSeq(us) /\ \A k \in DOMAIN us : Stands(us[k], named.map, N)
  <2> HIDE DEF ts
  <2>1. us \in Seq(R \cup {named.name}) /\ V!ToSet(us) = V!ToSet(ts) \cup {named.name}
    BY <1>4, AppendSet
  <2> HIDE DEF us
  <2>2. \A x \in V!ToSet(us) : Stands(x, named.map, N)
    BY <1>1, <1>5, <2>1 DEF V!ToSet
  <2> QED
    BY <2>1, <2>2 DEF V!ToSet, IsSeq
<1>7. Declared(d, N)
  <2> HIDE DEF ts, us
  <2>1. IsSeq(ts)
    BY <1>4 DEF IsSeq
  <2> QED
    BY <1>1, <1>3, <1>5, <1>6, <2>1 DEF Declared, us
<1> QED
  BY <1>7 DEF ToolStep, d, named

LEMMA ToolsEffect ==
    ASSUME NEW N, NEW R, NEW names \in Seq(R), \A k \in DOMAIN names : names[k] \in N
    PROVE  Declared(V!convert_tools(names), N)
<1> DEFINE L == Len(names)
           a == [map |-> << >>, tools |-> << >>]
           f == CHOOSE f : f = [k \in 0 .. L |->
                  IF k = 0 THEN a
                  ELSE IF req.mode = "ClaudeCode" /\ names[k] = "fs_append" THEN f[k - 1]
                  ELSE V!WithTool(f[k - 1].tools,
                         V!map_client_tool_name_to_kiro(names[k], f[k - 1].map, req.mode))]
           S == {n \in Nat : n <= L => Declared(f[n], N)}
<1>1. L \in Nat /\ \A k \in 1 .. L : names[k] \in N
  OBVIOUS
<1>2. V!convert_tools(names) = f[L]
  BY DEF V!convert_tools
<1>3. IsLoop(f, "tools", 0, a, names, L)
  <2> HIDE DEF a
  <2>1. PICK g : IsLoop(g, "tools", 0, a, names, L)
    BY <1>1, LoopExists
  <2> QED
    BY <2>1 DEF IsLoop, Step, ToolStep
<1> HIDE DEF f
<1>4. f[0] = a /\ \A k \in 1 .. L : f[k] = ToolStep(f[k - 1], names[k])
  <2> HIDE DEF a
  <2> QED
    BY <1>1, <1>3 DEF IsLoop, Step
<1>5. 0 \in S
  <2>1. a.tools = << >> /\ a.map = << >>
    OBVIOUS
  <2>2. << >> \in Seq({}) /\ DOMAIN << >> = {}
    OBVIOUS
  <2> HIDE DEF a
  <2>3. Declared(a, N)
    BY <2>1, <2>2 DEF Declared, IsSeq, Entries
  <2> QED
    BY <1>4, <2>3
<1>6. \A n \in Nat : n \in S => n + 1 \in S
  <2> HIDE DEF L
  <2> SUFFICES ASSUME NEW n \in Nat, n <= L => Declared(f[n], N), n + 1 <= L
               PROVE  Declared(f[n + 1], N)
    OBVIOUS
  <2>1. n <= L /\ n + 1 \in 1 .. L /\ (n + 1) - 1 = n
    BY <1>1
  <2> QED
    BY <1>1, <1>4, <2>1, ToolStepKeeps
<1>7. Nat \subseteq S
  <2> HIDE DEF S
  <2> QED
    BY <1>5, <1>6, NatSet
<1> QED
  BY <1>1, <1>2, <1>7

-----------------------------------------------------------------------------
(* Placeholders *)

\* A sequence of what is in S.
LEMMA SequenceOf ==
    ASSUME NEW s, IsSeq(s), NEW S, \A k \in DOMAIN s : s[k] \in S
    PROVE  s \in Seq(S)
<1>1. PICK R : s \in Seq(R)
  BY DEF IsSeq
<1>2. Len(s) \in Nat /\ DOMAIN s = 1 .. Len(s) /\ s = [k \in 1 .. Len(s) |-> s[k]]
  BY <1>1
<1> QED
  BY <1>2

\* The names of the calls in the history, each once.
LEMMA CollectEffect ==
    ASSUME NEW g, IsSeq(g), \A k \in DOMAIN g : IsSeq(g[k].uses)
    PROVE  LET names == V!collect_history_tool_names(g)
           IN /\ IsSeq(names)
              /\ V!ToSet(names) = {u.name : u \in V!UsesOf(g)}
<1> DEFINE U == V!UsesOf(g)
           ss == [k \in DOMAIN g |-> g[k].uses]
           uses == FlattenSeq(ss)
           named == [k \in DOMAIN uses |-> uses[k].name]
           I == {k \in DOMAIN uses : \A j \in 1 .. k - 1 : uses[j].name # uses[k].name}
           names == Pick(named, I)
<1>1. V!collect_history_tool_names(g) = names
  BY SameOperators DEF V!collect_history_tool_names
<1>2. PICK R : g \in Seq(R)
  BY DEF IsSeq
<1>3. DOMAIN g = 1 .. Len(g) /\ Len(g) \in Nat
  BY <1>2
<1>4. \A u : u \in U <=> \E k \in DOMAIN g : \E j \in DOMAIN g[k].uses : g[k].uses[j] = u
  BY DEF V!UsesOf, V!ToSet
<1>5. ss \in Seq(Seq(U))
  <2>1. ASSUME NEW k \in DOMAIN g PROVE ss[k] \in Seq(U)
    <3>1. \A j \in DOMAIN g[k].uses : g[k].uses[j] \in U
      BY <1>4
    <3> HIDE DEF U
    <3> QED
      BY <3>1, SequenceOf
  <2> HIDE DEF U
  <2> QED
    BY <1>3, <2>1
<1>6. /\ uses \in Seq(U)
      /\ \A x : (\E j \in DOMAIN uses : uses[j] = x)
                  <=> \E k \in DOMAIN ss : \E j \in DOMAIN ss[k] : ss[k][j] = x
  <2> HIDE DEF ss, U
  <2> QED
    BY <1>5, FlattenElements
<1>7. \A u : u \in U <=> \E j \in DOMAIN uses : uses[j] = u
  <2>1. DOMAIN ss = DOMAIN g /\ \A k \in DOMAIN g : ss[k] = g[k].uses
    OBVIOUS
  <2> HIDE DEF ss, U, uses
  <2> QED
    BY <1>4, <1>6, <2>1
<1> HIDE DEF U, ss, uses
<1>8. DOMAIN uses = 1 .. Len(uses) /\ Len(uses) \in Nat
  BY <1>6
<1> DEFINE N == {u.name : u \in U}
<1>9. named \in Seq(N) /\ Len(named) = Len(uses)
  <2>1. \A k \in 1 .. Len(uses) : named[k] \in N
    BY <1>7, <1>8
  <2> HIDE DEF N
  <2> QED
    BY <1>8, <2>1
<1>10. \A k \in 1 .. Len(uses) : named[k] = uses[k].name
  BY <1>8
<1> HIDE DEF named, N
<1>11. names \in Seq(N) /\ ComesFrom(names, named, I, Len(uses))
  <2> HIDE DEF I
  <2> QED
    BY <1>9, PickEffect
<1>12. DOMAIN names = 1 .. Len(names) /\ Len(names) \in Nat
  <2> HIDE DEF names
  <2> QED
    BY <1>11
<1>13. ASSUME NEW x \in N PROVE \E i \in 1 .. Len(names) : names[i] = x
  <2> DEFINE P == {k \in 1 .. Len(uses) : uses[k].name = x}
  <2>1. P # {} /\ P \subseteq Nat
    BY <1>7, <1>8 DEF N
  <2> HIDE DEF names
  <2>2. PICK k \in P : \A j \in P : k <= j
    <3> HIDE DEF P
    <3> QED
      BY <2>1, SmallestExists
  <2>3. \A j \in 1 .. k - 1 : uses[j].name # uses[k].name
    <3>1. \A j \in 1 .. k - 1 : j \in 1 .. Len(uses) /\ ~(k <= j)
      BY <1>8, <2>2
    <3> QED
      BY <2>2, <3>1
  <2>4. k \in (1 .. Len(uses)) \cap I /\ named[k] = x
    BY <1>8, <1>10, <2>2, <2>3
  <2> QED
    BY <1>11, <2>4 DEF ComesFrom
<1> HIDE DEF names
<1>14. V!ToSet(names) = N
  <2>1. \A i \in 1 .. Len(names) : names[i] \in N
    BY <1>11
  <2> QED
    BY <1>12, <1>13, <2>1 DEF V!ToSet
<1> QED
  BY <1>1, <1>11, <1>14 DEF IsSeq, N, U

\* Every tool that is called is there, and all others were declared.
LEMMA PlaceholderEffect ==
    ASSUME NEW g, IsSeq(g), \A k \in DOMAIN g : IsSeq(g[k].uses), NEW tools, IsSeq(tools)
    PROVE  LET ts == V!with_placeholders(g, tools)
           IN /\ \A u \in V!UsesOf(g) : \E k \in DOMAIN ts : Lower(ts[k]) = Lower(u.name)
              /\ \A k \in DOMAIN ts :
                   ts[k] \in V!ToSet(tools) \/ \E u \in V!UsesOf(g) : ts[k] = u.name
<1> DEFINE names == V!collect_history_tool_names(g)
           I == {n \in DOMAIN names : \A k \in DOMAIN tools : Lower(tools[k]) # Lower(names[n])}
           added == Pick(names, I)
           ts == V!with_placeholders(g, tools)
<1>1. ts = tools \o added
  BY SameOperators DEF V!with_placeholders
<1>2. IsSeq(names) /\ V!ToSet(names) = {u.name : u \in V!UsesOf(g)}
  BY CollectEffect
<1> HIDE DEF names, ts
<1>3. PICK R : names \in Seq(R)
  BY <1>2 DEF IsSeq
<1>4. PICK Q : tools \in Seq(Q)
  BY DEF IsSeq
<1>5. added \in Seq(R) /\ ComesFrom(added, names, I, Len(names))
  <2> HIDE DEF I
  <2> QED
    BY <1>3, PickEffect
<1> HIDE DEF added
<1> DEFINE All == R \cup Q
<1>6. tools \in Seq(All) /\ added \in Seq(All)
  BY <1>4, <1>5
<1> HIDE DEF All
<1>7. V!ToSet(ts) = V!ToSet(tools) \cup V!ToSet(added)
  BY <1>1, <1>6, ConcatElements, SameOperators
<1>8. /\ DOMAIN names = 1 .. Len(names) /\ Len(names) \in Nat
      /\ DOMAIN added = 1 .. Len(added) /\ Len(added) \in Nat
  BY <1>3, <1>5
<1>9. \A i \in 1 .. Len(added) : \E n \in I : added[i] = names[n]
  BY <1>5 DEF ComesFrom
<1>10. \A n \in I : n \in 1 .. Len(names) /\ \E i \in 1 .. Len(added) : added[i] = names[n]
  <2>1. \A n \in I : n \in 1 .. Len(names)
    BY <1>8
  <2> HIDE DEF I
  <2> QED
    BY <1>5, <2>1 DEF ComesFrom
<1>11. ASSUME NEW u \in V!UsesOf(g)
       PROVE  \E x \in V!ToSet(ts) : Lower(x) = Lower(u.name)
  <2>1. u.name \in V!ToSet(names)
    BY <1>2
  <2>2. PICK n \in DOMAIN names : names[n] = u.name
    BY <2>1 DEF V!ToSet
  <2>3. CASE n \in I
    <3>1. u.name \in V!ToSet(added)
      BY <1>8, <1>10, <2>2, <2>3 DEF V!ToSet
    <3> QED
      BY <1>7, <3>1
  <2>4. CASE n \notin I
    <3>1. \E k \in DOMAIN tools : Lower(tools[k]) = Lower(u.name)
      BY <2>2, <2>4
    <3>2. \E x \in V!ToSet(tools) : Lower(x) = Lower(u.name)
      BY <3>1 DEF V!ToSet
    <3> QED
      BY <1>7, <3>2
  <2> QED
    BY <2>3, <2>4
<1>12. ASSUME NEW x \in V!ToSet(ts)
       PROVE  x \in V!ToSet(tools) \/ \E u \in V!UsesOf(g) : x = u.name
  <2>1. CASE x \in V!ToSet(added)
    <3>1. PICK i \in 1 .. Len(added) : added[i] = x
      BY <1>8, <2>1 DEF V!ToSet
    <3>2. PICK n \in I : x = names[n]
      BY <1>9, <3>1
    <3>3. x \in V!ToSet(names)
      BY <1>8, <1>10, <3>2 DEF V!ToSet
    <3> QED
      BY <1>2, <3>3
  <2> QED
    BY <1>7, <2>1
<1> QED
  BY <1>11, <1>12 DEF V!ToSet, ts

\* ToolsKnown, said of a request r, made with the settings q, whose client knows the tools in N.
KnowsTools(r, N, q) ==
  /\ \A u \in V!UsesOf(r.history) :
       \E k \in DOMAIN r.tools : Lower(r.tools[k]) = Lower(u.name)
  /\ \A k \in DOMAIN r.tools :
       LET name == V!restore_tool_use_for_client(r.tools[k], << >>, r.map).name
       IN /\ name \in N
          /\ V!map_client_tool_name_to_kiro(name, << >>, q.mode).name = r.tools[k]

LEMMA ToolsEffectAll ==
    ASSUME NEW N, NEW map, Entries(map, N), NEW tools, IsSeq(tools),
           \A k \in DOMAIN tools : Stands(tools[k], map, N),
           NEW g, IsSeq(g), \A k \in DOMAIN g : IsSeq(g[k].uses),
           \A u \in V!UsesOf(g) : Stands(u.name, map, N),
           NEW r, r.history = g, r.tools = V!with_placeholders(g, tools), r.map = map
    PROVE  KnowsTools(r, N, req)
<1> DEFINE ts == V!with_placeholders(g, tools)
<1>1. /\ \A u \in V!UsesOf(g) : \E k \in DOMAIN ts : Lower(ts[k]) = Lower(u.name)
      /\ \A k \in DOMAIN ts :
           ts[k] \in V!ToSet(tools) \/ \E u \in V!UsesOf(g) : ts[k] = u.name
  BY PlaceholderEffect
<1> HIDE DEF ts
<1>2. \A k \in DOMAIN ts : Stands(ts[k], map, N)
  BY <1>1 DEF V!ToSet
<1>3. \A k \in DOMAIN ts :
        LET name == V!restore_tool_use_for_client(ts[k], << >>, map).name
        IN name \in N /\ Kiro(name) = ts[k]
  BY <1>2, RestoreEffect
<1>4. r.history = g /\ r.tools = ts /\ r.map = map
  BY DEF ts
<1> QED
  BY <1>1, <1>3, <1>4 DEF KnowsTools, Kiro

-----------------------------------------------------------------------------
(* Texts *)

\* What the client said, of a text that also has what the converter adds.
ClientTexts(t) == Keep(t, 1 .. 999)

LEMMA ClientTextsConcat ==
    ASSUME NEW s \in Seq(Int), NEW t \in Seq(Int)
    PROVE  ClientTexts(s \o t) = ClientTexts(s) \o ClientTexts(t)
  BY KeepConcat DEF ClientTexts

LEMMA ClientTextsOne ==
    /\ ClientTexts(<< >>) = << >>
    /\ \A x : ClientTexts(<<x>>) = IF x \in 1 .. 999 THEN <<x>> ELSE << >>
<1> DEFINE W == 1 .. 999
<1> HIDE DEF W
<1>1. Keep(<< >>, W) = << >>
  BY KeepOne
<1>2. \A x : Keep(<<x>>, W) = IF x \in W THEN <<x>> ELSE << >>
  BY KeepOne
<1> QED
  BY <1>1, <1>2 DEF ClientTexts, W

TextsIn(c) == [k \in DOMAIN c |-> IF c[k].type = "text" THEN c[k].text ELSE Null]

TextAt(c) == {k \in DOMAIN c : c[k].type = "text"}

\* The texts among the blocks of a message, in order.
Told(c) == Pick(TextsIn(c), TextAt(c))

LEMMA ToldConcat ==
    ASSUME NEW T, NEW c \in Seq(T), NEW e \in Seq(T)
    PROVE  Told(c \o e) = Told(c) \o Told(e)
<1> DEFINE u == c \o e
           R == {IF b.type = "text" THEN b.text ELSE Null : b \in T}
<1>1. /\ u \in Seq(T) /\ Len(u) = Len(c) + Len(e) /\ Len(c) \in Nat /\ Len(e) \in Nat
      /\ \A k \in 1 .. Len(c) : u[k] = c[k]
      /\ \A k \in 1 .. Len(e) : u[Len(c) + k] = e[k]
  OBVIOUS
<1>2. DOMAIN u = 1 .. Len(u) /\ DOMAIN c = 1 .. Len(c) /\ DOMAIN e = 1 .. Len(e)
  BY <1>1
<1> HIDE DEF u
<1>3. ASSUME NEW s \in Seq(T) PROVE TextsIn(s) \in Seq(R) /\ Len(TextsIn(s)) = Len(s)
  <2>1. Len(s) \in Nat /\ DOMAIN s = 1 .. Len(s) /\ \A k \in 1 .. Len(s) : s[k] \in T
    OBVIOUS
  <2> DEFINE t == TextsIn(s)
  <2>2. t = [k \in 1 .. Len(s) |-> IF s[k].type = "text" THEN s[k].text ELSE Null]
    BY <2>1 DEF TextsIn
  <2>3. \A k \in 1 .. Len(s) : t[k] \in R
    BY <2>1, <2>2
  <2> HIDE DEF R
  <2>4. t \in Seq(R) /\ Len(t) = Len(s)
    BY <2>1, <2>2, <2>3
  <2> QED
    BY <2>4
<1> HIDE DEF R
<1> DEFINE p == TextsIn(c)
           q == TextsIn(e)
           v == TextsIn(u)
<1>4. /\ p \in Seq(R) /\ Len(p) = Len(c) /\ q \in Seq(R) /\ Len(q) = Len(e)
      /\ v \in Seq(R) /\ Len(v) = Len(u)
  BY <1>1, <1>3
<1>5. /\ \A k \in 1 .. Len(c) : p[k] = IF c[k].type = "text" THEN c[k].text ELSE Null
      /\ \A k \in 1 .. Len(e) : q[k] = IF e[k].type = "text" THEN e[k].text ELSE Null
      /\ \A k \in 1 .. Len(u) : v[k] = IF u[k].type = "text" THEN u[k].text ELSE Null
  BY <1>2 DEF TextsIn
<1> HIDE DEF p, q, v
<1>6. v = p \o q
  <2>1. /\ p \o q \in Seq(R) /\ Len(p \o q) = Len(c) + Len(e)
        /\ \A k \in 1 .. Len(c) : (p \o q)[k] = p[k]
        /\ \A k \in 1 .. Len(e) : (p \o q)[Len(c) + k] = q[k]
    <3>1. /\ p \o q \in Seq(R) /\ Len(p \o q) = Len(p) + Len(q)
          /\ \A k \in 1 .. Len(p) : (p \o q)[k] = p[k]
          /\ \A k \in 1 .. Len(q) : (p \o q)[Len(p) + k] = q[k]
      <4>1. p \in Seq(R) /\ q \in Seq(R)
        BY <1>4
      <4> QED
        BY <4>1
    <3> QED
      BY <1>4, <3>1
  <2> DEFINE w == p \o q
  <2> HIDE DEF w
  <2>2. ASSUME NEW k \in 1 .. Len(u) PROVE v[k] = w[k]
    <3>1. CASE k <= Len(c)
      <4>1. k \in 1 .. Len(c)
        BY <1>1, <3>1
      <4> QED
        BY <1>1, <1>5, <2>1, <4>1 DEF w
    <3>2. CASE k > Len(c)
      <4>1. k - Len(c) \in 1 .. Len(e) /\ k = Len(c) + (k - Len(c))
        BY <1>1, <3>2
      <4> DEFINE j == k - Len(c)
      <4>2. u[k] = e[j] /\ w[k] = q[j]
        BY <1>1, <2>1, <4>1 DEF w
      <4> QED
        BY <1>5, <4>1, <4>2
    <3> QED
      BY <1>1, <3>1, <3>2
  <2>3. v = w
    <3>1. w \in Seq(R) /\ Len(w) = Len(v)
      BY <1>1, <1>4, <2>1 DEF w
    <3> QED
      BY <1>4, <2>2, <3>1, SeqEqual
  <2> QED
    BY <2>3 DEF w
<1> DEFINE I == TextAt(u)
           J == TextAt(c)
           K == TextAt(e)
<1>7. Aligned(I, 0, J, Len(c))
  <2>1. \A k \in 1 .. Len(c) : 0 + k = k /\ k \in 1 .. Len(u)
    BY <1>1
  <2>2. \A k \in 1 .. Len(c) : k \in I <=> k \in J
    BY <1>1, <1>2, <2>1 DEF TextAt
  <2> HIDE DEF I, J
  <2> QED
    BY <2>1, <2>2 DEF Aligned
<1>8. Aligned(I, Len(c), K, Len(e))
  <2>1. \A k \in 1 .. Len(e) : Len(c) + k \in 1 .. Len(u)
    BY <1>1
  <2> QED
    BY <1>1, <1>2, <2>1 DEF Aligned, TextAt
<1> HIDE DEF I, J, K
<1>9. Pick(p \o q, I) = Pick(p, J) \o Pick(q, K)
  BY <1>4, <1>7, <1>8, PickConcat
<1> QED
  BY <1>6, <1>9 DEF Told, I, J, K, p, q, v, u

\* One block.
LEMMA ToldOne ==
    /\ Told(<< >>) = << >>
    /\ \A b : Told(<<b>>) = IF b.type = "text" THEN <<b.text>> ELSE << >>
<1>1. Told(<< >>) = << >>
  <2>1. DOMAIN << >> = {} /\ << >> \in Seq({})
    OBVIOUS
  <2>2. TextsIn(<< >>) = << >>
    BY <2>1 DEF TextsIn
  <2>3. Pick(<< >>, TextAt(<< >>)) = << >>
    <3>1. PICK f : Picks(f, << >>, TextAt(<< >>)) /\ Pick(<< >>, TextAt(<< >>)) = f[0]
      BY PickSteps
    <3> QED
      BY <3>1 DEF Picks
  <2> QED
    BY <2>2, <2>3 DEF Told
<1>2. ASSUME NEW b PROVE Told(<<b>>) = IF b.type = "text" THEN <<b.text>> ELSE << >>
  <2> DEFINE x == IF b.type = "text" THEN b.text ELSE Null
  <2>1. DOMAIN <<b>> = {1} /\ <<b>>[1] = b
    OBVIOUS
  <2>2. TextsIn(<<b>>) = <<x>>
    BY <2>1 DEF TextsIn
  <2>3. 1 \in TextAt(<<b>>) <=> b.type = "text"
    BY <2>1 DEF TextAt
  <2> HIDE DEF x
  <2>4. Pick(<<x>>, TextAt(<<b>>)) = IF b.type = "text" THEN <<x>> ELSE << >>
    BY <2>3, PickOne
  <2> QED
    BY <2>2, <2>4 DEF Told, x
<1> QED
  BY <1>1, <1>2

-----------------------------------------------------------------------------
(* Texts and images of user messages *)

\* The images among the blocks in B that can be sent.
Pictures(B) ==
  {b.image : b \in {x \in B : x.type \in {"image", "tool_result"}}} \ (BadImages \cup {Null})

\* The images collected were not shown before, each is there once, and they are remembered.
Shown(acc, before) ==
  /\ IsSeq(acc.images)
  /\ IsFiniteSet(V!ToSet(acc.images)) /\ Cardinality(V!ToSet(acc.images)) = Len(acc.images)
  /\ V!ToSet(acc.images) \cap before = {} /\ acc.seen = before \cup V!ToSet(acc.images)

\* A placeholder is no text of the client.
LEMMA ImageText ==
    ASSUME NEW acc, Collected(acc), NEW image, NEW dedup
    PROVE  LET x == V!extract_kiro_image(acc, image, dedup)
           IN x.acc.text = acc.text /\ x.text \in {<< >>, <<-1>>}
<1> DEFINE x == V!extract_kiro_image(acc, image, dedup)
           sent == [acc EXCEPT !.images = Append(@, image), !.seen = @ \cup {image},
                               !.err = @ \/ image \in BrokenImages]
<1>1. sent.text = acc.text
  BY DEF Collected
<1> HIDE DEF sent
<1>2. x = IF image \in BadImages \cup {Null} THEN [acc |-> acc, text |-> << >>]
          ELSE IF dedup /\ image \in acc.seen THEN [acc |-> acc, text |-> <<-1>>]
          ELSE [acc |-> sent, text |-> << >>]
  BY DEF V!extract_kiro_image, V!Omitted, sent
<1> HIDE DEF x
<1>3. x.acc \in {acc, sent} /\ x.text \in {<< >>, <<-1>>}
  BY <1>2
<1> QED
  BY <1>1, <1>3 DEF x

\* The messages of the history, whose images are sent once.
History(dedup) == dedup = TRUE

LEMMA ImageShown ==
    ASSUME NEW acc, Collected(acc), NEW before, Shown(acc, before), NEW image,
           NEW dedup, History(dedup)
    PROVE  LET d == V!extract_kiro_image(acc, image, dedup).acc
           IN /\ Shown(d, before)
              /\ d.seen = acc.seen \cup ({image} \ (BadImages \cup {Null}))
<1> DEFINE x == V!extract_kiro_image(acc, image, dedup)
           sent == [acc EXCEPT !.images = Append(@, image), !.seen = @ \cup {image},
                               !.err = @ \/ image \in BrokenImages]
<1>1. sent.images = Append(acc.images, image) /\ sent.seen = acc.seen \cup {image}
  BY DEF Collected
<1> HIDE DEF sent
<1>2. x = IF image \in BadImages \cup {Null} THEN [acc |-> acc, text |-> << >>]
          ELSE IF image \in acc.seen THEN [acc |-> acc, text |-> <<-1>>]
          ELSE [acc |-> sent, text |-> << >>]
  BY DEF V!extract_kiro_image, V!Omitted, sent, History
<1> HIDE DEF x
<1> DEFINE new == {image} \ (BadImages \cup {Null})
<1>3. CASE image \in BadImages \cup {Null}
  <2>1. x.acc = acc
    BY <1>2, <1>3
  <2>2. acc.seen \cup new = acc.seen
    BY <1>3
  <2> HIDE DEF new
  <2> QED
    BY <2>1, <2>2 DEF x, new
<1>4. CASE image \notin BadImages \cup {Null} /\ image \in acc.seen
  <2>1. x.acc = acc
    BY <1>2, <1>4
  <2>2. acc.seen \cup new = acc.seen
    BY <1>4
  <2> HIDE DEF new
  <2> QED
    BY <2>1, <2>2 DEF x, new
<1>5. CASE image \notin BadImages \cup {Null} /\ image \notin acc.seen
  <2>1. x.acc = sent
    BY <1>2, <1>5
  <2> DEFINE is == acc.images
  <2>2. PICK R : is \in Seq(R)
    BY DEF Shown, IsSeq
  <2>3. /\ Append(is, image) \in Seq(R \cup {image})
        /\ V!ToSet(Append(is, image)) = V!ToSet(is) \cup {image}
    BY <2>2, AppendSet
  <2>4. Len(Append(is, image)) = Len(is) + 1
    BY <2>2
  <2>5. /\ IsFiniteSet(V!ToSet(is)) /\ Cardinality(V!ToSet(is)) = Len(is)
        /\ V!ToSet(is) \cap before = {} /\ acc.seen = before \cup V!ToSet(is)
    BY DEF Shown
  <2> HIDE DEF is
  <2>6. image \notin V!ToSet(is) /\ image \notin before
    BY <1>5, <2>5
  <2>7. /\ IsFiniteSet(V!ToSet(is) \cup {image})
        /\ Cardinality(V!ToSet(is) \cup {image}) = Cardinality(V!ToSet(is)) + 1
    BY <2>5, <2>6, FS_AddElement
  <2>8. sent.images = Append(is, image)
    BY <1>1 DEF is
  <2>9. Shown(sent, before)
    <3>1. V!ToSet(sent.images) = V!ToSet(is) \cup {image} /\ IsSeq(sent.images)
      BY <2>3, <2>8 DEF IsSeq
    <3>2. Len(sent.images) = Len(is) + 1
      BY <2>4, <2>8
    <3>3. Cardinality(V!ToSet(sent.images)) = Len(sent.images)
      BY <2>5, <2>7, <3>1, <3>2
    <3> QED
      BY <1>1, <2>5, <2>6, <2>7, <3>1, <3>3 DEF Shown
  <2> QED
    BY <1>1, <1>5, <2>1, <2>9 DEF x
<1> QED
  BY <1>3, <1>4, <1>5

\* A block adds its text, and the image it shows.
LEMMA BlockText ==
    ASSUME NEW acc, Collected(acc), NEW b, b.type = "text" => b.text \in 1 .. 999, NEW dedup
    PROVE  ClientTexts(V!process_block(acc, b, dedup).text) = ClientTexts(acc.text) \o Told(<<b>>)
<1> DEFINE x == V!extract_kiro_image(acc, b.image, dedup)
           d == V!process_block(acc, b, dedup)
           told == IF b.type = "text" THEN <<b.text>> ELSE << >>
<1>1. Collected(x.acc) /\ x.acc.text = acc.text /\ x.text \in {<< >>, <<-1>>}
  BY ImageKeeps, ImageText
<1> HIDE DEF x
<1>2. acc.text \in Seq(Int)
  <2>1. Texts \subseteq Int
    BY DEF Texts
  <2>2. acc.text \in Seq(Texts)
    BY DEF Collected
  <2> QED
    BY <2>1, <2>2, SeqMonotonic
<1> DEFINE W == 1 .. 999
<1>7. (b.type = "text" => b.text \in W) /\ W \subseteq Int /\ -1 \notin W
  OBVIOUS
<1>8. \A y : ClientTexts(<<y>>) = IF y \in W THEN <<y>> ELSE << >>
  BY ClientTextsOne
<1> HIDE DEF W
<1>3. \E p \in {<< >>, <<-1>>, told} : ClientTexts(p) = told /\ d.text = acc.text \o p
  <2>1. acc.text \o << >> = acc.text
    BY <1>2
  <2>2. ClientTexts(<< >>) = << >> /\ ClientTexts(<<-1>>) = << >>
    BY <1>7, <1>8, ClientTextsOne
  <2>3. CASE b.type = "text"
    <3>1. d = [acc EXCEPT !.text = Append(@, b.text)]
      BY <2>3 DEF V!process_block
    <3> HIDE DEF d
    <3>2. d.text = Append(acc.text, b.text)
      BY <3>1 DEF Collected
    <3>3. d.text = acc.text \o <<b.text>>
      <4>1. b.text \in Int
        BY <1>7, <2>3
      <4> DEFINE t == acc.text
                 e == b.text
      <4>2. t \in Seq(Int) /\ e \in Int
        BY <1>2, <4>1
      <4> HIDE DEF t, e
      <4>3. Append(t, e) = t \o <<e>>
        BY <4>2, AppendIsConcat
      <4> QED
        BY <3>2, <4>3 DEF t, e
    <3>4. ClientTexts(<<b.text>>) = <<b.text>>
      BY <1>7, <1>8, <2>3
    <3> QED
      BY <2>3, <3>3, <3>4
  <2>4. CASE b.type = "image"
    <3> DEFINE y == x.acc
    <3>1. d = [y EXCEPT !.text = @ \o x.text]
      BY <2>4 DEF V!process_block, V!WithText, x
    <3> HIDE DEF d, y
    <3>2. d.text = y.text \o x.text
      BY <1>1, <3>1 DEF Collected, y
    <3>3. d.text = acc.text \o x.text /\ told = << >> /\ ClientTexts(x.text) = << >>
      BY <1>1, <2>2, <2>4, <3>2 DEF y
    <3> QED
      BY <1>1, <3>3
  <2>5. CASE b.type = "tool_result"
    <3> DEFINE y == x.acc
               r == [id |-> b.id, text |-> V!extract_tool_result_content(b, x)]
    <3>1. d = [y EXCEPT !.results = Append(@, r)]
      BY <2>5 DEF V!process_block, V!WithResult, x
    <3> HIDE DEF d, y, r
    <3>2. d.text = y.text
      BY <1>1, <3>1 DEF Collected, y
    <3>3. d.text = acc.text /\ told = << >>
      BY <1>1, <2>5, <3>2 DEF y
    <3> QED
      BY <2>1, <2>2, <3>3
  <2>6. CASE b.type \notin {"text", "image", "tool_result"}
    <3>1. d = acc /\ told = << >>
      BY <2>6 DEF V!process_block
    <3> QED
      BY <2>1, <2>2, <3>1
  <2> QED
    BY <2>3, <2>4, <2>5, <2>6
<1>4. PICK p \in {<< >>, <<-1>>, told} : ClientTexts(p) = told /\ d.text = acc.text \o p
  BY <1>3
<1>5. p \in Seq(Int)
  <2>1. told \in Seq(Int)
    <3>1. b.type = "text" => b.text \in Int
      BY <1>7
    <3> QED
      BY <3>1
  <2>2. << >> \in Seq(Int) /\ <<-1>> \in Seq(Int)
    OBVIOUS
  <2> HIDE DEF told
  <2> QED
    BY <1>4, <2>1, <2>2
<1>6. ClientTexts(d.text) = ClientTexts(acc.text) \o told
  <2> HIDE DEF d, told
  <2> QED
    BY <1>2, <1>4, <1>5, ClientTextsConcat
<1> QED
  BY <1>6, ToldOne

LEMMA BlockShown ==
    ASSUME NEW acc, Collected(acc), NEW before, Shown(acc, before), NEW b,
           NEW dedup, History(dedup)
    PROVE  LET d == V!process_block(acc, b, dedup)
           IN Shown(d, before) /\ d.seen = acc.seen \cup Pictures({b})
<1> DEFINE x == V!extract_kiro_image(acc, b.image, dedup)
           d == V!process_block(acc, b, dedup)
           new == {b.image} \ (BadImages \cup {Null})
<1>1. Collected(x.acc) /\ Shown(x.acc, before) /\ x.acc.seen = acc.seen \cup new
  BY ImageKeeps, ImageShown
<1> HIDE DEF x
<1>2. Pictures({b}) = IF b.type \in {"image", "tool_result"} THEN new ELSE {}
  <2>1. {y \in {b} : y.type \in {"image", "tool_result"}}
          = IF b.type \in {"image", "tool_result"} THEN {b} ELSE {}
    OBVIOUS
  <2> QED
    BY <2>1 DEF Pictures
<1> HIDE DEF new
<1>3. CASE b.type = "text"
  <2>1. d = [acc EXCEPT !.text = Append(@, b.text)]
    BY <1>3 DEF V!process_block
  <2> HIDE DEF d
  <2>2. d.images = acc.images /\ d.seen = acc.seen
    BY <2>1 DEF Collected
  <2> QED
    BY <1>2, <1>3, <2>2 DEF Shown, d
<1>4. CASE b.type = "image"
  <2> DEFINE y == x.acc
  <2>1. d = [y EXCEPT !.text = @ \o x.text]
    BY <1>4 DEF V!process_block, V!WithText, x
  <2> HIDE DEF d, y
  <2>2. d.images = y.images /\ d.seen = y.seen
    BY <1>1, <2>1 DEF Collected, y
  <2> QED
    BY <1>1, <1>2, <1>4, <2>2 DEF Shown, d, y
<1>5. CASE b.type = "tool_result"
  <2> DEFINE y == x.acc
             r == [id |-> b.id, text |-> V!extract_tool_result_content(b, x)]
  <2>1. d = [y EXCEPT !.results = Append(@, r)]
    BY <1>5 DEF V!process_block, V!WithResult, x
  <2> HIDE DEF d, y, r
  <2>2. d.images = y.images /\ d.seen = y.seen
    BY <1>1, <2>1 DEF Collected, y
  <2> QED
    BY <1>1, <1>2, <1>5, <2>2 DEF Shown, d, y
<1>6. CASE b.type \notin {"text", "image", "tool_result"}
  BY <1>2, <1>6 DEF V!process_block
<1> QED
  BY <1>3, <1>4, <1>5, <1>6

\* The first elements of a sequence, one more at a time.
LEMMA PrefixSteps ==
    ASSUME NEW T, NEW s \in Seq(T)
    PROVE  /\ SubSeq(s, 1, 0) = << >> /\ SubSeq(s, 1, Len(s)) = s
           /\ \A n \in Nat : n + 1 <= Len(s) =>
                /\ SubSeq(s, 1, n) \in Seq(T) /\ s[n + 1] \in T
                /\ SubSeq(s, 1, n + 1) = Append(SubSeq(s, 1, n), s[n + 1])
<1>1. Len(s) \in Nat
  OBVIOUS
<1>2. SubSeq(s, 1, 0) = << >>
  OBVIOUS
<1>3. SubSeq(s, 1, Len(s)) = s
  OBVIOUS
<1>4. ASSUME NEW n \in Nat, n + 1 <= Len(s)
      PROVE  /\ SubSeq(s, 1, n) \in Seq(T) /\ s[n + 1] \in T
             /\ SubSeq(s, 1, n + 1) = Append(SubSeq(s, 1, n), s[n + 1])
  <2>1. n + 1 \in 1 .. Len(s) /\ n <= Len(s)
    BY <1>1, <1>4
  <2>2. s[n + 1] \in T
    BY <2>1
  <2> DEFINE a == SubSeq(s, 1, n)
             b == SubSeq(s, 1, n + 1)
  <2>3. a \in Seq(T) /\ Len(a) = n /\ \A k \in 1 .. n : a[k] = s[k]
    BY <1>1, <2>1
  <2>4. b \in Seq(T) /\ Len(b) = n + 1 /\ \A k \in 1 .. n + 1 : b[k] = s[k]
    BY <1>1, <2>1
  <2> HIDE DEF a, b
  <2> DEFINE c == Append(a, s[n + 1])
  <2>5. c \in Seq(T) /\ Len(c) = n + 1 /\ c[n + 1] = s[n + 1] /\ \A k \in 1 .. n : c[k] = a[k]
    BY <2>2, <2>3
  <2> HIDE DEF c
  <2>6. \A k \in 1 .. n + 1 : b[k] = c[k]
    <3>1. \A k \in 1 .. n + 1 : k \in 1 .. n \/ k = n + 1
      OBVIOUS
    <3> QED
      BY <2>3, <2>4, <2>5, <3>1
  <2>7. b = c
    BY <2>4, <2>5, <2>6, SeqEqual
  <2> QED
    BY <2>2, <2>3, <2>7 DEF a, b, c
<1> QED
  BY <1>2, <1>3, <1>4

\* The loop over the blocks of user messages, by its steps.
ReadBlocks(f, acc, content, dedup) ==
  /\ f[0] = acc
  /\ \A k \in 1 .. Len(content) : f[k] = V!process_block(f[k - 1], content[k], dedup)
  /\ V!process_message_content(acc, content, dedup) = f[Len(content)]

LEMMA ContentSteps ==
    ASSUME NEW acc, NEW content, Len(content) \in Nat, NEW dedup
    PROVE  \E f : ReadBlocks(f, acc, content, dedup)
<1> DEFINE L == Len(content)
           f == CHOOSE f : f = [k \in 0 .. L |->
                  IF k = 0 THEN acc ELSE V!process_block(f[k - 1], content[k], dedup)]
<1>1. V!process_message_content(acc, content, dedup) = f[L]
  BY DEF V!process_message_content
<1>2. IsLoop(f, "user", dedup, acc, content, L)
  <2>1. PICK g : IsLoop(g, "user", dedup, acc, content, L)
    BY LoopExists
  <2> QED
    BY <2>1 DEF IsLoop, Step
<1> HIDE DEF f
<1>3. f[0] = acc /\ \A k \in 1 .. L : f[k] = V!process_block(f[k - 1], content[k], dedup)
  BY <1>2 DEF IsLoop, Step
<1>4. ReadBlocks(f, acc, content, dedup)
  BY <1>1, <1>3 DEF ReadBlocks
<1> QED
  BY <1>4

\* The text has what the client wrote, and placeholders.
LEMMA ContentTold ==
    ASSUME NEW T, Numbered(T), NEW content \in Seq(T), NEW acc, Collected(acc), acc.text = << >>,
           NEW dedup
    PROVE  ClientTexts(V!process_message_content(acc, content, dedup).text) = Told(content)
<1> DEFINE L == Len(content)
<1>1. L \in Nat /\ \A k \in 1 .. L : content[k] \in T
  OBVIOUS
<1>0. PICK f : ReadBlocks(f, acc, content, dedup)
  BY <1>1, ContentSteps
<1>2. /\ f[0] = acc
      /\ \A k \in 1 .. L : f[k] = V!process_block(f[k - 1], content[k], dedup)
      /\ V!process_message_content(acc, content, dedup) = f[L]
  BY <1>0 DEF ReadBlocks
<1> DEFINE Pre(n) == SubSeq(content, 1, n)
           OK(n) == Collected(f[n]) /\ ClientTexts(f[n].text) = Told(Pre(n))
           S == {n \in Nat : n <= L => OK(n)}
<1>3. Pre(0) = << >> /\ Pre(L) = content
  BY PrefixSteps
<1>4. \A n \in Nat : n + 1 <= L =>
        Pre(n) \in Seq(T) /\ content[n + 1] \in T /\ Pre(n + 1) = Append(Pre(n), content[n + 1])
  BY PrefixSteps
<1> HIDE DEF Pre, L
<1>5. 0 \in S
  BY <1>2, <1>3, ToldOne, ClientTextsOne
<1>6. \A n \in Nat : n \in S => n + 1 \in S
  <2> HIDE DEF OK
  <2> SUFFICES ASSUME NEW n \in Nat, n <= L => OK(n), n + 1 <= L PROVE OK(n + 1)
    OBVIOUS
  <2> DEFINE b == content[n + 1]
  <2>1. n <= L /\ n + 1 \in 1 .. L /\ (n + 1) - 1 = n
    BY <1>1
  <2>2. Collected(f[n]) /\ ClientTexts(f[n].text) = Told(Pre(n))
    BY <2>1 DEF OK
  <2>3. f[n + 1] = V!process_block(f[n], b, dedup)
    BY <1>2, <2>1
  <2>4. Pre(n) \in Seq(T) /\ b \in T /\ Pre(n + 1) = Append(Pre(n), b)
    BY <1>4
  <2> HIDE DEF b
  <2>5. b.type = "text" => b.text \in 1 .. 999
    BY <2>4 DEF Numbered
  <2>6. Collected(f[n + 1])
    BY <2>2, <2>3, <2>5, BlockKeeps
  <2>7. ClientTexts(f[n + 1].text) = ClientTexts(f[n].text) \o Told(<<b>>)
    BY <2>2, <2>3, <2>5, BlockText
  <2>8. Told(Pre(n + 1)) = Told(Pre(n)) \o Told(<<b>>)
    <3>1. Append(Pre(n), b) = Pre(n) \o <<b>> /\ <<b>> \in Seq(T)
      BY <2>4, AppendIsConcat
    <3> QED
      BY <2>4, <3>1, ToldConcat
  <2> QED
    BY <2>2, <2>6, <2>7, <2>8 DEF OK
<1>7. Nat \subseteq S
  <2> HIDE DEF S
  <2> QED
    BY <1>5, <1>6, NatSet
<1> QED
  BY <1>1, <1>2, <1>3, <1>7

LEMMA PicturesUnion ==
    ASSUME NEW A, NEW B
    PROVE  Pictures(A \cup B) = Pictures(A) \cup Pictures(B)
  BY DEF Pictures

\* The images are those that were not shown before.
LEMMA ContentShown ==
    ASSUME NEW T, Numbered(T), NEW content \in Seq(T), NEW acc, Collected(acc),
           NEW before, Shown(acc, before), NEW dedup, History(dedup)
    PROVE  LET d == V!process_message_content(acc, content, dedup)
           IN Shown(d, before) /\ d.seen = acc.seen \cup Pictures(V!ToSet(content))
<1> DEFINE L == Len(content)
<1>1. L \in Nat /\ \A k \in 1 .. L : content[k] \in T
  OBVIOUS
<1>0. PICK f : ReadBlocks(f, acc, content, dedup)
  BY <1>1, ContentSteps
<1>2. /\ f[0] = acc
      /\ \A k \in 1 .. L : f[k] = V!process_block(f[k - 1], content[k], dedup)
      /\ V!process_message_content(acc, content, dedup) = f[L]
  BY <1>0 DEF ReadBlocks
<1> DEFINE Pre(n) == SubSeq(content, 1, n)
           OK(n) == /\ Collected(f[n]) /\ Shown(f[n], before)
                    /\ f[n].seen = acc.seen \cup Pictures(V!ToSet(Pre(n)))
           S == {n \in Nat : n <= L => OK(n)}
<1>3. Pre(0) = << >> /\ Pre(L) = content
  BY PrefixSteps
<1>4. \A n \in Nat : n + 1 <= L =>
        Pre(n) \in Seq(T) /\ content[n + 1] \in T /\ Pre(n + 1) = Append(Pre(n), content[n + 1])
  BY PrefixSteps
<1> HIDE DEF Pre, L
<1>5. 0 \in S
  <2>1. V!ToSet(<< >>) = {}
    BY DEF V!ToSet
  <2>2. Pictures(V!ToSet(Pre(0))) = {}
    BY <1>3, <2>1 DEF Pictures
  <2> QED
    BY <1>2, <2>2
<1>6. \A n \in Nat : n \in S => n + 1 \in S
  <2> HIDE DEF OK
  <2> SUFFICES ASSUME NEW n \in Nat, n <= L => OK(n), n + 1 <= L PROVE OK(n + 1)
    OBVIOUS
  <2> DEFINE b == content[n + 1]
  <2>1. n <= L /\ n + 1 \in 1 .. L /\ (n + 1) - 1 = n
    BY <1>1
  <2>2. /\ Collected(f[n]) /\ Shown(f[n], before)
        /\ f[n].seen = acc.seen \cup Pictures(V!ToSet(Pre(n)))
    BY <2>1 DEF OK
  <2>3. f[n + 1] = V!process_block(f[n], b, dedup)
    BY <1>2, <2>1
  <2>4. Pre(n) \in Seq(T) /\ b \in T /\ Pre(n + 1) = Append(Pre(n), b)
    BY <1>4
  <2> HIDE DEF b
  <2>5. b.type = "text" => b.text \in 1 .. 999
    BY <2>4 DEF Numbered
  <2>6. Collected(f[n + 1])
    BY <2>2, <2>3, <2>5, BlockKeeps
  <2>7. Shown(f[n + 1], before) /\ f[n + 1].seen = f[n].seen \cup Pictures({b})
    BY ONLY <2>2, <2>3, History(dedup), BlockShown
  <2>8. Pictures(V!ToSet(Pre(n + 1))) = Pictures(V!ToSet(Pre(n))) \cup Pictures({b})
    <3>1. V!ToSet(Pre(n + 1)) = V!ToSet(Pre(n)) \cup {b}
      BY <2>4, AppendSet
    <3> QED
      BY <3>1, PicturesUnion
  <2> QED
    BY <2>2, <2>6, <2>7, <2>8 DEF OK
<1>7. Nat \subseteq S
  <2> HIDE DEF S
  <2> QED
    BY <1>5, <1>6, NatSet
<1> QED
  BY <1>1, <1>2, <1>3, <1>7

-----------------------------------------------------------------------------
(* The blocks of several messages *)

Contents(ms) == V!FlattenSeq([k \in DOMAIN ms |-> ms[k].content])

LEMMA ContentsSteps ==
    ASSUME NEW T, NEW ms \in Seq(Said(T))
    PROVE  /\ Contents(<< >>) = << >> /\ Contents(ms) \in Seq(T)
           /\ V!ToSet(Contents(ms)) = V!BlocksOf(ms)
           /\ \A m \in Said(T) :
                /\ Contents(Append(ms, m)) = Contents(ms) \o m.content
                /\ V!BlocksOf(Append(ms, m)) = V!BlocksOf(ms) \cup V!ToSet(m.content)
<1> DEFINE ss == [k \in DOMAIN ms |-> ms[k].content]
<1>1. /\ Len(ms) \in Nat /\ DOMAIN ms = 1 .. Len(ms)
      /\ \A k \in DOMAIN ms : ms[k] \in Said(T)
  OBVIOUS
<1>2. ss \in Seq(Seq(T)) /\ DOMAIN ss = DOMAIN ms /\ Len(ss) = Len(ms)
  <2>1. \A k \in DOMAIN ms : ss[k] \in Seq(T)
    BY <1>1 DEF Said
  <2> QED
    BY <1>1, <2>1
<1>3. Contents(<< >>) = << >>
  BY DEF Contents, V!FlattenSeq
<1>4. Contents(ms) = FlattenSeq(ss)
  BY SameOperators DEF Contents
<1>5. \A k \in DOMAIN ms : ss[k] = ms[k].content
  OBVIOUS
<1> HIDE DEF ss
<1>6. /\ FlattenSeq(ss) \in Seq(T)
      /\ \A x : (\E j \in DOMAIN FlattenSeq(ss) : FlattenSeq(ss)[j] = x)
                  <=> \E k \in DOMAIN ss : \E j \in DOMAIN ss[k] : ss[k][j] = x
  BY <1>2, FlattenElements
<1>7. V!ToSet(Contents(ms)) = V!BlocksOf(ms)
  <2>1. ASSUME NEW x PROVE x \in V!ToSet(Contents(ms)) <=> \E j \in DOMAIN FlattenSeq(ss) : FlattenSeq(ss)[j] = x
    BY <1>4 DEF V!ToSet
  <2>2. ASSUME NEW x PROVE x \in V!BlocksOf(ms) <=> \E k \in DOMAIN ms : \E j \in DOMAIN ms[k].content : ms[k].content[j] = x
    BY DEF V!BlocksOf, V!ToSet
  <2>3. \A x : (\E k \in DOMAIN ms : \E j \in DOMAIN ms[k].content : ms[k].content[j] = x)
                <=> \E k \in DOMAIN ss : \E j \in DOMAIN ss[k] : ss[k][j] = x
    BY <1>2, <1>5
  <2>4. ASSUME NEW x PROVE x \in V!ToSet(Contents(ms)) <=> x \in V!BlocksOf(ms)
    BY <1>6, <2>1, <2>2, <2>3
  <2> QED
    BY <2>4
<1>8. ASSUME NEW m \in Said(T)
      PROVE  /\ Contents(Append(ms, m)) = Contents(ms) \o m.content
             /\ V!BlocksOf(Append(ms, m)) = V!BlocksOf(ms) \cup V!ToSet(m.content)
  <2> DEFINE ns == Append(ms, m)
             tt == [k \in DOMAIN ns |-> ns[k].content]
             c == m.content
             uu == Append(ss, c)
  <2>1. c \in Seq(T)
    BY DEF Said
  <2>2. /\ Len(ns) = Len(ms) + 1 /\ DOMAIN ns = 1 .. Len(ms) + 1 /\ ns[Len(ms) + 1] = m
        /\ \A k \in 1 .. Len(ms) : ns[k] = ms[k]
    <3>1. ns \in Seq(Said(T)) /\ Len(ns) = Len(ms) + 1
      OBVIOUS
    <3> QED
      BY <1>1, <3>1
  <2>3. \A k \in 1 .. Len(ms) + 1 : k \in 1 .. Len(ms) \/ k = Len(ms) + 1
    BY <1>1
  <2> HIDE DEF ns
  <2>4. /\ uu \in Seq(Seq(T)) /\ Len(uu) = Len(ms) + 1 /\ uu[Len(ms) + 1] = c
        /\ \A k \in 1 .. Len(ms) : uu[k] = ss[k]
    <3> HIDE DEF c
    <3> QED
      BY <1>2, <2>1
  <2> HIDE DEF uu
  <2>5. tt = uu
    <3>1. DOMAIN uu = 1 .. Len(ms) + 1 /\ uu = [k \in 1 .. Len(ms) + 1 |-> uu[k]]
      BY <2>4
    <3>2. \A k \in 1 .. Len(ms) + 1 : ns[k].content = uu[k]
      BY <1>1, <1>5, <2>2, <2>3, <2>4
    <3>3. tt = [k \in 1 .. Len(ms) + 1 |-> ns[k].content]
      BY <2>2
    <3> HIDE DEF tt
    <3> QED
      BY <3>1, <3>2, <3>3
  <2>6. Contents(ns) = FlattenSeq(tt)
    BY SameOperators DEF Contents
  <2>7. FlattenSeq(Append(ss, c)) = FlattenSeq(ss) \o c
    <3> HIDE DEF c
    <3> QED
      BY <1>2, <2>1, FlattenAppend
  <2>8. Contents(ns) = Contents(ms) \o c
    BY <1>4, <2>5, <2>6, <2>7 DEF uu
  <2> HIDE DEF c, tt
  <2>9. V!BlocksOf(ns) = V!BlocksOf(ms) \cup V!ToSet(c)
    <3>1. ASSUME NEW x PROVE x \in V!BlocksOf(ns) <=> \E k \in DOMAIN ns : x \in V!ToSet(ns[k].content)
      BY DEF V!BlocksOf
    <3>2. ASSUME NEW x PROVE x \in V!BlocksOf(ms) <=> \E k \in DOMAIN ms : x \in V!ToSet(ms[k].content)
      BY DEF V!BlocksOf
    <3>3. ns[Len(ms) + 1].content = c
      BY <2>2 DEF c
    <3>4. Len(ms) + 1 \in DOMAIN ns /\ \A k \in 1 .. Len(ms) : k \in DOMAIN ns
      BY <1>1, <2>2
    <3>5. ASSUME NEW x PROVE x \in V!BlocksOf(ns) <=> x \in V!BlocksOf(ms) \/ x \in V!ToSet(c)
      BY <1>1, <2>2, <2>3, <3>1, <3>2, <3>3, <3>4
    <3> QED
      BY <3>5
  <2> QED
    BY <2>8, <2>9 DEF ns, c
<1> QED
  BY <1>3, <1>4, <1>6, <1>7, <1>8

\* A message made of those of the user has their texts, and the images that are new.
LEMMA UserTold ==
    ASSUME NEW T, Numbered(T), NEW group \in Seq(Said(T)), NEW before
    PROVE  LET u == V!merge_user_messages(group, before)
           IN /\ u.text \in Seq(Int) /\ ClientTexts(u.text) = Told(Contents(group))
              /\ Shown(u, before) /\ u.seen = before \cup Pictures(V!BlocksOf(group))
<1> DEFINE u == V!merge_user_messages(group, before)
           a == V!Nothing(before)
           c == Contents(group)
<1>1. PICK dedup : History(dedup)
  BY DEF History
<1>2. u = V!process_message_content(a, c, dedup)
  BY <1>1 DEF V!merge_user_messages, Contents, History
<1>3. c \in Seq(T) /\ V!ToSet(c) = V!BlocksOf(group)
  BY ContentsSteps
<1>4. Collected(a)
  BY NothingCollected
<1>5. a.text = << >> /\ a.seen = before /\ Shown(a, before)
  <2>1. a = [text |-> << >>, images |-> << >>, results |-> << >>, seen |-> before, err |-> FALSE]
    BY DEF V!Nothing
  <2> HIDE DEF a
  <2>2. a.text = << >> /\ a.images = << >> /\ a.seen = before
    BY <2>1
  <2>3. V!ToSet(<< >>) = {} /\ << >> \in Seq({}) /\ Len(<< >>) = 0
    BY DEF V!ToSet
  <2>4. IsFiniteSet({}) /\ Cardinality({}) = 0
    BY FS_EmptySet
  <2> QED
    BY <2>2, <2>3, <2>4 DEF Shown, IsSeq
<1> HIDE DEF a, c, u
<1>6. ClientTexts(u.text) = Told(c)
  BY <1>2, <1>3, <1>4, <1>5, ContentTold
<1>7. Shown(u, before) /\ u.seen = before \cup Pictures(V!BlocksOf(group))
  BY <1>1, <1>2, <1>3, <1>4, <1>5, ContentShown
<1>8. u.text \in Seq(Int)
  <2>1. Collected(u)
    BY UserEffect DEF u
  <2>2. Texts \subseteq Int
    BY DEF Texts
  <2> QED
    BY <2>1, <2>2, SeqMonotonic DEF Collected
<1> QED
  BY <1>6, <1>7, <1>8 DEF c, u

-----------------------------------------------------------------------------
(* Texts and calls of the assistant *)

LEMMA SpeechKeeps ==
    ASSUME NEW acc, Spoken(acc), acc.text \in Seq(Int), NEW b,
           b.type = "text" => b.text \in 1 .. 999
    PROVE  LET d == V!convert_assistant_block(acc, b)
           IN /\ d.text \in Seq(Int)
              /\ ClientTexts(d.text) = ClientTexts(acc.text) \o Told(<<b>>)
<1> DEFINE d == V!convert_assistant_block(acc, b)
           told == IF b.type = "text" THEN <<b.text>> ELSE << >>
           W == 1 .. 999
<1>1. (b.type = "text" => b.text \in W) /\ W \subseteq Int
  OBVIOUS
<1>2. \A y : ClientTexts(<<y>>) = IF y \in W THEN <<y>> ELSE << >>
  BY ClientTextsOne
<1> HIDE DEF W
<1>3. told \in Seq(Int) /\ ClientTexts(told) = told
  <2>1. CASE b.type = "text"
    <3>1. told = <<b.text>> /\ b.text \in Int
      BY <1>1, <2>1
    <3> QED
      BY <1>1, <1>2, <2>1, <3>1
  <2>2. CASE b.type # "text"
    <3>1. told = << >> /\ << >> \in Seq(Int)
      BY <2>2
    <3> QED
      BY <3>1, ClientTextsOne
  <2> QED
    BY <2>1, <2>2
<1>4. d.text = acc.text \o told
  <2>1. CASE b.type = "text"
    <3>1. d = [acc EXCEPT !.text = Append(@, b.text)]
      BY <2>1 DEF V!convert_assistant_block
    <3> HIDE DEF d
    <3>2. d.text = Append(acc.text, b.text)
      BY <3>1 DEF Spoken
    <3> DEFINE t == acc.text
               e == b.text
    <3>3. t \in Seq(Int) /\ e \in Int
      BY <1>1, <2>1
    <3> HIDE DEF t, e
    <3>4. Append(t, e) = t \o <<e>>
      BY <3>3, AppendIsConcat
    <3> QED
      BY <2>1, <3>2, <3>4 DEF t, e
  <2>2. CASE b.type # "text"
    <3> DEFINE named == V!map_client_tool_name_to_kiro(b.name, acc.map, req.mode)
               use == [id |-> b.id, name |-> named.name,
                       input |-> V!map_tool_input_to_kiro(b.name, b.input, req.mode)]
               e == acc.err \/ V!Unsupported(b.name, b.input, req.mode)
    <3>1. d = V!WithUse(acc, b, named) \/ d = acc
      BY <2>2 DEF V!convert_assistant_block
    <3>2. V!WithUse(acc, b, named)
            = [text |-> acc.text, map |-> named.map, uses |-> Append(acc.uses, use), err |-> e]
      BY DEF V!WithUse
    <3> HIDE DEF d, named, use, e
    <3>3. d.text = acc.text
      BY <3>1, <3>2
    <3>4. told = << >> /\ acc.text \o << >> = acc.text
      BY <2>2
    <3> QED
      BY <3>3, <3>4
  <2> QED
    BY <2>1, <2>2
<1> HIDE DEF d, told
<1>5. d.text \in Seq(Int)
  BY <1>3, <1>4
<1>6. ClientTexts(d.text) = ClientTexts(acc.text) \o told
  BY <1>3, <1>4, ClientTextsConcat
<1>7. Told(<<b>>) = told
  BY ToldOne DEF told
<1> QED
  BY <1>5, <1>6, <1>7 DEF d

\* The calls stand for tools in N.
Calling(acc, N) ==
  /\ Entries(acc.map, N)
  /\ \A k \in DOMAIN acc.uses : Stands(acc.uses[k].name, acc.map, N)

LEMMA CallKeeps ==
    ASSUME NEW N, NEW acc, Spoken(acc), Calling(acc, N), NEW b, b.type = "tool_use" => b.name \in N
    PROVE  LET d == V!convert_assistant_block(acc, b)
           IN Calling(d, N) /\ DOMAIN acc.map \subseteq DOMAIN d.map
<1> DEFINE d == V!convert_assistant_block(acc, b)
           named == V!map_client_tool_name_to_kiro(b.name, acc.map, req.mode)
           use == [id |-> b.id, name |-> named.name,
                   input |-> V!map_tool_input_to_kiro(b.name, b.input, req.mode)]
           e == acc.err \/ V!Unsupported(b.name, b.input, req.mode)
<1>1. CASE b.type = "text"
  <2>1. d = [acc EXCEPT !.text = Append(@, b.text)]
    BY <1>1 DEF V!convert_assistant_block
  <2> HIDE DEF d
  <2>2. d.uses = acc.uses /\ d.map = acc.map
    BY <2>1 DEF Spoken
  <2> QED
    BY <2>2 DEF Calling, d
<1>2. CASE b.type = "tool_use"
  <2>1. d = V!WithUse(acc, b, named)
    BY <1>2 DEF V!convert_assistant_block
  <2>2. V!WithUse(acc, b, named)
          = [text |-> acc.text, map |-> named.map, uses |-> Append(acc.uses, use), err |-> e]
    BY DEF V!WithUse
  <2>3. /\ Entries(named.map, N) /\ DOMAIN acc.map \subseteq DOMAIN named.map
        /\ Stands(named.name, named.map, N)
    BY <1>2, NamedEffect DEF Calling
  <2>4. use.name = named.name
    OBVIOUS
  <2> DEFINE us == acc.uses
             vs == Append(us, use)
  <2> HIDE DEF d, named, use, e
  <2>5. d.uses = vs /\ d.map = named.map
    BY <2>1, <2>2
  <2>6. PICK R : us \in Seq(R)
    BY DEF Spoken, IsSeq
  <2>7. \A x \in V!ToSet(us) : Stands(x.name, named.map, N)
    BY <2>3 DEF Calling, Stands, V!ToSet
  <2> HIDE DEF us
  <2>8. V!ToSet(vs) = V!ToSet(us) \cup {use}
    BY <2>6, AppendSet
  <2> HIDE DEF vs
  <2>9. \A x \in V!ToSet(vs) : Stands(x.name, named.map, N)
    BY <2>3, <2>4, <2>7, <2>8
  <2>10. \A k \in DOMAIN vs : Stands(vs[k].name, named.map, N)
    BY <2>9 DEF V!ToSet
  <2>11. Calling(d, N) /\ DOMAIN acc.map \subseteq DOMAIN d.map
    BY <2>3, <2>5, <2>10 DEF Calling
  <2> QED
    BY <2>11 DEF d
<1>3. CASE b.type \notin {"text", "tool_use"}
  BY <1>3 DEF V!convert_assistant_block
<1> QED
  BY <1>1, <1>2, <1>3

\* The loop over the blocks of the assistant, by its steps.
Speech(f, group, map) ==
  LET content == Contents(group)
  IN /\ f[0] = [text |-> << >>, uses |-> << >>, map |-> map, err |-> FALSE]
     /\ \A k \in 1 .. Len(content) : f[k] = V!convert_assistant_block(f[k - 1], content[k])
     /\ V!merge_assistant_messages(group, map) = V!WithSpacer(f[Len(content)])

LEMMA SpeechSteps ==
    ASSUME NEW group, NEW map, Len(Contents(group)) \in Nat
    PROVE  \E f : Speech(f, group, map)
<1> DEFINE content == V!FlattenSeq([k \in DOMAIN group |-> group[k].content])
           L == Len(content)
           a == [text |-> << >>, uses |-> << >>, map |-> map, err |-> FALSE]
           f == CHOOSE f : f = [k \in 0 .. L |->
                  IF k = 0 THEN a ELSE V!convert_assistant_block(f[k - 1], content[k])]
<1>1. V!merge_assistant_messages(group, map) = V!WithSpacer(f[L])
  BY DEF V!merge_assistant_messages
<1>2. Contents(group) = content /\ L \in Nat
  BY DEF Contents
<1>3. IsLoop(f, "assistant", 0, a, content, L)
  <2> HIDE DEF content, a
  <2>1. PICK g : IsLoop(g, "assistant", 0, a, content, L)
    BY <1>2, LoopExists
  <2> QED
    BY <2>1 DEF IsLoop, Step
<1> HIDE DEF f, content
<1>4. f[0] = a /\ \A k \in 1 .. L : f[k] = V!convert_assistant_block(f[k - 1], content[k])
  <2> HIDE DEF a
  <2> QED
    BY <1>2, <1>3 DEF IsLoop, Step
<1> QED
  BY <1>1, <1>2, <1>4 DEF Speech

\* The names of the tools that are called in the blocks in B.
NamesIn(B) == {b.name : b \in {c \in B : c.type = "tool_use"}}

\* A message made of those of the assistant has their texts, and its calls stand for their tools.
LEMMA AssistantTold ==
    ASSUME NEW T, Numbered(T), NEW group \in Seq(Said(T)), NEW N, NamesIn(T) \subseteq N,
           NEW map, Entries(map, N)
    PROVE  LET a == V!merge_assistant_messages(group, map)
           IN /\ a.text \in Seq(Int) /\ ClientTexts(a.text) = Told(Contents(group))
              /\ Calling(a, N) /\ DOMAIN map \subseteq DOMAIN a.map
<1> DEFINE content == Contents(group)
           L == Len(content)
           a == V!merge_assistant_messages(group, map)
<1>1. content \in Seq(T)
  BY ContentsSteps
<1> HIDE DEF content
<1>2. L \in Nat /\ \A k \in 1 .. L : content[k] \in T
  BY <1>1
<1>3. PICK f : Speech(f, group, map)
  BY <1>2, SpeechSteps DEF content
<1>4. /\ f[0] = [text |-> << >>, uses |-> << >>, map |-> map, err |-> FALSE]
      /\ \A k \in 1 .. L : f[k] = V!convert_assistant_block(f[k - 1], content[k])
      /\ a = V!WithSpacer(f[L])
  BY <1>3 DEF Speech, content
<1> HIDE DEF a
<1> DEFINE Pre(n) == SubSeq(content, 1, n)
           OK(n) == /\ Spoken(f[n]) /\ f[n].text \in Seq(Int)
                    /\ ClientTexts(f[n].text) = Told(Pre(n))
                    /\ Calling(f[n], N) /\ DOMAIN map \subseteq DOMAIN f[n].map
           S == {n \in Nat : n <= L => OK(n)}
<1>5. Pre(0) = << >> /\ Pre(L) = content
  BY <1>1, PrefixSteps
<1>6. \A n \in Nat : n + 1 <= L =>
        Pre(n) \in Seq(T) /\ content[n + 1] \in T /\ Pre(n + 1) = Append(Pre(n), content[n + 1])
  BY <1>1, PrefixSteps
<1> HIDE DEF Pre, L
<1>7. 0 \in S
  <2> DEFINE b == f[0]
  <2>1. /\ b.text = << >> /\ b.uses = << >> /\ b.map = map
        /\ DOMAIN b = {"text", "uses", "map", "err"}
    BY <1>4
  <2> HIDE DEF b
  <2>2. << >> \in Seq({}) /\ << >> \in Seq(Int) /\ DOMAIN << >> = {}
    OBVIOUS
  <2>3. Spoken(b) /\ Calling(b, N) /\ b.text \in Seq(Int)
    BY <2>1, <2>2 DEF Spoken, Calling, IsSeq
  <2>4. ClientTexts(b.text) = Told(Pre(0))
    BY <1>5, <2>1, ToldOne, ClientTextsOne
  <2>5. OK(0)
    BY <2>1, <2>3, <2>4 DEF b
  <2> HIDE DEF OK
  <2> QED
    BY <2>5
<1>8. \A n \in Nat : n \in S => n + 1 \in S
  <2> HIDE DEF OK
  <2> SUFFICES ASSUME NEW n \in Nat, n <= L => OK(n), n + 1 <= L PROVE OK(n + 1)
    OBVIOUS
  <2> DEFINE b == content[n + 1]
  <2>1. n <= L /\ n + 1 \in 1 .. L /\ (n + 1) - 1 = n
    BY <1>2
  <2>2. /\ Spoken(f[n]) /\ f[n].text \in Seq(Int)
        /\ ClientTexts(f[n].text) = Told(Pre(n))
        /\ Calling(f[n], N) /\ DOMAIN map \subseteq DOMAIN f[n].map
    BY <2>1 DEF OK
  <2>3. f[n + 1] = V!convert_assistant_block(f[n], b)
    BY <1>4, <2>1
  <2>4. Pre(n) \in Seq(T) /\ b \in T /\ Pre(n + 1) = Append(Pre(n), b)
    BY <1>6
  <2> HIDE DEF b
  <2>5. b.type = "text" => b.text \in 1 .. 999
    BY <2>4 DEF Numbered
  <2>6. b.type = "tool_use" => b.name \in N
    BY <2>4 DEF NamesIn
  <2>7. Spoken(f[n + 1])
    BY <2>2, <2>3, AssistantBlockKeeps
  <2>8. /\ f[n + 1].text \in Seq(Int)
        /\ ClientTexts(f[n + 1].text) = ClientTexts(f[n].text) \o Told(<<b>>)
    BY <2>2, <2>3, <2>5, SpeechKeeps
  <2>9. Calling(f[n + 1], N) /\ DOMAIN f[n].map \subseteq DOMAIN f[n + 1].map
    BY <2>2, <2>3, <2>6, CallKeeps
  <2>10. Told(Pre(n + 1)) = Told(Pre(n)) \o Told(<<b>>)
    <3>1. Append(Pre(n), b) = Pre(n) \o <<b>> /\ <<b>> \in Seq(T)
      BY <2>4, AppendIsConcat
    <3> QED
      BY <2>4, <3>1, ToldConcat
  <2> QED
    BY <2>2, <2>7, <2>8, <2>9, <2>10 DEF OK
<1>9. Nat \subseteq S
  <2> HIDE DEF S
  <2> QED
    BY <1>7, <1>8, NatSet
<1> DEFINE b == f[L]
<1>10. /\ Spoken(b) /\ b.text \in Seq(Int) /\ ClientTexts(b.text) = Told(content)
       /\ Calling(b, N) /\ DOMAIN map \subseteq DOMAIN b.map
  BY <1>2, <1>5, <1>9
<1>11. a = [b EXCEPT !.text = IF @ = << >> /\ b.uses # << >> THEN <<0>> ELSE @]
  BY <1>4 DEF V!WithSpacer, V!Spacer
<1> HIDE DEF b
<1>12. /\ a.uses = b.uses /\ a.map = b.map
       /\ a.text = IF b.text = << >> /\ b.uses # << >> THEN <<0>> ELSE b.text
  BY <1>10, <1>11 DEF Spoken
<1>13. <<0>> \in Seq(Int) /\ ClientTexts(<<0>>) = << >> /\ ClientTexts(<< >>) = << >>
  <2> DEFINE W == 1 .. 999
  <2>1. 0 \notin W
    OBVIOUS
  <2>2. /\ ClientTexts(<< >>) = << >>
        /\ \A y : ClientTexts(<<y>>) = IF y \in W THEN <<y>> ELSE << >>
    BY ClientTextsOne
  <2> HIDE DEF W
  <2> QED
    BY <2>1, <2>2
<1>14. a.text \in Seq(Int) /\ ClientTexts(a.text) = Told(content)
  BY <1>10, <1>12, <1>13
<1> QED
  BY <1>10, <1>12, <1>14 DEF Calling, a, content

-----------------------------------------------------------------------------
(* Texts and images of the history *)

TextsOf(h) == V!FlattenSeq([k \in DOMAIN h |-> h[k].text])

ImagesOf(h) == V!FlattenSeq([k \in DOMAIN h |-> h[k].images])

\* A field in n messages, and with the value x of one more.
Longer(e, c, n, x, S) ==
  /\ n \in Nat /\ x \in Seq(S)
  /\ c = [k \in 1 .. n |-> c[k]] /\ \A k \in 1 .. n : c[k] \in Seq(S)
  /\ e = [k \in 1 .. n + 1 |-> e[k]] /\ e[n + 1] = x
  /\ \A k \in 1 .. n : e[k] = c[k]

LEMMA ColumnAppend ==
    ASSUME NEW S, NEW n, NEW c, NEW x, NEW e, Longer(e, c, n, x, S)
    PROVE  /\ V!FlattenSeq(c) \in Seq(S)
           /\ V!FlattenSeq(e) = V!FlattenSeq(c) \o x
<1>0. /\ n \in Nat /\ x \in Seq(S) /\ \A k \in 1 .. n : c[k] \in Seq(S)
      /\ e[n + 1] = x /\ \A k \in 1 .. n : e[k] = c[k]
  BY DEF Longer
<1>1. c \in Seq(Seq(S)) /\ Len(c) = n
  <2>1. c \in [1 .. n -> Seq(S)]
    BY <1>0 DEF Longer
  <2>2. c \in Seq(Seq(S))
    BY ONLY <1>0, <2>1, SeqDef
  <2>3. Len(c) = n
    BY ONLY <1>0, <2>1, <2>2
  <2> QED
    BY <2>2, <2>3
<1> DEFINE d == Append(c, x)
<1>2. /\ d \in Seq(Seq(S)) /\ Len(d) = n + 1 /\ d[n + 1] = x
      /\ \A k \in 1 .. n : d[k] = c[k]
  BY <1>0, <1>1
<1>3. DOMAIN d = 1 .. n + 1
  BY <1>2
<1>4. FlattenSeq(d) = FlattenSeq(c) \o x
  BY <1>0, <1>1, FlattenAppend
<1>5. FlattenSeq(c) \in Seq(S)
  BY <1>1, FlattenEffect
<1> HIDE DEF d
<1>6. e = d
  <2>1. d = [k \in 1 .. n + 1 |-> d[k]]
    BY <1>2, <1>3
  <2>2. ASSUME NEW k \in 1 .. n + 1 PROVE e[k] = d[k]
    <3>1. k \in 1 .. n \/ k = n + 1
      BY <1>0
    <3> QED
      BY <1>0, <1>2, <3>1
  <2> QED
    BY <2>1, <2>2 DEF Longer
<1> QED
  BY <1>4, <1>5, <1>6, SameOperators DEF d

\* Messages with texts, and with images in M.
Columns(h, M) ==
  /\ IsSeq(h)
  /\ \A k \in DOMAIN h : h[k].text \in Seq(Int) /\ h[k].images \in Seq(M)

LEMMA HistoryAppend ==
    ASSUME NEW M, NEW h, Columns(h, M), NEW m, m.text \in Seq(Int), m.images \in Seq(M)
    PROVE  /\ Columns(Append(h, m), M)
           /\ TextsOf(h) \in Seq(Int) /\ TextsOf(Append(h, m)) = TextsOf(h) \o m.text
           /\ ImagesOf(h) \in Seq(M) /\ ImagesOf(Append(h, m)) = ImagesOf(h) \o m.images
           /\ V!UsesOf(Append(h, m)) = V!UsesOf(h) \cup V!ToSet(m.uses)
<1> DEFINE g == Append(h, m)
           n == Len(h)
<1>1. PICK R : h \in Seq(R)
  BY DEF Columns, IsSeq
<1>2. n \in Nat /\ DOMAIN h = 1 .. n
  BY <1>1
<1>3. g \in Seq(R \cup {m})
  BY <1>1, AppendSet
<1>4. Len(g) = n + 1 /\ g[n + 1] = m /\ \A k \in 1 .. n : g[k] = h[k]
  <2>1. h \in Seq(R \cup {m})
    BY <1>1
  <2> QED
    BY <2>1
<1>5. DOMAIN g = 1 .. n + 1
  BY <1>3, <1>4
<1> HIDE DEF g, n
<1>6. \A k \in 1 .. n + 1 : k \in 1 .. n \/ k = n + 1
  BY <1>2
<1>7. \A k \in 1 .. n : k \in 1 .. n + 1
  BY <1>2
<1>8. \A k \in 1 .. n : h[k].text \in Seq(Int) /\ h[k].images \in Seq(M)
  BY <1>2 DEF Columns
<1>9. n + 1 \in 1 .. n + 1
  BY <1>2
<1>10. TextsOf(h) \in Seq(Int) /\ TextsOf(g) = TextsOf(h) \o m.text
  <2> DEFINE c == [k \in DOMAIN h |-> h[k].text]
             e == [k \in DOMAIN g |-> g[k].text]
             x == m.text
  <2>1. c = [k \in 1 .. n |-> c[k]] /\ e = [k \in 1 .. n + 1 |-> e[k]]
    BY <1>2, <1>5
  <2>2. \A k \in 1 .. n : c[k] = h[k].text
    BY <1>2
  <2>3. \A k \in 1 .. n + 1 : e[k] = g[k].text
    BY <1>5
  <2>4. TextsOf(h) = V!FlattenSeq(c) /\ TextsOf(g) = V!FlattenSeq(e)
    BY DEF TextsOf
  <2>5. x \in Seq(Int) /\ x = m.text
    OBVIOUS
  <2> HIDE DEF c, e, x
  <2>6. (\A k \in 1 .. n : c[k] \in Seq(Int)) /\ (\A k \in 1 .. n : e[k] = c[k]) /\ e[n + 1] = x
    BY <1>4, <1>7, <1>8, <1>9, <2>2, <2>3, <2>5
  <2>7. Longer(e, c, n, x, Int)
    BY <1>2, <2>1, <2>5, <2>6 DEF Longer
  <2>8. V!FlattenSeq(c) \in Seq(Int) /\ V!FlattenSeq(e) = V!FlattenSeq(c) \o x
    BY <2>7, ColumnAppend
  <2> QED
    BY <2>4, <2>5, <2>8
<1>11. ImagesOf(h) \in Seq(M) /\ ImagesOf(g) = ImagesOf(h) \o m.images
  <2> DEFINE c == [k \in DOMAIN h |-> h[k].images]
             e == [k \in DOMAIN g |-> g[k].images]
             x == m.images
  <2>1. c = [k \in 1 .. n |-> c[k]] /\ e = [k \in 1 .. n + 1 |-> e[k]]
    BY <1>2, <1>5
  <2>2. \A k \in 1 .. n : c[k] = h[k].images
    BY <1>2
  <2>3. \A k \in 1 .. n + 1 : e[k] = g[k].images
    BY <1>5
  <2>4. ImagesOf(h) = V!FlattenSeq(c) /\ ImagesOf(g) = V!FlattenSeq(e)
    BY DEF ImagesOf
  <2>5. x \in Seq(M) /\ x = m.images
    OBVIOUS
  <2> HIDE DEF c, e, x
  <2>6. (\A k \in 1 .. n : c[k] \in Seq(M)) /\ (\A k \in 1 .. n : e[k] = c[k]) /\ e[n + 1] = x
    BY <1>4, <1>7, <1>8, <1>9, <2>2, <2>3, <2>5
  <2>7. Longer(e, c, n, x, M)
    BY <1>2, <2>1, <2>5, <2>6 DEF Longer
  <2>8. V!FlattenSeq(c) \in Seq(M) /\ V!FlattenSeq(e) = V!FlattenSeq(c) \o x
    BY <2>7, ColumnAppend
  <2> QED
    BY <2>4, <2>5, <2>8
<1>12. V!UsesOf(g) = V!UsesOf(h) \cup V!ToSet(m.uses)
  <2>1. ASSUME NEW u PROVE u \in V!UsesOf(g) <=> \E k \in DOMAIN g : u \in V!ToSet(g[k].uses)
    BY DEF V!UsesOf
  <2>2. ASSUME NEW u PROVE u \in V!UsesOf(h) <=> \E k \in DOMAIN h : u \in V!ToSet(h[k].uses)
    BY DEF V!UsesOf
  <2>3. ASSUME NEW u PROVE u \in V!UsesOf(g) <=> u \in V!UsesOf(h) \/ u \in V!ToSet(m.uses)
    BY <1>2, <1>4, <1>5, <1>6, <1>7, <1>9, <2>1, <2>2
  <2> QED
    BY <2>3
<1>13. Columns(g, M)
  <2>1. ASSUME NEW k \in 1 .. n + 1 PROVE g[k].text \in Seq(Int) /\ g[k].images \in Seq(M)
    BY <1>4, <1>6, <1>8
  <2> QED
    BY <1>3, <1>5, <2>1 DEF Columns, IsSeq
<1> QED
  BY <1>10, <1>11, <1>12, <1>13 DEF g

LEMMA ClientTextsType ==
    ASSUME NEW t \in Seq(Int)
    PROVE  ClientTexts(t) \in Seq(Int)
<1> DEFINE W == 1 .. 999
<1> HIDE DEF W
<1>1. Keep(t, W) \in Seq(Int)
  BY PickEffect DEF Keep
<1> QED
  BY <1>1 DEF ClientTexts, W

TextsAmong(T) == {IF b.type = "text" THEN b.text ELSE Null : b \in T}

LEMMA ToldType ==
    ASSUME NEW T, NEW c \in Seq(T)
    PROVE  Told(c) \in Seq(TextsAmong(T))
<1> DEFINE s == TextsIn(c)
<1>1. Len(c) \in Nat /\ DOMAIN c = 1 .. Len(c) /\ \A k \in 1 .. Len(c) : c[k] \in T
  OBVIOUS
<1>2. s \in [1 .. Len(c) -> TextsAmong(T)]
  <2>1. s = [k \in 1 .. Len(c) |-> IF c[k].type = "text" THEN c[k].text ELSE Null]
    BY <1>1 DEF TextsIn
  <2> HIDE DEF s
  <2>2. \A k \in 1 .. Len(c) : s[k] \in TextsAmong(T)
    BY <1>1, <2>1 DEF TextsAmong
  <2> QED
    BY <2>1, <2>2
<1> HIDE DEF s
<1>3. s \in Seq(TextsAmong(T))
  BY <1>1, <1>2, SeqDef
<1>4. Pick(s, TextAt(c)) \in Seq(TextsAmong(T))
  BY <1>3, PickEffect
<1> QED
  BY <1>4 DEF Told, s

-----------------------------------------------------------------------------
(* The loop over the messages *)

\* The images in S, each once.
SentOnce(images, S) ==
  V!ToSet(images) = S /\ IsFiniteSet(S) /\ Len(images) = Cardinality(S)

\* What is known when the messages pre have been read: the calls in the history stand for
\* tools in N, and texts and images are in the history or in the messages that wait.
Carried(acc, map, pre, N) ==
  /\ Entries(acc.map, N) /\ DOMAIN map \subseteq DOMAIN acc.map
  /\ \A u \in V!UsesOf(acc.history) : Stands(u.name, acc.map, N)
  /\ Columns(acc.history, acc.seen)
  /\ ClientTexts(TextsOf(acc.history)) \o Told(Contents(acc.group)) = Told(Contents(pre))
  /\ SentOnce(ImagesOf(acc.history), acc.seen)
  /\ acc.seen \cup Pictures(V!BlocksOf(acc.group)) = Pictures(V!BlocksOf(pre))

LEMMA NoBlocks ==
    /\ Contents(<< >>) = << >> /\ Told(Contents(<< >>)) = << >>
    /\ V!BlocksOf(<< >>) = {} /\ Pictures(V!BlocksOf(<< >>)) = {}
<1>1. Contents(<< >>) = << >>
  BY DEF Contents, V!FlattenSeq
<1>2. V!BlocksOf(<< >>) = {}
  BY DEF V!BlocksOf
<1>3. Pictures({}) = {}
  BY DEF Pictures
<1> QED
  BY <1>1, <1>2, <1>3, ToldOne

\* The assistant shows no images.
LEMMA NoPictures ==
    ASSUME NEW T, NEW group \in Seq(Said(T)), \A k \in DOMAIN group : group[k].role = "assistant"
    PROVE  Pictures(V!BlocksOf(group)) = {}
<1>1. \A k \in DOMAIN group : group[k] \in Said(T)
  OBVIOUS
<1>2. \A k \in DOMAIN group : \A b \in V!ToSet(group[k].content) :
        b.type \notin {"image", "tool_result"}
  BY <1>1 DEF Said
<1>3. ASSUME NEW b \in V!BlocksOf(group) PROVE b.type \notin {"image", "tool_result"}
  BY <1>2 DEF V!BlocksOf
<1> QED
  BY <1>3 DEF Pictures

LEMMA HistoryTexts ==
    ASSUME NEW M, NEW h, Columns(h, M)
    PROVE  TextsOf(h) \in Seq(Int) /\ ImagesOf(h) \in Seq(M)
<1> DEFINE m == [text |-> << >>, images |-> << >>]
<1>1. m.text = << >> /\ m.images = << >> /\ << >> \in Seq(Int) /\ << >> \in Seq(M)
  OBVIOUS
<1> HIDE DEF m
<1> QED
  BY <1>1, HistoryAppend

\* Another message joins those that wait.
LEMMA GroupJoins ==
    ASSUME NEW T, NEW b, NEW map, NEW pre \in Seq(Said(T)), NEW N, Carried(b, map, pre, N),
           b.group \in Seq(Said(T)), {"history", "group", "map", "seen", "err"} \subseteq DOMAIN b,
           NEW msg \in Said(T)
    PROVE  Carried([b EXCEPT !.group = Append(@, msg)], map, Append(pre, msg), N)
<1> DEFINE d == [b EXCEPT !.group = Append(@, msg)]
           group == b.group
           joined == Append(group, msg)
           A == ClientTexts(TextsOf(b.history))
           R == TextsAmong(T)
<1>1. d.history = b.history /\ d.group = joined /\ d.map = b.map /\ d.seen = b.seen
  OBVIOUS
<1> HIDE DEF d, joined
<1>2. /\ Contents(joined) = Contents(group) \o msg.content
      /\ V!BlocksOf(joined) = V!BlocksOf(group) \cup V!ToSet(msg.content)
      /\ Contents(group) \in Seq(T)
  BY ContentsSteps DEF joined
<1>3. /\ Contents(Append(pre, msg)) = Contents(pre) \o msg.content
      /\ V!BlocksOf(Append(pre, msg)) = V!BlocksOf(pre) \cup V!ToSet(msg.content)
      /\ Contents(pre) \in Seq(T)
  BY ContentsSteps
<1>4. msg.content \in Seq(T)
  BY DEF Said
<1>5. A \o Told(Contents(joined)) = Told(Contents(Append(pre, msg)))
  <2>1. /\ Told(Contents(joined)) = Told(Contents(group)) \o Told(msg.content)
        /\ Told(Contents(Append(pre, msg))) = Told(Contents(pre)) \o Told(msg.content)
    BY <1>2, <1>3, <1>4, ToldConcat
  <2>2. A \in Seq(Int)
    BY HistoryTexts, ClientTextsType DEF Carried
  <2>3. Told(Contents(group)) \in Seq(R) /\ Told(msg.content) \in Seq(R)
    BY <1>2, <1>4, ToldType
  <2>4. A \o Told(Contents(group)) = Told(Contents(pre))
    BY DEF Carried
  <2> DEFINE X == Int \cup R
             B == Told(Contents(group))
             C == Told(msg.content)
  <2>5. A \in Seq(X) /\ B \in Seq(X) /\ C \in Seq(X)
    BY <2>2, <2>3, SeqMonotonic
  <2> HIDE DEF X, A, B, C
  <2>6. (A \o B) \o C = A \o (B \o C)
    BY <2>5, ConcatThree
  <2> QED
    BY <2>1, <2>4, <2>6 DEF B, C
<1>6. b.seen \cup Pictures(V!BlocksOf(joined)) = Pictures(V!BlocksOf(Append(pre, msg)))
  <2>1. /\ Pictures(V!BlocksOf(joined)) = Pictures(V!BlocksOf(group)) \cup Pictures(V!ToSet(msg.content))
        /\ Pictures(V!BlocksOf(Append(pre, msg)))
             = Pictures(V!BlocksOf(pre)) \cup Pictures(V!ToSet(msg.content))
    BY <1>2, <1>3, PicturesUnion
  <2>2. b.seen \cup Pictures(V!BlocksOf(group)) = Pictures(V!BlocksOf(pre))
    BY DEF Carried
  <2> QED
    BY <2>1, <2>2
<1>7. /\ Entries(b.map, N) /\ DOMAIN map \subseteq DOMAIN b.map
      /\ \A u \in V!UsesOf(b.history) : Stands(u.name, b.map, N)
      /\ Columns(b.history, b.seen) /\ SentOnce(ImagesOf(b.history), b.seen)
  BY DEF Carried
<1>8. Carried(d, map, Append(pre, msg), N)
  BY <1>1, <1>5, <1>6, <1>7 DEF Carried
<1> QED
  BY <1>8 DEF d

\* Images that were not shown before are sent after those that were.
LEMMA SentMore ==
    ASSUME NEW S, NEW p \in Seq(S), SentOnce(p, S), NEW q, IsSeq(q), IsFiniteSet(V!ToSet(q)),
           Cardinality(V!ToSet(q)) = Len(q), V!ToSet(q) \cap S = {}
    PROVE  SentOnce(p \o q, S \cup V!ToSet(q))
<1> DEFINE Q == V!ToSet(q)
           U == S \cup Q
<1>1. PICK R : q \in Seq(R)
  BY DEF IsSeq
<1>2. p \in Seq(S \cup R) /\ q \in Seq(S \cup R) /\ Len(p) \in Nat /\ Len(q) \in Nat
  BY <1>1
<1>3. V!ToSet(p \o q) = V!ToSet(p) \cup Q
  BY <1>2, ConcatElements, SameOperators
<1>4. Len(p \o q) = Len(p) + Len(q)
  BY <1>2
<1>5. V!ToSet(p) = S /\ IsFiniteSet(S) /\ Len(p) = Cardinality(S)
  BY DEF SentOnce
<1> HIDE DEF Q
<1>6. IsFiniteSet(U) /\ Cardinality(U) = Cardinality(S) + Cardinality(Q) - Cardinality(S \cap Q)
  BY <1>5, FS_Union DEF Q
<1>7. Cardinality(S \cap Q) = 0
  <2>1. S \cap Q = {}
    BY DEF Q
  <2> QED
    BY <2>1, FS_EmptySet
<1>8. Cardinality(Q) = Len(q)
  BY DEF Q
<1>9. Len(p \o q) = Cardinality(U)
  BY <1>2, <1>4, <1>5, <1>6, <1>7, <1>8
<1> QED
  BY <1>3, <1>5, <1>6, <1>9 DEF SentOnce, Q

\* One more message m in the history, that has the texts of the messages that waited and the
\* images in `more`, each of them for the first time.
LEMMA MessageCarried ==
    ASSUME NEW acc, NEW map, NEW pre, NEW N, Carried(acc, map, pre, N),
           NEW m, m.text \in Seq(Int), ClientTexts(m.text) = Told(Contents(acc.group)),
           IsSeq(m.images), IsFiniteSet(V!ToSet(m.images)),
           Cardinality(V!ToSet(m.images)) = Len(m.images), V!ToSet(m.images) \cap acc.seen = {},
           NEW d, d.history = Append(acc.history, m), d.group = << >>,
           d.seen = acc.seen \cup V!ToSet(m.images),
           d.seen = acc.seen \cup Pictures(V!BlocksOf(acc.group)),
           Entries(d.map, N), DOMAIN acc.map \subseteq DOMAIN d.map,
           \A u \in V!ToSet(m.uses) : Stands(u.name, d.map, N)
    PROVE  Carried(d, map, pre, N)
<1> DEFINE h == acc.history
           g == Append(h, m)
           M == d.seen
<1>1. /\ Entries(acc.map, N) /\ DOMAIN map \subseteq DOMAIN acc.map
      /\ \A u \in V!UsesOf(h) : Stands(u.name, acc.map, N)
      /\ Columns(h, acc.seen)
      /\ ClientTexts(TextsOf(h)) \o Told(Contents(acc.group)) = Told(Contents(pre))
      /\ SentOnce(ImagesOf(h), acc.seen)
      /\ acc.seen \cup Pictures(V!BlocksOf(acc.group)) = Pictures(V!BlocksOf(pre))
  BY DEF Carried
<1> HIDE DEF h, M
<1>2. Columns(h, M)
  <2>1. acc.seen \subseteq M
    BY DEF M
  <2>2. IsSeq(h)
    BY <1>1 DEF Columns
  <2>3. ASSUME NEW k \in DOMAIN h PROVE h[k].text \in Seq(Int) /\ h[k].images \in Seq(M)
    BY <1>1, <2>1, SeqMonotonic DEF Columns
  <2> QED
    BY <2>2, <2>3 DEF Columns
<1>3. m.images \in Seq(M)
  <2>1. V!ToSet(m.images) \subseteq M
    BY DEF M
  <2>2. \A k \in DOMAIN m.images : m.images[k] \in M
    BY <2>1 DEF V!ToSet
  <2> QED
    BY <2>2, SequenceOf
<1>4. /\ Columns(g, M)
      /\ TextsOf(h) \in Seq(Int) /\ TextsOf(g) = TextsOf(h) \o m.text
      /\ ImagesOf(h) \in Seq(M) /\ ImagesOf(g) = ImagesOf(h) \o m.images
      /\ V!UsesOf(g) = V!UsesOf(h) \cup V!ToSet(m.uses)
  BY <1>2, <1>3, HistoryAppend
<1> HIDE DEF g
<1>5. \A u \in V!UsesOf(g) : Stands(u.name, d.map, N)
  BY <1>1, <1>4 DEF Stands
<1>6. ClientTexts(TextsOf(g)) \o Told(Contents(d.group)) = Told(Contents(pre))
  <2>1. ClientTexts(TextsOf(g)) = ClientTexts(TextsOf(h)) \o ClientTexts(m.text)
    BY <1>4, ClientTextsConcat
  <2>2. ClientTexts(TextsOf(g)) = Told(Contents(pre))
    BY <1>1, <2>1
  <2>3. TextsOf(g) \in Seq(Int)
    BY <1>4
  <2>4. ClientTexts(TextsOf(g)) \in Seq(Int)
    BY <2>3, ClientTextsType
  <2> DEFINE A == ClientTexts(TextsOf(g))
  <2>5. Told(Contents(d.group)) = << >>
    BY NoBlocks
  <2>6. A \in Seq(Int)
    BY <2>4
  <2> HIDE DEF A
  <2>7. A \o << >> = A
    BY <2>6
  <2> QED
    BY <2>2, <2>5, <2>7 DEF A
<1>7. SentOnce(ImagesOf(g), M)
  <2> DEFINE p == ImagesOf(h)
             q == m.images
  <2>1. p \in Seq(acc.seen) /\ SentOnce(p, acc.seen)
    BY <1>1, HistoryTexts
  <2>2. IsSeq(q) /\ IsFiniteSet(V!ToSet(q)) /\ Cardinality(V!ToSet(q)) = Len(q)
        /\ V!ToSet(q) \cap acc.seen = {}
    OBVIOUS
  <2> HIDE DEF p, q
  <2>3. SentOnce(p \o q, acc.seen \cup V!ToSet(q))
    BY <2>1, <2>2, SentMore
  <2> QED
    BY <1>4, <2>3 DEF p, q, M
<1>8. d.seen \cup Pictures(V!BlocksOf(d.group)) = Pictures(V!BlocksOf(pre))
  BY <1>1, NoBlocks
<1>9. d.history = g
  BY DEF g, h
<1>10. DOMAIN map \subseteq DOMAIN d.map
  BY <1>1
<1> QED
  BY <1>4, <1>5, <1>6, <1>7, <1>8, <1>9, <1>10 DEF Carried, M

\* The messages that wait are carried into the history.
LEMMA FlushCarried ==
    ASSUME NEW T, Numbered(T), NEW N, NamesIn(T) \subseteq N, NEW acc, NEW map, NEW pre,
           Carried(acc, map, pre, N), acc.group \in Seq(Said(T)), acc.group # << >>,
           \A k \in DOMAIN acc.group : acc.group[k].role = Head(acc.group).role,
           {"history", "group", "map", "seen", "err"} \subseteq DOMAIN acc
    PROVE  /\ Carried(V!flush(acc), map, pre, N)
           /\ V!flush(acc).group = << >> /\ DOMAIN V!flush(acc) = DOMAIN acc
<1> DEFINE group == acc.group
           d == V!flush(acc)
<1>1. Head(group).role \in {"user", "assistant"}
  <2>1. Head(group) \in Said(T)
    OBVIOUS
  <2> QED
    BY <2>1 DEF Said
<1>2. CASE Head(group).role = "user"
  <2> DEFINE u == V!merge_user_messages(group, acc.seen)
             m == V!UserMessage(u)
  <2>1. /\ u.text \in Seq(Int) /\ ClientTexts(u.text) = Told(Contents(group))
        /\ Shown(u, acc.seen) /\ u.seen = acc.seen \cup Pictures(V!BlocksOf(group))
    BY UserTold
  <2>2. d = [acc EXCEPT !.history = Append(@, m), !.seen = u.seen, !.err = @ \/ u.err,
                        !.group = << >>]
    BY <1>2 DEF V!flush, V!flushed_user
  <2>3. m = [role |-> "user", text |-> u.text, images |-> u.images,
             results |-> u.results, uses |-> << >>]
    BY DEF V!UserMessage
  <2> HIDE DEF u, m, d
  <2>4. /\ d.history = Append(acc.history, m) /\ d.group = << >> /\ DOMAIN d = DOMAIN acc
        /\ d.seen = u.seen /\ d.map = acc.map
    BY <2>2
  <2>5. m.text = u.text /\ m.images = u.images /\ V!ToSet(m.uses) = {}
    <3>1. m.uses = << >>
      BY <2>3
    <3>2. V!ToSet(<< >>) = {}
      BY DEF V!ToSet
    <3> QED
      BY <2>3, <3>1, <3>2
  <2>6. /\ IsSeq(m.images) /\ IsFiniteSet(V!ToSet(m.images))
        /\ Cardinality(V!ToSet(m.images)) = Len(m.images) /\ V!ToSet(m.images) \cap acc.seen = {}
        /\ d.seen = acc.seen \cup V!ToSet(m.images)
    BY <2>1, <2>4, <2>5 DEF Shown
  <2>7. Entries(d.map, N)
    BY <2>4 DEF Carried
  <2> HIDE DEF group
  <2>8. /\ m.text \in Seq(Int) /\ ClientTexts(m.text) = Told(Contents(acc.group))
        /\ d.seen = acc.seen \cup Pictures(V!BlocksOf(acc.group))
        /\ DOMAIN acc.map \subseteq DOMAIN d.map
        /\ \A x \in V!ToSet(m.uses) : Stands(x.name, d.map, N)
    BY <2>1, <2>4, <2>5 DEF group
  <2>9. Carried(d, map, pre, N)
    BY <2>4, <2>6, <2>7, <2>8, MessageCarried
  <2> QED
    BY <2>4, <2>9 DEF d
<1>3. CASE Head(group).role = "assistant"
  <2> DEFINE a == V!merge_assistant_messages(group, acc.map)
             m == V!AssistantMessage(a.text, a.uses)
  <2>1. /\ a.text \in Seq(Int) /\ ClientTexts(a.text) = Told(Contents(group))
        /\ Calling(a, N) /\ DOMAIN acc.map \subseteq DOMAIN a.map
    BY AssistantTold DEF Carried
  <2>2. d = [acc EXCEPT !.history = Append(@, m), !.map = a.map, !.err = @ \/ a.err,
                        !.group = << >>]
    BY <1>3 DEF V!flush, V!flushed_assistant
  <2>3. m = [role |-> "assistant", text |-> a.text, images |-> << >>,
             results |-> << >>, uses |-> a.uses]
    BY DEF V!AssistantMessage
  <2>4. Pictures(V!BlocksOf(group)) = {}
    BY <1>3, NoPictures
  <2> HIDE DEF a, m, d
  <2>5. /\ d.history = Append(acc.history, m) /\ d.group = << >> /\ DOMAIN d = DOMAIN acc
        /\ d.seen = acc.seen /\ d.map = a.map
    BY <2>2
  <2>6. m.text = a.text /\ m.images = << >> /\ m.uses = a.uses
    BY <2>3
  <2>7. /\ IsSeq(m.images) /\ V!ToSet(m.images) = {} /\ Len(m.images) = 0
    <3>1. << >> \in Seq({}) /\ V!ToSet(<< >>) = {} /\ Len(<< >>) = 0
      BY DEF V!ToSet
    <3> QED
      BY <2>6, <3>1 DEF IsSeq
  <2>8. /\ IsFiniteSet(V!ToSet(m.images)) /\ Cardinality(V!ToSet(m.images)) = Len(m.images)
        /\ V!ToSet(m.images) \cap acc.seen = {} /\ d.seen = acc.seen \cup V!ToSet(m.images)
    BY <2>5, <2>7, FS_EmptySet
  <2>9. \A x \in V!ToSet(m.uses) : Stands(x.name, d.map, N)
    BY <2>1, <2>5, <2>6 DEF Calling, V!ToSet
  <2>10. Entries(d.map, N) /\ DOMAIN acc.map \subseteq DOMAIN d.map
    BY <2>1, <2>5 DEF Calling
  <2>11. d.seen = acc.seen \cup Pictures(V!BlocksOf(acc.group))
    BY <2>4, <2>5
  <2>12. m.text \in Seq(Int) /\ ClientTexts(m.text) = Told(Contents(acc.group))
    BY <2>1, <2>6
  <2>13. Carried(d, map, pre, N)
    BY <2>5, <2>7, <2>8, <2>9, <2>10, <2>11, <2>12, MessageCarried
  <2> QED
    BY <2>5, <2>13 DEF d
<1> QED
  BY <1>1, <1>2, <1>3

LEMMA BufferCarried ==
    ASSUME NEW T, Numbered(T), NEW N, NamesIn(T) \subseteq N, NEW past \in Seq(Said(T)),
           NEW n \in Nat, n + 1 <= Len(past), NEW acc, Read(acc, past, n, T),
           NEW map, Carried(acc, map, SubSeq(past, 1, n), N)
    PROVE  Carried(V!buffer_message(acc, past[n + 1]), map, SubSeq(past, 1, n + 1), N)
<1> DEFINE msg == past[n + 1]
           pre == SubSeq(past, 1, n)
           d == V!buffer_message(acc, msg)
           b == V!flush(acc)
           group == acc.group
<1>1. msg \in Said(T) /\ pre \in Seq(Said(T)) /\ SubSeq(past, 1, n + 1) = Append(pre, msg)
  BY PrefixSteps
<1>2. /\ group \in Seq(Said(T))
      /\ {"history", "group", "map", "seen", "err"} \subseteq DOMAIN acc
      /\ \A k \in DOMAIN group : group[k].role = past[n].role
  BY DEF Read
<1>3. Carried(acc, map, pre, N)
  OBVIOUS
<1> HIDE DEF msg, pre, b, group
<1>4. CASE group # << >> /\ Head(group).role # msg.role
  <2>1. Head(group).role = past[n].role
    <3>1. 1 \in DOMAIN group /\ Head(group) = group[1]
      BY <1>2, <1>4
    <3> QED
      BY <1>2, <3>1
  <2>2. Carried(b, map, pre, N) /\ b.group = << >> /\ DOMAIN b = DOMAIN acc
    BY <1>2, <1>3, <1>4, <2>1, FlushCarried DEF b, group
  <2>3. d = [b EXCEPT !.group = Append(@, msg)]
    BY <1>4 DEF V!buffer_message, b, group
  <2>4. b.group \in Seq(Said(T))
    BY <2>2
  <2> HIDE DEF d
  <2>5. Carried(d, map, Append(pre, msg), N)
    BY <1>1, <1>2, <2>2, <2>3, <2>4, GroupJoins
  <2> QED
    BY <1>1, <2>5 DEF d, msg
<1>5. CASE ~(group # << >> /\ Head(group).role # msg.role)
  <2>1. d = [acc EXCEPT !.group = Append(@, msg)]
    BY <1>5 DEF V!buffer_message, group
  <2>2. acc.group \in Seq(Said(T))
    BY <1>2 DEF group
  <2> HIDE DEF d
  <2>3. Carried(d, map, Append(pre, msg), N)
    BY <1>1, <1>2, <1>3, <2>1, <2>2, GroupJoins
  <2> QED
    BY <1>1, <2>3 DEF d, msg
<1> QED
  BY <1>4, <1>5

\* A message that only the converter writes.
LEMMA OwnCarried ==
    ASSUME NEW acc, NEW map, NEW pre, NEW N, Carried(acc, map, pre, N), acc.group = << >>,
           NEW m, m.text \in Seq(Int), ClientTexts(m.text) = << >>, m.images = << >>, m.uses = << >>,
           NEW d, d.history = Append(acc.history, m), d.group = << >>, d.seen = acc.seen,
           d.map = acc.map
    PROVE  Carried(d, map, pre, N)
<1>1. V!ToSet(<< >>) = {} /\ << >> \in Seq({}) /\ Len(<< >>) = 0
  BY DEF V!ToSet
<1>2. IsFiniteSet({}) /\ Cardinality({}) = 0
  BY FS_EmptySet
<1>3. /\ IsSeq(m.images) /\ IsFiniteSet(V!ToSet(m.images))
      /\ Cardinality(V!ToSet(m.images)) = Len(m.images) /\ V!ToSet(m.images) \cap acc.seen = {}
      /\ d.seen = acc.seen \cup V!ToSet(m.images)
  BY <1>1, <1>2 DEF IsSeq
<1>4. /\ ClientTexts(m.text) = Told(Contents(acc.group))
      /\ d.seen = acc.seen \cup Pictures(V!BlocksOf(acc.group))
  BY NoBlocks
<1>5. Entries(d.map, N) /\ DOMAIN acc.map \subseteq DOMAIN d.map
  BY DEF Carried
<1>6. \A u \in V!ToSet(m.uses) : Stands(u.name, d.map, N)
  BY <1>1
<1> QED
  BY <1>3, <1>4, <1>5, <1>6, MessageCarried

\* What the converter writes is not the client's.
LEMMA OwnTexts ==
    /\ \A x \in 1000 .. 1002 : <<x>> \in Seq(Int) /\ ClientTexts(<<x>>) = << >>
    /\ \A s \in Seq(Int), x \in 1000 .. 1002 :
         ClientTexts(s) = << >> => s \o <<x>> \in Seq(Int) /\ ClientTexts(s \o <<x>>) = << >>
<1> DEFINE W == 1 .. 999
           Own == 1000 .. 1002
<1>1. \A x \in Own : x \notin W /\ x \in Int
  OBVIOUS
<1>2. \A x : ClientTexts(<<x>>) = IF x \in W THEN <<x>> ELSE << >>
  BY ClientTextsOne
<1> HIDE DEF W, Own
<1>3. ASSUME NEW x \in Own PROVE <<x>> \in Seq(Int) /\ ClientTexts(<<x>>) = << >>
  <2>1. x \in Int /\ x \notin W
    BY <1>1
  <2>2. ClientTexts(<<x>>) = << >>
    BY <1>2, <2>1
  <2>3. <<x>> \in Seq(Int)
    BY <2>1
  <2> QED
    BY <2>2, <2>3
<1>4. ASSUME NEW s \in Seq(Int), NEW x \in Own, ClientTexts(s) = << >>
      PROVE  s \o <<x>> \in Seq(Int) /\ ClientTexts(s \o <<x>>) = << >>
  <2> DEFINE t == <<x>>
  <2>1. t \in Seq(Int) /\ ClientTexts(t) = << >>
    BY <1>3
  <2> HIDE DEF t
  <2>2. ClientTexts(s \o t) = ClientTexts(s) \o ClientTexts(t)
    BY <2>1, ClientTextsConcat
  <2>4. s \o t \in Seq(Int)
    BY <2>1
  <2>3. << >> \o << >> = << >>
    OBVIOUS
  <2> QED
    BY <1>4, <2>1, <2>2, <2>3, <2>4 DEF t
<1> QED
  BY <1>3, <1>4 DEF Own

\* Before the first message.
LEMMA SystemCarried ==
    ASSUME NEW N, NEW map, Entries(map, N), NEW a, a.history = V!system_messages, a.group = << >>,
           a.map = map, a.seen = {}
    PROVE  Carried(a, map, << >>, N)
<1> DEFINE u(text) == V!UserMessage([text |-> text, images |-> << >>, results |-> << >>])
           tags == IF V!NeedsPrefix /\ req.system # "tagged" THEN <<1000>> ELSE << >>
           s == V!system_messages
           r == V!Reply
           e == [history |-> << >>, group |-> << >>, map |-> map, seen |-> {}]
<1>1. s = IF req.system \in {"given", "tagged"} THEN <<u(tags \o <<1001>>), r>>
          ELSE IF req.system = "none" /\ V!NeedsPrefix THEN <<u(<<1000>>), r>>
          ELSE << >>
  BY DEF V!system_messages, V!Prompt, V!Policy
<1>2. r.text = <<1002>> /\ r.images = << >> /\ r.uses = << >>
  BY DEF V!Reply, V!AssistantMessage
<1>3. \A t : u(t).text = t /\ u(t).images = << >> /\ u(t).uses = << >>
  BY DEF V!UserMessage
<1>4. e.history = << >> /\ e.group = << >> /\ e.map = map /\ e.seen = {}
  OBVIOUS
<1> HIDE DEF u, r, e
<1>5. ASSUME NEW c, c.history = << >>, c.group = << >>, c.map = map, c.seen = {}
      PROVE  Carried(c, map, << >>, N)
  <2>1. /\ << >> \in Seq({}) /\ DOMAIN << >> = {} /\ V!ToSet(<< >>) = {} /\ Len(<< >>) = 0
        /\ << >> \o << >> = << >>
    BY DEF V!ToSet
  <2>2. V!UsesOf(<< >>) = {} /\ TextsOf(<< >>) = << >> /\ ImagesOf(<< >>) = << >>
    BY DEF V!UsesOf, TextsOf, ImagesOf, V!FlattenSeq
  <2>3. Columns(<< >>, {})
    BY <2>1 DEF Columns, IsSeq
  <2>4. SentOnce(<< >>, {})
    BY <2>1, FS_EmptySet DEF SentOnce
  <2>5. ClientTexts(<< >>) \o Told(Contents(<< >>)) = Told(Contents(<< >>))
    BY <2>1, NoBlocks, ClientTextsOne
  <2> QED
    BY <1>5, <2>2, <2>3, <2>4, <2>5, NoBlocks DEF Carried
<1>6. ASSUME NEW t \in Seq(Int), ClientTexts(t) = << >>, s = <<u(t), r>>
      PROVE  Carried(a, map, << >>, N)
  <2> DEFINE h == Append(<< >>, u(t))
             b == [history |-> h, group |-> << >>, map |-> map, seen |-> {}]
  <2>1. s = Append(h, r)
    BY <1>6
  <2>2. b.history = h /\ b.group = << >> /\ b.map = map /\ b.seen = {}
    OBVIOUS
  <2> HIDE DEF b
  <2>3. /\ b.history = Append(e.history, u(t)) /\ b.group = << >> /\ b.seen = e.seen
        /\ b.map = e.map
    BY <1>4, <2>2
  <2>4. u(t).text \in Seq(Int) /\ ClientTexts(u(t).text) = << >> /\ u(t).images = << >>
        /\ u(t).uses = << >>
    BY <1>3, <1>6
  <2>9. Carried(e, map, << >>, N)
    BY <1>4, <1>5
  <2>5. Carried(b, map, << >>, N)
    BY <1>4, <2>3, <2>4, <2>9, OwnCarried
  <2>6. r.text \in Seq(Int) /\ ClientTexts(r.text) = << >>
    BY <1>2, OwnTexts
  <2> HIDE DEF h, s
  <2>7. a.history = Append(b.history, r) /\ a.seen = b.seen /\ a.map = b.map
    BY <2>1, <2>2 DEF s
  <2>8. b.group = << >> /\ a.group = << >>
    BY <2>2
  <2>10. r.images = << >> /\ r.uses = << >>
    BY <1>2
  <2> QED
    BY ONLY <2>5, <2>6, <2>7, <2>8, <2>10, OwnCarried
<1>7. CASE s = << >>
  <2>1. a.history = << >> /\ a.group = << >> /\ a.map = map /\ a.seen = {}
    BY <1>7
  <2> QED
    BY ONLY <1>5, <2>1
<1>8. CASE s = <<u(<<1000>>), r>>
  <2> DEFINE Own == 1000 .. 1002
             t == <<1000>>
  <2>1. 1000 \in Own /\ \A x \in Own : <<x>> \in Seq(Int) /\ ClientTexts(<<x>>) = << >>
    BY OwnTexts
  <2> HIDE DEF Own
  <2>2. t \in Seq(Int) /\ ClientTexts(t) = << >>
    BY ONLY <2>1
  <2> HIDE DEF t, s
  <2> QED
    BY <1>6, <1>8, <2>2 DEF t
<1>9. CASE s = <<u(tags \o <<1001>>), r>>
  <2> DEFINE t == tags \o <<1001>>
  <2>1. tags \in Seq(Int) /\ ClientTexts(tags) = << >>
    <3>1. tags = << >> \/ tags = <<1000>>
      OBVIOUS
    <3>2. << >> \in Seq(Int)
      OBVIOUS
    <3> DEFINE Own == 1000 .. 1002
    <3>3. 1000 \in Own /\ \A x \in Own : <<x>> \in Seq(Int) /\ ClientTexts(<<x>>) = << >>
      BY OwnTexts
    <3>4. ClientTexts(<< >>) = << >>
      BY ClientTextsOne
    <3> HIDE DEF tags, Own
    <3>5. <<1000>> \in Seq(Int) /\ ClientTexts(<<1000>>) = << >>
      BY ONLY <3>3
    <3>6. CASE tags = << >>
      BY ONLY <3>2, <3>4, <3>6
    <3>7. CASE tags = <<1000>>
      BY ONLY <3>5, <3>7
    <3> QED
      BY ONLY <3>1, <3>6, <3>7
  <2> HIDE DEF tags
  <2>2. t \in Seq(Int) /\ ClientTexts(t) = << >>
    BY <2>1, OwnTexts
  <2> HIDE DEF t, s
  <2> QED
    BY <1>6, <1>9, <2>2 DEF t
<1> HIDE DEF s, tags
<1> QED
  BY <1>1, <1>7, <1>8, <1>9

\* The loop over the messages, by its steps.
Builds(f, past, map) ==
  /\ f[0] = [history |-> V!system_messages, group |-> << >>, map |-> map, seen |-> {},
             err |-> FALSE]
  /\ \A k \in 1 .. Len(past) : f[k] = V!buffer_message(f[k - 1], past[k])
  /\ V!build_history(past, map) = V!with_reply(past, V!flush(f[Len(past)]))

LEMMA BuildSteps ==
    ASSUME NEW past, NEW map, Len(past) \in Nat
    PROVE  \E f : Builds(f, past, map)
<1> DEFINE L == Len(past)
           a == [history |-> V!system_messages, group |-> << >>, map |-> map, seen |-> {},
                 err |-> FALSE]
           f == CHOOSE f : f = [k \in 0 .. L |->
                  IF k = 0 THEN a ELSE V!buffer_message(f[k - 1], past[k])]
<1>1. V!build_history(past, map) = V!with_reply(past, V!flush(f[L]))
  BY DEF V!build_history
<1>2. IsLoop(f, "history", 0, a, past, L)
  <2> HIDE DEF a
  <2>1. PICK g : IsLoop(g, "history", 0, a, past, L)
    BY LoopExists
  <2> QED
    BY <2>1 DEF IsLoop, Step
<1> HIDE DEF f
<1>3. f[0] = a /\ \A k \in 1 .. L : f[k] = V!buffer_message(f[k - 1], past[k])
  <2> HIDE DEF a
  <2> QED
    BY <1>2 DEF IsLoop, Step
<1> QED
  BY <1>1, <1>3 DEF Builds

LEMMA BuiltCarried ==
    ASSUME NEW T, Numbered(T), NEW past \in Seq(Said(T)), NEW N, NamesIn(T) \subseteq N,
           NEW map, Entries(map, N)
    PROVE  LET e == V!build_history(past, map)
           IN Carried(e, map, past, N) /\ e.group = << >>
<1> DEFINE L == Len(past)
           e == V!build_history(past, map)
<1>1. L \in Nat
  OBVIOUS
<1>2. PICK f : Builds(f, past, map)
  BY <1>1, BuildSteps
<1> DEFINE a == f[0]
           Pre(n) == SubSeq(past, 1, n)
           OK(n) == Read(f[n], past, n, T) /\ Carried(f[n], map, Pre(n), N)
           S == {n \in Nat : n <= L => OK(n)}
           d == V!flush(f[L])
<1>3. /\ a = [history |-> V!system_messages, group |-> << >>, map |-> map, seen |-> {},
              err |-> FALSE]
      /\ \A k \in 1 .. L : f[k] = V!buffer_message(f[k - 1], past[k])
      /\ e = V!with_reply(past, d)
  BY <1>2 DEF Builds
<1>4. Pre(0) = << >> /\ Pre(L) = past
  BY PrefixSteps
<1> HIDE DEF Pre, d, e, a
<1>5. /\ {"history", "group", "map", "seen", "err"} \subseteq DOMAIN a
      /\ a.history = V!system_messages /\ a.group = << >> /\ a.map = map /\ a.seen = {}
  BY <1>3
<1>6. 0 \in S
  <2>1. << >> \in Seq(Said(T)) /\ DOMAIN << >> = {}
    OBVIOUS
  <2>2. Read(a, past, 0, T)
    BY <1>5, <2>1, SystemMessages DEF Read
  <2>3. Carried(a, map, << >>, N)
    BY <1>5, SystemCarried
  <2>4. OK(0)
    BY <1>4, <2>2, <2>3 DEF a
  <2> HIDE DEF OK
  <2> QED
    BY <2>4
<1>7. \A n \in Nat : n \in S => n + 1 \in S
  <2> HIDE DEF OK
  <2> SUFFICES ASSUME NEW n \in Nat, n <= L => OK(n), n + 1 <= L PROVE OK(n + 1)
    OBVIOUS
  <2>1. n <= L /\ n + 1 \in 1 .. L /\ (n + 1) - 1 = n
    BY <1>1
  <2>2. f[n + 1] = V!buffer_message(f[n], past[n + 1])
    BY <1>3, <2>1
  <2>3. Read(f[n], past, n, T) /\ Carried(f[n], map, SubSeq(past, 1, n), N)
    BY <2>1 DEF OK, Pre
  <2>4. Read(f[n + 1], past, n + 1, T)
    BY <2>2, <2>3, ReadsOne
  <2>5. Carried(f[n + 1], map, SubSeq(past, 1, n + 1), N)
    BY <2>2, <2>3, BufferCarried
  <2> QED
    BY <2>4, <2>5 DEF OK, Pre
<1>8. Nat \subseteq S
  <2> HIDE DEF S
  <2> QED
    BY <1>6, <1>7, NatSet
<1>9. Read(f[L], past, L, T) /\ Carried(f[L], map, past, N)
  BY <1>1, <1>4, <1>8
<1>10. CASE L = 0
  <2>1. past = << >> /\ f[L] = a
    BY <1>10 DEF a
  <2>2. d = a
    BY <1>5, <2>1 DEF V!flush, d
  <2>3. e = a
    BY <1>3, <2>1, <2>2 DEF V!with_reply
  <2> QED
    BY <1>5, <1>9, <2>1, <2>3 DEF e
<1>11. CASE L # 0
  <2> DEFINE b == f[L]
  <2>1. /\ b.group \in Seq(Said(T)) /\ b.group # << >>
        /\ \A k \in DOMAIN b.group : b.group[k].role = past[L].role
        /\ {"history", "group", "map", "seen", "err"} \subseteq DOMAIN b
    BY <1>9, <1>11 DEF Read
  <2>2. Carried(b, map, past, N) /\ d = V!flush(b)
    BY <1>9 DEF d
  <2> HIDE DEF b
  <2>3. \A k \in DOMAIN b.group : b.group[k].role = Head(b.group).role
    <3>1. 1 \in DOMAIN b.group /\ Head(b.group) = b.group[1]
      BY <2>1
    <3> QED
      BY <2>1, <3>1
  <2>4. Carried(d, map, past, N) /\ d.group = << >> /\ DOMAIN d = DOMAIN b
    BY <2>1, <2>2, <2>3, FlushCarried
  <2>5. CASE e = d
    BY <2>4, <2>5 DEF e
  <2>6. CASE e = [d EXCEPT !.history = Append(@, V!Reply)]
    <3> DEFINE r == V!Reply
    <3>1. r.text = <<1002>> /\ r.images = << >> /\ r.uses = << >>
      BY DEF V!Reply, V!AssistantMessage
    <3>2. r.text \in Seq(Int) /\ ClientTexts(r.text) = << >>
      BY <3>1, OwnTexts
    <3> HIDE DEF r
    <3>3. /\ e.history = Append(d.history, r) /\ e.group = << >> /\ e.seen = d.seen
          /\ e.map = d.map
      BY <2>1, <2>4, <2>6 DEF r
    <3>4. r.images = << >> /\ r.uses = << >> /\ d.group = << >> /\ Carried(d, map, past, N)
      BY <2>4, <3>1
    <3>5. Carried(e, map, past, N)
      BY ONLY <3>2, <3>3, <3>4, OwnCarried
    <3> QED
      BY <3>3, <3>5 DEF e
  <2> QED
    BY <1>3, <2>5, <2>6 DEF V!with_reply
<1> QED
  BY <1>10, <1>11

-----------------------------------------------------------------------------
(* The arguments of calls *)

\* The first of the fields that is there.
LEMMA TakeFirst ==
    ASSUME NEW obj, NEW a, NEW b
    PROVE  /\ V!take_first(obj, <<a>>) = IF a \in DOMAIN obj THEN obj[a] ELSE Null
           /\ V!take_first(obj, <<a, b>>) = IF a \in DOMAIN obj THEN obj[a]
                                            ELSE IF b \in DOMAIN obj THEN obj[b] ELSE Null
<1>1. ASSUME NEW keys, NEW n \in {1, 2}, DOMAIN keys = 1 .. n
      PROVE  V!take_first(obj, keys) = IF keys[1] \in DOMAIN obj THEN obj[keys[1]]
                                       ELSE IF n = 2 /\ keys[2] \in DOMAIN obj THEN obj[keys[2]]
                                       ELSE Null
  <2> DEFINE P == {k \in DOMAIN keys : keys[k] \in DOMAIN obj}
             m == V!Min(P)
  <2>1. V!take_first(obj, keys) = IF P = {} THEN Null ELSE obj[keys[m]]
    BY DEF V!take_first
  <2>2. m = CHOOSE x \in P : \A y \in P : x <= y
    BY DEF V!Min
  <2>3. P \subseteq {1, 2} /\ (1 \in P <=> keys[1] \in DOMAIN obj)
        /\ (2 \in P <=> n = 2 /\ keys[2] \in DOMAIN obj)
    BY <1>1
  <2> HIDE DEF P, m
  <2>4. CASE 1 \in P
    <3>1. 1 \in P /\ \A y \in P : 1 <= y
      BY <2>3, <2>4
    <3>2. m \in P /\ \A y \in P : m <= y
      BY <2>2, <3>1
    <3>3. m = 1
      BY <2>3, <3>1, <3>2
    <3> QED
      BY <2>1, <2>3, <2>4, <3>3
  <2>5. CASE 1 \notin P /\ 2 \in P
    <3>1. P = {2}
      BY <2>3, <2>5
    <3>2. \A y \in P : 2 <= y
      BY <3>1
    <3>3. m \in P
      BY <2>2, <2>5, <3>2
    <3> QED
      BY <2>1, <2>3, <2>5, <3>1, <3>3
  <2>6. CASE 1 \notin P /\ 2 \notin P
    BY <2>1, <2>3, <2>6
  <2> QED
    BY <2>4, <2>5, <2>6
<1>2. DOMAIN <<a>> = 1 .. 1 /\ <<a>>[1] = a /\ DOMAIN <<a, b>> = 1 .. 2 /\ <<a, b>>[1] = a
      /\ <<a, b>>[2] = b
  OBVIOUS
<1>3. V!take_first(obj, <<a>>) = IF a \in DOMAIN obj THEN obj[a] ELSE Null
  <2> DEFINE keys == <<a>>
  <2>1. DOMAIN keys = 1 .. 1 /\ keys[1] = a
    OBVIOUS
  <2> HIDE DEF keys
  <2>2. V!take_first(obj, keys) = IF a \in DOMAIN obj THEN obj[a] ELSE Null
    BY <1>1, <2>1
  <2> QED
    BY <2>2 DEF keys
<1>4. V!take_first(obj, <<a, b>>) = IF a \in DOMAIN obj THEN obj[a]
                                    ELSE IF b \in DOMAIN obj THEN obj[b] ELSE Null
  <2> DEFINE keys == <<a, b>>
  <2>1. DOMAIN keys = 1 .. 2 /\ keys[1] = a /\ keys[2] = b
    OBVIOUS
  <2> HIDE DEF keys
  <2>2. V!take_first(obj, keys) = IF a \in DOMAIN obj THEN obj[a]
                                  ELSE IF b \in DOMAIN obj THEN obj[b] ELSE Null
    BY <1>1, <2>1
  <2> QED
    BY <2>2 DEF keys
<1> QED
  BY <1>3, <1>4

\* No two rows give the same field.
Keyed(rows) == \A r, s \in rows : r[1] = s[1] => r = s

\* A row gives its field unless the value is null.
LEMMA RowsGive ==
    ASSUME NEW obj, NEW rows, Keyed(rows)
    PROVE  LET out == V!maybe_insert(obj, rows)
           IN /\ out = [k \in DOMAIN out |-> out[k]]
              /\ DOMAIN out = {r[1] : r \in {q \in rows : V!take_first(obj, q[2]) # Null}}
              /\ \A r \in rows : r[1] \in DOMAIN out => out[r[1]] = V!take_first(obj, r[2])
<1> DEFINE out == V!maybe_insert(obj, rows)
           D == {r[1] : r \in {q \in rows : V!take_first(obj, q[2]) # Null}}
<1>1. out = [k \in D |-> V!take_first(obj, (CHOOSE r \in rows : r[1] = k)[2])]
  BY DEF V!maybe_insert
<1> HIDE DEF out, D
<1>2. DOMAIN out = D /\ out = [k \in DOMAIN out |-> out[k]]
  BY <1>1
<1>3. ASSUME NEW r \in rows, r[1] \in DOMAIN out PROVE out[r[1]] = V!take_first(obj, r[2])
  <2>1. (CHOOSE s \in rows : s[1] = r[1]) = r
    BY DEF Keyed
  <2> QED
    BY <1>1, <1>2, <1>3, <2>1
<1> QED
  BY <1>2, <1>3 DEF out, D

LEMMA RowGives ==
    ASSUME NEW obj, NEW rows, Keyed(rows)
    PROVE  LET out == V!maybe_insert(obj, rows)
           IN /\ \A k \in DOMAIN out : \E r \in rows : r[1] = k
              /\ \A r \in rows :
                   /\ r[1] \in DOMAIN out <=> V!take_first(obj, r[2]) # Null
                   /\ r[1] \in DOMAIN out => out[r[1]] = V!take_first(obj, r[2])
<1> DEFINE out == V!maybe_insert(obj, rows)
<1>1. /\ DOMAIN out = {r[1] : r \in {q \in rows : V!take_first(obj, q[2]) # Null}}
      /\ \A r \in rows : r[1] \in DOMAIN out => out[r[1]] = V!take_first(obj, r[2])
  BY RowsGive
<1> HIDE DEF out
<1> QED
  BY <1>1 DEF out

LEMMA OverEffect ==
    ASSUME NEW a, NEW b, NEW o, o = V!Over(a, b)
    PROVE  /\ o = [k \in DOMAIN o |-> o[k]] /\ DOMAIN o = DOMAIN a \cup DOMAIN b
           /\ \A k \in DOMAIN a : o[k] = a[k]
           /\ \A k \in DOMAIN b \ DOMAIN a : o[k] = b[k]
  BY DEF V!Over

LEMMA SameFunction ==
    ASSUME NEW f, NEW g, f = [k \in DOMAIN f |-> f[k]], g = [k \in DOMAIN g |-> g[k]],
           DOMAIN f = DOMAIN g, \A k \in DOMAIN f : f[k] = g[k]
    PROVE  f = g
  OBVIOUS

\* The rows copy from obj the fields of i that are in the domain of `to`, under the names
\* that `to` gives them.
Copies(obj, rows, i, to) ==
  /\ Keyed(rows)
  /\ \A k \in DOMAIN to : \E r \in rows :
       r[1] = to[k] /\ V!take_first(obj, r[2]) = IF k \in DOMAIN i THEN i[k] ELSE Null
  /\ \A r \in rows : (\E k \in DOMAIN to : r[1] = to[k]) \/ V!take_first(obj, r[2]) = Null

LEMMA CopyEffect ==
    ASSUME NEW obj, NEW rows, NEW i, \A k \in DOMAIN i : i[k] # Null, NEW to,
           Copies(obj, rows, i, to)
    PROVE  LET out == V!maybe_insert(obj, rows)
           IN /\ out = [k \in DOMAIN out |-> out[k]]
              /\ \A x \in DOMAIN out : \E k \in DOMAIN to \cap DOMAIN i : x = to[k]
              /\ \A k \in DOMAIN to \cap DOMAIN i : to[k] \in DOMAIN out /\ out[to[k]] = i[k]
<1> DEFINE out == V!maybe_insert(obj, rows)
<1>1. out = [k \in DOMAIN out |-> out[k]]
  BY RowsGive DEF Copies
<1>2. /\ \A k \in DOMAIN out : \E r \in rows : r[1] = k
      /\ \A r \in rows :
           /\ r[1] \in DOMAIN out <=> V!take_first(obj, r[2]) # Null
           /\ r[1] \in DOMAIN out => out[r[1]] = V!take_first(obj, r[2])
  BY RowGives DEF Copies
<1> HIDE DEF out
<1>3. ASSUME NEW k \in DOMAIN to
      PROVE  /\ to[k] \in DOMAIN out <=> k \in DOMAIN i
             /\ k \in DOMAIN i => out[to[k]] = i[k]
  <2>1. PICK r \in rows :
          r[1] = to[k] /\ V!take_first(obj, r[2]) = IF k \in DOMAIN i THEN i[k] ELSE Null
    BY DEF Copies
  <2> QED
    BY <1>2, <2>1
<1>4. ASSUME NEW x \in DOMAIN out PROVE \E k \in DOMAIN to \cap DOMAIN i : x = to[k]
  <2>1. PICK r \in rows : r[1] = x
    BY <1>2
  <2>2. V!take_first(obj, r[2]) # Null
    BY <1>2, <2>1
  <2>3. PICK k \in DOMAIN to : r[1] = to[k]
    BY <2>2 DEF Copies
  <2> QED
    BY <1>3, <2>1, <2>3
<1> QED
  BY <1>1, <1>3, <1>4 DEF out

\* The fields for Kiro that the rows give the fields of a client.
KiroField ==
  [Write |-> [file_path |-> "path", content |-> "text"],
   Edit |-> [file_path |-> "path", old_string |-> "oldStr", new_string |-> "newStr"],
   Bash |-> [command |-> "command", timeout |-> "timeout"],
   Read |-> [file_path |-> "path"],
   Glob |-> [pattern |-> "query"],
   Grep |-> [pattern |-> "query", glob |-> "includePattern", case_sensitive |-> "caseSensitive"],
   LS |-> [path |-> "path"],
   WebSearch |-> [query |-> "query"]]

LEMMA ToKiro ==
    ASSUME NEW name \in DOMAIN V!Builtin, NEW i, DOMAIN i \subseteq Needed[name] \cup Optional[name]
    PROVE  Copies(i, V!RowsToKiro[name], i, KiroField[name])
<1> DEFINE rows == V!RowsToKiro[name]
           to == KiroField[name]
           Get(k) == IF k \in DOMAIN i THEN i[k] ELSE Null
<1>1. DOMAIN i \subseteq Needed[name] \cup Optional[name]
  OBVIOUS
<1>2. \A a, b : /\ V!take_first(i, <<a>>) = Get(a)
                /\ V!take_first(i, <<a, b>>) = IF a \in DOMAIN i THEN i[a] ELSE Get(b)
  BY TakeFirst
<1>3. CASE name = "Write"
  <2>1. /\ rows = {<<"path", <<"file_path", "path">>>>, <<"text", <<"content", "text">>>>}
        /\ DOMAIN to = {"file_path", "content"} /\ to["file_path"] = "path"
        /\ to["content"] = "text"
    BY <1>3 DEF V!RowsToKiro, V!Explanation, KiroField
  <2>2. /\ V!take_first(i, <<"file_path", "path">>) = Get("file_path")
        /\ V!take_first(i, <<"content", "text">>) = Get("content")
    BY <1>1, <1>2, <1>3, <2>1 DEF Needed, Optional
  <2> HIDE DEF rows, to, Get
  <2>3. Keyed(rows)
    BY <2>1 DEF Keyed
  <2>4. \A k \in DOMAIN to : \E r \in rows : r[1] = to[k] /\ V!take_first(i, r[2]) = Get(k)
    BY <2>1, <2>2
  <2>5. \A r \in rows : (\E k \in DOMAIN to : r[1] = to[k]) \/ V!take_first(i, r[2]) = Null
    BY <2>1, <2>2
  <2> QED
    BY <2>3, <2>4, <2>5 DEF Copies, Get, rows, to
<1>4. CASE name = "Edit"
  <2>1. /\ rows = {<<"path", <<"file_path", "path">>>>,
                   <<"oldStr", <<"old_string", "oldStr">>>>,
                   <<"newStr", <<"new_string", "newStr">>>>}
        /\ DOMAIN to = {"file_path", "old_string", "new_string"} /\ to["file_path"] = "path"
        /\ to["old_string"] = "oldStr" /\ to["new_string"] = "newStr"
    BY <1>4 DEF V!RowsToKiro, V!Explanation, KiroField
  <2>2. /\ V!take_first(i, <<"file_path", "path">>) = Get("file_path")
        /\ V!take_first(i, <<"old_string", "oldStr">>) = Get("old_string")
        /\ V!take_first(i, <<"new_string", "newStr">>) = Get("new_string")
    BY <1>1, <1>2, <1>4, <2>1 DEF Needed, Optional
  <2> HIDE DEF rows, to, Get
  <2>3. Keyed(rows)
    BY <2>1 DEF Keyed
  <2>4. \A k \in DOMAIN to : \E r \in rows : r[1] = to[k] /\ V!take_first(i, r[2]) = Get(k)
    BY <2>1, <2>2
  <2>5. \A r \in rows : (\E k \in DOMAIN to : r[1] = to[k]) \/ V!take_first(i, r[2]) = Null
    BY <2>1, <2>2
  <2> QED
    BY <2>3, <2>4, <2>5 DEF Copies, Get, rows, to
<1>5. CASE name = "Bash"
  <2>1. /\ rows = {<<"command", <<"command">>>>, <<"timeout", <<"timeout">>>>}
        /\ DOMAIN to = {"command", "timeout"} /\ to["command"] = "command"
        /\ to["timeout"] = "timeout"
    BY <1>5 DEF V!RowsToKiro, V!Explanation, KiroField
  <2>2. /\ V!take_first(i, <<"command">>) = Get("command")
        /\ V!take_first(i, <<"timeout">>) = Get("timeout")
    BY <1>1, <1>2, <1>5, <2>1 DEF Needed, Optional
  <2> HIDE DEF rows, to, Get
  <2>3. Keyed(rows)
    BY <2>1 DEF Keyed
  <2>4. \A k \in DOMAIN to : \E r \in rows : r[1] = to[k] /\ V!take_first(i, r[2]) = Get(k)
    BY <2>1, <2>2
  <2>5. \A r \in rows : (\E k \in DOMAIN to : r[1] = to[k]) \/ V!take_first(i, r[2]) = Null
    BY <2>1, <2>2
  <2> QED
    BY <2>3, <2>4, <2>5 DEF Copies, Get, rows, to
<1>6. CASE name = "Read"
  <2>1. /\ rows = {<<"path", <<"file_path", "path">>>>,
                   <<"explanation", <<"explanation">>>>}
        /\ DOMAIN to = {"file_path"} /\ to["file_path"] = "path"
    BY <1>6 DEF V!RowsToKiro, V!Explanation, KiroField
  <2>2. /\ V!take_first(i, <<"file_path", "path">>) = Get("file_path")
        /\ V!take_first(i, <<"explanation">>) = Null
    BY <1>1, <1>2, <1>6, <2>1 DEF Needed, Optional
  <2> HIDE DEF rows, to, Get
  <2>3. Keyed(rows)
    BY <2>1 DEF Keyed
  <2>4. \A k \in DOMAIN to : \E r \in rows : r[1] = to[k] /\ V!take_first(i, r[2]) = Get(k)
    BY <2>1, <2>2
  <2>5. \A r \in rows : (\E k \in DOMAIN to : r[1] = to[k]) \/ V!take_first(i, r[2]) = Null
    BY <2>1, <2>2
  <2> QED
    BY <2>3, <2>4, <2>5 DEF Copies, Get, rows, to
<1>7. CASE name = "Glob"
  <2>1. /\ rows = {<<"query", <<"pattern", "query">>>>,
                   <<"excludePattern", <<"excludePattern", "exclude">>>>,
                   <<"explanation", <<"explanation">>>>}
        /\ DOMAIN to = {"pattern"} /\ to["pattern"] = "query"
    BY <1>7 DEF V!RowsToKiro, V!Explanation, KiroField
  <2>2. /\ V!take_first(i, <<"pattern", "query">>) = Get("pattern")
        /\ V!take_first(i, <<"excludePattern", "exclude">>) = Null
        /\ V!take_first(i, <<"explanation">>) = Null
    BY <1>1, <1>2, <1>7, <2>1 DEF Needed, Optional
  <2> HIDE DEF rows, to, Get
  <2>3. Keyed(rows)
    BY <2>1 DEF Keyed
  <2>4. \A k \in DOMAIN to : \E r \in rows : r[1] = to[k] /\ V!take_first(i, r[2]) = Get(k)
    BY <2>1, <2>2
  <2>5. \A r \in rows : (\E k \in DOMAIN to : r[1] = to[k]) \/ V!take_first(i, r[2]) = Null
    BY <2>1, <2>2
  <2> QED
    BY <2>3, <2>4, <2>5 DEF Copies, Get, rows, to
<1>8. CASE name = "Grep"
  <2>1. /\ rows = {<<"query", <<"pattern", "query">>>>,
                   <<"includePattern", <<"glob", "includePattern">>>>,
                   <<"excludePattern", <<"excludePattern", "exclude">>>>,
                   <<"caseSensitive", <<"caseSensitive", "case_sensitive">>>>,
                   <<"explanation", <<"explanation">>>>}
        /\ DOMAIN to = {"pattern", "glob", "case_sensitive"} /\ to["pattern"] = "query"
        /\ to["glob"] = "includePattern" /\ to["case_sensitive"] = "caseSensitive"
    BY <1>8 DEF V!RowsToKiro, V!Explanation, KiroField
  <2>2. /\ V!take_first(i, <<"pattern", "query">>) = Get("pattern")
        /\ V!take_first(i, <<"glob", "includePattern">>) = Get("glob")
        /\ V!take_first(i, <<"caseSensitive", "case_sensitive">>) = Get("case_sensitive")
        /\ V!take_first(i, <<"excludePattern", "exclude">>) = Null
        /\ V!take_first(i, <<"explanation">>) = Null
    BY <1>1, <1>2, <1>8, <2>1 DEF Needed, Optional
  <2> HIDE DEF rows, to, Get
  <2>3. Keyed(rows)
    BY <2>1 DEF Keyed
  <2>4. \A k \in DOMAIN to : \E r \in rows : r[1] = to[k] /\ V!take_first(i, r[2]) = Get(k)
    BY <2>1, <2>2
  <2>5. \A r \in rows : (\E k \in DOMAIN to : r[1] = to[k]) \/ V!take_first(i, r[2]) = Null
    BY <2>1, <2>2
  <2> QED
    BY <2>3, <2>4, <2>5 DEF Copies, Get, rows, to
<1>9. CASE name = "LS"
  <2>1. /\ rows = {<<"path", <<"path">>>>, <<"depth", <<"depth">>>>,
                   <<"explanation", <<"explanation">>>>}
        /\ DOMAIN to = {"path"} /\ to["path"] = "path"
    BY <1>9 DEF V!RowsToKiro, V!Explanation, KiroField
  <2>2. /\ V!take_first(i, <<"path">>) = Get("path")
        /\ V!take_first(i, <<"depth">>) = Null
        /\ V!take_first(i, <<"explanation">>) = Null
    BY <1>1, <1>2, <1>9, <2>1 DEF Needed, Optional
  <2> HIDE DEF rows, to, Get
  <2>3. Keyed(rows)
    BY <2>1 DEF Keyed
  <2>4. \A k \in DOMAIN to : \E r \in rows : r[1] = to[k] /\ V!take_first(i, r[2]) = Get(k)
    BY <2>1, <2>2
  <2>5. \A r \in rows : (\E k \in DOMAIN to : r[1] = to[k]) \/ V!take_first(i, r[2]) = Null
    BY <2>1, <2>2
  <2> QED
    BY <2>3, <2>4, <2>5 DEF Copies, Get, rows, to
<1>10. CASE name = "WebSearch"
  <2>1. /\ rows = {<<"query", <<"query">>>>}
        /\ DOMAIN to = {"query"} /\ to["query"] = "query"
    BY <1>10 DEF V!RowsToKiro, V!Explanation, KiroField
  <2>2. V!take_first(i, <<"query">>) = Get("query")
    BY <1>1, <1>2, <1>10, <2>1 DEF Needed, Optional
  <2> HIDE DEF rows, to, Get
  <2>3. Keyed(rows)
    BY <2>1 DEF Keyed
  <2>4. \A k \in DOMAIN to : \E r \in rows : r[1] = to[k] /\ V!take_first(i, r[2]) = Get(k)
    BY <2>1, <2>2
  <2>5. \A r \in rows : (\E k \in DOMAIN to : r[1] = to[k]) \/ V!take_first(i, r[2]) = Null
    BY <2>1, <2>2
  <2> QED
    BY <2>3, <2>4, <2>5 DEF Copies, Get, rows, to
<1> QED
  BY <1>3, <1>4, <1>5, <1>6, <1>7, <1>8, <1>9, <1>10 DEF V!Builtin

\* What a client's fields are called, if Kiro calls them differently.
ClientOnly ==
  {"file_path", "content", "old_string", "new_string", "pattern", "glob", "case_sensitive"}

LEMMA FromKiro ==
    ASSUME NEW name \in DOMAIN V!Builtin, NEW i, NEW o, DOMAIN o \cap ClientOnly = {},
           \A k \in DOMAIN KiroField[name] :
             /\ k \in DOMAIN i <=> KiroField[name][k] \in DOMAIN o
             /\ k \in DOMAIN i => o[KiroField[name][k]] = i[k]
    PROVE  Copies(o, V!RowsFromKiro[name], i, [k \in DOMAIN KiroField[name] |-> k])
<1> DEFINE rows == V!RowsFromKiro[name]
           to == KiroField[name]
           Get(k) == IF k \in DOMAIN i THEN i[k] ELSE Null
<1>1. /\ DOMAIN o \cap ClientOnly = {}
      /\ \A k \in DOMAIN to : /\ k \in DOMAIN i <=> to[k] \in DOMAIN o
                              /\ k \in DOMAIN i => o[to[k]] = i[k]
  OBVIOUS
<1>2. \A a, b : /\ V!take_first(o, <<a>>) = IF a \in DOMAIN o THEN o[a] ELSE Null
                /\ V!take_first(o, <<a, b>>) = IF a \in DOMAIN o THEN o[a]
                                               ELSE IF b \in DOMAIN o THEN o[b] ELSE Null
  BY TakeFirst
<1>3. CASE name = "Write"
  <2>1. /\ rows = {<<"file_path", <<"path", "file_path">>>>,
                   <<"content", <<"text", "content">>>>}
        /\ DOMAIN to = {"file_path", "content"} /\ to["file_path"] = "path"
        /\ to["content"] = "text"
    BY <1>3 DEF V!RowsFromKiro, KiroField
  <2>2. /\ V!take_first(o, <<"path", "file_path">>) = Get("file_path")
        /\ V!take_first(o, <<"text", "content">>) = Get("content")
    BY <1>1, <1>2, <1>3, <2>1 DEF ClientOnly
  <2> HIDE DEF rows, to, Get
  <2>3. Keyed(rows)
    BY <2>1 DEF Keyed
  <2>4. \A k \in DOMAIN to : \E r \in rows : r[1] = k /\ V!take_first(o, r[2]) = Get(k)
    BY <2>1, <2>2
  <2>5. \A r \in rows : (\E k \in DOMAIN to : r[1] = k) \/ V!take_first(o, r[2]) = Null
    BY <2>1, <2>2
  <2> QED
    BY <2>3, <2>4, <2>5 DEF Copies, Get, rows, to
<1>4. CASE name = "Edit"
  <2>1. /\ rows = {<<"file_path", <<"path", "file_path">>>>,
                   <<"old_string", <<"oldStr", "old_string">>>>,
                   <<"new_string", <<"newStr", "new_string">>>>}
        /\ DOMAIN to = {"file_path", "old_string", "new_string"} /\ to["file_path"] = "path"
        /\ to["old_string"] = "oldStr" /\ to["new_string"] = "newStr"
    BY <1>4 DEF V!RowsFromKiro, KiroField
  <2>2. /\ V!take_first(o, <<"path", "file_path">>) = Get("file_path")
        /\ V!take_first(o, <<"oldStr", "old_string">>) = Get("old_string")
        /\ V!take_first(o, <<"newStr", "new_string">>) = Get("new_string")
    BY <1>1, <1>2, <1>4, <2>1 DEF ClientOnly
  <2> HIDE DEF rows, to, Get
  <2>3. Keyed(rows)
    BY <2>1 DEF Keyed
  <2>4. \A k \in DOMAIN to : \E r \in rows : r[1] = k /\ V!take_first(o, r[2]) = Get(k)
    BY <2>1, <2>2
  <2>5. \A r \in rows : (\E k \in DOMAIN to : r[1] = k) \/ V!take_first(o, r[2]) = Null
    BY <2>1, <2>2
  <2> QED
    BY <2>3, <2>4, <2>5 DEF Copies, Get, rows, to
<1>5. CASE name = "Bash"
  <2>1. /\ rows = {<<"command", <<"command">>>>, <<"timeout", <<"timeout">>>>}
        /\ DOMAIN to = {"command", "timeout"} /\ to["command"] = "command"
        /\ to["timeout"] = "timeout"
    BY <1>5 DEF V!RowsFromKiro, KiroField
  <2>2. /\ V!take_first(o, <<"command">>) = Get("command")
        /\ V!take_first(o, <<"timeout">>) = Get("timeout")
    BY <1>1, <1>2, <1>5, <2>1 DEF ClientOnly
  <2> HIDE DEF rows, to, Get
  <2>3. Keyed(rows)
    BY <2>1 DEF Keyed
  <2>4. \A k \in DOMAIN to : \E r \in rows : r[1] = k /\ V!take_first(o, r[2]) = Get(k)
    BY <2>1, <2>2
  <2>5. \A r \in rows : (\E k \in DOMAIN to : r[1] = k) \/ V!take_first(o, r[2]) = Null
    BY <2>1, <2>2
  <2> QED
    BY <2>3, <2>4, <2>5 DEF Copies, Get, rows, to
<1>6. CASE name = "Read"
  <2>1. /\ rows = {<<"file_path", <<"path", "file_path">>>>}
        /\ DOMAIN to = {"file_path"} /\ to["file_path"] = "path"
    BY <1>6 DEF V!RowsFromKiro, KiroField
  <2>2. V!take_first(o, <<"path", "file_path">>) = Get("file_path")
    BY <1>1, <1>2, <1>6, <2>1 DEF ClientOnly
  <2> HIDE DEF rows, to, Get
  <2>3. Keyed(rows)
    BY <2>1 DEF Keyed
  <2>4. \A k \in DOMAIN to : \E r \in rows : r[1] = k /\ V!take_first(o, r[2]) = Get(k)
    BY <2>1, <2>2
  <2>5. \A r \in rows : (\E k \in DOMAIN to : r[1] = k) \/ V!take_first(o, r[2]) = Null
    BY <2>1, <2>2
  <2> QED
    BY <2>3, <2>4, <2>5 DEF Copies, Get, rows, to
<1>7. CASE name = "Glob"
  <2>1. /\ rows = {<<"pattern", <<"query", "pattern">>>>}
        /\ DOMAIN to = {"pattern"} /\ to["pattern"] = "query"
    BY <1>7 DEF V!RowsFromKiro, KiroField
  <2>2. V!take_first(o, <<"query", "pattern">>) = Get("pattern")
    BY <1>1, <1>2, <1>7, <2>1 DEF ClientOnly
  <2> HIDE DEF rows, to, Get
  <2>3. Keyed(rows)
    BY <2>1 DEF Keyed
  <2>4. \A k \in DOMAIN to : \E r \in rows : r[1] = k /\ V!take_first(o, r[2]) = Get(k)
    BY <2>1, <2>2
  <2>5. \A r \in rows : (\E k \in DOMAIN to : r[1] = k) \/ V!take_first(o, r[2]) = Null
    BY <2>1, <2>2
  <2> QED
    BY <2>3, <2>4, <2>5 DEF Copies, Get, rows, to
<1>8. CASE name = "Grep"
  <2>1. /\ rows = {<<"pattern", <<"query", "pattern">>>>,
                   <<"glob", <<"includePattern", "glob">>>>,
                   <<"case_sensitive", <<"caseSensitive", "case_sensitive">>>>}
        /\ DOMAIN to = {"pattern", "glob", "case_sensitive"} /\ to["pattern"] = "query"
        /\ to["glob"] = "includePattern" /\ to["case_sensitive"] = "caseSensitive"
    BY <1>8 DEF V!RowsFromKiro, KiroField
  <2>2. /\ V!take_first(o, <<"query", "pattern">>) = Get("pattern")
        /\ V!take_first(o, <<"includePattern", "glob">>) = Get("glob")
        /\ V!take_first(o, <<"caseSensitive", "case_sensitive">>) = Get("case_sensitive")
    BY <1>1, <1>2, <1>8, <2>1 DEF ClientOnly
  <2> HIDE DEF rows, to, Get
  <2>3. Keyed(rows)
    BY <2>1 DEF Keyed
  <2>4. \A k \in DOMAIN to : \E r \in rows : r[1] = k /\ V!take_first(o, r[2]) = Get(k)
    BY <2>1, <2>2
  <2>5. \A r \in rows : (\E k \in DOMAIN to : r[1] = k) \/ V!take_first(o, r[2]) = Null
    BY <2>1, <2>2
  <2> QED
    BY <2>3, <2>4, <2>5 DEF Copies, Get, rows, to
<1>9. CASE name = "LS"
  <2>1. /\ rows = {<<"path", <<"path">>>>}
        /\ DOMAIN to = {"path"} /\ to["path"] = "path"
    BY <1>9 DEF V!RowsFromKiro, KiroField
  <2>2. V!take_first(o, <<"path">>) = Get("path")
    BY <1>1, <1>2, <1>9, <2>1 DEF ClientOnly
  <2> HIDE DEF rows, to, Get
  <2>3. Keyed(rows)
    BY <2>1 DEF Keyed
  <2>4. \A k \in DOMAIN to : \E r \in rows : r[1] = k /\ V!take_first(o, r[2]) = Get(k)
    BY <2>1, <2>2
  <2>5. \A r \in rows : (\E k \in DOMAIN to : r[1] = k) \/ V!take_first(o, r[2]) = Null
    BY <2>1, <2>2
  <2> QED
    BY <2>3, <2>4, <2>5 DEF Copies, Get, rows, to
<1>10. CASE name = "WebSearch"
  <2>1. /\ rows = {<<"query", <<"query">>>>}
        /\ DOMAIN to = {"query"} /\ to["query"] = "query"
    BY <1>10 DEF V!RowsFromKiro, KiroField
  <2>2. V!take_first(o, <<"query">>) = Get("query")
    BY <1>1, <1>2, <1>10, <2>1 DEF ClientOnly
  <2> HIDE DEF rows, to, Get
  <2>3. Keyed(rows)
    BY <2>1 DEF Keyed
  <2>4. \A k \in DOMAIN to : \E r \in rows : r[1] = k /\ V!take_first(o, r[2]) = Get(k)
    BY <2>1, <2>2
  <2>5. \A r \in rows : (\E k \in DOMAIN to : r[1] = k) \/ V!take_first(o, r[2]) = Null
    BY <2>1, <2>2
  <2> QED
    BY <2>3, <2>4, <2>5 DEF Copies, Get, rows, to
<1> QED
  BY <1>3, <1>4, <1>5, <1>6, <1>7, <1>8, <1>9, <1>10 DEF V!Builtin

\* What is known of the fields of a tool: each has a name of its own for Kiro, which is in the
\* schema and neither a client's field nor a range of lines nor the explanation.
LEMMA FieldNames ==
    ASSUME NEW name \in DOMAIN V!Builtin
    PROVE  LET to == KiroField[name]
               schema == V!kiro_builtin_tool_schema[name]
           IN /\ DOMAIN to = (Needed[name] \cup Optional[name]) \ {"offset", "limit"}
              /\ \A k, l \in DOMAIN to : to[k] = to[l] => k = l
              /\ \A k \in DOMAIN to : /\ to[k] \in schema.required \cup schema.optional
                                      /\ to[k] \notin ClientOnly
                                      /\ to[k] \notin {"start_line", "end_line", "explanation"}
              /\ \A x \in schema.required :
                   x = "explanation" \/ \E k \in Needed[name] \cap DOMAIN to : to[k] = x
              /\ "explanation" \in schema.required <=> name \in {"Read", "Glob", "LS"}
              /\ IF name = "Read" THEN {"start_line", "end_line"} \subseteq schema.optional
                 ELSE {"offset", "limit"} \cap (Needed[name] \cup Optional[name]) = {}
<1> DEFINE to == KiroField[name]
           schema == V!kiro_builtin_tool_schema[name]
           need == Needed[name]
           all == Needed[name] \cup Optional[name]
           Goal == /\ DOMAIN to = all \ {"offset", "limit"}
                   /\ \A k, l \in DOMAIN to : to[k] = to[l] => k = l
                   /\ \A k \in DOMAIN to :
                        /\ to[k] \in schema.required \cup schema.optional
                        /\ to[k] \notin ClientOnly
                        /\ to[k] \notin {"start_line", "end_line", "explanation"}
                   /\ \A x \in schema.required :
                        x = "explanation" \/ \E k \in need \cap DOMAIN to : to[k] = x
                   /\ "explanation" \in schema.required <=> name \in {"Read", "Glob", "LS"}
                   /\ IF name = "Read" THEN {"start_line", "end_line"} \subseteq schema.optional
                      ELSE {"offset", "limit"} \cap all = {}
<1>1. ASSUME name = "Write" PROVE Goal
  <2>1. /\ DOMAIN to = {"file_path", "content"}
        /\ to["file_path"] = "path"
        /\ to["content"] = "text"
    BY <1>1 DEF KiroField
  <2>2. need = {"file_path", "content"} /\ all = {"file_path", "content"}
    BY <1>1 DEF Needed, Optional
  <2>3. /\ schema.required = {"path", "text"}
        /\ schema.optional = {}
    BY <1>1 DEF V!kiro_builtin_tool_schema
  <2> HIDE DEF to, need, all, schema
  <2> QED
    BY <1>1, <2>1, <2>2, <2>3 DEF ClientOnly
<1>2. ASSUME name = "Edit" PROVE Goal
  <2>1. /\ DOMAIN to = {"file_path", "old_string", "new_string"}
        /\ to["file_path"] = "path"
        /\ to["old_string"] = "oldStr"
        /\ to["new_string"] = "newStr"
    BY <1>2 DEF KiroField
  <2>2. need = {"file_path", "old_string", "new_string"} /\ all = {"file_path", "old_string", "new_string"}
    BY <1>2 DEF Needed, Optional
  <2>3. /\ schema.required = {"path", "oldStr", "newStr"}
        /\ schema.optional = {}
    BY <1>2 DEF V!kiro_builtin_tool_schema
  <2> HIDE DEF to, need, all, schema
  <2> QED
    BY <1>2, <2>1, <2>2, <2>3 DEF ClientOnly
<1>3. ASSUME name = "Bash" PROVE Goal
  <2>1. /\ DOMAIN to = {"command", "timeout"}
        /\ to["command"] = "command"
        /\ to["timeout"] = "timeout"
    BY <1>3 DEF KiroField
  <2>2. need = {"command"} /\ all = {"command", "timeout"}
    BY <1>3 DEF Needed, Optional
  <2>3. /\ schema.required = {"command"}
        /\ schema.optional = {"timeout"}
    BY <1>3 DEF V!kiro_builtin_tool_schema
  <2> HIDE DEF to, need, all, schema
  <2> QED
    BY <1>3, <2>1, <2>2, <2>3 DEF ClientOnly
<1>4. ASSUME name = "Read" PROVE Goal
  <2>1. /\ DOMAIN to = {"file_path"}
        /\ to["file_path"] = "path"
    BY <1>4 DEF KiroField
  <2>2. need = {"file_path"} /\ all = {"file_path", "offset", "limit"}
    BY <1>4 DEF Needed, Optional
  <2>3. /\ schema.required = {"path", "explanation"}
        /\ schema.optional = {"start_line", "end_line"}
    BY <1>4 DEF V!kiro_builtin_tool_schema
  <2> HIDE DEF to, need, all, schema
  <2> QED
    BY <1>4, <2>1, <2>2, <2>3 DEF ClientOnly
<1>5. ASSUME name = "Glob" PROVE Goal
  <2>1. /\ DOMAIN to = {"pattern"}
        /\ to["pattern"] = "query"
    BY <1>5 DEF KiroField
  <2>2. need = {"pattern"} /\ all = {"pattern"}
    BY <1>5 DEF Needed, Optional
  <2>3. /\ schema.required = {"query", "explanation"}
        /\ schema.optional = {"excludePattern", "includeIgnoredFiles"}
    BY <1>5 DEF V!kiro_builtin_tool_schema
  <2> HIDE DEF to, need, all, schema
  <2> QED
    BY <1>5, <2>1, <2>2, <2>3 DEF ClientOnly
<1>6. ASSUME name = "Grep" PROVE Goal
  <2>1. /\ DOMAIN to = {"pattern", "glob", "case_sensitive"}
        /\ to["pattern"] = "query"
        /\ to["glob"] = "includePattern"
        /\ to["case_sensitive"] = "caseSensitive"
    BY <1>6 DEF KiroField
  <2>2. need = {"pattern"} /\ all = {"pattern", "glob", "case_sensitive"}
    BY <1>6 DEF Needed, Optional
  <2>3. /\ schema.required = {"query"}
        /\ schema.optional = {"caseSensitive", "includePattern", "excludePattern", "explanation"}
    BY <1>6 DEF V!kiro_builtin_tool_schema
  <2> HIDE DEF to, need, all, schema
  <2> QED
    BY <1>6, <2>1, <2>2, <2>3 DEF ClientOnly
<1>7. ASSUME name = "LS" PROVE Goal
  <2>1. /\ DOMAIN to = {"path"}
        /\ to["path"] = "path"
    BY <1>7 DEF KiroField
  <2>2. need = {"path"} /\ all = {"path"}
    BY <1>7 DEF Needed, Optional
  <2>3. /\ schema.required = {"path", "explanation"}
        /\ schema.optional = {"depth"}
    BY <1>7 DEF V!kiro_builtin_tool_schema
  <2> HIDE DEF to, need, all, schema
  <2> QED
    BY <1>7, <2>1, <2>2, <2>3 DEF ClientOnly
<1>8. ASSUME name = "WebSearch" PROVE Goal
  <2>1. /\ DOMAIN to = {"query"}
        /\ to["query"] = "query"
    BY <1>8 DEF KiroField
  <2>2. need = {"query"} /\ all = {"query"}
    BY <1>8 DEF Needed, Optional
  <2>3. /\ schema.required = {"query"}
        /\ schema.optional = {}
    BY <1>8 DEF V!kiro_builtin_tool_schema
  <2> HIDE DEF to, need, all, schema
  <2> QED
    BY <1>8, <2>1, <2>2, <2>3 DEF ClientOnly
<1>9. Goal
  BY <1>1, <1>2, <1>3, <1>4, <1>5, <1>6, <1>7, <1>8 DEF V!Builtin
<1> QED
  BY <1>9

LEMMA OptEffect ==
    ASSUME NEW present \in BOOLEAN, NEW k, NEW v, NEW o, o = V!Opt(present, k, v)
    PROVE  /\ \A x : x \in DOMAIN o <=> present /\ x = k
           /\ present => o[k] = v
<1>1. DOMAIN << >> = {}
  OBVIOUS
<1> QED
  BY <1>1 DEF V!Opt

\* The numbers that say which lines are read.
Lines(i) ==
  /\ "offset" \in DOMAIN i => i["offset"] \in Int
  /\ "limit" \in DOMAIN i => i["limit"] \in Nat \ {0}

\* o has the range of lines that i asks for.
Ranges(o, i) ==
  /\ "start_line" \in DOMAIN o <=> "offset" \in DOMAIN i
  /\ "end_line" \in DOMAIN o <=> "limit" \in DOMAIN i
  /\ "offset" \in DOMAIN i => o["start_line"] = i["offset"]
  /\ "limit" \in DOMAIN i =>
       o["end_line"] = IF "offset" \in DOMAIN i THEN i["offset"] + i["limit"] - 1 ELSE i["limit"]

LEMMA LinesToKiro ==
    ASSUME NEW i, Lines(i)
    PROVE  LET s == V!lines_to_kiro(i)
           IN DOMAIN s \subseteq {"start_line", "end_line"} /\ Ranges(s, i)
<1> DEFINE from == "offset" \in DOMAIN i
           size == "limit" \in DOMAIN i
           last == IF from THEN i["offset"] + i["limit"] - 1 ELSE i["limit"]
           a == V!Opt(from, "start_line", i["offset"])
           b == V!Opt(size, "end_line", last)
           s == V!lines_to_kiro(i)
<1>1. V!Has(i, "offset") = from /\ V!Has(i, "limit") = size
  BY UsesAssumption DEF V!Has, Lines
<1>2. s = V!Over(a, b)
  BY <1>1 DEF V!lines_to_kiro
<1>3. /\ \A x : x \in DOMAIN a <=> from /\ x = "start_line"
      /\ from => a["start_line"] = i["offset"]
  <2>1. from \in BOOLEAN /\ a = V!Opt(from, "start_line", i["offset"])
    OBVIOUS
  <2> HIDE DEF a, from
  <2> QED
    BY <2>1, OptEffect
<1>4. /\ \A x : x \in DOMAIN b <=> size /\ x = "end_line"
      /\ size => b["end_line"] = last
  <2>1. size \in BOOLEAN /\ b = V!Opt(size, "end_line", last)
    OBVIOUS
  <2> HIDE DEF b, size, last
  <2> QED
    BY <2>1, OptEffect
<1> HIDE DEF a, b, s
<1>5. /\ DOMAIN s = DOMAIN a \cup DOMAIN b
      /\ \A k \in DOMAIN a : s[k] = a[k]
      /\ \A k \in DOMAIN b \ DOMAIN a : s[k] = b[k]
  BY <1>2 DEF V!Over
<1>6. /\ \A x \in DOMAIN s : x \in {"start_line", "end_line"}
      /\ "start_line" \in DOMAIN s <=> from
      /\ "end_line" \in DOMAIN s <=> size
      /\ from => s["start_line"] = i["offset"]
      /\ size => s["end_line"] = last
  <2> HIDE DEF from, size, last
  <2> QED
    BY <1>3, <1>4, <1>5
<1> QED
  BY <1>6 DEF Ranges, s

LEMMA LinesFromKiro ==
    ASSUME NEW i, Lines(i), NEW o, Ranges(o, i)
    PROVE  LET r == V!lines_from_kiro(o)
           IN /\ \A k : k \in DOMAIN r <=> k \in {"offset", "limit"} \cap DOMAIN i
              /\ \A k \in DOMAIN r : r[k] = i[k]
<1> DEFINE from == "offset" \in DOMAIN i
           size == "limit" \in DOMAIN i
           limit == IF V!Has(o, "start_line") THEN o["end_line"] - o["start_line"] + 1
                    ELSE o["end_line"]
           a == V!Opt(V!Has(o, "start_line"), "offset", o["start_line"])
           b == V!Opt(V!Has(o, "end_line") /\ limit > 0, "limit", limit)
           r == V!lines_from_kiro(o)
<1>1. V!Has(o, "start_line") = from
  BY UsesAssumption DEF V!Has, Lines, Ranges
<1>2. size => limit = i["limit"] /\ limit \in Nat \ {0} /\ o["end_line"] \in Int
  <2> SUFFICES ASSUME size PROVE limit = i["limit"] /\ limit \in Nat \ {0} /\ o["end_line"] \in Int
    OBVIOUS
  <2> DEFINE n == i["limit"]
             m == i["offset"]
             e == o["end_line"]
             l == o["start_line"]
  <2>1. n \in Nat \ {0} /\ (from => m \in Int /\ l = m) /\ e = IF from THEN m + n - 1 ELSE n
    BY DEF Lines, Ranges
  <2>2. limit = IF from THEN e - l + 1 ELSE e
    BY <1>1
  <2> HIDE DEF n, m, e, l, from, limit
  <2>3. CASE from
    BY <2>1, <2>2, <2>3 DEF n, e
  <2>4. CASE ~from
    BY <2>1, <2>2, <2>4 DEF n, e
  <2> QED
    BY <2>3, <2>4
<1>3. (V!Has(o, "end_line") /\ limit > 0) = size
  <2>1. V!Has(o, "end_line") = size
    BY <1>2, UsesAssumption DEF V!Has, Ranges
  <2>2. size => limit > 0
    <3> HIDE DEF limit
    <3> QED
      BY <1>2
  <2> DEFINE p == limit > 0
  <2>3. (size => p) /\ size \in BOOLEAN /\ p \in BOOLEAN
    BY <2>2
  <2> HIDE DEF p, size
  <2>4. (V!Has(o, "end_line") /\ p) = size
    BY <2>1, <2>3
  <2> QED
    BY <2>4 DEF p
<1>4. r = V!Over(a, b)
  BY DEF V!lines_from_kiro
<1>5. /\ \A x : x \in DOMAIN a <=> from /\ x = "offset"
      /\ from => a["offset"] = i["offset"]
  <2>1. /\ from \in BOOLEAN /\ a = V!Opt(from, "offset", o["start_line"])
        /\ from => o["start_line"] = i["offset"]
    BY <1>1 DEF Ranges
  <2> HIDE DEF a, from
  <2> QED
    BY <2>1, OptEffect
<1>6. /\ \A x : x \in DOMAIN b <=> size /\ x = "limit"
      /\ size => b["limit"] = i["limit"]
  <2> DEFINE p == V!Has(o, "end_line") /\ limit > 0
  <2>1. p = size /\ size \in BOOLEAN /\ b = V!Opt(p, "limit", limit)
    BY <1>3
  <2>2. size => limit = i["limit"]
    BY <1>2
  <2> HIDE DEF p, limit, b, size
  <2>3. p \in BOOLEAN
    BY <2>1
  <2>4. /\ \A x : x \in DOMAIN b <=> p /\ x = "limit"
        /\ p => b["limit"] = limit
    BY ONLY <2>1, <2>3, OptEffect
  <2> QED
    BY <2>1, <2>2, <2>4
<1> HIDE DEF a, b, r
<1>7. /\ DOMAIN r = DOMAIN a \cup DOMAIN b
      /\ \A k \in DOMAIN a : r[k] = a[k]
      /\ \A k \in DOMAIN b \ DOMAIN a : r[k] = b[k]
  BY <1>4, OverEffect
<1>8. /\ \A k : k \in DOMAIN r <=> k \in {"offset", "limit"} \cap DOMAIN i
      /\ \A k \in DOMAIN r : r[k] = i[k]
  BY <1>5, <1>6, <1>7
<1> QED
  BY <1>8 DEF r

\* The fields that a tool has for Kiro besides those of the tables.
LEMMA SpecialFields ==
    ASSUME NEW name \in DOMAIN V!Builtin, NEW i, KnownFields(name, i)
    PROVE  \E special, explained :
             /\ V!map_tool_input_to_kiro(name, i, "ClaudeCode")
                  = V!Over(special, V!Over(V!maybe_insert(i, V!RowsToKiro[name]), explained))
             /\ \A x : x \in DOMAIN explained <=> x = "explanation" /\ name \in {"Read", "Glob", "LS"}
             /\ IF name = "Read"
                THEN DOMAIN special \subseteq {"start_line", "end_line"} /\ Ranges(special, i)
                ELSE DOMAIN special = {}
<1> DEFINE rest == V!Over(V!maybe_insert(i, V!RowsToKiro[name]),
                          V!Opt(name \in {"Read", "Glob", "LS"}, "explanation", "default"))
           explained == V!Opt(name \in {"Read", "Glob", "LS"}, "explanation", "default")
           special == CASE name = "Read" -> V!lines_to_kiro(i)
                        [] name = "Glob" -> V!ignored_to_kiro(i)
                        [] OTHER -> << >>
<1>1. V!map_tool_input_to_kiro(name, i, "ClaudeCode") = V!Over(special, rest)
  BY DEF V!map_tool_input_to_kiro
<1>2. \A x : x \in DOMAIN explained <=> x = "explanation" /\ name \in {"Read", "Glob", "LS"}
  <2> DEFINE p == name \in {"Read", "Glob", "LS"}
  <2>1. p \in BOOLEAN /\ explained = V!Opt(p, "explanation", "default")
    OBVIOUS
  <2> HIDE DEF p, explained
  <2>2. \A x : x \in DOMAIN explained <=> p /\ x = "explanation"
    BY <2>1, OptEffect
  <2> QED
    BY <2>2 DEF p
<1>3. CASE name = "Read"
  <2>1. Lines(i)
    BY DEF KnownFields, Lines
  <2>2. special = V!lines_to_kiro(i)
    BY <1>3
  <2> HIDE DEF special
  <2>3. DOMAIN special \subseteq {"start_line", "end_line"} /\ Ranges(special, i)
    BY <2>1, <2>2, LinesToKiro
  <2> QED
    BY <1>1, <1>2, <1>3, <2>3
<1>4. CASE name = "Glob"
  <2>1. DOMAIN i \cap {"includeIgnoredFiles", "include_ignored"} = {}
    BY <1>4 DEF KnownFields, Needed, Optional
  <2>2. DOMAIN special = {}
    <3>1. special = V!ignored_to_kiro(i)
      BY <1>4
    <3>2. DOMAIN << >> = {}
      OBVIOUS
    <3>3. V!ignored_to_kiro(i) = << >>
      BY <2>1 DEF V!ignored_to_kiro, V!Opt
    <3> QED
      BY <3>1, <3>2, <3>3
  <2> HIDE DEF special
  <2> QED
    BY <1>1, <1>2, <1>4, <2>2
<1>5. CASE name \notin {"Read", "Glob"}
  <2>1. special = << >>
    BY <1>5
  <2>2. DOMAIN << >> = {}
    OBVIOUS
  <2> HIDE DEF special
  <2>3. DOMAIN special = {}
    BY <2>1, <2>2
  <2> QED
    BY <1>1, <1>2, <1>5, <2>3
<1> QED
  BY <1>3, <1>4, <1>5

\* Arguments that the tables know fit the schema of Kiro's tool and come back as they were.
LEMMA ArgumentsSurvive ==
    ASSUME NEW name \in DOMAIN V!Builtin, NEW i, KnownFields(name, i)
    PROVE  LET o == V!map_tool_input_to_kiro(name, i, "ClaudeCode")
               schema == V!kiro_builtin_tool_schema[name]
           IN /\ V!map_tool_input_from_kiro(name, o) = i
              /\ DOMAIN o \subseteq schema.required \cup schema.optional
              /\ Needed[name] \subseteq DOMAIN i => schema.required \subseteq DOMAIN o
<1> DEFINE o == V!map_tool_input_to_kiro(name, i, "ClaudeCode")
           out == V!maybe_insert(i, V!RowsToKiro[name])
           to == KiroField[name]
           same == [k \in DOMAIN KiroField[name] |-> k]
           back == V!maybe_insert(o, V!RowsFromKiro[name])
           lines == IF name = "Read" THEN V!lines_from_kiro(o) ELSE << >>
           schema == V!kiro_builtin_tool_schema[name]
           need == Needed[name]
           all == Needed[name] \cup Optional[name]
<1>1. /\ i = [k \in DOMAIN i |-> i[k]] /\ DOMAIN i \subseteq all /\ \A k \in DOMAIN i : i[k] # Null
      /\ Lines(i)
  BY DEF KnownFields, Lines
<1>2. PICK special, explained :
        /\ o = V!Over(special, V!Over(out, explained))
        /\ \A x : x \in DOMAIN explained <=> x = "explanation" /\ name \in {"Read", "Glob", "LS"}
        /\ IF name = "Read"
           THEN DOMAIN special \subseteq {"start_line", "end_line"} /\ Ranges(special, i)
           ELSE DOMAIN special = {}
  BY SpecialFields
<1>3. /\ DOMAIN to = all \ {"offset", "limit"}
      /\ \A k, l \in DOMAIN to : to[k] = to[l] => k = l
      /\ \A k \in DOMAIN to : /\ to[k] \in schema.required \cup schema.optional
                              /\ to[k] \notin ClientOnly
                              /\ to[k] \notin {"start_line", "end_line", "explanation"}
      /\ \A x \in schema.required : x = "explanation" \/ \E k \in need \cap DOMAIN to : to[k] = x
      /\ "explanation" \in schema.required <=> name \in {"Read", "Glob", "LS"}
      /\ IF name = "Read" THEN {"start_line", "end_line"} \subseteq schema.optional
         ELSE {"offset", "limit"} \cap all = {}
  BY FieldNames
<1>4. /\ \A x \in DOMAIN out : \E k \in DOMAIN to \cap DOMAIN i : x = to[k]
      /\ \A k \in DOMAIN to \cap DOMAIN i : to[k] \in DOMAIN out /\ out[to[k]] = i[k]
  <2>1. Copies(i, V!RowsToKiro[name], i, to)
    BY <1>1, ToKiro
  <2> HIDE DEF to
  <2> QED
    BY <1>1, <2>1, CopyEffect
<1>5. /\ \A x : x \in DOMAIN o <=> x \in DOMAIN special \cup DOMAIN out \cup DOMAIN explained
      /\ \A x \in DOMAIN special : o[x] = special[x]
      /\ \A x \in DOMAIN out \ DOMAIN special : o[x] = out[x]
  <2> DEFINE rest == V!Over(out, explained)
  <2>1. rest = V!Over(out, explained) /\ o = V!Over(special, rest)
    BY <1>2
  <2> HIDE DEF o, out, rest
  <2>2. /\ DOMAIN rest = DOMAIN out \cup DOMAIN explained
        /\ \A k \in DOMAIN out : rest[k] = out[k]
    BY <2>1 DEF V!Over
  <2>3. /\ DOMAIN o = DOMAIN special \cup DOMAIN rest
        /\ \A k \in DOMAIN special : o[k] = special[k]
        /\ \A k \in DOMAIN rest \ DOMAIN special : o[k] = rest[k]
    BY <2>1 DEF V!Over
  <2> QED
    BY <2>2, <2>3
<1> HIDE DEF to, schema, need, all, out
<1>6. \A x \in DOMAIN special : x \in {"start_line", "end_line"} /\ name = "Read"
  BY <1>2
<1>7. \A k \in DOMAIN to : /\ k \in DOMAIN i <=> to[k] \in DOMAIN o
                           /\ k \in DOMAIN i => o[to[k]] = i[k]
  <2> HIDE DEF o
  <2> QED
    BY <1>2, <1>3, <1>4, <1>5, <1>6
<1>8. \A x \in DOMAIN o : \/ x \in {"start_line", "end_line"} /\ name = "Read"
                          \/ \E k \in DOMAIN to \cap DOMAIN i : x = to[k]
                          \/ x = "explanation" /\ name \in {"Read", "Glob", "LS"}
  <2> HIDE DEF o
  <2> QED
    BY <1>2, <1>4, <1>5, <1>6
<1>9. DOMAIN o \subseteq schema.required \cup schema.optional
  <2> HIDE DEF o
  <2> QED
    BY <1>3, <1>8
<1>10. need \subseteq DOMAIN i => schema.required \subseteq DOMAIN o
  <2> HIDE DEF o
  <2> QED
    BY <1>2, <1>3, <1>5, <1>7
<1>11. /\ \A x \in DOMAIN back : x \in DOMAIN to \cap DOMAIN i
       /\ \A k \in DOMAIN to \cap DOMAIN i : k \in DOMAIN back /\ back[k] = i[k]
  <2>1. DOMAIN o \cap ClientOnly = {}
    <3>1. {"start_line", "end_line", "explanation"} \cap ClientOnly = {}
      BY DEF ClientOnly
    <3> HIDE DEF o
    <3> QED
      BY <1>3, <1>8, <3>1
  <2>2. Copies(o, V!RowsFromKiro[name], i, same)
    <3> HIDE DEF o
    <3> QED
      BY <1>7, <2>1, FromKiro DEF to
  <2>3. DOMAIN same = DOMAIN to /\ \A k \in DOMAIN to : same[k] = k
    BY DEF to
  <2> HIDE DEF same, o
  <2>4. /\ \A x \in DOMAIN back : \E k \in DOMAIN same \cap DOMAIN i : x = same[k]
        /\ \A k \in DOMAIN same \cap DOMAIN i : same[k] \in DOMAIN back /\ back[same[k]] = i[k]
    BY <1>1, <2>2, CopyEffect
  <2> QED
    BY <2>3, <2>4
<1>12. /\ \A k : k \in DOMAIN lines <=> k \in {"offset", "limit"} \cap DOMAIN i
       /\ \A k \in DOMAIN lines : lines[k] = i[k]
  <2>1. CASE name = "Read"
    <3>1. Ranges(o, i)
      <4>1. /\ "start_line" \in DOMAIN o <=> "start_line" \in DOMAIN special
            /\ "end_line" \in DOMAIN o <=> "end_line" \in DOMAIN special
        <5> HIDE DEF o
        <5> QED
          BY <1>2, <1>3, <1>4, <1>5
      <4> HIDE DEF o
      <4> QED
        BY <1>2, <1>5, <2>1, <4>1 DEF Ranges
    <3>2. lines = V!lines_from_kiro(o)
      BY <2>1
    <3> HIDE DEF lines, o
    <3> QED
      BY <1>1, <3>1, <3>2, LinesFromKiro
  <2>2. CASE name # "Read"
    <3>1. lines = << >>
      BY <2>2
    <3>2. DOMAIN << >> = {}
      OBVIOUS
    <3> HIDE DEF lines
    <3> QED
      BY <1>1, <1>3, <2>2, <3>1, <3>2
  <2> QED
    BY <2>1, <2>2
<1>13. V!map_tool_input_from_kiro(name, o) = i
  <2> DEFINE r == V!map_tool_input_from_kiro(name, o)
  <2>1. r = V!Over(back, lines)
    BY DEF V!map_tool_input_from_kiro
  <2> HIDE DEF r, back, lines
  <2>2. /\ r = [k \in DOMAIN r |-> r[k]] /\ DOMAIN r = DOMAIN back \cup DOMAIN lines
        /\ \A k \in DOMAIN back : r[k] = back[k]
        /\ \A k \in DOMAIN lines \ DOMAIN back : r[k] = lines[k]
    BY <2>1 DEF V!Over
  <2>3. DOMAIN r = DOMAIN i /\ \A k \in DOMAIN r : r[k] = i[k]
    BY <1>1, <1>3, <1>11, <1>12, <2>2
  <2>4. r = i
    BY <1>1, <2>2, <2>3, SameFunction
  <2> QED
    BY <2>4 DEF r
<1> QED
  BY <1>9, <1>10, <1>13 DEF need, schema

\* No call of no arguments has a field.
LEMMA NothingKnown ==
    ASSUME NEW name
    PROVE  KnownFields(name, << >>)
<1>1. DOMAIN << >> = {} /\ << >> = [k \in DOMAIN << >> |-> << >>[k]]
  OBVIOUS
<1> DEFINE i == << >>
<1>2. DOMAIN i = {} /\ i = [k \in DOMAIN i |-> i[k]]
  BY <1>1
<1> HIDE DEF i
<1>3. KnownFields(name, i)
  BY <1>2 DEF KnownFields
<1> QED
  BY <1>3 DEF i

\* A call of no arguments that Kiro makes has none for the client.
LEMMA NothingRestored ==
    ASSUME NEW kiro, NEW map
    PROVE  V!restore_tool_use_for_client(kiro, << >>, map).input = << >>
<1> DEFINE n == IF kiro \in DOMAIN map THEN map[kiro] ELSE kiro
           o == << >>
<1>1. V!restore_tool_use_for_client(kiro, o, map).input = V!map_tool_input_from_kiro(n, o)
  BY DEF V!restore_tool_use_for_client
<1> HIDE DEF n
<1>2. CASE n \notin DOMAIN V!Builtin
  BY <1>1, <1>2 DEF V!map_tool_input_from_kiro
<1>3. CASE n \in DOMAIN V!Builtin
  <2> DEFINE back == V!maybe_insert(o, V!RowsFromKiro[n])
             lines == IF n = "Read" THEN V!lines_from_kiro(o) ELSE << >>
             r == V!map_tool_input_from_kiro(n, o)
             same == [k \in DOMAIN KiroField[n] |-> k]
  <2>1. r = V!Over(back, lines)
    BY <1>3 DEF V!map_tool_input_from_kiro
  <2>2. DOMAIN o = {} /\ o = [k \in DOMAIN o |-> o[k]]
    OBVIOUS
  <2>3. DOMAIN back = {}
    <3>1. Copies(o, V!RowsFromKiro[n], o, same)
      <4>1. n \in DOMAIN V!Builtin
        BY <1>3
      <4> HIDE DEF o
      <4>2. DOMAIN o \cap ClientOnly = {}
        BY <2>2
      <4>3. \A k \in DOMAIN KiroField[n] : /\ KiroField[n][k] \notin DOMAIN o
                                           /\ k \notin DOMAIN o
        BY <2>2
      <4>4. \A k \in DOMAIN KiroField[n] : /\ k \in DOMAIN o <=> KiroField[n][k] \in DOMAIN o
                                           /\ k \in DOMAIN o => o[KiroField[n][k]] = o[k]
        BY ONLY <4>3
      <4>5. Copies(o, V!RowsFromKiro[n], o, [k \in DOMAIN KiroField[n] |-> k])
        BY ONLY <4>1, <4>2, <4>4, FromKiro
      <4> QED
        BY ONLY <4>5 DEF same
    <3> HIDE DEF same, o
    <3> QED
      BY <2>2, <3>1, CopyEffect
  <2>4. DOMAIN lines = {}
    <3>1. CASE n = "Read"
      <4>1. lines = V!lines_from_kiro(o)
        BY <3>1
      <4> HIDE DEF lines, o
      <4>2. Lines(o) /\ Ranges(o, o)
        BY <2>2 DEF Lines, Ranges
      <4> QED
        BY <2>2, <4>1, <4>2, LinesFromKiro
    <3>2. CASE n # "Read"
      BY <2>2, <3>2
    <3> QED
      BY <3>1, <3>2
  <2> HIDE DEF r, back, lines, o
  <2>5. DOMAIN r = {} /\ r = [k \in DOMAIN r |-> r[k]]
    BY <2>1, <2>3, <2>4 DEF V!Over
  <2>6. r = o
    BY <2>2, <2>5
  <2> QED
    BY <1>1, <2>6 DEF r, o
<1> QED
  BY <1>2, <1>3

\* Names that a client may use when none of them is the name of one of Kiro's tools.
Distinct(N) ==
  /\ N \subseteq NamesOf(req)
  /\ \A n \in N : \A b \in DOMAIN V!Builtin : n # V!Builtin[b]

\* Then no two tools have one name for Kiro.
LEMMA KiroInjective ==
    ASSUME req \in Settings, NEW N, Distinct(N), NEW m \in N, NEW n \in N, Kiro(m) = Kiro(n)
    PROVE  m = n
<1> DEFINE built(x) == req.mode = "ClaudeCode" /\ x \in DOMAIN V!Builtin
<1>1. \A x : Kiro(x) = IF built(x) THEN V!Builtin[x] ELSE IF x \in LongNames THEN Shorten(x) ELSE x
  BY DEF Kiro, V!map_client_tool_name_to_kiro, V!map_tool_name, V!Named
<1>2. \A x, y \in DOMAIN V!Builtin : V!Builtin[x] = V!Builtin[y] => x = y
  BY DEF V!Builtin
<1>3. \A x \in DOMAIN V!Builtin : V!Builtin[x] \in KiroNames
  BY DEF KiroNames
<1>4. \A x \in N : \A y \in DOMAIN V!Builtin : x # V!Builtin[y]
  BY DEF Distinct
<1>5. \A x, y \in N : x \in LongNames =>
        /\ Shorten(x) # y /\ Shorten(x) \notin KiroNames
        /\ y \in LongNames /\ Shorten(x) = Shorten(y) => x = y
  BY NamesAssumption DEF Distinct
<1> HIDE DEF built
<1>6. \A x : built(x) => x \in DOMAIN V!Builtin
  BY DEF built
<1> QED
  BY <1>1, <1>2, <1>3, <1>4, <1>5, <1>6

\* What the client said in the block b: one of its tools, and arguments that the tables know.
GoodCall(b, q) ==
  /\ b.name \in NamesOf(q)
  /\ q.mode = "ClaudeCode" /\ b.name \in DOMAIN V!Builtin =>
       \/ b.input = << >> \/ V!Unsupported(b.name, b.input, q.mode)
       \/ KnownFields(b.name, b.input) /\ Needed[b.name] \subseteq DOMAIN b.input

\* The call u is what the block b becomes for Kiro.
CallFor(u, b) ==
  /\ b.type = "tool_use" /\ ~V!Unsupported(b.name, b.input, req.mode)
  /\ u.id = b.id /\ u.name = Kiro(b.name)
  /\ u.input = V!map_tool_input_to_kiro(b.name, b.input, req.mode)

\* CallsSurvive, said of a call u and the block b that it is made of.
Survives(u, b, map) ==
  /\ b.id = u.id
  /\ V!restore_tool_use_for_client(u.name, u.input, map) = [name |-> b.name, input |-> b.input]
  /\ b.name \in DOMAIN V!Builtin /\ b.input # << >> =>
       LET schema == V!kiro_builtin_tool_schema[b.name]
       IN /\ schema.required \subseteq DOMAIN u.input
          /\ DOMAIN u.input \subseteq schema.required \cup schema.optional

LEMMA CallSurvives ==
    ASSUME req \in Settings, req.mode = "ClaudeCode", NEW N, Distinct(N), NEW map, Entries(map, N),
           NEW b, b.name \in N, GoodCall(b, req), NEW u, CallFor(u, b), Stands(u.name, map, N)
    PROVE  Survives(u, b, map)
<1> DEFINE name == b.name
           i == b.input
           o == V!map_tool_input_to_kiro(name, i, "ClaudeCode")
           schema == V!kiro_builtin_tool_schema[name]
           n == IF u.name \in DOMAIN map THEN map[u.name] ELSE u.name
<1>1. u.id = b.id /\ u.name = Kiro(name) /\ u.input = o /\ ~V!Unsupported(name, i, req.mode)
  BY DEF CallFor
<1>2. n = name
  <2>1. n \in N /\ Kiro(n) = u.name
    BY DEF Entries, Stands
  <2> HIDE DEF n
  <2> QED
    BY <1>1, <2>1, KiroInjective
<1>3. /\ V!map_tool_input_from_kiro(name, o) = i
      /\ name \in DOMAIN V!Builtin /\ i # << >> =>
           /\ schema.required \subseteq DOMAIN o
           /\ DOMAIN o \subseteq schema.required \cup schema.optional
  <2>1. CASE name \notin DOMAIN V!Builtin
    BY <2>1 DEF V!map_tool_input_to_kiro, V!map_tool_input_from_kiro
  <2>2. CASE name \in DOMAIN V!Builtin
    <3>1. KnownFields(name, i) /\ (i # << >> => Needed[name] \subseteq DOMAIN i)
      BY <1>1, <2>2, NothingKnown DEF GoodCall
    <3> HIDE DEF o, schema, name, i
    <3> QED
      BY <2>2, <3>1, ArgumentsSurvive DEF o, schema
  <2> QED
    BY <2>1, <2>2
<1>4. V!restore_tool_use_for_client(u.name, u.input, map)
        = [name |-> n, input |-> V!map_tool_input_from_kiro(n, u.input)]
  BY DEF V!restore_tool_use_for_client
<1> HIDE DEF n, o, schema
<1> QED
  BY <1>1, <1>2, <1>3, <1>4 DEF Survives, schema

-----------------------------------------------------------------------------
(* Where the calls of the history come from *)

\* The calls in S are what blocks of B become, unless one of them cannot be mapped.
Traced(S, err, B) == err \/ \A u \in S : \E b \in B : CallFor(u, b)

LEMMA CallTraced ==
    ASSUME NEW B, NEW acc, Spoken(acc), Traced(V!ToSet(acc.uses), acc.err, B), NEW b \in B
    PROVE  LET d == V!convert_assistant_block(acc, b) IN Traced(V!ToSet(d.uses), d.err, B)
<1> DEFINE d == V!convert_assistant_block(acc, b)
           named == V!map_client_tool_name_to_kiro(b.name, acc.map, req.mode)
           use == [id |-> b.id, name |-> named.name,
                   input |-> V!map_tool_input_to_kiro(b.name, b.input, req.mode)]
           lost == V!Unsupported(b.name, b.input, req.mode)
           e == acc.err \/ lost
<1>1. CASE b.type = "text"
  <2>1. d = [acc EXCEPT !.text = Append(@, b.text)]
    BY <1>1 DEF V!convert_assistant_block
  <2> HIDE DEF d
  <2>2. d.uses = acc.uses /\ d.err = acc.err
    BY <2>1 DEF Spoken
  <2> QED
    BY <2>2 DEF d
<1>2. CASE b.type = "tool_use"
  <2>1. d = V!WithUse(acc, b, named)
    BY <1>2 DEF V!convert_assistant_block
  <2>2. V!WithUse(acc, b, named)
          = [text |-> acc.text, map |-> named.map, uses |-> Append(acc.uses, use), err |-> e]
    BY DEF V!WithUse
  <2>3. named.name = Kiro(b.name)
    BY DEF Kiro, V!map_client_tool_name_to_kiro, V!map_tool_name, V!Named
  <2>4. /\ use.id = b.id /\ use.name = Kiro(b.name)
        /\ use.input = V!map_tool_input_to_kiro(b.name, b.input, req.mode)
    BY <2>3
  <2> DEFINE us == acc.uses
             vs == Append(us, use)
  <2> HIDE DEF d, named, use
  <2>5. d.uses = vs /\ d.err = (acc.err \/ lost)
    <3> HIDE DEF vs, lost
    <3> QED
      BY <2>1, <2>2 DEF vs
  <2>6. PICK R : us \in Seq(R)
    BY DEF Spoken, IsSeq
  <2>7. ~lost => CallFor(use, b)
    BY <1>2, <2>4 DEF CallFor
  <2> HIDE DEF us
  <2>8. V!ToSet(vs) = V!ToSet(us) \cup {use}
    BY <2>6, AppendSet
  <2> HIDE DEF vs, lost
  <2>9. acc.err \/ \A u \in V!ToSet(us) : \E c \in B : CallFor(u, c)
    BY DEF Traced, us
  <2>10. d.err \/ \A u \in V!ToSet(vs) : \E c \in B : CallFor(u, c)
    BY <2>5, <2>7, <2>8, <2>9
  <2> QED
    BY <2>5, <2>10 DEF Traced, d
<1>3. CASE b.type \notin {"text", "tool_use"}
  BY <1>3 DEF V!convert_assistant_block
<1> QED
  BY <1>1, <1>2, <1>3

LEMMA AssistantTraced ==
    ASSUME NEW T, NEW group \in Seq(Said(T)), NEW map
    PROVE  LET a == V!merge_assistant_messages(group, map) IN Traced(V!ToSet(a.uses), a.err, T)
<1> DEFINE content == Contents(group)
           L == Len(content)
           a == V!merge_assistant_messages(group, map)
<1>1. content \in Seq(T)
  BY ContentsSteps
<1> HIDE DEF content
<1>2. L \in Nat /\ \A k \in 1 .. L : content[k] \in T
  BY <1>1
<1>3. PICK f : Speech(f, group, map)
  BY <1>2, SpeechSteps DEF content
<1>4. /\ f[0] = [text |-> << >>, uses |-> << >>, map |-> map, err |-> FALSE]
      /\ \A k \in 1 .. L : f[k] = V!convert_assistant_block(f[k - 1], content[k])
      /\ a = V!WithSpacer(f[L])
  BY <1>3 DEF Speech, content
<1> HIDE DEF a
<1> DEFINE OK(n) == Spoken(f[n]) /\ Traced(V!ToSet(f[n].uses), f[n].err, T)
           S == {n \in Nat : n <= L => OK(n)}
<1> HIDE DEF L
<1>5. 0 \in S
  <2> DEFINE b == f[0]
  <2>1. b.uses = << >> /\ DOMAIN b = {"text", "uses", "map", "err"}
    BY <1>4
  <2> HIDE DEF b
  <2>2. << >> \in Seq({}) /\ V!ToSet(<< >>) = {}
    BY DEF V!ToSet
  <2>3. OK(0)
    BY <2>1, <2>2 DEF Spoken, IsSeq, Traced, b
  <2> HIDE DEF OK
  <2> QED
    BY <2>3
<1>6. \A n \in Nat : n \in S => n + 1 \in S
  <2> SUFFICES ASSUME NEW n \in Nat, n <= L => OK(n), n + 1 <= L PROVE OK(n + 1)
    OBVIOUS
  <2>1. n <= L /\ n + 1 \in 1 .. L /\ (n + 1) - 1 = n
    BY <1>2
  <2>2. Spoken(f[n]) /\ Traced(V!ToSet(f[n].uses), f[n].err, T)
    BY <2>1
  <2>3. f[n + 1] = V!convert_assistant_block(f[n], content[n + 1]) /\ content[n + 1] \in T
    BY <1>2, <1>4, <2>1
  <2> QED
    BY <2>2, <2>3, AssistantBlockKeeps, CallTraced
<1>7. Nat \subseteq S
  <2> HIDE DEF S
  <2> QED
    BY <1>5, <1>6, NatSet
<1> DEFINE b == f[L]
<1>8. Spoken(b) /\ Traced(V!ToSet(b.uses), b.err, T)
  BY <1>2, <1>7
<1>9. a = [b EXCEPT !.text = IF @ = << >> /\ b.uses # << >> THEN <<0>> ELSE @]
  BY <1>4 DEF V!WithSpacer, V!Spacer
<1> HIDE DEF b
<1>10. a.uses = b.uses /\ a.err = b.err
  BY <1>8, <1>9 DEF Spoken
<1> QED
  BY <1>8, <1>10 DEF a

LEMMA UsesAppend ==
    ASSUME NEW h, IsSeq(h), NEW m
    PROVE  V!UsesOf(Append(h, m)) \subseteq V!UsesOf(h) \cup V!ToSet(m.uses)
<1> DEFINE g == Append(h, m)
           n == Len(h)
<1>1. PICK R : h \in Seq(R)
  BY DEF IsSeq
<1>2. n \in Nat /\ DOMAIN h = 1 .. n /\ h \in Seq(R \cup {m})
  BY <1>1
<1>3. DOMAIN g = 1 .. n + 1 /\ g[n + 1] = m /\ \A k \in 1 .. n : g[k] = h[k]
  BY <1>2
<1> HIDE DEF g, n
<1>4. \A k \in 1 .. n + 1 : k \in 1 .. n \/ k = n + 1
  BY <1>2
<1>5. ASSUME NEW k \in DOMAIN g PROVE V!ToSet(g[k].uses) \subseteq V!UsesOf(h) \cup V!ToSet(m.uses)
  <2>1. CASE k = n + 1
    BY <1>3, <2>1
  <2>2. CASE k \in 1 .. n
    BY <1>2, <1>3, <2>2 DEF V!UsesOf
  <2> QED
    BY <1>3, <1>4, <1>5, <2>1, <2>2
<1>6. V!UsesOf(g) = UNION {V!ToSet(g[k].uses) : k \in DOMAIN g}
  BY DEF V!UsesOf
<1> QED
  BY <1>5, <1>6 DEF g

LEMMA FlushTraced ==
    ASSUME NEW T, NEW past, NEW n \in Nat \ {0}, NEW acc, Read(acc, past, n, T),
           Traced(V!UsesOf(acc.history), acc.err, T)
    PROVE  LET d == V!flush(acc) IN Traced(V!UsesOf(d.history), d.err, T)
<1> DEFINE group == acc.group
           d == V!flush(acc)
           h == acc.history
<1>1. /\ group \in Seq(Said(T)) /\ group # << >> /\ IsSeq(h)
      /\ {"history", "group", "map", "seen", "err"} \subseteq DOMAIN acc
  BY DEF Read, GoodHistory
<1>2. acc.err \/ \A u \in V!UsesOf(h) : \E b \in T : CallFor(u, b)
  BY DEF Traced
<1>3. CASE Head(group).role = "user"
  <2> DEFINE u == V!merge_user_messages(group, acc.seen)
             m == V!UserMessage(u)
             g == Append(h, m)
  <2>1. d = [acc EXCEPT !.history = Append(@, m), !.seen = u.seen, !.err = @ \/ u.err,
                        !.group = << >>]
    BY <1>1, <1>3 DEF V!flush, V!flushed_user
  <2>2. V!ToSet(m.uses) = {}
    <3>1. m.uses = << >>
      BY DEF V!UserMessage
    <3>2. V!ToSet(<< >>) = {}
      BY DEF V!ToSet
    <3> QED
      BY <3>1, <3>2
  <2> HIDE DEF u, m, d
  <2>3. d.history = g /\ d.err = (acc.err \/ u.err)
    BY <1>1, <2>1
  <2> HIDE DEF g, h
  <2>4. V!UsesOf(g) \subseteq V!UsesOf(h)
    BY <1>1, <2>2, UsesAppend DEF g
  <2>5. d.err \/ \A x \in V!UsesOf(d.history) : \E b \in T : CallFor(x, b)
    BY <1>2, <2>3, <2>4
  <2> QED
    BY <2>5 DEF Traced, d
<1>4. CASE Head(group).role # "user"
  <2> DEFINE a == V!merge_assistant_messages(group, acc.map)
             m == V!AssistantMessage(a.text, a.uses)
             g == Append(h, m)
  <2>1. d = [acc EXCEPT !.history = Append(@, m), !.map = a.map, !.err = @ \/ a.err,
                        !.group = << >>]
    BY <1>1, <1>4 DEF V!flush, V!flushed_assistant
  <2>2. a.err \/ \A x \in V!ToSet(a.uses) : \E b \in T : CallFor(x, b)
    BY <1>1, AssistantTraced DEF Traced
  <2>3. m.uses = a.uses
    BY DEF V!AssistantMessage
  <2> HIDE DEF a, m, d
  <2>4. d.history = g /\ d.err = (acc.err \/ a.err)
    BY <1>1, <2>1
  <2> HIDE DEF g, h
  <2>5. V!UsesOf(g) \subseteq V!UsesOf(h) \cup V!ToSet(a.uses)
    BY <1>1, <2>3, UsesAppend DEF g
  <2>6. d.err \/ \A x \in V!UsesOf(d.history) : \E b \in T : CallFor(x, b)
    BY <1>2, <2>2, <2>4, <2>5
  <2> QED
    BY <2>6 DEF Traced, d
<1> QED
  BY <1>3, <1>4

LEMMA BufferTraced ==
    ASSUME NEW T, NEW past, NEW n \in Nat, NEW acc, Read(acc, past, n, T),
           Traced(V!UsesOf(acc.history), acc.err, T), NEW msg
    PROVE  LET d == V!buffer_message(acc, msg) IN Traced(V!UsesOf(d.history), d.err, T)
<1> DEFINE d == V!buffer_message(acc, msg)
           e == IF acc.group # << >> /\ Head(acc.group).role # msg.role THEN V!flush(acc) ELSE acc
<1>1. Traced(V!UsesOf(e.history), e.err, T)
  <2>1. CASE acc.group # << >> /\ Head(acc.group).role # msg.role
    <3>1. n # 0
      BY <2>1 DEF Read
    <3> QED
      BY <2>1, <3>1, FlushTraced
  <2>2. CASE ~(acc.group # << >> /\ Head(acc.group).role # msg.role)
    BY <2>2
  <2> QED
    BY <2>1, <2>2
<1>2. d = [e EXCEPT !.group = Append(@, msg)]
  BY DEF V!buffer_message
<1> HIDE DEF d, e
<1>3. d.history = e.history /\ d.err = e.err
  BY <1>2
<1> QED
  BY <1>1, <1>3 DEF d

\* The messages of the system prompt have no calls.
LEMMA SystemUses == V!UsesOf(V!system_messages) = {}
<1> DEFINE u(text) == V!UserMessage([text |-> text, images |-> << >>, results |-> << >>])
           tags == IF V!NeedsPrefix /\ req.system # "tagged" THEN <<1000>> ELSE << >>
           s == V!system_messages
           r == V!Reply
<1>1. \/ s = <<u(tags \o <<1001>>), r>> \/ s = <<u(<<1000>>), r>> \/ s = << >>
  BY DEF V!system_messages, V!Prompt, V!Policy
<1>2. r.uses = << >> /\ \A t : u(t).uses = << >>
  BY DEF V!Reply, V!AssistantMessage, V!UserMessage
<1> HIDE DEF u, tags, s, r
<1>3. \A k \in DOMAIN s : s[k].uses = << >>
  BY <1>1, <1>2
<1>4. V!ToSet(<< >>) = {}
  BY DEF V!ToSet
<1>5. V!UsesOf(s) = {}
  BY <1>3, <1>4 DEF V!UsesOf
<1> QED
  BY <1>5 DEF s

LEMMA BuiltTraced ==
    ASSUME NEW T, Numbered(T), NEW past \in Seq(Said(T)), NEW map
    PROVE  LET e == V!build_history(past, map) IN Traced(V!UsesOf(e.history), e.err, T)
<1> DEFINE L == Len(past)
           e == V!build_history(past, map)
<1>1. L \in Nat
  OBVIOUS
<1>2. PICK f : Builds(f, past, map)
  BY <1>1, BuildSteps
<1> DEFINE a == f[0]
           OK(n) == Read(f[n], past, n, T) /\ Traced(V!UsesOf(f[n].history), f[n].err, T)
           S == {n \in Nat : n <= L => OK(n)}
           d == V!flush(f[L])
<1>3. /\ a = [history |-> V!system_messages, group |-> << >>, map |-> map, seen |-> {},
              err |-> FALSE]
      /\ \A k \in 1 .. L : f[k] = V!buffer_message(f[k - 1], past[k])
      /\ e = V!with_reply(past, d)
  BY <1>2 DEF Builds
<1> HIDE DEF d, e, a
<1>4. /\ {"history", "group", "map", "seen", "err"} \subseteq DOMAIN a
      /\ a.history = V!system_messages /\ a.group = << >> /\ a.map = map /\ a.seen = {}
  BY <1>3
<1>5. Read(a, past, 0, T) /\ Traced(V!UsesOf(a.history), a.err, T)
  <2>1. << >> \in Seq(Said(T)) /\ DOMAIN << >> = {}
    OBVIOUS
  <2>2. Read(a, past, 0, T)
    BY <1>4, <2>1, SystemMessages DEF Read
  <2>3. V!UsesOf(V!system_messages) = {}
    BY SystemUses
  <2>4. V!UsesOf(a.history) = {}
    BY <1>4, <2>3
  <2> QED
    BY <2>2, <2>4 DEF Traced
<1>6. 0 \in S
  <2>1. OK(0)
    BY <1>5 DEF a
  <2> HIDE DEF OK
  <2> QED
    BY <2>1
<1>7. \A n \in Nat : n \in S => n + 1 \in S
  <2> HIDE DEF OK
  <2> SUFFICES ASSUME NEW n \in Nat, n <= L => OK(n), n + 1 <= L PROVE OK(n + 1)
    OBVIOUS
  <2>1. n <= L /\ n + 1 \in 1 .. L /\ (n + 1) - 1 = n
    BY <1>1
  <2>2. f[n + 1] = V!buffer_message(f[n], past[n + 1])
    BY <1>3, <2>1
  <2>3. Read(f[n], past, n, T) /\ Traced(V!UsesOf(f[n].history), f[n].err, T)
    BY <2>1 DEF OK
  <2>4. Read(f[n + 1], past, n + 1, T)
    BY <2>2, <2>3, ReadsOne
  <2>5. Traced(V!UsesOf(f[n + 1].history), f[n + 1].err, T)
    BY <2>2, <2>3, BufferTraced
  <2> QED
    BY <2>4, <2>5 DEF OK
<1>8. Nat \subseteq S
  <2> HIDE DEF S
  <2> QED
    BY <1>6, <1>7, NatSet
<1>9. Read(f[L], past, L, T) /\ Traced(V!UsesOf(f[L].history), f[L].err, T)
  BY <1>1, <1>8
<1>10. CASE L = 0
  <2>1. past = << >> /\ f[L] = a
    BY <1>10 DEF a
  <2>2. d = a
    BY <1>4, <2>1 DEF V!flush, d
  <2>3. e = a
    BY <1>3, <2>1, <2>2 DEF V!with_reply
  <2> QED
    BY <1>5, <2>3 DEF e
<1>11. CASE L # 0
  <2> DEFINE b == f[L]
             h == d.history
             g == Append(h, V!Reply)
  <2>1. Traced(V!UsesOf(h), d.err, T)
    BY <1>1, <1>9, <1>11, FlushTraced DEF d
  <2>2. IsSeq(h) /\ {"history", "err"} \subseteq DOMAIN d
    <3>1. L \in Nat \ {0} /\ Read(b, past, L, T) /\ d = V!flush(b)
      BY <1>1, <1>9, <1>11 DEF d
    <3> HIDE DEF b, L
    <3>2. PICK m : /\ V!flush(b).history = Append(b.history, m)
                   /\ GoodMessage(m) /\ ~Asks(m) /\ m.role = past[L].role
                   /\ V!flush(b).group = << >> /\ DOMAIN V!flush(b) = DOMAIN b
      BY <3>1, FlushEffect
    <3>3. IsSeq(b.history) /\ {"history", "err"} \subseteq DOMAIN b
      BY <3>1 DEF Read, GoodHistory
    <3>4. PICK R : b.history \in Seq(R)
      BY <3>3 DEF IsSeq
    <3> DEFINE x == b.history
    <3>5. h = Append(x, m) /\ x \in Seq(R)
      BY <3>1, <3>2, <3>4
    <3> HIDE DEF x, h
    <3>6. IsSeq(h)
      BY <3>5, AppendSet DEF IsSeq
    <3> QED
      BY <3>1, <3>2, <3>3, <3>6
  <2>3. CASE e = d
    BY <2>1, <2>3 DEF e
  <2>4. CASE e = [d EXCEPT !.history = Append(@, V!Reply)]
    <3>1. V!ToSet(V!Reply.uses) = {}
      <4>1. V!Reply.uses = << >>
        BY DEF V!Reply, V!AssistantMessage
      <4>2. V!ToSet(<< >>) = {}
        BY DEF V!ToSet
      <4> QED
        BY <4>1, <4>2
    <3>3. e.history = g /\ e.err = d.err
      BY <2>2, <2>4
    <3> HIDE DEF h, g
    <3>4. V!UsesOf(g) \subseteq V!UsesOf(h)
      BY <2>2, <3>1, UsesAppend DEF g
    <3>5. e.err \/ \A x \in V!UsesOf(e.history) : \E c \in T : CallFor(x, c)
      BY <2>1, <3>3, <3>4 DEF Traced
    <3> QED
      BY <3>5 DEF Traced, e
  <2> QED
    BY <1>3, <2>3, <2>4 DEF V!with_reply
<1> QED
  BY <1>10, <1>11

-----------------------------------------------------------------------------
\* What is pruned has the texts and the images of the history, and some of its calls.
LEMMA PrunedCarried ==
    ASSUME NEW h, GoodHistory(h), NEW orphans
    PROVE  LET g == V!remove_orphaned_tool_uses(h, orphans)
           IN /\ TextsOf(g) = TextsOf(h) /\ ImagesOf(g) = ImagesOf(h)
              /\ V!UsesOf(g) \subseteq V!UsesOf(h)
              /\ IsSeq(g) /\ \A k \in DOMAIN g : IsSeq(g[k].uses)
<1> DEFINE g == V!remove_orphaned_tool_uses(h, orphans)
<1>1. /\ DOMAIN g = DOMAIN h /\ Len(g) = Len(h)
      /\ \A k \in DOMAIN h :
           /\ g[k].text = h[k].text /\ g[k].images = h[k].images
           /\ IsSeq(g[k].uses)
           /\ V!ToSet(g[k].uses) = {u \in V!ToSet(h[k].uses) : u.id \notin orphans}
  BY PrunedEffect
<1>2. IsSeq(g)
  <2>1. PICK R : h \in Seq(R)
    BY DEF GoodHistory, IsSeq
  <2>2. Len(h) \in Nat /\ DOMAIN h = 1 .. Len(h)
    BY <2>1
  <2>3. g = [k \in DOMAIN h |-> g[k]]
    BY DEF V!remove_orphaned_tool_uses
  <2> DEFINE Q == {g[k] : k \in DOMAIN h}
  <2>4. \A k \in 1 .. Len(h) : g[k] \in Q
    BY <2>2
  <2> HIDE DEF Q, g
  <2>5. g \in [1 .. Len(h) -> Q]
    BY <2>2, <2>3, <2>4
  <2>6. g \in Seq(Q)
    BY <2>2, <2>5, SeqDef
  <2> QED
    BY <2>6 DEF IsSeq
<1> HIDE DEF g
<1>3. TextsOf(g) = TextsOf(h) /\ ImagesOf(g) = ImagesOf(h)
  <2>1. [k \in DOMAIN g |-> g[k].text] = [k \in DOMAIN h |-> h[k].text]
    BY <1>1
  <2>2. [k \in DOMAIN g |-> g[k].images] = [k \in DOMAIN h |-> h[k].images]
    BY <1>1
  <2> QED
    BY <2>1, <2>2 DEF TextsOf, ImagesOf
<1>4. V!UsesOf(g) \subseteq V!UsesOf(h)
  <2>1. ASSUME NEW u PROVE u \in V!UsesOf(g) <=> \E k \in DOMAIN g : u \in V!ToSet(g[k].uses)
    BY DEF V!UsesOf
  <2>2. ASSUME NEW u PROVE u \in V!UsesOf(h) <=> \E k \in DOMAIN h : u \in V!ToSet(h[k].uses)
    BY DEF V!UsesOf
  <2> QED
    BY <1>1, <2>1, <2>2
<1> QED
  BY <1>1, <1>2, <1>3, <1>4 DEF g

\* The tools that the client knows, by its settings q and its messages.
NamesFor(ms, q) ==
  V!ToSet(q.tools) \cup NamesIn(V!BlocksOf(SubSeq(ms, 1, V!LastUser(ms))))

\* ContentKept, said of a request r for the messages ms.
KeepsContent(r, ms) ==
  LET kept == SubSeq(ms, 1, V!LastUser(ms))
  IN /\ ClientTexts(TextsOf(r.history) \o r.text) = Told(Contents(kept))
     /\ SentOnce(ImagesOf(r.history), Pictures(V!BlocksOf(V!Front(kept))))

\* The calls of a request r are what blocks of B become, and the map leads back to names in N.
Mapped(r, N, B) ==
  /\ Entries(r.map, N)
  /\ \A u \in V!UsesOf(r.history) : Stands(u.name, r.map, N) /\ \E b \in B : CallFor(u, b)

\* CallsSurvive, said of a request r for the messages ms, made with the settings q.
KeepsCalls(r, ms, q) ==
  q.mode = "ClaudeCode" /\ (\A n \in NamesFor(ms, q) : \A b \in DOMAIN V!Builtin : n # V!Builtin[b])
    => \A u \in V!UsesOf(r.history) :
         \E b \in V!BlocksOf(SubSeq(ms, 1, V!LastUser(ms))) :
           b.type = "tool_use" /\ Survives(u, b, r.map)

\* A conversation consists of its own blocks.
LEMMA OwnBlocks ==
    ASSUME NEW T, Numbered(T), NEW ms \in Seq(Said(T))
    PROVE  Numbered(V!BlocksOf(ms)) /\ ms \in Seq(Said(V!BlocksOf(ms)))
<1> DEFINE U == V!BlocksOf(ms)
<1>1. Len(ms) \in Nat /\ DOMAIN ms = 1 .. Len(ms) /\ \A k \in DOMAIN ms : ms[k] \in Said(T)
  OBVIOUS
<1>2. \A k \in DOMAIN ms : V!ToSet(ms[k].content) \subseteq U
  BY DEF V!BlocksOf
<1>3. U \subseteq T
  <2>1. ASSUME NEW k \in DOMAIN ms PROVE V!ToSet(ms[k].content) \subseteq T
    <3>1. ms[k].content \in Seq(T)
      BY <1>1 DEF Said
    <3> QED
      BY <3>1 DEF V!ToSet
  <2> QED
    BY <2>1 DEF V!BlocksOf
<1> HIDE DEF U
<1>4. Numbered(U)
  BY <1>3 DEF Numbered
<1>5. ASSUME NEW k \in DOMAIN ms PROVE ms[k] \in Said(U)
  <2> DEFINE c == ms[k].content
  <2>1. c \in Seq(T)
    BY <1>1 DEF Said
  <2>2. \A j \in DOMAIN c : c[j] \in U
    BY <1>2 DEF V!ToSet
  <2> HIDE DEF c
  <2>3. c \in Seq(U)
    BY <2>1, <2>2, SequenceOf DEF IsSeq
  <2> QED
    BY <1>1, <2>3 DEF Said, c
<1>6. ms \in Seq(Said(U))
  BY <1>5, SequenceOf DEF IsSeq
<1> QED
  BY <1>4, <1>6 DEF U

LEMMA ConversionCarried ==
    ASSUME req \in Settings, NEW ms, Conversation(ms),
           NEW r, r = V!convert_request_with_mode(ms), r # Null
    PROVE  /\ KnowsTools(r, NamesFor(ms, req), req) /\ KeepsContent(r, ms)
           /\ Mapped(r, NamesFor(ms, req), V!BlocksOf(SubSeq(ms, 1, V!LastUser(ms))))
<1>1. PICK T0 : Numbered(T0) /\ ms \in Seq(Said(T0))
  BY DEF Conversation
<1> DEFINE last == V!LastUser(ms)
           kept == SubSeq(ms, 1, last)
           past == SubSeq(kept, 1, Len(kept) - 1)
           final == kept[Len(kept)]
           current == V!process_message_content(V!Nothing({}), final.content, FALSE)
           declared == V!convert_tools(req.tools)
           built == V!build_history(past, declared.map)
           h == built.history
           paired == V!validate_tool_pairing(h, current.results)
           g == V!remove_orphaned_tool_uses(h, paired.orphans)
           N == NamesFor(ms, req)
           T == V!BlocksOf(kept)
<1>2. last \in 0 .. Len(ms)
  BY <1>1, LastUserBound
<1>3. last # 0 /\ r = V!convert_kept(kept)
  BY DEF V!convert_request_with_mode
<1>4. V!ToSet(req.tools) \subseteq N /\ NamesIn(T) \subseteq N
  BY DEF NamesFor
<1>5. V!Front(kept) = past
  BY DEF V!Front
<1> HIDE DEF last, N
<1>6. kept \in Seq(Said(T0)) /\ Len(kept) = last /\ last \in Nat \ {0}
  BY <1>1, <1>2, <1>3
<1>7. r = V!Paired(current, built, declared.tools)
  BY <1>3 DEF V!convert_kept, V!WithHistory, V!Front, V!Last
<1> HIDE DEF kept
<1>8. Numbered(T) /\ kept \in Seq(Said(T))
  BY <1>1, <1>6, OwnBlocks
<1> HIDE DEF T
<1>9. /\ past \in Seq(Said(T)) /\ final \in Said(T) /\ kept = Append(past, final)
  <2> DEFINE n == Len(kept) - 1
  <2>1. n \in Nat /\ n + 1 = Len(kept)
    BY <1>6
  <2>2. /\ SubSeq(kept, 1, Len(kept)) = kept
        /\ n + 1 <= Len(kept) => /\ SubSeq(kept, 1, n) \in Seq(Said(T)) /\ kept[n + 1] \in Said(T)
                                 /\ SubSeq(kept, 1, n + 1) = Append(SubSeq(kept, 1, n), kept[n + 1])
    BY <1>8, <2>1, PrefixSteps
  <2> QED
    BY <2>1, <2>2
<1> HIDE DEF past, final
<1>10. final.content \in Seq(T)
  BY <1>9 DEF Said
<1>11. Declared(declared, N)
  <2> DEFINE R == V!ToSet(req.tools)
  <2>1. req.tools \in Seq(R) /\ \A k \in DOMAIN req.tools : req.tools[k] \in N
    BY <1>4, SameOperators, ConverterAssumption DEF V!ToSet
  <2> HIDE DEF R
  <2> QED
    BY <2>1, ToolsEffect
<1> HIDE DEF declared
<1>12. Carried(built, declared.map, past, N) /\ built.group = << >> /\ GoodHistory(h)
  BY <1>4, <1>8, <1>9, <1>11, BuiltCarried, HistoryEffect DEF Declared
<1>18. \A u \in V!UsesOf(h) : \E b \in T : CallFor(u, b)
  <2>1. Traced(V!UsesOf(h), built.err, T)
    BY <1>8, <1>9, BuiltTraced
  <2>2. ~built.err
    <3> HIDE DEF built, current
    <3> QED
      BY <1>7 DEF V!Paired
  <2> HIDE DEF built
  <2> QED
    BY <2>1, <2>2 DEF Traced
<1>13. /\ current.text \in Seq(Int)
       /\ ClientTexts(current.text) = Told(final.content)
  <2> DEFINE a == V!Nothing({})
  <2>1. Collected(a) /\ a.text = << >>
    BY NothingCollected DEF V!Nothing
  <2> HIDE DEF a
  <2>2. Collected(current) /\ ClientTexts(current.text) = Told(final.content)
    BY <1>8, <1>10, <2>1, ContentEffect, ContentTold DEF a
  <2>3. Texts \subseteq Int
    BY DEF Texts
  <2> HIDE DEF current
  <2> QED
    BY <2>2, <2>3, SeqMonotonic DEF Collected
<1> HIDE DEF current, built
<1>14. /\ r.history = g /\ r.text = current.text /\ r.map = built.map
       /\ r.tools = V!with_placeholders(g, declared.tools)
  <2>1. r = V!WithoutOrphans(current, built, paired, declared.tools)
    BY <1>7 DEF V!Paired
  <2> HIDE DEF paired
  <2> QED
    BY <2>1 DEF V!WithoutOrphans, V!KiroRequest
<1>15. /\ TextsOf(g) = TextsOf(h) /\ ImagesOf(g) = ImagesOf(h)
       /\ V!UsesOf(g) \subseteq V!UsesOf(h)
       /\ IsSeq(g) /\ \A k \in DOMAIN g : IsSeq(g[k].uses)
  <2> DEFINE o == paired.orphans
  <2> HIDE DEF o
  <2>1. g = V!remove_orphaned_tool_uses(h, o)
    BY DEF o
  <2> HIDE DEF g
  <2> QED
    BY <1>12, <2>1, PrunedCarried
<1> HIDE DEF g, h
<1>16. KnowsTools(r, N, req)
  <2> DEFINE map == built.map
             tools == declared.tools
  <2>1. /\ Entries(map, N) /\ DOMAIN declared.map \subseteq DOMAIN map
        /\ \A u \in V!UsesOf(h) : Stands(u.name, map, N)
    BY <1>12 DEF Carried, h
  <2>2. IsSeq(tools) /\ \A k \in DOMAIN tools : Stands(tools[k], map, N)
    BY <1>11, <2>1 DEF Declared, Stands
  <2>3. \A u \in V!UsesOf(g) : Stands(u.name, map, N)
    BY <1>15, <2>1
  <2>4. r.history = g /\ r.tools = V!with_placeholders(g, tools) /\ r.map = map
    BY <1>14
  <2> HIDE DEF map, tools
  <2> QED
    BY <1>15, <2>1, <2>2, <2>3, <2>4, ToolsEffectAll
<1>17. KeepsContent(r, ms)
  <2>1. ClientTexts(TextsOf(h)) \o Told(Contents(<< >>)) = Told(Contents(past))
    BY <1>12 DEF Carried, h
  <2>2. TextsOf(h) \in Seq(Int)
    BY <1>12, HistoryTexts DEF Carried, h
  <2>3. ClientTexts(TextsOf(h)) = Told(Contents(past))
    <3> DEFINE A == ClientTexts(TextsOf(h))
    <3>1. A \in Seq(Int)
      BY <2>2, ClientTextsType
    <3> HIDE DEF A
    <3>2. A \o << >> = A
      BY <3>1
    <3> QED
      BY <2>1, <3>2, NoBlocks DEF A
  <2>4. ClientTexts(TextsOf(h) \o current.text) = ClientTexts(TextsOf(h)) \o ClientTexts(current.text)
    BY <1>13, <2>2, ClientTextsConcat
  <2>5. Contents(kept) = Contents(past) \o final.content /\ Contents(past) \in Seq(T)
    BY <1>9, ContentsSteps
  <2>6. Told(Contents(kept)) = Told(Contents(past)) \o Told(final.content)
    BY <1>10, <2>5, ToldConcat
  <2>7. ClientTexts(TextsOf(r.history) \o r.text) = Told(Contents(kept))
    BY <1>13, <1>14, <1>15, <2>3, <2>4, <2>6
  <2>8. SentOnce(ImagesOf(r.history), Pictures(V!BlocksOf(past)))
    <3>1. SentOnce(ImagesOf(h), built.seen)
      BY <1>12 DEF Carried, h
    <3>2. built.seen = Pictures(V!BlocksOf(past))
      <4>1. built.seen \cup Pictures(V!BlocksOf(built.group)) = Pictures(V!BlocksOf(past))
        BY <1>12 DEF Carried
      <4>2. Pictures(V!BlocksOf(built.group)) = {}
        BY <1>12, NoBlocks
      <4> QED
        BY <4>1, <4>2
    <3> QED
      BY <1>14, <1>15, <3>1, <3>2
  <2> QED
    BY <1>5, <2>7, <2>8 DEF KeepsContent, kept, last
<1>19. Mapped(r, N, T)
  <2>1. /\ Entries(built.map, N)
        /\ \A u \in V!UsesOf(h) : Stands(u.name, built.map, N)
    BY <1>12 DEF Carried, h
  <2> QED
    BY <1>14, <1>15, <1>18, <2>1 DEF Mapped
<1> QED
  BY <1>16, <1>17, <1>19 DEF N, T, kept, last

\* If the client said what the tables know, its calls survive.
LEMMA MappedSurvives ==
    ASSUME req \in Settings, NEW ms, NEW r, NEW N, N = NamesFor(ms, req), NEW B,
           B = V!BlocksOf(SubSeq(ms, 1, V!LastUser(ms))), Mapped(r, N, B),
           \A b \in B : b.type = "tool_use" => GoodCall(b, req)
    PROVE  KeepsCalls(r, ms, req) /\ N \subseteq NamesOf(req)
<1>1. N = V!ToSet(req.tools) \cup NamesIn(B)
  BY DEF NamesFor
<1>2. N \subseteq NamesOf(req)
  BY <1>1, SameOperators DEF NamesIn, GoodCall, NamesOf
<1>3. ASSUME req.mode = "ClaudeCode", \A n \in N : \A b \in DOMAIN V!Builtin : n # V!Builtin[b],
             NEW u \in V!UsesOf(r.history)
      PROVE  \E b \in B : b.type = "tool_use" /\ Survives(u, b, r.map)
  <2>1. Entries(r.map, N) /\ Stands(u.name, r.map, N)
    BY DEF Mapped
  <2>2. PICK b \in B : CallFor(u, b)
    BY DEF Mapped
  <2>3. b.type = "tool_use"
    BY <2>2 DEF CallFor
  <2>4. b.name \in N /\ GoodCall(b, req)
    BY <1>1, <2>3 DEF NamesIn
  <2>5. Distinct(N)
    BY <1>2, <1>3 DEF Distinct
  <2>6. Survives(u, b, r.map)
    BY <1>3, <2>1, <2>2, <2>4, <2>5, CallSurvives
  <2> QED
    BY <2>3, <2>6
<1> QED
  BY <1>2, <1>3 DEF KeepsCalls

-----------------------------------------------------------------------------
(* The client's conversation *)

ConverterInv ==
  /\ req \in Settings
  /\ blocks \in Nat
  /\ Conversation(messages)
  /\ \A b \in V!BlocksOf(messages) : b.type = "tool_use" => GoodCall(b, req)
  /\ result # Null =>
       /\ AllAnswered(result) /\ TakesTurns(result, messages) /\ AsksOnce(result, req)
       /\ KnowsTools(result, NamesFor(messages, req), req) /\ KeepsContent(result, messages)
       /\ KeepsCalls(result, messages, req) /\ NamesFor(messages, req) \subseteq NamesOf(req)

LEMMA ConverterInit ==
    ASSUME V!Init
    PROVE  ConverterInv
<1>1. Numbered({}) /\ << >> \in Seq(Said({}))
  BY DEF Numbered
<1>2. V!BlocksOf(<< >>) = {}
  BY DEF V!BlocksOf
<1> QED
  BY <1>1, <1>2 DEF V!Init, ConverterInv, Conversation

\* A block continues a message.
LEMMA BlockJoins ==
    ASSUME NEW U, NEW role, NEW m \in Said(U), m.role = role, NEW b \in U,
           role = "assistant" => b.type \notin {"image", "tool_result"}
    PROVE  [role |-> role, content |-> Append(m.content, b)] \in Said(U)
<1> DEFINE c == m.content
           e == Append(c, b)
<1>1. c \in Seq(U) /\ role \in {"user", "assistant"}
  BY DEF Said
<1>2. role = "assistant" => \A y \in V!ToSet(c) : y.type \notin {"image", "tool_result"}
  BY DEF Said
<1> HIDE DEF c
<1>3. V!ToSet(e) = V!ToSet(c) \cup {b}
  BY <1>1, AppendSet
<1>4. e \in Seq(U)
  BY <1>1
<1> HIDE DEF e
<1>5. [role |-> role, content |-> e] \in Said(U)
  BY <1>1, <1>2, <1>3, <1>4 DEF Said
<1> QED
  BY <1>5 DEF e, c

\* Messages of blocks in U have no others.
LEMMA SaidBlocks ==
    ASSUME NEW U, NEW ms \in Seq(Said(U))
    PROVE  /\ V!BlocksOf(ms) \subseteq U
           /\ \A n \in 0 .. Len(ms) : V!BlocksOf(SubSeq(ms, 1, n)) \subseteq V!BlocksOf(ms)
<1>1. Len(ms) \in Nat /\ DOMAIN ms = 1 .. Len(ms) /\ \A k \in DOMAIN ms : ms[k] \in Said(U)
  OBVIOUS
<1>2. ASSUME NEW k \in DOMAIN ms PROVE V!ToSet(ms[k].content) \subseteq U
  <2>1. ms[k].content \in Seq(U)
    BY <1>1 DEF Said
  <2> QED
    BY <2>1 DEF V!ToSet
<1>3. V!BlocksOf(ms) \subseteq U
  BY <1>2 DEF V!BlocksOf
<1>4. ASSUME NEW n \in 0 .. Len(ms) PROVE V!BlocksOf(SubSeq(ms, 1, n)) \subseteq V!BlocksOf(ms)
  <2> DEFINE pre == SubSeq(ms, 1, n)
  <2>1. DOMAIN pre \subseteq DOMAIN ms /\ \A k \in DOMAIN pre : pre[k] = ms[k]
    BY <1>1
  <2> HIDE DEF pre
  <2>2. V!BlocksOf(pre) \subseteq V!BlocksOf(ms)
    BY <2>1 DEF V!BlocksOf
  <2> QED
    BY <2>2 DEF pre
<1> QED
  BY <1>3, <1>4

LEMMA AddKeeps ==
    ASSUME ConverterInv, NEW role \in {"user", "assistant"}, NEW b,
           V!Add(role, b), b.type = "text" => b.text = blocks + 1,
           b.type = "tool_use" => GoodCall(b, req),
           role = "assistant" => b.type \notin {"image", "tool_result"}
    PROVE  ConverterInv'
<1> DEFINE T == V!BlocksOf(messages)
<1>1. Numbered(T) /\ messages \in Seq(Said(T))
  BY OwnBlocks DEF ConverterInv, Conversation
<1> HIDE DEF T
<1>2. /\ blocks \in Nat /\ blocks < req.room /\ blocks' = blocks + 1
      /\ req' = req /\ req \in Settings
      /\ result' = V!convert_request_with_mode(messages')
  BY DEF V!Add, ConverterInv
<1>3. b.type = "text" => b.text \in 1 .. 999
  <2> DEFINE next == blocks + 1
  <2>1. req.room \in 0 .. 999
    BY <1>2, ConverterAssumption
  <2>2. \A m, n \in Nat : n \in 0 .. 999 /\ m < n => m + 1 \in 1 .. 999
    OBVIOUS
  <2>3. req.room \in Nat
    BY ONLY <2>1
  <2>4. next \in 1 .. 999
    BY ONLY <1>2, <2>1, <2>2, <2>3
  <2>5. b.type = "text" => b.text = next
    OBVIOUS
  <2> HIDE DEF next
  <2> QED
    BY ONLY <2>4, <2>5
<1> DEFINE U == T \cup {b}
<1>4. Numbered(U)
  <2> DEFINE Fine(c) == c.type = "text" => c.text \in 1 .. 999
  <2>1. \A c \in T : Fine(c)
    BY <1>1 DEF Numbered
  <2>2. \A c \in U : c \in T \/ c = b
    OBVIOUS
  <2>3. Fine(b)
    BY <1>3
  <2>4. Numbered(U) <=> \A c \in U : Fine(c)
    BY DEF Numbered
  <2> HIDE DEF U, Fine
  <2> QED
    BY <2>1, <2>2, <2>3, <2>4
<1>5. messages \in Seq(Said(U))
  <2>1. \A c : c \in Seq(T) => c \in Seq(U)
    OBVIOUS
  <2>2. Said(T) \subseteq Said(U)
    <3> HIDE DEF U
    <3> QED
      BY <2>1 DEF Said
  <2> HIDE DEF U
  <2> QED
    BY <1>1, <2>2
<1>6. b \in U
  OBVIOUS
<1> HIDE DEF U
<1>7. messages' \in Seq(Said(U))
  <2>1. CASE messages' = Append(messages, [role |-> role, content |-> <<b>>])
    <3>1. <<b>> \in Seq(U)
      BY <1>6
    <3>2. V!ToSet(<<b>>) = {b}
      <4>1. DOMAIN <<b>> = {1} /\ <<b>>[1] = b
        OBVIOUS
      <4> QED
        BY <4>1 DEF V!ToSet
    <3>3. [role |-> role, content |-> <<b>>] \in Said(U)
      <4> DEFINE c == <<b>>
      <4> HIDE DEF c
      <4> QED
        BY <3>1, <3>2 DEF Said, c
    <3> QED
      BY <1>5, <2>1, <3>3
  <2>2. CASE /\ messages # << >>
             /\ V!Last(messages).role = role
             /\ messages' = Append(V!Front(messages),
                    [role |-> role, content |-> Append(V!Last(messages).content, b)])
    <3>1. Len(messages) \in Nat \ {0}
      BY <1>5, <2>2
    <3>2. V!Last(messages) \in Said(U) /\ V!Last(messages).role = role
      BY <1>5, <2>2, <3>1 DEF V!Last
    <3>3. V!Last(messages).content \in Seq(U)
      BY <3>2 DEF Said
    <3>4. Append(V!Last(messages).content, b) \in Seq(U)
      BY <1>6, <3>3
    <3>5. [role |-> role, content |-> Append(V!Last(messages).content, b)] \in Said(U)
      <4> DEFINE m == V!Last(messages)
      <4>1. m \in Said(U) /\ m.role = role
        BY <3>2
      <4> HIDE DEF m
      <4>2. [role |-> role, content |-> Append(m.content, b)] \in Said(U)
        BY <1>6, <4>1, BlockJoins
      <4> QED
        BY <4>2 DEF m
    <3>6. V!Front(messages) \in Seq(Said(U))
      BY <1>5, <3>1 DEF V!Front
    <3> QED
      BY <2>2, <3>5, <3>6
  <2> QED
    BY <2>1, <2>2 DEF V!Add
<1>8. Conversation(messages')
  BY <1>4, <1>7 DEF Conversation
<1>9. \A c \in V!BlocksOf(messages') : c.type = "tool_use" => GoodCall(c, req)
  <2>1. V!BlocksOf(messages') \subseteq U
    BY <1>7, SaidBlocks
  <2>2. \A c \in U : c \in T \/ c = b
    BY DEF U
  <2>3. \A c \in T : c.type = "tool_use" => GoodCall(c, req)
    BY DEF ConverterInv, T
  <2> QED
    BY <2>1, <2>2, <2>3
<1>10. result' # Null =>
        /\ AllAnswered(result') /\ TakesTurns(result', messages') /\ AsksOnce(result', req)
        /\ KnowsTools(result', NamesFor(messages', req), req) /\ KeepsContent(result', messages')
        /\ Mapped(result', NamesFor(messages', req),
                  V!BlocksOf(SubSeq(messages', 1, V!LastUser(messages'))))
  BY <1>2, <1>8, ConversionEffect, ConversionCarried
<1>11. result' # Null =>
         KeepsCalls(result', messages', req) /\ NamesFor(messages', req) \subseteq NamesOf(req)
  <2> DEFINE ms == messages'
             B == V!BlocksOf(SubSeq(ms, 1, V!LastUser(ms)))
  <2>1. V!LastUser(ms) \in 0 .. Len(ms)
    BY <1>7, LastUserBound
  <2>2. B \subseteq V!BlocksOf(ms)
    BY <1>7, <2>1, SaidBlocks
  <2>3. \A c \in B : c.type = "tool_use" => GoodCall(c, req)
    BY <1>9, <2>2
  <2>4. result' # Null => Mapped(result', NamesFor(ms, req), B)
    BY <1>10
  <2> HIDE DEF ms
  <2>5. result' # Null => KeepsCalls(result', ms, req) /\ NamesFor(ms, req) \subseteq NamesOf(req)
    BY <1>2, <2>3, <2>4, MappedSurvives
  <2> QED
    BY <2>5 DEF ms
<1> QED
  BY <1>2, <1>8, <1>9, <1>10, <1>11 DEF ConverterInv

LEMMA ConverterStep ==
    ASSUME ConverterInv, [V!Next]_V!vars
    PROVE  ConverterInv'
<1>1. CASE V!SayText
  <2> DEFINE b == [type |-> "text", text |-> blocks + 1]
  <2>1. PICK role \in {"user", "assistant"} : V!Add(role, b)
    BY <1>1 DEF V!SayText
  <2> QED
    BY <2>1, AddKeeps
<1>2. CASE V!ShowImage
  <2>1. PICK i \in Images : V!Add("user", [type |-> "image", image |-> i])
    BY <1>2 DEF V!ShowImage
  <2> DEFINE b == [type |-> "image", image |-> i]
  <2>2. V!Add("user", b) /\ b.type # "text"
    BY <2>1
  <2> QED
    BY <2>2, AddKeeps
<1>3. CASE V!Think
  <2> DEFINE b == [type |-> "thinking"]
  <2>1. V!Add("assistant", b) /\ b.type # "text"
    BY <1>3 DEF V!Think
  <2> QED
    BY <2>1, AddKeeps
<1>4. CASE V!CallTool
  <2>1. PICK u \in req.uses :
          V!Add("assistant", [type |-> "tool_use", id |-> u.id, name |-> u.name,
                              input |-> u.input])
    BY <1>4 DEF V!CallTool
  <2> DEFINE b == [type |-> "tool_use", id |-> u.id, name |-> u.name, input |-> u.input]
  <2>2. V!Add("assistant", b) /\ b.type = "tool_use"
    BY <2>1
  <2>3. GoodCall(b, req)
    <3>1. b.name = u.name /\ b.input = u.input
      OBVIOUS
    <3> HIDE DEF b
    <3> QED
      BY <3>1, UsesAssumption DEF ConverterInv, GoodCall, NamesOf
  <2> QED
    BY <2>2, <2>3, AddKeeps
<1>5. CASE V!GiveResult
  <2>1. PICK i \in ToolIds, x \in Images \cup {Null} :
          V!Add("user", [type |-> "tool_result", id |-> i, image |-> x,
                         text |-> IF x = Null THEN blocks + 1 ELSE Null])
    BY <1>5 DEF V!GiveResult
  <2> DEFINE b == [type |-> "tool_result", id |-> i, image |-> x,
                   text |-> IF x = Null THEN blocks + 1 ELSE Null]
  <2>2. V!Add("user", b) /\ b.type # "text"
    BY <2>1
  <2> QED
    BY <2>2, AddKeeps
<1>6. CASE V!KiroCalls
  <2>1. PICK k \in DOMAIN result.tools, i \in ToolIds :
          LET call == V!restore_tool_use_for_client(result.tools[k], << >>, result.map)
          IN V!Add("assistant", [type |-> "tool_use", id |-> i, name |-> call.name,
                                 input |-> call.input])
    BY <1>6 DEF V!KiroCalls
  <2> DEFINE call == V!restore_tool_use_for_client(result.tools[k], << >>, result.map)
             b == [type |-> "tool_use", id |-> i, name |-> call.name, input |-> call.input]
  <2>2. V!Add("assistant", b) /\ b.type = "tool_use"
    BY <2>1
  <2>3. GoodCall(b, req)
    <3>1. result # Null
      BY <1>6 DEF V!KiroCalls
    <3>2. call.name \in NamesFor(messages, req) /\ NamesFor(messages, req) \subseteq NamesOf(req)
      BY <3>1 DEF ConverterInv, KnowsTools
    <3>3. call.input = << >>
      BY NothingRestored
    <3>4. b.name = call.name /\ b.input = call.input
      OBVIOUS
    <3> HIDE DEF b, call
    <3> QED
      BY <3>2, <3>3, <3>4 DEF GoodCall
  <2> QED
    BY <2>2, <2>3, AddKeeps
<1>7. CASE UNCHANGED V!vars
  BY <1>7 DEF V!vars, ConverterInv, AsksOnce
<1> QED
  BY <1>1, <1>2, <1>3, <1>4, <1>5, <1>6, <1>7 DEF V!Next, V!Full

LEMMA ConverterInvariant == ConverterSpec => []ConverterInv
<1>1. V!Init => ConverterInv
  BY ConverterInit
<1>2. ConverterInv /\ [V!Next]_V!vars => ConverterInv'
  BY ConverterStep
<1> QED
  BY <1>1, <1>2, PTL DEF ConverterSpec, V!Spec

\* Whatever the client leaves out, repeats or answers twice, every call that is sent to
\* Kiro has a result, and the current message answers the open calls, each once.
THEOREM AnsweredTheorem == ConverterSpec => []CallsAnswered
<1>1. ConverterInv => CallsAnswered
  BY DEF ConverterInv, AllAnswered, CallsAnswered, V!CallsAnswered
<1> QED
  BY <1>1, ConverterInvariant, PTL

\* If the client's conversation begins with the user, roles alternate in the history that is
\* sent, it ends with an answer, and no message with calls is empty.
THEOREM TurnsTheorem == ConverterSpec => []HistoryAlternates
<1>1. ConverterInv => HistoryAlternates
  BY DEF ConverterInv, TakesTurns, HistoryAlternates, V!HistoryAlternates, V!Kept
<1> QED
  BY <1>1, ConverterInvariant, PTL

\* A request for thinking reaches Kiro once, as a field or as tags in the prompt, for every
\* model, effort, budget and system prompt.
THEOREM AsksOnceTheorem == ConverterSpec => []ThinkingRequestedOnce
<1>1. ConverterInv => ThinkingRequestedOnce
  BY DEF ConverterInv, AsksOnce, ThinkingRequestedOnce, V!ThinkingRequestedOnce
<1> QED
  BY <1>1, ConverterInvariant, PTL

\* Every tool that is called in the history is defined, and every tool Kiro can call is one
\* of the client's, mapped back to the same tool: for all names, shortened or not.
THEOREM ToolsTheorem == ConverterSpec => []ToolsKnown
<1>1. ConverterInv => ToolsKnown
  <2>1. NamesFor(messages, req) = V!ClientNames
    BY DEF NamesFor, NamesIn, V!ClientNames, V!Calls, V!Kept
  <2> QED
    BY <2>1 DEF ConverterInv, KnowsTools, ToolsKnown, V!ToolsKnown
<1> QED
  BY <1>1, ConverterInvariant, PTL

\* A call has the fields of the schema Kiro was given for the tool, and restoring it gives the
\* client the name and the arguments it used: for any tools, names and arguments that the tables
\* of map_tool_input_to_kiro and map_tool_input_from_kiro know.
THEOREM SurvivalTheorem == ConverterSpec => []CallsSurvive
<1>1. ConverterInv => CallsSurvive
  <2> SUFFICES ASSUME ConverterInv, result # Null, req.mode = "ClaudeCode",
                      \A n \in V!ClientNames : \A b \in DOMAIN V!Builtin : n # V!Builtin[b],
                      NEW u \in V!UsesOf(result.history)
               PROVE  \E b \in V!Calls : Survives(u, b, result.map)
    BY DEF CallsSurvive, V!CallsSurvive, Survives
  <2>1. NamesFor(messages, req) = V!ClientNames
    BY DEF NamesFor, NamesIn, V!ClientNames, V!Calls, V!Kept
  <2>2. PICK b \in V!BlocksOf(V!Kept) : b.type = "tool_use" /\ Survives(u, b, result.map)
    BY <2>1 DEF ConverterInv, KeepsCalls, V!Kept
  <2> QED
    BY <2>2 DEF V!Calls
<1> QED
  BY <1>1, ConverterInvariant, PTL

\* All text of the client arrives once and in order, and the history has each supported image
\* shown before the current message once: for any conversation, dropped and merged messages
\* included.
THEOREM ContentTheorem == ConverterSpec => []ContentKept
<1>1. ConverterInv => ContentKept
  <2> SUFFICES ASSUME ConverterInv, result # Null PROVE V!ContentKept
    BY DEF ContentKept, V!ContentKept
  <2> DEFINE said == V!FlattenSeq([k \in DOMAIN V!Kept |-> V!Kept[k].content])
             texts == V!FlattenSeq([k \in DOMAIN result.history |-> result.history[k].text])
                        \o result.text
             sent == V!FlattenSeq([k \in DOMAIN result.history |-> result.history[k].images])
             shown == {b.image : b \in {x \in V!BlocksOf(V!Front(V!Kept)) :
                                          x.type \in {"image", "tool_result"}}}
                        \ (BadImages \cup {Null})
  <2>1. ClientTexts(texts) = Told(said) /\ SentOnce(sent, shown)
    BY DEF ConverterInv, KeepsContent, TextsOf, ImagesOf, Contents, Pictures, V!Kept
  <2>2. V!Pick(texts, {k \in DOMAIN texts : texts[k] \in 1 .. 999}) = ClientTexts(texts)
    BY SameOperators DEF ClientTexts, Keep
  <2>3. V!Pick([k \in DOMAIN said |-> IF said[k].type = "text" THEN said[k].text ELSE Null],
               {k \in DOMAIN said : said[k].type = "text"}) = Told(said)
    BY SameOperators DEF Told, TextsIn, TextAt
  <2>4. V!ToSet(sent) = shown /\ Len(sent) = V!Cardinality(shown)
    BY <2>1, SameOperators DEF SentOnce
  <2> HIDE DEF said, texts, sent, shown
  <2>5. /\ V!Pick(texts, {k \in DOMAIN texts : texts[k] \in 1 .. 999})
             = V!Pick([k \in DOMAIN said |-> IF said[k].type = "text" THEN said[k].text ELSE Null],
                      {k \in DOMAIN said : said[k].type = "text"})
        /\ V!ToSet(sent) = shown /\ Len(sent) = V!Cardinality(shown)
    BY <2>1, <2>2, <2>3, <2>4
  <2> QED
    BY <2>5 DEF V!ContentKept, said, texts, sent, shown
<1> QED
  BY <1>1, ConverterInvariant, PTL
=============================================================================
