------------------------ MODULE FramesAndUsageProofs ------------------------
(***************************************************************************)
(* Proofs about two of the parts of MCParts: FrameDecoder, for streams,    *)
(* chunks and limits of any size, and UsageLog, for any retention, number  *)
(* of buckets and length of the history.                                   *)
(***************************************************************************)
EXTENDS MCParts, FiniteSetTheorems, SequenceTheorems, SubsequenceProofs, TLAPS

-----------------------------------------------------------------------------
(* FrameDecoder: where the frames are *)

FrameType == [kind : D!Kinds, size : Nat]

LEMMA FramesTyped ==
    ASSUME frames \in FrameSets
    PROVE  /\ frames \in Seq(FrameType) /\ Len(frames) \in Nat /\ DOMAIN frames = 1 .. Len(frames)
           /\ \A k \in 1 .. Len(frames) :
                /\ frames[k].kind \in D!Kinds /\ frames[k].size \in Nat
                /\ frames[k].size >= PreludeSize /\ frames[k].size >= 1 /\ frames[k].size >= MinMessage
                /\ frames[k].kind = "ok" => frames[k].size <= MaxMessage
<1>1. frames \in Seq(FrameType)
  BY DecoderAssumption DEF FrameType
<1>2. Len(frames) \in Nat /\ DOMAIN frames = 1 .. Len(frames)
  BY <1>1
<1> SUFFICES ASSUME NEW k \in 1 .. Len(frames)
             PROVE  /\ frames[k].kind \in D!Kinds /\ frames[k].size \in Nat
                    /\ frames[k].size >= PreludeSize /\ frames[k].size >= 1
                    /\ frames[k].size >= MinMessage
                    /\ frames[k].kind = "ok" => frames[k].size <= MaxMessage
  BY <1>1, <1>2
<1>3. frames[k] \in FrameType
  BY <1>1
<1>4. frames[k].kind \in D!Kinds /\ frames[k].size \in Nat
  BY <1>3 DEF FrameType
<1>5. frames[k].size >= MinMessage /\ (frames[k].kind = "ok" => frames[k].size <= MaxMessage)
  BY <1>2, DecoderAssumption
<1> QED
  BY <1>4, <1>5, DecoderAssumption

LEMMA Ends ==
    ASSUME frames \in FrameSets
    PROVE  /\ D!EndOf(0) = 0
           /\ \A k \in 0 .. Len(frames) : D!EndOf(k) \in Nat
           /\ \A k \in 1 .. Len(frames) : /\ D!EndOf(k) = D!EndOf(k - 1) + frames[k].size
                                          /\ D!StartOf(k) = D!EndOf(k - 1) + 1
<1> DEFINE sizes == [j \in DOMAIN frames |-> frames[j].size]
           E == Sums(sizes)
<1>1. /\ Len(frames) \in Nat /\ DOMAIN frames = 1 .. Len(frames)
      /\ \A k \in 1 .. Len(frames) : frames[k].size \in Nat
  BY FramesTyped
<1>2. sizes \in Seq(Nat) /\ Len(sizes) = Len(frames) /\ \A k \in 1 .. Len(frames) : sizes[k] = frames[k].size
  BY <1>1
<1> HIDE DEF sizes
<1>3. /\ E \in [0 .. Len(sizes) -> Nat] /\ E[0] = 0
      /\ \A k \in 1 .. Len(sizes) : E[k] = E[k - 1] + sizes[k]
  BY <1>2, SumsEffect
<1>4. \A k : D!EndOf(k) = E[k]
  BY DEF D!EndOf, D!Sums, Sums, sizes
<1> HIDE DEF E
<1>5. \A k \in 0 .. Len(frames) : D!EndOf(k) \in Nat
  BY <1>2, <1>3, <1>4
<1>6. ASSUME NEW k \in 1 .. Len(frames)
      PROVE  D!EndOf(k) = D!EndOf(k - 1) + frames[k].size /\ D!StartOf(k) = D!EndOf(k - 1) + 1
  <2>1. k - 1 \in 0 .. Len(frames)
    BY <1>1
  <2>2. D!EndOf(k) = D!EndOf(k - 1) + frames[k].size
    BY <1>2, <1>3, <1>4
  <2>3. D!EndOf(k - 1) \in Nat /\ frames[k].size \in Nat
    BY <1>1, <1>5, <2>1
  <2> QED
    BY <2>2, <2>3 DEF D!StartOf
<1> QED
  BY <1>3, <1>4, <1>5, <1>6

LEMMA EndsGrow ==
    ASSUME frames \in FrameSets
    PROVE  \A k \in 0 .. Len(frames) : \A j \in 0 .. k :
             D!EndOf(j) <= D!EndOf(k) /\ (j < k => D!EndOf(j) < D!EndOf(k))
<1> DEFINE n == Len(frames)
           S == {k \in Nat : k <= n => \A j \in 0 .. k :
                   D!EndOf(j) <= D!EndOf(k) /\ (j < k => D!EndOf(j) < D!EndOf(k))}
<1>1. n \in Nat /\ \A k \in 1 .. n : frames[k].size \in Nat /\ frames[k].size >= 1
  BY FramesTyped
<1>2. /\ \A k \in 0 .. n : D!EndOf(k) \in Nat
      /\ \A k \in 1 .. n : D!EndOf(k) = D!EndOf(k - 1) + frames[k].size
  BY Ends
<1> HIDE DEF n
<1>3. 0 \in S
  BY <1>1, <1>2
<1>4. ASSUME NEW k \in Nat, k \in S PROVE k + 1 \in S
  <2> SUFFICES ASSUME k + 1 <= n, NEW j \in 0 .. k + 1
               PROVE  D!EndOf(j) <= D!EndOf(k + 1) /\ (j < k + 1 => D!EndOf(j) < D!EndOf(k + 1))
    OBVIOUS
  <2>1. k + 1 \in 1 .. n /\ k \in 0 .. n /\ k + 1 \in 0 .. n /\ (k + 1) - 1 = k
    BY <1>1
  <2>2. D!EndOf(k + 1) = D!EndOf(k) + frames[k + 1].size
    BY <1>2, <2>1
  <2>3. D!EndOf(k) \in Nat /\ frames[k + 1].size \in Nat /\ frames[k + 1].size >= 1
    BY <1>1, <1>2, <2>1
  <2>4. CASE j = k + 1
    BY <2>2, <2>3, <2>4
  <2>5. CASE j \in 0 .. k
    <3>1. k <= n
      BY <1>1, <2>1
    <3>2. D!EndOf(j) <= D!EndOf(k)
      BY <1>4, <2>5, <3>1
    <3>3. j \in 0 .. n
      BY <1>1, <2>5, <3>1
    <3>4. D!EndOf(j) \in Nat
      BY <1>2, <3>3
    <3> QED
      BY <2>2, <2>3, <3>2, <3>4
  <2> QED
    BY <2>4, <2>5
<1>5. Nat \subseteq S
  <2> HIDE DEF S
  <2> QED
    BY <1>3, <1>4, NatSet
<1> SUFFICES ASSUME NEW k \in 0 .. n, NEW j \in 0 .. k
             PROVE  D!EndOf(j) <= D!EndOf(k) /\ (j < k => D!EndOf(j) < D!EndOf(k))
  BY DEF n
<1>6. k \in S
  <2> HIDE DEF S
  <2> QED
    BY <1>1, <1>5
<1> QED
  BY <1>1, <1>6

\* The order of the frames is the order of their ends.
LEMMA EndsOrder ==
    ASSUME frames \in FrameSets, NEW j \in 0 .. Len(frames), NEW k \in 0 .. Len(frames)
    PROVE  /\ D!EndOf(j) < D!EndOf(k) <=> j < k
           /\ D!EndOf(j) = D!EndOf(k) <=> j = k
<1>1. Len(frames) \in Nat
  BY FramesTyped
<1>2. D!EndOf(j) \in Nat /\ D!EndOf(k) \in Nat
  BY Ends
<1>3. CASE j <= k
  <2>1. D!EndOf(j) <= D!EndOf(k) /\ (j < k => D!EndOf(j) < D!EndOf(k))
    BY <1>1, <1>3, EndsGrow
  <2> QED
    BY <1>1, <1>2, <1>3, <2>1
<1>4. CASE k < j
  <2>1. D!EndOf(k) < D!EndOf(j)
    BY <1>1, <1>4, EndsGrow
  <2> QED
    BY <1>1, <1>2, <1>4, <2>1
<1> QED
  BY <1>1, <1>3, <1>4

\* The bytes of a frame.
LEMMA BytesTyped ==
    ASSUME frames \in FrameSets, NEW k \in 1 .. Len(frames)
    PROVE  /\ D!Bytes(k) \in Seq(Nat) /\ Len(D!Bytes(k)) = frames[k].size
           /\ \A j \in 1 .. frames[k].size : D!Bytes(k)[j] = D!EndOf(k - 1) + j
<1>1. frames[k].size \in Nat
  BY FramesTyped
<1>2. D!EndOf(k - 1) \in Nat /\ D!StartOf(k) = D!EndOf(k - 1) + 1
  <2>1. k - 1 \in 0 .. Len(frames)
    BY FramesTyped
  <2> QED
    BY <2>1, Ends
<1> DEFINE e == D!EndOf(k - 1)
<1> HIDE DEF e
<1>3. D!Bytes(k) = [j \in 1 .. frames[k].size |-> e + 1 + j - 1]
  BY <1>2 DEF D!Bytes, e
<1> DEFINE z == frames[k].size
<1>4. z \in Nat /\ e \in Nat
  BY <1>1, <1>2 DEF e
<1> HIDE DEF z
<1>5. D!Bytes(k) = [j \in 1 .. z |-> e + 1 + j - 1]
  BY <1>3 DEF z
<1>6. D!Bytes(k) = [j \in 1 .. z |-> e + j]
  BY <1>4, <1>5
<1>7. \A j \in 1 .. z : e + j \in Nat
  BY <1>4
<1>8. D!Bytes(k) \in Seq(Nat) /\ Len(D!Bytes(k)) = z /\ \A j \in 1 .. z : D!Bytes(k)[j] = e + j
  BY <1>4, <1>6, <1>7
<1> QED
  BY <1>8 DEF e, z

-----------------------------------------------------------------------------
(* FrameDecoder: what the buffer shows *)

LEMMA FrontPart ==
    ASSUME NEW s \in Seq(Nat), NEW n \in 1 .. Len(s)
    PROVE  /\ Len(SubSeq(s, 1, n)) = n /\ DOMAIN SubSeq(s, 1, n) = 1 .. n
           /\ \A i \in 1 .. n : SubSeq(s, 1, n)[i] = s[i]
           /\ SubSeq(s, 1, n) = [i \in 1 .. n |-> s[i]]
OBVIOUS

LEMMA HereEffect ==
    ASSUME frames \in FrameSets, buffer \in Seq(Nat), Len(buffer) >= PreludeSize, D!Here # 0
    PROVE  /\ D!Here \in 1 .. Len(frames) /\ frames[D!Here].kind # "bad_prelude"
           /\ buffer[1] = D!EndOf(D!Here - 1) + 1
<1> DEFINE at == {k \in DOMAIN frames :
                   /\ frames[k].kind # "bad_prelude"
                   /\ SubSeq(buffer, 1, PreludeSize) = SubSeq(D!Bytes(k), 1, PreludeSize)}
           h == CHOOSE k \in at : TRUE
<1>1. D!Here = h /\ h \in at
  BY DEF D!Here
<1>2. h \in 1 .. Len(frames) /\ frames[h].size >= PreludeSize /\ frames[h].size \in Nat
      /\ frames[h].size >= 1
  BY <1>1, FramesTyped
<1>3. SubSeq(buffer, 1, PreludeSize) = SubSeq(D!Bytes(h), 1, PreludeSize) /\ frames[h].kind # "bad_prelude"
  BY <1>1
<1> HIDE DEF h, at
<1>4. PreludeSize \in 1 .. Len(buffer)
  BY DecoderAssumption
<1>5. D!Bytes(h) \in Seq(Nat) /\ Len(D!Bytes(h)) = frames[h].size /\ D!Bytes(h)[1] = D!EndOf(h - 1) + 1
  BY <1>2, BytesTyped
<1>6. PreludeSize \in 1 .. Len(D!Bytes(h)) /\ 1 \in 1 .. PreludeSize
  BY <1>2, <1>5, DecoderAssumption
<1>7. SubSeq(buffer, 1, PreludeSize)[1] = buffer[1]
  BY <1>4, <1>6, FrontPart
<1>8. SubSeq(D!Bytes(h), 1, PreludeSize)[1] = D!Bytes(h)[1]
  BY <1>5, <1>6, FrontPart
<1> QED
  BY <1>1, <1>2, <1>3, <1>5, <1>7, <1>8

LEMMA HereFound ==
    ASSUME frames \in FrameSets, buffer \in Seq(Nat), Len(buffer) >= PreludeSize,
           NEW k \in 1 .. Len(frames), frames[k].kind # "bad_prelude",
           \A j \in 1 .. PreludeSize : buffer[j] = D!EndOf(k - 1) + j
    PROVE  D!Here = k
<1>1. PreludeSize \in 1 .. Len(buffer) /\ 1 \in 1 .. PreludeSize
  BY DecoderAssumption
<1>2. /\ D!Bytes(k) \in Seq(Nat) /\ Len(D!Bytes(k)) = frames[k].size
      /\ \A j \in 1 .. frames[k].size : D!Bytes(k)[j] = D!EndOf(k - 1) + j
  BY BytesTyped
<1>3. PreludeSize \in 1 .. Len(D!Bytes(k)) /\ frames[k].size >= PreludeSize /\ frames[k].size \in Nat
  BY <1>2, FramesTyped, DecoderAssumption
<1>4. SubSeq(buffer, 1, PreludeSize) = [i \in 1 .. PreludeSize |-> buffer[i]]
  BY <1>1, FrontPart
<1>5. SubSeq(D!Bytes(k), 1, PreludeSize) = [i \in 1 .. PreludeSize |-> D!Bytes(k)[i]]
  BY <1>2, <1>3, FrontPart
<1>6. \A i \in 1 .. PreludeSize : buffer[i] = D!Bytes(k)[i]
  BY <1>2, <1>3, DecoderAssumption
<1>7. SubSeq(buffer, 1, PreludeSize) = SubSeq(D!Bytes(k), 1, PreludeSize)
  BY <1>4, <1>5, <1>6
<1>8. k \in DOMAIN frames /\ DOMAIN frames = 1 .. Len(frames) /\ Len(frames) \in Nat
  BY FramesTyped
<1>9. D!Here # 0
  <2> DEFINE at == {i \in DOMAIN frames :
                     /\ frames[i].kind # "bad_prelude"
                     /\ SubSeq(buffer, 1, PreludeSize) = SubSeq(D!Bytes(i), 1, PreludeSize)}
             h == CHOOSE i \in at : TRUE
  <2>1. k \in at
    BY <1>7, <1>8
  <2>2. h \in at
    BY <2>1
  <2>3. D!Here = h
    BY <2>1 DEF D!Here
  <2>4. h \in 1 .. Len(frames)
    BY <1>8, <2>2
  <2> HIDE DEF h
  <2> QED
    BY <1>8, <2>3, <2>4
<1> DEFINE h == D!Here
<1>10. h \in 1 .. Len(frames) /\ buffer[1] = D!EndOf(h - 1) + 1
  BY <1>9, HereEffect
<1> HIDE DEF h
<1>11. h - 1 \in 0 .. Len(frames) /\ k - 1 \in 0 .. Len(frames) /\ h \in Nat /\ k \in Nat
  BY <1>8, <1>10
<1>12. D!EndOf(h - 1) = D!EndOf(k - 1)
  <2>1. D!EndOf(h - 1) \in Nat /\ D!EndOf(k - 1) \in Nat
    BY <1>11, Ends
  <2>2. buffer[1] = D!EndOf(k - 1) + 1
    BY <1>1
  <2> QED
    BY <1>10, <2>1, <2>2
<1>13. h - 1 = k - 1
  BY <1>11, <1>12, EndsOrder
<1> QED
  BY <1>11, <1>13 DEF h

\* The outcomes of parse_frame.
LEMMA ParseEffect ==
    ASSUME frames \in FrameSets, garbage \in Nat, buffer \in Seq(Nat)
    PROVE  /\ D!parse_frame = "more" => Len(buffer) < PreludeSize \/ Len(buffer) < D!total_length
           /\ D!parse_frame # "more" => Len(buffer) >= PreludeSize
           /\ D!parse_frame \in {"frame", "data_error"} =>
                /\ D!Here \in 1 .. Len(frames) /\ D!total_length = frames[D!Here].size
                /\ Len(buffer) >= frames[D!Here].size
                /\ buffer[1] = D!EndOf(D!Here - 1) + 1
           /\ D!parse_frame = "frame" =>
                /\ D!Intact(D!Here)
                /\ SubSeq(buffer, 1, frames[D!Here].size) = D!Bytes(D!Here)
           /\ D!parse_frame = "data_error" =>
                \/ frames[D!Here].kind = "bad_crc"
                \/ SubSeq(buffer, 1, frames[D!Here].size) # D!Bytes(D!Here)
<1>1. D!total_length \in Nat
  <2>1. CASE D!Here = 0
    BY <2>1 DEF D!total_length
  <2>2. CASE D!Here # 0 /\ Len(buffer) >= PreludeSize
    BY <2>2, HereEffect, FramesTyped DEF D!total_length
  <2>3. CASE D!Here # 0
    <3>1. D!Here \in DOMAIN frames
      BY <2>3 DEF D!Here
    <3> QED
      BY <2>3, <3>1, FramesTyped DEF D!total_length
  <2> QED
    BY <2>1, <2>3
<1>2. Len(buffer) \in Nat /\ PreludeSize \in Nat
  BY DecoderAssumption
<1>3. CASE Len(buffer) < PreludeSize
  <2>1. D!parse_frame = "more"
    BY <1>3 DEF D!parse_frame
  <2> QED
    BY <1>3, <2>1
<1>4. CASE ~(Len(buffer) < PreludeSize) /\ (D!total_length < MinMessage \/ D!total_length > MaxMessage)
  <2>1. D!parse_frame = "prelude_error"
    BY <1>4 DEF D!parse_frame
  <2> QED
    BY <1>2, <1>4, <2>1
<1>5. CASE /\ ~(Len(buffer) < PreludeSize) /\ ~(D!total_length < MinMessage \/ D!total_length > MaxMessage)
           /\ Len(buffer) < D!total_length
  <2>1. D!parse_frame = "more"
    BY <1>5 DEF D!parse_frame
  <2> QED
    BY <1>5, <2>1
<1>6. CASE /\ ~(Len(buffer) < PreludeSize) /\ ~(D!total_length < MinMessage \/ D!total_length > MaxMessage)
           /\ ~(Len(buffer) < D!total_length) /\ D!Here = 0
  <2>1. D!parse_frame = "prelude_error"
    BY <1>6 DEF D!parse_frame
  <2> QED
    BY <1>2, <1>6, <2>1
<1>7. CASE /\ ~(Len(buffer) < PreludeSize) /\ ~(D!total_length < MinMessage \/ D!total_length > MaxMessage)
           /\ ~(Len(buffer) < D!total_length) /\ D!Here # 0
  <2>1. D!total_length = frames[D!Here].size /\ Len(buffer) >= PreludeSize /\ Len(buffer) >= D!total_length
    BY <1>1, <1>2, <1>7 DEF D!total_length
  <2>2. D!Here \in 1 .. Len(frames) /\ frames[D!Here].kind # "bad_prelude" /\ buffer[1] = D!EndOf(D!Here - 1) + 1
    BY <1>7, <2>1, HereEffect
  <2>3. frames[D!Here].kind \in {"ok", "bad_crc", "bad_header"}
    BY <2>2, FramesTyped DEF D!Kinds
  <2>4. CASE frames[D!Here].kind = "bad_crc" \/ SubSeq(buffer, 1, D!total_length) # D!Bytes(D!Here)
    <3>1. D!parse_frame = "data_error"
      BY <1>7, <2>4 DEF D!parse_frame
    <3> QED
      BY <2>1, <2>2, <2>4, <3>1
  <2>5. CASE ~(frames[D!Here].kind = "bad_crc" \/ SubSeq(buffer, 1, D!total_length) # D!Bytes(D!Here))
    <3>1. D!parse_frame = IF frames[D!Here].kind # "bad_header" THEN "frame" ELSE "other_error"
      BY <1>7, <2>5 DEF D!parse_frame, D!parse_headers
    <3> QED
      BY <2>1, <2>2, <2>3, <2>5, <3>1 DEF D!Intact
  <2> QED
    BY <2>4, <2>5
<1> QED
  BY <1>3, <1>4, <1>5, <1>6, <1>7

\* An intact frame at the beginning of the buffer is returned once it is complete.
LEMMA FrontParsed ==
    ASSUME frames \in FrameSets, buffer \in Seq(Nat), Len(buffer) >= PreludeSize,
           NEW k \in 1 .. Len(frames), D!Intact(k),
           \A j \in 1 .. Len(buffer) : buffer[j] = D!EndOf(k - 1) + j
    PROVE  /\ D!Here = k
           /\ D!parse_frame = IF Len(buffer) < frames[k].size THEN "more" ELSE "frame"
<1>1. Len(buffer) \in Nat /\ PreludeSize \in Nat
  BY DecoderAssumption
<1>2. frames[k].size \in Nat /\ frames[k].size >= 1 /\ frames[k].size >= MinMessage /\ frames[k].size <= MaxMessage
      /\ MinMessage \in Nat /\ MaxMessage \in Nat
  BY FramesTyped, DecoderAssumption DEF D!Intact
<1>3. D!Here = k
  BY <1>1, HereFound DEF D!Intact
<1>4. k # 0 /\ D!total_length = frames[k].size
  BY <1>3, FramesTyped DEF D!total_length
<1>5. CASE Len(buffer) < frames[k].size
  BY <1>1, <1>2, <1>3, <1>4, <1>5 DEF D!parse_frame
<1>6. CASE ~(Len(buffer) < frames[k].size)
  <2> DEFINE z == frames[k].size
  <2>1. /\ D!Bytes(k) \in Seq(Nat) /\ Len(D!Bytes(k)) = z
        /\ \A j \in 1 .. z : D!Bytes(k)[j] = D!EndOf(k - 1) + j
    BY BytesTyped
  <2>2. z \in 1 .. Len(buffer)
    BY <1>1, <1>2, <1>6
  <2> HIDE DEF z
  <2>3. SubSeq(buffer, 1, z) = [i \in 1 .. z |-> buffer[i]]
    BY <2>2, FrontPart
  <2>4. D!Bytes(k) = [i \in 1 .. z |-> D!Bytes(k)[i]]
    BY <2>1
  <2>5. \A i \in 1 .. z : buffer[i] = D!Bytes(k)[i]
    BY <2>1, <2>2
  <2>6. SubSeq(buffer, 1, z) = D!Bytes(k)
    BY <2>3, <2>4, <2>5
  <2>7. SubSeq(buffer, 1, D!total_length) = D!Bytes(D!Here)
    BY <1>3, <1>4, <2>6 DEF z
  <2>8. frames[D!Here].kind = "ok"
    BY <1>3 DEF D!Intact
  <2> QED
    BY <1>1, <1>2, <1>3, <1>4, <1>6, <2>7, <2>8 DEF D!parse_frame, D!parse_headers
<1> QED
  BY <1>3, <1>5, <1>6

-----------------------------------------------------------------------------
(* FrameDecoder: the inductive invariant *)

\* The buffer holds bytes that were fed, in their order.
BufferOK ==
    /\ fed \in Nat /\ fed <= D!StreamSize /\ buffer \in Seq(Nat)
    /\ \A i \in 1 .. Len(buffer) : buffer[i] <= fed
    /\ \A i, j \in 1 .. Len(buffer) : i < j => buffer[i] < buffer[j]

\* The frames returned are intact, in order, and lie before what is in the buffer.
ReturnedOK ==
    /\ decoded \in Seq(1 .. Len(frames))
    /\ \A k \in D!ToSet(decoded) :
         /\ D!Intact(k) /\ D!EndOf(k) <= fed
         /\ \A j \in 1 .. Len(buffer) : D!EndOf(k) < buffer[j]
    /\ \A i, j \in 1 .. Len(decoded) : i < j => decoded[i] < decoded[j]

\* The bytes the decoder is done with, when no chunk was dropped.
Consumed == fed - Len(buffer)

\* Then the buffer is what follows, and it never starts within an intact frame
\* that has not been returned.
NothingLost ==
    ~dropped =>
        /\ Consumed \in Nat
        /\ \A j \in 1 .. Len(buffer) : buffer[j] = Consumed + j
        /\ \A k \in 1 .. Len(frames) :
             D!Intact(k) => k \in D!ToSet(decoded) \/ Consumed <= D!EndOf(k - 1)

\* An undamaged stream is returned frame by frame without an error.
AtOnce ==
    (\A k \in 1 .. Len(frames) : D!Intact(k)) /\ ~dropped =>
        /\ state = "Ready"
        /\ \E m \in 0 .. Len(frames) :
             /\ decoded = [i \in 1 .. m |-> i]
             /\ Consumed = D!EndOf(m)
             /\ pc = "network" /\ m < Len(frames) => fed < D!EndOf(m + 1)

DecoderInv ==
    /\ frames \in FrameSets /\ garbage \in Nat
    /\ BufferOK /\ ReturnedOK /\ NothingLost /\ AtOnce

LEMMA FramesStay ==
    ASSUME UNCHANGED frames
    PROVE  /\ D!StreamSize' = D!StreamSize
           /\ \A k : D!EndOf(k)' = D!EndOf(k) /\ (D!Intact(k)' <=> D!Intact(k))
BY DEF D!StreamSize, D!EndOf, D!Intact

\* What is left of the buffer when n bytes are taken from it.
LEMMA AdvanceBuffer ==
    ASSUME BufferOK, NEW n \in 0 .. Len(buffer), D!Advance(n), UNCHANGED <<frames, fed>>
    PROVE  /\ BufferOK' /\ Len(buffer') = Len(buffer) - n /\ Len(buffer) \in Nat
           /\ \A j \in 1 .. Len(buffer') : n + j \in 1 .. Len(buffer) /\ buffer'[j] = buffer[n + j]
<1> DEFINE len == Len(buffer)
<1>1. len \in Nat /\ buffer \in Seq(Nat) /\ n \in Nat /\ n <= len
  BY DEF BufferOK
<1>2. buffer' = SubSeq(buffer, n + 1, len)
  BY DEF D!Advance
<1>3. /\ buffer' \in Seq(Nat) /\ Len(buffer') = len - n
      /\ \A j \in 1 .. len - n : buffer'[j] = buffer[n + j]
  BY <1>1, <1>2
<1> HIDE DEF len
<1>4. \A j \in 1 .. Len(buffer') : n + j \in 1 .. len /\ buffer'[j] = buffer[n + j]
  BY <1>1, <1>3
<1>5. BufferOK'
  <2>1. \A j \in 1 .. Len(buffer') : buffer'[j] <= fed
    BY <1>4 DEF BufferOK, len
  <2>2. \A i, j \in 1 .. Len(buffer') : i < j => buffer'[i] < buffer'[j]
    <3> SUFFICES ASSUME NEW i \in 1 .. Len(buffer'), NEW j \in 1 .. Len(buffer'), i < j
                 PROVE  buffer'[i] < buffer'[j]
      OBVIOUS
    <3>1. n + i \in 1 .. len /\ n + j \in 1 .. len /\ buffer'[i] = buffer[n + i] /\ buffer'[j] = buffer[n + j]
      BY <1>4
    <3>2. n + i < n + j
      BY <1>1, <1>3
    <3> QED
      BY <3>1, <3>2 DEF BufferOK, len
  <2> QED
    BY <1>3, <2>1, <2>2, FramesStay DEF BufferOK
<1> QED
  BY <1>1, <1>3, <1>4, <1>5 DEF len

\* What was returned stays before what is left.
LEMMA AdvanceReturned ==
    ASSUME DecoderInv, NEW n \in 0 .. Len(buffer), D!Advance(n), UNCHANGED <<frames, fed, decoded>>
    PROVE  ReturnedOK'
<1>1. \A j \in 1 .. Len(buffer') : n + j \in 1 .. Len(buffer) /\ buffer'[j] = buffer[n + j]
  BY AdvanceBuffer DEF DecoderInv
<1>2. ASSUME NEW k \in D!ToSet(decoded)
      PROVE  D!Intact(k) /\ D!EndOf(k) <= fed /\ \A j \in 1 .. Len(buffer') : D!EndOf(k) < buffer'[j]
  BY <1>1 DEF DecoderInv, ReturnedOK
<1>3. D!ToSet(decoded)' = D!ToSet(decoded)
  BY DEF D!ToSet
<1> QED
  BY <1>2, <1>3, FramesStay DEF DecoderInv, ReturnedOK

LEMMA FeedStep ==
    ASSUME DecoderInv, D!Feed
    PROVE  DecoderInv'
<1>1. PICK n \in ChunkSizes : fed + n <= D!StreamSize /\ D!feed(n) /\ fed' = fed + n
  BY DEF D!Feed
<1>2. n \in Nat /\ fed \in Nat /\ fed' \in Nat /\ buffer \in Seq(Nat) /\ Len(buffer) \in Nat
  BY <1>1, DecoderAssumption DEF DecoderInv, BufferOK
<1>3. UNCHANGED <<frames, garbage, decoded>> /\ pc' = "decode"
  BY DEF D!Feed
<1>4. D!ToSet(decoded)' = D!ToSet(decoded)
  BY <1>3 DEF D!ToSet
<1>5. D!StreamSize' = D!StreamSize /\ \A k : D!EndOf(k)' = D!EndOf(k) /\ (D!Intact(k)' <=> D!Intact(k))
  BY <1>3, FramesStay
<1>6. \A k \in D!ToSet(decoded) : k \in 0 .. Len(frames) /\ D!EndOf(k) \in Nat
  <2>1. Len(frames) \in Nat
    BY FramesTyped DEF DecoderInv
  <2> QED
    BY <2>1, Ends DEF DecoderInv, ReturnedOK, D!ToSet
<1>7. CASE Len(buffer) + n > MaxBuffer
  <2>1. dropped' = TRUE /\ UNCHANGED <<buffer, state>>
    BY <1>1, <1>7 DEF D!feed
  <2>2. BufferOK'
    BY <1>1, <1>2, <1>5, <2>1 DEF DecoderInv, BufferOK
  <2>3. ReturnedOK'
    BY <1>1, <1>2, <1>3, <1>4, <1>5, <1>6, <2>1 DEF DecoderInv, ReturnedOK
  <2> QED
    BY <1>3, <2>1, <2>2, <2>3 DEF DecoderInv, NothingLost, AtOnce
<1>8. CASE ~(Len(buffer) + n > MaxBuffer)
  <2>1. /\ buffer' = buffer \o [j \in 1 .. n |-> fed + j] /\ UNCHANGED dropped
        /\ state' = IF state = "Recovering" THEN "Ready" ELSE state
    BY <1>1, <1>8 DEF D!feed
  <2> DEFINE more == [j \in 1 .. n |-> fed + j]
             len == Len(buffer)
  <2>2. more \in Seq(Nat) /\ Len(more) = n /\ \A j \in 1 .. n : more[j] = fed + j
    BY <1>2
  <2>3. buffer' = buffer \o more
    BY <2>1
  <2> HIDE DEF more
  <2> HIDE DEF len
  <2>4. /\ buffer' \in Seq(Nat) /\ Len(buffer') = len + n
        /\ \A j \in 1 .. len : buffer'[j] = buffer[j]
        /\ \A j \in 1 .. n : buffer'[len + j] = more[j]
    <3>0. buffer \in Seq(Nat) /\ more \in Seq(Nat)
      BY <1>2, <2>2
    <3>1. buffer' \in Seq(Nat) /\ Len(buffer') = Len(buffer) + Len(more)
      BY <2>3, <3>0
    <3>3. \A j \in 1 .. Len(buffer) : (buffer \o more)[j] = buffer[j]
      BY <1>2, <2>2
    <3>2. ASSUME NEW j \in 1 .. n PROVE (buffer \o more)[Len(buffer) + j] = more[j]
      <4>1. Len(buffer) + j \in 1 .. Len(buffer) + Len(more) /\ ~(Len(buffer) + j <= Len(buffer))
        BY <1>2, <2>2
      <4>2. (Len(buffer) + j) - Len(buffer) = j
        BY <1>2
      <4> QED
        BY <1>2, <2>2, <4>1, <4>2
    <3> QED
      BY <2>2, <2>3, <3>1, <3>2, <3>3 DEF len
  <2>5. len \in Nat /\ len = Len(buffer)
    BY <1>2 DEF len
  <2>6. ASSUME NEW j \in 1 .. Len(buffer')
        PROVE  \/ j \in 1 .. len /\ buffer'[j] = buffer[j]
               \/ j - len \in 1 .. n /\ buffer'[j] = fed + (j - len)
    <3>0. j \in 1 .. len + n
      BY <2>4
    <3>1. CASE j \in 1 .. len
      BY <2>4, <3>1
    <3>2. CASE j \notin 1 .. len
      <4>1. j - len \in 1 .. n /\ len + (j - len) = j
        BY <1>2, <2>5, <3>0, <3>2
      <4>2. buffer'[len + (j - len)] = more[j - len] /\ more[j - len] = fed + (j - len)
        BY <2>2, <2>4, <4>1
      <4> QED
        BY <4>1, <4>2
    <3> QED
      BY <3>1, <3>2
  <2>7. \A j \in 1 .. len : buffer[j] \in Nat /\ buffer[j] <= fed
    BY <1>2, <2>5 DEF DecoderInv, BufferOK
  <2>8. BufferOK'
    <3>1. \A j \in 1 .. Len(buffer') : buffer'[j] <= fed'
      BY <1>1, <1>2, <2>5, <2>6, <2>7
    <3>2. \A i, j \in 1 .. Len(buffer') : i < j => buffer'[i] < buffer'[j]
      <4> SUFFICES ASSUME NEW i \in 1 .. Len(buffer'), NEW j \in 1 .. Len(buffer'), i < j
                   PROVE  buffer'[i] < buffer'[j]
        OBVIOUS
      <4>1. i \in Nat /\ j \in Nat
        BY <1>2, <2>4, <2>5
      <4>2. CASE j \in 1 .. len /\ buffer'[j] = buffer[j]
        <5>1. i \in 1 .. len /\ buffer'[i] = buffer[i]
          BY <2>4, <2>5, <4>1, <4>2
        <5> QED
          BY <2>5, <4>2, <5>1 DEF DecoderInv, BufferOK
      <4>3. CASE j - len \in 1 .. n /\ buffer'[j] = fed + (j - len)
        <5>1. CASE i \in 1 .. len /\ buffer'[i] = buffer[i]
          BY <1>2, <2>5, <2>7, <4>3, <5>1
        <5>2. CASE i - len \in 1 .. n /\ buffer'[i] = fed + (i - len)
          BY <1>2, <2>5, <4>1, <4>3, <5>2
        <5> QED
          BY <2>6, <5>1, <5>2
      <4> QED
        BY <2>6, <4>2, <4>3
    <3> QED
      BY <1>1, <1>2, <1>5, <2>4, <3>1, <3>2 DEF BufferOK
  <2>9. ReturnedOK'
    <3>1. ASSUME NEW k \in D!ToSet(decoded)
          PROVE  D!Intact(k) /\ D!EndOf(k) <= fed' /\ \A j \in 1 .. Len(buffer') : D!EndOf(k) < buffer'[j]
      <4>1. D!Intact(k) /\ D!EndOf(k) <= fed /\ \A j \in 1 .. len : D!EndOf(k) < buffer[j]
        BY <2>5 DEF DecoderInv, ReturnedOK
      <4>2. D!EndOf(k) \in Nat
        BY <1>6
      <4> QED
        BY <1>1, <1>2, <2>5, <2>6, <4>1, <4>2
    <3> QED
      BY <1>3, <1>4, <1>5, <3>1 DEF DecoderInv, ReturnedOK
  <2>10. Consumed' = Consumed
    BY <1>1, <1>2, <2>4, <2>5 DEF Consumed
  <2>11. NothingLost'
    <3> SUFFICES ASSUME ~dropped
                 PROVE  /\ Consumed \in Nat
                        /\ \A j \in 1 .. Len(buffer') : buffer'[j] = Consumed + j
                        /\ \A k \in 1 .. Len(frames) :
                             D!Intact(k) => k \in D!ToSet(decoded) \/ Consumed <= D!EndOf(k - 1)
      BY <1>3, <1>4, <1>5, <2>1, <2>10 DEF NothingLost
    <3>1. /\ Consumed \in Nat /\ \A j \in 1 .. len : buffer[j] = Consumed + j
          /\ \A k \in 1 .. Len(frames) :
               D!Intact(k) => k \in D!ToSet(decoded) \/ Consumed <= D!EndOf(k - 1)
      BY <2>5 DEF DecoderInv, NothingLost
    <3>2. Consumed = fed - len
      BY <2>5 DEF Consumed
    <3>3. \A j \in 1 .. Len(buffer') : buffer'[j] = Consumed + j
      BY <1>2, <2>4, <2>5, <2>6, <3>1, <3>2
    <3> QED
      BY <3>1, <3>3
  <2>12. AtOnce'
    BY <1>3, <1>5, <2>1, <2>10 DEF DecoderInv, AtOnce
  <2> QED
    BY <1>3, <2>8, <2>9, <2>11, <2>12 DEF DecoderInv
<1> QED
  BY <1>7, <1>8

\* How far the decoder is tells what is at the beginning of the buffer.
LEMMA FrontFrame ==
    ASSUME DecoderInv, ~dropped, buffer # << >>, NEW k \in 1 .. Len(frames),
           buffer[1] = D!EndOf(k - 1) + 1
    PROVE  Consumed = D!EndOf(k - 1)
<1>1. 1 \in 1 .. Len(buffer)
  BY DEF DecoderInv, BufferOK
<1>2. buffer[1] = Consumed + 1 /\ Consumed \in Nat
  BY <1>1 DEF DecoderInv, NothingLost
<1>3. k - 1 \in 0 .. Len(frames)
  BY FramesTyped DEF DecoderInv
<1>4. D!EndOf(k - 1) \in Nat
  BY <1>3, Ends DEF DecoderInv
<1> QED
  BY <1>2, <1>4

\* In an undamaged stream the next frame is either returned or waited for.
LEMMA NextFrame ==
    ASSUME DecoderInv, \A k \in 1 .. Len(frames) : D!Intact(k), ~dropped, buffer # << >>,
           NEW m \in 0 .. Len(frames), Consumed = D!EndOf(m)
    PROVE  /\ m + 1 \in 1 .. Len(frames)
           /\ D!parse_frame \in {"more", "frame"}
           /\ D!parse_frame = "more" => fed < D!EndOf(m + 1)
<1>1. Len(frames) \in Nat /\ Len(buffer) \in Nat /\ Len(buffer) > 0 /\ fed \in Nat
  BY FramesTyped DEF DecoderInv, BufferOK
<1>2. D!EndOf(m) < fed /\ D!EndOf(m) \in Nat
  BY <1>1, Ends DEF Consumed, DecoderInv
<1>3. fed <= D!EndOf(Len(frames)) /\ D!EndOf(Len(frames)) \in Nat
  BY <1>1, Ends DEF DecoderInv, BufferOK, D!StreamSize
<1>4. m < Len(frames)
  <2>1. m # Len(frames)
    BY <1>1, <1>2, <1>3
  <2> QED
    BY <1>1, <2>1
<1> DEFINE k == m + 1
<1>5. k \in 1 .. Len(frames) /\ k - 1 = m /\ k \in 0 .. Len(frames)
  BY <1>1, <1>4
<1>6. D!EndOf(k) = D!EndOf(m) + frames[k].size /\ frames[k].size \in Nat /\ frames[k].size >= PreludeSize
  BY <1>5, Ends, FramesTyped DEF DecoderInv
<1> HIDE DEF k
<1>7. \A j \in 1 .. Len(buffer) : buffer[j] = D!EndOf(k - 1) + j
  BY <1>5 DEF DecoderInv, NothingLost
<1>8. Len(buffer) = fed - D!EndOf(m)
  BY <1>1, <1>2 DEF Consumed
<1>9. CASE Len(buffer) >= PreludeSize
  <2>1. D!parse_frame = IF Len(buffer) < frames[k].size THEN "more" ELSE "frame"
    BY <1>5, <1>7, <1>9, FrontParsed DEF DecoderInv, BufferOK
  <2> QED
    BY <1>1, <1>2, <1>5, <1>6, <1>8, <2>1 DEF k
<1>10. CASE ~(Len(buffer) >= PreludeSize)
  <2>1. D!parse_frame = "more"
    BY <1>10, ParseEffect DEF DecoderInv, BufferOK
  <2> QED
    BY <1>1, <1>2, <1>5, <1>6, <1>8, <1>10, <2>1, DecoderAssumption DEF k
<1> QED
  BY <1>9, <1>10

LEMMA FrameStep ==
    ASSUME DecoderInv, D!DecodeFrame
    PROVE  DecoderInv'
<1> DEFINE h == D!Here
           z == frames[h].size
<1>1. /\ decoded' = Append(decoded, h) /\ D!Advance(z) /\ buffer # << >>
      /\ UNCHANGED <<frames, garbage, fed, state, pc, dropped>> /\ pc = "decode"
      /\ h \in 1 .. Len(frames) /\ Len(buffer) >= z /\ buffer[1] = D!EndOf(h - 1) + 1
      /\ D!Intact(h) /\ SubSeq(buffer, 1, z) = D!Bytes(h)
  BY ParseEffect DEF D!DecodeFrame, DecoderInv, BufferOK
<1> HIDE DEF h
<1>2. /\ z \in Nat /\ z >= 1 /\ Len(frames) \in Nat /\ Len(buffer) \in Nat /\ fed \in Nat
      /\ buffer \in Seq(Nat) /\ frames \in FrameSets
  BY <1>1, FramesTyped DEF DecoderInv, BufferOK
<1>3. /\ D!EndOf(h) = D!EndOf(h - 1) + z /\ D!EndOf(h - 1) \in Nat /\ D!EndOf(h) \in Nat
      /\ h - 1 \in 0 .. Len(frames) /\ h \in 0 .. Len(frames) /\ h \in Nat
  <2>1. h - 1 \in 0 .. Len(frames) /\ h \in 0 .. Len(frames) /\ h \in Nat
    BY <1>1, <1>2
  <2> QED
    BY <1>1, <1>2, <2>1, Ends
<1> HIDE DEF z
<1>4. z \in 1 .. Len(buffer) /\ z \in 0 .. Len(buffer)
  BY <1>1, <1>2
<1>5. buffer[z] = D!EndOf(h)
  <2>1. SubSeq(buffer, 1, z)[z] = buffer[z]
    BY <1>2, <1>4, FrontPart
  <2>2. D!Bytes(h)[z] = D!EndOf(h - 1) + z
    BY <1>1, <1>2, <1>4, BytesTyped DEF z
  <2> QED
    BY <1>1, <1>3, <2>1, <2>2
<1>6. /\ BufferOK' /\ Len(buffer') = Len(buffer) - z
      /\ \A j \in 1 .. Len(buffer') : z + j \in 1 .. Len(buffer) /\ buffer'[j] = buffer[z + j]
  BY <1>1, <1>4, AdvanceBuffer DEF DecoderInv
<1>7. \A k : D!EndOf(k)' = D!EndOf(k) /\ (D!Intact(k)' <=> D!Intact(k))
  BY <1>1, FramesStay
<1>8. decoded \in Seq(1 .. Len(frames)) /\ Len(decoded) \in Nat
  BY DEF DecoderInv, ReturnedOK
<1>9. /\ decoded' \in Seq(1 .. Len(frames)) /\ Len(decoded') = Len(decoded) + 1
      /\ decoded'[Len(decoded) + 1] = h /\ \A i \in 1 .. Len(decoded) : decoded'[i] = decoded[i]
  BY <1>1, <1>8
<1>10. \A k \in D!ToSet(decoded)' : k \in D!ToSet(decoded) \/ k = h
  <2>1. \A i \in 1 .. Len(decoded) + 1 : i \in 1 .. Len(decoded) \/ i = Len(decoded) + 1
    BY <1>8
  <2>2. DOMAIN decoded' = 1 .. Len(decoded) + 1 /\ DOMAIN decoded = 1 .. Len(decoded)
    BY <1>8, <1>9
  <2> QED
    BY <1>9, <2>1, <2>2 DEF D!ToSet
<1>11. D!ToSet(decoded) \subseteq D!ToSet(decoded)' /\ h \in D!ToSet(decoded)'
  <2>1. DOMAIN decoded' = 1 .. Len(decoded) + 1 /\ DOMAIN decoded = 1 .. Len(decoded)
    BY <1>8, <1>9
  <2>2. Len(decoded) + 1 \in DOMAIN decoded' /\ \A i \in DOMAIN decoded : i \in DOMAIN decoded'
    BY <1>8, <2>1
  <2> QED
    BY <1>9, <2>1, <2>2 DEF D!ToSet
<1>12. \A k \in D!ToSet(decoded) : k \in 1 .. Len(frames) /\ k < h
  <2> SUFFICES ASSUME NEW k \in D!ToSet(decoded) PROVE k \in 1 .. Len(frames) /\ k < h
    OBVIOUS
  <2>1. k \in 1 .. Len(frames)
    BY <1>8 DEF D!ToSet
  <2>2. k \in 0 .. Len(frames)
    BY <1>2, <2>1
  <2>3. D!EndOf(k) \in Nat
    BY <1>2, <2>2, Ends
  <2>4. D!EndOf(k) < buffer[1]
    BY <1>1, <1>2, <1>4 DEF DecoderInv, ReturnedOK
  <2>5. D!EndOf(k) < D!EndOf(h)
    BY <1>1, <1>2, <1>3, <2>3, <2>4
  <2> QED
    BY <1>2, <1>3, <2>1, <2>2, <2>5, EndsOrder
<1>13. ReturnedOK'
  <2>1. ASSUME NEW k \in D!ToSet(decoded)'
        PROVE  D!Intact(k) /\ D!EndOf(k) <= fed /\ \A j \in 1 .. Len(buffer') : D!EndOf(k) < buffer'[j]
    <3>1. CASE k \in D!ToSet(decoded)
      BY <1>6, <3>1 DEF DecoderInv, ReturnedOK
    <3>2. CASE k = h
      <4>1. D!EndOf(h) <= fed
        BY <1>4, <1>5 DEF DecoderInv, BufferOK
      <4>2. ASSUME NEW j \in 1 .. Len(buffer') PROVE D!EndOf(h) < buffer'[j]
        <5>1. z + j \in 1 .. Len(buffer) /\ buffer'[j] = buffer[z + j]
          BY <1>6
        <5>2. z < z + j
          BY <1>2, <1>6
        <5> QED
          BY <1>4, <1>5, <5>1, <5>2 DEF DecoderInv, BufferOK
      <4> QED
        BY <1>1, <3>2, <4>1, <4>2
    <3> QED
      BY <1>10, <3>1, <3>2
  <2>2. \A i, j \in 1 .. Len(decoded') : i < j => decoded'[i] < decoded'[j]
    <3> SUFFICES ASSUME NEW i \in 1 .. Len(decoded) + 1, NEW j \in 1 .. Len(decoded) + 1, i < j
                 PROVE  decoded'[i] < decoded'[j]
      BY <1>9
    <3>1. i \in 1 .. Len(decoded) /\ (j \in 1 .. Len(decoded) \/ j = Len(decoded) + 1)
      BY <1>8
    <3>2. decoded[i] \in D!ToSet(decoded)
      BY <1>8, <3>1 DEF D!ToSet
    <3> QED
      BY <1>9, <1>12, <3>1, <3>2 DEF DecoderInv, ReturnedOK
  <2> QED
    BY <1>1, <1>7, <1>9, <2>1, <2>2 DEF ReturnedOK
<1>14. ~dropped => Consumed = D!EndOf(h - 1) /\ Consumed' = D!EndOf(h)
  <2> SUFFICES ASSUME ~dropped PROVE Consumed = D!EndOf(h - 1) /\ Consumed' = D!EndOf(h)
    OBVIOUS
  <2>1. Consumed = D!EndOf(h - 1)
    BY <1>1, FrontFrame
  <2>2. Consumed = fed - Len(buffer) /\ Consumed' = fed - Len(buffer')
    BY <1>1 DEF Consumed
  <2> QED
    BY <1>2, <1>3, <1>6, <2>1, <2>2
<1>15. NothingLost'
  <2> SUFFICES ASSUME ~dropped
               PROVE  /\ D!EndOf(h) \in Nat
                      /\ \A j \in 1 .. Len(buffer') : buffer'[j] = D!EndOf(h) + j
                      /\ \A k \in 1 .. Len(frames) :
                           D!Intact(k) => k \in D!ToSet(decoded)' \/ D!EndOf(h) <= D!EndOf(k - 1)
    BY <1>1, <1>7, <1>14 DEF NothingLost
  <2>1. ASSUME NEW j \in 1 .. Len(buffer') PROVE buffer'[j] = D!EndOf(h) + j
    <3>1. buffer'[j] = Consumed + (z + j)
      BY <1>6 DEF DecoderInv, NothingLost
    <3> QED
      BY <1>2, <1>3, <1>6, <1>14, <3>1
  <2>2. ASSUME NEW k \in 1 .. Len(frames), D!Intact(k), k \notin D!ToSet(decoded)'
        PROVE  D!EndOf(h) <= D!EndOf(k - 1)
    <3>1. k # h /\ k \notin D!ToSet(decoded)
      BY <1>11, <2>2
    <3>2. Consumed <= D!EndOf(k - 1)
      BY <2>2, <3>1 DEF DecoderInv, NothingLost
    <3>3. k - 1 \in 0 .. Len(frames) /\ k \in Nat
      BY <1>2
    <3>4. D!EndOf(k - 1) \in Nat
      BY <1>2, <3>3, Ends
    <3>5. ~(k - 1 < h - 1)
      <4>1. ~(D!EndOf(k - 1) < D!EndOf(h - 1))
        BY <1>3, <1>14, <3>2, <3>4
      <4>2. D!EndOf(k - 1) < D!EndOf(h - 1) <=> k - 1 < h - 1
        BY <1>2, <1>3, <3>3, EndsOrder
      <4> QED
        BY <4>1, <4>2
    <3>6. h \in 0 .. k - 1
      BY <1>3, <3>1, <3>3, <3>5
    <3> QED
      BY <1>2, <3>3, <3>6, EndsGrow
  <2> QED
    BY <1>3, <2>1, <2>2
<1>16. AtOnce'
  <2> SUFFICES ASSUME \A k \in 1 .. Len(frames) : D!Intact(k), ~dropped
               PROVE  state = "Ready" /\ \E m \in 0 .. Len(frames) :
                        decoded' = [i \in 1 .. m |-> i] /\ D!EndOf(h) = D!EndOf(m)
    BY <1>1, <1>7, <1>14 DEF AtOnce
  <2>1. PICK m \in 0 .. Len(frames) : decoded = [i \in 1 .. m |-> i] /\ Consumed = D!EndOf(m)
    BY DEF DecoderInv, AtOnce
  <2>2. m = h - 1
    BY <1>2, <1>3, <1>14, <2>1, EndsOrder
  <2>3. m \in Nat /\ m + 1 = h
    BY <1>2, <1>3, <2>2
  <2>4. decoded' = [i \in 1 .. h |-> i]
    <3>1. Len(decoded) = m /\ DOMAIN decoded' = 1 .. h
      BY <1>8, <1>9, <2>1, <2>3
    <3>2. \A i \in 1 .. h : i \in 1 .. m \/ i = m + 1
      BY <1>3, <2>3
    <3>3. \A i \in 1 .. h : decoded'[i] = i
      BY <1>9, <2>1, <2>3, <3>1, <3>2
    <3> QED
      BY <1>9, <3>1, <3>3
  <2>5. state = "Ready"
    BY DEF DecoderInv, AtOnce
  <2> QED
    BY <1>3, <2>4, <2>5
<1> QED
  BY <1>1, <1>2, <1>6, <1>13, <1>15, <1>16 DEF DecoderInv

\* What recovery throws away contains no intact frame.
LEMMA RecoveryKeeps ==
    ASSUME DecoderInv, ~dropped, buffer # << >>, D!parse_frame \in {"prelude_error", "data_error", "other_error"},
           NEW k \in 1 .. Len(frames), D!Intact(k), k \notin D!ToSet(decoded)
    PROVE  /\ Consumed + 1 <= D!EndOf(k - 1)
           /\ D!parse_frame = "data_error" => Consumed + D!total_length <= D!EndOf(k - 1)
<1>1. /\ Len(frames) \in Nat /\ Len(buffer) \in Nat /\ Len(buffer) > 0 /\ buffer \in Seq(Nat)
      /\ frames \in FrameSets /\ Len(buffer) >= PreludeSize
  BY FramesTyped, ParseEffect DEF DecoderInv, BufferOK
<1>2. k - 1 \in 0 .. Len(frames) /\ k \in Nat
  BY <1>1
<1>3. D!EndOf(k - 1) \in Nat
  BY <1>1, <1>2, Ends
<1>4. /\ Consumed \in Nat /\ Consumed <= D!EndOf(k - 1)
      /\ \A j \in 1 .. Len(buffer) : buffer[j] = Consumed + j
  BY DEF DecoderInv, NothingLost
<1>5. Consumed # D!EndOf(k - 1)
  <2> SUFFICES ASSUME Consumed = D!EndOf(k - 1) PROVE FALSE
    OBVIOUS
  <2>1. \A j \in 1 .. Len(buffer) : buffer[j] = D!EndOf(k - 1) + j
    BY <1>4
  <2>2. D!parse_frame \in {"more", "frame"}
    BY <1>1, <2>1, FrontParsed
  <2> QED
    BY <2>2
<1>6. Consumed + 1 <= D!EndOf(k - 1)
  BY <1>3, <1>4, <1>5
<1>7. CASE D!parse_frame = "data_error"
  <2> DEFINE h == D!Here
             z == frames[h].size
  <2>1. /\ h \in 1 .. Len(frames) /\ D!total_length = z /\ Len(buffer) >= z
        /\ buffer[1] = D!EndOf(h - 1) + 1
        /\ frames[h].kind = "bad_crc" \/ SubSeq(buffer, 1, z) # D!Bytes(h)
    BY <1>7, ParseEffect DEF DecoderInv, BufferOK
  <2> HIDE DEF h
  <2>2. Consumed = D!EndOf(h - 1)
    BY <2>1, FrontFrame
  <2>3. /\ z \in Nat /\ z >= 1 /\ D!EndOf(h) = D!EndOf(h - 1) + z
        /\ D!Bytes(h) \in Seq(Nat) /\ Len(D!Bytes(h)) = z
        /\ \A j \in 1 .. z : D!Bytes(h)[j] = D!EndOf(h - 1) + j
    BY <1>1, <2>1, FramesTyped, Ends, BytesTyped
  <2> HIDE DEF z
  <2>4. SubSeq(buffer, 1, z) = D!Bytes(h)
    <3>1. z \in 1 .. Len(buffer)
      BY <1>1, <2>1, <2>3
    <3>2. SubSeq(buffer, 1, z) = [i \in 1 .. z |-> buffer[i]]
      BY <1>1, <3>1, FrontPart
    <3>3. D!Bytes(h) \in Seq(Nat) /\ Len(D!Bytes(h)) = z
      BY <2>3
    <3>4. D!Bytes(h) = [i \in 1 .. z |-> D!Bytes(h)[i]]
      BY <3>3
    <3>5. \A i \in 1 .. z : i \in 1 .. Len(buffer) /\ i \in Nat
      BY <1>1, <3>1
    <3>6. \A i \in 1 .. z : buffer[i] = D!EndOf(h - 1) + i
      BY <1>4, <2>2, <3>5
    <3>7. \A i \in 1 .. z : buffer[i] = D!Bytes(h)[i]
      BY <2>3, <3>6
    <3> QED
      BY <3>2, <3>4, <3>7
  <2>5. k # h
    BY <2>1, <2>4 DEF D!Intact
  <2>6. h - 1 \in 0 .. Len(frames) /\ h \in Nat
    BY <1>1, <2>1
  <2>7. D!EndOf(h - 1) < D!EndOf(k - 1)
    BY <1>6, <2>2, <1>3, <1>4
  <2>8. h - 1 < k - 1
    BY <1>1, <1>2, <2>6, <2>7, EndsOrder
  <2>9. h \in 0 .. k - 1
    BY <1>2, <2>6, <2>8
  <2>10. D!EndOf(h) <= D!EndOf(k - 1)
    BY <1>1, <1>2, <2>9, EndsGrow
  <2> QED
    BY <1>6, <2>1, <2>2, <2>3, <2>10
<1> QED
  BY <1>6, <1>7

LEMMA ErrorStep ==
    ASSUME DecoderInv, D!DecodeError
    PROVE  DecoderInv'
<1>1. /\ pc = "decode" /\ buffer # << >>
      /\ D!parse_frame \in {"prelude_error", "data_error", "other_error"}
      /\ UNCHANGED <<frames, garbage, fed, decoded, pc, dropped>>
  BY DEF D!DecodeError
<1>2. /\ Len(buffer) \in Nat /\ Len(buffer) > 0 /\ fed \in Nat
  BY <1>1 DEF DecoderInv, BufferOK
<1>3. /\ \A k : D!EndOf(k)' = D!EndOf(k) /\ (D!Intact(k)' <=> D!Intact(k))
      /\ D!StreamSize' = D!StreamSize /\ D!ToSet(decoded)' = D!ToSet(decoded)
  BY <1>1, FramesStay DEF D!ToSet
<1>4. ~((\A k \in 1 .. Len(frames) : D!Intact(k)) /\ ~dropped)
  <2> SUFFICES ASSUME \A k \in 1 .. Len(frames) : D!Intact(k), ~dropped PROVE FALSE
    OBVIOUS
  <2>1. PICK m \in 0 .. Len(frames) : Consumed = D!EndOf(m)
    BY DEF DecoderInv, AtOnce
  <2>2. D!parse_frame \in {"more", "frame"}
    BY <1>1, <2>1, NextFrame
  <2> QED
    BY <1>1, <2>2
<1>5. AtOnce'
  BY <1>1, <1>3, <1>4 DEF AtOnce
<1>6. CASE UNCHANGED buffer
  <2>1. Consumed' = Consumed
    BY <1>1, <1>6 DEF Consumed
  <2>2. BufferOK' /\ ReturnedOK' /\ NothingLost'
    BY <1>1, <1>3, <1>6, <2>1 DEF DecoderInv, BufferOK, ReturnedOK, NothingLost
  <2> QED
    BY <1>1, <1>5, <2>2 DEF DecoderInv
<1>7. ASSUME NEW n \in 1 .. Len(buffer), D!Advance(n),
             n = 1 \/ (D!parse_frame = "data_error" /\ n = D!total_length)
      PROVE  DecoderInv'
  <2>1. n \in 0 .. Len(buffer) /\ n \in Nat
    BY <1>2
  <2>2. /\ BufferOK' /\ Len(buffer') = Len(buffer) - n
        /\ \A j \in 1 .. Len(buffer') : n + j \in 1 .. Len(buffer) /\ buffer'[j] = buffer[n + j]
    BY <1>1, <1>7, <2>1, AdvanceBuffer DEF DecoderInv
  <2>3. ReturnedOK'
    BY <1>1, <1>7, <2>1, AdvanceReturned
  <2>4. Consumed' = Consumed + n
    <3>1. Consumed' = fed - Len(buffer')
      BY <1>1 DEF Consumed
    <3> QED
      BY <1>2, <2>1, <2>2, <3>1 DEF Consumed
  <2>5. NothingLost'
    <3> SUFFICES ASSUME ~dropped
                 PROVE  /\ Consumed + n \in Nat
                        /\ \A j \in 1 .. Len(buffer') : buffer'[j] = (Consumed + n) + j
                        /\ \A k \in 1 .. Len(frames) :
                             D!Intact(k) => k \in D!ToSet(decoded) \/ Consumed + n <= D!EndOf(k - 1)
      BY <1>1, <1>3, <2>4 DEF NothingLost
    <3>1. Consumed \in Nat
      BY DEF DecoderInv, NothingLost
    <3>2. ASSUME NEW j \in 1 .. Len(buffer') PROVE buffer'[j] = (Consumed + n) + j
      <4>1. buffer'[j] = Consumed + (n + j)
        BY <2>2 DEF DecoderInv, NothingLost
      <4>2. j \in Nat
        BY <1>2, <2>1, <2>2
      <4> QED
        BY <2>1, <3>1, <4>1, <4>2
    <3>3. ASSUME NEW k \in 1 .. Len(frames), D!Intact(k), k \notin D!ToSet(decoded)
          PROVE  Consumed + n <= D!EndOf(k - 1)
      BY <1>1, <1>7, <3>3, RecoveryKeeps
    <3> QED
      BY <2>1, <3>1, <3>2, <3>3
  <2> QED
    BY <1>1, <1>5, <2>2, <2>3, <2>5 DEF DecoderInv
<1>8. CASE D!try_recover(D!parse_frame)
  <2>1. CASE D!parse_frame = "data_error"
    <3>1. D!Advance(D!total_length)
      BY <1>8, <2>1 DEF D!try_recover
    <3>2. D!total_length \in 1 .. Len(buffer)
      BY <1>2, <2>1, ParseEffect, FramesTyped DEF DecoderInv, BufferOK
    <3> QED
      BY <1>7, <2>1, <3>1, <3>2
  <2>2. CASE D!parse_frame # "data_error"
    <3>1. D!Advance(1)
      BY <1>8, <2>2 DEF D!try_recover
    <3>2. 1 \in 1 .. Len(buffer)
      BY <1>2
    <3> QED
      BY <1>7, <3>1, <3>2
  <2> QED
    BY <2>1, <2>2
<1> QED
  BY <1>6, <1>8 DEF D!DecodeError

\* When the decoder stops asking, what has arrived of an undamaged stream is returned.
LEMMA IterStep ==
    ASSUME DecoderInv, D!IterEnds
    PROVE  DecoderInv'
<1>1. UNCHANGED <<frames, garbage, fed, buffer, errors, decoded, dropped, state>> /\ pc' = "network"
  BY DEF D!IterEnds
<1>2. /\ \A k : D!EndOf(k)' = D!EndOf(k) /\ (D!Intact(k)' <=> D!Intact(k))
      /\ D!StreamSize' = D!StreamSize /\ D!ToSet(decoded)' = D!ToSet(decoded) /\ Consumed' = Consumed
  BY <1>1, FramesStay DEF D!ToSet, Consumed
<1>3. BufferOK' /\ ReturnedOK' /\ NothingLost'
  BY <1>1, <1>2 DEF DecoderInv, BufferOK, ReturnedOK, NothingLost
<1>4. AtOnce'
  <2> SUFFICES ASSUME \A k \in 1 .. Len(frames) : D!Intact(k), ~dropped
               PROVE  state = "Ready" /\ \E m \in 0 .. Len(frames) :
                        /\ decoded = [i \in 1 .. m |-> i]
                        /\ Consumed = D!EndOf(m)
                        /\ m < Len(frames) => fed < D!EndOf(m + 1)
    BY <1>1, <1>2 DEF AtOnce
  <2>1. state = "Ready"
    BY DEF DecoderInv, AtOnce
  <2>2. PICK m \in 0 .. Len(frames) : decoded = [i \in 1 .. m |-> i] /\ Consumed = D!EndOf(m)
    BY DEF DecoderInv, AtOnce
  <2>3. buffer = << >> \/ D!parse_frame = "more"
    BY <2>1 DEF D!IterEnds
  <2>4. ASSUME m < Len(frames) PROVE fed < D!EndOf(m + 1)
    <3>1. CASE buffer = << >>
      <4>1. Len(frames) \in Nat /\ m + 1 \in 1 .. Len(frames) /\ (m + 1) - 1 = m
        BY <2>4, FramesTyped DEF DecoderInv
      <4>2. /\ D!EndOf(m + 1) = D!EndOf(m) + frames[m + 1].size /\ D!EndOf(m) \in Nat
            /\ frames[m + 1].size \in Nat /\ frames[m + 1].size >= 1
        BY <4>1, Ends, FramesTyped DEF DecoderInv
      <4>3. fed = D!EndOf(m)
        BY <2>2, <3>1 DEF Consumed, DecoderInv, BufferOK
      <4> QED
        BY <4>2, <4>3
    <3>2. CASE buffer # << >>
      BY <2>2, <2>3, <3>2, NextFrame
    <3> QED
      BY <3>1, <3>2
  <2> QED
    BY <2>1, <2>2, <2>4
<1> QED
  BY <1>1, <1>3, <1>4 DEF DecoderInv

LEMMA DecoderStays ==
    ASSUME DecoderInv, UNCHANGED <<frames, garbage, fed, buffer, state, decoded, dropped>>,
           pc' = pc \/ pc' = "end"
    PROVE  DecoderInv'
<1>1. /\ \A k : D!EndOf(k)' = D!EndOf(k) /\ (D!Intact(k)' <=> D!Intact(k))
      /\ D!StreamSize' = D!StreamSize /\ D!ToSet(decoded)' = D!ToSet(decoded) /\ Consumed' = Consumed
  BY FramesStay DEF D!ToSet, Consumed
<1>2. BufferOK' /\ ReturnedOK' /\ NothingLost'
  BY <1>1 DEF DecoderInv, BufferOK, ReturnedOK, NothingLost
<1>3. AtOnce'
  BY <1>1 DEF DecoderInv, AtOnce
<1> QED
  BY <1>2, <1>3 DEF DecoderInv

LEMMA DecoderStepInv == DecoderInv /\ [D!Next]_(D!vars) => DecoderInv'
<1> SUFFICES ASSUME DecoderInv, [D!Next]_(D!vars) PROVE DecoderInv'
  OBVIOUS
<1>1. CASE D!EndOfStream \/ D!Done \/ UNCHANGED D!vars
  BY <1>1, DecoderStays DEF D!EndOfStream, D!Done, D!vars
<1> QED
  BY <1>1, FeedStep, IterStep, FrameStep, ErrorStep DEF D!Next

LEMMA InitDecoder == D!Init => DecoderInv
<1> SUFFICES ASSUME D!Init PROVE DecoderInv
  OBVIOUS
<1>1. frames \in FrameSets /\ garbage \in Nat /\ fed = 0 /\ buffer = << >> /\ decoded = << >>
      /\ state = "Ready"
  BY DecoderAssumption DEF D!Init
<1>2. Len(frames) \in Nat /\ \A k \in 1 .. Len(frames) : frames[k].size \in Nat /\ frames[k].size >= 1
  BY <1>1, FramesTyped
<1>3. /\ D!EndOf(0) = 0 /\ \A k \in 0 .. Len(frames) : D!EndOf(k) \in Nat
      /\ \A k \in 1 .. Len(frames) : D!EndOf(k) = D!EndOf(k - 1) + frames[k].size
  BY <1>1, Ends
<1>4. Len(buffer) = 0 /\ Len(decoded) = 0 /\ D!ToSet(decoded) = {}
  <2>1. buffer = << >> /\ decoded = << >>
    BY <1>1
  <2>2. Len(buffer) = 0 /\ Len(decoded) = 0
    BY <2>1
  <2>3. DOMAIN decoded = {}
    BY <2>1
  <2> QED
    BY <2>2, <2>3 DEF D!ToSet
<1>5. Consumed = 0
  <2>1. fed = 0
    BY <1>1
  <2>2. Len(buffer) = 0
    BY <1>4
  <2> QED
    BY <2>1, <2>2 DEF Consumed
<1>6. BufferOK /\ ReturnedOK
  <2>1. D!StreamSize \in Nat
    BY <1>2, <1>3 DEF D!StreamSize
  <2> QED
    BY <1>1, <1>4, <2>1 DEF BufferOK, ReturnedOK
<1>7. NothingLost
  <2>1. \A k \in 1 .. Len(frames) : k - 1 \in 0 .. Len(frames)
    BY <1>2
  <2> QED
    BY <1>3, <1>4, <1>5, <2>1 DEF NothingLost
<1>8. AtOnce
  <2>1. 0 \in 0 .. Len(frames) /\ decoded = [i \in 1 .. 0 |-> i]
    BY <1>1, <1>2
  <2>2. 0 < Len(frames) => fed < D!EndOf(0 + 1)
    <3> SUFFICES ASSUME 0 < Len(frames) PROVE fed < D!EndOf(1)
      OBVIOUS
    <3>1. 1 \in 1 .. Len(frames)
      BY <1>2
    <3>2. D!EndOf(1) = D!EndOf(0) + frames[1].size
      BY <1>3, <3>1
    <3> QED
      BY <1>1, <1>2, <1>3, <3>1, <3>2
  <2> QED
    BY <1>1, <1>3, <1>5, <2>1, <2>2 DEF AtOnce
<1> QED
  BY <1>1, <1>6, <1>7, <1>8 DEF DecoderInv

\* The decoder's module has the operator of FiniteSets under a name of its own.
LEMMA SameCardinality == \A S : D!Cardinality(S) = Cardinality(S)
BY DEF D!Cardinality, Cardinality

LEMMA FramesKept == DecoderInv => IntactFramesKept
<1> SUFFICES ASSUME DecoderInv PROVE D!IntactFramesKept
  BY DEF IntactFramesKept
<1>1. DOMAIN frames = 1 .. Len(frames) /\ Len(frames) \in Nat /\ fed \in Nat /\ Len(buffer) \in Nat
  BY FramesTyped DEF DecoderInv, BufferOK
<1>2. DOMAIN decoded = 1 .. Len(decoded)
  BY DEF DecoderInv, ReturnedOK
<1>3. \A k \in DOMAIN decoded : D!Intact(decoded[k])
  BY DEF DecoderInv, ReturnedOK, D!ToSet
<1>4. \A j, k \in DOMAIN decoded : j < k => decoded[j] < decoded[k]
  BY <1>2 DEF DecoderInv, ReturnedOK
<1>5. ASSUME ~dropped, NEW k \in DOMAIN frames, D!Intact(k), D!EndOf(k) <= fed, k \notin D!ToSet(decoded)
      PROVE  D!ToSet(D!Bytes(k)) \subseteq D!ToSet(buffer)
  <2> DEFINE z == frames[k].size
             e == D!EndOf(k - 1)
  <2>1. /\ D!Bytes(k) \in Seq(Nat) /\ Len(D!Bytes(k)) = z
        /\ \A j \in 1 .. z : D!Bytes(k)[j] = e + j
    BY <1>1, BytesTyped DEF DecoderInv
  <2>2. z \in Nat
    BY <1>1, FramesTyped DEF DecoderInv
  <2>3. e \in Nat /\ D!EndOf(k) = e + z
    <3>1. k - 1 \in 0 .. Len(frames)
      BY <1>1
    <3> QED
      BY <1>1, <3>1, Ends DEF DecoderInv
  <2> HIDE DEF z, e
  <2>4. /\ Consumed \in Nat /\ Consumed <= e /\ \A j \in 1 .. Len(buffer) : buffer[j] = Consumed + j
    BY <1>1, <1>5 DEF DecoderInv, NothingLost, e
  <2>5. Len(buffer) = fed - Consumed
    BY <1>1 DEF Consumed
  <2>6. ASSUME NEW j \in 1 .. z PROVE e + j \in D!ToSet(buffer)
    <3> DEFINE i == (e + j) - Consumed
    <3>1. i \in 1 .. Len(buffer) /\ Consumed + i = e + j
      BY <1>1, <1>5, <2>2, <2>3, <2>4, <2>5
    <3> HIDE DEF i
    <3>2. buffer[i] = e + j
      BY <2>4, <3>1
    <3>3. i \in DOMAIN buffer
      BY <3>1 DEF DecoderInv, BufferOK
    <3> QED
      BY <3>2, <3>3 DEF D!ToSet
  <2>7. DOMAIN D!Bytes(k) = 1 .. z
    BY <2>1
  <2> QED
    BY <2>1, <2>6, <2>7 DEF D!ToSet
<1>6. ASSUME \A k \in DOMAIN frames : D!Intact(k), ~dropped, pc = "network"
      PROVE  decoded = [k \in 1 .. Cardinality({j \in DOMAIN frames : D!EndOf(j) <= fed}) |-> k]
  <2>1. PICK m \in 0 .. Len(frames) : /\ decoded = [i \in 1 .. m |-> i] /\ Consumed = D!EndOf(m)
                                      /\ m < Len(frames) => fed < D!EndOf(m + 1)
    BY <1>1, <1>6 DEF DecoderInv, AtOnce
  <2>2. m \in Nat /\ D!EndOf(m) \in Nat /\ D!EndOf(m) <= fed
    BY <1>1, <2>1, Ends DEF DecoderInv, Consumed
  <2>3. ASSUME NEW j \in 1 .. Len(frames) PROVE D!EndOf(j) <= fed <=> j \in 1 .. m
    <3>0. j \in 0 .. Len(frames) /\ j \in Nat
      BY <1>1
    <3>1. D!EndOf(j) \in Nat
      BY <3>0, Ends DEF DecoderInv
    <3>2. CASE j <= m
      <4>1. D!EndOf(j) <= D!EndOf(m)
        BY <2>1, <3>0, <3>2, <2>2, EndsGrow DEF DecoderInv
      <4> QED
        BY <1>1, <2>2, <3>0, <3>1, <3>2, <4>1
    <3>3. CASE m < j
      <4>1. m < Len(frames) /\ m + 1 \in 0 .. j /\ m + 1 \in 0 .. Len(frames)
        BY <1>1, <2>2, <3>0, <3>3
      <4>2. D!EndOf(m + 1) <= D!EndOf(j) /\ D!EndOf(m + 1) \in Nat
        BY <3>0, <4>1, Ends, EndsGrow DEF DecoderInv
      <4> QED
        BY <1>1, <2>1, <2>2, <3>0, <3>1, <3>3, <4>1, <4>2
    <3> QED
      BY <2>2, <3>0, <3>2, <3>3
  <2>4. {j \in DOMAIN frames : D!EndOf(j) <= fed} = 1 .. m
    BY <1>1, <2>1, <2>2, <2>3
  <2>5. Cardinality(1 .. m) = m
    BY <2>2, FS_Interval
  <2> QED
    BY <2>1, <2>4, <2>5
<1>7. ~dropped => \A k \in DOMAIN frames :
        D!Intact(k) /\ D!EndOf(k) <= fed =>
            \/ k \in D!ToSet(decoded)
            \/ D!ToSet(D!Bytes(k)) \subseteq D!ToSet(buffer)
  BY <1>5
<1>8. (\A k \in DOMAIN frames : D!Intact(k)) /\ ~dropped /\ pc = "network" =>
        decoded = [k \in 1 .. D!Cardinality({j \in DOMAIN frames : D!EndOf(j) <= fed}) |-> k]
  BY <1>6, SameCardinality
<1> QED
  BY <1>3, <1>4, <1>7, <1>8 DEF D!IntactFramesKept

\* However the network cuts the stream and whatever is damaged or dropped, the decoder returns
\* intact frames only, in order and once; until its buffer overflows it loses none, and of an
\* undamaged stream it has returned all that has arrived when it asks for more (feed, decode and
\* try_recover of decoder.rs, parse_frame of frame.rs).
THEOREM FramesTheorem == D!Spec => []IntactFramesKept
BY InitDecoder, DecoderStepInv, FramesKept, PTL DEF D!Spec
-----------------------------------------------------------------------------
(* UsageLog: what the chart's buckets count *)

Line == [n : Nat, ts : U!Days, file : U!Days]

\* The lines of day d.
On(lines, d) == {rec \in lines : rec.ts = d}

\* The instance has the operator of FiniteSets under a name of its own.
LEMMA SameCount == \A S : U!Cardinality(S) = Cardinality(S)
BY DEF U!Cardinality, Cardinality

LEMMA DaysAre == U!Days = 1 .. MaxDay /\ U!Days \subseteq Nat /\ MaxDay \in Nat
BY UsageAssumption DEF U!Days

\* A bucket that is dropped is too old for every range (upsert_bucket).
LEMMA OldestDropped ==
    ASSUME NEW b \in [U!Days -> Nat], NEW rec \in Line, NEW today \in Nat, rec.ts <= today,
           \A d \in U!Days : b[d] > 0 => d <= today
    PROVE  /\ U!UpsertBucket(b, rec) \in [U!Days -> Nat]
           /\ \A d \in U!Days : U!UpsertBucket(b, rec)[d] > 0 => d <= today
           /\ \A d \in U!Days : today < d + DayBuckets =>
                U!UpsertBucket(b, rec)[d] = IF d = rec.ts THEN b[d] + 1 ELSE b[d]
<1> DEFINE c == [b EXCEPT ![rec.ts] = @ + 1]
           live == {d \in U!Days : c[d] > 0}
           m == U!Min(live)
<1>1. rec.ts \in U!Days /\ U!Days \subseteq Nat /\ DayBuckets \in Nat
  BY DaysAre, UsageAssumption DEF Line
<1>2. c \in [U!Days -> Nat] /\ \A d \in U!Days : c[d] = IF d = rec.ts THEN b[d] + 1 ELSE b[d]
  <2> DEFINE t == rec.ts
             x == b[t] + 1
  <2>1. t \in U!Days /\ x \in Nat
    <3>1. t \in U!Days
      BY <1>1
    <3> HIDE DEF t
    <3>2. b[t] \in Nat
      BY <3>1
    <3> QED
      BY <3>1, <3>2
  <2>2. c = [b EXCEPT ![t] = x]
    OBVIOUS
  <2> HIDE DEF t, c
  <2>3. \A d \in U!Days : c[d] = IF d = t THEN x ELSE b[d]
    BY <2>2
  <2>4. c \in [U!Days -> Nat]
    <3> HIDE DEF x
    <3> QED
      BY <2>1, <2>2
  <2> QED
    BY <2>3, <2>4 DEF t
<1> HIDE DEF c
<1>3. \A d \in U!Days : c[d] > 0 => d <= today
  BY <1>1, <1>2
<1>4. U!UpsertBucket(b, rec) = IF Cardinality(live) > DayBuckets THEN [c EXCEPT ![m] = 0] ELSE c
  BY SameCount DEF U!UpsertBucket, c
<1>5. CASE ~(Cardinality(live) > DayBuckets)
  <2>1. U!UpsertBucket(b, rec) = c
    BY <1>4, <1>5
  <2> QED
    BY <1>2, <1>3, <2>1
<1>6. CASE Cardinality(live) > DayBuckets
  <2>1. live \subseteq Nat /\ live # {}
    <3>1. live = {} => Cardinality(live) = 0
      BY FS_EmptySet
    <3>2. live \subseteq Nat
      BY <1>1
    <3> HIDE DEF live
    <3> QED
      BY <1>1, <1>6, <3>1, <3>2
  <2>2. PICK x \in live : \A y \in live : x <= y
    <3> HIDE DEF live
    <3> QED
      BY <2>1, SmallestExists
  <2>3. m \in live /\ \A y \in live : m <= y
    <3> HIDE DEF live
    <3> QED
      BY <2>2 DEF U!Min
  <2>4. m \in U!Days /\ m \in Nat /\ m <= today
    BY <1>1, <1>3, <2>3
  <2> HIDE DEF m
  <2>5. live \subseteq m .. today
    <3>1. \A y \in live : y \in Nat /\ m <= y /\ y <= today
      BY <1>1, <1>3, <2>3
    <3> HIDE DEF live
    <3> QED
      BY <2>4, <3>1
  <2>6. IsFiniteSet(m .. today) /\ Cardinality(m .. today) = today - m + 1
    <3>1. m \in Int /\ today \in Int /\ ~(m > today)
      BY <2>4
    <3> QED
      BY <3>1, FS_Interval
  <2>7. Cardinality(live) <= today - m + 1 /\ Cardinality(live) \in Nat
    <3> HIDE DEF live
    <3> QED
      BY <2>5, <2>6, FS_Subset, FS_CardinalityType
  <2>8. m + DayBuckets <= today
    BY <1>1, <1>6, <2>4, <2>7
  <2>9. U!UpsertBucket(b, rec) = [c EXCEPT ![m] = 0]
    BY <1>4, <1>6
  <2> DEFINE u == U!UpsertBucket(b, rec)
  <2>10. u \in [U!Days -> Nat] /\ \A d \in U!Days : u[d] = IF d = m THEN 0 ELSE c[d]
    BY <1>2, <2>4, <2>9
  <2> HIDE DEF u
  <2>11. \A d \in U!Days : u[d] > 0 => d <= today
    BY <1>3, <2>10
  <2>12. \A d \in U!Days : today < d + DayBuckets => d # m
    BY <1>1, <2>4, <2>8
  <2>13. \A d \in U!Days : today < d + DayBuckets => u[d] = IF d = rec.ts THEN b[d] + 1 ELSE b[d]
    BY <1>2, <2>10, <2>12
  <2> QED
    BY <2>10, <2>11, <2>13 DEF u
<1> QED
  BY <1>5, <1>6

-----------------------------------------------------------------------------
(* UsageLog: rebuilding the chart *)

IsRebuildLoop(f, s, n) ==
    f = [k \in 0 .. n |-> IF k = 0 THEN U!NoBuckets ELSE U!UpsertBucket(f[k - 1], s[k])]

\* The loop of Rebuilt is a function.
LEMMA RebuildLoopExists ==
    ASSUME NEW s
    PROVE  \A n \in Nat : \E f : IsRebuildLoop(f, s, n)
<1> DEFINE S == {n \in Nat : \E f : IsRebuildLoop(f, s, n)}
<1>1. 0 \in S
  <2> DEFINE f == [k \in 0 .. 0 |-> U!NoBuckets]
  <2>1. IsRebuildLoop(f, s, 0)
    BY DEF IsRebuildLoop
  <2> QED
    BY <2>1
<1>2. ASSUME NEW n \in Nat, n \in S PROVE n + 1 \in S
  <2>1. PICK f : IsRebuildLoop(f, s, n)
    BY <1>2
  <2> DEFINE x == U!UpsertBucket(f[n], s[n + 1])
             g == [k \in 0 .. n + 1 |-> IF k = n + 1 THEN x ELSE f[k]]
  <2> HIDE DEF x
  <2>2. (\A k \in 0 .. n : g[k] = f[k]) /\ g[n + 1] = x
    OBVIOUS
  <2>3. \A k \in 0 .. n + 1 : g[k] = IF k = 0 THEN U!NoBuckets ELSE U!UpsertBucket(g[k - 1], s[k])
    <3> SUFFICES ASSUME NEW k \in 0 .. n + 1
                 PROVE  g[k] = IF k = 0 THEN U!NoBuckets ELSE U!UpsertBucket(g[k - 1], s[k])
      OBVIOUS
    <3> HIDE DEF g
    <3>1. CASE k = n + 1
      <4>1. k # 0 /\ k - 1 = n /\ g[k - 1] = f[n]
        BY <2>2, <3>1
      <4> QED
        BY <2>2, <3>1, <4>1 DEF x
    <3>2. CASE k \in 0 .. n /\ k # 0
      <4>1. k - 1 \in 0 .. n /\ g[k - 1] = f[k - 1] /\ g[k] = f[k]
        BY <2>2, <3>2
      <4> QED
        BY <2>1, <3>2, <4>1 DEF IsRebuildLoop
    <3>3. CASE k = 0
      BY <2>1, <2>2, <3>3 DEF IsRebuildLoop
    <3> QED
      BY <3>1, <3>2, <3>3
  <2>4. IsRebuildLoop(g, s, n + 1)
    BY <2>3 DEF IsRebuildLoop
  <2> QED
    BY <2>4
<1> QED
  BY <1>1, <1>2, NatSet

\* Whatever the order of the lines, a rebuilt chart counts each of them once on the
\* days that a range covers (rebuild_from_logs).
LEMMA RebuiltEffect ==
    ASSUME NEW s \in Seq(Line), NEW today \in Nat, \A i \in 1 .. Len(s) : s[i].ts <= today,
           \A i, j \in 1 .. Len(s) : i # j => s[i] # s[j]
    PROVE  /\ U!Rebuilt(s) \in [U!Days -> Nat]
           /\ \A d \in U!Days : U!Rebuilt(s)[d] > 0 => d <= today
           /\ \A d \in U!Days : today < d + DayBuckets =>
                U!Rebuilt(s)[d] = Cardinality(On({s[i] : i \in 1 .. Len(s)}, d))
<1> DEFINE z == Len(s)
           f == CHOOSE f : IsRebuildLoop(f, s, z)
           Lines(n) == {s[i] : i \in 1 .. n}
           Good(b, n) == /\ b \in [U!Days -> Nat] /\ \A d \in U!Days : b[d] > 0 => d <= today
                         /\ \A d \in U!Days : IsFiniteSet(On(Lines(n), d))
                         /\ \A d \in U!Days : today < d + DayBuckets =>
                              b[d] = Cardinality(On(Lines(n), d))
           S == {n \in Nat : n <= z => Good(f[n], n)}
<1>1. z \in Nat
  OBVIOUS
<1>2. IsRebuildLoop(f, s, z)
  BY <1>1, RebuildLoopExists
<1>3. U!Rebuilt(s) = f[z]
  BY DEF U!Rebuilt, IsRebuildLoop
<1> HIDE DEF f
<1>4. f[0] = U!NoBuckets /\ \A k \in 0 .. z : k # 0 => f[k] = U!UpsertBucket(f[k - 1], s[k])
  BY <1>1, <1>2 DEF IsRebuildLoop
<1>5. 0 \in S
  <2>1. f[0] \in [U!Days -> Nat] /\ \A d \in U!Days : f[0][d] = 0
    BY <1>4 DEF U!NoBuckets
  <2>2. \A d \in U!Days : On(Lines(0), d) = {}
    BY DEF On
  <2>3. \A d \in U!Days : IsFiniteSet(On(Lines(0), d)) /\ Cardinality(On(Lines(0), d)) = 0
    BY <2>2, FS_EmptySet
  <2>4. Good(f[0], 0)
    <3> HIDE DEF Lines
    <3> QED
      BY <2>1, <2>3
  <2> HIDE DEF Good
  <2> QED
    BY <2>4
<1>6. ASSUME NEW n \in Nat, n \in S PROVE n + 1 \in S
  <2> SUFFICES ASSUME n + 1 <= z PROVE Good(f[n + 1], n + 1)
    OBVIOUS
  <2> DEFINE rec == s[n + 1]
             b == f[n]
  <2>1. n + 1 \in 1 .. z /\ n + 1 \in 0 .. z /\ n + 1 # 0 /\ (n + 1) - 1 = n /\ n <= z
    BY <1>1
  <2>2. Good(b, n)
    <3> HIDE DEF Good
    <3> QED
      BY <1>6, <2>1
  <2>3. f[n + 1] = U!UpsertBucket(b, rec)
    <3> HIDE DEF z
    <3> QED
      BY <1>4, <2>1
  <2>4. rec \in Line /\ rec.ts <= today
    BY <2>1
  <2>5. \A i \in 1 .. n : s[i] # rec
    BY <1>1, <2>1
  <2>6. Lines(n + 1) = Lines(n) \cup {rec} /\ rec \notin Lines(n)
    <3>1. 1 .. n + 1 = (1 .. n) \cup {n + 1}
      OBVIOUS
    <3> QED
      BY <2>5, <3>1
  <2> DEFINE new == f[n + 1]
  <2>7. /\ new \in [U!Days -> Nat]
        /\ \A d \in U!Days : new[d] > 0 => d <= today
        /\ \A d \in U!Days : today < d + DayBuckets => new[d] = IF d = rec.ts THEN b[d] + 1 ELSE b[d]
    <3> HIDE DEF rec, b, Lines
    <3> QED
      BY <2>2, <2>3, <2>4, OldestDropped
  <2> HIDE DEF rec, b, Lines, new
  <2>8. ASSUME NEW d \in U!Days
        PROVE  /\ IsFiniteSet(On(Lines(n + 1), d))
               /\ today < d + DayBuckets => new[d] = Cardinality(On(Lines(n + 1), d))
    <3>1. IsFiniteSet(On(Lines(n), d)) /\ rec \notin On(Lines(n), d)
      BY <2>2, <2>6 DEF On
    <3>2. CASE d = rec.ts
      <4>1. On(Lines(n + 1), d) = On(Lines(n), d) \cup {rec}
        BY <2>6, <3>2 DEF On
      <4>2. /\ IsFiniteSet(On(Lines(n + 1), d))
            /\ Cardinality(On(Lines(n + 1), d)) = Cardinality(On(Lines(n), d)) + 1
        BY <3>1, <4>1, FS_AddElement
      <4> QED
        BY <2>2, <2>7, <3>2, <4>2
    <3>3. CASE d # rec.ts
      <4>1. On(Lines(n + 1), d) = On(Lines(n), d)
        BY <2>6, <3>3 DEF On
      <4> QED
        BY <2>2, <2>7, <3>1, <3>3, <4>1
    <3> QED
      BY <3>2, <3>3
  <2> QED
    BY <2>7, <2>8 DEF new
<1>7. Nat \subseteq S
  <2> HIDE DEF S
  <2> QED
    BY <1>5, <1>6, NatSet
<1>8. Good(f[z], z)
  <2> HIDE DEF Good
  <2> QED
    BY <1>1, <1>7
<1> QED
  BY <1>3, <1>8

\* Every line is in every reading.
LEMMA ReadingEffect ==
    ASSUME NEW lines, lines \subseteq Line, IsFiniteSet(lines), NEW s \in U!Readings(lines)
    PROVE  /\ s \in Seq(Line) /\ {s[i] : i \in 1 .. Len(s)} = lines
           /\ \A i, j \in 1 .. Len(s) : i # j => s[i] # s[j]
<1> DEFINE c == Cardinality(lines)
<1>1. c \in Nat /\ IsFiniteSet(1 .. c) /\ Cardinality(1 .. c) = c
  BY FS_CardinalityType, FS_Interval
<1>2. s \in [1 .. c -> lines] /\ \A i, j \in 1 .. c : i # j => s[i] # s[j]
  BY SameCount DEF U!Readings, U!SetToSeqs
<1> HIDE DEF c
<1>3. s \in Injection(1 .. c, lines)
  BY <1>2 DEF Injection, IsInjective
<1>4. s \in Surjection(1 .. c, lines)
  BY <1>1, <1>3, FS_Injection DEF c
<1>5. Len(s) = c /\ s \in Seq(Line)
  BY <1>1, <1>2
<1>6. \A rec \in lines : \E i \in 1 .. c : s[i] = rec
  BY <1>4 DEF Surjection
<1> QED
  BY <1>2, <1>5, <1>6

\* What the chart shows of a range is the number of the lines of its days (the queries of
\* UsageAggregator).
LEMMA ChartCounts ==
    ASSUME NEW lines, lines \subseteq Line, IsFiniteSet(lines), NEW wanted,
           NEW f \in [U!Days -> Nat],
           \A d \in U!Days : f[d] = IF d \in wanted THEN Cardinality(On(lines, d)) ELSE 0
    PROVE  U!Total(f) = Cardinality({rec \in lines : rec.ts \in wanted})
<1> DEFINE z == MaxDay
           Upto(n) == {rec \in lines : rec.ts \in wanted /\ rec.ts <= n}
           S == {n \in Nat : n <= z => Sums(f)[n] = Cardinality(Upto(n))}
<1>1. z \in Nat /\ U!Days = 1 .. z
  BY DaysAre
<1>2. f \in Seq(Nat) /\ Len(f) = z
  BY <1>1
<1>3. U!Total(f) = Sums(f)[z]
  BY <1>2 DEF U!Total, U!Sums, Sums
<1>4. Sums(f)[0] = 0 /\ \A k \in 1 .. z : Sums(f)[k] = Sums(f)[k - 1] + f[k]
  BY <1>2, SumsEffect
<1>5. \A rec \in lines : rec.ts \in 1 .. z
  BY <1>1 DEF Line
<1>6. \A n : IsFiniteSet(Upto(n)) /\ Cardinality(Upto(n)) \in Nat
  <2> SUFFICES ASSUME NEW n PROVE IsFiniteSet(Upto(n)) /\ Cardinality(Upto(n)) \in Nat
    OBVIOUS
  <2>1. Upto(n) \in SUBSET lines
    OBVIOUS
  <2> HIDE DEF Upto
  <2> QED
    BY <2>1, FS_Subset, FS_CardinalityType
<1>7. 0 \in S
  <2>1. Upto(0) = {}
    BY <1>5
  <2> HIDE DEF Upto
  <2> QED
    BY <1>4, <2>1, FS_EmptySet
<1>8. ASSUME NEW n \in Nat, n \in S PROVE n + 1 \in S
  <2> HIDE DEF Upto
  <2> SUFFICES ASSUME n + 1 <= z PROVE Sums(f)[n + 1] = Cardinality(Upto(n + 1))
    OBVIOUS
  <2> USE DEF Upto
  <2> DEFINE X == {rec \in On(lines, n + 1) : n + 1 \in wanted}
  <2>1. n + 1 \in 1 .. z /\ (n + 1) - 1 = n /\ n <= z
    BY <1>1
  <2>2. Sums(f)[n] = Cardinality(Upto(n))
    BY <1>8, <2>1
  <2>3. Sums(f)[n + 1] = Sums(f)[n] + f[n + 1]
    <3> HIDE DEF z
    <3> QED
      BY <1>4, <2>1
  <2>4. Upto(n + 1) = Upto(n) \cup X
    <3>1. \A rec \in lines : rec.ts \in Nat
      BY <1>5
    <3>2. \A t \in Nat : t <= n + 1 <=> t <= n \/ t = n + 1
      OBVIOUS
    <3> QED
      BY <3>1, <3>2 DEF On
  <2>5. Upto(n) \cap X = {}
    BY DEF On
  <2>6. IsFiniteSet(X) /\ Cardinality(X) = f[n + 1]
    <3>1. X \in SUBSET lines
      BY DEF On
    <3>2. n + 1 \in wanted => X = On(lines, n + 1)
      OBVIOUS
    <3>3. n + 1 \notin wanted => X = {}
      OBVIOUS
    <3> HIDE DEF X
    <3>4. IsFiniteSet(X)
      BY <3>1, FS_Subset
    <3> QED
      BY <1>1, <2>1, <3>2, <3>3, <3>4, FS_EmptySet
  <2> HIDE DEF X, Upto
  <2>7. Cardinality(Upto(n + 1)) = Cardinality(Upto(n)) + Cardinality(X) - Cardinality({})
    BY <1>6, <2>4, <2>5, <2>6, FS_Union
  <2>8. Cardinality({}) = 0 /\ Cardinality(X) \in Nat
    BY <2>6, FS_EmptySet, FS_CardinalityType
  <2>9. Cardinality(Upto(n)) \in Nat
    BY <1>6
  <2> QED
    BY <2>2, <2>3, <2>6, <2>7, <2>8, <2>9
<1>9. Nat \subseteq S
  <2> HIDE DEF S
  <2> QED
    BY <1>7, <1>8, NatSet
<1>10. Sums(f)[z] = Cardinality(Upto(z))
  BY <1>1, <1>9
<1>11. Upto(z) = {rec \in lines : rec.ts \in wanted}
  BY <1>5
<1> QED
  BY <1>3, <1>10, <1>11

-----------------------------------------------------------------------------
(* UsageLog: the inductive invariant *)

\* The lines that were counted and not lost: in a file, in the writer, or without a file.
Counted == log \cup writer.lines \cup unlogged

\* Lines are distinct and no younger than their file; the writer's are of the file it writes.
LinesOK ==
    /\ log \in SUBSET Line /\ unlogged \in SUBSET Line
    /\ writer \in [date : Nat, lines : SUBSET Line, pending : Nat]
    /\ IsFiniteSet(log) /\ IsFiniteSet(writer.lines) /\ IsFiniteSet(unlogged)
    /\ \A rec \in writer.lines : rec.file = writer.date
    /\ \A rec \in Counted : rec.n < recorded /\ rec.ts <= rec.file /\ rec.file <= day

\* The bucket of a day counts its lines, as long as the chart can show the day and no
\* cleanup reached it.
BucketsOK ==
    /\ buckets \in [U!Days -> Nat]
    /\ \A d \in U!Days : buckets[d] > 0 => d <= day
    /\ \A d \in U!Days : day < d + DayBuckets /\ erased <= d =>
         buckets[d] = Cardinality(On(Counted, d))

AttemptsOK == {a.n : a \in attempts} \subseteq {t.n : t \in traces}

LogInv ==
    /\ day \in U!Days /\ recorded \in Nat /\ erased \in Nat /\ retention \in Nat
    /\ LinesOK /\ BucketsOK /\ AttemptsOK

LEMMA InitLog == U!Init => LogInv
<1> SUFFICES ASSUME U!Init PROVE LogInv
  OBVIOUS
<1>1. /\ day = 1 /\ log = {} /\ unlogged = {} /\ recorded = 0 /\ erased = 0 /\ retention \in Nat
      /\ traces = {} /\ attempts = {}
  BY UsageAssumption DEF U!Init
<1>2. writer = [date |-> 0, lines |-> {}, pending |-> 0]
  BY DEF U!Init, U!Closed
<1>3. buckets \in [U!Days -> Nat] /\ \A d \in U!Days : buckets[d] = 0
  BY DEF U!Init, U!NoBuckets
<1>4. day \in U!Days
  BY <1>1, DaysAre, UsageAssumption
<1>5. writer.lines = {} /\ writer \in [date : Nat, lines : SUBSET Line, pending : Nat]
  BY <1>2
<1>6. Counted = {}
  BY <1>1, <1>5 DEF Counted
<1>7. IsFiniteSet({}) /\ Cardinality({}) = 0
  BY FS_EmptySet
<1>8. LinesOK
  BY <1>1, <1>5, <1>6, <1>7 DEF LinesOK
<1>9. BucketsOK
  <2>1. \A d \in U!Days : On(Counted, d) = {}
    BY <1>6 DEF On
  <2>2. \A d \in U!Days : buckets[d] = Cardinality(On(Counted, d))
    BY <1>3, <1>7, <2>1
  <2>3. \A d \in U!Days : ~(buckets[d] > 0)
    BY <1>3
  <2> QED
    BY <1>3, <2>2, <2>3 DEF BucketsOK
<1> QED
  BY <1>1, <1>4, <1>8, <1>9 DEF LogInv, AttemptsOK

\* A record is in the files or the writer afterwards, or it is lost and nothing has
\* changed (UsageRecorder::record).
LEMMA RecordLineEffect ==
    ASSUME LogInv, NEW rec \in Line, rec.file = day, NEW writable, U!RecordLine(rec, writable)
    PROVE  /\ log' \in SUBSET Line /\ IsFiniteSet(log')
           /\ writer' \in [date : Nat, lines : SUBSET Line, pending : Nat]
           /\ IsFiniteSet(writer'.lines)
           /\ \A r \in writer'.lines : r.file = writer'.date
           /\ \/ UNCHANGED <<log, writer>>
              \/ log' \cup writer'.lines = log \cup writer.lines \cup {rec}
<1> DEFINE opening == writer.date # day
           held == IF opening THEN {} ELSE writer.lines
           lines == held \cup {rec}
           pending == writer.pending + 1
<1>1. /\ log \in SUBSET Line /\ IsFiniteSet(log) /\ day \in Nat
      /\ writer \in [date : Nat, lines : SUBSET Line, pending : Nat]
      /\ IsFiniteSet(writer.lines) /\ \A r \in writer.lines : r.file = writer.date
  BY DaysAre DEF LogInv, LinesOK
<1>2. CASE UNCHANGED <<log, writer>>
  BY <1>1, <1>2
<1>3. ASSUME ~UNCHANGED <<log, writer>>
      PROVE  \/ /\ log' = log \cup lines \cup writer.lines
                /\ writer' = [date |-> day, lines |-> {}, pending |-> 0]
             \/ /\ log' = IF opening THEN log \cup writer.lines ELSE log
                /\ writer' = [date |-> day, lines |-> lines, pending |-> pending]
  BY <1>3 DEF U!RecordLine
<1>4. pending \in Nat /\ writer.lines \in SUBSET Line
  BY <1>1
<1>5. /\ lines \in SUBSET Line /\ IsFiniteSet(lines) /\ IsFiniteSet(log \cup writer.lines)
      /\ \A r \in lines : r.file = day
  <2>1. held \in SUBSET Line /\ IsFiniteSet(held) /\ \A r \in held : r.file = day
    BY <1>1, <1>4, FS_EmptySet
  <2> HIDE DEF held
  <2> QED
    BY <1>1, <2>1, FS_AddElement, FS_Union
<1>6. lines \cup writer.lines = writer.lines \cup {rec}
  OBVIOUS
<1>7. ~opening => lines = writer.lines \cup {rec}
  OBVIOUS
<1> HIDE DEF held, lines, pending, opening
<1>8. CASE /\ log' = log \cup lines \cup writer.lines
           /\ writer' = [date |-> day, lines |-> {}, pending |-> 0]
  <2>1. writer'.lines = {} /\ writer' \in [date : Nat, lines : SUBSET Line, pending : Nat]
    BY <1>1, <1>8
  <2>2. log' = log \cup writer.lines \cup {rec}
    BY <1>6, <1>8
  <2>3. IsFiniteSet(log') /\ log' \in SUBSET Line
    BY <1>1, <1>4, <1>5, <2>2, FS_AddElement
  <2> QED
    BY <2>1, <2>2, <2>3, FS_EmptySet
<1>9. CASE /\ log' = IF opening THEN log \cup writer.lines ELSE log
           /\ writer' = [date |-> day, lines |-> lines, pending |-> pending]
  <2>1. writer'.lines = lines /\ writer'.date = day
        /\ writer' \in [date : Nat, lines : SUBSET Line, pending : Nat]
    BY <1>1, <1>4, <1>5, <1>9
  <2>2. log' \in SUBSET Line /\ IsFiniteSet(log')
    BY <1>1, <1>4, <1>5, <1>9
  <2>3. log' \cup lines = log \cup writer.lines \cup {rec}
    BY <1>6, <1>7, <1>9
  <2> QED
    BY <1>5, <2>1, <2>2, <2>3
<1> QED
  BY <1>2, <1>3, <1>8, <1>9

\* A record adds one line, counted in the chart even when the file cannot be opened.
LEMMA RecordStep ==
    ASSUME LogInv, NEW ts \in U!Days, NEW writable \in BOOLEAN, NEW stored \in BOOLEAN,
           U!Record(ts, writable, stored)
    PROVE  LogInv'
<1> DEFINE rec == [n |-> recorded, ts |-> ts, file |-> day]
<1>1. day \in U!Days /\ day \in Nat /\ recorded \in Nat /\ erased \in Nat /\ retention \in Nat
  BY DaysAre DEF LogInv
<1>2. rec \in Line /\ rec.n = recorded /\ rec.ts = ts /\ rec.file = day
  BY <1>1 DEF Line
<1>3. ts <= day /\ ts \in Nat
  <2>1. ts \in {day, day - 1}
    BY DEF U!Record
  <2> QED
    BY <1>1, <2>1, DaysAre
<1>4. /\ U!RecordLine(rec, writable) /\ recorded' = recorded + 1
      /\ unlogged' = IF rec \in log' \cup writer'.lines THEN unlogged ELSE unlogged \cup {rec}
      /\ buckets' = U!UpsertBucket(buckets, rec)
      /\ U!InsertTrace(recorded, ts, stored)
      /\ UNCHANGED <<day, retention, erased>>
  BY DEF U!Record
<1> HIDE DEF rec
<1>5. /\ log' \in SUBSET Line /\ IsFiniteSet(log')
      /\ writer' \in [date : Nat, lines : SUBSET Line, pending : Nat]
      /\ IsFiniteSet(writer'.lines)
      /\ \A r \in writer'.lines : r.file = writer'.date
      /\ \/ UNCHANGED <<log, writer>>
         \/ log' \cup writer'.lines = log \cup writer.lines \cup {rec}
  BY <1>2, <1>4, RecordLineEffect
<1>6. /\ Counted \subseteq Line /\ IsFiniteSet(Counted) /\ unlogged \in SUBSET Line
      /\ IsFiniteSet(unlogged)
      /\ \A r \in Counted : r.n < recorded /\ r.ts <= r.file /\ r.file <= day
  <2>1. log \in SUBSET Line /\ writer.lines \in SUBSET Line /\ unlogged \in SUBSET Line
    BY DEF LogInv, LinesOK
  <2>2. IsFiniteSet(log) /\ IsFiniteSet(writer.lines) /\ IsFiniteSet(unlogged)
    BY DEF LogInv, LinesOK
  <2>3. IsFiniteSet(log \cup writer.lines)
    BY <2>2, FS_Union
  <2>4. IsFiniteSet(Counted)
    BY <2>2, <2>3, FS_Union DEF Counted
  <2> QED
    BY <2>1, <2>2, <2>4 DEF LogInv, LinesOK, Counted
<1>7. rec \notin Counted
  BY <1>1, <1>2, <1>6
<1>8. Counted' = Counted \cup {rec} /\ unlogged' \in SUBSET Line /\ IsFiniteSet(unlogged')
  <2>1. unlogged' \in SUBSET Line /\ IsFiniteSet(unlogged')
    BY <1>2, <1>4, <1>6, FS_AddElement
  <2>2. CASE UNCHANGED <<log, writer>>
    <3>1. rec \notin log' \cup writer'.lines
      BY <1>7, <2>2 DEF Counted
    <3> QED
      BY <1>4, <2>1, <2>2, <3>1 DEF Counted
  <2>3. CASE log' \cup writer'.lines = log \cup writer.lines \cup {rec}
    <3>1. unlogged' = unlogged
      BY <1>4, <2>3
    <3> QED
      BY <2>1, <2>3, <3>1 DEF Counted
  <2> QED
    BY <1>5, <2>2, <2>3
<1>9. LinesOK'
  <2>1. \A r \in Counted' : r.n < recorded + 1 /\ r.ts <= r.file /\ r.file <= day
    <3> SUFFICES ASSUME NEW r \in Counted'
                 PROVE  r.n < recorded + 1 /\ r.ts <= r.file /\ r.file <= day
      OBVIOUS
    <3>1. CASE r = rec
      BY <1>1, <1>2, <1>3, <3>1
    <3>2. CASE r \in Counted
      <4>1. r.n \in Nat /\ r.n < recorded /\ r.ts <= r.file /\ r.file <= day
        BY <1>6, <3>2 DEF Line
      <4> QED
        BY <1>1, <4>1
    <3> QED
      BY <1>8, <3>1, <3>2
  <2> QED
    BY <1>4, <1>5, <1>8, <2>1 DEF LinesOK
<1>10. BucketsOK'
  <2>1. /\ buckets \in [U!Days -> Nat]
        /\ \A d \in U!Days : buckets[d] > 0 => d <= day
        /\ \A d \in U!Days : day < d + DayBuckets /\ erased <= d =>
             buckets[d] = Cardinality(On(Counted, d))
    BY DEF LogInv, BucketsOK
  <2>2. /\ buckets' \in [U!Days -> Nat]
        /\ \A d \in U!Days : buckets'[d] > 0 => d <= day
        /\ \A d \in U!Days : day < d + DayBuckets =>
             buckets'[d] = IF d = ts THEN buckets[d] + 1 ELSE buckets[d]
    BY <1>1, <1>2, <1>3, <1>4, <2>1, OldestDropped
  <2>3. ASSUME NEW d \in U!Days, day < d + DayBuckets, erased <= d
        PROVE  buckets'[d] = Cardinality(On(Counted', d))
    <3>1. On(Counted, d) \in SUBSET Counted /\ rec \notin On(Counted, d)
      BY <1>7 DEF On
    <3>2. IsFiniteSet(On(Counted, d))
      BY <1>6, <3>1, FS_Subset
    <3>3. CASE d = ts
      <4>1. On(Counted', d) = On(Counted, d) \cup {rec}
        BY <1>2, <1>8, <3>3 DEF On
      <4>2. Cardinality(On(Counted', d)) = Cardinality(On(Counted, d)) + 1
        BY <3>1, <3>2, <4>1, FS_AddElement
      <4> QED
        BY <2>1, <2>2, <2>3, <3>3, <4>2
    <3>4. CASE d # ts
      <4>1. On(Counted', d) = On(Counted, d)
        BY <1>2, <1>8, <3>4 DEF On
      <4> QED
        BY <2>1, <2>2, <2>3, <3>4, <4>1
    <3> QED
      BY <3>3, <3>4
  <2> QED
    BY <1>4, <2>2, <2>3 DEF BucketsOK, On
<1>11. AttemptsOK'
  <2>1. {a.n : a \in attempts} \subseteq {t.n : t \in traces}
    BY DEF LogInv, AttemptsOK
  <2>2. CASE stored
    <3> DEFINE new == [n |-> recorded, ts |-> ts]
    <3>1. /\ traces' = traces \cup {new}
          /\ attempts' = attempts \cup {[n |-> recorded, ok |-> ok] : ok \in BOOLEAN}
      BY <1>4, <2>2 DEF U!InsertTrace
    <3>2. new.n = recorded /\ \A ok \in BOOLEAN : [n |-> recorded, ok |-> ok].n = recorded
      OBVIOUS
    <3> HIDE DEF new
    <3>3. ASSUME NEW a \in attempts' PROVE \E t \in traces' : t.n = a.n
      <4>1. CASE a \in attempts
        BY <2>1, <3>1, <4>1
      <4>2. CASE a.n = recorded
        BY <3>1, <3>2, <4>2
      <4> QED
        BY <3>1, <3>2, <3>3, <4>1, <4>2
    <3> QED
      BY <3>3 DEF AttemptsOK
  <2>3. CASE ~stored
    BY <1>4, <2>1, <2>3 DEF U!InsertTrace, AttemptsOK
  <2> QED
    BY <2>2, <2>3
<1> QED
  BY <1>1, <1>4, <1>9, <1>10, <1>11 DEF LogInv

\* A cleanup takes no line of a day it does not reach (cleanup_old_logs, TraceStore::cleanup).
LEMMA CleanupStep == ASSUME LogInv, U!Cleanup PROVE LogInv'
<1> DEFINE cutoff == U!Before(retention)
<1>1. day \in U!Days /\ day \in Nat /\ recorded \in Nat /\ erased \in Nat /\ retention \in Nat
  BY DaysAre DEF LogInv
<1>2. cutoff \in Nat /\ cutoff <= day
  BY <1>1 DEF U!Before
<1>3. /\ U!CleanupOldLogs(cutoff) /\ U!CleanupTraces(cutoff)
      /\ UNCHANGED <<day, retention, buckets, recorded, unlogged>>
  BY DEF U!Cleanup
<1> HIDE DEF cutoff
<1>4. /\ log' = {rec \in log : rec.file >= cutoff}
      /\ writer' = IF writer.date >= cutoff THEN writer ELSE [writer EXCEPT !.lines = {}]
      /\ erased' \in Nat /\ erased' >= cutoff /\ erased' >= erased
  BY <1>1, <1>2, <1>3 DEF U!CleanupOldLogs
<1>5. /\ log \in SUBSET Line /\ unlogged \in SUBSET Line
      /\ writer \in [date : Nat, lines : SUBSET Line, pending : Nat]
      /\ IsFiniteSet(log) /\ IsFiniteSet(writer.lines) /\ IsFiniteSet(unlogged)
      /\ \A rec \in writer.lines : rec.file = writer.date
      /\ \A rec \in Counted : rec.n < recorded /\ rec.ts <= rec.file /\ rec.file <= day
  BY DEF LogInv, LinesOK
<1>6. /\ writer' \in [date : Nat, lines : SUBSET Line, pending : Nat]
      /\ writer'.date = writer.date
      /\ writer'.lines = IF writer.date >= cutoff THEN writer.lines ELSE {}
  BY <1>4, <1>5
<1>7. log' \in SUBSET log /\ Counted' \subseteq Counted
  BY <1>3, <1>4, <1>6 DEF Counted
<1>8. LinesOK'
  <2>1. IsFiniteSet(log') /\ IsFiniteSet(writer'.lines)
    BY <1>5, <1>6, <1>7, FS_Subset, FS_EmptySet
  <2>2. \A rec \in writer'.lines : rec.file = writer'.date
    BY <1>5, <1>6
  <2> QED
    BY <1>3, <1>5, <1>6, <1>7, <2>1, <2>2 DEF LinesOK
<1>9. ASSUME NEW d \in U!Days, erased' <= d PROVE On(Counted', d) = On(Counted, d)
  <2>1. ASSUME NEW rec \in Counted, rec.ts = d PROVE rec \in Counted'
    <3>1. rec.file \in Nat /\ rec.file >= cutoff
      <4>1. rec \in Line /\ d \in Nat /\ rec.ts <= rec.file
        BY <1>5, <2>1, DaysAre DEF Counted
      <4>2. rec.file \in Nat
        BY <4>1, DaysAre DEF Line
      <4> QED
        BY <1>2, <1>4, <1>9, <2>1, <4>1, <4>2
    <3>2. CASE rec \in log
      BY <1>4, <3>1, <3>2 DEF Counted
    <3>3. CASE rec \in writer.lines
      BY <1>5, <1>6, <3>1, <3>3 DEF Counted
    <3>4. CASE rec \in unlogged
      BY <1>3, <3>4 DEF Counted
    <3> QED
      BY <3>2, <3>3, <3>4 DEF Counted
  <2> QED
    BY <1>7, <2>1 DEF On
<1>10. BucketsOK'
  <2>1. ASSUME NEW d \in U!Days, day < d + DayBuckets, erased' <= d
        PROVE  buckets[d] = Cardinality(On(Counted', d))
    <3>1. erased <= d
      BY <1>1, <1>4, <2>1, DaysAre
    <3> QED
      BY <1>9, <2>1, <3>1 DEF LogInv, BucketsOK
  <2> QED
    BY <1>3, <2>1 DEF LogInv, BucketsOK, On
<1>11. AttemptsOK'
  BY <1>3 DEF U!CleanupTraces, AttemptsOK
<1> QED
  BY <1>1, <1>3, <1>4, <1>8, <1>10, <1>11 DEF LogInv

\* A start counts the lines of the files, which is all that is left of the records.
LEMMA RestartStep == ASSUME LogInv, U!Restart PROVE LogInv'
<1> DEFINE cutoff == U!Before(RetentionDays)
           kept == {rec \in log : rec.file >= cutoff}
<1>1. day \in U!Days /\ day \in Nat /\ recorded \in Nat /\ erased \in Nat /\ retention \in Nat
  BY DaysAre DEF LogInv
<1>2. PICK reading \in U!Readings(kept) : buckets' = U!Rebuilt(reading)
  BY DEF U!Restart
<1>3. /\ writer' = [date |-> 0, lines |-> {}, pending |-> 0] /\ unlogged' = {}
      /\ UNCHANGED <<day, log, retention, traces, attempts, recorded, erased>>
  BY DEF U!Restart, U!Closed
<1>4. /\ log \in SUBSET Line /\ IsFiniteSet(log)
      /\ \A rec \in log : rec.n < recorded /\ rec.ts <= rec.file /\ rec.file <= day
  BY DEF LogInv, LinesOK, Counted
<1>5. writer'.lines = {} /\ writer' \in [date : Nat, lines : SUBSET Line, pending : Nat]
  BY <1>3
<1>6. Counted' = log
  BY <1>3, <1>5 DEF Counted
<1>7. LinesOK'
  BY <1>3, <1>4, <1>5, <1>6, FS_EmptySet DEF LinesOK
<1>8. kept \in SUBSET log /\ IsFiniteSet(kept) /\ kept \subseteq Line
  <2>1. kept \in SUBSET log
    OBVIOUS
  <2> HIDE DEF kept
  <2> QED
    BY <1>4, <2>1, FS_Subset
<1>9. ASSUME NEW d \in U!Days, day < d + DayBuckets PROVE On(log, d) = On(kept, d)
  <2>1. ASSUME NEW rec \in log, rec.ts = d PROVE rec.file >= cutoff
    <3>1. rec.file \in Nat /\ d \in Nat /\ d <= rec.file
      BY <1>4, <2>1, DaysAre DEF Line
    <3>2. RetentionDays \in Nat /\ DayBuckets \in Nat /\ DayBuckets <= RetentionDays + 1
      BY UsageAssumption
    <3> QED
      BY <1>1, <1>9, <3>1, <3>2 DEF U!Before
  <2> QED
    BY <2>1 DEF On
<1> HIDE DEF kept
<1> DEFINE z == Len(reading)
<1>10. /\ reading \in Seq(Line) /\ {reading[i] : i \in 1 .. z} = kept
       /\ \A i, j \in 1 .. z : i # j => reading[i] # reading[j]
  BY <1>2, <1>8, ReadingEffect
<1>11. \A i \in 1 .. z : reading[i].ts <= day
  <2> SUFFICES ASSUME NEW i \in 1 .. z PROVE reading[i].ts <= day
    OBVIOUS
  <2>1. reading[i] \in log
    BY <1>8, <1>10
  <2>2. reading[i].ts \in Nat /\ reading[i].file \in Nat
    BY <1>4, <2>1, DaysAre DEF Line
  <2> QED
    BY <1>1, <1>4, <2>1, <2>2
<1>12. /\ buckets' \in [U!Days -> Nat]
       /\ \A d \in U!Days : buckets'[d] > 0 => d <= day
       /\ \A d \in U!Days : day < d + DayBuckets => buckets'[d] = Cardinality(On(kept, d))
  BY <1>1, <1>2, <1>10, <1>11, RebuiltEffect
<1>13. \A d \in U!Days : day < d + DayBuckets => buckets'[d] = Cardinality(On(Counted', d))
  BY <1>6, <1>9, <1>12
<1>14. BucketsOK'
  BY <1>3, <1>12, <1>13 DEF BucketsOK, On
<1>15. AttemptsOK'
  BY <1>3 DEF LogInv, AttemptsOK
<1> QED
  BY <1>1, <1>3, <1>7, <1>14, <1>15 DEF LogInv

\* With every day there are days less to count.
LEMMA NextDayStep == ASSUME LogInv, U!NextDay PROVE LogInv'
<1>1. day \in U!Days /\ day \in Nat /\ day' = day + 1 /\ day < MaxDay
  BY DaysAre DEF LogInv, U!NextDay
<1>2. UNCHANGED <<log, writer, retention, buckets, traces, attempts, recorded, unlogged, erased>>
  BY DEF U!NextDay
<1>3. day' \in U!Days
  BY <1>1, DaysAre
<1>4. Counted' = Counted
  BY <1>2 DEF Counted
<1>5. LinesOK'
  <2>1. \A rec \in Counted : rec.file \in Nat /\ rec.file <= day
    BY DaysAre DEF LogInv, LinesOK, Counted, Line
  <2>2. \A rec \in Counted : rec.file <= day + 1
    BY <1>1, <2>1
  <2> QED
    BY <1>1, <1>2, <1>4, <2>2 DEF LogInv, LinesOK
<1>6. BucketsOK'
  <2>1. \A d \in U!Days : d \in Nat /\ (buckets[d] > 0 => d <= day)
    BY DaysAre DEF LogInv, BucketsOK
  <2>2. \A d \in U!Days : buckets[d] > 0 => d <= day + 1
    BY <1>1, <2>1
  <2>3. \A d \in U!Days : day + 1 < d + DayBuckets => day < d + DayBuckets
    BY <1>1, <2>1, UsageAssumption
  <2>4. \A d \in U!Days : day + 1 < d + DayBuckets /\ erased <= d =>
            buckets[d] = Cardinality(On(Counted, d))
    BY <2>3 DEF LogInv, BucketsOK
  <2> QED
    BY <1>1, <1>2, <1>4, <2>2, <2>4 DEF LogInv, BucketsOK, On
<1>7. AttemptsOK'
  BY <1>2 DEF LogInv, AttemptsOK
<1> QED
  BY <1>2, <1>3, <1>5, <1>6, <1>7 DEF LogInv

LEMMA LogStays ==
    ASSUME LogInv, retention' \in Nat,
           UNCHANGED <<day, log, writer, buckets, traces, attempts, recorded, unlogged, erased>>
    PROVE  LogInv'
<1>1. Counted' = Counted
  BY DEF Counted
<1>2. LinesOK'
  BY <1>1 DEF LogInv, LinesOK
<1>3. BucketsOK'
  BY <1>1 DEF LogInv, BucketsOK, On
<1> QED
  BY <1>2, <1>3 DEF LogInv, AttemptsOK

LEMMA LogStep == LogInv /\ [U!Next]_(U!vars) => LogInv'
<1> SUFFICES ASSUME LogInv, [U!Next]_(U!vars) PROVE LogInv'
  OBVIOUS
<1>1. ASSUME NEW ts \in U!Days, NEW writable \in BOOLEAN, NEW stored \in BOOLEAN,
             U!Record(ts, writable, stored)
      PROVE  LogInv'
  BY <1>1, RecordStep
<1>2. ASSUME NEW d \in Retentions, U!SetRetention(d) PROVE LogInv'
  <2>1. retention' \in Nat
    BY <1>2, UsageAssumption DEF U!SetRetention
  <2> QED
    BY <1>2, <2>1, LogStays DEF U!SetRetention
<1>3. CASE UNCHANGED U!vars
  <2>1. retention' \in Nat
    BY <1>3 DEF U!vars, LogInv
  <2> QED
    BY <1>3, <2>1, LogStays DEF U!vars
<1> QED
  BY <1>1, <1>2, <1>3, CleanupStep, NextDayStep, RestartStep DEF U!Next

LEMMA ChartTrue == LogInv => ChartMatchesLog
<1> SUFFICES ASSUME LogInv PROVE U!ChartMatchesLog
  BY DEF ChartMatchesLog
<1>1. day \in Nat /\ erased \in Nat /\ DayBuckets \in Nat
  BY DaysAre, UsageAssumption DEF LogInv
<1>2. Counted \subseteq Line /\ IsFiniteSet(Counted)
  <2>1. IsFiniteSet(log) /\ IsFiniteSet(writer.lines) /\ IsFiniteSet(unlogged)
    BY DEF LogInv, LinesOK
  <2>2. IsFiniteSet(log \cup writer.lines)
    BY <2>1, FS_Union
  <2>3. IsFiniteSet(Counted)
    BY <2>1, <2>2, FS_Union DEF Counted
  <2>4. log \in SUBSET Line /\ writer.lines \in SUBSET Line /\ unlogged \in SUBSET Line
    BY DEF LogInv, LinesOK
  <2> QED
    BY <2>3, <2>4 DEF Counted
<1>3. buckets \in [U!Days -> Nat]
  BY DEF LogInv, BucketsOK
<1>4. ASSUME NEW range \in 0 .. DayBuckets - 1, day >= erased + range
      PROVE  U!Chart(range) = U!Cardinality(U!LinesOf(range))
  <2> DEFINE wanted == {d \in U!Days : d + range >= day}
             f == [d \in U!Days |-> IF d + range >= day THEN buckets[d] ELSE 0]
  <2>1. f \in [U!Days -> Nat]
    BY <1>3
  <2>2. ASSUME NEW d \in U!Days
        PROVE  f[d] = IF d \in wanted THEN Cardinality(On(Counted, d)) ELSE 0
    <3>1. CASE d + range >= day
      <4>1. d \in Nat /\ day < d + DayBuckets /\ erased <= d
        BY <1>1, <1>4, <3>1, DaysAre
      <4>2. buckets[d] = Cardinality(On(Counted, d))
        BY <4>1 DEF LogInv, BucketsOK
      <4> QED
        BY <3>1, <4>2
    <3>2. CASE ~(d + range >= day)
      BY <3>2
    <3> QED
      BY <3>1, <3>2
  <2>3. U!Chart(range) = U!Total(f)
    BY DEF U!Chart
  <2>4. {rec \in Counted : rec.ts \in wanted} = U!LinesOf(range)
    BY <1>2 DEF U!LinesOf, Counted, Line
  <2> HIDE DEF f, wanted
  <2>5. U!Total(f) = Cardinality({rec \in Counted : rec.ts \in wanted})
    BY <1>2, <2>1, <2>2, ChartCounts
  <2> QED
    BY <2>3, <2>4, <2>5, SameCount
<1> QED
  BY <1>4 DEF LogInv, AttemptsOK, U!ChartMatchesLog

\* Through midnights, failures to open the file, cleanups, changes of the retention and
\* restarts, what a range of the chart shows is the number of the lines of its days, and no
\* attempt of a deleted trace is counted (record, upsert_bucket, rebuild_from_logs,
\* cleanup_old_logs of usage_stats.rs, cleanup of trace_db.rs).
THEOREM ChartTheorem == U!Spec => []ChartMatchesLog
BY InitLog, LogStep, ChartTrue, PTL DEF U!Spec
=============================================================================
