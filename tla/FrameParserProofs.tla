------------------------- MODULE FrameParserProofs -------------------------
(***************************************************************************)
(* Theorems about Frame and FrameParser, for every magic, checksum,        *)
(* payload limit, set of streams and misbehaviour of user code that their  *)
(* assumptions allow.                                                      *)
(***************************************************************************)
EXTENDS FrameParser, SequenceTheorems, FiniteSetTheorems, TLAPS

-----------------------------------------------------------------------------
(***************************************************************************)
(* The operators of Frame.                                                 *)
(***************************************************************************)

\* A non-empty set of naturals has a least element, as < is well-founded.
LEMMA LeastNat ==
  ASSUME NEW T \in SUBSET Nat, T # {}
  PROVE  \E i \in T : \A j \in T : i <= j
<1> DEFINE R == {ss \in Nat \X Nat : ss[1] < ss[2]}
<1>1. IsWellFoundedOn(R, Nat)
  BY NatLessThanWellFounded DEF OpToRel
<1>2. PICK i \in T : \A j \in T : <<j, i>> \notin R
  <2> HIDE DEF R
  <2>1. QED
    BY <1>1, WFMin
<1>3. \A j \in T : <<j, i>> \in Nat \X Nat /\ ~(j < i)
  BY <1>2
<1>4. \A j \in T : ~(j < i) => i <= j
  OBVIOUS
<1>5. QED
  BY <1>3, <1>4

\* The sizes of the layout.
LEMMA LayoutType ==
  /\ MagicLen \in Nat /\ MagicLen > 0
  /\ FrameHeaderSize \in Nat /\ FrameHeaderSize = MagicLen + 5
  /\ CrcSize = 1
BY FrameAssumption DEF MagicLen, FrameHeaderSize, CrcSize

\* Dropping a prefix keeps a byte string and shortens it by that much.
LEMMA DropFrontProperties ==
  ASSUME NEW b \in Seq(Nat), NEW n \in 0..Len(b)
  PROVE  /\ DropFront(b, n) \in Seq(Nat)
         /\ Len(DropFront(b, n)) = Len(b) - n
BY DEF DropFront

\* Dropping n cells from the window (h, g] of a stream gives the window
\* (h + n, g].
LEMMA DropFrontOfWindow ==
  ASSUME NEW s \in Seq(Nat), NEW g \in 0..Len(s), NEW h \in 0..g,
         NEW n \in 0..(g - h)
  PROVE  /\ Len(SubSeq(s, h + 1, g)) = g - h
         /\ DropFront(SubSeq(s, h + 1, g), n) = SubSeq(s, h + n + 1, g)
BY DEF DropFront

\* The cells of a window are those of the stream.
LEMMA WindowElement ==
  ASSUME NEW s \in Seq(Nat), NEW g \in 0..Len(s), NEW h \in 0..g,
         NEW i \in 1..(g - h)
  PROVE  SubSeq(s, h + 1, g)[i] = s[h + i]
OBVIOUS

\* A window extended by the bytes that follow it is the longer window.
LEMMA ExtendWindow ==
  ASSUME NEW s \in Seq(Nat), NEW g \in 0..Len(s), NEW h \in 0..g,
         NEW n \in 0..(Len(s) - g)
  PROVE  SubSeq(s, h + 1, g) \o SubSeq(s, g + 1, g + n) = SubSeq(s, h + 1, g + n)
BY ConcatAdjacentSubSeq

\* alignMagicFront removes at most the whole buffer, and only cells at which
\* no magic starts.
LEMMA AlignShiftProperties ==
  ASSUME NEW b \in Seq(Nat)
  PROVE  /\ AlignShift(b) \in 0..Len(b)
         /\ \A i \in 0..(AlignShift(b) - 1) :
              i + MagicLen <= Len(b) /\ ~MagicAt(b, i)
<1> USE LayoutType
<1>1. CASE Len(b) < MagicLen
  BY <1>1 DEF AlignShift
<1>2. CASE Len(b) >= MagicLen /\ MagicOffsets(b) = {}
  BY <1>2 DEF AlignShift, MagicOffsets
<1>3. CASE Len(b) >= MagicLen /\ MagicOffsets(b) # {}
  <2>1. MagicOffsets(b) \in SUBSET Nat
    BY DEF MagicOffsets
  <2>2. \E i \in MagicOffsets(b) : \A j \in MagicOffsets(b) : i <= j
    BY <2>1, <1>3, LeastNat
  <2>3. /\ AlignShift(b) \in MagicOffsets(b)
        /\ \A j \in MagicOffsets(b) : AlignShift(b) <= j
    BY <2>2, <1>3 DEF AlignShift
  <2>4. QED
    BY <2>3, <1>3 DEF MagicOffsets
<1>4. QED
  BY <1>1, <1>2, <1>3

\* A frame that trySliceOneFrame cuts is not empty and within the buffer.
LEMMA FrameLenProperties ==
  ASSUME NEW b \in Seq(Nat), Sliceable(b)
  PROVE  FrameLen(b) \in 1..Len(b)
<1>1. PayloadLen(b) \in Nat
  BY LayoutType DEF Sliceable, PayloadLen
<1>2. QED
  BY <1>1, LayoutType DEF Sliceable, FrameLen, EndPayload

-----------------------------------------------------------------------------
(***************************************************************************)
(* Encoding and decoding.                                                  *)
(***************************************************************************)

\* r is s, of length m, and then t, of length n.
Joined(r, S, s, m, t, n) ==
  /\ r \in Seq(S) /\ Len(r) = m + n
  /\ \A i \in 1..m : r[i] = s[i]
  /\ \A i \in 1..n : r[m + i] = t[i]

LEMMA ConcatAt ==
  ASSUME NEW S, NEW s \in Seq(S), NEW t \in Seq(S)
  PROVE  Joined(s \o t, S, s, Len(s), t, Len(t))
<1> DEFINE r == s \o t
           m == Len(s)
           n == Len(t)
<1>1. m \in Nat /\ n \in Nat
  BY LenProperties
<1>2. /\ r \in Seq(S) /\ Len(r) = m + n
      /\ \A i \in 1..(m + n) : r[i] = IF i <= m THEN s[i] ELSE t[i - m]
  BY ConcatProperties
<1> HIDE DEF r, m, n
<1>3. \A i \in 1..m : r[i] = s[i]
  BY <1>1, <1>2
<1>4. ASSUME NEW i \in 1..n PROVE r[m + i] = t[i]
  <2>1. m + i \in 1..(m + n) /\ ~(m + i <= m) /\ (m + i) - m = i
    BY <1>1
  <2>2. r[m + i] = t[(m + i) - m]
    BY <1>2, <2>1, Zenon
  <2>3. QED
    BY <2>1, <2>2
<1>5. QED
  BY <1>2, <1>3, <1>4 DEF Joined, r, m, n

\* What may be given to encodeFrame.
EncodeInputs ==
  [version : Nat, msgType : Nat, boatId : Nat, seq : Nat, payload : Seq(Nat)]

\* The bytes of a frame one by one, whatever comes after them.
LEMMA EncodedCells ==
  ASSUME NEW f \in EncodeInputs, NEW S, NEW rest \in Seq(S)
  PROVE  LET k == Len(f.payload)
             b == EncodeFrame(f)
             body == SubSeq(b, 1, FrameHeaderSize + k)
             C == Nat \cup S \cup {Crc(body)}
         IN  /\ b \in Seq(C) /\ rest \in Seq(C) /\ k \in Nat
             /\ Len(b) = FrameHeaderSize + k + CrcSize
             /\ \A i \in 1..MagicLen : b[i] = Magic[i]
             /\ Version(b) = f.version /\ MsgType(b) = f.msgType /\ BoatId(b) = f.boatId
             /\ SeqNo(b) = f.seq /\ PayloadLen(b) = k
             /\ \A i \in 1..k : b[FrameHeaderSize + i] = f.payload[i]
             /\ b[FrameHeaderSize + k + 1] = Crc(body)
<1> DEFINE m == MagicLen
           k == Len(f.payload)
           h == <<f.version, f.msgType, f.boatId, f.seq, k>>
           q == Magic \o h
           body == q \o f.payload
           b == Append(body, Crc(body))
           C == Nat \cup S \cup {Crc(body)}
<1>1. /\ f.version \in Nat /\ f.msgType \in Nat /\ f.boatId \in Nat /\ f.seq \in Nat
      /\ f.payload \in Seq(Nat) /\ k \in Nat
  BY DEF EncodeInputs
<1>2. Magic \in Seq(Nat) /\ m \in Nat /\ m = Len(Magic)
  BY FrameAssumption DEF MagicLen
<1>3. /\ h \in Seq(Nat) /\ Len(h) = 5
      /\ h[1] = f.version /\ h[2] = f.msgType /\ h[3] = f.boatId /\ h[4] = f.seq /\ h[5] = k
  BY <1>1
<1> HIDE DEF h, m, k
<1>4. Joined(q, Nat, Magic, m, h, 5)
  BY <1>2, <1>3, ConcatAt, Zenon
<1> HIDE DEF q
<1>5. Joined(body, Nat, q, m + 5, f.payload, k)
  <2>1. q \in Seq(Nat) /\ Len(q) = m + 5
    BY <1>4, Zenon DEF Joined
  <2>2. QED
    BY <1>1, <2>1, ConcatAt, Zenon DEF k
<1>6. EncodeFrame(f) = b
  BY Zenon DEF EncodeFrame, b, body, q, h, k
<1> HIDE DEF body
<1>7. body \in Seq(C) /\ rest \in Seq(C) /\ Crc(body) \in C
  BY <1>5 DEF Joined
<1> HIDE DEF C
<1>8. /\ b \in Seq(C) /\ Len(b) = m + 5 + k + 1
      /\ \A i \in 1..(m + 5 + k) : b[i] = body[i]
      /\ b[m + 5 + k + 1] = Crc(body)
  <2> DEFINE c == Crc(body)
  <2> HIDE DEF c
  <2>1. /\ Append(body, c) \in Seq(C) /\ Len(Append(body, c)) = Len(body) + 1
        /\ \A i \in 1..Len(body) : Append(body, c)[i] = body[i]
        /\ Append(body, c)[Len(body) + 1] = c
    BY <1>7, AppendProperties DEF c
  <2>2. QED
    BY <1>5, <2>1 DEF c, Joined
<1> HIDE DEF b
<1>9. SubSeq(b, 1, m + 5 + k) = body
  <2>1. m + 5 + k \in Nat /\ m + 5 + k <= Len(b)
    BY <1>1, <1>2, <1>8
  <2>2. /\ SubSeq(b, 1, m + 5 + k) \in Seq(C) /\ Len(SubSeq(b, 1, m + 5 + k)) = m + 5 + k
        /\ \A i \in 1..(m + 5 + k) : SubSeq(b, 1, m + 5 + k)[i] = b[i]
    BY <1>8, <2>1, SubSeqProperties
  <2>3. QED
    BY <1>5, <1>7, <1>8, <2>2, SeqEqual DEF Joined
<1>10. FrameHeaderSize = m + 5 /\ CrcSize = 1
  BY DEF FrameHeaderSize, CrcSize, m
<1>11. \A i \in 1..m : b[i] = Magic[i]
  BY <1>1, <1>2, <1>4, <1>5, <1>8 DEF Joined
<1>12. /\ b[m + 1] = f.version /\ b[m + 2] = f.msgType /\ b[m + 3] = f.boatId
       /\ b[m + 4] = f.seq /\ b[m + 5] = k
  <2>1. ASSUME NEW i \in 1..5 PROVE b[m + i] = h[i]
    <3>1. m + i \in 1..(m + 5) /\ m + i \in 1..(m + 5 + k)
      BY <1>1, <1>2
    <3>2. b[m + i] = body[m + i] /\ body[m + i] = q[m + i] /\ q[m + i] = h[i]
      BY <1>4, <1>5, <1>8, <3>1, Zenon DEF Joined
    <3>3. QED
      BY <3>2
  <2>2. QED
    BY <1>3, <2>1
<1>13. ASSUME NEW i \in 1..k PROVE b[m + 5 + i] = f.payload[i]
  <2>1. (m + 5) + i \in 1..(m + 5 + k)
    BY <1>1, <1>2
  <2>2. b[(m + 5) + i] = body[(m + 5) + i] /\ body[(m + 5) + i] = f.payload[i]
    BY <1>5, <1>8, <2>1, Zenon DEF Joined
  <2>3. QED
    BY <2>2
<1>14. QED
  BY <1>1, <1>2, <1>6, <1>7, <1>8, <1>9, <1>10, <1>11, <1>12, <1>13
     DEF Version, MsgType, BoatId, SeqNo, PayloadLen, m, k, C

\* What encodeFrame writes, trySliceOneFrame cuts out again at the right place, whatever
\* follows, and decodeFrame takes for the frame it was, unless the version or the size of the
\* payload is wrong.  The checksum may be any function: it must be the same on both sides.
THEOREM EncodedFramesDecode ==
  ASSUME NEW f \in EncodeInputs, Encodable(f), NEW S, NEW rest \in Seq(S)
  PROVE  LET b == EncodeFrame(f)
         IN  /\ Sliceable(b \o rest) /\ SliceFrame(b \o rest) = b
             /\ Decodes(b) <=>
                  /\ f.version = ProtocolVersion
                  /\ f.msgType = Heartbeat => f.payload = <<>>
                  /\ f.msgType = TelemetrySummary => Len(f.payload) = TelemetrySize
             /\ DecodedFrame(b) = [boatId |-> f.boatId, seq |-> f.seq, msgType |-> f.msgType,
                                   rawPayload |-> f.payload]
<1> DEFINE b == EncodeFrame(f)
           k == Len(f.payload)
           n == FrameHeaderSize + k
           C == Nat \cup S \cup {Crc(SubSeq(b, 1, n))}
           r == b \o rest
<1>1. /\ b \in Seq(C) /\ rest \in Seq(C) /\ k \in Nat
      /\ Len(b) = n + CrcSize
      /\ \A i \in 1..MagicLen : b[i] = Magic[i]
      /\ Version(b) = f.version /\ MsgType(b) = f.msgType /\ BoatId(b) = f.boatId
      /\ SeqNo(b) = f.seq /\ PayloadLen(b) = k
      /\ \A i \in 1..k : b[FrameHeaderSize + i] = f.payload[i]
      /\ b[n + 1] = Crc(SubSeq(b, 1, n))
  BY EncodedCells
<1>2. k <= MaxPayload /\ f.payload \in Seq(Nat)
  BY DEF Encodable, EncodeInputs
<1>3. MagicLen \in Nat /\ FrameHeaderSize = MagicLen + 5 /\ CrcSize = 1
  BY FrameAssumption DEF MagicLen, FrameHeaderSize, CrcSize
<1> HIDE DEF b, k, C
<1>4. EndPayload(b) = n /\ FrameLen(b) = n + 1 /\ n \in Nat /\ n >= FrameHeaderSize
  BY <1>1, <1>3 DEF EndPayload, FrameLen
<1>5. MagicAt(b, 0)
  BY <1>1, <1>3 DEF MagicAt
<1>6. Sliceable(r) /\ SliceFrame(r) = b
  <2>1. /\ r \in Seq(C) /\ Len(r) >= n + 1 /\ Len(r) \in Nat
        /\ \A i \in 1..(n + 1) : r[i] = b[i]
    <3>1. /\ r \in Seq(C) /\ Len(r) = Len(b) + Len(rest)
          /\ \A i \in 1..(Len(b) + Len(rest)) :
               r[i] = IF i <= Len(b) THEN b[i] ELSE rest[i - Len(b)]
      BY <1>1, ConcatProperties
    <3>2. Len(rest) \in Nat
      BY <1>1
    <3> HIDE DEF r, n
    <3>3. QED
      BY <1>1, <1>3, <1>4, <3>1, <3>2
  <2> HIDE DEF r
  <2>2. MagicAt(r, 0) /\ PayloadLen(r) = k
    BY <1>1, <1>3, <1>4, <2>1 DEF MagicAt, PayloadLen
  <2>3. FrameLen(r) = n + 1
    BY <1>1, <1>3, <2>2 DEF FrameLen, EndPayload
  <2>4. Sliceable(r)
    BY <1>2, <1>3, <1>4, <2>1, <2>2, <2>3 DEF Sliceable
  <2>5. SliceFrame(r) = b
    <3> HIDE DEF n
    <3>1. /\ SubSeq(r, 1, n + 1) \in Seq(C) /\ Len(SubSeq(r, 1, n + 1)) = n + 1
          /\ \A i \in 1..(n + 1) : SubSeq(r, 1, n + 1)[i] = r[i]
      BY <1>4, <2>1, SubSeqProperties
    <3>2. SubSeq(r, 1, n + 1) = b
      BY <1>1, <1>3, <1>4, <2>1, <3>1, SeqEqual
    <3>3. QED
      BY <2>3, <3>2 DEF SliceFrame
  <2>6. QED
    BY <2>4, <2>5
<1>7. Payload(b) = f.payload
  <2> DEFINE p == SubSeq(b, FrameHeaderSize + 1, n)
  <2>1. /\ p \in Seq(C) /\ Len(p) = k /\ \A i \in 1..k : p[i] = b[FrameHeaderSize + i]
    BY <1>1, <1>3, <1>4, SubSeqProperties
  <2>2. f.payload \in Seq(C)
    BY <1>2 DEF C
  <2> HIDE DEF p
  <2>3. p = f.payload
    BY <1>1, <2>1, <2>2, SeqEqual DEF k
  <2>4. QED
    BY <1>4, <2>3 DEF Payload, p
<1>8. DecodeResult(b) = IF f.version # ProtocolVersion THEN "VERSION" ELSE PayloadFault(b)
  BY <1>1, <1>2, <1>3, <1>4, <1>5, FrameAssumption DEF DecodeResult
<1>9. f.payload = <<>> <=> k = 0
  BY <1>2, EmptySeq DEF k
<1>10. Decodes(b) <=>
         /\ f.version = ProtocolVersion
         /\ f.msgType = Heartbeat => k = 0
         /\ f.msgType = TelemetrySummary => k = TelemetrySize
  BY <1>1, <1>8 DEF Decodes, PayloadFault, Heartbeat, TelemetrySummary
<1>11. DecodedFrame(b) = [boatId |-> f.boatId, seq |-> f.seq, msgType |-> f.msgType,
                          rawPayload |-> f.payload]
  BY <1>1, <1>7, Zenon DEF DecodedFrame
<1>12. QED
  BY <1>6, <1>9, <1>10, <1>11 DEF b, k

-----------------------------------------------------------------------------
(***************************************************************************)
(* Buffers as windows of a stream.                                         *)
(***************************************************************************)

\* BufferIsStreamWindow of the values b, l, s and g of buf, len, stream, got.
IsWindow(b, l, s, g) ==
  /\ Len(b) <= g
  /\ b = SubSeq(s, (g - Len(b)) + 1, g)
  /\ l = Len(b) \/ (l < 0 /\ b = <<>>)

\* Removing cells from the front of a window leaves a window.
LEMMA DropKeepsWindow ==
  ASSUME NEW s \in Seq(Nat), NEW g \in 0..Len(s), NEW b \in Seq(Nat),
         NEW n \in 0..Len(b), IsWindow(b, Len(b), s, g)
  PROVE  /\ DropFront(b, n) \in Seq(Nat)
         /\ IsWindow(DropFront(b, n), Len(b) - n, s, g)
<1> DEFINE h == g - Len(b)
<1>1. h \in 0..g /\ n \in 0..(g - h) /\ b = SubSeq(s, h + 1, g)
  BY DEF IsWindow
<1>2. DropFront(b, n) \in Seq(Nat) /\ Len(DropFront(b, n)) = Len(b) - n
  BY DropFrontProperties
<1>3. DropFront(b, n) = SubSeq(s, h + n + 1, g)
  <2> HIDE DEF h
  <2>1. DropFront(SubSeq(s, h + 1, g), n) = SubSeq(s, h + n + 1, g)
    BY <1>1, DropFrontOfWindow
  <2>2. QED
    BY <1>1, <2>1, Zenon
<1>4. g - Len(DropFront(b, n)) = h + n
  BY <1>2
<1> HIDE DEF h
<1>5. Len(DropFront(b, n)) <= g
  BY <1>1, <1>2 DEF IsWindow
<1>6. DropFront(b, n) = SubSeq(s, (g - Len(DropFront(b, n))) + 1, g)
  BY <1>3, <1>4, Zenon
<1>7. QED
  BY ONLY <1>2, <1>5, <1>6 DEF IsWindow

\* The empty buffer is a window, whatever was received.
LEMMA EmptyIsWindow ==
  ASSUME NEW s \in Seq(Nat), NEW g \in 0..Len(s), NEW l \in Int, l <= 0
  PROVE  IsWindow(<<>>, l, s, g)
BY DEF IsWindow

\* A window with the next n bytes of the stream appended is a window, which
\* starts at the same offset.
LEMMA PushKeepsWindow ==
  ASSUME NEW s \in Seq(Nat), NEW g \in 0..Len(s), NEW b \in Seq(Nat),
         NEW n \in 1..(Len(s) - g), IsWindow(b, Len(b), s, g),
         NEW c, c = b \o SubSeq(s, g + 1, g + n)
  PROVE  /\ c \in Seq(Nat) /\ Len(c) = Len(b) + n
         /\ IsWindow(c, Len(b) + n, s, g + n)
<1> DEFINE h == g - Len(b)
<1>1. h \in 0..g /\ b = SubSeq(s, h + 1, g)
  BY DEF IsWindow
<1>2. c = SubSeq(s, h + 1, g + n)
  <2> HIDE DEF h
  <2>1. n \in 0..(Len(s) - g)
    OBVIOUS
  <2>2. SubSeq(s, h + 1, g) \o SubSeq(s, g + 1, g + n) = SubSeq(s, h + 1, g + n)
    BY <1>1, <2>1, ExtendWindow
  <2>3. QED
    BY <1>1, <2>2, Zenon
<1>3. c \in Seq(Nat) /\ Len(c) = (g + n) - h
  BY <1>1, <1>2
<1>4. (g + n) - Len(c) = h /\ Len(c) = Len(b) + n
  BY <1>1, <1>3
<1>5. c = SubSeq(s, ((g + n) - Len(c)) + 1, g + n)
  <2> HIDE DEF h
  <2>1. QED
    BY <1>2, <1>4, Zenon
<1>6. Len(c) <= g + n
  BY <1>1, <1>3
<1>7. QED
  BY <1>3, <1>4, <1>5, <1>6 DEF IsWindow

-----------------------------------------------------------------------------
(***************************************************************************)
(* The inductive invariant of the buffer.                                  *)
(***************************************************************************)

\* What push() relies on where it stands: nothing has disturbed len before
\* the first alignment, and while onFrame runs the frame it got is still at
\* the front, unless onFrame reset the parser.
PushContext ==
  /\ pc = "align" => len = Len(buf)
  /\ pc = "callback" =>
       /\ frameLen > 0
       /\ \/ buf = <<>> /\ len = 0
          \/ /\ Sliceable(buf) /\ Decodes(Window)
             /\ frameLen = FrameLen(buf) /\ len = Len(buf)

BufferInv == TypeOK /\ BufferIsStreamWindow /\ PushContext

\* What BufferInv says of the stream and of the buffer.
LEMMA BufferInvFacts ==
  ASSUME BufferInv
  PROVE  /\ stream \in Seq(Nat) /\ got \in 0..Len(stream)
         /\ buf \in Seq(Nat) /\ len \in Int /\ frameLen \in Nat
         /\ len = Len(buf) \/ (len < 0 /\ buf = <<>>)
         /\ IsWindow(buf, len, stream, got)
         /\ len >= 0 => len = Len(buf) /\ IsWindow(buf, Len(buf), stream, got)
BY ParserAssumption DEF BufferInv, TypeOK, BufferIsStreamWindow, head, IsWindow

\* Initially the buffer is empty.
LEMMA BufferInvInit == Init => BufferInv
<1> SUFFICES ASSUME Init PROVE BufferInv
  OBVIOUS
<1>1. stream \in Seq(Nat) /\ 0 \in 0..Len(stream)
  BY ParserAssumption DEF Init
<1>2. TypeOK
  BY <1>1, ParserAssumption DEF Init, TypeOK
<1>3. IsWindow(<<>>, 0, stream, 0)
  BY <1>1, EmptyIsWindow
<1>4. BufferIsStreamWindow
  BY <1>3 DEF Init, BufferIsStreamWindow, head, IsWindow
<1>5. PushContext
  BY DEF Init, PushContext
<1>6. QED
  BY <1>2, <1>4, <1>5 DEF BufferInv

\* One step of push() keeps it: a case for each action.
LEMMA BufferInvPush ==
  ASSUME BufferInv, NEW n \in 1..(Len(stream) - got), Push(n) \/ PushThrows(n)
  PROVE  BufferInv'
<1> USE BufferInvFacts
<1>1. CASE Push(n)
  <2>1. len = Len(buf) /\ IsWindow(buf, Len(buf), stream, got)
    BY <1>1 DEF Push
  <2>2. /\ buf' \in Seq(Nat) /\ Len(buf') = Len(buf) + n
        /\ IsWindow(buf', Len(buf) + n, stream, got + n)
    <3>1. /\ stream \in Seq(Nat) /\ got \in 0..Len(stream) /\ buf \in Seq(Nat)
          /\ n \in 1..(Len(stream) - got)
      BY BufferInvFacts
    <3>2. \A c : c = buf \o SubSeq(stream, got + 1, got + n) =>
            /\ c \in Seq(Nat) /\ Len(c) = Len(buf) + n
            /\ IsWindow(c, Len(buf) + n, stream, got + n)
      BY ONLY <2>1, <3>1, PushKeepsWindow
    <3>3. buf' = buf \o SubSeq(stream, got + 1, got + n)
      BY ONLY <1>1 DEF Push
    <3>4. QED
      BY ONLY <3>2, <3>3, Zenon
  <2>3. TypeOK'
    BY <1>1, <2>1, <2>2 DEF Push, BufferInv, TypeOK
  <2>4. BufferIsStreamWindow'
    BY <1>1, <2>1, <2>2 DEF Push, IsWindow, BufferIsStreamWindow, head
  <2>5. PushContext'
    BY <1>1, <2>1, <2>2 DEF Push, PushContext
  <2>6. QED
    BY <2>3, <2>4, <2>5 DEF BufferInv
<1>2. CASE PushThrows(n)
  <2>1. buf = <<>> /\ len < 0 /\ got + n \in 0..Len(stream)
    BY <1>2 DEF PushThrows
  <2>2. IsWindow(<<>>, len, stream, got + n)
    BY <2>1, EmptyIsWindow
  <2>3. TypeOK'
    BY <1>2, <2>1 DEF PushThrows, BufferInv, TypeOK
  <2>4. BufferIsStreamWindow'
    BY <1>2, <2>1, <2>2 DEF PushThrows, IsWindow, BufferIsStreamWindow, head
  <2>5. PushContext'
    BY <1>2 DEF PushThrows, PushContext
  <2>6. QED
    BY <2>3, <2>4, <2>5 DEF BufferInv
<1>3. QED
  BY <1>1, <1>2

\* The types of what a step may do to the histories.
LEMMA HistoryType ==
  ASSUME TypeOK, head \in Nat,
         errors' = errors \/ errors' = Append(errors, head),
         faults' = faults \/ (faults < MaxFaults /\ faults' = faults + 1)
  PROVE  errors' \in Seq(Nat) /\ faults' \in 0..MaxFaults
<1>1. errors' \in Seq(Nat)
  <2>1. errors \in Seq(Nat) /\ Append(errors, head) \in Seq(Nat)
    BY DEF TypeOK
  <2>2. QED
    BY <2>1, Zenon
<1>2. faults \in 0..MaxFaults /\ (faults < MaxFaults => faults + 1 \in 0..MaxFaults)
  BY ParserAssumption DEF TypeOK
<1>3. faults' \in 0..MaxFaults
  BY <1>2
<1>4. QED
  BY <1>1, <1>3

\* Every step keeps it: a case for each action, those that end onFrame or
\* realign the buffer in the same way together.
LEMMA BufferInvStep ==
  ASSUME BufferInv, [Next]_vars
  PROVE  BufferInv'
<1> USE BufferInvFacts
<1> USE DEF ResetBuffer, Misbehaves, Consume
<1>1. CASE Receive
  <2>1. PICK n \in 1..(Len(stream) - got) : Push(n) \/ PushThrows(n)
    BY <1>1 DEF Receive
  <2>2. QED
    BY <2>1, BufferInvPush
<1>2. ASSUME buf' = AlignMagicFront(buf), len' = len - AlignShift(buf),
             len = Len(buf), pc' \in {"loop", "idle"},
             UNCHANGED <<frameLen, onDecodeError, stream, got, seen, errors, faults>>
      PROVE  BufferInv'
  <2>1. AlignShift(buf) \in 0..Len(buf) /\ IsWindow(buf, Len(buf), stream, got)
    BY <1>2, AlignShiftProperties
  <2>2. buf' \in Seq(Nat) /\ IsWindow(buf', len', stream, got)
    BY <1>2, <2>1, DropKeepsWindow DEF AlignMagicFront
  <2>3. TypeOK'
    BY <1>2, <2>1, <2>2 DEF BufferInv, TypeOK
  <2>4. BufferIsStreamWindow'
    BY <1>2, <2>2 DEF IsWindow, BufferIsStreamWindow, head
  <2>5. PushContext'
    BY <1>2 DEF PushContext
  <2>6. QED
    BY <2>3, <2>4, <2>5 DEF BufferInv
<1>3. CASE Align
  BY <1>3, <1>2 DEF Align, BufferInv, PushContext
<1>4. CASE Wait
  BY <1>4, <1>2 DEF Wait
<1>5. CASE LoopExit
  BY <1>5 DEF LoopExit, BufferInv, TypeOK, BufferIsStreamWindow, PushContext, head
<1>6. CASE Deliver
  <2>1. FrameLen(buf) \in 1..Len(buf) /\ len = Len(buf)
    BY <1>6, FrameLenProperties DEF Deliver
  <2>2. head \in Nat
    BY DEF head, IsWindow
  <2>3. TypeOK'
    BY <1>6, <2>1, <2>2 DEF Deliver, BufferInv, TypeOK
  <2>4. BufferIsStreamWindow'
    BY <1>6 DEF Deliver, BufferInv, BufferIsStreamWindow, head
  <2>5. PushContext'
    BY <1>6, <2>1 DEF Deliver, PushContext, Window
  <2>6. QED
    BY <2>3, <2>4, <2>5 DEF BufferInv
<1>7. CASE DecodeFails
  <2>1. FrameLen(buf) \in 1..Len(buf) /\ len = Len(buf) /\ head \in Nat
    <3>1. Sliceable(buf) /\ len > 0
      BY <1>7, Zenon DEF DecodeFails
    <3>2. buf \in Seq(Nat) /\ len = Len(buf)
      BY <3>1
    <3>3. head \in Nat
      BY DEF head, IsWindow
    <3>4. QED
      BY ONLY <3>1, <3>2, <3>3, FrameLenProperties
  <2>2. CASE onDecodeError
    <3>1. buf' = DropFront(buf, FrameLen(buf)) /\ len' = len - FrameLen(buf)
      BY <1>7, <2>2 DEF DecodeFails
    <3>2. buf' \in Seq(Nat) /\ IsWindow(buf', len', stream, got)
      BY <2>1, <3>1, DropKeepsWindow
    <3>3. TypeOK'
      <4>1. TypeOK
        BY DEF BufferInv
      <4>2. /\ UNCHANGED <<pc, frameLen, onDecodeError, stream, got, seen, faults>>
            /\ errors' = Append(errors, head)
        BY ONLY <1>7, <2>2 DEF DecodeFails
      <4>3. errors' \in Seq(Nat)
        BY ONLY <2>1, <4>1, <4>2 DEF TypeOK
      <4>4. len' \in Int
        BY ONLY <2>1, <3>1
      <4>5. QED
        BY ONLY <3>2, <4>1, <4>2, <4>3, <4>4 DEF TypeOK
    <3>4. BufferIsStreamWindow'
      BY <1>7, <3>2 DEF DecodeFails, IsWindow, BufferIsStreamWindow, head
    <3>5. PushContext'
      BY <1>7, <2>2 DEF DecodeFails, PushContext
    <3>6. QED
      BY <3>3, <3>4, <3>5 DEF BufferInv
  <2>3. CASE ~onDecodeError
    BY <1>7, <2>1, <2>3
    DEF DecodeFails, BufferInv, TypeOK, BufferIsStreamWindow, PushContext, head
  <2>4. QED
    BY <2>2, <2>3
<1>8. ASSUME pc = "callback", Consume, UNCHANGED <<onDecodeError, stream, got, seen>>,
             errors' = errors \/ errors' = Append(errors, head),
             faults' = faults \/ (faults < MaxFaults /\ faults' = faults + 1)
      PROVE  BufferInv'
  <2>1. buf' \in Seq(Nat) /\ len' \in Int /\ IsWindow(buf', len', stream, got)
    <3>1. CASE buf = <<>> /\ len = 0
      <4>1. DropFront(<<>>, frameLen) = <<>>
        BY DEF DropFront
      <4>2. buf' = <<>> /\ len' = 0 - frameLen
        BY <1>8, <3>1, <4>1
      <4>3. QED
        BY <4>2, EmptyIsWindow
    <3>2. CASE ~(buf = <<>> /\ len = 0)
      <4>1. Sliceable(buf) /\ frameLen = FrameLen(buf) /\ len = Len(buf)
        BY <1>8, <3>2 DEF BufferInv, PushContext
      <4>2. frameLen \in 1..Len(buf)
        BY <4>1, FrameLenProperties
      <4>3. QED
        BY <1>8, <4>1, <4>2, DropKeepsWindow
    <3>3. QED
      BY <3>1, <3>2
  <2>2. head \in Nat
    BY DEF head, IsWindow
  <2>3. TypeOK'
    BY <1>8, <2>1, <2>2, HistoryType DEF BufferInv, TypeOK
  <2>4. BufferIsStreamWindow'
    BY <1>8, <2>1 DEF IsWindow, BufferIsStreamWindow, head
  <2>5. PushContext'
    BY <1>8 DEF PushContext
  <2>6. QED
    BY <2>3, <2>4, <2>5 DEF BufferInv
<1>9. ASSUME pc' \in {"idle", pc}, pc # "align", pc' # "callback",
             frameLen' \in {0, frameLen},
             UNCHANGED <<buf, len, onDecodeError, stream, got, seen>>,
             errors' = errors \/ errors' = Append(errors, head),
             faults < MaxFaults, faults' = faults + 1
      PROVE  BufferInv'
  <2>1. head \in Nat
    BY DEF head, IsWindow
  <2>2. TypeOK'
    <3>1. TypeOK
      BY DEF BufferInv
    <3>2. errors' \in Seq(Nat) /\ faults' \in 0..MaxFaults
      BY ONLY <1>9, <2>1, <3>1, HistoryType
    <3>3. QED
      BY ONLY <1>9, <3>1, <3>2 DEF TypeOK
  <2>3. BufferIsStreamWindow' /\ PushContext'
    BY <1>9 DEF BufferInv, BufferIsStreamWindow, PushContext, head
  <2>4. QED
    BY <2>2, <2>3 DEF BufferInv
<1>10. CASE CallbackReturns
  BY <1>8, <1>10 DEF CallbackReturns
<1>11. CASE CallbackThrows
  BY <1>9, <1>11 DEF CallbackThrows
<1>12. CASE CallbackThrowsBoatConnectError
  BY <1>8, <1>9, <1>12 DEF CallbackThrowsBoatConnectError
<1>13. CASE DecodeHandlerThrows
  BY <1>9, <1>13 DEF DecodeHandlerThrows
<1>14. CASE ResetInCallback \/ Reset
  <2>1. /\ buf' = <<>> /\ len' = 0
        /\ UNCHANGED <<pc, frameLen, onDecodeError, stream, got, seen, errors>>
    BY <1>14 DEF ResetInCallback, Reset
  <2>2. IsWindow(<<>>, 0, stream, got)
    BY EmptyIsWindow
  <2>3. TypeOK'
    BY <1>14, <2>1, ParserAssumption DEF ResetInCallback, Reset, BufferInv, TypeOK
  <2>4. BufferIsStreamWindow' /\ PushContext'
    BY <1>14, <2>1, <2>2
    DEF ResetInCallback, Reset, BufferInv, BufferIsStreamWindow, PushContext, head, IsWindow
  <2>5. QED
    BY <2>3, <2>4 DEF BufferInv
<1>15. CASE UNCHANGED vars
  BY <1>15
  DEF vars, BufferInv, TypeOK, BufferIsStreamWindow, PushContext, head, Window
<1>16. CASE DecodeHandlerResets
  <2>1. /\ buf' = <<>> /\ len' = -FrameLen(buf) /\ pc = "loop" /\ Sliceable(buf)
        /\ errors' = Append(errors, head)
        /\ UNCHANGED <<pc, frameLen, onDecodeError, stream, got, seen>>
    BY <1>16 DEF DecodeHandlerResets
  <2>2. FrameLen(buf) \in Nat /\ FrameLen(buf) > 0 /\ -FrameLen(buf) < 0 /\ -FrameLen(buf) \in Int
    <3>1. FrameLen(buf) \in 1..Len(buf) /\ buf \in Seq(Nat)
      BY <2>1, BufferInvFacts, FrameLenProperties
    <3>2. QED
      BY <3>1
  <2>3. IsWindow(<<>>, 0, stream, got)
    BY EmptyIsWindow
  <2>4. errors' \in Seq(Nat) /\ faults' \in 0..MaxFaults
    <3>1. head \in Nat /\ TypeOK
      BY <2>1 DEF BufferInv, BufferIsStreamWindow, head
    <3>2. faults < MaxFaults /\ faults' = faults + 1
      BY <1>16 DEF DecodeHandlerResets
    <3>3. QED
      BY <2>1, <3>1, <3>2, HistoryType
  <2>5. TypeOK'
    <3>1. <<>> \in Seq(Nat)
      OBVIOUS
    <3>2. QED
      BY <2>1, <2>2, <2>4, <3>1 DEF BufferInv, TypeOK
  <2>6. BufferIsStreamWindow' /\ PushContext'
    BY <2>1, <2>2, <2>3 DEF BufferIsStreamWindow, PushContext, head, IsWindow
  <2>7. QED
    BY <2>5, <2>6 DEF BufferInv
<1>17. QED
  BY <1>1, <1>3, <1>4, <1>5, <1>6, <1>7, <1>10, <1>11, <1>12, <1>13, <1>14, <1>15, <1>16
  DEF Next, PushStep, UserFault

LEMMA BufferInvariant == Spec => []BufferInv
<1>1. BufferInv /\ [Next]_vars => BufferInv'
  BY BufferInvStep
<1>2. QED
  BY BufferInvInit, <1>1, PTL DEF Spec

\* The variables of the parser keep their types.
THEOREM TypeInvariant == Spec => []TypeOK
<1>1. BufferInv => TypeOK
  BY DEF BufferInv
<1>2. QED
  BY BufferInvariant, <1>1, PTL

\* push, alignment, consumption and reset never tear the buffer: it is always
\* the contiguous piece of the stream that ends with the last byte pushed.
THEOREM WindowInvariant == Spec => []BufferIsStreamWindow
<1>1. BufferInv => BufferIsStreamWindow
  BY DEF BufferInv
<1>2. QED
  BY BufferInvariant, <1>1, PTL

-----------------------------------------------------------------------------
(***************************************************************************)
(* The frames given to onFrame.                                            *)
(***************************************************************************)

\* What trySliceOneFrame and decodeFrame read of a byte string does not depend
\* on what follows the frame.
LEMMA FrameInPrefix ==
  ASSUME NEW b \in Seq(Nat), NEW t \in Seq(Nat), Len(b) <= Len(t),
         \A i \in 1..Len(b) : t[i] = b[i],
         Sliceable(b)
  PROVE  /\ Sliceable(t) /\ FrameLen(t) = FrameLen(b)
         /\ SliceFrame(t) = SliceFrame(b)
<1> USE LayoutType
<1>1. Len(b) >= FrameHeaderSize + CrcSize /\ Len(b) >= FrameLen(b)
  BY DEF Sliceable
<1>2. PayloadLen(t) = PayloadLen(b) /\ PayloadLen(b) \in Nat
  BY <1>1 DEF PayloadLen
<1>3. FrameLen(t) = FrameLen(b) /\ FrameLen(b) \in 1..Len(b)
  BY <1>2, FrameLenProperties DEF FrameLen, EndPayload
<1>4. MagicAt(t, 0)
  BY DEF Sliceable, MagicAt
<1>5. Sliceable(t)
  BY <1>1, <1>2, <1>3, <1>4 DEF Sliceable
<1>6. SliceFrame(t) = SliceFrame(b)
  BY <1>3 DEF SliceFrame
<1>7. QED
  BY <1>3, <1>5, <1>6

\* A frame at the front of a window stands in the stream where the window
\* starts.
LEMMA FrameInWindow ==
  ASSUME NEW s \in Seq(Nat), NEW g \in 0..Len(s), NEW b \in Seq(Nat),
         IsWindow(b, Len(b), s, g), Sliceable(b),
         NEW c, c = g - Len(b)
  PROVE  /\ Sliceable(Suffix(s, c))
         /\ SliceFrame(Suffix(s, c)) = SliceFrame(b)
         /\ FrameEnd(s, c) = c + FrameLen(b)
         /\ FrameEnd(s, c) \in 0..g
<1> DEFINE t == Suffix(s, c)
<1>1. c \in 0..g /\ b = SubSeq(s, c + 1, g)
  BY DEF IsWindow
<1>2. t \in Seq(Nat) /\ Len(t) = Len(s) - c /\ Len(b) <= Len(t)
  BY <1>1 DEF Suffix
<1>3. \A i \in 1..Len(b) : t[i] = b[i]
  <2>1. \A i \in 1..(g - c) : /\ SubSeq(s, c + 1, Len(s))[i] = s[c + i]
                              /\ SubSeq(s, c + 1, g)[i] = s[c + i]
    <3>1. c \in 0..g /\ c \in 0..Len(s) /\ Len(s) \in 0..Len(s)
      BY <1>1
    <3> TAKE i \in 1..(g - c)
    <3>2. i \in 1..(Len(s) - c)
      BY <3>1
    <3>3. SubSeq(s, c + 1, Len(s))[i] = s[c + i]
      BY <3>1, <3>2, WindowElement
    <3>4. SubSeq(s, c + 1, g)[i] = s[c + i]
      BY <3>1, WindowElement
    <3>5. QED
      BY <3>3, <3>4
  <2>2. g - c = Len(b)
    OBVIOUS
  <2>3. QED
    BY <1>1, <2>1, <2>2, Zenon DEF Suffix
<1> HIDE DEF t
<1>4. /\ Sliceable(t) /\ FrameLen(t) = FrameLen(b)
      /\ SliceFrame(t) = SliceFrame(b)
  BY <1>2, <1>3, FrameInPrefix
<1>5. FrameEnd(s, c) = c + FrameLen(b)
  BY <1>4 DEF t, FrameEnd
<1>6. FrameLen(b) \in 1..Len(b)
  BY FrameLenProperties
<1>7. c + FrameLen(b) \in 0..g
  BY <1>1, <1>6
<1>8. QED
  BY <1>4, <1>5, <1>7 DEF t

\* With a magic at the front, alignMagicFront removes nothing.
LEMMA AlignedStays ==
  ASSUME NEW b \in Seq(Nat), MagicAt(b, 0)
  PROVE  AlignShift(b) = 0 /\ AlignMagicFront(b) = b
<1>1. AlignShift(b) \in 0..Len(b)
  BY AlignShiftProperties
<1>2. ~(0 \in 0..(AlignShift(b) - 1))
  BY AlignShiftProperties
<1>3. AlignShift(b) = 0
  BY <1>1, <1>2
<1>4. QED
  BY <1>3 DEF AlignMagicFront, DropFront

\* A frame offered from offset x is a good frame of the stream that was
\* received, and it is settled or still the good frame at the front.
SettledAt(s, x, b, h, g) ==
  /\ GoodFrameAt(s, x)
  /\ FrameEnd(s, x) \in 0..g
  /\ \/ FrameEnd(s, x) <= h
     \/ x = h /\ Sliceable(b) /\ Decodes(SliceFrame(b))

SeenSettled == \A i \in DOMAIN seen : SettledAt(stream, seen[i], buf, head, got)

OfferInv == BufferInv /\ SeenSettled /\ OfferedInOrder

LEMMA OfferInvInit == Init => OfferInv
<1> SUFFICES ASSUME Init PROVE OfferInv
  OBVIOUS
<1>1. BufferInv
  BY BufferInvInit
<1>2. SeenSettled /\ OfferedInOrder
  BY DEF Init, SeenSettled, OfferedInOrder
<1>3. QED
  BY <1>1, <1>2 DEF OfferInv

\* A frame stays settled while more is received and the front moves on, if the
\* front does not move into it.
LEMMA StaysSettled ==
  ASSUME NEW s, NEW x, NEW b, NEW h \in Nat, NEW g \in Nat,
         SettledAt(s, x, b, h, g),
         NEW c, NEW h2 \in Nat, NEW g2 \in Nat, h <= h2, g <= g2,
         (x = h /\ Sliceable(b) /\ Decodes(SliceFrame(b)))
         => \/ FrameEnd(s, x) <= h2
            \/ h2 = h /\ Sliceable(c) /\ Decodes(SliceFrame(c))
  PROVE  SettledAt(s, x, c, h2, g2)
BY DEF SettledAt

\* Where the front is after a step, from the new buffer and read position.
LEMMA HeadAfter ==
  ASSUME NEW c, NEW g2, buf' = c, got' = g2
  PROVE  head' = g2 - Len(c)
BY DEF head

\* The step of the buffer, given its new values in terms of the old ones.
LEMMA SeenSettledStep ==
  ASSUME OfferInv, UNCHANGED <<stream, seen>>,
         NEW c, NEW h2 \in Nat, NEW g2 \in Nat,
         buf' = c, head' = h2, got' = g2, head <= h2, got <= g2,
         \A x : (/\ SettledAt(stream, x, buf, head, got) /\ x = head
                 /\ Sliceable(buf) /\ Decodes(SliceFrame(buf)))
                => \/ FrameEnd(stream, x) <= h2
                   \/ h2 = head /\ Sliceable(c) /\ Decodes(SliceFrame(c))
  PROVE  SeenSettled' /\ OfferedInOrder'
<1>1. OfferedInOrder'
  BY DEF OfferInv, OfferedInOrder
<1>2. head \in Nat /\ got \in Nat
  <2>1. IsWindow(buf, len, stream, got) /\ buf \in Seq(Nat) /\ got \in 0..Len(stream)
    BY BufferInvFacts DEF OfferInv
  <2>2. QED
    BY <2>1 DEF IsWindow, head
<1>3. \A i \in DOMAIN seen : SettledAt(stream, seen[i], c, h2, g2)
  BY <1>2, StaysSettled DEF OfferInv, SeenSettled
<1>4. QED
  BY <1>1, <1>3, Zenon DEF SeenSettled

LEMMA OfferInvStep ==
  ASSUME OfferInv, [Next]_vars
  PROVE  OfferInv'
<1>1. BufferInv /\ BufferInv'
  BY BufferInvStep DEF OfferInv
<1>2. /\ stream \in Seq(Nat) /\ got \in 0..Len(stream)
      /\ buf \in Seq(Nat) /\ len \in Int /\ frameLen \in Nat
      /\ len = Len(buf) \/ (len < 0 /\ buf = <<>>)
      /\ len >= 0 => len = Len(buf) /\ IsWindow(buf, Len(buf), stream, got)
      /\ head \in Nat /\ head <= got /\ got \in Nat /\ head = got - Len(buf)
  BY <1>1, BufferInvFacts DEF IsWindow, head
<1>3. ASSUME UNCHANGED <<buf, stream, got, seen>>
      PROVE  SeenSettled' /\ OfferedInOrder'
  BY <1>3 DEF OfferInv, SeenSettled, OfferedInOrder, head
<1>4. \A n : Push(n) /\ n \in 1..(Len(stream) - got) => SeenSettled' /\ OfferedInOrder'
  <2> SUFFICES ASSUME NEW n \in 1..(Len(stream) - got), Push(n)
               PROVE  SeenSettled' /\ OfferedInOrder'
    OBVIOUS
  <2> DEFINE c == buf \o SubSeq(stream, got + 1, got + n)
  <2>1. len = Len(buf) /\ IsWindow(buf, Len(buf), stream, got)
    BY <1>2 DEF Push
  <2>2. c \in Seq(Nat) /\ Len(c) = Len(buf) + n
    BY <1>2, <2>1, PushKeepsWindow
  <2>3. \A i \in 1..Len(buf) : c[i] = buf[i]
    BY <1>2
  <2> HIDE DEF c
  <2>4. Sliceable(buf) => Sliceable(c) /\ SliceFrame(c) = SliceFrame(buf)
    <3>1. Len(buf) <= Len(c)
      BY <1>2, <2>2
    <3>2. QED
      BY <1>2, <2>2, <2>3, <3>1, FrameInPrefix
  <2>5. /\ (got + n) - Len(c) = head
        /\ got + n \in Nat /\ got <= got + n /\ head <= head
    BY <1>2, <2>2
  <2>6. buf' = c /\ got' = got + n
    BY DEF Push, c
  <2>7. head' = head
    BY <2>5, <2>6, HeadAfter
  <2>8. QED
    BY <1>2, <2>4, <2>5, <2>6, <2>7, SeenSettledStep DEF Push
<1>5. \A n : PushThrows(n) /\ n \in 1..(Len(stream) - got) => SeenSettled' /\ OfferedInOrder'
  <2> SUFFICES ASSUME NEW n \in 1..(Len(stream) - got), PushThrows(n)
               PROVE  SeenSettled' /\ OfferedInOrder'
    OBVIOUS
  <2>1. buf = <<>> /\ buf' = <<>> /\ got' = got + n /\ head = got
    BY <1>2 DEF PushThrows
  <2>2. head' = got + n
    BY <1>2, <2>1, HeadAfter
  <2>3. ~Sliceable(buf)
    BY <2>1, LayoutType DEF Sliceable
  <2>4. QED
    BY <1>2, <2>1, <2>2, <2>3, SeenSettledStep DEF PushThrows
<1>6. ASSUME len = Len(buf), buf' = AlignMagicFront(buf), UNCHANGED <<stream, got, seen>>
      PROVE  SeenSettled' /\ OfferedInOrder'
  <2>1. AlignShift(buf) \in 0..Len(buf)
    BY <1>2, AlignShiftProperties
  <2>2. Len(AlignMagicFront(buf)) = Len(buf) - AlignShift(buf)
    BY <1>2, <2>1, DropFrontProperties DEF AlignMagicFront
  <2>3. head' = got - Len(AlignMagicFront(buf))
    BY <1>6, HeadAfter
  <2>4. head' = head + AlignShift(buf)
    BY <1>2, <2>1, <2>2, <2>3
  <2>5. Sliceable(buf) => AlignShift(buf) = 0 /\ AlignMagicFront(buf) = buf
    BY <1>2, AlignedStays DEF Sliceable
  <2>6. QED
    BY <1>2, <1>6, <2>1, <2>4, <2>5, SeenSettledStep
<1>7. ASSUME Deliver
      PROVE  SeenSettled' /\ OfferedInOrder'
  <2>1. len = Len(buf) /\ IsWindow(buf, Len(buf), stream, got) /\ Sliceable(buf)
    BY <1>2, <1>7 DEF Deliver
  <2>2. SettledAt(stream, head, buf, head, got)
    <3>1. /\ Sliceable(Suffix(stream, head)) /\ FrameEnd(stream, head) \in 0..got
          /\ SliceFrame(Suffix(stream, head)) = SliceFrame(buf)
      BY <1>2, <2>1, FrameInWindow
    <3>2. Decodes(SliceFrame(buf))
      BY <1>7 DEF Deliver, Window
    <3>3. QED
      BY <2>1, <3>1, <3>2 DEF SettledAt, GoodFrameAt
  <2>3. seen' = Append(seen, head) /\ seen \in Seq(Nat)
    BY <1>1, <1>7 DEF Deliver, BufferInv, TypeOK
  <2>4. \A i \in DOMAIN seen : SettledAt(stream, seen[i], buf, head, got)
    BY DEF OfferInv, SeenSettled
  <2>5. UNCHANGED <<stream, buf, got>> /\ head' = head
    BY <1>7 DEF Deliver, head
  <2>6. SeenSettled'
    BY <1>2, <2>2, <2>3, <2>4, <2>5 DEF SeenSettled
  <2>7. \A i \in DOMAIN seen : head = seen[i] \/ FrameEnd(stream, seen[i]) <= head
    BY <2>4 DEF SettledAt
  <2>8. OfferedInOrder'
    <3>1. OfferedInOrder
      BY DEF OfferInv
    <3> SUFFICES ASSUME NEW i \in DOMAIN seen', NEW j \in DOMAIN seen', i < j
                 PROVE  \/ seen'[j] = seen'[i]
                        \/ FrameEnd(stream, seen'[i]) <= seen'[j]
      BY <2>5 DEF OfferedInOrder
    <3>2. i \in DOMAIN seen /\ seen'[i] = seen[i]
      BY <2>3
    <3>3. CASE j \in DOMAIN seen
      <4>1. seen'[j] = seen[j]
        BY <2>3, <3>3
      <4>2. QED
        BY <3>1, <3>2, <3>3, <4>1 DEF OfferedInOrder
    <3>4. CASE j \notin DOMAIN seen
      <4>1. seen'[j] = head
        BY <2>3, <3>4
      <4>2. QED
        BY <2>7, <3>2, <4>1
    <3>5. QED
      BY <3>3, <3>4
  <2>9. QED
    BY <2>6, <2>8
<1>8. ASSUME DecodeFails
      PROVE  SeenSettled' /\ OfferedInOrder'
  <2>1. CASE onDecodeError
    <3>1. len = Len(buf) /\ FrameLen(buf) \in 1..Len(buf)
      BY <1>2, <1>8, FrameLenProperties DEF DecodeFails
    <3>2. Len(DropFront(buf, FrameLen(buf))) = Len(buf) - FrameLen(buf)
      <4>1. FrameLen(buf) \in 0..Len(buf)
        BY <1>2, <3>1
      <4>2. QED
        BY <1>2, <4>1, DropFrontProperties
    <3>3. buf' = DropFront(buf, FrameLen(buf)) /\ UNCHANGED <<stream, got, seen>>
      BY <1>8, <2>1 DEF DecodeFails
    <3>4. head' = head + FrameLen(buf)
      <4>1. head' = got - Len(DropFront(buf, FrameLen(buf)))
        BY <3>3, HeadAfter
      <4>2. \A n \in 1..Len(buf) : got - (Len(buf) - n) = head + n
        BY <1>2
      <4>3. QED
        BY <3>1, <3>2, <4>1, <4>2, Zenon
    <3>5. ~Decodes(SliceFrame(buf))
      BY <1>8 DEF DecodeFails, Window
    <3>6. head + FrameLen(buf) \in Nat /\ head <= head + FrameLen(buf) /\ got <= got
      <4>1. head \in Nat /\ FrameLen(buf) \in Nat /\ got \in Nat
        BY <1>2, <3>1
      <4>2. \A x, y, z \in Nat : x + y \in Nat /\ x <= x + y /\ z <= z
        OBVIOUS
      <4>3. QED
        BY ONLY <4>1, <4>2, Zenon
    <3>7. QED
      BY <1>2, <3>3, <3>4, <3>5, <3>6, SeenSettledStep
  <2>2. CASE ~onDecodeError
    BY <1>3, <1>8, <2>2 DEF DecodeFails
  <2>3. QED
    BY <2>1, <2>2
<1>9. ASSUME pc = "callback", Consume, UNCHANGED <<stream, got, seen>>
      PROVE  SeenSettled' /\ OfferedInOrder'
  <2>1. CASE buf = <<>> /\ len = 0
    <3>1. buf' = buf
      BY <1>2, <1>9, <2>1 DEF DropFront, Consume
    <3>2. QED
      BY <1>3, <1>9, <3>1
  <2>2. CASE ~(buf = <<>> /\ len = 0)
    <3>1. Sliceable(buf) /\ frameLen = FrameLen(buf) /\ len = Len(buf)
      BY <1>1, <1>9, <2>2 DEF BufferInv, PushContext
    <3>2. frameLen \in 1..Len(buf) /\ IsWindow(buf, Len(buf), stream, got)
      BY <1>2, <3>1, FrameLenProperties
    <3>3. Len(DropFront(buf, frameLen)) = Len(buf) - frameLen
      BY <1>2, <3>2, DropFrontProperties
    <3>4. head' = head + frameLen
      <4>1. head' = got - Len(DropFront(buf, frameLen))
        BY <1>9, HeadAfter DEF Consume
      <4>2. QED
        BY <1>2, <3>2, <3>3, <4>1
    <3>5. FrameEnd(stream, head) = head + frameLen
      BY <1>2, <3>1, <3>2, FrameInWindow
    <3>6. /\ head + frameLen \in Nat /\ head <= head + frameLen /\ got <= got
          /\ FrameEnd(stream, head) <= head + frameLen
      BY <1>2, <3>2, <3>5
    <3>7. QED
      BY <1>2, <1>9, <3>4, <3>6, SeenSettledStep DEF Consume
  <2>3. QED
    BY <2>1, <2>2
<1>10. ASSUME ResetInCallback \/ Reset \/ DecodeHandlerResets
      PROVE  SeenSettled' /\ OfferedInOrder'
  <2>1. buf' = <<>> /\ UNCHANGED <<stream, got, seen>>
    BY <1>10 DEF ResetInCallback, Reset, ResetBuffer, DecodeHandlerResets
  <2>2. head' = got
    BY <1>2, <2>1, HeadAfter
  <2>3. \A x : SettledAt(stream, x, buf, head, got) => FrameEnd(stream, x) <= got
    BY <1>2 DEF SettledAt
  <2>4. QED
    BY <1>2, <2>1, <2>2, <2>3, SeenSettledStep
<1>11. SeenSettled' /\ OfferedInOrder'
  <2>1. CASE Receive
    BY <1>4, <1>5, <2>1 DEF Receive
  <2>2. CASE Align \/ Wait
    BY <1>1, <1>2, <1>6, <2>2 DEF Align, Wait, BufferInv, PushContext
  <2>3. CASE LoopExit \/ CallbackThrows \/ DecodeHandlerThrows \/ UNCHANGED vars
    BY <1>3, <2>3 DEF LoopExit, CallbackThrows, DecodeHandlerThrows, vars
  <2>4. CASE CallbackReturns \/ CallbackThrowsBoatConnectError
    BY <1>3, <1>9, <2>4 DEF CallbackReturns, CallbackThrowsBoatConnectError
  <2>5. QED
    BY <1>7, <1>8, <1>10, <2>1, <2>2, <2>3, <2>4, Zenon DEF Next, PushStep, UserFault
<1>12. QED
  BY <1>1, <1>11 DEF OfferInv

LEMMA OfferInvariant == Spec => []OfferInv
<1>1. OfferInv /\ [Next]_vars => OfferInv'
  BY OfferInvStep
<1>2. QED
  BY OfferInvInit, <1>1, PTL DEF Spec

\* onFrame only ever gets a frame whose bytes stand contiguously in what was
\* received and pass every test of decodeFrame.
THEOREM RealFrames == Spec => []OfferedFramesAreReal
<1>1. OfferInv => OfferedFramesAreReal
  <2> SUFFICES ASSUME OfferInv, NEW i \in DOMAIN seen
               PROVE  GoodFrameAt(stream, seen[i]) /\ FrameEnd(stream, seen[i]) <= got
    BY DEF OfferedFramesAreReal
  <2>1. SettledAt(stream, seen[i], buf, head, got) /\ got \in Nat
    BY BufferInvFacts DEF OfferInv, SeenSettled
  <2>2. QED
    BY <2>1 DEF SettledAt
<1>2. QED
  BY OfferInvariant, <1>1, PTL

\* Frames are offered in stream order and never overlap, however listeners
\* throw and reset.
THEOREM InOrder == Spec => []OfferedInOrder
<1>1. OfferInv => OfferedInOrder
  BY DEF OfferInv
<1>2. QED
  BY OfferInvariant, <1>1, PTL

-----------------------------------------------------------------------------
(***************************************************************************)
(* What becomes of the frame at the front of the buffer, step by step.     *)
(***************************************************************************)

\* A buffer with a frame is not empty, and aligning leaves it alone.
LEMMA SliceableFacts ==
  ASSUME NEW b \in Seq(Nat), Sliceable(b)
  PROVE  b # <<>> /\ AlignMagicFront(b) = b
<1>1. Len(b) > 0
  BY LayoutType DEF Sliceable
<1>2. AlignMagicFront(b) = b
  BY AlignedStays DEF Sliceable
<1>3. QED
  BY <1>1, <1>2

\* The only steps that move a frame away from the front, or offer one, are the
\* delivery, the end of onFrame, the report of a decode error, and reset().
LEMMA FrontStep ==
  ASSUME BufferInv, [Next]_vars, Sliceable(buf), ~Reset
  PROVE  \/ head' = head /\ seen' = seen
         \/ Deliver /\ head' = head
         \/ pc = "callback" /\ seen' = seen
         \/ (DecodeFails \/ DecodeHandlerResets) /\ onDecodeError
<1>1. /\ buf \in Seq(Nat) /\ buf # <<>> /\ AlignMagicFront(buf) = buf
      /\ stream \in Seq(Nat) /\ got \in 0..Len(stream) /\ len \in Int
      /\ len = Len(buf)
  BY BufferInvFacts, SliceableFacts
<1>2. ASSUME UNCHANGED <<buf, got, seen>> PROVE head' = head /\ seen' = seen
  BY <1>2 DEF head
<1>3. CASE Receive
  <2>1. PICK n \in 1..(Len(stream) - got) : Push(n) \/ PushThrows(n)
    BY <1>3 DEF Receive
  <2>2. /\ buf' = buf \o SubSeq(stream, got + 1, got + n) /\ got' = got + n
        /\ seen' = seen
    <3>1. len >= 0
      BY <1>1
    <3>2. ~PushThrows(n)
      BY <3>1, <1>1 DEF PushThrows
    <3>3. QED
      BY <2>1, <3>2 DEF Push
  <2>3. \A c : c = buf \o SubSeq(stream, got + 1, got + n) =>
          (got + n) - Len(c) = got - Len(buf)
    BY ONLY <1>1
  <2>4. head' = got' - Len(buf')
    BY DEF head
  <2>5. head' = head
    BY ONLY <2>2, <2>3, <2>4, Zenon DEF head
  <2>6. QED
    BY <2>2, <2>5
<1>4. CASE Align \/ Wait
  BY <1>1, <1>2, <1>4 DEF Align, Wait
<1>5. CASE LoopExit \/ DecodeHandlerThrows \/ UNCHANGED vars
  BY <1>2, <1>5 DEF LoopExit, DecodeHandlerThrows, vars
<1>6. CASE Deliver
  BY <1>6 DEF Deliver, head
<1>7. CASE DecodeFails
  BY <1>2, <1>7 DEF DecodeFails
<1>8. CASE CallbackReturns \/ CallbackThrows \/ CallbackThrowsBoatConnectError
           \/ ResetInCallback
  BY <1>8 DEF CallbackReturns, CallbackThrows, CallbackThrowsBoatConnectError,
              ResetInCallback
<1>9. CASE DecodeHandlerResets
  BY <1>9 DEF DecodeHandlerResets
<1>10. QED
  BY <1>3, <1>4, <1>5, <1>6, <1>7, <1>8, <1>9 DEF Next, PushStep, UserFault

\* While onFrame runs, a frame at the front is the one it got, and it decodes.
FrontOffered ==
  pc = "callback" /\ Sliceable(buf) => \E i \in DOMAIN seen : seen[i] = head

FrontInv == BufferInv /\ FrontOffered

LEMMA CallbackFrontDecodes ==
  ASSUME BufferInv, pc = "callback", Sliceable(buf)
  PROVE  Decodes(Window)
<1>1. buf # <<>>
  BY BufferInvFacts, SliceableFacts
<1>2. QED
  BY <1>1 DEF BufferInv, PushContext

LEMMA FrontInvStep ==
  ASSUME FrontInv, [Next]_vars
  PROVE  FrontInv'
<1>1. BufferInv /\ BufferInv'
  BY BufferInvStep DEF FrontInv
<1>2. FrontOffered'
  <2>1. CASE Deliver
    <3>1. seen' = Append(seen, head) /\ seen \in Seq(Nat) /\ head' = head
      BY <1>1, <2>1 DEF Deliver, BufferInv, TypeOK, head
    <3>2. \A s \in Seq(Nat) : \A x :
            Len(s) + 1 \in DOMAIN Append(s, x) /\ Append(s, x)[Len(s) + 1] = x
      OBVIOUS
    <3>3. \E i \in DOMAIN seen' : seen'[i] = head'
      BY <3>1, <3>2, Zenon
    <3>4. QED
      BY <3>3, Zenon DEF FrontOffered
  <2>2. CASE ResetInCallback
    <3>1. buf' = <<>>
      BY <2>2 DEF ResetInCallback, ResetBuffer
    <3>2. ~Sliceable(<<>>)
      BY LayoutType DEF Sliceable
    <3>3. ~Sliceable(buf)'
      BY <3>1, <3>2
    <3>4. QED
      BY <3>3 DEF FrontOffered
  <2>3. CASE UNCHANGED vars
    BY <2>3 DEF vars, FrontInv, FrontOffered, head
  <2>4. CASE ~Deliver /\ ~ResetInCallback /\ Next
    <3>1. pc' # "callback"
      BY <2>4
      DEF Next, Receive, PushStep, UserFault, Push, PushThrows, Align, LoopExit, Wait,
          DecodeFails, CallbackReturns, Consume, CallbackThrows,
          CallbackThrowsBoatConnectError, DecodeHandlerThrows, DecodeHandlerResets, Reset
    <3>2. QED
      BY <3>1 DEF FrontOffered
  <2>5. QED
    BY <2>1, <2>2, <2>3, <2>4
<1>3. QED
  BY <1>1, <1>2 DEF FrontInv

LEMMA FrontInvariant == Spec => []FrontInv
<1>1. Init => FrontInv
  BY BufferInvInit DEF Init, FrontInv, FrontOffered
<1>2. FrontInv /\ [Next]_vars => FrontInv'
  BY FrontInvStep
<1>3. QED
  BY <1>1, <1>2, PTL DEF Spec

\* A complete good frame at the front of the buffer leaves it only after it was
\* offered, or by a reset(): no chunking, noise or exception loses it.
THEOREM FrontKept == Spec => FrontFrameKept
<1>1. FrontInv /\ [Next]_vars =>
        [Sliceable(buf) /\ Decodes(Window) /\ head' # head
         => Reset \/ \E i \in DOMAIN seen : seen[i] = head]_vars
  <2> SUFFICES ASSUME FrontInv, [Next]_vars, Sliceable(buf), Decodes(Window),
                      head' # head, ~Reset
               PROVE  \E i \in DOMAIN seen : seen[i] = head
    OBVIOUS
  <2>1. pc = "callback" \/ DecodeFails \/ DecodeHandlerResets
    BY FrontStep DEF FrontInv
  <2>2. ~DecodeFails /\ ~DecodeHandlerResets
    BY DEF DecodeFails, DecodeHandlerResets
  <2>3. QED
    BY <2>1, <2>2 DEF FrontInv, FrontOffered
<1>2. QED
  BY FrontInvariant, <1>1, PTL DEF Spec, FrontFrameKept

\* Without onDecodeError a frame that does not decode stays at the front, and nothing
\* is offered behind it, whatever is pushed and thrown, until a reset().
THEOREM BadFrameStops == Spec => StopsAtBadFrame
<1>1. BufferInv /\ [Next]_vars =>
        [~onDecodeError /\ Sliceable(buf) /\ ~Decodes(Window)
         => Reset \/ (head' = head /\ seen' = seen)]_vars
  <2> SUFFICES ASSUME BufferInv, [Next]_vars, ~onDecodeError, Sliceable(buf),
                      ~Decodes(Window), ~Reset
               PROVE  head' = head /\ seen' = seen
    OBVIOUS
  <2>1. ~Deliver
    BY DEF Deliver
  <2>2. pc # "callback"
    BY CallbackFrontDecodes
  <2>3. QED
    BY <2>1, <2>2, FrontStep
<1>2. QED
  BY BufferInvariant, <1>1, PTL DEF Spec, StopsAtBadFrame

-----------------------------------------------------------------------------
(***************************************************************************)
(* Streams of frames.                                                      *)
(***************************************************************************)

\* The good frames of the framing C of s that start before h.
GoodBefore(s, C, h) == {c \in C \ {Len(s)} : c < h /\ GoodFrameAt(s, c)}

\* A frame that was received in full is sliceable in the buffer that starts with it.
LEMMA ReceivedIsSliceable ==
  ASSUME NEW s \in Seq(Nat), NEW g \in 0..Len(s), NEW b \in Seq(Nat),
         IsWindow(b, Len(b), s, g), NEW c, c = g - Len(b),
         Sliceable(Suffix(s, c)), FrameEnd(s, c) <= g
  PROVE  Sliceable(b)
<1> DEFINE t == Suffix(s, c)
<1>1. c \in 0..g /\ b = SubSeq(s, c + 1, g)
  BY DEF IsWindow
<1>2. t \in Seq(Nat) /\ Len(t) = Len(s) - c /\ Len(b) <= Len(t)
  BY <1>1 DEF Suffix
<1>3. \A i \in 1..Len(b) : b[i] = t[i]
  <2> TAKE i \in 1..Len(b)
  <2>1. /\ c \in 0..Len(s) /\ Len(s) \in 0..Len(s)
        /\ i \in 1..(g - c) /\ i \in 1..(Len(s) - c)
    BY <1>1
  <2>2. SubSeq(s, c + 1, g)[i] = s[c + i]
    BY <1>1, <2>1, WindowElement
  <2>3. SubSeq(s, c + 1, Len(s))[i] = s[c + i]
    BY <1>1, <2>1, WindowElement
  <2>4. QED
    BY <1>1, <2>2, <2>3, Zenon DEF Suffix
<1>4. FrameLen(t) \in 1..Len(t) /\ FrameLen(t) <= Len(b)
  <2>1. FrameLen(t) \in 1..Len(t)
    BY <1>2, FrameLenProperties
  <2>2. c + FrameLen(t) <= g
    BY DEF FrameEnd
  <2>3. QED
    BY <1>1, <2>1, <2>2
<1> HIDE DEF t
<1>5. PayloadLen(t) \in Nat /\ Len(t) >= FrameHeaderSize
  BY <1>2, LayoutType DEF t, Sliceable, PayloadLen
<1>6. Len(b) >= FrameHeaderSize + CrcSize
  BY <1>4, <1>5, LayoutType DEF FrameLen, EndPayload
<1>7. PayloadLen(b) = PayloadLen(t)
  BY <1>3, <1>6, LayoutType DEF PayloadLen
<1>8. MagicAt(t, 0) /\ PayloadLen(t) <= MaxPayload
  BY DEF t, Sliceable
<1>9. MagicAt(b, 0)
  BY <1>3, <1>6, <1>8, LayoutType DEF MagicAt
<1>10. FrameLen(b) = FrameLen(t)
  BY <1>7 DEF FrameLen, EndPayload
<1>11. QED
  BY <1>4, <1>6, <1>7, <1>8, <1>9, <1>10 DEF Sliceable

\* A buffer that starts where a frame of the framing does needs no aligning.
LEMMA FramedIsAligned ==
  ASSUME NEW s \in Seq(Nat), NEW C, IsFraming(s, C),
         NEW g \in 0..Len(s), NEW b \in Seq(Nat), IsWindow(b, Len(b), s, g),
         NEW c \in C, c = g - Len(b)
  PROVE  AlignShift(b) = 0 /\ AlignMagicFront(b) = b
<1>1. c \in 0..g /\ b = SubSeq(s, c + 1, g) /\ Len(b) \in Nat
  BY DEF IsWindow
<1>2. CASE Len(b) < MagicLen
  <2>1. AlignShift(b) = 0
    BY <1>2 DEF AlignShift
  <2>2. QED
    BY <2>1 DEF AlignMagicFront, DropFront
<1>3. CASE Len(b) >= MagicLen
  <2>1. c < Len(s)
    BY <1>1, <1>3, LayoutType
  <2>2. MagicAt(Suffix(s, c), 0)
    BY <2>1 DEF IsFraming, Sliceable
  <2>3. \A i \in 1..Len(b) : b[i] = Suffix(s, c)[i]
    <3> TAKE i \in 1..Len(b)
    <3>1. /\ c \in 0..Len(s) /\ Len(s) \in 0..Len(s)
          /\ i \in 1..(g - c) /\ i \in 1..(Len(s) - c)
      BY <1>1
    <3>2. SubSeq(s, c + 1, g)[i] = s[c + i]
      BY <1>1, <3>1, WindowElement
    <3>3. SubSeq(s, c + 1, Len(s))[i] = s[c + i]
      BY <1>1, <3>1, WindowElement
    <3>4. QED
      BY <1>1, <3>2, <3>3, Zenon DEF Suffix
  <2>4. MagicAt(b, 0)
    BY <1>3, <2>2, <2>3, LayoutType DEF MagicAt
  <2>5. QED
    BY <2>4, AlignedStays
<1>4. QED
  BY <1>1, <1>2, <1>3, LayoutType

\* After a frame of the framing comes the next one, and between them there is none.
LEMMA NextOfFraming ==
  ASSUME NEW s \in Seq(Nat), NEW C, IsFraming(s, C), NEW c \in C, c < Len(s)
  PROVE  /\ FrameEnd(s, c) \in C /\ FrameEnd(s, c) > c
         /\ GoodBefore(s, C, FrameEnd(s, c))
              = GoodBefore(s, C, c) \cup (IF GoodFrameAt(s, c) THEN {c} ELSE {})
<1>1. c \in 0..Len(s) /\ Sliceable(Suffix(s, c)) /\ FrameEnd(s, c) \in C
      /\ \A d \in C : d <= c \/ d >= FrameEnd(s, c)
  BY DEF IsFraming
<1>2. Suffix(s, c) \in Seq(Nat)
  BY <1>1 DEF Suffix
<1>3. FrameLen(Suffix(s, c)) \in Nat \ {0}
  BY <1>1, <1>2, FrameLenProperties
<1>4. FrameEnd(s, c) > c
  BY <1>1, <1>3 DEF FrameEnd
<1>5. C \subseteq 0..Len(s) /\ FrameEnd(s, c) \in 0..Len(s) /\ c # Len(s)
  <2>1. C \subseteq 0..Len(s)
    BY DEF IsFraming
  <2>2. c # Len(s)
    BY <1>1
  <2>3. QED
    BY <1>1, <2>1, <2>2
<1>6. \A d \in C : d < FrameEnd(s, c) <=> (d < c \/ d = c)
  BY <1>1, <1>4, <1>5
<1> DEFINE Good == {d \in C \ {Len(s)} : GoodFrameAt(s, d)}
<1>7. \A h : GoodBefore(s, C, h) = {d \in Good : d < h}
  BY DEF GoodBefore
<1>8. c \in Good <=> GoodFrameAt(s, c)
  BY <1>5
<1>9. \A d \in Good : d \in C
  OBVIOUS
<1> HIDE DEF Good
<1>10. {d \in Good : d < FrameEnd(s, c)}
         = {d \in Good : d < c} \cup (IF c \in Good THEN {c} ELSE {})
  BY <1>6, <1>9
<1>11. QED
  BY <1>1, <1>4, <1>7, <1>8, <1>10

-----------------------------------------------------------------------------
(***************************************************************************)
(* The invariant of such a stream.                                         *)
(***************************************************************************)

\* On a stream of frames, as long as no user code misbehaves.
Clean == onDecodeError /\ faults = 0 /\ IsFraming(stream, FrameStarts(stream))

Offered == {seen[i] : i \in DOMAIN seen}

Ascending(q) == \A i, j \in DOMAIN q : i < j => q[i] < q[j]

\* The buffer starts at a frame of the framing, and the good frames before it, with the
\* one that onFrame has, are those that were offered.
AtFrame ==
  /\ len = Len(buf) /\ head \in FrameStarts(stream)
  /\ pc = "callback" => Sliceable(buf) /\ Decodes(Window) /\ frameLen = FrameLen(buf)
  /\ pc = "idle" => ~Sliceable(buf)
  /\ Offered = GoodBefore(stream, FrameStarts(stream), head)
                 \cup (IF pc = "callback" THEN {head} ELSE {})
  /\ Ascending(seen)

CleanInv == BufferInv /\ (Clean => AtFrame)

\* What CleanInv says of a frame that was cut from the buffer.
LEMMA FrontOfFraming ==
  ASSUME BufferInv, Clean, AtFrame, Sliceable(buf)
  PROVE  /\ head < Len(stream)
         /\ head + FrameLen(buf) = FrameEnd(stream, head)
         /\ GoodFrameAt(stream, head) <=> Decodes(Window)
         /\ FrameLen(buf) \in 1..Len(buf)
<1>1. /\ stream \in Seq(Nat) /\ got \in 0..Len(stream) /\ buf \in Seq(Nat)
      /\ IsWindow(buf, Len(buf), stream, got)
  BY BufferInvFacts DEF AtFrame
<1>2. /\ Sliceable(Suffix(stream, head))
      /\ SliceFrame(Suffix(stream, head)) = SliceFrame(buf)
      /\ FrameEnd(stream, head) = head + FrameLen(buf)
  BY <1>1, FrameInWindow DEF head
<1>3. FrameLen(buf) \in 1..Len(buf)
  BY <1>1, FrameLenProperties
<1>4. head < Len(stream)
  BY <1>1, <1>3 DEF head
<1>5. QED
  BY <1>2, <1>3, <1>4 DEF GoodFrameAt, Window

\* Appending a larger number keeps a sequence ascending.
LEMMA AppendAscending ==
  ASSUME NEW q \in Seq(Nat), Ascending(q), NEW h \in Nat, \A i \in DOMAIN q : q[i] < h
  PROVE  /\ Ascending(Append(q, h))
         /\ {Append(q, h)[i] : i \in DOMAIN Append(q, h)} = {q[i] : i \in DOMAIN q} \cup {h}
<1> DEFINE r == Append(q, h)
<1>1. /\ Len(q) \in Nat /\ DOMAIN q = 1..Len(q) /\ DOMAIN r = 1..(Len(q) + 1)
      /\ r[Len(q) + 1] = h /\ \A i \in 1..Len(q) : r[i] = q[i]
  OBVIOUS
<1> HIDE DEF r
<1>2. \A i \in DOMAIN r : (i \in DOMAIN q /\ r[i] = q[i]) \/ (i = Len(q) + 1 /\ r[i] = h)
  BY <1>1
<1>3. Ascending(r)
  BY <1>1, <1>2 DEF Ascending
<1>4. \A i \in DOMAIN q : i \in DOMAIN r
  BY <1>1
<1>5. Len(q) + 1 \in DOMAIN r
  BY <1>1
<1>6. {r[i] : i \in DOMAIN r} = {q[i] : i \in DOMAIN q} \cup {h}
  BY <1>1, <1>2, <1>4, <1>5
<1>7. QED
  BY <1>3, <1>6 DEF r

LEMMA CleanInvInit == Init => CleanInv
<1> SUFFICES ASSUME Init, Clean PROVE AtFrame
  BY BufferInvInit DEF CleanInv
<1>1. buf = <<>> /\ len = 0 /\ seen = <<>> /\ pc = "idle" /\ got = 0
  BY DEF Init
<1>2. head = 0
  <2>1. Len(<<>>) = 0
    OBVIOUS
  <2>2. head = 0 - 0
    BY <1>1, <2>1, Zenon DEF head
  <2>3. QED
    BY <2>2
<1>3. ~Sliceable(<<>>)
  BY LayoutType DEF Sliceable
<1>4. FrameStarts(stream) \subseteq Nat /\ 0 \in FrameStarts(stream)
  BY DEF Clean, IsFraming
<1>5. GoodBefore(stream, FrameStarts(stream), 0) = {}
  BY <1>4 DEF GoodBefore
<1>6. Offered = {}
  BY <1>1 DEF Offered
<1>7. QED
  BY <1>1, <1>2, <1>3, <1>4, <1>5, <1>6 DEF AtFrame, Ascending

\* A step that leaves the buffer, the history and the stream alone.
LEMMA CleanStands ==
  ASSUME AtFrame, UNCHANGED <<buf, len, got, stream, seen>>,
         pc # "callback", pc' # "callback", pc' = "idle" => ~Sliceable(buf)
  PROVE  AtFrame'
BY DEF AtFrame, head, Offered, Ascending

\* A frame leaves the front of the buffer.
LEMMA CleanConsumes ==
  ASSUME BufferInv, Clean, AtFrame, Sliceable(buf),
         pc = "callback" <=> Decodes(Window),
         buf' = DropFront(buf, FrameLen(buf)), len' = len - FrameLen(buf), pc' = "loop",
         UNCHANGED <<got, stream, seen>>
  PROVE  AtFrame'
<1> DEFINE C == FrameStarts(stream)
           n == FrameLen(buf)
<1>1. /\ head < Len(stream) /\ head + n = FrameEnd(stream, head)
      /\ GoodFrameAt(stream, head) <=> Decodes(Window)
      /\ n \in 1..Len(buf)
  BY FrontOfFraming
<1>2. stream \in Seq(Nat) /\ got \in 0..Len(stream) /\ buf \in Seq(Nat)
  BY BufferInvFacts
<1>3. IsFraming(stream, C) /\ head \in C
  BY DEF Clean, AtFrame
<1>4. /\ FrameEnd(stream, head) \in C
      /\ GoodBefore(stream, C, FrameEnd(stream, head))
           = GoodBefore(stream, C, head) \cup (IF GoodFrameAt(stream, head) THEN {head} ELSE {})
  BY <1>1, <1>2, <1>3, NextOfFraming
<1>5. Len(DropFront(buf, n)) = Len(buf) - n
  BY <1>1, <1>2, DropFrontProperties
<1>6. got - Len(DropFront(buf, n)) = FrameEnd(stream, head)
  <2>1. got - Len(DropFront(buf, n)) = (got - Len(buf)) + n
    BY <1>1, <1>2, <1>5
  <2>2. QED
    BY <1>1, <2>1 DEF head
<1>7. head' = FrameEnd(stream, head)
  <2>1. head' = got - Len(DropFront(buf, n))
    BY HeadAfter
  <2>2. QED
    BY <1>6, <2>1
<1>8. Offered = GoodBefore(stream, C, head) \cup (IF pc = "callback" THEN {head} ELSE {})
  BY DEF AtFrame
<1>9. Offered = GoodBefore(stream, C, FrameEnd(stream, head))
  BY <1>1, <1>4, <1>8
<1>10. Offered' = Offered /\ Ascending(seen)' /\ stream' = stream
  BY DEF Offered, AtFrame, Ascending
<1>11. len' = Len(buf')
  BY <1>5 DEF AtFrame
<1> HIDE DEF C, n
<1>12. Offered' = GoodBefore(stream', FrameStarts(stream'), head')
  BY <1>7, <1>9, <1>10 DEF C
<1>13. head' \in FrameStarts(stream')
  BY <1>4, <1>7, <1>10 DEF C
<1>14. QED
  BY <1>10, <1>11, <1>12, <1>13 DEF AtFrame

LEMMA CleanDelivers ==
  ASSUME BufferInv, Clean, AtFrame, Deliver
  PROVE  AtFrame'
<1> DEFINE C == FrameStarts(stream)
<1>1. pc = "loop" /\ Sliceable(buf) /\ Decodes(Window) /\ seen' = Append(seen, head)
      /\ frameLen' = FrameLen(buf) /\ pc' = "callback"
      /\ UNCHANGED <<buf, len, stream, got>>
  BY DEF Deliver
<1>2. Offered = GoodBefore(stream, C, head)
  BY <1>1 DEF AtFrame
<1>3. C \subseteq Nat /\ head \in C /\ seen \in Seq(Nat) /\ Ascending(seen)
  BY DEF Clean, IsFraming, AtFrame, BufferInv, TypeOK
<1>4. \A i \in DOMAIN seen : seen[i] < head
  BY <1>2 DEF Offered, GoodBefore
<1> DEFINE q == Append(seen, head)
<1>5. Ascending(q) /\ {q[i] : i \in DOMAIN q} = Offered \cup {head}
  BY <1>3, <1>4, AppendAscending DEF Offered
<1>6. seen' = q /\ head' = head
  BY <1>1 DEF head
<1> HIDE DEF C, q
<1>7. Offered' = Offered \cup {head}
  BY <1>5, <1>6 DEF Offered
<1>8. Ascending(seen)'
  BY <1>5, <1>6 DEF Ascending
<1>9. Offered' = GoodBefore(stream', FrameStarts(stream'), head') \cup {head'}
  BY <1>1, <1>2, <1>6, <1>7 DEF C
<1>10. /\ len' = Len(buf') /\ head' \in FrameStarts(stream')
       /\ Sliceable(buf)' /\ Decodes(Window)' /\ frameLen' = FrameLen(buf')
  BY <1>1, <1>6 DEF AtFrame, Window
<1>11. QED
  BY <1>1, <1>8, <1>9, <1>10 DEF AtFrame

LEMMA CleanReceives ==
  ASSUME BufferInv, Clean, AtFrame, Receive
  PROVE  AtFrame'
<1>1. /\ stream \in Seq(Nat) /\ got \in 0..Len(stream) /\ buf \in Seq(Nat)
      /\ len = Len(buf) /\ IsWindow(buf, Len(buf), stream, got)
  BY BufferInvFacts DEF AtFrame
<1>2. PICK n \in 1..(Len(stream) - got) : Push(n) \/ PushThrows(n)
  BY DEF Receive
<1>3. Push(n)
  BY <1>1, <1>2 DEF PushThrows
<1> DEFINE c == buf \o SubSeq(stream, got + 1, got + n)
<1>4. /\ buf' = c /\ got' = got + n /\ len' = len + n
      /\ pc = "idle" /\ pc' = "align" /\ UNCHANGED <<stream, seen>>
  BY <1>3 DEF Push
<1>5. Len(c) = Len(buf) + n
  BY <1>1, PushKeepsWindow
<1> HIDE DEF c
<1>6. (got + n) - Len(c) = got - Len(buf)
  BY <1>1, <1>5
<1>7. head' = head
  <2>1. head' = (got + n) - Len(c)
    BY <1>4, HeadAfter
  <2>2. QED
    BY <1>6, <2>1 DEF head
<1>8. len' = Len(buf')
  BY <1>1, <1>4, <1>5
<1>9. QED
  BY <1>4, <1>7, <1>8 DEF AtFrame, Offered, Ascending

LEMMA CleanInvStep ==
  ASSUME CleanInv, [Next]_vars
  PROVE  CleanInv'
<1>1. BufferInv /\ BufferInv'
  BY BufferInvStep DEF CleanInv
<1> SUFFICES ASSUME Clean' PROVE AtFrame'
  BY <1>1 DEF CleanInv
<1>2. stream' = stream /\ onDecodeError' = onDecodeError
  BY DEF Next, Receive, Push, PushThrows, PushStep, Align, LoopExit, Wait, Deliver, DecodeFails,
         CallbackReturns, UserFault, CallbackThrows, CallbackThrowsBoatConnectError,
         DecodeHandlerThrows, DecodeHandlerResets, ResetInCallback, Reset, vars
<1>3. ~UserFault
  <2>1. faults \in Nat /\ faults' = 0
    BY <1>1 DEF BufferInv, TypeOK, Clean
  <2>2. ~(faults' = faults + 1)
    BY <2>1
  <2>3. QED
    BY <2>2 DEF UserFault, CallbackThrows, CallbackThrowsBoatConnectError,
                DecodeHandlerThrows, DecodeHandlerResets, ResetInCallback, Reset, Misbehaves
<1>4. faults' = faults
  BY <1>3 DEF Next, Receive, Push, PushThrows, PushStep, Align, LoopExit, Wait, Deliver,
              DecodeFails, CallbackReturns, vars
<1>5. Clean /\ AtFrame
  BY <1>2, <1>4 DEF CleanInv, Clean
<1>6. /\ stream \in Seq(Nat) /\ got \in 0..Len(stream) /\ buf \in Seq(Nat)
      /\ len = Len(buf) /\ IsWindow(buf, Len(buf), stream, got)
  BY <1>1, <1>5, BufferInvFacts DEF AtFrame
<1>7. AlignShift(buf) = 0 /\ AlignMagicFront(buf) = buf
  BY <1>5, <1>6, FramedIsAligned DEF Clean, AtFrame, head
<1>8. CASE Receive
  BY <1>1, <1>5, <1>8, CleanReceives
<1>9. CASE Align \/ Wait
  BY <1>5, <1>6, <1>7, <1>9, CleanStands DEF Align, Wait
<1>10. CASE LoopExit
  <2>1. ~Sliceable(buf)
    BY <1>6, <1>10, LayoutType DEF LoopExit, Sliceable
  <2>2. QED
    BY <1>5, <1>10, <2>1, CleanStands DEF LoopExit
<1>11. CASE Deliver
  BY <1>1, <1>5, <1>11, CleanDelivers
<1>12. CASE DecodeFails
  BY <1>1, <1>5, <1>12, CleanConsumes DEF DecodeFails, Clean
<1>13. CASE CallbackReturns
  BY <1>1, <1>5, <1>13, CleanConsumes DEF CallbackReturns, Consume, AtFrame
<1>14. CASE UNCHANGED vars
  BY <1>5, <1>14 DEF vars, AtFrame, head, Offered, Ascending, Window
<1>15. QED
  BY <1>3, <1>8, <1>9, <1>10, <1>11, <1>12, <1>13, <1>14 DEF Next, PushStep

\* When push() has returned, the good frames before the buffer are the complete ones.
LEMMA CleanInvExact ==
  ASSUME CleanInv
  PROVE  CleanStreamExact
<1> SUFFICES ASSUME Clean, pc = "idle"
             PROVE  /\ Offered = CompleteGoodFrames /\ Ascending(seen) /\ ~Sliceable(buf)
  BY DEF CleanStreamExact, Clean, Offered, Ascending
<1> DEFINE C == FrameStarts(stream)
<1>1. AtFrame /\ BufferInv
  BY DEF CleanInv
<1>2. /\ stream \in Seq(Nat) /\ got \in 0..Len(stream) /\ buf \in Seq(Nat)
      /\ len = Len(buf) /\ IsWindow(buf, Len(buf), stream, got) /\ head \in 0..got
  BY <1>1, BufferInvFacts DEF AtFrame, IsWindow, head
<1>3. IsFraming(stream, C) /\ head \in C /\ ~Sliceable(buf)
      /\ Offered = GoodBefore(stream, C, head) /\ Ascending(seen)
  BY <1>1 DEF AtFrame, Clean
<1>4. C \subseteq 0..Len(stream) /\ \A c \in C \ {Len(stream)} :
          Sliceable(Suffix(stream, c)) /\ \A d \in C : d <= c \/ d >= FrameEnd(stream, c)
  BY <1>3 DEF IsFraming
<1>5. \A c \in C \ {Len(stream)} : FrameEnd(stream, c) \in C /\ FrameEnd(stream, c) > c
  BY <1>2, <1>3, <1>4, NextOfFraming
<1>6. \A c \in C : c \in Nat
  BY <1>2, <1>4
<1>7. head # Len(stream) => FrameEnd(stream, head) > got
  <2> SUFFICES ASSUME head # Len(stream), FrameEnd(stream, head) <= got PROVE FALSE
    <3>1. head # Len(stream) => FrameEnd(stream, head) \in Nat
      BY <1>3, <1>5, <1>6
    <3>2. QED
      BY <1>2, <3>1
  <2>1. Sliceable(Suffix(stream, head))
    BY <1>3, <1>4
  <2>2. QED
    BY <1>2, <1>3, <2>1, ReceivedIsSliceable DEF head
<1> HIDE DEF C
<1>8. ASSUME NEW c \in C \ {Len(stream)}
      PROVE  c < head <=> FrameEnd(stream, c) <= got
  <2>1. c \in Nat /\ c <= Len(stream) /\ FrameEnd(stream, c) \in Nat
    <3>1. FrameEnd(stream, c) \in C
      BY <1>5
    <3>2. c \in 0..Len(stream) /\ FrameEnd(stream, c) \in Nat
      BY <1>4, <1>6, <3>1
    <3>3. QED
      BY <1>2, <3>2
  <2>2. c < head => FrameEnd(stream, c) <= got
    BY <1>2, <1>3, <1>4, <2>1
  <2>3. ASSUME c >= head PROVE FrameEnd(stream, c) > got
    <3>1. head # Len(stream)
      BY <1>2, <2>1, <2>3
    <3>2. FrameEnd(stream, head) > got /\ FrameEnd(stream, head) \in Nat
      <4>1. FrameEnd(stream, head) \in C
        BY <1>3, <1>5, <3>1
      <4>2. QED
        BY <1>7, <1>6, <3>1, <4>1
    <3>3. c = head \/ c >= FrameEnd(stream, head)
      BY <1>2, <1>3, <1>4, <2>1, <2>3, <3>1
    <3>4. FrameEnd(stream, c) > c
      BY <1>5
    <3>5. QED
      BY <1>2, <2>1, <3>2, <3>3, <3>4
  <2>4. QED
    BY <1>2, <2>1, <2>2, <2>3
<1>9. GoodBefore(stream, C, head) = CompleteGoodFrames
  BY <1>8 DEF GoodBefore, CompleteGoodFrames, C
<1>10. QED
  BY <1>3, <1>9

\* On a stream of frames without noise between them, whatever the chunks, onFrame gets
\* exactly the good frames that were received in full, each once and in order.
THEOREM CleanStreamsExact == Spec => []CleanStreamExact
<1>1. CleanInv /\ [Next]_vars => CleanInv'
  BY CleanInvStep
<1>2. CleanInv => CleanStreamExact
  BY CleanInvExact
<1>3. QED
  BY CleanInvInit, <1>1, <1>2, PTL DEF Spec

-----------------------------------------------------------------------------
(***************************************************************************)
(* FrameParser implements FrameReassembly: each step of the parser and of  *)
(* its user is a step of the specification or leaves its variables         *)
(* unchanged.                                                              *)
(***************************************************************************)

\* The instance reads bytes with the same operators.
LEMMA SameReading ==
  ASSUME NEW b
  PROVE  /\ Reassembly!Sliceable(b) <=> Sliceable(b)
         /\ Reassembly!Decodes(Reassembly!SliceFrame(b)) <=> Decodes(SliceFrame(b))
         /\ Reassembly!FrameLen(b) = FrameLen(b)
         /\ Reassembly!MagicLen = MagicLen
         /\ \A i : Reassembly!MagicAt(b, i) <=> MagicAt(b, i)
<1> USE DEF MagicLen, Reassembly!MagicLen, FrameHeaderSize, Reassembly!FrameHeaderSize,
            CrcSize, Reassembly!CrcSize, PayloadLen, Reassembly!PayloadLen,
            EndPayload, Reassembly!EndPayload, MagicAt, Reassembly!MagicAt
<1>1. Reassembly!FrameLen(b) = FrameLen(b)
  BY Zenon DEF FrameLen, Reassembly!FrameLen
<1>2. Reassembly!Sliceable(b) <=> Sliceable(b)
  BY <1>1, Zenon DEF Sliceable, Reassembly!Sliceable
<1>3. Reassembly!SliceFrame(b) = SliceFrame(b)
  BY <1>1, Zenon DEF SliceFrame, Reassembly!SliceFrame
<1>4. \A c : Reassembly!DecodeResult(c) = DecodeResult(c)
  <2> SUFFICES ASSUME NEW c PROVE Reassembly!DecodeResult(c) = DecodeResult(c)
    OBVIOUS
  <2>1. QED
    BY Zenon DEF DecodeResult, Reassembly!DecodeResult, Version, Reassembly!Version,
       ProtocolVersion, Reassembly!ProtocolVersion, FrameLen, Reassembly!FrameLen,
       PayloadFault, Reassembly!PayloadFault, MsgType, Reassembly!MsgType,
       Heartbeat, Reassembly!Heartbeat, TelemetrySummary, Reassembly!TelemetrySummary
<1>5. QED
  BY <1>1, <1>2, <1>3, <1>4, Zenon DEF Decodes, Reassembly!Decodes

\* The frame that FrameReassembly sees with the consumer.
WithConsumer == pc = "callback" /\ buf # <<>>

\* What FrameReassembly calls unusable.
Unusable == len < 0 \/ (pc = "callback" /\ buf = <<>>)

\* The bytes pending in FrameReassembly are the buffer.
LEMMA PendingIsBuffer ==
  ASSUME BufferInv
  PROVE  /\ Reassembly!Pending = buf
         /\ stream \in Seq(Nat) /\ got \in 0..Len(stream) /\ buf \in Seq(Nat)
         /\ len \in Int /\ frameLen \in Nat
         /\ len = Len(buf) \/ (len < 0 /\ buf = <<>>)
         /\ head \in 0..got /\ head = got - Len(buf)
         /\ WithConsumer => /\ Sliceable(buf) /\ frameLen = FrameLen(buf)
                       /\ frameLen \in 1..Len(buf)
<1>1. Reassembly!Pending = buf
  BY DEF BufferInv, BufferIsStreamWindow, Reassembly!Pending
<1>2. WithConsumer => Sliceable(buf) /\ frameLen = FrameLen(buf) /\ frameLen \in 1..Len(buf)
  BY BufferInvFacts, FrameLenProperties DEF BufferInv, PushContext, WithConsumer
<1>3. QED
  BY <1>1, <1>2, BufferInvFacts DEF IsWindow, head

\* Where the front is after n cells were removed from it.
LEMMA HeadAfterDrop ==
  ASSUME BufferInv, NEW n \in 0..Len(buf), buf' = DropFront(buf, n), got' = got
  PROVE  head' = head + n
<1>1. head' = got - Len(DropFront(buf, n))
  BY HeadAfter
<1>2. Len(DropFront(buf, n)) = Len(buf) - n
  BY PendingIsBuffer, DropFrontProperties
<1>3. \A m \in 0..Len(buf) : got - (Len(buf) - m) = head + m
  BY PendingIsBuffer
<1>4. QED
  BY <1>1, <1>2, <1>3, Zenon

-----------------------------------------------------------------------------
(***************************************************************************)
(* The actions, one or several with the same effect at a time.             *)
(***************************************************************************)

LEMMA ReceiveImplements ==
  ASSUME BufferInv, BufferInv', Receive
  PROVE  Reassembly!Receive \/ Reassembly!Lose
<1>1. PICK n \in 1..(Len(stream) - got) : Push(n) \/ PushThrows(n)
  BY DEF Receive
<1>2. /\ got + n \in (got + 1)..Len(stream) /\ got + n \in got..Len(stream)
      /\ Len(SubSeq(stream, got + 1, got + n)) = n
  <2>1. stream \in Seq(Nat) /\ got \in 0..Len(stream)
    BY PendingIsBuffer
  <2>2. QED
    BY <2>1
<1>3. CASE Push(n)
  <2> DEFINE c == buf \o SubSeq(stream, got + 1, got + n)
  <2>1. Len(c) = Len(buf) + n
    <3>1. stream \in Seq(Nat) /\ got \in 0..Len(stream) /\ buf \in Seq(Nat)
      BY PendingIsBuffer
    <3>2. SubSeq(stream, got + 1, got + n) \in Seq(Nat)
      BY <3>1
    <3>3. QED
      BY <1>2, <3>1, <3>2
  <2>2. (got + n) - Len(c) = head
    <3>1. Len(buf) \in Nat /\ got \in Nat /\ Len(c) = Len(buf) + n
      <4>1. stream \in Seq(Nat) /\ got \in 0..Len(stream) /\ buf \in Seq(Nat)
        BY PendingIsBuffer
      <4>2. Len(buf) \in Nat /\ got \in Nat
        BY ONLY <4>1
      <4>3. QED
        BY ONLY <2>1, <4>2, Zenon
    <3>2. head = got - Len(buf)
      BY DEF head
    <3> HIDE DEF c
    <3>3. QED
      BY ONLY <3>1, <3>2, n \in 1..(Len(stream) - got)
  <2>3. buf' = c /\ got' = got + n /\ UNCHANGED <<stream, seen>>
    BY <1>3 DEF Push
  <2> HIDE DEF c
  <2>4. head' = head
    BY <2>2, <2>3, HeadAfter
  <2>5. ~WithConsumer /\ ~WithConsumer' /\ ~Unusable /\ ~Unusable' /\ faults' = faults
    <3>1. n \in Nat /\ len \in Int
      BY <1>2, PendingIsBuffer
    <3>2. len >= 0 /\ len' = len + n /\ pc # "callback" /\ pc' # "callback" /\ faults' = faults
      BY <1>3 DEF Push
    <3>3. QED
      BY <3>1, <3>2 DEF WithConsumer, Unusable
  <2>6. QED
    BY <1>2, <2>3, <2>4, <2>5
    DEF Reassembly!Receive, Reassembly!user, WithConsumer, Unusable
<1>4. CASE PushThrows(n)
  <2>1. buf = <<>> /\ buf' = <<>> /\ got' = got + n /\ UNCHANGED <<stream, seen, pc>>
    BY <1>4, PendingIsBuffer DEF PushThrows
  <2>2. head' = got'
    <3>1. head' = (got + n) - Len(<<>>)
      BY <2>1, HeadAfter
    <3>2. (got + n) - Len(<<>>) = got + n
      BY PendingIsBuffer
    <3>3. QED
      BY <2>1, <3>1, <3>2
  <2>3. ~WithConsumer /\ ~WithConsumer' /\ Unusable /\ Unusable' /\ faults' = faults
    BY <1>4, <2>1 DEF PushThrows, WithConsumer, Unusable
  <2>4. head = got
    BY <2>1, PendingIsBuffer
  <2>5. QED
    BY <1>2, <2>1, <2>2, <2>3, <2>4
    DEF Reassembly!Lose, Reassembly!user, WithConsumer, Unusable
<1>5. QED
  BY <1>1, <1>3, <1>4

\* alignMagicFront drops noise only, or nothing.
LEMMA AlignImplements ==
  ASSUME BufferInv, pc # "callback", pc' # "callback", len >= 0,
         buf' = AlignMagicFront(buf), len' = len - AlignShift(buf),
         UNCHANGED <<stream, got, seen, faults>>
  PROVE  Reassembly!DropNoise \/ UNCHANGED Reassembly!vars
<1> DEFINE n == AlignShift(buf)
<1>1. /\ n \in 0..Len(buf)
      /\ \A i \in 0..(n - 1) : i + MagicLen <= Len(buf) /\ ~MagicAt(buf, i)
  BY PendingIsBuffer, AlignShiftProperties
<1>2. head' = head + n
  BY <1>1, HeadAfterDrop DEF AlignMagicFront
<1>3. ~WithConsumer /\ ~WithConsumer' /\ ~Unusable /\ ~Unusable'
  BY <1>1, PendingIsBuffer DEF WithConsumer, Unusable
<1>4. CASE n = 0
  <2>1. head' = head
    BY <1>2, <1>4, PendingIsBuffer
  <2>2. QED
    BY <1>3, <2>1 DEF Reassembly!vars, Reassembly!user, WithConsumer, Unusable
<1>5. CASE n # 0
  <2>1. n \in 1..Len(buf)
    BY <1>1, <1>5, PendingIsBuffer
  <2>2. /\ n \in 1..Len(Reassembly!Pending)
        /\ \A i \in 0..(n - 1) : /\ i + Reassembly!MagicLen <= Len(Reassembly!Pending)
                                 /\ ~Reassembly!MagicAt(Reassembly!Pending, i)
    BY <1>1, <2>1, PendingIsBuffer, SameReading
  <2>3. QED
    BY <1>2, <1>3, <2>2
    DEF Reassembly!DropNoise, Reassembly!user, WithConsumer, Unusable
<1>6. QED
  BY <1>4, <1>5

LEMMA DeliverImplements ==
  ASSUME BufferInv, Deliver
  PROVE  Reassembly!Offer
<1>1. Sliceable(buf) /\ Decodes(SliceFrame(buf)) /\ buf # <<>>
  BY LayoutType DEF Deliver, Window, Sliceable
<1>2. head' = head
  BY DEF Deliver, head
<1>3. ~WithConsumer /\ WithConsumer' /\ ~Unusable /\ ~Unusable'
  BY <1>1, PendingIsBuffer DEF Deliver, WithConsumer, Unusable
<1>4. QED
  BY <1>1, <1>2, <1>3, PendingIsBuffer, SameReading
  DEF Deliver, Reassembly!Offer, Reassembly!user, WithConsumer, Unusable

LEMMA DecodeFailsImplements ==
  ASSUME BufferInv, DecodeFails
  PROVE  Reassembly!DropUndecodable \/ UNCHANGED Reassembly!vars
<1>1. ~WithConsumer /\ ~WithConsumer'
  BY DEF DecodeFails, WithConsumer
<1>2. CASE onDecodeError
  <2>1. /\ Sliceable(buf) /\ ~Decodes(SliceFrame(buf))
        /\ buf' = DropFront(buf, FrameLen(buf)) /\ len' = len - FrameLen(buf)
        /\ len > 0 /\ pc = "loop" /\ pc' = "loop" /\ UNCHANGED <<stream, got, seen, faults>>
    BY <1>2 DEF DecodeFails, Window
  <2>2. FrameLen(buf) \in 0..Len(buf)
    BY <2>1, PendingIsBuffer, FrameLenProperties
  <2>3. head' = head + FrameLen(buf)
    BY <2>1, <2>2, HeadAfterDrop
  <2>4. ~Unusable /\ ~Unusable'
    BY <2>1, <2>2, PendingIsBuffer DEF Unusable
  <2>5. QED
    BY <1>1, <2>1, <2>3, <2>4, PendingIsBuffer, SameReading
    DEF Reassembly!DropUndecodable, Reassembly!user, WithConsumer, Unusable
<1>3. CASE ~onDecodeError
  <2>1. ~Unusable /\ ~Unusable'
    BY <1>3, PendingIsBuffer DEF DecodeFails, Unusable
  <2>2. QED
    BY <1>1, <1>3, <2>1
    DEF DecodeFails, Reassembly!vars, Reassembly!user, WithConsumer, Unusable, head
<1>4. QED
  BY <1>2, <1>3

\* Everything pending is gone, and the user did it.
LEMMA EmptyImplements ==
  ASSUME BufferInv, buf' = <<>>, faults' = faults + 1, UNCHANGED <<stream, got, seen>>
  PROVE  Reassembly!Discard
<1>1. got - Len(<<>>) = got
  BY PendingIsBuffer
<1>2. head' = got
  <2>1. head' = got - Len(<<>>)
    BY HeadAfter
  <2>2. QED
    BY <1>1, <2>1
<1>3. ~WithConsumer' /\ Unusable' \in BOOLEAN
  BY DEF WithConsumer, Unusable
<1>4. QED
  BY <1>2, <1>3 DEF Reassembly!Discard, WithConsumer, Unusable

\* onFrame ends and its frame is removed, or was by a reset.
LEMMA ConsumeImplements ==
  ASSUME BufferInv, pc = "callback", Consume, UNCHANGED <<stream, got, seen>>,
         faults' \in {faults, faults + 1}
  PROVE  Reassembly!Retire \/ Reassembly!Discard \/ UNCHANGED Reassembly!vars
<1>1. ~WithConsumer'
  BY DEF Consume, WithConsumer
<1>2. CASE WithConsumer
  <2>1. frameLen = FrameLen(buf) /\ frameLen \in 0..Len(buf)
    BY <1>2, PendingIsBuffer
  <2>2. head' = head + FrameLen(buf)
    BY <2>1, HeadAfterDrop DEF Consume
  <2>3. len = Len(buf)
    BY <1>2 DEF BufferInv, PushContext, WithConsumer
  <2>4. ~Unusable /\ ~Unusable'
    BY <1>2, <2>1, <2>3, PendingIsBuffer DEF Consume, Unusable, WithConsumer
  <2>5. QED
    BY <1>1, <1>2, <2>2, <2>4, PendingIsBuffer, SameReading
    DEF Reassembly!Retire, WithConsumer, Unusable
<1>3. CASE ~WithConsumer
  <2>1. buf = <<>> /\ frameLen \in Nat
    BY <1>3, PendingIsBuffer DEF WithConsumer
  <2>2. buf' = <<>>
    BY <2>1 DEF Consume, DropFront
  <2>3. CASE faults' = faults + 1
    BY <2>2, <2>3, EmptyImplements
  <2>4. CASE faults' = faults
    <3>1. len = 0 /\ frameLen > 0
      BY <2>1, LayoutType DEF BufferInv, PushContext, Sliceable
    <3>2. Unusable /\ Unusable'
      BY <2>1, <3>1 DEF Consume, Unusable
    <3>3. QED
      BY <1>1, <1>3, <2>1, <2>2, <2>4, <3>2
      DEF Reassembly!vars, Reassembly!user, WithConsumer, Unusable, head
  <2>5. QED
    BY <2>3, <2>4
<1>4. QED
  BY <1>2, <1>3

\* An error leaves push() with the buffer as it is.
LEMMA ThrowImplements ==
  ASSUME BufferInv, pc = "callback" \/ len > 0, pc' = "idle", faults' = faults + 1,
         UNCHANGED <<buf, len, stream, got, seen>>
  PROVE  Reassembly!GiveBack \/ Reassembly!Discard
<1>1. CASE buf = <<>>
  BY <1>1, EmptyImplements
<1>2. CASE buf # <<>>
  <2>1. ~WithConsumer' /\ head' = head
    BY DEF WithConsumer, head
  <2>2. ~Unusable /\ ~Unusable'
    BY <1>2, PendingIsBuffer DEF Unusable
  <2>3. QED
    BY <2>1, <2>2 DEF Reassembly!GiveBack, WithConsumer, Unusable
<1>3. QED
  BY <1>1, <1>2

-----------------------------------------------------------------------------
LEMMA InitImplements == Init => Reassembly!Init
<1> SUFFICES ASSUME Init PROVE Reassembly!Init
  OBVIOUS
<1>1. Len(<<>>) = 0 /\ 0 - 0 = 0
  OBVIOUS
<1>2. head = 0
  BY <1>1 DEF Init, head
<1>3. (pc = "callback" /\ buf # <<>>) = FALSE
  BY DEF Init
<1>4. (len < 0 \/ (pc = "callback" /\ buf = <<>>)) = FALSE
  BY DEF Init
<1>5. stream \in Streams /\ got = 0 /\ seen = <<>> /\ faults = 0
  BY DEF Init
<1>6. QED
  BY <1>2, <1>3, <1>4, <1>5, Zenon DEF Reassembly!Init

LEMMA StepImplements ==
  ASSUME BufferInv, BufferInv', [Next]_vars
  PROVE  [Reassembly!Next]_(Reassembly!vars)
<1> USE DEF Reassembly!Next
<1>1. CASE Receive
  BY <1>1, ReceiveImplements
<1>2. CASE Align \/ Wait
  <2>1. len >= 0
    BY <1>2, PendingIsBuffer DEF Align, Wait, BufferInv, PushContext
  <2>2. QED
    BY <1>2, <2>1, AlignImplements DEF Align, Wait
<1>3. CASE LoopExit
  BY <1>3 DEF LoopExit, Reassembly!vars, Reassembly!user, head
<1>4. CASE Deliver
  BY <1>4, DeliverImplements
<1>5. CASE DecodeFails
  BY <1>5, DecodeFailsImplements
<1>6. CASE CallbackReturns
  BY <1>6, ConsumeImplements DEF CallbackReturns
<1>7. CASE CallbackThrows \/ DecodeHandlerThrows
  BY <1>7, ThrowImplements DEF CallbackThrows, DecodeHandlerThrows, Misbehaves
<1>8. CASE CallbackThrowsBoatConnectError
  BY <1>8, ConsumeImplements, ThrowImplements
  DEF CallbackThrowsBoatConnectError, Misbehaves
<1>9. CASE ResetInCallback \/ Reset \/ DecodeHandlerResets
  BY <1>9, EmptyImplements
  DEF ResetInCallback, Reset, DecodeHandlerResets, ResetBuffer, Misbehaves
<1>10. CASE UNCHANGED vars
  BY <1>10 DEF vars, Reassembly!vars, Reassembly!user, head
<1>11. QED
  BY <1>1, <1>2, <1>3, <1>4, <1>5, <1>6, <1>7, <1>8, <1>9, <1>10
  DEF Next, PushStep, UserFault

\* Every behaviour of the parser, with any chunking, noise, corrupt frames,
\* throwing listeners and resets, is one of FrameReassembly: bytes leave the
\* buffer with the frame they belong to, as noise, as an undecodable frame or
\* by a reset, and a frame whose listener failed is offered again.
THEOREM Implements == Spec => Reassembles
<1>1. BufferInv /\ BufferInv' /\ [Next]_vars => [Reassembly!Next]_(Reassembly!vars)
  BY StepImplements
<1>2. QED
  BY InitImplements, BufferInvariant, <1>1, PTL DEF Spec, Reassembles, Reassembly!Spec
=============================================================================
