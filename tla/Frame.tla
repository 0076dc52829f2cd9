------------------------------- MODULE Frame -------------------------------
(***************************************************************************)
(* The BTC1 wire format: encodeFrame, decodeFrame, trySliceOneFrame        *)
(* (src/src/codec/frame.ts) and the search for the magic of the stream     *)
(* parser, alignMagicFront (src/src/codec/stream-parser.ts).               *)
(*                                                                         *)
(* A byte string is a sequence of cells.  The magic keeps one cell per     *)
(* byte, because the search for it works byte by byte; every other field   *)
(* the code tests (version, msgType, boatId, seq, payloadLen, crc) is one  *)
(* cell whatever its width, flags and reserved (copied, never tested) are  *)
(* left out, and a payload is as many cells as bytes.  The checksum is the *)
(* parameter Crc.                                                          *)
(*                                                                         *)
(* Here and in the other modules a definition marked "wrong on purpose" is *)
(* used nowhere: it is what the next definition would be with a plausible  *)
(* mistake, and README.md names the property that would notice it.         *)
(***************************************************************************)
EXTENDS Integers, Sequences

CONSTANTS
  Magic,          \* FRAME_MAGIC: the cells a frame starts with
  MaxPayload,     \* MAX_PAYLOAD_LEN
  TelemetrySize,  \* TELEMETRY_SUMMARY_PAYLOAD_SIZE
  Crc(_)          \* crc32 of a sequence of cells

ASSUME FrameAssumption ==
  /\ Magic \in Seq(Nat)
  /\ Len(Magic) > 0
  /\ MaxPayload \in Nat
  /\ TelemetrySize \in 0..MaxPayload

ProtocolVersion == 1
Heartbeat == 0
TelemetrySummary == 1

MagicLen == Len(Magic)
FrameHeaderSize == MagicLen + 5
CrcSize == 1

(***************************************************************************)
(* encodeFrame: the bytes of frame f, whose payload fits MaxPayload (the   *)
(* code throws PAYLOAD_LENGTH otherwise).                                  *)
(***************************************************************************)
Encodable(f) == Len(f.payload) <= MaxPayload

EncodeFrame(f) ==
  LET body == Magic \o <<f.version, f.msgType, f.boatId, f.seq, Len(f.payload)>>
                    \o f.payload
  IN  Append(body, Crc(body))

(***************************************************************************)
(* The fields of a byte string that holds at least a header.               *)
(***************************************************************************)
MagicAt(b, i) ==
  /\ i + MagicLen <= Len(b)
  /\ \A j \in 1..MagicLen : b[i + j] = Magic[j]

Version(b) == b[MagicLen + 1]
MsgType(b) == b[MagicLen + 2]
BoatId(b) == b[MagicLen + 3]
SeqNo(b) == b[MagicLen + 4]
PayloadLen(b) == b[FrameHeaderSize]
EndPayload(b) == FrameHeaderSize + PayloadLen(b)
FrameLen(b) == EndPayload(b) + CrcSize
Payload(b) == SubSeq(b, FrameHeaderSize + 1, EndPayload(b))

(***************************************************************************)
(* decodeFrame: the code of the BoatConnectError it throws, or "OK".  The  *)
(* order of the tests is the order of the throws.                          *)
(***************************************************************************)
PayloadFault(b) ==
  IF MsgType(b) = Heartbeat /\ PayloadLen(b) # 0
    THEN "PAYLOAD_LENGTH"
  ELSE IF MsgType(b) = TelemetrySummary /\ PayloadLen(b) # TelemetrySize
    THEN "TELEMETRY_PAYLOAD_SIZE"
  ELSE "OK"

DecodeResult(b) ==
  IF Len(b) < FrameHeaderSize + CrcSize          THEN "TRUNCATED"
  ELSE IF ~MagicAt(b, 0)                         THEN "MAGIC"
  ELSE IF Version(b) # ProtocolVersion           THEN "VERSION"
  ELSE IF PayloadLen(b) > MaxPayload             THEN "PAYLOAD_LENGTH"
  ELSE IF Len(b) < FrameLen(b)                   THEN "TRUNCATED"
  ELSE IF b[EndPayload(b) + 1] # Crc(SubSeq(b, 1, EndPayload(b))) THEN "CRC"
  ELSE PayloadFault(b)

Decodes(b) == DecodeResult(b) = "OK"

\* The decoded frame; rawPayload is modelled by its contents here.
DecodedFrame(b) ==
  [boatId |-> BoatId(b), seq |-> SeqNo(b), msgType |-> MsgType(b),
   rawPayload |-> Payload(b)]

(***************************************************************************)
(* trySliceOneFrame: not null exactly when Sliceable(b), and then it cuts  *)
(* b after FrameLen(b) cells.                                              *)
(***************************************************************************)
OversizeHeader(b) ==
  /\ Len(b) >= FrameHeaderSize + CrcSize
  /\ MagicAt(b, 0)
  /\ PayloadLen(b) > MaxPayload

Sliceable(b) ==
  /\ Len(b) >= FrameHeaderSize + CrcSize
  /\ MagicAt(b, 0)
  /\ PayloadLen(b) <= MaxPayload
  /\ Len(b) >= FrameLen(b)

SliceFrame(b) == SubSeq(b, 1, FrameLen(b))

DropFront(b, n) == SubSeq(b, n + 1, Len(b))

(***************************************************************************)
(* alignMagicFront: how many cells it removes from the front of b so that  *)
(* b starts with the magic; without a magic in b it keeps the last         *)
(* MagicLen - 1 cells, which may be the start of one.                      *)
(***************************************************************************)
MagicOffsets(b) == {i \in 0..(Len(b) - MagicLen) : MagicAt(b, i)}

AlignShift(b) ==
  IF Len(b) < MagicLen THEN 0
  ELSE IF MagicOffsets(b) = {} THEN Len(b) - (MagicLen - 1)
  ELSE CHOOSE i \in MagicOffsets(b) : \A j \in MagicOffsets(b) : i <= j

\* Wrong on purpose: keeps the first MagicLen - 1 cells instead of the last.
AlignKeepsFirst(b) ==
  IF Len(b) >= MagicLen /\ MagicOffsets(b) = {}
    THEN SubSeq(b, 1, MagicLen - 1)
    ELSE DropFront(b, AlignShift(b))

\* Wrong on purpose: keeps nothing of a buffer without magic, though its end
\* may be the start of one.
AlignKeepsNothing(b) ==
  IF MagicOffsets(b) = {} THEN <<>> ELSE DropFront(b, AlignShift(b))

AlignMagicFront(b) == DropFront(b, AlignShift(b))
=============================================================================
