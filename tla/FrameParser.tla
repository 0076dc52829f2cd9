---------------------------- MODULE FrameParser ----------------------------
(***************************************************************************)
(* FrameParser (src/src/codec/stream-parser.ts): the incremental parser of *)
(* one byte stream.  push() is modelled step by step, because it calls     *)
(* back into user code in the middle: onFrame is the step from Deliver to  *)
(* one of the Callback actions, and until then other code may run on the   *)
(* same parser (reset from inside a listener; a push from inside one is    *)
(* not modelled).                                                          *)
(*                                                                         *)
(* buf holds the live bytes, buf[0..len) of the code; the zero-filled rest *)
(* of the array is not observable through this class.  len is kept apart   *)
(* from Len(buf) because the code does: they come apart when reset() runs  *)
(* inside onFrame.                                                         *)
(***************************************************************************)
EXTENDS Frame

CONSTANTS
  Streams,        \* the byte streams the peer may send
  OnDecodeErrors, \* whether the option onDecodeError is set: the choices
  FrameStarts(_), \* where the peer started the frames it wrote into a stream
  Faults,         \* what user code may do to the parser: subset of FaultKinds
  MaxFaults,      \* bound on how often it does
  MaxStreamLen    \* bound on the length of the streams

FaultKinds == {"throw", "throwBoatConnectError", "resetInCallback", "reset"}

ASSUME ParserAssumption ==
  /\ Streams \subseteq Seq(Nat)
  /\ OnDecodeErrors \subseteq BOOLEAN
  /\ Faults \subseteq FaultKinds
  /\ MaxFaults \in Nat
  /\ MaxStreamLen \in Nat
  /\ \A s \in Streams : Len(s) <= MaxStreamLen

VARIABLES
  buf,      \* this.buf[0 .. this.len)
  len,      \* this.len
  pc,       \* where push() stands: idle, align, loop, callback
  frameLen, \* the local frameLen of push() while onFrame runs, else 0
  onDecodeError, \* the option onDecodeError is set
  stream,   \* the bytes of this connection
  got,      \* how many of them were pushed
  seen,     \* history: the offsets in stream of the frames given to onFrame
  errors,   \* history: the offsets of the frames whose decoding failed
  faults    \* bound: how often user code misbehaved

parserVars == <<buf, len, pc, frameLen>>
vars == <<buf, len, pc, frameLen, onDecodeError, stream, got, seen, errors, faults>>

\* Where the buffered bytes start in the stream.
head == got - Len(buf)

Window == SliceFrame(buf)

Init ==
  /\ buf = <<>> /\ len = 0 /\ pc = "idle" /\ frameLen = 0
  /\ onDecodeError \in OnDecodeErrors /\ stream \in Streams
  /\ got = 0 /\ seen = <<>> /\ errors = <<>> /\ faults = 0

-----------------------------------------------------------------------------
(***************************************************************************)
(* push(chunk, onFrame): the chunk is any next part of the stream.         *)
(***************************************************************************)
\* Wrong on purpose: stores the chunk twice.
PushTwice(n) ==
  /\ pc = "idle" /\ len >= 0
  /\ got' = got + n
  /\ buf' = buf \o SubSeq(stream, got + 1, got + n) \o SubSeq(stream, got + 1, got + n)
  /\ len' = len + 2 * n
  /\ pc' = "align"
  /\ UNCHANGED <<frameLen, onDecodeError, stream, seen, errors, faults>>

\* Wrong on purpose: stores the chunk at the start of the buffer.
PushOverwrites(n) ==
  /\ pc = "idle" /\ len >= 0
  /\ got' = got + n
  /\ buf' = SubSeq(stream, got + 1, got + n)
  /\ len' = n
  /\ pc' = "align"
  /\ UNCHANGED <<frameLen, onDecodeError, stream, seen, errors, faults>>

Push(n) ==
  /\ pc = "idle" /\ len >= 0
  /\ got' = got + n
  /\ buf' = buf \o SubSeq(stream, got + 1, got + n)
  /\ len' = len + n
  /\ pc' = "align"
  /\ UNCHANGED <<frameLen, onDecodeError, stream, seen, errors, faults>>

\* With a negative len, this.buf.set(chunk, this.len) throws a RangeError
\* before anything is stored: the chunk is lost, this.len stays.
PushThrows(n) ==
  /\ pc = "idle" /\ len < 0
  /\ got' = got + n
  /\ UNCHANGED <<buf, len, pc, frameLen, onDecodeError, stream, seen, errors, faults>>

Receive == \E n \in 1..(Len(stream) - got) : Push(n) \/ PushThrows(n)

Align ==
  /\ pc = "align"
  /\ buf' = AlignMagicFront(buf)
  /\ len' = len - AlignShift(buf)
  /\ pc' = "loop"
  /\ UNCHANGED <<frameLen, onDecodeError, stream, got, seen, errors, faults>>

LoopExit ==
  /\ pc = "loop" /\ len <= 0
  /\ pc' = "idle"
  /\ UNCHANGED <<buf, len, frameLen, onDecodeError, stream, got, seen, errors, faults>>

\* No complete frame at the front: align once more and leave.
Wait ==
  /\ pc = "loop" /\ len > 0 /\ ~Sliceable(buf)
  /\ buf' = AlignMagicFront(buf)
  /\ len' = len - AlignShift(buf)
  /\ pc' = "idle"
  /\ UNCHANGED <<frameLen, onDecodeError, stream, got, seen, errors, faults>>

\* Wrong on purpose: hands frames to onFrame without decoding them first.
DeliverUnchecked ==
  /\ pc = "loop" /\ len > 0 /\ Sliceable(buf)
  /\ seen' = Append(seen, head)
  /\ frameLen' = FrameLen(buf)
  /\ pc' = "callback"
  /\ UNCHANGED <<buf, len, onDecodeError, stream, got, errors, faults>>

Deliver ==
  /\ pc = "loop" /\ len > 0 /\ Sliceable(buf) /\ Decodes(Window)
  /\ seen' = Append(seen, head)
  /\ frameLen' = FrameLen(buf)
  /\ pc' = "callback"
  /\ UNCHANGED <<buf, len, onDecodeError, stream, got, errors, faults>>

\* Wrong on purpose: discards the buffer to resynchronise.
DecodeFailsDropsAll ==
  /\ pc = "loop" /\ len > 0 /\ Sliceable(buf) /\ ~Decodes(Window)
  /\ errors' = Append(errors, head)
  /\ buf' = <<>> /\ len' = 0
  /\ UNCHANGED <<pc, frameLen, onDecodeError, stream, got, seen, faults>>

\* Wrong on purpose: skips the bad frame although nobody handles the error.
DecodeFailsSkips ==
  /\ pc = "loop" /\ len > 0 /\ Sliceable(buf) /\ ~Decodes(Window)
  /\ errors' = Append(errors, head)
  /\ buf' = DropFront(buf, FrameLen(buf))
  /\ len' = len - FrameLen(buf)
  /\ pc' = IF onDecodeError THEN pc ELSE "idle"
  /\ UNCHANGED <<frameLen, onDecodeError, stream, got, seen, faults>>

\* decodeFrame throws: reported and skipped, or thrown out of push() with the
\* frame still at the front.
DecodeFails ==
  /\ pc = "loop" /\ len > 0 /\ Sliceable(buf) /\ ~Decodes(Window)
  /\ errors' = Append(errors, head)
  /\ IF onDecodeError
       THEN /\ buf' = DropFront(buf, FrameLen(buf))
            /\ len' = len - FrameLen(buf)
            /\ UNCHANGED pc
       ELSE /\ pc' = "idle"
            /\ UNCHANGED <<buf, len>>
  /\ UNCHANGED <<frameLen, onDecodeError, stream, got, seen, faults>>

\* Wrong on purpose: leaves the checksum in the buffer.
ConsumeLeavesCrc ==
  /\ buf' = DropFront(buf, frameLen - CrcSize)
  /\ len' = len - (frameLen - CrcSize)
  /\ frameLen' = 0
  /\ pc' = "loop"

\* Wrong on purpose: removes the header only.
ConsumeHeader ==
  /\ buf' = DropFront(buf, FrameHeaderSize)
  /\ len' = len - FrameHeaderSize
  /\ frameLen' = 0
  /\ pc' = "loop"

\* onFrame returns: copyWithin(0, frameLen, len), len -= frameLen, next round.
Consume ==
  /\ buf' = DropFront(buf, frameLen)
  /\ len' = len - frameLen
  /\ frameLen' = 0
  /\ pc' = "loop"

CallbackReturns ==
  /\ pc = "callback"
  /\ Consume
  /\ UNCHANGED <<onDecodeError, stream, got, seen, errors, faults>>

-----------------------------------------------------------------------------
(***************************************************************************)
(* What user code may do besides returning.                                *)
(***************************************************************************)
Misbehaves(kind) ==
  /\ kind \in Faults
  /\ faults < MaxFaults
  /\ faults' = faults + 1

\* Any error but a BoatConnectError leaves push() at once.
CallbackThrows ==
  /\ pc = "callback"
  /\ Misbehaves("throw")
  /\ pc' = "idle" /\ frameLen' = 0
  /\ UNCHANGED <<buf, len, onDecodeError, stream, got, seen, errors>>

\* Wrong on purpose: searches for the next magic inside the frame.
BoatConnectErrorResyncs ==
  /\ pc = "callback"
  /\ Misbehaves("throwBoatConnectError")
  /\ errors' = Append(errors, head)
  /\ buf' = DropFront(buf, MagicLen) /\ len' = len - MagicLen
  /\ frameLen' = 0 /\ pc' = "loop"
  /\ UNCHANGED <<onDecodeError, stream, got, seen>>

\* A BoatConnectError out of onFrame is taken for a decode error.
CallbackThrowsBoatConnectError ==
  /\ pc = "callback"
  /\ Misbehaves("throwBoatConnectError")
  /\ errors' = Append(errors, head)
  /\ IF onDecodeError
       THEN Consume
       ELSE pc' = "idle" /\ frameLen' = 0 /\ UNCHANGED <<buf, len>>
  /\ UNCHANGED <<onDecodeError, stream, got, seen>>

\* onDecodeError itself throws: the bad frame stays at the front.
DecodeHandlerThrows ==
  /\ pc = "loop" /\ len > 0 /\ Sliceable(buf) /\ ~Decodes(Window)
  /\ onDecodeError
  /\ Misbehaves("throw")
  /\ errors' = Append(errors, head)
  /\ pc' = "idle"
  /\ UNCHANGED <<buf, len, frameLen, onDecodeError, stream, got, seen>>

\* onDecodeError calls reset(): copyWithin and the subtraction of the length follow, as for a
\* reset() inside onFrame.  (When it is a BoatConnectError of onFrame that it was called for,
\* this is ResetInCallback before CallbackThrowsBoatConnectError.)
DecodeHandlerResets ==
  /\ pc = "loop" /\ len > 0 /\ Sliceable(buf) /\ ~Decodes(Window)
  /\ onDecodeError
  /\ Misbehaves("resetInCallback")
  /\ errors' = Append(errors, head)
  /\ buf' = <<>> /\ len' = -FrameLen(buf)
  /\ UNCHANGED <<pc, frameLen, onDecodeError, stream, got, seen>>

\* reset(): a new empty array, len = 0.
ResetBuffer == buf' = <<>> /\ len' = 0

ResetInCallback ==
  /\ pc = "callback"
  /\ Misbehaves("resetInCallback")
  /\ ResetBuffer
  /\ UNCHANGED <<pc, frameLen, onDecodeError, stream, got, seen, errors>>

Reset ==
  /\ pc = "idle"
  /\ Misbehaves("reset")
  /\ ResetBuffer
  /\ UNCHANGED <<pc, frameLen, onDecodeError, stream, got, seen, errors>>

\* push() runs to completion once entered (one JavaScript call stack).
PushStep == Align \/ LoopExit \/ Wait \/ Deliver \/ DecodeFails \/ CallbackReturns

UserFault ==
  \/ CallbackThrows \/ CallbackThrowsBoatConnectError \/ DecodeHandlerThrows
  \/ DecodeHandlerResets \/ ResetInCallback \/ Reset

Next == Receive \/ PushStep \/ UserFault

Spec == Init /\ [][Next]_vars

\* A step of push() that is due is taken; the peer's bytes keep arriving.
FairSpec == Spec /\ WF_vars(PushStep) /\ WF_vars(Receive)

-----------------------------------------------------------------------------
(***************************************************************************)
(* Properties.                                                             *)
(***************************************************************************)

\* The types of the variables.
TypeOK ==
  /\ buf \in Seq(Nat) /\ len \in Int
  /\ pc \in {"idle", "align", "loop", "callback"}
  /\ frameLen \in Nat
  /\ onDecodeError \in OnDecodeErrors /\ stream \in Streams
  /\ got \in 0..Len(stream)
  /\ seen \in Seq(Nat) /\ errors \in Seq(Nat)
  /\ faults \in 0..MaxFaults

\* Appending, aligning, consuming and resetting never tear the buffer: it is
\* always a contiguous piece of the stream that ends with the last byte
\* pushed, and len is its length unless a reset inside onFrame made len
\* negative on an empty buffer.
BufferIsStreamWindow ==
  /\ Len(buf) <= got
  /\ buf = SubSeq(stream, head + 1, got)
  /\ len = Len(buf) \/ (len < 0 /\ buf = <<>>)

Suffix(s, c) == SubSeq(s, c + 1, Len(s))

FrameEnd(s, c) == c + FrameLen(Suffix(s, c))

\* A frame at offset c of stream s that decodes.
GoodFrameAt(s, c) ==
  Sliceable(Suffix(s, c)) /\ Decodes(SliceFrame(Suffix(s, c)))

\* Whatever the chunking, the noise and the misbehaviour of listeners, onFrame
\* only ever gets a frame whose bytes stand contiguously in the stream, pass
\* every test of decodeFrame and were all received.
OfferedFramesAreReal ==
  \A i \in DOMAIN seen :
    GoodFrameAt(stream, seen[i]) /\ FrameEnd(stream, seen[i]) <= got

\* Frames are offered in stream order and never overlap: what is inside a
\* frame already offered (a frame carried in its payload, say) is not offered
\* again, except the very same frame after its listener threw.
OfferedInOrder ==
  \A i, j \in DOMAIN seen :
    i < j => seen[j] = seen[i] \/ FrameEnd(stream, seen[i]) <= seen[j]

\* C are the offsets of frames that follow each other without gap from the
\* first byte of s to the last.
IsFraming(s, C) ==
  /\ C \subseteq 0..Len(s) /\ 0 \in C /\ Len(s) \in C
  /\ \A c \in C \ {Len(s)} :
       /\ Sliceable(Suffix(s, c))
       /\ FrameEnd(s, c) \in C
       /\ \A d \in C : d <= c \/ d >= FrameEnd(s, c)

CompleteGoodFrames ==
  {c \in FrameStarts(stream) \ {Len(stream)} :
     FrameEnd(stream, c) <= got /\ GoodFrameAt(stream, c)}

\* On a stream of frames without noise between them, of which some may be
\* corrupt, the parser has offered exactly the good frames received in full,
\* each once, whenever push() returns: chunk boundaries do not matter ("the
\* host stream parser tolerates fragmentation").
CleanStreamExact ==
  (/\ onDecodeError /\ faults = 0 /\ pc = "idle"
   /\ IsFraming(stream, FrameStarts(stream)))
  => /\ {seen[i] : i \in DOMAIN seen} = CompleteGoodFrames
     /\ \A i, j \in DOMAIN seen : i < j => seen[i] < seen[j]
     /\ ~Sliceable(buf)

\* Without onDecodeError a frame that does not decode is final: whatever is pushed and
\* thrown after it, it stays at the front, every push throws for it again, and no later
\* frame is offered until a reset().
StopsAtBadFrame ==
  [][~onDecodeError /\ Sliceable(buf) /\ ~Decodes(Window)
     => Reset \/ (head' = head /\ seen' = seen)]_vars

\* The parser implements the promise of FrameReassembly.
Reassembly ==
  INSTANCE FrameReassembly WITH
    head <- head,
    offered <- (pc = "callback" /\ buf # <<>>),
    unusable <- (len < 0 \/ (pc = "callback" /\ buf = <<>>)),
    acts <- faults

Reassembles == Reassembly!Spec

\* With fair delivery of a stream of frames, every good frame is offered, unless user
\* code misbehaves.
AllGoodFramesOffered ==
  IsFraming(stream, FrameStarts(stream)) /\ onDecodeError
  => <>(faults > 0 \/ \A c \in FrameStarts(stream) \ {Len(stream)} :
          GoodFrameAt(stream, c) => \E i \in DOMAIN seen : seen[i] = c)

\* A complete good frame at the front of the buffer, be it in the middle of push(),
\* left there behind noise until the next chunk, or kept after its listener threw,
\* leaves the buffer only after it was offered, or by a reset().
FrontFrameKept ==
  [][Sliceable(buf) /\ Decodes(Window) /\ head' # head
     => Reset \/ \E i \in DOMAIN seen : seen[i] = head]_vars


\* "Receivers SHOULD drop oversize frames": no oversize header stays at the
\* front of the buffer when push() has returned.
OversizeIsDropped == pc = "idle" => ~OversizeHeader(buf)

=============================================================================
