---------------------------- MODULE ParserMemory ----------------------------
(***************************************************************************)
(* The memory of FrameParser (src/src/codec/stream-parser.ts): the array   *)
(* this.buf, which grows by doubling and is moved within itself, and the   *)
(* rawPayload of the frame last given to onFrame, which is not a copy but  *)
(* a view of that array (subarray in src/src/codec/frame.ts).              *)
(*                                                                         *)
(* FrameParser knows the live bytes only.  Each of its actions is taken    *)
(* here together with what it does to the array; that the array holds the  *)
(* live bytes is to be checked.                                            *)
(***************************************************************************)
EXTENDS FrameParser, SequencesExt

CONSTANT FirstSize  \* the size of the first array, 64 in the code

ASSUME MemoryAssumption == FirstSize \in Nat \ {0}

VARIABLES
  array,  \* the whole of this.buf
  kept    \* rawPayload: where it is in its array, and that array once it is no
          \* longer this.buf

memoryVars == <<array, kept>>
allVars == <<vars, memoryVars>>

NoArray == <<>>

MInit ==
  Init /\ array = NoArray /\ kept = [from |-> 0, size |-> 0, old |-> NoArray]

Live == SubSeq(array, 1, len)

View ==
  SubSeq(IF kept.old = NoArray THEN array ELSE kept.old,
         kept.from + 1, kept.from + kept.size)

\* this.buf becomes another array; the view stays on the one it was made of.
Replaced == [kept EXCEPT !.old = IF @ = NoArray THEN array ELSE @]

Overwritten(a, at, s) ==
  SubSeq(a, 1, at) \o s \o SubSeq(a, at + Len(s) + 1, Len(a))

CopiedWithin(a, from, to) == Overwritten(a, 0, SubSeq(a, from + 1, to))

-----------------------------------------------------------------------------
\* Doubled until it holds so many bytes.
Size(need) ==
  LET enough[c \in Nat] == IF c >= need THEN c ELSE enough[2 * c]
  IN  enough[IF array = NoArray THEN FirstSize ELSE Len(array)]

Zeros(n) == [i \in 1..n |-> 0]

Grown(need) == IF len > 0 THEN Overwritten(Zeros(Size(need)), 0, Live) ELSE Zeros(Size(need))

\* Wrong on purpose: the larger array does not get the bytes of the smaller.
MReceiveAfresh ==
  /\ Receive
  /\ LET chunk == SubSeq(stream, got + 1, got')
         need  == len + Len(chunk)
         into  == IF need > Len(array) THEN Zeros(Size(need)) ELSE array
     IN  /\ array' = IF len < 0 THEN into ELSE Overwritten(into, len, chunk)
         /\ kept' = IF need > Len(array) THEN Replaced ELSE kept

\* The larger array is in place before buf.set throws for a negative len.
MReceive ==
  /\ Receive
  /\ LET chunk == SubSeq(stream, got + 1, got')
         need  == len + Len(chunk)
         into  == IF need > Len(array) THEN Grown(need) ELSE array
     IN  /\ array' = IF len < 0 THEN into ELSE Overwritten(into, len, chunk)
         /\ kept' = IF need > Len(array) THEN Replaced ELSE kept

MAlign ==
  /\ Align \/ Wait
  /\ array' = CopiedWithin(array, AlignShift(Live), len)
  /\ UNCHANGED kept

Payloads == [from |-> FrameHeaderSize, size |-> PayloadLen(Live), old |-> NoArray]

\* Wrong on purpose: makes room before the frame is handed out.
MDeliverLate ==
  /\ Deliver
  /\ kept' = Payloads
  /\ array' = CopiedWithin(array, FrameLen(Live), len)

MDeliver ==
  /\ Deliver
  /\ kept' = Payloads
  /\ UNCHANGED array

\* copyWithin(0, frameLen, this.len), also after a reset inside onFrame.
MConsume ==
  \/ /\ CallbackReturns \/ (CallbackThrowsBoatConnectError /\ onDecodeError)
     /\ array' = CopiedWithin(array, frameLen, len)
     /\ UNCHANGED kept
  \/ /\ DecodeFails /\ onDecodeError
     /\ array' = CopiedWithin(array, FrameLen(Live), len)
     /\ UNCHANGED kept

MReset ==
  /\ Reset \/ ResetInCallback \/ DecodeHandlerResets
  /\ array' = NoArray /\ kept' = Replaced

MLeave ==
  /\ \/ LoopExit \/ CallbackThrows \/ DecodeHandlerThrows
     \/ ~onDecodeError /\ (DecodeFails \/ CallbackThrowsBoatConnectError)
  /\ UNCHANGED memoryVars

MNext == MReceive \/ MAlign \/ MDeliver \/ MConsume \/ MReset \/ MLeave

MSpec == MInit /\ [][MNext]_allVars

\* A step of push() that is due is taken; the peer's bytes keep arriving.
MFairSpec ==
  /\ MSpec
  /\ WF_allVars(MNext /\ PushStep) /\ WF_allVars(MReceive)

-----------------------------------------------------------------------------
\* The bytes the parser works on are those it was given: growing, doubling and moving
\* within the array keep them, in their order, at its front.
ArrayHoldsBuffer == len >= 0 => len <= Len(array) /\ Live = buf

\* The payload given to onFrame is what the peer sent, until onFrame returns and then
\* until a byte that follows the frame has been received.  (No longer: the array is
\* used again, and frames kept by FleetHub for its snapshot change with it.)
PayloadKept ==
  LET at == Last(seen)
  IN  seen # <<>> /\ (pc = "callback" \/ got = FrameEnd(stream, at))
        => View = SubSeq(stream, at + FrameHeaderSize + 1,
                         at + FrameHeaderSize + kept.size)
=============================================================================
