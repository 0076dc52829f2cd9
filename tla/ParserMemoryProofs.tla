------------------------- MODULE ParserMemoryProofs -------------------------
(***************************************************************************)
(* Theorems about ParserMemory, for every value of the constants.          *)
(***************************************************************************)
EXTENDS ParserMemory, FrameParserProofs

-----------------------------------------------------------------------------
(***************************************************************************)
(* How large the array becomes.                                            *)
(***************************************************************************)

\* A set of naturals with 0 and the successor of each of its members is Nat.
LEMMA SetInduction ==
  ASSUME NEW S \in SUBSET Nat, 0 \in S, \A n \in S : n + 1 \in S
  PROVE  S = Nat
<1> SUFFICES ASSUME Nat \ S # {} PROVE FALSE
  OBVIOUS
<1>1. PICK n \in Nat \ S : \A m \in Nat \ S : n <= m
  BY LeastNat
<1>2. n # 0 /\ n - 1 \in Nat
  BY <1>1
<1>3. n - 1 \in S
  BY <1>1, <1>2
<1>4. (n - 1) + 1 \in S
  BY <1>3
<1>5. QED
  BY <1>1, <1>4

\* What the recursion of Size asks of f at c.
DoublesAt(f, need, c) == f[c] = IF c >= need THEN c ELSE f[2 * c]

\* A function that doubles until it has reached need exists: from one that does so for
\* the numbers less than d below need, make one for the next number down.
LEMMA DoublingExists ==
  ASSUME NEW need \in Nat
  PROVE  \E f \in [Nat -> Nat] : \A c \in Nat : DoublesAt(f, need, c)
<1> DEFINE S == {d \in Nat : \E f \in [Nat -> Nat] :
                               \A c \in Nat : c + d >= need => DoublesAt(f, need, c)}
<1>1. 0 \in S
  <2>1. \A c \in Nat : c + 0 >= need => DoublesAt([x \in Nat |-> x], need, c)
    BY DEF DoublesAt
  <2>2. QED
    BY <2>1
<1>2. ASSUME NEW d \in S PROVE d + 1 \in S
  <2>1. PICK f \in [Nat -> Nat] :
          \A c \in Nat : c + d >= need => DoublesAt(f, need, c)
    OBVIOUS
  <2> DEFINE g == [c \in Nat |-> IF c + d < need /\ c > 0 THEN f[2 * c] ELSE f[c]]
  <2>2. g \in [Nat -> Nat]
    OBVIOUS
  <2>3. ASSUME NEW c \in Nat, c + (d + 1) >= need PROVE DoublesAt(g, need, c)
    <3>1. d \in Nat /\ 2 * c \in Nat
      OBVIOUS
    <3>2. CASE c + d >= need
      <4>1. f[c] = IF c >= need THEN c ELSE f[2 * c]
        BY <2>1, <3>2 DEF DoublesAt
      <4>2. g[c] = f[c] /\ g[2 * c] = f[2 * c]
        BY <3>1, <3>2
      <4>3. QED
        BY <4>1, <4>2 DEF DoublesAt
    <3>3. CASE c + d < need /\ c > 0
      <4>1. 2 * c + d >= need /\ ~(c >= need)
        BY <2>3, <3>1, <3>3
      <4>2. g[c] = f[2 * c] /\ g[2 * c] = f[2 * c]
        BY <3>1, <3>3, <4>1
      <4>3. QED
        BY <4>1, <4>2 DEF DoublesAt
    <3>4. CASE c + d < need /\ c = 0
      <4>1. 2 * c = c /\ ~(c >= need)
        BY <3>1, <3>4
      <4>2. QED
        BY <4>1 DEF DoublesAt
    <3>5. QED
      BY <3>1, <3>2, <3>3, <3>4
  <2> HIDE DEF g
  <2>4. d + 1 \in Nat
    OBVIOUS
  <2>5. QED
    BY <2>2, <2>3, <2>4
<1>3. S = Nat
  <2> HIDE DEF S
  <2>1. S \in SUBSET Nat
    BY DEF S
  <2>2. QED
    BY <1>1, <1>2, <2>1, SetInduction
<1>4. need \in S
  BY <1>3
<1>5. PICK f \in [Nat -> Nat] : \A c \in Nat : c + need >= need => DoublesAt(f, need, c)
  BY <1>4
<1>6. QED
  BY <1>5

\* Such a function reaches need from every positive number.
LEMMA DoublingReaches ==
  ASSUME NEW need \in Nat, NEW f, \A c \in Nat : DoublesAt(f, need, c),
         NEW c \in Nat \ {0}
  PROVE  f[c] \in Nat /\ f[c] >= need
<1> DEFINE S == {d \in Nat : \A n \in Nat \ {0} :
                               n + d >= need => f[n] \in Nat /\ f[n] >= need}
<1>1. 0 \in S
  BY DEF DoublesAt
<1>2. ASSUME NEW d \in S PROVE d + 1 \in S
  <2>1. ASSUME NEW n \in Nat \ {0}, n + (d + 1) >= need PROVE f[n] \in Nat /\ f[n] >= need
    <3>1. CASE n >= need
      BY <3>1 DEF DoublesAt
    <3>2. CASE n < need
      <4>1. 2 * n \in Nat \ {0} /\ 2 * n + d >= need
        BY <2>1, <3>2
      <4>2. f[2 * n] \in Nat /\ f[2 * n] >= need
        BY <4>1
      <4>3. f[n] = f[2 * n]
        BY <3>2 DEF DoublesAt
      <4>4. QED
        BY <4>2, <4>3
    <3>3. QED
      BY <3>1, <3>2
  <2>2. d + 1 \in Nat
    OBVIOUS
  <2>3. QED
    BY <2>1, <2>2
<1>3. S = Nat
  <2> HIDE DEF S
  <2>1. S \in SUBSET Nat
    BY DEF S
  <2>2. QED
    BY <1>1, <1>2, <2>1, SetInduction
<1>4. need \in S
  BY <1>3
<1>5. QED
  BY <1>4

\* The new array is large enough.
LEMMA SizeEnough ==
  ASSUME NEW need \in Nat, array \in Seq(Nat)
  PROVE  Size(need) \in Nat /\ Size(need) >= need
<1> DEFINE Doubles(f) == f = [c \in Nat |-> IF c >= need THEN c ELSE f[2 * c]]
           enough == CHOOSE f : Doubles(f)
           first == IF array = NoArray THEN FirstSize ELSE Len(array)
<1>1. \E f : Doubles(f)
  <2>1. PICK f \in [Nat -> Nat] : \A c \in Nat : DoublesAt(f, need, c)
    BY DoublingExists
  <2>2. f = [c \in Nat |-> IF c >= need THEN c ELSE f[2 * c]]
    BY <2>1 DEF DoublesAt
  <2>3. QED
    BY <2>2
<1>2. Doubles(enough)
  BY <1>1
<1>3. Size(need) = enough[first]
  BY DEF Size
<1>4. \A c \in Nat : DoublesAt(enough, need, c)
  <2> HIDE DEF enough
  <2>1. QED
    BY <1>2 DEF DoublesAt
<1>5. first \in Nat \ {0}
  BY MemoryAssumption DEF NoArray
<1> HIDE DEF enough, first
<1>6. QED
  BY <1>3, <1>4, <1>5, DoublingReaches

-----------------------------------------------------------------------------
(***************************************************************************)
(* What growing and moving keep.                                           *)
(***************************************************************************)

\* Writing s at a place of an array keeps what is before it.
LEMMA OverwrittenPrefix ==
  ASSUME NEW a \in Seq(Nat), NEW at \in Nat, NEW s \in Seq(Nat), at + Len(s) <= Len(a)
  PROVE  /\ Overwritten(a, at, s) \in Seq(Nat)
         /\ Len(Overwritten(a, at, s)) = Len(a)
         /\ SubSeq(Overwritten(a, at, s), 1, at + Len(s)) = SubSeq(a, 1, at) \o s
<1> DEFINE p == SubSeq(a, 1, at)
           q == SubSeq(a, at + Len(s) + 1, Len(a))
           t == p \o s
<1>1. p \in Seq(Nat) /\ Len(p) = at /\ q \in Seq(Nat) /\ Len(q) = Len(a) - (at + Len(s))
  OBVIOUS
<1>2. Overwritten(a, at, s) = t \o q
  BY DEF Overwritten
<1> HIDE DEF p, q
<1>3. t \in Seq(Nat) /\ Len(t) = at + Len(s)
  BY <1>1, ConcatProperties
<1> HIDE DEF t
<1>4. t \o q \in Seq(Nat) /\ Len(t \o q) = Len(a)
  BY <1>1, <1>3
<1>5. SubSeq(t \o q, 1, Len(t)) = t
  BY <1>1, <1>3
<1>6. QED
  BY <1>2, <1>3, <1>4, <1>5 DEF p, t

\* copyWithin brings the cells from a place on to the front.
LEMMA CopyKeeps ==
  ASSUME NEW a \in Seq(Nat), NEW to \in 0..Len(a), NEW from \in 0..to
  PROVE  /\ CopiedWithin(a, from, to) \in Seq(Nat)
         /\ Len(CopiedWithin(a, from, to)) = Len(a)
         /\ SubSeq(CopiedWithin(a, from, to), 1, to - from) = DropFront(SubSeq(a, 1, to), from)
<1> DEFINE s == SubSeq(a, from + 1, to)
<1>1. s \in Seq(Nat) /\ Len(s) = to - from
  OBVIOUS
<1>2. DropFront(SubSeq(a, 1, to), from) = s
  BY DEF DropFront
<1>3. SubSeq(a, 1, 0) \o s = s
  OBVIOUS
<1> HIDE DEF s
<1>4. /\ Overwritten(a, 0, s) \in Seq(Nat) /\ Len(Overwritten(a, 0, s)) = Len(a)
      /\ SubSeq(Overwritten(a, 0, s), 1, 0 + Len(s)) = SubSeq(a, 1, 0) \o s
  BY <1>1, OverwrittenPrefix
<1>5. 0 + Len(s) = to - from
  BY <1>1
<1>6. CopiedWithin(a, from, to) = Overwritten(a, 0, s)
  BY DEF CopiedWithin, s
<1>7. QED
  BY <1>2, <1>3, <1>4, <1>5, <1>6, Zenon

\* copyWithin of nothing.
LEMMA CopyNothing ==
  ASSUME NEW a \in Seq(Nat), NEW from \in Nat, NEW to \in Int, to <= from
  PROVE  CopiedWithin(a, from, to) = a
<1>1. SubSeq(a, from + 1, to) = <<>>
  OBVIOUS
<1>2. Overwritten(a, 0, <<>>) = (<<>> \o <<>>) \o a
  BY DEF Overwritten
<1>3. (<<>> \o <<>>) \o a = a
  OBVIOUS
<1>4. QED
  BY <1>1, <1>2, <1>3, Zenon DEF CopiedWithin

\* An array that holds l bytes b, and a view of it.
Holds(a, l, b) == l >= 0 => l <= Len(a) /\ SubSeq(a, 1, l) = b

MemoryTypes ==
  array \in Seq(Nat) /\ kept \in [from : Nat, size : Nat, old : Seq(Nat)]

LEMMA LiveIsBuffer ==
  ASSUME BufferInv, ArrayHoldsBuffer, len >= 0
  PROVE  Live = buf /\ len = Len(buf) /\ len <= Len(array)
BY BufferInvFacts DEF ArrayHoldsBuffer

\* The grown array.
LEMMA GrownKeeps ==
  ASSUME array \in Seq(Nat), len \in Int, Holds(array, len, buf),
         NEW need \in Nat, len <= need
  PROVE  /\ Grown(need) \in Seq(Nat) /\ Len(Grown(need)) >= need
         /\ Holds(Grown(need), len, buf)
<1> DEFINE z == Zeros(Size(need))
<1>1. Size(need) \in Nat /\ Size(need) >= need
  BY SizeEnough
<1>2. z \in Seq(Nat) /\ Len(z) >= need
  BY <1>1 DEF Zeros
<1> HIDE DEF z
<1>3. CASE len > 0
  <2>1. Live = buf /\ Live \in Seq(Nat) /\ Len(Live) = len
    BY <1>3 DEF Holds, Live
  <2>2. Grown(need) = Overwritten(z, 0, Live)
    BY <1>3 DEF Grown, z
  <2>3. /\ Overwritten(z, 0, Live) \in Seq(Nat) /\ Len(Overwritten(z, 0, Live)) = Len(z)
        /\ SubSeq(Overwritten(z, 0, Live), 1, 0 + Len(Live)) = SubSeq(z, 1, 0) \o Live
    <3>1. 0 \in Nat /\ 0 + Len(Live) <= Len(z)
      BY <1>2, <1>3, <2>1
    <3>2. QED
      BY <1>2, <2>1, <3>1, OverwrittenPrefix
  <2>4. SubSeq(z, 1, 0) \o Live = Live
    BY <1>2, <2>1
  <2>5. 0 + Len(Live) = len
    BY <2>1
  <2>6. SubSeq(Grown(need), 1, len) = buf
    BY <2>1, <2>2, <2>3, <2>4, <2>5
  <2>7. QED
    BY <1>2, <2>2, <2>3, <2>6 DEF Holds
<1>4. CASE ~(len > 0)
  <2>1. Grown(need) = z
    BY <1>4 DEF Grown, z
  <2>2. len >= 0 => len = 0 /\ SubSeq(z, 1, 0) = <<>> /\ SubSeq(array, 1, 0) = <<>>
    BY <1>2, <1>4
  <2>3. QED
    BY <1>2, <2>1, <2>2 DEF Holds
<1>5. QED
  BY <1>3, <1>4

-----------------------------------------------------------------------------
(***************************************************************************)
(* Every step is one of FrameParser.                                       *)
(***************************************************************************)

LEMMA MemoryStepIsStep == [MNext]_allVars => [Next]_vars
BY DEF MNext, MReceive, MAlign, MDeliver, MConsume, MReset, MLeave, Next, PushStep, UserFault,
       allVars

\* What the parser does with its array hinders none of its steps: all that is proved of
\* FrameParser holds of it.
THEOREM MemoryIsParser == MSpec => Spec
<1>1. MInit => Init
  BY DEF MInit
<1>2. QED
  BY <1>1, MemoryStepIsStep, PTL DEF MSpec, Spec

-----------------------------------------------------------------------------
(***************************************************************************)
(* The array holds the buffer.                                             *)
(***************************************************************************)

ArrayInv == MemoryTypes /\ ArrayHoldsBuffer

LEMMA ArrayInvReceive ==
  ASSUME BufferInv, ArrayInv, MReceive
  PROVE  ArrayInv'
<1>1. /\ stream \in Seq(Nat) /\ got \in 0..Len(stream) /\ buf \in Seq(Nat) /\ len \in Int
      /\ len >= 0 => len = Len(buf)
  BY BufferInvFacts
<1>2. PICK n \in 1..(Len(stream) - got) : Push(n) \/ PushThrows(n)
  BY DEF MReceive, Receive
<1> DEFINE chunk == SubSeq(stream, got + 1, got + n)
           need == len + n
           into == IF need > Len(array) THEN Grown(need) ELSE array
           after == IF len < 0 THEN into ELSE Overwritten(into, len, chunk)
<1>3. chunk \in Seq(Nat) /\ Len(chunk) = n /\ n \in Nat
  BY <1>1
<1>4. got' = got + n
  BY <1>2 DEF Push, PushThrows
<1>5. /\ array' = after
      /\ kept' = IF need > Len(array) THEN Replaced ELSE kept
  BY <1>3, <1>4, Zenon DEF MReceive
<1>6. array \in Seq(Nat) /\ Holds(array, len, buf)
  BY DEF ArrayInv, MemoryTypes, ArrayHoldsBuffer, Holds, Live
<1> HIDE DEF chunk
<1>7. into \in Seq(Nat) /\ Len(into) >= need /\ Holds(into, len, buf)
  <2>1. CASE need > Len(array)
    <3>1. need \in Nat /\ len <= need
      BY <1>1, <1>3, <1>6, <2>1
    <3>2. QED
      BY <1>1, <1>6, <2>1, <3>1, GrownKeeps
  <2>2. CASE ~(need > Len(array))
    BY <1>1, <1>3, <1>6, <2>2
  <2>3. QED
    BY <2>1, <2>2
<1> HIDE DEF into
<1>8. CASE len >= 0
  <2>1. Push(n)
    BY <1>1, <1>2, <1>8 DEF PushThrows
  <2>2. buf' = buf \o chunk /\ len' = need
    BY <2>1 DEF Push, chunk
  <2>3. len \in Nat /\ len + Len(chunk) = need /\ need <= Len(into) /\ ~(len < 0)
    BY <1>1, <1>3, <1>7, <1>8
  <2>4. /\ Overwritten(into, len, chunk) \in Seq(Nat)
        /\ Len(Overwritten(into, len, chunk)) = Len(into)
        /\ SubSeq(Overwritten(into, len, chunk), 1, len + Len(chunk))
             = SubSeq(into, 1, len) \o chunk
    BY <1>3, <1>7, <2>3, OverwrittenPrefix
  <2>5. after = Overwritten(into, len, chunk) /\ SubSeq(into, 1, len) = buf
    BY <1>7, <1>8, <2>3 DEF Holds
  <2> HIDE DEF after, need
  <2>6. after \in Seq(Nat) /\ Holds(after, need, buf \o chunk)
    BY <2>3, <2>4, <2>5 DEF Holds
  <2>7. array' \in Seq(Nat) /\ Holds(array', len', buf')
    BY <1>5, <2>2, <2>6, Zenon
  <2>8. kept' \in [from : Nat, size : Nat, old : Seq(Nat)]
    BY <1>5 DEF ArrayInv, MemoryTypes, Replaced
  <2>9. QED
    BY <2>7, <2>8 DEF ArrayInv, MemoryTypes, ArrayHoldsBuffer, Holds, Live
<1>9. CASE len < 0
  <2>1. PushThrows(n)
    BY <1>1, <1>2, <1>9 DEF Push
  <2>2. UNCHANGED <<len, buf>>
    BY <2>1 DEF PushThrows
  <2>3. after = into
    BY <1>9
  <2> HIDE DEF after, need
  <2>4. array' \in Seq(Nat) /\ Holds(array', len', buf')
    BY <1>5, <1>7, <2>2, <2>3, Zenon
  <2>5. kept' \in [from : Nat, size : Nat, old : Seq(Nat)]
    BY <1>5 DEF ArrayInv, MemoryTypes, Replaced
  <2>6. QED
    BY <2>4, <2>5 DEF ArrayInv, MemoryTypes, ArrayHoldsBuffer, Holds, Live
<1>10. QED
  BY <1>1, <1>8, <1>9

\* The front of the buffer is cut off: n bytes are moved over.
LEMMA ArrayInvCut ==
  ASSUME BufferInv, ArrayInv, len = Len(buf), NEW n \in 0..len,
         buf' = DropFront(buf, n), len' = len - n,
         array' = CopiedWithin(array, n, len), kept' = kept
  PROVE  ArrayInv'
<1>1. array \in Seq(Nat) /\ buf \in Seq(Nat) /\ len \in 0..Len(array) /\ SubSeq(array, 1, len) = buf
  BY BufferInvFacts DEF ArrayInv, MemoryTypes, ArrayHoldsBuffer, Live
<1> DEFINE after == CopiedWithin(array, n, len)
<1>2. /\ after \in Seq(Nat) /\ Len(after) = Len(array)
      /\ SubSeq(after, 1, len - n) = DropFront(SubSeq(array, 1, len), n)
  BY <1>1, CopyKeeps
<1> HIDE DEF after
<1>3. after \in Seq(Nat) /\ Holds(after, len - n, DropFront(buf, n))
  <2>1. SubSeq(after, 1, len - n) = DropFront(buf, n)
    BY <1>1, <1>2
  <2>2. len - n <= Len(after)
    BY <1>1, <1>2
  <2>3. QED
    BY <1>2, <2>1, <2>2 DEF Holds
<1>4. array' \in Seq(Nat) /\ Holds(array', len', buf')
  BY <1>3, Zenon DEF after
<1>5. QED
  BY <1>4 DEF ArrayInv, MemoryTypes, ArrayHoldsBuffer, Holds, Live

LEMMA ArrayInvStep ==
  ASSUME BufferInv, ArrayInv, [MNext]_allVars
  PROVE  ArrayInv'
<1>1. /\ buf \in Seq(Nat) /\ len \in Int /\ frameLen \in Nat
      /\ len >= 0 => len = Len(buf) /\ Live = buf
      /\ array \in Seq(Nat) /\ kept \in [from : Nat, size : Nat, old : Seq(Nat)]
      /\ len < 0 => buf = <<>>
  BY BufferInvFacts, LiveIsBuffer DEF ArrayInv, MemoryTypes
<1>2. CASE MReceive
  BY <1>2, ArrayInvReceive
<1>3. CASE MAlign
  <2>1. len = Len(buf) /\ Live = buf
    BY <1>1, <1>3 DEF MAlign, Align, Wait, BufferInv, PushContext
  <2>2. AlignShift(buf) \in 0..len
    BY <1>1, <2>1, AlignShiftProperties
  <2>3. QED
    BY <1>3, <2>1, <2>2, ArrayInvCut DEF MAlign, Align, Wait, AlignMagicFront
<1>4. CASE MDeliver
  <2>1. UNCHANGED <<array, buf, len>> /\ Sliceable(buf) /\ Live = buf
    BY <1>1, <1>4 DEF MDeliver, Deliver
  <2>2. PayloadLen(Live) \in Nat
    BY <1>1, <2>1, LayoutType DEF Sliceable, PayloadLen
  <2>3. kept' \in [from : Nat, size : Nat, old : Seq(Nat)]
    BY <1>4, <2>2, LayoutType DEF MDeliver, Payloads, NoArray
  <2>4. QED
    BY <2>1, <2>3 DEF ArrayInv, MemoryTypes, ArrayHoldsBuffer, Live
<1>5. CASE MConsume
  <2>1. CASE DecodeFails /\ onDecodeError /\ array' = CopiedWithin(array, FrameLen(Live), len) /\ kept' = kept
    <3>1. len = Len(buf) /\ Live = buf /\ Sliceable(buf)
      BY <1>1, <2>1 DEF DecodeFails
    <3>2. FrameLen(buf) \in 0..len
      BY <1>1, <3>1, FrameLenProperties
    <3>3. QED
      BY <2>1, <3>1, <3>2, ArrayInvCut DEF DecodeFails
  <2>2. CASE /\ CallbackReturns \/ (CallbackThrowsBoatConnectError /\ onDecodeError)
             /\ array' = CopiedWithin(array, frameLen, len) /\ kept' = kept
    <3>1. pc = "callback" /\ buf' = DropFront(buf, frameLen) /\ len' = len - frameLen
      BY <2>2 DEF CallbackReturns, CallbackThrowsBoatConnectError, Consume
    <3>2. CASE buf = <<>> /\ len = 0 /\ frameLen > 0
      <4>1. CopiedWithin(array, frameLen, len) = array
        BY <1>1, <3>2, CopyNothing
      <4>2. len - frameLen < 0
        BY <1>1, <3>2
      <4>3. Holds(array, len - frameLen, DropFront(buf, frameLen))
        BY <1>1, <4>2 DEF Holds
      <4>4. array' \in Seq(Nat) /\ Holds(array', len', buf')
        BY <1>1, <2>2, <3>1, <4>1, <4>3, Zenon
      <4>5. QED
        BY <1>1, <2>2, <4>4 DEF ArrayInv, MemoryTypes, ArrayHoldsBuffer, Holds, Live
    <3>3. CASE Sliceable(buf) /\ frameLen = FrameLen(buf) /\ len = Len(buf)
      <4>1. FrameLen(buf) \in 0..len
        BY <1>1, <3>3, FrameLenProperties
      <4>2. QED
        BY <2>2, <3>1, <3>3, <4>1, ArrayInvCut
    <3>4. QED
      BY <3>1, <3>2, <3>3 DEF BufferInv, PushContext
  <2>3. QED
    BY <1>5, <2>1, <2>2 DEF MConsume
<1>6. CASE MReset
  <2>1. array' = <<>> /\ buf' = <<>> /\ (len' = 0 \/ len' < 0)
        /\ len' \in Int /\ kept' = Replaced
    <3>1. CASE Reset \/ ResetInCallback
      BY <1>6, <3>1 DEF MReset, Reset, ResetInCallback, ResetBuffer, NoArray
    <3>2. CASE DecodeHandlerResets
      <4>1. FrameLen(buf) \in Nat /\ FrameLen(buf) > 0
        BY <1>1, <3>2, FrameLenProperties, BufferInvFacts DEF DecodeHandlerResets
      <4>2. QED
        BY <1>6, <3>2, <4>1 DEF MReset, DecodeHandlerResets, NoArray
    <3>3. QED
      BY <1>6, <3>1, <3>2 DEF MReset
  <2>2. kept' \in [from : Nat, size : Nat, old : Seq(Nat)]
    BY <1>1, <2>1 DEF Replaced
  <2>3. <<>> \in Seq(Nat) /\ Holds(<<>>, len', <<>>)
    <3>1. Holds(<<>>, 0, <<>>)
      BY DEF Holds
    <3>2. CASE len' = 0
      BY <3>1, <3>2
    <3>3. CASE len' < 0
      BY <2>1, <3>3 DEF Holds
    <3>4. QED
      BY <2>1, <3>2, <3>3
  <2>4. array' \in Seq(Nat) /\ Holds(array', len', buf')
    BY <2>1, <2>3, Zenon
  <2>5. QED
    BY <2>2, <2>4 DEF ArrayInv, MemoryTypes, ArrayHoldsBuffer, Holds, Live
<1>7. CASE MLeave
  <2>1. UNCHANGED <<array, kept, buf, len>>
    BY <1>7 DEF MLeave, LoopExit, CallbackThrows, DecodeHandlerThrows, DecodeFails,
                CallbackThrowsBoatConnectError, memoryVars
  <2>2. QED
    BY <2>1 DEF ArrayInv, MemoryTypes, ArrayHoldsBuffer, Live
<1>8. CASE UNCHANGED allVars
  BY <1>8 DEF allVars, vars, memoryVars, ArrayInv, MemoryTypes, ArrayHoldsBuffer, Live
<1>9. QED
  BY <1>2, <1>3, <1>4, <1>5, <1>6, <1>7, <1>8 DEF MNext

LEMMA MemoryBuffer == MSpec => []BufferInv
BY MemoryIsParser, BufferInvariant, PTL

LEMMA ArrayInvariant == MSpec => []ArrayInv
<1>1. MInit => ArrayInv
  <2> SUFFICES ASSUME MInit PROVE ArrayInv
    OBVIOUS
  <2>1. array = <<>> /\ kept = [from |-> 0, size |-> 0, old |-> <<>>] /\ len = 0 /\ buf = <<>>
    BY DEF MInit, Init, NoArray
  <2>2. MemoryTypes
    BY <2>1 DEF MemoryTypes
  <2>3. 0 <= Len(<<>>) /\ SubSeq(<<>>, 1, 0) = <<>>
    OBVIOUS
  <2>4. ArrayHoldsBuffer
    BY <2>1, <2>3 DEF ArrayHoldsBuffer, Live
  <2>5. QED
    BY <2>2, <2>4 DEF ArrayInv
<1>2. BufferInv /\ ArrayInv /\ [MNext]_allVars => ArrayInv'
  BY ArrayInvStep
<1>3. QED
  BY <1>1, <1>2, MemoryBuffer, PTL DEF MSpec

\* The array always holds the bytes the parser was given and has not consumed, at its
\* front and in their order.
THEOREM ArrayFaithful == MSpec => []ArrayHoldsBuffer
<1>1. ArrayInv => ArrayHoldsBuffer
  BY DEF ArrayInv
<1>2. QED
  BY <1>1, ArrayInvariant, PTL

-----------------------------------------------------------------------------
(***************************************************************************)
(* The payload given to onFrame.                                           *)
(***************************************************************************)

\* While onFrame runs, the frame at the front is the one that was offered last, and
\* push() goes on after it only when other bytes have been received.
FrontIsLast ==
  /\ pc = "callback" /\ buf # <<>> => seen # <<>> /\ Last(seen) = head
  /\ seen # <<>> /\ pc \in {"align", "loop"} /\ got = FrameEnd(stream, Last(seen)) => buf = <<>>

\* What OfferInv says of the frame offered last.
LEMMA LastFacts ==
  ASSUME OfferInv, seen # <<>>
  PROVE  Last(seen) \in Nat /\ FrameEnd(stream, Last(seen)) \in 0..got
<1>1. seen \in Seq(Nat)
  BY DEF OfferInv, BufferInv, TypeOK
<1>2. Len(seen) \in DOMAIN seen /\ seen[Len(seen)] \in Nat
  BY <1>1
<1>3. QED
  BY <1>2 DEF OfferInv, SeenSettled, SettledAt, Last

\* A frame at the front that ends with the last byte received is the whole buffer.
LEMMA FrontEnds ==
  ASSUME BufferInv, Sliceable(buf)
  PROVE  /\ FrameLen(buf) \in 1..Len(buf)
         /\ FrameEnd(stream, head) = got => FrameLen(buf) = Len(buf)
<1>1. /\ buf \in Seq(Nat) /\ buf # <<>> /\ stream \in Seq(Nat) /\ got \in 0..Len(stream)
      /\ IsWindow(buf, Len(buf), stream, got)
  BY BufferInvFacts, SliceableFacts
<1>2. FrameEnd(stream, head) = head + FrameLen(buf)
  BY <1>1, FrameInWindow DEF head
<1>3. FrameLen(buf) \in 1..Len(buf)
  BY <1>1, FrameLenProperties
<1>4. QED
  BY <1>1, <1>2, <1>3 DEF head

LEMMA FrontIsLastStep ==
  ASSUME OfferInv, FrontIsLast, [Next]_vars
  PROVE  FrontIsLast'
<1>1. /\ buf \in Seq(Nat) /\ len \in Int /\ frameLen \in Nat /\ got \in Nat
      /\ stream \in Seq(Nat) /\ BufferInv /\ seen \in Seq(Nat)
      /\ len = Len(buf) \/ (len < 0 /\ buf = <<>>)
  BY BufferInvFacts DEF OfferInv, BufferInv, TypeOK
<1>2. CASE Receive
  <2>1. PICK n \in 1..(Len(stream) - got) : Push(n) \/ PushThrows(n)
    BY <1>2 DEF Receive
  <2>2. got' = got + n /\ seen' = seen /\ stream' = stream /\ pc' # "callback"
    BY <2>1 DEF Push, PushThrows
  <2>3. seen # <<>> => got + n # FrameEnd(stream, Last(seen))
    BY <1>1, <2>1, LastFacts
  <2>4. QED
    BY <2>2, <2>3 DEF FrontIsLast
<1>3. CASE Align \/ Wait
  <2>1. buf = <<>> => AlignMagicFront(buf) = <<>>
    BY LayoutType DEF AlignMagicFront, AlignShift, DropFront
  <2>2. UNCHANGED <<seen, stream, got>> /\ buf' = AlignMagicFront(buf)
        /\ pc \in {"align", "loop"} /\ pc' # "callback"
    BY <1>3 DEF Align, Wait
  <2>3. QED
    BY <2>1, <2>2 DEF FrontIsLast
<1>4. CASE Deliver
  <2>1. seen' = Append(seen, head) /\ UNCHANGED <<buf, got>> /\ pc' = "callback"
    BY <1>4 DEF Deliver
  <2>2. Append(seen, head) # <<>> /\ Last(Append(seen, head)) = head
    <3>1. seen \in Seq(Int) /\ head \in Int
      BY <1>1 DEF head
    <3>2. /\ Append(seen, head) # <<>> /\ Len(Append(seen, head)) = Len(seen) + 1
          /\ Append(seen, head)[Len(seen) + 1] = head
      BY <3>1, AppendProperties
    <3>3. QED
      BY <3>2, Zenon DEF Last
  <2>3. head' = head
    BY <2>1 DEF head
  <2>4. QED
    BY <2>1, <2>2, <2>3 DEF FrontIsLast
<1>5. CASE DecodeFails
  <2>1. Sliceable(buf) /\ buf # <<>> /\ pc = "loop" /\ UNCHANGED <<seen, stream, got>>
        /\ pc' # "callback"
    BY <1>1, <1>5, SliceableFacts DEF DecodeFails
  <2>2. QED
    BY <2>1 DEF FrontIsLast
<1>6. CASE CallbackReturns \/ (CallbackThrowsBoatConnectError /\ onDecodeError)
  <2>1. pc = "callback" /\ buf' = DropFront(buf, frameLen) /\ pc' = "loop"
        /\ UNCHANGED <<seen, stream, got>>
    BY <1>6 DEF CallbackReturns, CallbackThrowsBoatConnectError, Consume
  <2>2. CASE buf = <<>>
    <3>1. DropFront(buf, frameLen) = <<>>
      BY <1>1, <2>2 DEF DropFront
    <3>2. QED
      BY <2>1, <3>1 DEF FrontIsLast
  <2>3. CASE buf # <<>>
    <3>1. Sliceable(buf) /\ frameLen = FrameLen(buf)
      BY <1>1, <2>1, <2>3 DEF BufferInv, PushContext
    <3>2. seen # <<>> /\ Last(seen) = head
      BY <2>1, <2>3 DEF FrontIsLast
    <3>3. got = FrameEnd(stream, head) => DropFront(buf, frameLen) = <<>>
      BY <1>1, <3>1, FrontEnds DEF DropFront
    <3>4. QED
      BY <2>1, <3>2, <3>3 DEF FrontIsLast
  <2>4. QED
    BY <2>2, <2>3
<1>7. CASE \/ CallbackThrows \/ DecodeHandlerThrows \/ Reset
           \/ CallbackThrowsBoatConnectError /\ ~onDecodeError
  <2>1. pc' = "idle"
    BY <1>7 DEF CallbackThrows, DecodeHandlerThrows, Reset, CallbackThrowsBoatConnectError
  <2>2. QED
    BY <2>1 DEF FrontIsLast
<1>8. CASE LoopExit
  BY <1>8 DEF LoopExit, FrontIsLast
<1>9. CASE ResetInCallback \/ DecodeHandlerResets
  BY <1>9 DEF ResetInCallback, DecodeHandlerResets, ResetBuffer, FrontIsLast
<1>10. CASE UNCHANGED vars
  BY <1>10 DEF vars, FrontIsLast, head
<1>11. QED
  BY <1>2, <1>3, <1>4, <1>5, <1>6, <1>7, <1>8, <1>9, <1>10 DEF Next, PushStep, UserFault

ViewOf(a, k) ==
  SubSeq(IF k.old = NoArray THEN a ELSE k.old, k.from + 1, k.from + k.size)

\* A step that leaves the view alone, and after which it is to be good only if it was before.
LEMMA ViewStands ==
  ASSUME PayloadKept, UNCHANGED <<stream, seen>>, kept'.size = kept.size,
         ViewOf(array', kept') = ViewOf(array, kept),
         seen # <<>> /\ (pc' = "callback" \/ got' = FrameEnd(stream, Last(seen)))
           => pc = "callback" \/ got = FrameEnd(stream, Last(seen))
  PROVE  PayloadKept'
<1>1. View' = View
  BY Zenon DEF View, ViewOf
<1>2. QED
  BY <1>1 DEF PayloadKept

\* The p cells of a sequence that follow its first k.
LEMMA PieceProperties ==
  ASSUME NEW s \in Seq(Nat), NEW k \in Nat, NEW p \in Nat, k + p <= Len(s)
  PROVE  /\ SubSeq(s, k + 1, k + p) \in Seq(Nat) /\ Len(SubSeq(s, k + 1, k + p)) = p
         /\ \A i \in 1..p : SubSeq(s, k + 1, k + p)[i] = s[k + i]
<1> DEFINE v == SubSeq(s, k + 1, k + p)
<1>1. \A i \in (k + 1)..(k + p) : s[i] \in Nat
  OBVIOUS
<1>2. k + 1 \in Int /\ k + p \in Int
  OBVIOUS
<1>3. /\ v \in Seq(Nat)
      /\ Len(v) = IF k + 1 <= k + p THEN (k + p) - (k + 1) + 1 ELSE 0
      /\ \A i \in 1..((k + p) - (k + 1) + 1) : v[i] = s[(k + 1) + i - 1]
  BY <1>1, <1>2, SubSeqProperties
<1> HIDE DEF v
<1>4. Len(v) = p
  BY <1>3
<1>5. ASSUME NEW i \in 1..p PROVE v[i] = s[k + i]
  <2>1. i \in 1..((k + p) - (k + 1) + 1) /\ (k + 1) + i - 1 = k + i
    OBVIOUS
  <2>2. v[i] = s[(k + 1) + i - 1]
    BY <1>3, <2>1
  <2>3. QED
    BY <2>1, <2>2
<1>6. QED
  BY <1>3, <1>4, <1>5 DEF v

\* What a frame of the buffer has for payload.
LEMMA PayloadInStream ==
  ASSUME BufferInv, ArrayInv, len > 0, Sliceable(buf), NEW p, p = PayloadLen(buf)
  PROVE  SubSeq(array, FrameHeaderSize + 1, FrameHeaderSize + p)
           = SubSeq(stream, head + FrameHeaderSize + 1, head + FrameHeaderSize + p)
<1>1. /\ array \in Seq(Nat) /\ buf \in Seq(Nat) /\ stream \in Seq(Nat) /\ got \in 0..Len(stream)
      /\ len = Len(buf) /\ IsWindow(buf, Len(buf), stream, got)
      /\ len <= Len(array) /\ SubSeq(array, 1, len) = buf
  BY BufferInvFacts DEF ArrayInv, MemoryTypes, ArrayHoldsBuffer, Live
<1>2. p \in Nat /\ FrameHeaderSize + p <= Len(buf) /\ FrameHeaderSize \in Nat
  <2>1. FrameHeaderSize \in 1..Len(buf) /\ CrcSize \in Nat /\ FrameLen(buf) <= Len(buf)
    BY <1>1, LayoutType DEF Sliceable
  <2>2. p \in Nat
    BY <1>1, <2>1 DEF PayloadLen
  <2>3. FrameLen(buf) = FrameHeaderSize + p + CrcSize
    BY DEF FrameLen, EndPayload
  <2>4. Len(buf) \in Nat
    BY <1>1
  <2>5. QED
    BY <2>1, <2>2, <2>3, <2>4
<1>3. head \in 0..got /\ got = head + Len(buf) /\ buf = SubSeq(stream, head + 1, got)
  BY <1>1 DEF IsWindow, head
<1> DEFINE k == FrameHeaderSize
           v == SubSeq(array, k + 1, k + p)
           w == SubSeq(stream, head + k + 1, head + k + p)
<1>4. v \in Seq(Nat) /\ Len(v) = p /\ \A i \in 1..p : v[i] = array[k + i]
  <2>1. FrameHeaderSize + p <= Len(array)
    BY <1>1, <1>2
  <2>2. QED
    BY <1>1, <1>2, <2>1, PieceProperties
<1>5. w \in Seq(Nat) /\ Len(w) = p /\ \A i \in 1..p : w[i] = stream[head + k + i]
  <2>1. head + k \in Nat /\ (head + k) + p <= Len(stream)
    BY <1>1, <1>2, <1>3
  <2>2. QED
    BY <1>1, <1>2, <2>1, PieceProperties
<1>6. \A i \in 1..Len(buf) : array[i] = buf[i]
  BY <1>1
<1>7. \A i \in 1..Len(buf) : buf[i] = stream[head + i]
  <2> HIDE DEF head
  <2> TAKE i \in 1..Len(buf)
  <2>1. i \in 1..(got - head)
    BY <1>1, <1>3
  <2>2. SubSeq(stream, head + 1, got)[i] = stream[head + i]
    BY <1>1, <1>3, <2>1, WindowElement
  <2>3. QED
    BY <1>3, <2>2, Zenon
<1>8. \A i \in 1..p : array[k + i] = stream[head + k + i]
  <2> TAKE i \in 1..p
  <2>1. k + i \in 1..Len(buf)
    BY <1>1, <1>2
  <2>2. array[k + i] = stream[head + (k + i)]
    BY <1>6, <1>7, <2>1
  <2>3. head + (k + i) = head + k + i
    BY <1>2, <1>3
  <2>4. QED
    BY <2>2, <2>3
<1> HIDE DEF k, v, w
<1>9. v = w
  BY <1>4, <1>5, <1>8, SeqEqual
<1>10. QED
  BY <1>9 DEF k, v, w

PayloadInv == FrontIsLast /\ PayloadKept

LEMMA PayloadInvStep ==
  ASSUME OfferInv, ArrayInv, PayloadInv, [MNext]_allVars
  PROVE  PayloadInv'
<1>1. FrontIsLast' /\ FrontIsLast /\ PayloadKept /\ BufferInv
  BY MemoryStepIsStep, FrontIsLastStep DEF PayloadInv, OfferInv
<1>2. /\ buf \in Seq(Nat) /\ len \in Int /\ frameLen \in Nat /\ got \in Nat
      /\ stream \in Seq(Nat) /\ seen \in Seq(Nat)
      /\ len = Len(buf) \/ (len < 0 /\ buf = <<>>)
      /\ array \in Seq(Nat) /\ kept \in [from : Nat, size : Nat, old : Seq(Nat)]
      /\ len >= 0 => Live = buf
  BY <1>1, BufferInvFacts, LiveIsBuffer DEF ArrayInv, MemoryTypes, BufferInv, TypeOK
<1>3. CASE MReceive
  <2>1. PICK n \in 1..(Len(stream) - got) : Push(n) \/ PushThrows(n)
    BY <1>3 DEF MReceive, Receive
  <2>2. got' = got + n /\ seen' = seen /\ stream' = stream /\ pc' # "callback"
    BY <2>1 DEF Push, PushThrows
  <2>3. seen # <<>> => got + n # FrameEnd(stream, Last(seen))
    BY <1>2, <2>1, LastFacts
  <2>4. QED
    BY <1>1, <2>2, <2>3 DEF PayloadInv, PayloadKept
<1>4. CASE MAlign
  <2>1. /\ UNCHANGED <<stream, seen, got, kept>> /\ pc \in {"align", "loop"} /\ pc' # "callback"
        /\ array' = CopiedWithin(array, AlignShift(Live), len)
    BY <1>4 DEF MAlign, Align, Wait
  <2>2. CASE seen # <<>> /\ got = FrameEnd(stream, Last(seen))
    <3>1. buf = <<>> /\ len = 0
      BY <1>1, <1>2, <1>4, <2>1, <2>2
         DEF FrontIsLast, MAlign, Align, Wait, BufferInv, PushContext
    <3>2. AlignShift(Live) = 0
      BY <1>2, <3>1, LayoutType DEF AlignShift
    <3>3. array' = array
      BY <1>2, <2>1, <3>1, <3>2, CopyNothing
    <3>4. QED
      BY <1>1, <2>1, <3>3, ViewStands DEF PayloadInv, ViewOf
  <2>3. CASE ~(seen # <<>> /\ got = FrameEnd(stream, Last(seen)))
    BY <1>1, <2>1, <2>3 DEF PayloadInv, PayloadKept
  <2>4. QED
    BY <2>2, <2>3
<1>5. CASE MDeliver
  <2>1. /\ Sliceable(buf) /\ len > 0 /\ seen' = Append(seen, head)
        /\ kept' = Payloads /\ UNCHANGED <<array, stream>>
    BY <1>5 DEF MDeliver, Deliver
  <2>2. Last(Append(seen, head)) = head
    BY <1>2 DEF Last
  <2> DEFINE p == PayloadLen(buf)
  <2>3. kept' = [from |-> FrameHeaderSize, size |-> p, old |-> NoArray]
    BY <1>2, <2>1 DEF Payloads
  <2>4. SubSeq(array, FrameHeaderSize + 1, FrameHeaderSize + p)
          = SubSeq(stream, head + FrameHeaderSize + 1, head + FrameHeaderSize + p)
    BY <1>1, <2>1, PayloadInStream
  <2> HIDE DEF p
  <2>5. View' = SubSeq(array, FrameHeaderSize + 1, FrameHeaderSize + p)
    <3>1. kept'.from = FrameHeaderSize /\ kept'.size = p /\ kept'.old = NoArray
      BY <2>3
    <3>2. QED
      BY <2>1, <3>1, Zenon DEF View
  <2>6. Last(seen') = head /\ stream' = stream /\ kept'.size = p
    BY <2>1, <2>2, <2>3
  <2>7. PayloadKept'
    BY <2>4, <2>5, <2>6 DEF PayloadKept
  <2>8. QED
    BY <1>1, <2>7 DEF PayloadInv
<1>6. CASE MConsume
  <2>1. CASE DecodeFails
    <3>1. Sliceable(buf) /\ buf # <<>> /\ pc = "loop" /\ UNCHANGED <<seen, stream, got>>
          /\ pc' # "callback"
      BY <1>2, <2>1, SliceableFacts DEF DecodeFails
    <3>2. QED
      BY <1>1, <3>1 DEF PayloadInv, PayloadKept, FrontIsLast
  <2>2. CASE /\ CallbackReturns \/ (CallbackThrowsBoatConnectError /\ onDecodeError)
             /\ array' = CopiedWithin(array, frameLen, len) /\ kept' = kept
    <3>1. pc = "callback" /\ pc' = "loop" /\ UNCHANGED <<seen, stream, got>>
      BY <2>2 DEF CallbackReturns, CallbackThrowsBoatConnectError, Consume
    <3>2. CASE seen # <<>> /\ got = FrameEnd(stream, Last(seen))
      <4>1. len <= frameLen
        <5>1. CASE buf = <<>>
          BY <1>2, <5>1
        <5>2. CASE buf # <<>>
          <6>1. Sliceable(buf) /\ frameLen = FrameLen(buf) /\ len = Len(buf)
            BY <1>1, <3>1, <5>2 DEF BufferInv, PushContext
          <6>2. Last(seen) = head
            BY <1>1, <3>1, <5>2 DEF FrontIsLast
          <6>3. QED
            BY <1>1, <1>2, <3>2, <6>1, <6>2, FrontEnds
        <5>3. QED
          BY <5>1, <5>2
      <4>2. array' = array
        BY <1>2, <2>2, <4>1, CopyNothing
      <4>3. QED
        BY <1>1, <2>2, <3>1, <4>2, ViewStands DEF PayloadInv, ViewOf
    <3>3. CASE ~(seen # <<>> /\ got = FrameEnd(stream, Last(seen)))
      BY <1>1, <3>1, <3>3 DEF PayloadInv, PayloadKept
    <3>4. QED
      BY <3>2, <3>3
  <2>3. QED
    BY <1>6, <2>1, <2>2 DEF MConsume
<1>7. CASE MReset
  <2>1. array' = NoArray /\ kept' = Replaced /\ UNCHANGED <<pc, stream, seen, got>>
    BY <1>7 DEF MReset, Reset, ResetInCallback, DecodeHandlerResets
  <2>2. kept' = [from |-> kept.from, size |-> kept.size,
                 old |-> IF kept.old = NoArray THEN array ELSE kept.old]
    BY <1>2, <2>1 DEF Replaced
  <2>3. ViewOf(array', kept') = ViewOf(array, kept) /\ kept'.size = kept.size
    <3>1. /\ kept'.from = kept.from /\ kept'.size = kept.size
          /\ kept'.old = IF kept.old = NoArray THEN array ELSE kept.old
      BY <2>2
    <3>2. (IF kept'.old = NoArray THEN array' ELSE kept'.old)
            = IF kept.old = NoArray THEN array ELSE kept.old
      BY <2>1, <3>1
    <3>3. QED
      BY <3>1, <3>2, Zenon DEF ViewOf
  <2>4. QED
    BY <1>1, <2>1, <2>3, ViewStands DEF PayloadInv
<1>8. CASE MLeave
  <2>1. UNCHANGED <<array, kept, seen, stream, got>> /\ pc' # "callback"
    BY <1>8 DEF MLeave, LoopExit, CallbackThrows, DecodeHandlerThrows, DecodeFails,
                CallbackThrowsBoatConnectError, memoryVars
  <2>2. QED
    BY <1>1, <2>1, ViewStands DEF PayloadInv
<1>9. CASE UNCHANGED allVars
  BY <1>1, <1>9, ViewStands DEF PayloadInv, allVars, vars, memoryVars
<1>10. QED
  BY <1>3, <1>4, <1>5, <1>6, <1>7, <1>8, <1>9 DEF MNext

\* The payload given to onFrame is what the peer sent until the next byte comes, although
\* it is a view of an array that the parser moves, grows and replaces.
THEOREM PayloadStays == MSpec => []PayloadKept
<1>1. MInit => PayloadInv
  BY DEF MInit, Init, PayloadInv, FrontIsLast, PayloadKept
<1>2. MSpec => []OfferInv
  BY MemoryIsParser, OfferInvariant, PTL
<1>3. OfferInv /\ ArrayInv /\ PayloadInv /\ [MNext]_allVars => PayloadInv'
  BY PayloadInvStep
<1>4. PayloadInv => PayloadKept
  BY DEF PayloadInv
<1>5. QED
  BY <1>1, <1>2, <1>3, <1>4, ArrayInvariant, PTL DEF MSpec
=============================================================================
