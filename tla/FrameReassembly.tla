-------------------------- MODULE FrameReassembly --------------------------
(***************************************************************************)
(* What a reassembler of BTC1 frames promises to its user, without chunks, *)
(* buffers or call stacks: the consumer is offered, in stream order, the   *)
(* frames of the received bytes; a byte leaves the pending bytes only      *)
(*   - with the frame it belongs to, after that frame was offered,         *)
(*   - with a complete frame that does not decode,                         *)
(*   - as noise, when no magic starts at it,                               *)
(*   - when the user discards everything pending.                          *)
(* A consumer that fails gives the offered frame back: it stays at the     *)
(* front and is offered again (at least once, never out of order).         *)
(* Whatever the user does is counted, so that nothing is discarded unless  *)
(* the user did something just then.                                       *)
(***************************************************************************)
EXTENDS Frame

CONSTANT Streams    \* the byte streams a peer may send

VARIABLES
  stream,   \* the bytes of this connection, sent or not yet sent
  got,      \* how many of them were received
  head,     \* how many of them are settled (offered and retired, or dropped)
  seen,     \* the offsets of the frames offered, in order
  offered,  \* a frame is with the consumer
  unusable, \* what arrives is lost: the user discarded where that must not be done
  acts      \* how often the user failed or discarded

user == <<unusable, acts>>
vars == <<stream, got, head, seen, offered, user>>

Pending == SubSeq(stream, head + 1, got)

Init ==
  /\ stream \in Streams
  /\ got = 0 /\ head = 0 /\ seen = <<>> /\ offered = FALSE
  /\ unusable = FALSE /\ acts = 0

Receive ==
  /\ ~unusable
  /\ got' \in (got + 1)..Len(stream)
  /\ UNCHANGED <<stream, head, seen, offered, user>>

Offer ==
  /\ ~offered
  /\ Sliceable(Pending) /\ Decodes(SliceFrame(Pending))
  /\ seen' = Append(seen, head)
  /\ offered' = TRUE
  /\ UNCHANGED <<stream, got, head, user>>

\* The consumer is done with it, or fails in a way that counts as done.
Retire ==
  /\ offered
  /\ head' = head + FrameLen(Pending)
  /\ offered' = FALSE
  /\ acts' \in {acts, acts + 1}
  /\ UNCHANGED <<stream, got, seen, unusable>>

\* The user fails, with or without a frame: nothing is lost.
GiveBack ==
  /\ offered' = FALSE
  /\ acts' = acts + 1
  /\ UNCHANGED <<stream, got, head, seen, unusable>>

DropUndecodable ==
  /\ ~offered
  /\ Sliceable(Pending) /\ ~Decodes(SliceFrame(Pending))
  /\ head' = head + FrameLen(Pending)
  /\ UNCHANGED <<stream, got, seen, offered, user>>

DropNoise ==
  /\ ~offered
  /\ \E n \in 1..Len(Pending) :
       /\ \A i \in 0..(n - 1) : i + MagicLen <= Len(Pending) /\ ~MagicAt(Pending, i)
       /\ head' = head + n
  /\ UNCHANGED <<stream, got, seen, offered, user>>

\* The user discards what is pending, which may make the reassembler unusable or
\* usable again.
Discard ==
  /\ head' = got
  /\ offered' = FALSE
  /\ acts' = acts + 1 /\ unusable' \in BOOLEAN
  /\ UNCHANGED <<stream, got, seen>>

Lose ==
  /\ unusable /\ head = got
  /\ got' \in (got + 1)..Len(stream)
  /\ head' = got'
  /\ UNCHANGED <<stream, seen, offered, user>>

Next ==
  \/ Receive \/ Offer \/ Retire \/ GiveBack
  \/ DropUndecodable \/ DropNoise \/ Discard \/ Lose

Spec == Init /\ [][Next]_vars
=============================================================================
