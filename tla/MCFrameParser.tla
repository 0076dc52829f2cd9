--------------------------- MODULE MCFrameParser ---------------------------
(***************************************************************************)
(* Small instances of FrameParser: streams of up to three pieces, each a   *)
(* frame, a damaged frame or noise.                                        *)
(***************************************************************************)
EXTENDS FrameParser, SequencesExt

MCMagic == <<7, 8>>

\* A checksum that tells apart all the byte strings of these instances.
MCCrc(s) == FoldLeft(LAMBDA acc, x : (acc * 31 + x + 1) % 9973, 7, s)

Msg(type, boat, seq, payload) ==
  EncodeFrame([version |-> 1, msgType |-> type, boatId |-> boat, seq |-> seq,
               payload |-> payload])

Hb == Msg(Heartbeat, 1, 1, <<>>)
Tel == Msg(TelemetrySummary, 2, 2, <<7, 8>>)   \* its payload holds the magic
Carrier == Msg(5, 1, 3, Hb)                    \* a frame carried in a payload
BadCrc == [Hb EXCEPT ![Len(Hb)] = @ + 1]
BadVersion ==
  EncodeFrame([version |-> 2, msgType |-> 0, boatId |-> 1, seq |-> 4, payload |-> <<>>])
FullHeartbeat == Msg(Heartbeat, 1, 5, <<9>>)
ShortTelemetry == Msg(TelemetrySummary, 1, 6, <<9>>)
TornTel == RemoveAt(Tel, Len(Tel) - 1)         \* one byte lost on the line
Noise == <<9, 9, 9>>
HalfMagic == <<9, 7>>
FalseMagic == <<7, 7, 8, 9>>
Oversize == <<7, 8, 1, 5, 1, 7, MaxPayload + 1, 9>>

Framed == {Hb, Tel, Carrier, BadCrc, BadVersion, FullHeartbeat, ShortTelemetry}
Noisy == {Hb, Tel, BadCrc, TornTel, Noise, HalfMagic, FalseMagic}

StreamsOf(pieces, n) ==
  {FlattenSeq(s) : s \in UNION {[1..k -> pieces] : k \in 1..n}}

CleanStreams ==
  StreamsOf({Hb, Tel, BadCrc}, 2) \cup {Carrier \o Hb, Tel \o Hb \o Tel, BadCrc \o Tel \o Hb}
FaultyStreams ==
  StreamsOf(Noisy, 2) \cup StreamsOf(Framed, 2) \cup StreamsOf({Hb, BadCrc, Noise, HalfMagic}, 3)
  \cup {BadCrc \o Carrier \o Hb, Hb \o Carrier \o BadCrc, Hb \o Noise \o Hb \o Hb}
OversizeStreams == StreamsOf({Hb, Oversize}, 2)

\* The offsets of the frames of a stream of frames, by walking it.
MCFrameStarts(s) ==
  LET from[c \in 0..Len(s)] ==
        IF c < Len(s) /\ Sliceable(Suffix(s, c))
          THEN {c} \cup from[FrameEnd(s, c)]
          ELSE {c}
  IN  from[0]
=============================================================================
