----------------------------- MODULE StrokeRate -----------------------------
(***************************************************************************)
(* StrokeRateEstimator (src/src/metrics/stroke-rate.ts): peaks of a series *)
(* of samples, kept as a list of times of which the front is pruned lazily *)
(* (strokeHead first, splice when half the list is dead), and the count of *)
(* the peaks of a window.                                                  *)
(*                                                                         *)
(* Times and values are small integers.  Samples come in time order, as    *)
(* the class expects; the nowMs of spmAt() may be any time.  spmAt() is    *)
(* modelled up to the factor 60000 / spmWindowMs.                          *)
(***************************************************************************)
EXTENDS Integers, Sequences, FiniteSets

CONSTANTS
  Threshold,        \* options.threshold
  MinPeakInterval,  \* options.minPeakIntervalMs
  SpmWindow,        \* options.spmWindowMs
  Values,           \* sample values
  MaxTime,          \* bound on the times of samples and of questions
  MaxResets         \* bound on the calls of reset()

ASSUME StrokeAssumption ==
  /\ Threshold \in Int /\ Values \subseteq Int
  /\ MinPeakInterval \in Nat /\ SpmWindow \in Nat \ {0}
  /\ MaxTime \in Nat /\ MaxResets \in Nat

NoPeak == -1   \* lastPeakT = -Infinity
Times == 0..MaxTime

VARIABLES
  buf,          \* this.buf: the last samples, at most three
  lastPeakT,    \* this.lastPeakT
  strokeTimes,  \* this.strokeTimes
  strokeHead,   \* this.strokeHead
  peaks,        \* history: the times of all peaks since the last reset, in order
  latest,       \* history: the latest time given since then
  resets        \* bound: how often reset() was called

vars == <<buf, lastPeakT, strokeTimes, strokeHead, peaks, latest, resets>>

Init ==
  /\ buf = <<>> /\ lastPeakT = NoPeak
  /\ strokeTimes = <<>> /\ strokeHead = 0
  /\ peaks = <<>> /\ latest = 0 /\ resets = 0

Later(s, t) == IF s < t THEN t ELSE s

-----------------------------------------------------------------------------
(***************************************************************************)
(* pruneOldStrokes(nowMs): st and hd are strokeTimes and strokeHead, the   *)
(* results the two after it.                                               *)
(***************************************************************************)

\* Wrong on purpose: keeps the strokes of one window only.
HeadAfterOneWindow(st, hd, nowMs) ==
  CHOOSE h \in hd..Len(st) :
    /\ \A i \in (hd + 1)..h : st[i] < nowMs - SpmWindow
    /\ h < Len(st) => st[h + 1] >= nowMs - SpmWindow

\* The while loop: hd advances to the first stroke that is not too old.
HeadAfter(st, hd, nowMs) ==
  CHOOSE h \in hd..Len(st) :
    /\ \A i \in (hd + 1)..h : st[i] < nowMs - SpmWindow * 2
    /\ h < Len(st) => st[h + 1] >= nowMs - SpmWindow * 2

Pruned(st, hd, nowMs) ==
  LET h == HeadAfter(st, hd, nowMs)
  IN  IF h > 0 /\ h * 2 >= Len(st)
        THEN [times |-> SubSeq(st, h + 1, Len(st)), head |-> 0]
        ELSE [times |-> st, head |-> h]

SetStrokes(p) == strokeTimes' = p.times /\ strokeHead' = p.head

\* The loop of spmAt(), from the last stroke to the first outside the window.
CountFrom(p, start) ==
  LET stops == {i \in (p.head + 1)..Len(p.times) : p.times[i] < start}
      last == IF stops = {} THEN p.head
                            ELSE CHOOSE i \in stops : \A j \in stops : j <= i
  IN  Len(p.times) - last

\* What spmAt(nowMs) answers.
StrokesAt(nowMs) ==
  CountFrom(Pruned(strokeTimes, strokeHead, nowMs), nowMs - SpmWindow)

-----------------------------------------------------------------------------
LastThree(s) == IF Len(s) > 3 THEN Tail(s) ELSE s

IsPeak(b) ==
  /\ Len(b) = 3
  /\ b[1].v < b[2].v /\ b[2].v > b[3].v /\ b[2].v >= Threshold
  /\ lastPeakT = NoPeak \/ b[2].t - lastPeakT >= MinPeakInterval

\* Samples come in time order.
InOrder(tMs) == buf # <<>> => tMs >= buf[Len(buf)].t

PushSample(tMs, value) ==
  LET b == LastThree(Append(buf, [t |-> tMs, v |-> value]))
  IN  /\ InOrder(tMs)
      /\ buf' = b
      /\ IF IsPeak(b)
           THEN /\ lastPeakT' = b[2].t
                /\ peaks' = Append(peaks, b[2].t)
                /\ SetStrokes(Pruned(Append(strokeTimes, b[2].t), strokeHead, tMs))
           ELSE UNCHANGED <<lastPeakT, strokeTimes, strokeHead, peaks>>
      /\ latest' = Later(latest, tMs)
      /\ UNCHANGED resets

SpmAt(nowMs) ==
  /\ SetStrokes(Pruned(strokeTimes, strokeHead, nowMs))
  /\ latest' = Later(latest, nowMs)
  /\ UNCHANGED <<buf, lastPeakT, peaks, resets>>

\* Wrong on purpose: forgets to move the head back.
ResetKeepsHead ==
  /\ resets < MaxResets /\ resets' = resets + 1
  /\ buf' = <<>> /\ lastPeakT' = NoPeak
  /\ strokeTimes' = <<>> /\ UNCHANGED strokeHead
  /\ peaks' = <<>> /\ latest' = 0

Reset ==
  /\ resets < MaxResets /\ resets' = resets + 1
  /\ buf' = <<>> /\ lastPeakT' = NoPeak
  /\ strokeTimes' = <<>> /\ strokeHead' = 0
  /\ peaks' = <<>> /\ latest' = 0

Next ==
  \/ \E t \in Times, v \in Values : PushSample(t, v)
  \/ \E t \in Times : SpmAt(t)
  \/ Reset

Spec == Init /\ [][Next]_vars

-----------------------------------------------------------------------------
(***************************************************************************)
(* Properties.                                                             *)
(***************************************************************************)

\* The types of the variables; the head is a position of the list, and less than
\* half of the list is dead.
TypeOK ==
  /\ buf \in Seq([t : Times, v : Values]) /\ Len(buf) <= 3
  /\ lastPeakT \in Times \cup {NoPeak}
  /\ strokeTimes \in Seq(Times)
  /\ strokeHead \in 0..Len(strokeTimes)
  /\ strokeHead = 0 \/ strokeHead * 2 < Len(strokeTimes)
  /\ peaks \in Seq(Times) /\ latest \in Times /\ resets \in 0..MaxResets

\* The peaks of the window that ends at a time, and all from its start on.
WindowOf(nowMs) ==
  {i \in DOMAIN peaks : nowMs - SpmWindow <= peaks[i] /\ peaks[i] <= nowMs}

SinceWindowOf(nowMs) == {i \in DOMAIN peaks : nowMs - SpmWindow <= peaks[i]}

\* Pruning is not observable: asked for any time not more than a window before the
\* latest it was given, spmAt() counts every peak of the window that ends at that time,
\* however the list was pruned and spliced until then, and it counts none that is older
\* and none twice.  (Peaks after that time may be counted or not.)
CountsAllPeaks ==
  \A q \in Times :
    q + SpmWindow >= latest =>
      /\ Cardinality(WindowOf(q)) <= StrokesAt(q)
      /\ StrokesAt(q) <= Cardinality(SinceWindowOf(q))
=============================================================================
