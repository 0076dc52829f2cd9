-------------------------- MODULE StrokeRateProofs --------------------------
(***************************************************************************)
(* Theorems about StrokeRate, for every threshold, interval, window and    *)
(* set of sample values: pruning the list of strokes is not observable.    *)
(***************************************************************************)
EXTENDS StrokeRate, SequenceTheorems, FiniteSetTheorems, TLAPS

-----------------------------------------------------------------------------
(***************************************************************************)
(* Least and greatest numbers.                                             *)
(***************************************************************************)

\* A non-empty set of naturals has a least element, as < is well-founded.
LEMMA LeastNat ==
  ASSUME NEW T \in SUBSET Nat, T # {}
  PROVE  \E i \in T : \A j \in T : i <= j
<1> DEFINE R == {ss \in Nat \X Nat : ss[1] < ss[2]}
<1>1. IsWellFoundedOn(R, Nat)
  BY NatLessThanWellFounded DEF OpToRel
<1>2. PICK i \in T : \A j \in T : <<j, i>> \notin R
  <2> HIDE DEF R
  <2>1. QED
    BY <1>1, WFMin
<1>3. \A j \in T : <<j, i>> \in Nat \X Nat /\ ~(j < i)
  BY <1>2
<1>4. \A j \in T : ~(j < i) => i <= j
  OBVIOUS
<1>5. QED
  BY <1>3, <1>4

\* A non-empty set of positions up to n has a last one.
LEMMA LastPosition ==
  ASSUME NEW n \in Nat, NEW S \in SUBSET (1..n), S # {}
  PROVE  \E i \in S : \A j \in S : j <= i
<1> DEFINE T == {n - i : i \in S}
<1>1. T \in SUBSET Nat /\ T # {}
  <2>1. \A i \in S : n - i \in Nat
    OBVIOUS
  <2>2. QED
    BY <2>1
<1>2. PICK d \in T : \A e \in T : d <= e
  <2> HIDE DEF T
  <2>1. QED
    BY <1>1, LeastNat
<1>3. PICK i \in S : d = n - i
  OBVIOUS
<1>4. \A j \in S : n - i <= n - j
  BY <1>2, <1>3
<1>5. \A j \in 1..n : n - i <= n - j => j <= i
  OBVIOUS
<1>6. QED
  BY <1>4, <1>5

-----------------------------------------------------------------------------
(***************************************************************************)
(* pruneOldStrokes().                                                      *)
(***************************************************************************)

\* The while loop stops: at the first stroke that is not too old or at the end.
LEMMA HeadAfterStops ==
  ASSUME NEW st \in Seq(Times), NEW hd \in 0..Len(st), NEW now \in Int
  PROVE  /\ HeadAfter(st, hd, now) \in hd..Len(st)
         /\ \A i \in (hd + 1)..HeadAfter(st, hd, now) : st[i] < now - SpmWindow * 2
<1> DEFINE limit == now - SpmWindow * 2
           Young == {i \in (hd + 1)..Len(st) : st[i] >= limit}
           StopsAt(h) == /\ \A i \in (hd + 1)..h : st[i] < limit
                         /\ h < Len(st) => st[h + 1] >= limit
<1>1. Len(st) \in Nat /\ hd \in Nat /\ hd <= Len(st) /\ limit \in Int
      /\ \A i \in 1..Len(st) : st[i] \in Int
  BY StrokeAssumption DEF Times
<1>2. \E h \in hd..Len(st) : StopsAt(h)
  <2>1. CASE Young = {}
    <3>1. \A i \in (hd + 1)..Len(st) : i \in 1..Len(st) /\ ~(st[i] >= limit)
      BY <1>1, <2>1
    <3> HIDE DEF limit
    <3>2. \A i \in (hd + 1)..Len(st) : st[i] < limit
      BY <1>1, <3>1
    <3>3. Len(st) \in hd..Len(st) /\ StopsAt(Len(st))
      BY <1>1, <3>2
    <3>4. QED
      BY <3>3
  <2>2. CASE Young # {}
    <3>1. Young \in SUBSET Nat
      BY <1>1
    <3>2. PICK y \in Young : \A j \in Young : y <= j
      <4> HIDE DEF Young
      <4>1. QED
        BY <2>2, <3>1, LeastNat
    <3>3. y \in (hd + 1)..Len(st) /\ st[y] >= limit
      OBVIOUS
    <3>4. \A i \in (hd + 1)..(y - 1) : i \in 1..Len(st) /\ ~(st[i] >= limit)
      <4> TAKE i \in (hd + 1)..(y - 1)
      <4>1. i \in (hd + 1)..Len(st) /\ i \in 1..Len(st) /\ ~(y <= i)
        BY <1>1, <3>3
      <4>2. i \notin Young
        BY <3>2, <4>1
      <4>3. QED
        BY <4>1, <4>2
    <3> HIDE DEF limit
    <3>5. \A i \in (hd + 1)..(y - 1) : st[i] < limit
      BY <1>1, <3>4
    <3>6. y - 1 \in hd..Len(st) /\ (y - 1) + 1 = y
      BY <1>1, <3>3
    <3>7. StopsAt(y - 1)
      BY <3>3, <3>5, <3>6
    <3>8. QED
      BY <3>6, <3>7
  <2>3. QED
    BY <2>1, <2>2
<1>3. HeadAfter(st, hd, now) = CHOOSE h \in hd..Len(st) : StopsAt(h)
  BY DEF HeadAfter
<1> DEFINE h == HeadAfter(st, hd, now)
<1>4. h \in hd..Len(st) /\ StopsAt(h)
  <2> HIDE DEF StopsAt
  <2>1. QED
    BY <1>2, <1>3
<1>5. QED
  BY <1>4

\* The list st, of which hd strokes are dead, is the end of the peaks pk, and the others are
\* more than two windows older than the time given.
EndOfPeaks(pk, st, hd, time) ==
  LET d == Len(pk) - Len(st)
  IN  /\ d \in Nat
      /\ \A i \in 1..Len(st) : st[i] = pk[d + i]
      /\ \A i \in 1..(d + hd) : pk[i] < time - SpmWindow * 2

HeadIsPosition(p) ==
  /\ p.times \in Seq(Times) /\ p.head \in 0..Len(p.times)
  /\ p.head = 0 \/ p.head * 2 < Len(p.times)

\* Pruning at a time not after the latest leaves such a list.
LEMMA PrunedIsEnd ==
  ASSUME NEW pk \in Seq(Times), NEW st \in Seq(Times), NEW hd \in 0..Len(st),
         NEW now \in Int, NEW time \in Int, now <= time, EndOfPeaks(pk, st, hd, time)
  PROVE  LET p == Pruned(st, hd, now)
         IN  HeadIsPosition(p) /\ EndOfPeaks(pk, p.times, p.head, time)
<1> DEFINE h == HeadAfter(st, hd, now)
           d == Len(pk) - Len(st)
           limit == time - SpmWindow * 2
           p == Pruned(st, hd, now)
<1>1. /\ Len(st) \in Nat /\ Len(pk) \in Nat /\ hd \in Nat /\ h \in hd..Len(st) /\ d \in Nat
      /\ Len(pk) - Len(st) = d
      /\ \A i \in 1..Len(st) : st[i] = pk[d + i] /\ st[i] \in Times
      /\ \A i \in 1..(d + hd) : pk[i] < limit
      /\ \A i \in 1..Len(pk) : pk[i] \in Int
  <2>1. /\ Len(st) \in Nat /\ Len(pk) \in Nat /\ hd \in Nat
        /\ \A i \in 1..Len(st) : st[i] \in Times
        /\ \A i \in 1..Len(pk) : pk[i] \in Times
    OBVIOUS
  <2>2. \A i \in 1..Len(pk) : pk[i] \in Int
    BY <2>1, StrokeAssumption DEF Times
  <2>3. h \in hd..Len(st)
    BY HeadAfterStops
  <2>4. /\ d \in Nat /\ \A i \in 1..Len(st) : st[i] = pk[d + i]
        /\ \A i \in 1..(d + hd) : pk[i] < limit
    BY DEF EndOfPeaks
  <2>5. QED
    BY <2>1, <2>2, <2>3, <2>4
<1>2. \A i \in (hd + 1)..h : st[i] < limit
  <2>1. \A i \in (hd + 1)..h : st[i] < now - SpmWindow * 2
    BY HeadAfterStops
  <2>2. \A i \in (hd + 1)..h : i \in 1..Len(st)
    BY <1>1
  <2>3. SpmWindow \in Int /\ \A i \in 1..Len(st) : st[i] \in Int
    BY <1>1, StrokeAssumption DEF Times
  <2> HIDE DEF h
  <2>4. QED
    BY <2>1, <2>2, <2>3
<1> HIDE DEF limit
<1>3. \A i \in 1..(d + h) : pk[i] < limit
  <2> TAKE i \in 1..(d + h)
  <2>1. CASE i <= d + hd
    BY <1>1, <2>1
  <2>2. CASE i > d + hd
    <3>1. i - d \in (hd + 1)..h /\ i - d \in 1..Len(st) /\ d + (i - d) = i
      BY <1>1, <2>2
    <3>2. QED
      BY <1>1, <1>2, <3>1
  <2>3. QED
    BY <1>1, <2>1, <2>2
<1>4. CASE h > 0 /\ h * 2 >= Len(st)
  <2> DEFINE t == SubSeq(st, h + 1, Len(st))
  <2>1. p = [times |-> t, head |-> 0]
    BY <1>4 DEF Pruned
  <2>2. h + 1 \in Int /\ Len(st) \in Int /\ \A i \in (h + 1)..Len(st) : st[i] \in Times
    BY <1>1
  <2>3. /\ t \in Seq(Times) /\ Len(t) = IF h + 1 <= Len(st) THEN Len(st) - (h + 1) + 1 ELSE 0
        /\ \A i \in 1..(Len(st) - (h + 1) + 1) : t[i] = st[(h + 1) + i - 1]
    <3> HIDE DEF h
    <3>1. QED
      BY <2>2, SubSeqProperties
  <2> HIDE DEF t, d, h
  <2>4. Len(t) = Len(st) - h /\ \A i \in 1..Len(t) : t[i] = st[h + i] /\ h + i \in 1..Len(st)
    <3>1. Len(t) = Len(st) - h
      BY <1>1, <2>3
    <3>2. ASSUME NEW i \in 1..Len(t) PROVE t[i] = st[h + i] /\ h + i \in 1..Len(st)
      <4>1. i \in 1..(Len(st) - (h + 1) + 1) /\ (h + 1) + i - 1 = h + i /\ h + i \in 1..Len(st)
        BY <1>1, <3>1
      <4>2. QED
        BY <2>3, <4>1
    <3>3. QED
      BY <3>1, <3>2
  <2>5. Len(pk) - Len(t) = d + h /\ d + h \in Nat /\ (d + h) + 0 = d + h
    <3>1. h \in Nat /\ Len(t) = Len(st) - h
      BY <1>1, <2>4
    <3>2. /\ Len(st) \in Nat /\ Len(pk) \in Nat /\ d \in Nat /\ Len(pk) - Len(st) = d
      BY <1>1
    <3>3. QED
      BY <3>1, <3>2
  <2>6. \A i \in 1..Len(t) : t[i] = pk[(d + h) + i]
    <3> TAKE i \in 1..Len(t)
    <3>1. d + (h + i) = (d + h) + i
      BY <1>1, <2>4
    <3>2. QED
      BY <1>1, <2>4, <3>1
  <2>7. EndOfPeaks(pk, t, 0, time)
    BY <1>3, <2>5, <2>6 DEF EndOfPeaks, limit
  <2>8. HeadIsPosition([times |-> t, head |-> 0])
    BY <2>3 DEF HeadIsPosition
  <2>9. QED
    BY <2>1, <2>7, <2>8 DEF h
<1>5. CASE ~(h > 0 /\ h * 2 >= Len(st))
  <2>1. p = [times |-> st, head |-> h] /\ p.times = st /\ p.head = h
    BY <1>5 DEF Pruned
  <2>2. h = 0 \/ h * 2 < Len(st)
    BY <1>1, <1>5
  <2>3. HeadIsPosition(p)
    BY <1>1, <2>1, <2>2 DEF HeadIsPosition
  <2>4. EndOfPeaks(pk, st, h, time)
    BY <1>1, <1>3 DEF EndOfPeaks, limit
  <2>5. QED
    BY <2>1, <2>3, <2>4
<1>6. QED
  BY <1>4, <1>5

-----------------------------------------------------------------------------
(***************************************************************************)
(* The inductive invariant.                                                *)
(***************************************************************************)

\* s does not decrease.
Rising(s) == \A i, j \in DOMAIN s : i <= j => s[i] <= s[j]

\* The samples and the peaks come in time order, and the last peak is not after the sample
\* that may be the next one; the list of strokes is the end of the peaks.
PeakInv ==
  /\ \A i, j \in DOMAIN buf : i <= j => buf[i].t <= buf[j].t
  /\ peaks # <<>> => Len(buf) = 3 /\ peaks[Len(peaks)] <= buf[2].t
  /\ Rising(peaks)
  /\ EndOfPeaks(peaks, strokeTimes, strokeHead, latest)

StrokeInv == TypeOK /\ PeakInv

LEMMA StrokeInvInit == Init => StrokeInv
<1> SUFFICES ASSUME Init PROVE StrokeInv
  OBVIOUS
<1>1. TypeOK
  BY StrokeAssumption DEF Init, TypeOK, Times
<1>2. PeakInv
  BY StrokeAssumption DEF Init, PeakInv, Rising, EndOfPeaks
<1>3. QED
  BY <1>1, <1>2 DEF StrokeInv

\* Appending what is not less keeps a sequence rising.
LEMMA RisingAppend ==
  ASSUME NEW s \in Seq(Times), NEW t \in Times, Rising(s), s # <<>> => s[Len(s)] <= t
  PROVE  Rising(Append(s, t))
<1> DEFINE r == Append(s, t)
<1>1. /\ Len(s) \in Nat /\ DOMAIN s = 1..Len(s) /\ DOMAIN r = 1..(Len(s) + 1)
      /\ r[Len(s) + 1] = t /\ \A i \in 1..Len(s) : r[i] = s[i] /\ s[i] \in Times
  OBVIOUS
<1>2. \A i \in 1..Len(s) : s[i] \in Int /\ s[i] <= s[Len(s)] /\ s # <<>>
  BY <1>1, StrokeAssumption DEF Rising, Times
<1>3. \A i \in 1..Len(s) : s[i] <= t
  <2> TAKE i \in 1..Len(s)
  <2>1. s[i] \in Int /\ s[Len(s)] \in Int /\ t \in Int /\ s[i] <= s[Len(s)] /\ s[Len(s)] <= t
    BY <1>1, <1>2, StrokeAssumption DEF Times
  <2>2. QED
    BY <2>1
<1>4. t \in Int
  BY StrokeAssumption DEF Times
<1> HIDE DEF r
<1>5. ASSUME NEW i \in DOMAIN r, NEW j \in DOMAIN r, i <= j PROVE r[i] <= r[j]
  <2>1. CASE j \in 1..Len(s)
    <3>1. i \in 1..Len(s)
      BY <1>1, <1>5, <2>1
    <3>2. QED
      BY <1>1, <1>5, <2>1, <3>1 DEF Rising
  <2>2. CASE j = Len(s) + 1 /\ i \in 1..Len(s)
    BY <1>1, <1>3, <2>2
  <2>3. CASE j = Len(s) + 1 /\ i = Len(s) + 1
    BY <1>1, <1>4, <2>3
  <2>4. QED
    BY <1>1, <2>1, <2>2, <2>3
<1>6. QED
  BY <1>5 DEF Rising, r

\* One peak more, at the end of both.
LEMMA EndAppend ==
  ASSUME NEW pk \in Seq(Times), NEW st \in Seq(Times), NEW hd \in 0..Len(st), NEW t \in Times,
         NEW time \in Int, EndOfPeaks(pk, st, hd, time)
  PROVE  EndOfPeaks(Append(pk, t), Append(st, t), hd, time)
<1> DEFINE qk == Append(pk, t)
           qt == Append(st, t)
           d == Len(pk) - Len(st)
<1>1. /\ Len(pk) \in Nat /\ Len(st) \in Nat /\ hd \in 0..Len(st)
      /\ Len(qk) = Len(pk) + 1 /\ Len(qt) = Len(st) + 1
      /\ qk[Len(pk) + 1] = t /\ qt[Len(st) + 1] = t
      /\ \A i \in 1..Len(pk) : qk[i] = pk[i]
      /\ \A i \in 1..Len(st) : qt[i] = st[i]
  OBVIOUS
<1>2. d \in Nat /\ (\A i \in 1..Len(st) : st[i] = pk[d + i])
      /\ \A i \in 1..(d + hd) : pk[i] < time - SpmWindow * 2
  BY DEF EndOfPeaks
<1>3. Len(pk) = d + Len(st)
  OBVIOUS
<1> HIDE DEF qk, qt, d
<1>4. Len(qk) - Len(qt) = d
  BY <1>1, <1>2, <1>3
<1>5. ASSUME NEW i \in 1..Len(qt) PROVE qt[i] = qk[d + i]
  <2>1. CASE i \in 1..Len(st)
    <3>1. d + i \in 1..Len(pk)
      BY <1>1, <1>2, <1>3, <2>1
    <3>2. QED
      BY <1>1, <1>2, <2>1, <3>1
  <2>2. CASE i = Len(st) + 1
    <3>1. d + i = Len(pk) + 1
      BY <1>1, <1>2, <1>3, <2>2
    <3>2. QED
      BY <1>1, <2>2, <3>1
  <2>3. QED
    BY <1>1, <2>1, <2>2
<1>6. ASSUME NEW i \in 1..(d + hd) PROVE qk[i] < time - SpmWindow * 2
  <2>1. i \in 1..Len(pk)
    BY <1>1, <1>2, <1>3
  <2>2. QED
    BY <1>1, <1>2, <2>1
<1>7. EndOfPeaks(qk, qt, hd, time)
  BY <1>2, <1>4, <1>5, <1>6 DEF EndOfPeaks
<1>8. QED
  BY <1>7 DEF qk, qt

\* As time goes on the dead strokes stay dead.
LEMMA EndLater ==
  ASSUME NEW pk \in Seq(Times), NEW st \in Seq(Times), NEW hd \in 0..Len(st),
         NEW time \in Int, NEW later \in Int, time <= later, EndOfPeaks(pk, st, hd, time)
  PROVE  EndOfPeaks(pk, st, hd, later)
<1> DEFINE d == Len(pk) - Len(st)
<1>1. d \in Nat /\ (\A i \in 1..Len(st) : st[i] = pk[d + i])
      /\ \A i \in 1..(d + hd) : pk[i] < time - SpmWindow * 2
  BY DEF EndOfPeaks
<1>2. /\ Len(pk) \in Nat /\ Len(st) \in Nat /\ hd \in 0..Len(st) /\ SpmWindow \in Int
      /\ \A i \in 1..Len(pk) : pk[i] \in Int
  BY StrokeAssumption DEF Times
<1>3. ASSUME NEW i \in 1..(d + hd) PROVE pk[i] < later - SpmWindow * 2
  <2>1. i \in 1..Len(pk)
    BY <1>1, <1>2
  <2>2. pk[i] < time - SpmWindow * 2 /\ pk[i] \in Int
    BY <1>1, <1>2, <2>1
  <2>3. QED
    BY <1>2, <2>2
<1>4. QED
  BY <1>1, <1>3 DEF EndOfPeaks

Sample == [t : Times, v : Values]

SamplesRise(s) == \A i, j \in DOMAIN s : i <= j => s[i].t <= s[j].t

\* The last three samples after a new one: still in order, and after three the second is what
\* was the third.
LEMMA LastThreeRise ==
  ASSUME NEW s \in Seq(Sample), Len(s) <= 3, SamplesRise(s), NEW e \in Sample,
         s # <<>> => s[Len(s)].t <= e.t
  PROVE  LET b == LastThree(Append(s, e))
         IN  /\ b \in Seq(Sample) /\ Len(b) <= 3 /\ SamplesRise(b)
             /\ Len(s) = 3 => Len(b) = 3 /\ b[2] = s[3]
<1> DEFINE r == Append(s, e)
<1>1. /\ Len(s) \in 0..3 /\ DOMAIN s = 1..Len(s) /\ DOMAIN r = 1..(Len(s) + 1)
      /\ r \in Seq(Sample) /\ Len(r) = Len(s) + 1
      /\ r[Len(s) + 1] = e /\ \A i \in 1..Len(s) : r[i] = s[i] /\ s[i] \in Sample
  <2>1. Len(s) \in 0..3 /\ DOMAIN s = 1..Len(s) /\ \A i \in 1..Len(s) : s[i] \in Sample
    <3>1. Len(s) \in Nat /\ DOMAIN s = 1..Len(s) /\ \A i \in 1..Len(s) : s[i] \in Sample
      OBVIOUS
    <3>2. Len(s) <= 3
      OBVIOUS
    <3>3. QED
      BY ONLY <3>1, <3>2
  <2>2. /\ r \in Seq(Sample) /\ Len(r) = Len(s) + 1 /\ r[Len(s) + 1] = e
        /\ \A i \in 1..Len(s) : r[i] = s[i]
    BY AppendProperties
  <2> HIDE DEF r
  <2>3. DOMAIN r = 1..(Len(s) + 1)
    BY <2>2
  <2>4. QED
    BY <2>1, <2>2, <2>3
<1>2. \A x \in Sample : x.t \in Int
  BY DEF Sample, Times
<1>3. \A i \in 1..Len(s) : s[i].t <= e.t
  <2> TAKE i \in 1..Len(s)
  <2>1. s # <<>> /\ Len(s) \in 1..Len(s) /\ i <= Len(s)
    BY <1>1
  <2>2. s[i].t <= s[Len(s)].t /\ s[Len(s)].t <= e.t
    BY <1>1, <2>1 DEF SamplesRise
  <2>3. s[i].t \in Int /\ s[Len(s)].t \in Int /\ e.t \in Int
    BY <1>1, <1>2, <2>1
  <2>4. QED
    BY <2>2, <2>3
<1> HIDE DEF r
<1>4. SamplesRise(r)
  <2>1. ASSUME NEW i \in DOMAIN r, NEW j \in DOMAIN r, i <= j PROVE r[i].t <= r[j].t
    <3>1. CASE j \in 1..Len(s)
      <4>1. i \in 1..Len(s)
        BY <1>1, <2>1, <3>1
      <4>2. QED
        BY <1>1, <2>1, <3>1, <4>1 DEF SamplesRise
    <3>2. CASE j = Len(s) + 1 /\ i \in 1..Len(s)
      BY <1>1, <1>3, <3>2
    <3>3. CASE j = Len(s) + 1 /\ i = Len(s) + 1
      BY <1>1, <1>2, <3>3
    <3>4. QED
      BY <1>1, <2>1, <3>1, <3>2, <3>3
  <2>2. QED
    BY <2>1 DEF SamplesRise
<1>5. CASE Len(r) > 3
  <2>1. Len(s) = 3 /\ Len(r) = 4 /\ LastThree(r) = Tail(r)
    BY <1>1, <1>5 DEF LastThree
  <2>2. /\ Tail(r) \in Seq(Sample) /\ Len(Tail(r)) = 3 /\ DOMAIN Tail(r) = 1..3
        /\ \A i \in 1..3 : Tail(r)[i] = r[i + 1]
    <3>1. r \in Seq(Sample) /\ r # <<>>
      BY <1>1, <2>1
    <3>2. /\ Tail(r) \in Seq(Sample) /\ Len(Tail(r)) = Len(r) - 1
          /\ \A i \in 1..Len(Tail(r)) : Tail(r)[i] = r[i + 1]
      BY <3>1, HeadTailProperties
    <3>3. Len(Tail(r)) = 3 /\ Tail(r) \in Seq(Sample)
      BY <2>1, <3>2
    <3>4. DOMAIN Tail(r) = 1..3
      BY ONLY <3>3, LenProperties, Zenon
    <3>5. QED
      BY <3>2, <3>3, <3>4
  <2>3. SamplesRise(Tail(r))
    BY <1>1, <1>4, <2>1, <2>2 DEF SamplesRise
  <2>4. Tail(r)[2] = s[3]
    BY <1>1, <2>1, <2>2
  <2>5. QED
    BY <2>1, <2>2, <2>3, <2>4 DEF r
<1>6. CASE ~(Len(r) > 3)
  <2>1. LastThree(r) = r /\ Len(s) # 3 /\ Len(r) <= 3
    BY <1>1, <1>6 DEF LastThree
  <2>2. QED
    BY <1>1, <1>4, <2>1 DEF r
<1>7. QED
  BY <1>5, <1>6

LEMMA LaterProperties ==
  ASSUME NEW s \in Times, NEW t \in Times
  PROVE  Later(s, t) \in Times /\ s <= Later(s, t) /\ t <= Later(s, t) /\ s \in Int /\ t \in Int
         /\ Later(s, t) \in Int
BY StrokeAssumption DEF Later, Times

LEMMA PushSampleStep ==
  ASSUME StrokeInv, NEW t \in Times, NEW v \in Values, PushSample(t, v)
  PROVE  StrokeInv'
<1> DEFINE e == [t |-> t, v |-> v]
           b == LastThree(Append(buf, e))
           later == Later(latest, t)
<1>1. /\ buf \in Seq(Sample) /\ Len(buf) <= 3 /\ SamplesRise(buf)
      /\ strokeTimes \in Seq(Times) /\ strokeHead \in 0..Len(strokeTimes)
      /\ peaks \in Seq(Times) /\ latest \in Times /\ resets \in 0..MaxResets
      /\ lastPeakT \in Times \cup {NoPeak}
      /\ strokeHead = 0 \/ strokeHead * 2 < Len(strokeTimes)
      /\ Rising(peaks) /\ EndOfPeaks(peaks, strokeTimes, strokeHead, latest)
      /\ peaks # <<>> => Len(buf) = 3 /\ peaks[Len(peaks)] <= buf[2].t
  BY DEF StrokeInv, TypeOK, PeakInv, SamplesRise, Sample
<1>2. /\ InOrder(t) /\ buf' = b /\ latest' = later /\ resets' = resets
      /\ IF IsPeak(b)
           THEN /\ lastPeakT' = b[2].t
                /\ peaks' = Append(peaks, b[2].t)
                /\ SetStrokes(Pruned(Append(strokeTimes, b[2].t), strokeHead, t))
           ELSE UNCHANGED <<lastPeakT, strokeTimes, strokeHead, peaks>>
  BY DEF PushSample
<1>3. e \in Sample /\ e.t = t
  BY DEF Sample
<1>4. buf # <<>> => buf[Len(buf)].t <= e.t
  <2>1. ASSUME buf # <<>> PROVE buf[Len(buf)].t \in Int /\ t \in Int
    <3>1. Len(buf) \in DOMAIN buf /\ buf[Len(buf)] \in Sample
      BY <1>1, <2>1
    <3>2. QED
      BY <3>1 DEF Sample, Times
  <2>2. QED
    BY <1>2, <1>3, <2>1 DEF InOrder
<1>5. /\ b \in Seq(Sample) /\ Len(b) <= 3 /\ SamplesRise(b)
      /\ Len(buf) = 3 => Len(b) = 3 /\ b[2] = buf[3]
  <2> HIDE DEF e
  <2>1. QED
    BY <1>1, <1>3, <1>4, LastThreeRise
<1>6. later \in Times /\ latest <= later /\ t <= later /\ later \in Int /\ t \in Int
      /\ latest \in Int
  BY <1>1, LaterProperties
<1> HIDE DEF b, later
<1>7. \A i \in DOMAIN b : b[i].t \in Times /\ b[i].t \in Int
  <2>1. \A i \in DOMAIN b : b[i] \in Sample
    BY <1>5
  <2>2. QED
    BY <2>1 DEF Sample, Times
<1>8. peaks # <<>> => Len(b) = 3 /\ peaks[Len(peaks)] <= b[2].t
  <2> SUFFICES ASSUME peaks # <<>> PROVE peaks[Len(peaks)] <= b[2].t
    BY <1>1, <1>5
  <2>1. 2 \in DOMAIN buf /\ 3 \in DOMAIN buf /\ buf[2] \in Sample /\ buf[3] \in Sample
    <3>1. Len(buf) = 3
      BY <1>1
    <3>2. buf \in Seq(Sample)
      BY <1>1
    <3>3. QED
      BY ONLY <3>1, <3>2
  <2>2. buf[2].t <= buf[3].t /\ buf[2].t \in Int /\ buf[3].t \in Int
    BY <1>1, <2>1 DEF SamplesRise, Sample, Times
  <2>3. peaks[Len(peaks)] \in Int
    <3>1. peaks \in Seq(Times) /\ peaks # <<>>
      BY <1>1
    <3>2. peaks[Len(peaks)] \in Times
      BY ONLY <3>1
    <3>3. QED
      BY <3>2 DEF Times
  <2>4. QED
    BY <1>1, <1>5, <2>2, <2>3
<1>9. EndOfPeaks(peaks, strokeTimes, strokeHead, later)
  BY <1>1, <1>6, EndLater
<1>10. CASE IsPeak(b)
  <2> DEFINE p == Pruned(Append(strokeTimes, b[2].t), strokeHead, t)
             st == Append(strokeTimes, b[2].t)
             pk == Append(peaks, b[2].t)
  <2>1. Len(b) = 3 /\ 2 \in DOMAIN b /\ b[2].t \in Times /\ b[2].t \in Int
    BY <1>5, <1>7, <1>10 DEF IsPeak
  <2>2. /\ st \in Seq(Times) /\ pk \in Seq(Times) /\ strokeHead \in 0..Len(st)
        /\ pk # <<>> /\ pk[Len(pk)] = b[2].t
    <3>1. st \in Seq(Times) /\ Len(st) = Len(strokeTimes) + 1
      BY <1>1, <2>1, AppendProperties
    <3>2. /\ pk \in Seq(Times) /\ pk # <<>> /\ Len(pk) = Len(peaks) + 1
          /\ pk[Len(peaks) + 1] = b[2].t
      BY <1>1, <2>1, AppendProperties
    <3>3. Len(strokeTimes) \in Nat
      BY <1>1
    <3> HIDE DEF st, pk
    <3>4. strokeHead \in 0..Len(st)
      BY <1>1, <3>1, <3>3
    <3>5. QED
      BY <3>1, <3>2, <3>4
  <2>3. EndOfPeaks(pk, st, strokeHead, later)
    BY <1>1, <1>6, <1>9, <2>1, EndAppend
  <2>4. HeadIsPosition(p) /\ EndOfPeaks(pk, p.times, p.head, later)
    <3> HIDE DEF st, pk
    <3>1. QED
      BY <1>6, <2>2, <2>3, PrunedIsEnd DEF st
  <2>5. Rising(pk)
    BY <1>1, <1>8, <2>1, RisingAppend
  <2> HIDE DEF p
  <2>6. /\ lastPeakT' = b[2].t /\ peaks' = pk /\ strokeTimes' = p.times /\ strokeHead' = p.head
    BY <1>2, <1>10 DEF SetStrokes, p
  <2>7. pk[Len(pk)] <= b[2].t
    BY <2>1, <2>2
  <2> HIDE DEF st, pk
  <2>8. TypeOK'
    BY <1>1, <1>2, <1>5, <1>6, <2>1, <2>2, <2>4, <2>6, Zenon
    DEF TypeOK, HeadIsPosition, Sample
  <2>9. PeakInv'
    BY <1>2, <1>5, <2>1, <2>4, <2>5, <2>6, <2>7, Zenon DEF PeakInv, SamplesRise
  <2>10. QED
    BY <2>8, <2>9 DEF StrokeInv
<1>11. CASE ~IsPeak(b)
  <2>1. /\ lastPeakT' = lastPeakT /\ peaks' = peaks /\ strokeTimes' = strokeTimes
        /\ strokeHead' = strokeHead
    BY <1>2, <1>11
  <2>2. TypeOK'
    BY <1>1, <1>2, <1>5, <1>6, <2>1, Zenon DEF TypeOK, Sample
  <2>3. PeakInv'
    BY <1>1, <1>2, <1>5, <1>8, <1>9, <2>1, Zenon DEF PeakInv, SamplesRise
  <2>4. QED
    BY <2>2, <2>3 DEF StrokeInv
<1>12. QED
  BY <1>10, <1>11

LEMMA SpmAtStep ==
  ASSUME StrokeInv, NEW now \in Times, SpmAt(now)
  PROVE  StrokeInv'
<1> DEFINE later == Later(latest, now)
           p == Pruned(strokeTimes, strokeHead, now)
<1>1. /\ strokeTimes \in Seq(Times) /\ strokeHead \in 0..Len(strokeTimes)
      /\ peaks \in Seq(Times) /\ latest \in Times
      /\ EndOfPeaks(peaks, strokeTimes, strokeHead, latest)
  BY DEF StrokeInv, TypeOK, PeakInv
<1>2. /\ strokeTimes' = p.times /\ strokeHead' = p.head /\ latest' = later
      /\ UNCHANGED <<buf, lastPeakT, peaks, resets>>
  BY DEF SpmAt, SetStrokes
<1>3. later \in Times /\ latest <= later /\ now <= later /\ later \in Int /\ now \in Int
      /\ latest \in Int
  BY <1>1, LaterProperties
<1> HIDE DEF later
<1>4. EndOfPeaks(peaks, strokeTimes, strokeHead, later)
  BY <1>1, <1>3, EndLater
<1>5. HeadIsPosition(p) /\ EndOfPeaks(peaks, p.times, p.head, later)
  BY <1>1, <1>3, <1>4, PrunedIsEnd
<1> HIDE DEF p
<1>6. TypeOK'
  BY <1>2, <1>3, <1>5, Zenon DEF StrokeInv, TypeOK, HeadIsPosition
<1>7. PeakInv'
  BY <1>2, <1>5, Zenon DEF StrokeInv, PeakInv
<1>8. QED
  BY <1>6, <1>7 DEF StrokeInv

LEMMA StrokeInvStep ==
  ASSUME StrokeInv, [Next]_vars
  PROVE  StrokeInv'
<1>1. CASE Reset
  <2>1. TypeOK'
    BY <1>1, StrokeAssumption DEF Reset, StrokeInv, TypeOK, Times
  <2>2. PeakInv'
    BY <1>1, StrokeAssumption DEF Reset, PeakInv, Rising, EndOfPeaks
  <2>3. QED
    BY <2>1, <2>2 DEF StrokeInv
<1>2. CASE UNCHANGED vars
  BY <1>2 DEF vars, StrokeInv, TypeOK, PeakInv
<1>3. QED
  BY <1>1, <1>2, PushSampleStep, SpmAtStep DEF Next

LEMMA StrokeInvariant == Spec => []StrokeInv
<1>1. StrokeInv /\ [Next]_vars => StrokeInv'
  BY StrokeInvStep
<1>2. QED
  BY StrokeInvInit, <1>1, PTL DEF Spec

-----------------------------------------------------------------------------
(***************************************************************************)
(* The count.                                                              *)
(***************************************************************************)

\* spmAt() counts the peaks from start on.
CountsFrom(st, hd, pk, start) ==
  CountFrom([times |-> st, head |-> hd], start)
    = Cardinality({i \in DOMAIN pk : pk[i] >= start})

\* The loop of spmAt() counts the strokes from start on: they come last.
LEMMA CountIsAll ==
  ASSUME NEW pk \in Seq(Times), Rising(pk), NEW st \in Seq(Times), NEW hd \in 0..Len(st),
         NEW start \in Int, NEW d \in Nat, Len(pk) = d + Len(st),
         \A i \in 1..Len(st) : st[i] = pk[d + i],
         \A i \in 1..(d + hd) : pk[i] < start
  PROVE  CountsFrom(st, hd, pk, start)
<1> USE DEF CountsFrom
<1> DEFINE stops == {i \in (hd + 1)..Len(st) : st[i] < start}
           last == IF stops = {} THEN hd ELSE CHOOSE i \in stops : \A j \in stops : j <= i
<1>1. CountFrom([times |-> st, head |-> hd], start) = Len(st) - last
  BY DEF CountFrom
<1>2. /\ Len(st) \in Nat /\ Len(pk) \in Nat /\ hd \in Nat /\ hd <= Len(st)
      /\ DOMAIN pk = 1..Len(pk) /\ \A i \in 1..Len(pk) : pk[i] \in Int
  BY StrokeAssumption DEF Times
<1>3. /\ last \in hd..Len(st)
      /\ last # hd => last \in stops
      /\ \A j \in stops : j <= last
  <2>1. CASE stops = {}
    BY <1>2, <2>1
  <2>2. CASE stops # {}
    <3>1. stops \in SUBSET (1..Len(st)) /\ stops \subseteq hd..Len(st)
      BY <1>2
    <3> HIDE DEF stops
    <3>2. \E i \in stops : \A j \in stops : j <= i
      BY <1>2, <2>2, <3>1, LastPosition
    <3>3. last \in stops /\ \A j \in stops : j <= last
      BY <2>2, <3>2
    <3>4. QED
      BY <3>1, <3>3
  <2>3. QED
    BY <2>1, <2>2
<1> HIDE DEF last, stops
<1>4. last \in Nat /\ hd <= last /\ last <= Len(st)
  BY <1>2, <1>3
<1>5. ASSUME NEW i \in 1..Len(pk), i > d + last PROVE pk[i] >= start
  <2>1. i - d \in (hd + 1)..Len(st) /\ i - d \in 1..Len(st) /\ d + (i - d) = i /\ ~(i - d <= last)
    BY <1>2, <1>5, <1>4
  <2>2. i - d \notin stops
    BY <1>3, <2>1
  <2>3. ~(st[i - d] < start) /\ st[i - d] = pk[i] /\ pk[i] \in Int
    BY <1>2, <2>1, <2>2 DEF stops
  <2>4. QED
    BY <2>3
<1>6. ASSUME NEW i \in 1..Len(pk), i <= d + last PROVE pk[i] < start
  <2>1. CASE last = hd
    <3>1. i \in 1..(d + hd)
      BY <1>2, <1>6, <2>1
    <3>2. QED
      BY <3>1
  <2>2. CASE last # hd
    <3>1. last \in 1..Len(st) /\ st[last] < start
      BY <1>2, <1>3, <1>4, <2>2 DEF stops
    <3>2. d + last \in 1..Len(pk)
      BY <1>2, <3>1
    <3>3. pk[i] <= pk[d + last] /\ pk[d + last] < start
      BY <1>2, <1>6, <3>1, <3>2 DEF Rising
    <3>4. pk[i] \in Int /\ pk[d + last] \in Int
      BY <1>2, <3>2
    <3>5. QED
      BY <3>3, <3>4
  <2>3. QED
    BY <2>1, <2>2
<1>7. {i \in DOMAIN pk : pk[i] >= start} = (d + last + 1)..Len(pk)
  <2>1. ASSUME NEW i \in DOMAIN pk, pk[i] >= start PROVE i \in (d + last + 1)..Len(pk)
    <3>1. i \in 1..Len(pk) /\ pk[i] \in Int /\ ~(pk[i] < start)
      BY <1>2, <2>1
    <3>2. ~(i <= d + last)
      BY <1>6, <3>1
    <3>3. QED
      BY <1>2, <1>4, <3>1, <3>2
  <2>2. ASSUME NEW i \in (d + last + 1)..Len(pk) PROVE i \in DOMAIN pk /\ pk[i] >= start
    <3>1. i \in 1..Len(pk) /\ i > d + last
      BY <1>2, <1>4
    <3>2. QED
      BY <1>2, <1>5, <3>1
  <2>3. QED
    BY <2>1, <2>2
<1>8. Cardinality((d + last + 1)..Len(pk)) = Len(st) - last
  <2>1. d + last + 1 \in Int /\ Len(pk) \in Int
    BY <1>2, <1>4
  <2>2. Cardinality((d + last + 1)..Len(pk))
          = IF d + last + 1 > Len(pk) THEN 0 ELSE Len(pk) - (d + last + 1) + 1
    BY <2>1, FS_Interval
  <2>3. (IF d + last + 1 > Len(pk) THEN 0 ELSE Len(pk) - (d + last + 1) + 1) = Len(st) - last
    <3>1. Len(st) \in Nat /\ last \in Nat /\ last <= Len(st) /\ d \in Nat /\ Len(pk) = d + Len(st)
      BY <1>2, <1>4
    <3>2. QED
      BY ONLY <3>1
  <2>4. QED
    BY <2>2, <2>3
<1>9. QED
  BY <1>1, <1>7, <1>8

-----------------------------------------------------------------------------
(***************************************************************************)
(* The theorems.                                                           *)
(***************************************************************************)

\* The types, and that less than half of the list of strokes is dead.
THEOREM TypeInvariant == Spec => []TypeOK
<1>1. StrokeInv => TypeOK
  BY DEF StrokeInv
<1>2. QED
  BY StrokeInvariant, <1>1, PTL

\* spmAt() counts every peak of its window and none before it, however the list was pruned
\* and spliced.
THEOREM AllPeaksCounted == Spec => []CountsAllPeaks
<1>1. ASSUME StrokeInv, NEW q \in Times, q + SpmWindow >= latest
      PROVE  StrokesAt(q) = Cardinality({i \in DOMAIN peaks : peaks[i] >= q - SpmWindow})
  <2> DEFINE p == Pruned(strokeTimes, strokeHead, q)
             later == Later(latest, q)
             d == Len(peaks) - Len(p.times)
             start == q - SpmWindow
  <2>1. /\ strokeTimes \in Seq(Times) /\ strokeHead \in 0..Len(strokeTimes)
        /\ peaks \in Seq(Times) /\ latest \in Times /\ Rising(peaks)
        /\ EndOfPeaks(peaks, strokeTimes, strokeHead, latest)
    BY <1>1 DEF StrokeInv, TypeOK, PeakInv
  <2>2. later \in Times /\ latest <= later /\ q <= later /\ later \in Int /\ q \in Int
        /\ latest \in Int /\ SpmWindow \in Nat
    BY <2>1, LaterProperties, StrokeAssumption
  <2>3. later - SpmWindow * 2 <= start
    BY <1>1, <2>2 DEF Later
  <2> HIDE DEF later
  <2>4. EndOfPeaks(peaks, strokeTimes, strokeHead, later)
    BY <2>1, <2>2, EndLater
  <2>5. HeadIsPosition(p) /\ EndOfPeaks(peaks, p.times, p.head, later)
    BY <2>1, <2>2, <2>4, PrunedIsEnd
  <2>6. p = [times |-> p.times, head |-> p.head]
    BY DEF Pruned
  <2>7. StrokesAt(q) = CountFrom(p, start)
    BY DEF StrokesAt
  <2> HIDE DEF p
  <2>8. /\ d \in Nat /\ (\A i \in 1..Len(p.times) : p.times[i] = peaks[d + i])
        /\ \A i \in 1..(d + p.head) : peaks[i] < later - SpmWindow * 2
        /\ p.times \in Seq(Times) /\ p.head \in 0..Len(p.times)
        /\ Len(peaks) \in Nat /\ Len(p.times) \in Nat
    <3>1. p.times \in Seq(Times) /\ p.head \in 0..Len(p.times)
      BY <2>5 DEF HeadIsPosition
    <3>2. Len(peaks) \in Nat /\ Len(p.times) \in Nat
      BY <2>1, <3>1
    <3>3. QED
      BY <2>5, <3>1, <3>2 DEF EndOfPeaks
  <2>9. Len(peaks) = d + Len(p.times)
    BY <2>8
  <2>10. start \in Int
    BY <2>2
  <2> HIDE DEF d, start
  <2>11. \A i \in 1..(d + p.head) : peaks[i] < start
    <3> TAKE i \in 1..(d + p.head)
    <3>1. i \in 1..Len(peaks)
      BY <2>8, <2>9
    <3>2. peaks[i] \in Int
      <4>1. peaks[i] \in Times
        BY <2>1, <3>1
      <4>2. QED
        BY <4>1 DEF Times
    <3>3. peaks[i] < later - SpmWindow * 2
      BY <2>8
    <3>4. QED
      BY <2>2, <2>3, <2>10, <3>2, <3>3
  <2>12. CountFrom([times |-> p.times, head |-> p.head], start)
           = Cardinality({i \in DOMAIN peaks : peaks[i] >= start})
    <3>1. peaks \in Seq(Times) /\ Rising(peaks)
      BY <2>1
    <3>2. p.times \in Seq(Times) /\ p.head \in 0..Len(p.times) /\ d \in Nat
      BY <2>8
    <3>3. \A i \in 1..Len(p.times) : p.times[i] = peaks[d + i]
      BY <2>8
    <3>4. CountsFrom(p.times, p.head, peaks, start)
      BY ONLY <2>9, <2>10, <2>11, <3>1, <3>2, <3>3, CountIsAll, Zenon
    <3>5. QED
      BY <3>4, Zenon DEF CountsFrom
  <2>13. QED
    BY <2>6, <2>7, <2>12 DEF start
<1>2. ASSUME StrokeInv, NEW q \in Times, q + SpmWindow >= latest
      PROVE  /\ Cardinality(WindowOf(q)) <= StrokesAt(q)
             /\ StrokesAt(q) <= Cardinality(SinceWindowOf(q))
  <2>1. peaks \in Seq(Times) /\ q \in Int /\ SpmWindow \in Int /\ \A i \in DOMAIN peaks : peaks[i] \in Int
    BY <1>2, StrokeAssumption DEF StrokeInv, TypeOK, Times
  <2>2. SinceWindowOf(q) = {i \in DOMAIN peaks : peaks[i] >= q - SpmWindow}
    BY <2>1 DEF SinceWindowOf
  <2>3. StrokesAt(q) = Cardinality(SinceWindowOf(q))
    BY <1>1, <1>2, <2>2
  <2>4. IsFiniteSet(SinceWindowOf(q))
    <3>1. Len(peaks) \in Nat /\ DOMAIN peaks = 1..Len(peaks)
      BY <2>1
    <3>2. IsFiniteSet(DOMAIN peaks)
      BY <3>1, FS_Interval
    <3>3. QED
      BY <3>2, FS_Subset DEF SinceWindowOf
  <2>5. WindowOf(q) \subseteq SinceWindowOf(q)
    BY DEF WindowOf, SinceWindowOf
  <2>6. /\ Cardinality(WindowOf(q)) <= Cardinality(SinceWindowOf(q))
        /\ Cardinality(SinceWindowOf(q)) \in Nat
    BY <2>4, <2>5, FS_Subset, FS_CardinalityType
  <2>7. QED
    BY <2>3, <2>6
<1>3. StrokeInv => CountsAllPeaks
  BY <1>2 DEF CountsAllPeaks
<1>4. QED
  BY StrokeInvariant, <1>3, PTL
=============================================================================
