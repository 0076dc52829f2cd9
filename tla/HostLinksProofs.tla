-------------------------- MODULE HostLinksProofs --------------------------
(***************************************************************************)
(* Theorems about HostLinks and the modules it is made of.  The two        *)
(* implementations of the CRC agree on all data and notice the change of a *)
(* byte; the payload of a telemetry summary decodes to what was encoded;   *)
(* the hub hears what the boats measured, and of each client its good      *)
(* frames in order; a user that awaits its calls leaves no socket and no   *)
(* connection behind.                                                      *)
(***************************************************************************)
EXTENDS HostLinks, SequenceTheorems, FiniteSetTheorems, TLAPS

-----------------------------------------------------------------------------
(***************************************************************************)
(* Counting up to a number.                                                *)
(***************************************************************************)

\* What holds of 0, and of each number if of the one before, holds up to n: else < would not
\* be well-founded.
LEMMA CountingUp ==
  ASSUME NEW n \in Nat, NEW S, 0 \in S, \A i \in 1..n : i - 1 \in S => i \in S
  PROVE  0..n \subseteq S
<1> DEFINE R == {ss \in Nat \X Nat : ss[1] < ss[2]}
           T == {i \in 0..n : i \notin S}
<1> SUFFICES ASSUME T # {} PROVE FALSE
  OBVIOUS
<1>1. IsWellFoundedOn(R, Nat)
  BY NatLessThanWellFounded DEF OpToRel
<1>2. PICK i \in T : \A j \in T : <<j, i>> \notin R
  <2>1. T \subseteq Nat
    OBVIOUS
  <2> HIDE DEF R, T
  <2>2. QED
    BY <1>1, <2>1, WFMin
<1>3. i \in 1..n /\ i - 1 \in 0..n
  OBVIOUS
<1>4. i - 1 \notin S
  BY <1>3
<1>5. <<i - 1, i>> \in R /\ i - 1 \in T
  BY <1>3, <1>4
<1>6. QED
  BY <1>2, <1>5

\* The values of a recursion over 0..n: from initial on, each step leads from a value and an
\* input to the next value.
Recursion(f, n, initial, step, input) ==
  f = [i \in 0..n |-> IF i = 0 THEN initial ELSE step[f[i - 1]][input[i]]]

\* There are such values, and they stay in the set of the values that the steps keep to.
LEMMA RecursionExists ==
  ASSUME NEW n \in Nat, NEW V, NEW X, NEW initial \in V, NEW step \in [V -> [X -> V]],
         NEW input \in [1..n -> X]
  PROVE  \E f \in [0..n -> V] : Recursion(f, n, initial, step, input)
<1> DEFINE Until(f, k) == \A i \in 1..k : f[i] = step[f[i - 1]][input[i]]
           S == {k \in 0..n : \E f \in [0..n -> V] : f[0] = initial /\ Until(f, k)}
<1>1. 0 \in S
  <2>1. [i \in 0..n |-> initial] \in [0..n -> V] /\ [i \in 0..n |-> initial][0] = initial
    OBVIOUS
  <2>2. Until([i \in 0..n |-> initial], 0)
    OBVIOUS
  <2> HIDE DEF Until
  <2>3. \E f \in [0..n -> V] : f[0] = initial /\ Until(f, 0)
    BY <2>1, <2>2
  <2>4. QED
    BY <2>3
<1>2. ASSUME NEW k \in 1..n, k - 1 \in S PROVE k \in S
  <2>1. PICK f \in [0..n -> V] : f[0] = initial /\ Until(f, k - 1)
    BY <1>2
  <2>2. k - 1 \in 0..n /\ input[k] \in X /\ f[k - 1] \in V
    OBVIOUS
  <2> DEFINE v == step[f[k - 1]][input[k]]
             g == [f EXCEPT ![k] = v]
  <2>3. v \in V
    BY <2>2
  <2> HIDE DEF v
  <2>4. g \in [0..n -> V] /\ g[k] = v /\ \A i \in 0..n : i # k => g[i] = f[i]
    BY <2>3
  <2> HIDE DEF g
  <2>5. ASSUME NEW i \in 1..k PROVE g[i] = step[g[i - 1]][input[i]]
    <3>1. i - 1 \in 0..n /\ i - 1 # k
      OBVIOUS
    <3>2. CASE i = k
      BY <2>4, <3>1, <3>2 DEF v
    <3>3. CASE i # k
      <4>1. i \in 1..(k - 1) /\ i \in 0..n
        BY <3>3
      <4>2. QED
        BY <2>1, <2>4, <3>1, <3>3, <4>1
    <3>4. QED
      BY <3>2, <3>3
  <2>6. g[0] = initial
    BY <2>1, <2>4
  <2>7. Until(g, k)
    BY <2>5
  <2> HIDE DEF Until
  <2>8. \E h \in [0..n -> V] : h[0] = initial /\ Until(h, k)
    BY <2>4, <2>6, <2>7
  <2>9. k \in 0..n
    OBVIOUS
  <2>10. QED
    BY <2>8, <2>9
<1>3. n \in S
  <2> HIDE DEF S
  <2>1. 0..n \subseteq S
    BY <1>1, <1>2, CountingUp
  <2>2. QED
    BY <2>1
<1>4. PICK f \in [0..n -> V] : f[0] = initial /\ Until(f, n)
  BY <1>3
<1>5. Recursion(f, n, initial, step, input)
  <2>1. \A i \in 0..n : f[i] = IF i = 0 THEN initial ELSE step[f[i - 1]][input[i]]
    BY <1>4
  <2>2. QED
    BY <2>1 DEF Recursion
<1>6. QED
  BY <1>5

\* All such values stay in the set.
LEMMA RecursionType ==
  ASSUME NEW n \in Nat, NEW V, NEW X, NEW initial \in V, NEW step \in [V -> [X -> V]],
         NEW input \in [1..n -> X], NEW f, Recursion(f, n, initial, step, input)
  PROVE  f \in [0..n -> V]
<1> DEFINE S == {i \in 0..n : f[i] \in V}
<1>1. /\ DOMAIN f = 0..n /\ f = [i \in 0..n |-> f[i]] /\ f[0] = initial
      /\ \A i \in 1..n : f[i] = step[f[i - 1]][input[i]]
  <2>1. f = [i \in 0..n |-> IF i = 0 THEN initial ELSE step[f[i - 1]][input[i]]]
    BY DEF Recursion
  <2>2. DOMAIN f = 0..n /\ f = [i \in 0..n |-> f[i]]
    BY <2>1
  <2>3. \A i \in 0..n : f[i] = IF i = 0 THEN initial ELSE step[f[i - 1]][input[i]]
    BY <2>1, Zenon
  <2>4. f[0] = initial
    BY <2>3
  <2>5. ASSUME NEW i \in 1..n PROVE f[i] = step[f[i - 1]][input[i]]
    <3>1. i \in 0..n /\ i # 0
      OBVIOUS
    <3>2. QED
      BY <2>3, <3>1, Zenon
  <2>6. QED
    BY <2>2, <2>4, <2>5
<1>2. 0 \in S
  BY <1>1
<1>3. ASSUME NEW i \in 1..n, i - 1 \in S PROVE i \in S
  <2>1. f[i - 1] \in V /\ input[i] \in X /\ i \in 0..n
    BY <1>3
  <2>2. step[f[i - 1]][input[i]] \in V
    BY <2>1
  <2>3. QED
    BY <1>1, <2>1, <2>2
<1>4. 0..n \subseteq S
  <2> HIDE DEF S
  <2>1. QED
    BY <1>2, <1>3, CountingUp
<1>5. QED
  BY <1>1, <1>4

-----------------------------------------------------------------------------
(***************************************************************************)
(* Words and rounds.                                                       *)
(***************************************************************************)

Words == SUBSET Ones
Octets == SUBSET (0..7)

LEMMA XorType ==
  /\ \A v, w \in Words : Xor(v, w) \in Words
  /\ \A v, w : \A i : i \in Xor(v, w) <=> (i \in v <=> i \notin w)
BY DEF Words, Xor

LEMMA ShiftBits ==
  ASSUME NEW w \in Words, NEW n \in Nat
  PROVE  /\ Shift(w, n) \in Words
         /\ \A i \in Nat : i \in Shift(w, n) <=> i + n \in w
BY DEF Shift, Ones, Words

\* Words with the same bits are the same.
LEMMA SameBits ==
  ASSUME NEW v \in Words, NEW w \in Words, \A i \in Ones : i \in v <=> i \in w
  PROVE  v = w
BY DEF Words

LEMMA RoundBits ==
  ASSUME NEW c \in Words
  PROVE  /\ Round(c) \in Words
         /\ \A i \in Ones : i \in Round(c) <=> ((0 \in c /\ i \in Poly) <=> i + 1 \notin c)
<1>1. Poly \in Words /\ Ones \subseteq Nat /\ 1 \in Nat
  BY DEF Poly, Ones, Words
<1>2. Shift(c, 1) \in Words /\ \A i \in Nat : i \in Shift(c, 1) <=> i + 1 \in c
  BY <1>1, ShiftBits
<1>3. CASE 0 \in c
  <2>1. Round(c) = Xor(Poly, Shift(c, 1))
    BY <1>3 DEF Round
  <2>2. QED
    BY <1>1, <1>2, <1>3, <2>1, XorType
<1>4. CASE 0 \notin c
  <2>1. Round(c) = Shift(c, 1)
    BY <1>4 DEF Round
  <2>2. QED
    BY <1>1, <1>2, <1>4, <2>1
<1>5. QED
  BY <1>3, <1>4

\* A round of an exclusive or is the exclusive or of the rounds.
LEMMA RoundLinear ==
  ASSUME NEW a \in Words, NEW b \in Words
  PROVE  Round(Xor(a, b)) = Xor(Round(a), Round(b))
<1>1. Xor(a, b) \in Words /\ Round(a) \in Words /\ Round(b) \in Words
  BY XorType, RoundBits
<1>2. Round(Xor(a, b)) \in Words /\ Xor(Round(a), Round(b)) \in Words
  BY <1>1, XorType, RoundBits
<1>3. ASSUME NEW i \in Ones
      PROVE  i \in Round(Xor(a, b)) <=> i \in Xor(Round(a), Round(b))
  <2>1. i \in Round(Xor(a, b)) <=> ((0 \in Xor(a, b) /\ i \in Poly) <=> i + 1 \notin Xor(a, b))
    BY <1>1, RoundBits
  <2>2. /\ i \in Round(a) <=> ((0 \in a /\ i \in Poly) <=> i + 1 \notin a)
        /\ i \in Round(b) <=> ((0 \in b /\ i \in Poly) <=> i + 1 \notin b)
    BY RoundBits
  <2>3. QED
    BY <2>1, <2>2, XorType
<1>4. QED
  BY <1>2, <1>3, SameBits

\* The last bit of a round tells whether Poly went into it: a round can be undone.
LEMMA RoundInjective ==
  ASSUME NEW a \in Words, NEW b \in Words, Round(a) = Round(b)
  PROVE  a = b
<1>1. 31 \in Ones /\ 31 \in Poly /\ 31 + 1 \notin a /\ 31 + 1 \notin b
  BY DEF Ones, Poly, Words
<1>2. 0 \in a <=> 0 \in b
  BY <1>1, RoundBits
<1>3. \A i \in Ones : i + 1 \in a <=> i + 1 \in b
  BY <1>2, RoundBits
<1>4. ASSUME NEW j \in Ones PROVE j \in a <=> j \in b
  <2>1. CASE j = 0
    BY <1>2, <2>1
  <2>2. CASE j # 0
    <3>1. j - 1 \in Ones /\ (j - 1) + 1 = j
      BY <2>2 DEF Ones
    <3>2. QED
      BY <1>3, <3>1
  <2>3. QED
    BY <2>1, <2>2
<1>5. QED
  BY <1>4, SameBits

\* What k rounds do, for k = 1, 2, 4 and 8: keep to words, are linear, can be undone, and
\* shift a word that has none of its first k bits.
Low(w, k) == \E i \in 0..(k - 1) : i \in w

Two(c) == Round(Round(c))
Four(c) == Two(Two(c))
Eight(c) == Four(Four(c))

LEMMA ShiftTwice ==
  ASSUME NEW w \in Words, NEW m \in Nat, NEW n \in Nat
  PROVE  /\ Shift(w, m) \in Words /\ Shift(Shift(w, m), n) = Shift(w, m + n)
         /\ ~Low(w, m + n) => ~Low(w, m) /\ ~Low(Shift(w, m), n)
<1>1. /\ Shift(w, m) \in Words /\ \A i \in Nat : i \in Shift(w, m) <=> i + m \in w
      /\ m + n \in Nat
  BY ShiftBits
<1>2. /\ Shift(Shift(w, m), n) \in Words
      /\ \A i \in Nat : i \in Shift(Shift(w, m), n) <=> i + n \in Shift(w, m)
  BY <1>1, ShiftBits
<1>3. /\ Shift(w, m + n) \in Words
      /\ \A i \in Nat : i \in Shift(w, m + n) <=> i + (m + n) \in w
  BY <1>1, ShiftBits
<1>4. ASSUME NEW i \in Ones PROVE i \in Shift(Shift(w, m), n) <=> i \in Shift(w, m + n)
  <2>1. i \in Nat /\ i + n \in Nat /\ (i + n) + m = i + (m + n)
    BY DEF Ones
  <2>2. QED
    BY <1>1, <1>2, <1>3, <2>1
<1>5. Shift(Shift(w, m), n) = Shift(w, m + n)
  BY <1>2, <1>3, <1>4, SameBits
<1>6. ASSUME ~Low(w, m + n) PROVE ~Low(w, m) /\ ~Low(Shift(w, m), n)
  <2>1. \A i \in 0..(m - 1) : i \in 0..((m + n) - 1)
    OBVIOUS
  <2>2. \A i \in 0..(n - 1) : i \in Nat /\ i + m \in 0..((m + n) - 1)
    OBVIOUS
  <2>3. QED
    BY <1>1, <1>6, <2>1, <2>2 DEF Low
<1>7. QED
  BY <1>1, <1>5, <1>6

LEMMA OneRound ==
  ASSUME NEW w \in Words, ~Low(w, 1)
  PROVE  Round(w) = Shift(w, 1)
<1>1. 0 \notin w
  BY DEF Low
<1>2. QED
  BY <1>1 DEF Round

LEMMA TwoRounds ==
  /\ \A c \in Words : Two(c) \in Words
  /\ \A a, b \in Words : Two(Xor(a, b)) = Xor(Two(a), Two(b)) /\ (Two(a) = Two(b) => a = b)
  /\ \A w \in Words : ~Low(w, 2) => Two(w) = Shift(w, 2)
<1>1. ASSUME NEW c \in Words PROVE Two(c) \in Words
  BY RoundBits DEF Two
<1>2. ASSUME NEW a \in Words, NEW b \in Words PROVE Two(Xor(a, b)) = Xor(Two(a), Two(b))
  <2>1. Round(a) \in Words /\ Round(b) \in Words
    BY RoundBits
  <2>2. QED
    BY <2>1, RoundLinear DEF Two
<1>3. ASSUME NEW a \in Words, NEW b \in Words, Two(a) = Two(b) PROVE a = b
  <2>1. Round(a) \in Words /\ Round(b) \in Words
    BY RoundBits
  <2>2. QED
    BY <1>3, <2>1, RoundInjective DEF Two
<1>4. ASSUME NEW w \in Words, ~Low(w, 2) PROVE Two(w) = Shift(w, 2)
  <2>1. /\ Shift(w, 1) \in Words /\ Shift(Shift(w, 1), 1) = Shift(w, 1 + 1)
        /\ ~Low(w, 1 + 1) => ~Low(w, 1) /\ ~Low(Shift(w, 1), 1)
    BY ShiftTwice
  <2>2. 1 + 1 = 2
    OBVIOUS
  <2>3. QED
    BY <1>4, <2>1, <2>2, OneRound DEF Two
<1>5. QED
  BY <1>1, <1>2, <1>3, <1>4

LEMMA FourRounds ==
  /\ \A c \in Words : Four(c) \in Words
  /\ \A a, b \in Words : Four(Xor(a, b)) = Xor(Four(a), Four(b)) /\ (Four(a) = Four(b) => a = b)
  /\ \A w \in Words : ~Low(w, 4) => Four(w) = Shift(w, 4)
<1>1. ASSUME NEW w \in Words, ~Low(w, 4) PROVE Four(w) = Shift(w, 4)
  <2>1. /\ Shift(w, 2) \in Words /\ Shift(Shift(w, 2), 2) = Shift(w, 2 + 2)
        /\ ~Low(w, 2 + 2) => ~Low(w, 2) /\ ~Low(Shift(w, 2), 2)
    BY ShiftTwice
  <2>2. 2 + 2 = 4
    OBVIOUS
  <2>3. QED
    BY <1>1, <2>1, <2>2, TwoRounds DEF Four
<1>2. QED
  BY <1>1, TwoRounds DEF Four

LEMMA AllRounds ==
  /\ \A c \in Words : Eight(c) \in Words
  /\ \A a, b \in Words : Eight(Xor(a, b)) = Xor(Eight(a), Eight(b)) /\ (Eight(a) = Eight(b) => a = b)
  /\ \A w \in Words : ~Low(w, 8) => Eight(w) = Shift(w, 8)
<1>1. ASSUME NEW w \in Words, ~Low(w, 8) PROVE Eight(w) = Shift(w, 8)
  <2>1. /\ Shift(w, 4) \in Words /\ Shift(Shift(w, 4), 4) = Shift(w, 4 + 4)
        /\ ~Low(w, 4 + 4) => ~Low(w, 4) /\ ~Low(Shift(w, 4), 4)
    BY ShiftTwice
  <2>2. 4 + 4 = 8
    OBVIOUS
  <2>3. QED
    BY <1>1, <2>1, <2>2, FourRounds DEF Eight
<1>2. QED
  BY <1>1, FourRounds DEF Eight

\* The recursion of EightRounds makes eight rounds.
LEMMA EightRoundsIsEight ==
  ASSUME NEW c \in Words
  PROVE  EightRounds[c] = Eight(c)
<1> DEFINE F(r) == r = [k \in 0..8 |-> IF k = 0 THEN c ELSE Round(r[k - 1])]
           r == CHOOSE r : F(r)
           step == [d \in Words |-> [x \in {0} |-> Round(d)]]
           input == [k \in 1..8 |-> 0]
<1>1. EightRounds[c] = r[8]
  BY DEF EightRounds, Words
<1>2. step \in [Words -> [{0} -> Words]] /\ input \in [1..8 -> {0}]
  BY RoundBits
<1>3. PICK f \in [0..8 -> Words] : Recursion(f, 8, c, step, input)
  <2>1. 8 \in Nat
    OBVIOUS
  <2> HIDE DEF step, input
  <2>2. QED
    BY <1>2, <2>1, RecursionExists
<1>4. F(f)
  <2>1. \A k \in 1..8 : step[f[k - 1]][input[k]] = Round(f[k - 1])
    OBVIOUS
  <2>2. f = [k \in 0..8 |-> IF k = 0 THEN c ELSE step[f[k - 1]][input[k]]]
    BY <1>3 DEF Recursion
  <2> HIDE DEF step, input
  <2>3. ASSUME NEW k \in 0..8 PROVE f[k] = IF k = 0 THEN c ELSE Round(f[k - 1])
    <3>1. f[k] = IF k = 0 THEN c ELSE step[f[k - 1]][input[k]]
      BY <2>2, Zenon
    <3>2. k # 0 => k \in 1..8
      OBVIOUS
    <3>3. QED
      BY <2>1, <3>1, <3>2, Zenon
  <2>4. QED
    BY <2>3
<1>5. F(r)
  BY <1>4
<1> HIDE DEF r
<1>6. r[0] = c /\ \A k \in 1..8 : r[k] = Round(r[k - 1])
  BY <1>5
<1>7. /\ r[1] = Round(c) /\ r[2] = Round(r[1]) /\ r[3] = Round(r[2]) /\ r[4] = Round(r[3])
      /\ r[5] = Round(r[4]) /\ r[6] = Round(r[5]) /\ r[7] = Round(r[6]) /\ r[8] = Round(r[7])
  BY <1>6
<1>8. QED
  BY <1>1, <1>7 DEF Eight, Four, Two

-----------------------------------------------------------------------------
(***************************************************************************)
(* The two checksums.                                                      *)
(***************************************************************************)
LEMMA ByteType ==
  /\ \A x : Byte(x) \in Octets
  /\ Octets \subseteq Words
BY DEF Byte, Octets, Words, Ones

LEMMA BitwiseProperties ==
  /\ BitwiseStep \in [Words -> [Octets -> Words]]
  /\ \A c \in Words, x \in Octets : BitwiseStep[c][x] = Eight(Xor(c, x)) /\ Xor(c, x) \in Words
<1>1. \A c \in Words, x \in Octets :
        /\ Xor(c, x) \in Words /\ EightRounds[Xor(c, x)] = Eight(Xor(c, x))
        /\ Eight(Xor(c, x)) \in Words
  BY ByteType, XorType, EightRoundsIsEight, AllRounds
<1>2. BitwiseStep = [c \in Words |-> [x \in Octets |-> EightRounds[Xor(c, x)]]]
  BY DEF BitwiseStep, Words, Octets
<1>3. QED
  BY <1>1, <1>2

\* Looking up the low byte and shifting the rest does what eight rounds do: they are linear,
\* and shift the other bytes.
LEMMA TableIsBitwise == TableStep = BitwiseStep
<1>1. ASSUME NEW c \in Words, NEW x \in Octets
      PROVE  Xor(TABLE[Xor(c, x) \cap (0..7)], Shift(c, 8)) = EightRounds[Xor(c, x)]
  <2> DEFINE y == Xor(c, x)
             low == y \cap (0..7)
             high == y \ (0..7)
  <2>1. y \in Words
    BY XorType, ByteType
  <2>2. low \in Octets /\ low \in Words /\ high \in Words
    BY <2>1 DEF Octets, Words
  <2>3. y = Xor(low, high)
    BY DEF Xor
  <2>4. Eight(high) = Shift(high, 8)
    <3>1. ~Low(high, 8)
      BY DEF Low
    <3>2. QED
      BY <2>2, <3>1, AllRounds
  <2>5. Shift(high, 8) = Shift(c, 8)
    <3>1. /\ Shift(high, 8) \in Words /\ \A i \in Nat : i \in Shift(high, 8) <=> i + 8 \in high
          /\ Shift(c, 8) \in Words /\ \A i \in Nat : i \in Shift(c, 8) <=> i + 8 \in c
      BY <2>2, ShiftBits
    <3>2. \A i \in Nat : i + 8 \in high <=> i + 8 \in c
      BY DEF Xor, Octets
    <3> HIDE DEF high
    <3>3. \A i \in Ones : i \in Shift(high, 8) <=> i \in Shift(c, 8)
      <4>1. Ones \subseteq Nat
        BY DEF Ones
      <4>2. QED
        BY <3>1, <3>2, <4>1
    <3>4. QED
      BY <3>1, <3>3, SameBits
  <2>6. TABLE[low] = Eight(low)
    <3>1. TABLE[low] = EightRounds[low]
      BY <2>2 DEF TABLE, Octets
    <3>2. QED
      BY <2>2, <3>1, EightRoundsIsEight
  <2> HIDE DEF low, high
  <2>7. Eight(y) = Xor(Eight(low), Eight(high))
    <3> HIDE DEF y
    <3>1. QED
      BY <2>2, <2>3, AllRounds
  <2>8. EightRounds[y] = Eight(y)
    BY <2>1, EightRoundsIsEight
  <2>9. QED
    BY <2>4, <2>5, <2>6, <2>7, <2>8 DEF low
<1>2. TableStep = [c \in Words |-> [x \in Octets |->
                     Xor(TABLE[Xor(c, x) \cap (0..7)], Shift(c, 8))]]
  BY DEF TableStep, Words, Octets
<1>3. BitwiseStep = [c \in Words |-> [x \in Octets |-> EightRounds[Xor(c, x)]]]
  BY DEF BitwiseStep, Words, Octets
<1>4. \A c \in Words : [x \in Octets |-> Xor(TABLE[Xor(c, x) \cap (0..7)], Shift(c, 8))]
                       = [x \in Octets |-> EightRounds[Xor(c, x)]]
  BY <1>1
<1>5. QED
  BY <1>2, <1>3, <1>4

\* The library and the firmware compute the same checksum, of all data.
THEOREM SameChecksum == \A data : crc32(data, Ones) = bc_crc32(data)
BY TableIsBitwise DEF crc32, bc_crc32

\* What the loop computes.
LEMMA LoopValues ==
  ASSUME NEW S, NEW data \in Seq(S)
  PROVE  \E f \in [0..Len(data) -> Words] :
           /\ f[0] = Ones
           /\ \A i \in 1..Len(data) : f[i] = Eight(Xor(f[i - 1], Byte(data[i])))
           /\ bc_crc32(data) = Xor(f[Len(data)], Ones)
<1> DEFINE n == Len(data)
           F(g) == g = [i \in 0..n |-> IF i = 0 THEN Ones
                                               ELSE BitwiseStep[g[i - 1]][Byte(data[i])]]
           f == CHOOSE g : F(g)
           input == [i \in 1..n |-> Byte(data[i])]
<1>1. n \in Nat /\ input \in [1..n -> Octets] /\ Ones \in Words
  BY ByteType DEF Words
<1>2. bc_crc32(data) = Xor(f[n], Ones)
  BY DEF bc_crc32, Loop
<1>3. \A g : Recursion(g, n, Ones, BitwiseStep, input) <=> F(g)
  <2> TAKE g
  <2>1. \A i \in 0..n : (IF i = 0 THEN Ones ELSE BitwiseStep[g[i - 1]][Byte(data[i])])
                          = IF i = 0 THEN Ones ELSE BitwiseStep[g[i - 1]][input[i]]
    <3> TAKE i \in 0..n
    <3>1. i # 0 => i \in 1..n /\ input[i] = Byte(data[i])
      BY <1>1
    <3> HIDE DEF input
    <3>2. QED
      BY <3>1
  <2> HIDE DEF input
  <2>2. [i \in 0..n |-> IF i = 0 THEN Ones ELSE BitwiseStep[g[i - 1]][Byte(data[i])]]
          = [i \in 0..n |-> IF i = 0 THEN Ones ELSE BitwiseStep[g[i - 1]][input[i]]]
    BY <2>1
  <2>3. QED
    BY <2>2, Zenon DEF Recursion
<1>4. \E g : Recursion(g, n, Ones, BitwiseStep, input)
  <2> HIDE DEF n, input
  <2>1. QED
    BY <1>1, BitwiseProperties, RecursionExists
<1>5. F(f)
  <2> HIDE DEF F
  <2>1. QED
    BY <1>3, <1>4
<1> HIDE DEF f, F
<1>6. Recursion(f, n, Ones, BitwiseStep, input)
  BY <1>3, <1>5
<1>7. f \in [0..n -> Words] /\ f[0] = Ones /\ \A i \in 1..n : f[i] = BitwiseStep[f[i - 1]][input[i]]
  <2> HIDE DEF n, input
  <2>1. /\ n \in Nat /\ input \in [1..n -> Octets] /\ Ones \in Words
        /\ BitwiseStep \in [Words -> [Octets -> Words]]
        /\ Recursion(f, n, Ones, BitwiseStep, input)
    BY <1>1, <1>6, BitwiseProperties
  <2>2. f \in [0..n -> Words]
    BY ONLY <2>1, RecursionType, Zenon
  <2>3. \A i \in 0..n : f[i] = IF i = 0 THEN Ones ELSE BitwiseStep[f[i - 1]][input[i]]
    BY <1>6, Zenon DEF Recursion
  <2>4. f[0] = Ones
    BY <1>1, <2>3
  <2>5. ASSUME NEW i \in 1..n PROVE f[i] = BitwiseStep[f[i - 1]][input[i]]
    <3>1. i \in 0..n /\ i # 0
      BY <1>1
    <3>2. QED
      BY <2>3, <3>1, Zenon
  <2>6. QED
    BY <2>2, <2>4, <2>5
<1>8. \A i \in 1..n : f[i] = Eight(Xor(f[i - 1], Byte(data[i])))
  <2> TAKE i \in 1..n
  <2>1. f[i - 1] \in Words /\ input[i] = Byte(data[i]) /\ Byte(data[i]) \in Octets
    BY <1>1, <1>7, ByteType
  <2>2. QED
    BY <1>7, <2>1, BitwiseProperties
<1>9. QED
  BY <1>2, <1>7, <1>8

LEMMA XorCancels ==
  ASSUME NEW a \in Words, NEW b \in Words, NEW x \in Words, Xor(a, x) = Xor(b, x)
  PROVE  a = b
<1>1. \A i \in Ones : i \in a <=> i \in b
  BY XorType
<1>2. QED
  BY <1>1, SameBits

\* The checksum notices when one byte has changed.
THEOREM OneByteNoticed ==
  ASSUME NEW S, NEW d \in Seq(S), NEW e \in Seq(S), Len(d) = Len(e), NEW m \in 1..Len(d),
         Byte(d[m]) # Byte(e[m]), \A i \in 1..Len(d) : i # m => d[i] = e[i]
  PROVE  bc_crc32(d) # bc_crc32(e)
<1> DEFINE n == Len(d)
<1>1. PICK f \in [0..n -> Words] :
        /\ f[0] = Ones /\ \A i \in 1..n : f[i] = Eight(Xor(f[i - 1], Byte(d[i])))
        /\ bc_crc32(d) = Xor(f[n], Ones)
  BY LoopValues
<1>2. PICK g \in [0..n -> Words] :
        /\ g[0] = Ones /\ \A i \in 1..n : g[i] = Eight(Xor(g[i - 1], Byte(e[i])))
        /\ bc_crc32(e) = Xor(g[n], Ones)
  BY LoopValues
<1>3. n \in Nat /\ m \in 1..n /\ \A i \in 1..n : i - 1 \in 0..n
  OBVIOUS
<1> HIDE DEF n
<1>4. ASSUME NEW i \in 1..n, i # m PROVE Byte(d[i]) = Byte(e[i])
  BY <1>4 DEF n
<1>5. ASSUME NEW i \in 1..n
      PROVE  /\ f[i - 1] \in Words /\ g[i - 1] \in Words
             /\ Byte(d[i]) \in Words /\ Byte(e[i]) \in Words
             /\ Xor(f[i - 1], Byte(d[i])) \in Words /\ Xor(g[i - 1], Byte(e[i])) \in Words
             /\ f[i] = g[i] => Xor(f[i - 1], Byte(d[i])) = Xor(g[i - 1], Byte(e[i]))
  <2>1. /\ f[i - 1] \in Words /\ g[i - 1] \in Words
        /\ Byte(d[i]) \in Words /\ Byte(e[i]) \in Words
    BY <1>3, ByteType
  <2>2. Xor(f[i - 1], Byte(d[i])) \in Words /\ Xor(g[i - 1], Byte(e[i])) \in Words
    BY <2>1, XorType
  <2>3. f[i] = Eight(Xor(f[i - 1], Byte(d[i]))) /\ g[i] = Eight(Xor(g[i - 1], Byte(e[i])))
    BY <1>1, <1>2
  <2>4. QED
    BY <2>1, <2>2, <2>3, AllRounds
\* Before the byte the loops agree, from it on they do not.
<1> DEFINE T == {i \in 0..n : f[i] = g[i] <=> i < m}
<1>6. 0 \in T
  BY <1>1, <1>2, <1>3
<1>7. ASSUME NEW i \in 1..n, i - 1 \in T PROVE i \in T
  <2>1. CASE i < m
    <3>1. f[i - 1] = g[i - 1] /\ Byte(d[i]) = Byte(e[i])
      BY <1>3, <1>4, <1>7, <2>1
    <3>2. f[i] = g[i]
      BY <1>1, <1>2, <3>1
    <3>3. QED
      BY <2>1, <3>2
  <2>2. CASE i = m
    <3>1. f[i - 1] = g[i - 1]
      BY <1>3, <1>7, <2>2
    <3>2. ASSUME f[i] = g[i] PROVE FALSE
      <4>1. Xor(f[i - 1], Byte(d[i])) = Xor(f[i - 1], Byte(e[i]))
        BY <1>5, <3>1, <3>2
      <4>2. Byte(d[i]) = Byte(e[i])
        <5>1. \A v, w : Xor(v, w) = Xor(w, v)
          BY DEF Xor
        <5>2. QED
          BY <1>5, <4>1, <5>1, XorCancels
      <4>3. QED
        BY <2>2, <4>2
    <3>3. QED
      BY <2>2, <3>2
  <2>3. CASE i > m
    <3>1. f[i - 1] # g[i - 1] /\ Byte(d[i]) = Byte(e[i])
      BY <1>3, <1>4, <1>7, <2>3
    <3>2. f[i] # g[i]
      BY <1>5, <3>1, XorCancels
    <3>3. QED
      BY <2>3, <3>2
  <2>4. QED
    BY <1>3, <2>1, <2>2, <2>3
<1>8. 0..n \subseteq T
  <2> HIDE DEF T
  <2>1. QED
    BY <1>3, <1>6, <1>7, CountingUp
<1>9. f[n] # g[n] /\ f[n] \in Words /\ g[n] \in Words
  BY <1>3, <1>8
<1>10. Ones \in Words
  BY DEF Words
<1>11. QED
  BY <1>1, <1>2, <1>9, <1>10, XorCancels

-----------------------------------------------------------------------------
(***************************************************************************)
(* Sequences of cells.                                                     *)
(***************************************************************************)

\* s is a sequence of n cells, whatever these are.
Cells(s, n) == n \in Nat /\ s = [i \in 1..n |-> s[i]]

LEMMA CellsSeq ==
  ASSUME NEW s, NEW n, Cells(s, n)
  PROVE  n \in Nat /\ s \in Seq({s[i] : i \in 1..n}) /\ Len(s) = n /\ DOMAIN s = 1..n
<1> DEFINE S == {s[i] : i \in 1..n}
<1>1. n \in Nat /\ DOMAIN s = 1..n /\ s \in [1..n -> S]
  BY DEF Cells
<1>2. s \in Seq(S)
  BY <1>1, SeqDef
<1>3. QED
  BY <1>1, <1>2, LenProperties

LEMMA SeqCells ==
  ASSUME NEW S, NEW s \in Seq(S)
  PROVE  Cells(s, Len(s))
BY DEF Cells

\* r is s, of m cells, and after it t, of n cells.
Joined(r, s, m, t, n) ==
  /\ Cells(r, m + n)
  /\ \A i \in 1..m : r[i] = s[i]
  /\ \A i \in 1..n : r[m + i] = t[i]

LEMMA ConcatCells ==
  ASSUME NEW s, NEW m, Cells(s, m), NEW t, NEW n, Cells(t, n)
  PROVE  Joined(s \o t, s, m, t, n)
<1> DEFINE S == {s[i] : i \in 1..m} \cup {t[i] : i \in 1..n}
<1>1. /\ m \in Nat /\ DOMAIN s = 1..m /\ s \in [1..m -> S]
      /\ n \in Nat /\ DOMAIN t = 1..n /\ t \in [1..n -> S]
  BY DEF Cells
<1> HIDE DEF S
<1>2. s \in Seq(S) /\ t \in Seq(S) /\ Len(s) = m /\ Len(t) = n
  BY <1>1, SeqDef, LenProperties
<1>3. /\ s \o t \in Seq(S) /\ Len(s \o t) = m + n
      /\ \A i \in 1..(m + n) : (s \o t)[i] = IF i <= m THEN s[i] ELSE t[i - m]
  BY <1>2, ConcatProperties
<1>4. Cells(s \o t, m + n)
  BY <1>3, SeqCells, Zenon
<1>5. ASSUME NEW i \in 1..m PROVE (s \o t)[i] = s[i]
  BY <1>1, <1>3
<1>6. ASSUME NEW i \in 1..n PROVE (s \o t)[m + i] = t[i]
  <2>1. m + i \in 1..(m + n) /\ ~(m + i <= m) /\ (m + i) - m = i
    BY <1>1
  <2>2. QED
    BY <1>3, <2>1
<1>7. QED
  BY <1>4, <1>5, <1>6 DEF Joined

LEMMA BytesCells ==
  ASSUME NEW x, NEW size \in Nat
  PROVE  Cells(Bytes(x, size), size)
BY DEF Bytes, Cells

-----------------------------------------------------------------------------
(***************************************************************************)
(* Numbers as bytes.                                                       *)
(***************************************************************************)
LEMMA Division ==
  ASSUME NEW b \in Nat \ {0}, NEW x \in Int
  PROVE  x \div b \in Int /\ x % b \in 0..(b - 1) /\ x = (x \div b) * b + (x % b)
OBVIOUS

\* The bounds of a quotient.
LEMMA QuotientBelow ==
  ASSUME NEW b \in Nat \ {0}, NEW x \in Int, NEW a \in Int, x < a * b
  PROVE  x \div b < a
<1>1. x \div b \in Int /\ (x \div b) * b <= x
  OBVIOUS
<1>2. QED
  BY <1>1

LEMMA QuotientFrom ==
  ASSUME NEW b \in Nat \ {0}, NEW x \in Int, NEW a \in Int, a * b <= x
  PROVE  a <= x \div b
<1> DEFINE q == x \div b
<1>1. q \in Int /\ x < (q + 1) * b
  <2>1. q \in Int /\ \E r \in 0..(b - 1) : x = q * b + r
    BY Division
  <2> HIDE DEF q
  <2>2. x < q * b + b
    BY <2>1
  <2>3. (q + 1) * b = q * b + b
    BY <2>1
  <2>4. QED
    BY <2>1, <2>2, <2>3
<1> HIDE DEF q
<1>2. a * b < (q + 1) * b
  BY <1>1
<1>3. a < q + 1
  BY <1>1, <1>2
<1>4. QED
  BY <1>1, <1>3 DEF q

\* What is left of x, byte after byte, and the bytes.
Chain(rest, x, n) ==
  /\ rest \in [0..n -> Int] /\ rest[0] = x
  /\ \A i \in 1..n : rest[i] = rest[i - 1] \div Base

BytesOf(s, rest, x, n) == Chain(rest, x, n) /\ s = [i \in 1..n |-> rest[i - 1] % Base]

LEMMA BytesChain ==
  ASSUME NEW x \in Int, NEW size \in Nat
  PROVE  \E rest : BytesOf(Bytes(x, size), rest, x, size)
<1> DEFINE F(g) == g = [i \in 0..size |-> IF i = 0 THEN x ELSE g[i - 1] \div Base]
           rest == CHOOSE g : F(g)
           step == [v \in Int |-> [c \in {0} |-> v \div Base]]
           input == [i \in 1..size |-> 0]
<1>1. Base \in Nat \ {0}
  BY TelemetryAssumption
<1>2. \E g \in [0..size -> Int] : Recursion(g, size, x, step, input)
  <2>1. step \in [Int -> [{0} -> Int]] /\ input \in [1..size -> {0}]
    BY <1>1
  <2> HIDE DEF step, input
  <2>2. QED
    BY <2>1, RecursionExists
<1>3. ASSUME NEW g, g \in [0..size -> Int]
      PROVE  Recursion(g, size, x, step, input) => F(g)
  <2>1. \A i \in 0..size : (IF i = 0 THEN x ELSE step[g[i - 1]][input[i]])
                             = IF i = 0 THEN x ELSE g[i - 1] \div Base
    <3> TAKE i \in 0..size
    <3>1. CASE i # 0
      <4>1. i \in 1..size /\ i - 1 \in 0..size
        BY <3>1
      <4>2. g[i - 1] \in Int /\ input[i] = 0
        BY <1>3, <4>1
      <4> HIDE DEF input
      <4>3. step[g[i - 1]][input[i]] = g[i - 1] \div Base
        BY <4>2
      <4>4. QED
        BY <4>3
    <3>2. QED
      BY <3>1
  <2> HIDE DEF step, input
  <2>2. [i \in 0..size |-> IF i = 0 THEN x ELSE step[g[i - 1]][input[i]]]
          = [i \in 0..size |-> IF i = 0 THEN x ELSE g[i - 1] \div Base]
    BY <2>1
  <2>3. QED
    BY <2>2, Zenon DEF Recursion
<1>4. F(rest)
  <2> HIDE DEF F, step, input
  <2>1. \E g : F(g)
    BY <1>2, <1>3
  <2>2. QED
    BY <2>1
<1>5. Bytes(x, size) = [i \in 1..size |-> rest[i - 1] % Base]
  BY DEF Bytes
<1> HIDE DEF rest, step, input
<1>6. /\ DOMAIN rest = 0..size /\ rest = [i \in 0..size |-> rest[i]]
      /\ rest[0] = x /\ \A i \in 1..size : rest[i] = rest[i - 1] \div Base
  <2>1. DOMAIN rest = 0..size /\ rest = [i \in 0..size |-> rest[i]]
    BY <1>4
  <2>2. \A i \in 0..size : rest[i] = IF i = 0 THEN x ELSE rest[i - 1] \div Base
    BY <1>4, Zenon
  <2>3. rest[0] = x
    BY <2>2
  <2>4. ASSUME NEW i \in 1..size PROVE rest[i] = rest[i - 1] \div Base
    <3>1. i \in 0..size /\ i # 0
      OBVIOUS
    <3>2. QED
      BY <2>2, <3>1, Zenon
  <2>5. QED
    BY <2>1, <2>3, <2>4
<1>7. rest \in [0..size -> Int]
  <2> DEFINE S == {i \in 0..size : rest[i] \in Int}
  <2>1. 0 \in S
    BY <1>6
  <2>2. ASSUME NEW i \in 1..size, i - 1 \in S PROVE i \in S
    <3>1. rest[i - 1] \in Int /\ rest[i] = rest[i - 1] \div Base
      BY <1>6, <2>2
    <3>2. rest[i] \in Int
      BY <1>1, <3>1, Division
    <3>3. QED
      BY <3>2
  <2>3. 0..size \subseteq S
    <3> HIDE DEF S
    <3>1. QED
      BY <2>1, <2>2, CountingUp
  <2>4. QED
    BY <1>6, <2>3
<1>8. QED
  BY <1>5, <1>6, <1>7 DEF Chain, BytesOf

\* A sequence of cells that make up what is left of a number, down to nothing, has its value.
LEMMA UnsignedValue ==
  ASSUME NEW n \in Nat, NEW rest \in [0..n -> Int], rest[n] = 0,
         NEW s, Cells(s, n), \A i \in 1..n : rest[i - 1] = rest[i] * Base + s[i]
  PROVE  Unsigned(s) = rest[0]
<1> DEFINE F(g) == g = [i \in 1..(n + 1) |-> IF i > n THEN 0 ELSE g[i + 1] * Base + s[i]]
           value == CHOOSE g : F(g)
<1>1. Len(s) = n
  BY CellsSeq
<1>2. Unsigned(s) = value[1]
  BY <1>1 DEF Unsigned
<1>3. \E g : F(g)
  <2> DEFINE g == [i \in 1..(n + 1) |-> rest[i - 1]]
  <2>1. ASSUME NEW i \in 1..(n + 1)
        PROVE  rest[i - 1] = IF i > n THEN 0 ELSE g[i + 1] * Base + s[i]
    <3>1. CASE i > n
      <4>1. i - 1 = n
        BY <3>1
      <4>2. QED
        BY <3>1, <4>1
    <3>2. CASE ~(i > n)
      <4>1. i \in 1..n /\ i + 1 \in 1..(n + 1) /\ (i + 1) - 1 = i
        BY <3>2
      <4>2. g[i + 1] = rest[i]
        BY <4>1
      <4>3. QED
        BY <3>2, <4>1, <4>2
    <3>3. QED
      BY <3>1, <3>2
  <2>2. g = [i \in 1..(n + 1) |-> IF i > n THEN 0 ELSE g[i + 1] * Base + s[i]]
    <3>1. [i \in 1..(n + 1) |-> rest[i - 1]]
            = [i \in 1..(n + 1) |-> IF i > n THEN 0 ELSE g[i + 1] * Base + s[i]]
      <4> HIDE DEF g
      <4>1. QED
        BY <2>1, Zenon
    <3>2. QED
      BY <3>1, Zenon
  <2>3. QED
    BY <2>2, Zenon
<1>4. F(value)
  <2> HIDE DEF F
  <2>1. QED
    BY <1>3, Zenon
<1> HIDE DEF value
<1>5. \A i \in 1..(n + 1) : value[i] = IF i > n THEN 0 ELSE value[i + 1] * Base + s[i]
  BY <1>4, Zenon
<1> HIDE DEF F
<1> DEFINE S == {k \in 0..n : value[n + 1 - k] = rest[n - k]}
<1>6. 0 \in S
  <2>1. n + 1 \in 1..(n + 1) /\ n + 1 > n /\ n + 1 - 0 = n + 1 /\ n - 0 = n
    OBVIOUS
  <2>2. value[n + 1] = 0
    BY <1>5, <2>1
  <2>3. QED
    BY <2>1, <2>2
<1>7. ASSUME NEW k \in 1..n, k - 1 \in S PROVE k \in S
  <2> DEFINE i == n + 1 - k
  <2>1. /\ i \in 1..n /\ i \in 1..(n + 1) /\ ~(i > n) /\ i - 1 = n - k
        /\ n + 1 - (k - 1) = i + 1 /\ n - (k - 1) = i
    OBVIOUS
  <2>2. value[i + 1] = rest[i]
    BY <1>7, <2>1
  <2> HIDE DEF i, S
  <2>3. value[i] = rest[i] * Base + s[i]
    BY <1>5, <2>1, <2>2
  <2>4. value[i] = rest[i - 1]
    BY <2>1, <2>3
  <2>5. value[n + 1 - k] = rest[n - k]
    BY <2>1, <2>4, Zenon DEF i
  <2>6. QED
    BY <2>5 DEF S
<1>8. n \in S
  <2> HIDE DEF S
  <2>1. 0..n \subseteq S
    BY <1>6, <1>7, CountingUp
  <2>2. QED
    BY <2>1
<1>9. value[1] = rest[0]
  <2>1. n + 1 - n = 1 /\ n - n = 0
    OBVIOUS
  <2>2. QED
    BY <1>8, <2>1
<1>10. QED
  BY <1>2, <1>9

LEMMA BaseHalf == \E h \in Nat \ {0} : Base = 2 * h /\ Base \div 2 = h
<1> DEFINE h == Base \div 2
<1>1. h \in Nat \ {0} /\ Base = 2 * h
  BY TelemetryAssumption
<1>2. QED
  BY <1>1

LEMMA ChainValue ==
  ASSUME NEW x \in Int, NEW n \in Nat, NEW rest, NEW s, BytesOf(s, rest, x, n), rest[n] = 0
  PROVE  Unsigned(s) = x
<1> USE DEF BytesOf
<1>1. Cells(s, n)
  BY DEF Cells
<1>2. ASSUME NEW i \in 1..n PROVE rest[i - 1] = rest[i] * Base + s[i]
  <2>1. i - 1 \in 0..n /\ Base \in Nat \ {0}
    BY TelemetryAssumption
  <2>2. rest[i - 1] \in Int /\ rest[i] = rest[i - 1] \div Base
    BY <2>1 DEF Chain
  <2>3. rest[i - 1] = (rest[i - 1] \div Base) * Base + (rest[i - 1] % Base)
    BY <2>1, <2>2, Division
  <2>4. s[i] = rest[i - 1] % Base
    OBVIOUS
  <2>5. QED
    BY <2>2, <2>3, <2>4, Zenon
<1>3. rest \in [0..n -> Int] /\ rest[0] = x
  BY DEF Chain
<1>4. Unsigned(s) = rest[0]
  BY <1>1, <1>2, <1>3, UnsignedValue
<1>5. QED
  BY <1>3, <1>4

\* The next of a chain is smaller, and never negative.
LEMMA NextFits ==
  ASSUME NEW b \in Nat \ {0}, NEW x \in Nat, NEW a \in Nat, x < a * b, NEW y, y = x \div b
  PROVE  y \in Nat /\ y < a
<1>1. 0 * b <= x
  OBVIOUS
<1>2. 0 <= y
  BY <1>1, QuotientFrom
<1>3. y < a /\ y \in Int
  BY QuotientBelow, Division
<1>4. QED
  BY <1>2, <1>3

LEMMA ZeroStays ==
  ASSUME NEW b \in Nat \ {0}, NEW y, y = 0 \div b
  PROVE  y = 0
<1>1. 0 < 1 * b
  OBVIOUS
<1>2. y \in Nat /\ y < 1
  BY <1>1, NextFits
<1>3. QED
  BY <1>2

\* Numbers that fit their field come out as they went in.
LEMMA Uint16RoundTrip ==
  ASSUME NEW x \in 0..MaxU16
  PROVE  Unsigned(Bytes(x, 2)) = x
<1> DEFINE b == Base
<1>1. b \in Nat \ {0} /\ x \in Nat /\ x \in Int /\ x < b * b
  BY TelemetryAssumption DEF MaxU16
<1>2. PICK rest : BytesOf(Bytes(x, 2), rest, x, 2)
  BY <1>1, BytesChain
<1>3. rest[0] = x /\ rest[1] = rest[0] \div b /\ rest[2] = rest[1] \div b
  <2>1. 1 \in 1..2 /\ 2 \in 1..2 /\ 1 - 1 = 0 /\ 2 - 1 = 1
    OBVIOUS
  <2>2. \A i \in 1..2 : rest[i] = rest[i - 1] \div b
    BY <1>2 DEF BytesOf, Chain
  <2>3. rest[1] = rest[1 - 1] \div b /\ rest[2] = rest[2 - 1] \div b
    BY <2>1, <2>2, Zenon
  <2>4. QED
    BY <1>2, <2>1, <2>3 DEF BytesOf, Chain
<1> HIDE DEF b
<1>4. rest[1] \in Nat /\ rest[1] < b
  BY <1>1, <1>3, NextFits
<1>5. rest[2] \in Nat /\ rest[2] < 1
  <2>1. rest[1] < 1 * b
    BY <1>1, <1>4
  <2>2. QED
    BY <1>1, <1>3, <1>4, <2>1, NextFits
<1>6. rest[2] = 0
  BY <1>5
<1>7. QED
  BY <1>1, <1>2, <1>6, ChainValue

LEMMA Uint32Chain ==
  ASSUME NEW x \in 0..MaxU32, NEW n \in Nat, n >= 4, NEW rest, Chain(rest, x, n)
  PROVE  rest[4] = 0
<1> DEFINE b == Base
<1>1. b \in Nat \ {0} /\ x \in Nat /\ x < b * b * b * b
  BY TelemetryAssumption DEF MaxU32
<1>2. /\ rest[0] = x /\ rest[1] = rest[0] \div b /\ rest[2] = rest[1] \div b
      /\ rest[3] = rest[2] \div b /\ rest[4] = rest[3] \div b
  <2>1. /\ {1, 2, 3, 4} \subseteq 1..n /\ 1 - 1 = 0 /\ 2 - 1 = 1 /\ 3 - 1 = 2 /\ 4 - 1 = 3
    OBVIOUS
  <2>2. \A i \in 1..n : rest[i] = rest[i - 1] \div b
    BY DEF Chain
  <2>3. \A i \in {1, 2, 3, 4} : rest[i] = rest[i - 1] \div b
    BY <2>1, <2>2
  <2>4. /\ rest[1] = rest[1 - 1] \div b /\ rest[2] = rest[2 - 1] \div b
        /\ rest[3] = rest[3 - 1] \div b /\ rest[4] = rest[4 - 1] \div b
    BY <2>3, Zenon
  <2>5. QED
    BY <2>1, <2>4 DEF Chain
<1> HIDE DEF b
<1> DEFINE b2 == b * b
           b3 == b2 * b
<1>3. b2 \in Nat /\ b3 \in Nat /\ x < b3 * b
  BY <1>1
<1>4. rest[1] \in Nat /\ rest[1] < b3
  <2> HIDE DEF b3
  <2>1. QED
    BY <1>1, <1>2, <1>3, NextFits
<1>5. rest[2] \in Nat /\ rest[2] < b2
  <2>1. rest[1] < b2 * b
    BY <1>4
  <2> HIDE DEF b3, b2
  <2>2. QED
    BY <1>1, <1>2, <1>3, <1>4, <2>1, NextFits
<1>6. rest[3] \in Nat /\ rest[3] < b
  <2>1. rest[2] < b * b
    BY <1>5
  <2> HIDE DEF b3, b2
  <2>2. QED
    BY <1>1, <1>2, <1>5, <2>1, NextFits
<1> HIDE DEF b3, b2
<1>7. rest[4] \in Nat /\ rest[4] < 1
  <2>1. rest[3] < 1 * b
    BY <1>1, <1>6
  <2>2. QED
    BY <1>1, <1>2, <1>6, <2>1, NextFits
<1>8. QED
  BY <1>7

LEMMA Uint32RoundTrip ==
  ASSUME NEW x \in 0..MaxU32
  PROVE  Unsigned(Bytes(x, 4)) = x
<1>1. x \in Int
  OBVIOUS
<1>2. PICK rest : BytesOf(Bytes(x, 4), rest, x, 4)
  BY <1>1, BytesChain
<1>3. rest[4] = 0
  BY <1>2, Uint32Chain DEF BytesOf
<1>4. QED
  BY <1>1, <1>2, <1>3, ChainValue

LEMMA Uint64RoundTrip ==
  ASSUME NEW x \in 0..MaxU32
  PROVE  Unsigned(Bytes(x, 8)) = x
<1>1. x \in Int /\ Base \in Nat \ {0}
  BY TelemetryAssumption
<1>2. PICK rest : BytesOf(Bytes(x, 8), rest, x, 8)
  BY <1>1, BytesChain
<1>3. rest[4] = 0
  BY <1>2, Uint32Chain DEF BytesOf
<1>4. \A i \in 1..8 : rest[i - 1] = 0 => rest[i] = 0
  <2> TAKE i \in 1..8
  <2>1. rest[i] = rest[i - 1] \div Base
    BY <1>2 DEF BytesOf, Chain
  <2>2. QED
    BY <1>1, <2>1, ZeroStays
<1>5. rest[8] = 0
  BY <1>3, <1>4
<1>6. QED
  BY <1>1, <1>2, <1>5, ChainValue

\* The same for numbers with a sign.
LEMMA NextSigned ==
  ASSUME NEW b \in Nat \ {0}, NEW x \in Int, NEW a \in Nat, -(a * b) <= x, x < a * b,
         NEW y, y = x \div b
  PROVE  y \in Int /\ -a <= y /\ y < a
<1>1. (-a) * b <= x
  OBVIOUS
<1>2. -a <= y
  BY <1>1, QuotientFrom
<1>3. y < a /\ y \in Int
  BY QuotientBelow, Division
<1>4. QED
  BY <1>2, <1>3

TopIs(m, h, q) == (IF m >= h THEN m - 2 * h ELSE m) = q

LEMMA TopByte ==
  ASSUME NEW h \in Nat \ {0}, NEW q \in Int, -h <= q, q < h, NEW m, m = q % (2 * h)
  PROVE  TopIs(m, h, q)
<1> USE DEF TopIs
<1> DEFINE b == 2 * h
           k == q \div b
<1>1. b \in Nat \ {0} /\ -(1 * b) <= q /\ q < 1 * b
  OBVIOUS
<1> HIDE DEF b
<1>2. k \in Int /\ -1 <= k /\ k < 1
  BY <1>1, NextSigned
<1>3. m \in 0..(b - 1) /\ q = k * b + m
  BY <1>1, Division DEF b
<1> HIDE DEF k
<1>4. CASE k = 0
  BY <1>1, <1>3, <1>4 DEF b
<1>5. CASE k = -1
  BY <1>1, <1>3, <1>5 DEF b
<1>6. QED
  BY <1>2, <1>4, <1>5

LEMMA Int32RoundTrip ==
  ASSUME NEW x \in Int32
  PROVE  Signed(Bytes(x, 4)) = x
<1> DEFINE b == Base
           s == Bytes(x, 4)
<1>1. PICK h \in Nat \ {0} : b = 2 * h /\ b \div 2 = h
  BY BaseHalf
<1>2. b \in Nat \ {0} /\ x \in Int
  BY <1>1, TelemetryAssumption DEF Int32
<1>3. PICK rest : BytesOf(s, rest, x, 4)
  BY <1>2, BytesChain
<1>4. /\ rest \in [0..4 -> Int] /\ rest[0] = x
      /\ \A i \in 1..4 : rest[i] = rest[i - 1] \div b
      /\ s = [i \in 1..4 |-> rest[i - 1] % b]
  BY <1>3 DEF BytesOf, Chain
<1>5. rest[1] = rest[0] \div b /\ rest[2] = rest[1] \div b /\ rest[3] = rest[2] \div b
  <2>1. {1, 2, 3} \subseteq 1..4 /\ 1 - 1 = 0 /\ 2 - 1 = 1 /\ 3 - 1 = 2
    OBVIOUS
  <2>2. \A i \in {1, 2, 3} : rest[i] = rest[i - 1] \div b
    BY <1>4, <2>1
  <2>3. rest[1] = rest[1 - 1] \div b /\ rest[2] = rest[2 - 1] \div b /\ rest[3] = rest[3 - 1] \div b
    BY <2>2, Zenon
  <2>4. QED
    BY <2>1, <2>3
<1>6. Signed(s) = Unsigned([s EXCEPT ![4] = IF @ >= b \div 2 THEN @ - b ELSE @])
  <2>1. Len(s) = 4
    BY BytesCells, CellsSeq
  <2> HIDE DEF s
  <2>2. QED
    BY <2>1, Zenon DEF Signed
<1>7. -(h * b * b * b) <= x /\ x < h * b * b * b
  <2>1. h * b * b * b \in Nat
    BY <1>1, <1>2
  <2>2. x \in -(h * b * b * b)..(h * b * b * b - 1)
    BY <1>1, Zenon DEF Int32
  <2>3. QED
    BY <1>2, <2>1, <2>2
<1> HIDE DEF b, s
<1> DEFINE a2 == h * b
           a3 == a2 * b
<1>8. a2 \in Nat /\ a3 \in Nat /\ -(a3 * b) <= x /\ x < a3 * b
  <2>1. a2 \in Nat /\ a3 \in Nat /\ a3 * b \in Nat
    BY <1>1, <1>2
  <2>2. a3 * b = h * b * b * b
    OBVIOUS
  <2> HIDE DEF a3
  <2>3. QED
    BY <1>2, <1>7, <2>1, <2>2
<1>9. rest[1] \in Int /\ -a3 <= rest[1] /\ rest[1] < a3
  <2> HIDE DEF a3
  <2>1. QED
    BY <1>2, <1>4, <1>5, <1>8, NextSigned
<1>10. rest[2] \in Int /\ -a2 <= rest[2] /\ rest[2] < a2
  <2>1. -(a2 * b) <= rest[1] /\ rest[1] < a2 * b
    BY <1>9
  <2> HIDE DEF a3, a2
  <2>2. QED
    BY <1>2, <1>5, <1>8, <1>9, <2>1, NextSigned
<1>11. rest[3] \in Int /\ -h <= rest[3] /\ rest[3] < h
  <2>1. -(h * b) <= rest[2] /\ rest[2] < h * b
    BY <1>10
  <2> HIDE DEF a3, a2
  <2>2. QED
    BY <1>1, <1>2, <1>5, <1>10, <2>1, NextSigned
<1> HIDE DEF a2, a3
<1> DEFINE t == [s EXCEPT ![4] = IF @ >= b \div 2 THEN @ - b ELSE @]
           left == [i \in 0..4 |-> IF i = 4 THEN 0 ELSE rest[i]]
<1>12. t = [i \in 1..4 |-> IF i = 4 THEN rest[3] ELSE rest[i - 1] % b]
  <2>1. s[4] = rest[3] % (2 * h)
    <3>1. 4 \in 1..4 /\ 4 - 1 = 3
      OBVIOUS
    <3>2. s[4] = rest[4 - 1] % b
      BY <1>4, <3>1, Zenon
    <3>3. QED
      BY <1>1, <3>1, <3>2
  <2> DEFINE w == IF s[4] >= b \div 2 THEN s[4] - b ELSE s[4]
  <2>2. w = rest[3]
    <3>1. PICK q \in Int : q = rest[3] /\ -h <= q /\ q < h
      BY <1>11
    <3>2. PICK m : m = s[4] /\ m = q % (2 * h)
      BY <2>1, <3>1
    <3>3. (IF m >= h THEN m - 2 * h ELSE m) = q
      <4>1. TopIs(m, h, q)
        BY ONLY <1>1, <3>1, <3>2, TopByte, h \in Nat \ {0}, q \in Int, Zenon
      <4>2. QED
        BY <4>1, Zenon DEF TopIs
    <3>4. QED
      BY <1>1, <3>1, <3>2, <3>3, Zenon
  <2>3. t = [s EXCEPT ![4] = w]
    OBVIOUS
  <2> HIDE DEF w, t
  <2>4. QED
    BY <1>4, <2>2, <2>3
<1>13. left \in [0..4 -> Int] /\ left[4] = 0 /\ left[0] = x
  BY <1>4
<1>14. Cells(t, 4)
  <2> HIDE DEF t
  <2>1. QED
    BY <1>12 DEF Cells
<1>15. ASSUME NEW i \in 1..4 PROVE left[i - 1] = left[i] * Base + t[i]
  <2>1. CASE i = 4
    <3>1. left[i - 1] = rest[3] /\ left[i] = 0 /\ t[i] = rest[3]
      BY <1>12, <2>1
    <3>2. 0 * Base + rest[3] = rest[3]
      BY <1>2, <1>11 DEF b
    <3>3. QED
      BY <3>1, <3>2, Zenon
  <2>2. CASE i # 4
    <3>1. i \in 0..4 /\ i - 1 \in 0..4 /\ i - 1 # 4
      OBVIOUS
    <3>2. left[i - 1] = rest[i - 1] /\ left[i] = rest[i] /\ t[i] = rest[i - 1] % b
      <4> HIDE DEF t
      <4>1. QED
        BY <1>12, <2>2, <3>1
    <3>3. rest[i - 1] \in Int /\ rest[i] = rest[i - 1] \div b
      BY <1>4, <3>1
    <3> HIDE DEF left, t
    <3>4. rest[i - 1] = (rest[i - 1] \div b) * b + (rest[i - 1] % b)
      BY <1>2, <3>3, Division
    <3>5. QED
      BY <3>2, <3>3, <3>4, Zenon DEF b
  <2>3. QED
    BY <2>1, <2>2
<1>16. Unsigned(t) = left[0]
  <2> HIDE DEF t, left
  <2>1. QED
    BY <1>13, <1>14, <1>15, UnsignedValue
<1>17. QED
  BY <1>6, <1>13, <1>16, Zenon DEF s

-----------------------------------------------------------------------------
(***************************************************************************)
(* The payload.                                                            *)
(***************************************************************************)

\* The k cells of p after the first o are those of t.
Holds(p, o, t, k) == \A i \in 1..k : p[o + i] = t[i]

LEMMA MoreCells ==
  ASSUME NEW s, NEW m \in Nat, Cells(s, m), NEW x, NEW k \in Nat, NEW n, n = m + k
  PROVE  Cells(s \o Bytes(x, k), n) /\ Joined(s \o Bytes(x, k), s, m, Bytes(x, k), k)
<1>1. Cells(Bytes(x, k), k)
  BY BytesCells
<1>2. Joined(s \o Bytes(x, k), s, m, Bytes(x, k), k)
  BY <1>1, ConcatCells, Zenon
<1>3. QED
  BY <1>2, Zenon DEF Joined

\* Of what p starts with, the end and the start.
LEMMA Peel ==
  ASSUME NEW p, NEW r, NEW s, NEW m \in Nat, NEW t, NEW k \in Nat, NEW n, n = m + k,
         Holds(p, 0, r, n), Joined(r, s, m, t, k)
  PROVE  Holds(p, 0, s, m) /\ Holds(p, m, t, k)
<1>1. \A i \in 1..n : p[i] = r[i]
  BY DEF Holds
<1>2. ASSUME NEW i \in 1..m PROVE p[0 + i] = s[i]
  <2>1. i \in 1..n /\ 0 + i = i
    OBVIOUS
  <2>2. QED
    BY <1>1, <2>1, Zenon DEF Joined
<1>3. ASSUME NEW i \in 1..k PROVE p[m + i] = t[i]
  <2>1. m + i \in 1..n
    OBVIOUS
  <2>2. QED
    BY <1>1, <2>1, Zenon DEF Joined
<1>4. QED
  BY <1>2, <1>3, Zenon DEF Holds

\* Where the fields are in the payload.
Fields(p, t) ==
  /\ Cells(p, 26)
  /\ Holds(p, 0, Bytes(t.timestampMs, 8), 8) /\ Holds(p, 8, Bytes(t.latE7, 4), 4)
  /\ Holds(p, 12, Bytes(t.lonE7, 4), 4) /\ Holds(p, 16, Bytes(t.speedMmS, 4), 4)
  /\ Holds(p, 20, Bytes(t.spmX100, 2), 2) /\ Holds(p, 22, Bytes(t.dpsX100, 2), 2)
  /\ Holds(p, 24, Bytes(t.telemetryFlags, 2), 2)

LEMMA PayloadFields == \A t : Fields(encodeTelemetrySummary(t), t)
<1> TAKE t
<1> DEFINE a == Bytes(t.timestampMs, 8)
           b == a \o Bytes(t.latE7, 4)
           c == b \o Bytes(t.lonE7, 4)
           d == c \o Bytes(t.speedMmS, 4)
           e == d \o Bytes(t.spmX100, 2)
           f == e \o Bytes(t.dpsX100, 2)
           g == f \o Bytes(t.telemetryFlags, 2)
<1>1. encodeTelemetrySummary(t) = g
  BY DEF encodeTelemetrySummary
<1>2. Cells(a, 8)
  BY BytesCells
<1>3. /\ 12 = 8 + 4 /\ 16 = 12 + 4 /\ 20 = 16 + 4 /\ 22 = 20 + 2 /\ 24 = 22 + 2 /\ 26 = 24 + 2
  OBVIOUS
<1>4. /\ 8 \in Nat /\ 12 \in Nat /\ 16 \in Nat /\ 20 \in Nat /\ 22 \in Nat /\ 24 \in Nat
      /\ 4 \in Nat /\ 2 \in Nat
  OBVIOUS
<1> HIDE DEF a
<1>5. Cells(b, 12) /\ Joined(b, a, 8, Bytes(t.latE7, 4), 4)
  BY <1>2, <1>3, <1>4, MoreCells, Zenon
<1> HIDE DEF b
<1>6. Cells(c, 16) /\ Joined(c, b, 12, Bytes(t.lonE7, 4), 4)
  BY <1>5, <1>3, <1>4, MoreCells, Zenon
<1> HIDE DEF c
<1>7. Cells(d, 20) /\ Joined(d, c, 16, Bytes(t.speedMmS, 4), 4)
  BY <1>6, <1>3, <1>4, MoreCells, Zenon
<1> HIDE DEF d
<1>8. Cells(e, 22) /\ Joined(e, d, 20, Bytes(t.spmX100, 2), 2)
  BY <1>7, <1>3, <1>4, MoreCells, Zenon
<1> HIDE DEF e
<1>9. Cells(f, 24) /\ Joined(f, e, 22, Bytes(t.dpsX100, 2), 2)
  BY <1>8, <1>3, <1>4, MoreCells, Zenon
<1> HIDE DEF f
<1>10. Cells(g, 26) /\ Joined(g, f, 24, Bytes(t.telemetryFlags, 2), 2)
  BY <1>9, <1>3, <1>4, MoreCells, Zenon
<1> HIDE DEF g
<1>11. Holds(g, 0, g, 26)
  <2>1. \A i \in 1..26 : 0 + i = i
    OBVIOUS
  <2>2. QED
    BY <2>1, Zenon DEF Holds
<1>12. Holds(g, 0, f, 24) /\ Holds(g, 24, Bytes(t.telemetryFlags, 2), 2)
  BY <1>11, <1>10, <1>3, <1>4, Peel
<1>13. Holds(g, 0, e, 22) /\ Holds(g, 22, Bytes(t.dpsX100, 2), 2)
  BY <1>12, <1>9, <1>3, <1>4, Peel
<1>14. Holds(g, 0, d, 20) /\ Holds(g, 20, Bytes(t.spmX100, 2), 2)
  BY <1>13, <1>8, <1>3, <1>4, Peel
<1>15. Holds(g, 0, c, 16) /\ Holds(g, 16, Bytes(t.speedMmS, 4), 4)
  BY <1>14, <1>7, <1>3, <1>4, Peel
<1>16. Holds(g, 0, b, 12) /\ Holds(g, 12, Bytes(t.lonE7, 4), 4)
  BY <1>15, <1>6, <1>3, <1>4, Peel
<1>17. Holds(g, 0, a, 8) /\ Holds(g, 8, Bytes(t.latE7, 4), 4)
  BY <1>16, <1>5, <1>3, <1>4, Peel
<1>18. QED
  BY <1>1, <1>10, <1>12, <1>13, <1>14, <1>15, <1>16, <1>17, Zenon DEF Fields, a

\* The slice of the code, from offset o to offset o + k.
SliceIs(p, o, k, t) == SubSeq(p, o + 1, o + k) = t

LEMMA Slice ==
  ASSUME NEW p, NEW n, Cells(p, n), NEW o \in Nat, NEW k \in Nat, o + k <= n, NEW t,
         Cells(t, k), Holds(p, o, t, k)
  PROVE  SliceIs(p, o, k, t)
<1> DEFINE S == {p[i] : i \in 1..n}
           u == o + 1
           v == o + k
<1>1. p \in Seq(S) /\ Len(p) = n /\ n \in Nat
  BY CellsSeq
<1> HIDE DEF S
<1>2. u \in 1..(n + 1) /\ v \in (u - 1)..n /\ v - u + 1 = k
  BY <1>1
<1>0. \A i \in 1..k : u + i - 1 = o + i
  OBVIOUS
<1> HIDE DEF u, v
<1>3. /\ Cells(SubSeq(p, u, v), k)
      /\ \A i \in 1..k : SubSeq(p, u, v)[i] = p[o + i]
  <2>1. /\ SubSeq(p, u, v) \in Seq(S) /\ Len(SubSeq(p, u, v)) = k
        /\ \A i \in 1..k : SubSeq(p, u, v)[i] = p[u + i - 1]
    <3>1. \A i \in u..v : i \in 1..Len(p)
      BY <1>1, <1>2
    <3>2. u \in Int /\ v \in Int /\ \A i \in u..v : p[i] \in S
      BY <1>1, <1>2, <3>1
    <3>3. /\ SubSeq(p, u, v) \in Seq(S)
          /\ Len(SubSeq(p, u, v)) = IF u <= v THEN v - u + 1 ELSE 0
          /\ \A i \in 1..(v - u + 1) : SubSeq(p, u, v)[i] = p[u + i - 1]
      BY <3>2, SubSeqProperties
    <3>4. (IF u <= v THEN v - u + 1 ELSE 0) = k
      BY <1>1, <1>2
    <3>5. QED
      BY <1>2, <3>3, <3>4, Zenon
  <2>2. Cells(SubSeq(p, u, v), k)
    BY <2>1, SeqCells, Zenon
  <2>3. QED
    BY <1>0, <2>1, <2>2
<1>4. \A i \in 1..k : SubSeq(p, u, v)[i] = t[i]
  BY <1>3 DEF Holds
<1>5. SubSeq(p, u, v) = t
  BY <1>3, <1>4 DEF Cells
<1>6. QED
  BY <1>5 DEF SliceIs, u, v

LEMMA FieldSlice ==
  ASSUME NEW p, Cells(p, 26), NEW o \in Nat, NEW k \in Nat, o + k <= 26, NEW x,
         Holds(p, o, Bytes(x, k), k)
  PROVE  SliceIs(p, o, k, Bytes(x, k))
BY BytesCells, Slice, Zenon

\* What a payload can hold.
Telemetries ==
  [timestampMs : 0..MaxU32, latE7 : Int32, lonE7 : Int32, speedMmS : 0..MaxU32, spmX100 : 0..MaxU16,
   dpsX100 : 0..MaxU16, telemetryFlags : 0..MaxU16]

\* Decoding the payload of a telemetry summary gives the summary again, whichever the numbers
\* are that its fields can hold (encodeTelemetrySummary and decodeTelemetrySummary).
THEOREM PayloadRoundTrip ==
  \A t \in Telemetries : decodeTelemetrySummary(encodeTelemetrySummary(t)) = t
<1> TAKE t \in Telemetries
<1> DEFINE p == encodeTelemetrySummary(t)
<1>1. Fields(p, t)
  BY PayloadFields
<1> HIDE DEF p
<1>2. Cells(p, 26)
  BY <1>1 DEF Fields
<1> USE 0 \in Nat, 2 \in Nat, 4 \in Nat, 8 \in Nat, 12 \in Nat, 16 \in Nat, 20 \in Nat,
        22 \in Nat, 24 \in Nat, 0 + 8 <= 26, 8 + 4 <= 26, 12 + 4 <= 26, 16 + 4 <= 26,
        20 + 2 <= 26, 22 + 2 <= 26, 24 + 2 <= 26
<1>3. SliceIs(p, 0, 8, Bytes(t.timestampMs, 8))
  BY <1>1, <1>2, FieldSlice, Zenon DEF Fields
<1>4. SliceIs(p, 8, 4, Bytes(t.latE7, 4))
  BY <1>1, <1>2, FieldSlice, Zenon DEF Fields
<1>5. SliceIs(p, 12, 4, Bytes(t.lonE7, 4))
  BY <1>1, <1>2, FieldSlice, Zenon DEF Fields
<1>6. SliceIs(p, 16, 4, Bytes(t.speedMmS, 4))
  BY <1>1, <1>2, FieldSlice, Zenon DEF Fields
<1>7. SliceIs(p, 20, 2, Bytes(t.spmX100, 2))
  BY <1>1, <1>2, FieldSlice, Zenon DEF Fields
<1>8. SliceIs(p, 22, 2, Bytes(t.dpsX100, 2))
  BY <1>1, <1>2, FieldSlice, Zenon DEF Fields
<1>9. SliceIs(p, 24, 2, Bytes(t.telemetryFlags, 2))
  BY <1>1, <1>2, FieldSlice, Zenon DEF Fields
<1>10. /\ t.timestampMs \in 0..MaxU32 /\ t.latE7 \in Int32
       /\ t.lonE7 \in Int32 /\ t.speedMmS \in 0..MaxU32
       /\ t.spmX100 \in 0..MaxU16 /\ t.dpsX100 \in 0..MaxU16 /\ t.telemetryFlags \in 0..MaxU16
       /\ t = [timestampMs |-> t.timestampMs, latE7 |-> t.latE7, lonE7 |-> t.lonE7,
               speedMmS |-> t.speedMmS, spmX100 |-> t.spmX100, dpsX100 |-> t.dpsX100,
               telemetryFlags |-> t.telemetryFlags]
  BY DEF Telemetries
<1>11. /\ Unsigned(Bytes(t.timestampMs, 8)) = t.timestampMs
       /\ Signed(Bytes(t.latE7, 4)) = t.latE7 /\ Signed(Bytes(t.lonE7, 4)) = t.lonE7
       /\ Unsigned(Bytes(t.speedMmS, 4)) = t.speedMmS
       /\ Unsigned(Bytes(t.spmX100, 2)) = t.spmX100
       /\ Unsigned(Bytes(t.dpsX100, 2)) = t.dpsX100
       /\ Unsigned(Bytes(t.telemetryFlags, 2)) = t.telemetryFlags
  BY <1>10, Uint64RoundTrip, Uint32RoundTrip, Uint16RoundTrip, Int32RoundTrip, Zenon
<1>12. decodeTelemetrySummary(p)
         = [timestampMs |-> t.timestampMs, latE7 |-> t.latE7, lonE7 |-> t.lonE7,
            speedMmS |-> t.speedMmS, spmX100 |-> t.spmX100, dpsX100 |-> t.dpsX100,
            telemetryFlags |-> t.telemetryFlags]
  BY <1>3, <1>4, <1>5, <1>6, <1>7, <1>8, <1>9, <1>11, Zenon DEF decodeTelemetrySummary, SliceIs
<1>13. QED
  BY <1>10, <1>12, Zenon DEF p

\* s is a sequence of n cells of which v is the first.
Begins(s, n, v) == Cells(s, n) /\ s[1] = v

LEMMA PayloadBegins ==
  ASSUME NEW t, t.timestampMs \in Int
  PROVE  Begins(encodeTelemetrySummary(t), 26, t.timestampMs % Base)
<1> DEFINE p == encodeTelemetrySummary(t)
           x == t.timestampMs
<1>1. Cells(p, 26) /\ Holds(p, 0, Bytes(x, 8), 8)
  BY PayloadFields DEF Fields
<1>2. PICK rest : BytesOf(Bytes(x, 8), rest, x, 8)
  BY BytesChain
<1> HIDE DEF p, x
<1>3. Bytes(x, 8)[1] = x % Base
  <2>1. 1 \in 1..8 /\ 1 - 1 = 0
    OBVIOUS
  <2>2. Bytes(x, 8)[1] = rest[1 - 1] % Base
    BY <1>2, <2>1, Zenon DEF BytesOf
  <2>3. QED
    BY <1>2, <2>1, <2>2 DEF BytesOf, Chain
<1>4. p[1] = Bytes(x, 8)[1]
  <2>1. 1 \in 1..8 /\ 0 + 1 = 1
    OBVIOUS
  <2>2. p[0 + 1] = Bytes(x, 8)[1]
    BY <1>1, <2>1, Zenon DEF Holds
  <2>3. QED
    BY <2>1, <2>2
<1>5. QED
  BY <1>1, <1>3, <1>4 DEF Begins, p, x

-----------------------------------------------------------------------------
(***************************************************************************)
(* Frames.                                                                 *)
(***************************************************************************)
LEMMA AppendCells ==
  ASSUME NEW s, NEW n, Cells(s, n), NEW x
  PROVE  /\ Append(s, x) = [i \in 1..(n + 1) |-> IF i = n + 1 THEN x ELSE s[i]]
         /\ Cells(Append(s, x), n + 1)
<1> DEFINE S == {s[i] : i \in 1..n} \cup {x}
<1>1. n \in Nat /\ DOMAIN s = 1..n /\ s \in [1..n -> S]
  BY DEF Cells
<1>2. s \in Seq(S) /\ Len(s) = n /\ x \in S
  <2>1. x \in S
    OBVIOUS
  <2> HIDE DEF S
  <2>2. s \in Seq(S)
    BY <1>1, SeqDef
  <2>3. QED
    BY <1>1, <2>1, <2>2, LenProperties
<1> HIDE DEF S
<1>3. /\ Append(s, x) \in Seq(S) /\ Len(Append(s, x)) = n + 1
      /\ \A i \in 1..n : Append(s, x)[i] = s[i]
      /\ Append(s, x)[n + 1] = x
  BY <1>2, AppendProperties
<1>4. Cells(Append(s, x), n + 1)
  BY <1>3, SeqCells, Zenon
<1>5. Append(s, x) = [i \in 1..(n + 1) |-> IF i = n + 1 THEN x ELSE s[i]]
  <2> DEFINE r == Append(s, x)
  <2>1. r = [i \in 1..(n + 1) |-> r[i]]
    BY <1>4 DEF Cells
  <2>2. \A i \in 1..(n + 1) : r[i] = IF i = n + 1 THEN x ELSE s[i]
    BY <1>1, <1>3
  <2> HIDE DEF r
  <2>3. r = [i \in 1..(n + 1) |-> IF i = n + 1 THEN x ELSE s[i]]
    BY <2>1, <2>2
  <2>4. QED
    BY <2>3 DEF r
<1>6. QED
  BY <1>4, <1>5

LEMMA FrontCells ==
  ASSUME NEW s, NEW n \in Nat, Cells(s, n + 1)
  PROVE  SubSeq(s, 1, n) = [i \in 1..n |-> s[i]]
<1>1. s \in Seq({s[i] : i \in 1..(n + 1)}) /\ Len(s) = n + 1
  BY CellsSeq
<1>2. QED
  BY <1>1, SubSeqProperties

\* b holds n cells and starts as a frame with a telemetry summary.
Header(b, n) ==
  /\ Cells(b, n)
  /\ \A i \in 1..MagicLen : b[i] = Magic[i]
  /\ b[MagicLen + 1] = 1 /\ b[MagicLen + 2] = 1 /\ b[MagicLen + 5] = 26

LEMMA MagicType == MagicLen \in Nat /\ Cells(Magic, MagicLen)
BY WireAssumption, SeqCells DEF MagicLen

LEMMA FiveCells ==
  ASSUME NEW a, NEW b, NEW c, NEW d, NEW e
  PROVE  /\ Cells(<<a, b, c, d, e>>, 5)
         /\ <<a, b, c, d, e>>[1] = a /\ <<a, b, c, d, e>>[2] = b /\ <<a, b, c, d, e>>[5] = e
BY DEF Cells

\* The frame before its checksum.
Body(n, p) == Magic \o <<1, 1, 1, n, 26>> \o p

LEMMA BodyHeader ==
  ASSUME NEW n, NEW p, NEW v, Begins(p, 26, v)
  PROVE  /\ Header(Body(n, p), MagicLen + 31) /\ Body(n, p)[MagicLen + 6] = v
         /\ Holds(Body(n, p), MagicLen + 5, p, 26)
<1> DEFINE m == MagicLen
           h == <<1, 1, 1, n, 26>>
           q == Magic \o h
           r == q \o p
<1>1. m \in Nat /\ Cells(Magic, m) /\ Cells(h, 5) /\ Cells(p, 26) /\ p[1] = v
  BY MagicType, FiveCells DEF Begins
<1>2. h[1] = 1 /\ h[2] = 1 /\ h[5] = 26
  BY FiveCells
<1> HIDE DEF h, m
<1>3. Joined(q, Magic, m, h, 5)
  BY <1>1, ConcatCells, Zenon
<1> HIDE DEF q
<1>4. Joined(r, q, m + 5, p, 26)
  <2>1. Cells(q, m + 5)
    BY <1>3, Zenon DEF Joined
  <2>2. QED
    BY <1>1, <2>1, ConcatCells, Zenon
<1>5. Body(n, p) = r
  BY DEF Body, h, q
<1> HIDE DEF r
<1>6. /\ \A i \in 1..m : q[i] = Magic[i]
      /\ \A i \in 1..5 : q[m + i] = h[i]
      /\ \A i \in 1..(m + 5) : r[i] = q[i]
      /\ \A i \in 1..26 : r[(m + 5) + i] = p[i]
  BY <1>3, <1>4, Zenon DEF Joined
<1>7. \A i \in 1..m : r[i] = Magic[i]
  BY <1>1, <1>6
<1>8. r[m + 1] = 1 /\ r[m + 2] = 1 /\ r[m + 5] = 26
  <2>1. m + 1 \in 1..(m + 5) /\ m + 2 \in 1..(m + 5) /\ m + 5 \in 1..(m + 5)
    BY <1>1
  <2>2. r[m + 1] = q[m + 1] /\ r[m + 2] = q[m + 2] /\ r[m + 5] = q[m + 5]
    BY <1>6, <2>1, Zenon
  <2>3. q[m + 1] = h[1] /\ q[m + 2] = h[2] /\ q[m + 5] = h[5]
    BY <1>6
  <2>4. QED
    BY <1>2, <2>2, <2>3, Zenon
<1>9. r[m + 6] = v
  <2>1. m + 6 = (m + 5) + 1 /\ 1 \in 1..26
    BY <1>1
  <2>2. QED
    BY <1>1, <1>6, <2>1, Zenon
<1>10. Cells(r, m + 31)
  <2>1. m + 31 = (m + 5) + 26
    BY <1>1
  <2>2. QED
    BY <1>4, <2>1, Zenon DEF Joined
<1>11. QED
  BY <1>5, <1>6, <1>7, <1>8, <1>9, <1>10, Zenon DEF Header, Holds, m

\* Such a frame decodes when its checksum is that of what comes before.
LEMMA Checked ==
  ASSUME NEW b, Header(b, MagicLen + 32)
  PROVE  Decodes(b) <=> b[MagicLen + 32] = bc_crc32(SubSeq(b, 1, MagicLen + 31))
<1>1. MagicLen \in Nat /\ Len(b) = MagicLen + 32
  BY MagicType, CellsSeq, Zenon DEF Header
<1>2. MagicAt(b, 0)
  <2>1. ASSUME NEW j \in 1..MagicLen PROVE b[0 + j] = Magic[j]
    <3>1. 0 + j = j
      BY <1>1
    <3>2. QED
      BY <3>1, Zenon DEF Header
  <2>2. 0 + MagicLen <= Len(b)
    BY <1>1
  <2>3. QED
    BY <2>1, <2>2 DEF MagicAt
<1>3. /\ Version(b) = ProtocolVersion /\ MsgType(b) = TelemetrySummary
      /\ FrameHeaderSize = MagicLen + 5 /\ PayloadLen(b) = 26
  BY DEF Header, Version, MsgType, PayloadLen, FrameHeaderSize, ProtocolVersion, TelemetrySummary
<1>4. EndPayload(b) = MagicLen + 31 /\ FrameLen(b) = MagicLen + 32 /\ CrcSize = 1
  BY <1>1, <1>3 DEF EndPayload, FrameLen, CrcSize
<1>5. PayloadFault(b) = "OK"
  BY <1>3, WireAssumption DEF PayloadFault, Heartbeat, TelemetrySummary
<1>6. HostCrc(SubSeq(b, 1, EndPayload(b))) = bc_crc32(SubSeq(b, 1, MagicLen + 31))
  BY <1>4, SameChecksum, Zenon DEF HostCrc
<1>7. b[EndPayload(b) + 1] = b[MagicLen + 32]
  BY <1>1, <1>4
<1>8. /\ ~(Len(b) < FrameHeaderSize + CrcSize) /\ ~(PayloadLen(b) > MaxPayload)
      /\ ~(Len(b) < FrameLen(b))
  BY <1>1, <1>3, <1>4, WireAssumption
<1>9. QED
  BY <1>2, <1>3, <1>5, <1>6, <1>7, <1>8, Zenon DEF Decodes, DecodeResult

\* One bit of the first byte of the payload has flipped.
LEMMA DamagedByte ==
  ASSUME NEW x \in Nat, NEW y, y = IF x % 2 = 0 THEN x + 1 ELSE x - 1
  PROVE  Byte(x) # Byte(y)
<1>1. y \in Nat /\ (x % 2 = 1 <=> y % 2 # 1)
  OBVIOUS
<1>2. 2^0 = 1 /\ x \div 1 = x /\ y \div 1 = y
  BY <1>1
<1>3. ASSUME NEW z, z \div 1 = z PROVE 0 \in Byte(z) <=> z % 2 = 1
  <2>1. 0 \in 0..7 /\ z \div 2^0 = z
    BY <1>2, <1>3
  <2>2. QED
    BY <2>1 DEF Byte
<1>4. QED
  BY <1>1, <1>2, <1>3

\* b is frame n with payload p.
Sent(b, n, p) == b = Append(Body(n, p), bc_crc32(Body(n, p)))

\* A frame with a good checksum decodes, and a damaged one does not.
LEMMA GoodAndDamaged ==
  ASSUME NEW n, NEW v \in Nat, NEW p, Begins(p, 26, v), NEW b, Sent(b, n, p)
  PROVE  Decodes(b) /\ ~Decodes(Damaged(b)) /\ Payload(b) = p
<1> DEFINE body == Body(n, p)
           c == bc_crc32(body)
           m == MagicLen
           d == Damaged(b)
           w == IF v % 2 = 0 THEN v + 1 ELSE v - 1
           e == SubSeq(d, 1, m + 31)
<1>1. m \in Nat /\ Header(body, m + 31) /\ body[m + 6] = v
  <2>1. Header(body, m + 31)
    BY BodyHeader, Zenon
  <2>2. body[m + 6] = v
    BY BodyHeader
  <2>3. QED
    BY <2>1, <2>2, MagicType
<1>2. Cells(body, m + 31)
  BY <1>1, Zenon DEF Header
<1> HIDE DEF body, c
<1>3. b = [i \in 1..(m + 32) |-> IF i = m + 32 THEN c ELSE body[i]]
  <2>1. b = Append(body, c)
    BY Zenon DEF Sent, body, c
  <2> HIDE DEF m
  <2>2. Append(body, c) = [i \in 1..((m + 31) + 1) |-> IF i = (m + 31) + 1 THEN c ELSE body[i]]
    BY <1>2, AppendCells
  <2>3. m + 32 = (m + 31) + 1
    BY <1>1
  <2>4. QED
    BY <2>1, <2>2, <2>3, Zenon
<1>4. FrameHeaderSize + 1 = m + 6
  BY <1>1 DEF FrameHeaderSize
<1>5. d = [i \in 1..(m + 32) |-> IF i = m + 32 THEN c ELSE IF i = m + 6 THEN w ELSE body[i]]
  <2>1. d = [b EXCEPT ![m + 6] = IF @ % 2 = 0 THEN @ + 1 ELSE @ - 1]
    BY <1>4, Zenon DEF Damaged
  <2> HIDE DEF d, m
  <2>2. m + 6 \in 1..(m + 32) /\ m + 6 # m + 32
    BY <1>1 DEF m
  <2>3. b[m + 6] = v
    BY <1>1, <1>3, <2>2
  <2>4. d = [b EXCEPT ![m + 6] = w]
    BY <2>1, <2>3
  <2> HIDE DEF w
  <2>5. QED
    BY <1>3, <2>2, <2>4
<1> HIDE DEF m, d, w
<1>6. Cells(b, m + 32) /\ Cells(d, m + 32)
  BY <1>1, <1>3, <1>5 DEF Cells
<1>7. Header(b, m + 32) /\ Header(d, m + 32)
  <2>1. \A i \in 1..m : i \in 1..(m + 32) /\ i # m + 32 /\ i # m + 6
    BY <1>1
  <2>2. \A i \in {m + 1, m + 2, m + 5} : i \in 1..(m + 32) /\ i # m + 32 /\ i # m + 6
    BY <1>1
  <2>3. \A i \in 1..(m + 32) : i # m + 32 /\ i # m + 6 => b[i] = body[i] /\ d[i] = body[i]
    BY <1>3, <1>5, Zenon
  <2>4. \A i \in 1..m : b[i] = body[i] /\ d[i] = body[i]
    BY <2>1, <2>3, Zenon
  <2>5. \A i \in {m + 1, m + 2, m + 5} : b[i] = body[i] /\ d[i] = body[i]
    BY <2>2, <2>3, Zenon
  <2>6. QED
    BY <1>1, <1>6, <2>4, <2>5 DEF Header, m
<1>8. SubSeq(b, 1, m + 31) = body
  <2>1. m + 31 \in Nat /\ m + 32 = (m + 31) + 1
    BY <1>1
  <2>2. SubSeq(b, 1, m + 31) = [i \in 1..(m + 31) |-> b[i]]
    <3>1. Cells(b, (m + 31) + 1)
      BY <1>6, <2>1, Zenon
    <3>2. QED
      BY ONLY <2>1, <3>1, FrontCells, Zenon
  <2>3. \A i \in 1..(m + 31) : b[i] = body[i]
    BY <1>1, <1>3
  <2>4. body = [i \in 1..(m + 31) |-> body[i]]
    BY <1>2, Zenon DEF Cells
  <2>5. [i \in 1..(m + 31) |-> b[i]] = [i \in 1..(m + 31) |-> body[i]]
    BY <2>3, Zenon
  <2>6. QED
    BY <2>2, <2>4, <2>5, Zenon
<1>9. b[m + 32] = c /\ d[m + 32] = c
  <2>1. m + 32 \in 1..(m + 32)
    BY <1>1
  <2>2. QED
    BY <1>3, <1>5, <2>1, Zenon
<1>10. Decodes(b)
  BY <1>7, <1>8, <1>9, Checked, Zenon DEF c, m
<1>11. e = [i \in 1..(m + 31) |-> IF i = m + 6 THEN w ELSE body[i]]
  <2>1. m + 31 \in Nat /\ m + 32 = (m + 31) + 1
    BY <1>1
  <2>2. e = [i \in 1..(m + 31) |-> d[i]]
    <3>1. Cells(d, (m + 31) + 1)
      BY <1>6, <2>1, Zenon
    <3>2. QED
      BY <2>1, <3>1, FrontCells, Zenon DEF e
  <2>3. \A i \in 1..(m + 31) : d[i] = IF i = m + 6 THEN w ELSE body[i]
    BY <1>1, <1>5
  <2>4. [i \in 1..(m + 31) |-> d[i]] = [i \in 1..(m + 31) |-> IF i = m + 6 THEN w ELSE body[i]]
    BY <2>3, Zenon
  <2>5. QED
    BY <2>2, <2>4, Zenon
<1> HIDE DEF e
<1>12. bc_crc32(body) # bc_crc32(e)
  <2>1. Cells(e, m + 31)
    BY <1>1, <1>11 DEF Cells
  <2> DEFINE S == {body[i] : i \in 1..(m + 31)} \cup {e[i] : i \in 1..(m + 31)}
  <2>2. body \in Seq(S) /\ e \in Seq(S) /\ Len(body) = m + 31 /\ Len(e) = m + 31
    <3>1. /\ m + 31 \in Nat /\ body \in [1..(m + 31) -> S] /\ e \in [1..(m + 31) -> S]
          /\ DOMAIN body = 1..(m + 31) /\ DOMAIN e = 1..(m + 31)
      BY <1>1, <1>2, <2>1 DEF Cells
    <3> HIDE DEF S
    <3>2. body \in Seq(S) /\ e \in Seq(S)
      BY <3>1, SeqDef
    <3>3. QED
      BY <3>1, <3>2, LenProperties
  <2> HIDE DEF S
  <2>3. m + 6 \in 1..Len(body) /\ m + 6 \in 1..(m + 31)
    BY <1>1, <2>2
  <2>4. body[m + 6] = v /\ e[m + 6] = w
    BY <1>1, <1>11, <2>3
  <2>5. Byte(body[m + 6]) # Byte(e[m + 6])
    BY <2>4, DamagedByte DEF w
  <2>6. \A i \in 1..Len(body) : i # m + 6 => body[i] = e[i]
    BY <1>11, <2>2
  <2>7. QED
    BY <2>2, <2>3, <2>5, <2>6, OneByteNoticed
<1>13. ~Decodes(d)
  BY <1>7, <1>9, <1>12, Checked, Zenon DEF c, m, e
<1>14. Payload(b) = p
  <2>1. Holds(body, m + 5, p, 26)
    BY BodyHeader, Zenon DEF body, m
  <2>2. Holds(b, m + 5, p, 26)
    <3>1. \A i \in 1..26 : (m + 5) + i \in 1..(m + 32) /\ (m + 5) + i # m + 32
      BY <1>1
    <3>2. \A i \in 1..26 : b[(m + 5) + i] = body[(m + 5) + i]
      BY <1>3, <3>1, Zenon
    <3>3. QED
      BY <2>1, <3>2, Zenon DEF Holds
  <2>3. FrameHeaderSize = m + 5 /\ PayloadLen(b) = 26
    BY <1>7 DEF FrameHeaderSize, PayloadLen, Header, m
  <2>4. /\ m + 5 \in Nat /\ 26 \in Nat /\ (m + 5) + 26 <= m + 32
        /\ FrameHeaderSize + 1 = (m + 5) + 1 /\ EndPayload(b) = (m + 5) + 26
    BY <1>1, <2>3 DEF EndPayload
  <2>5. Cells(p, 26)
    BY DEF Begins
  <2>6. SliceIs(b, m + 5, 26, p)
    BY <1>6, <2>2, <2>4, <2>5, Slice, Zenon
  <2>7. QED
    BY <2>4, <2>6, Zenon DEF Payload, SliceIs
<1>15. QED
  BY <1>10, <1>13, <1>14 DEF d

\* What the boat of from has measured for its frame n.
MeasuredBy(from, n) ==
  LET r == Reading(from, n) IN Summary(n, r.lat, r.lon, r.speed, r.spm, 1)

\* The fields of a struct by the names they have in the library.
AsSummary(c) ==
  [timestampMs |-> c.timestamp_ms, latE7 |-> c.lat_e7, lonE7 |-> c.lon_e7,
   speedMmS |-> c.speed_mm_s, spmX100 |-> c.spm_x100, dpsX100 |-> c.dps_x100,
   telemetryFlags |-> c.telemetry_flags]

\* The struct has the layout of the payload.
LEMMA SameLayout == \A c : StructBytes(c) = encodeTelemetrySummary(AsSummary(c))
<1> TAKE c
<1> DEFINE t == AsSummary(c)
<1>1. /\ t.timestampMs = c.timestamp_ms /\ t.latE7 = c.lat_e7 /\ t.lonE7 = c.lon_e7
      /\ t.speedMmS = c.speed_mm_s /\ t.spmX100 = c.spm_x100 /\ t.dpsX100 = c.dps_x100
      /\ t.telemetryFlags = c.telemetry_flags
  BY DEF AsSummary
<1> HIDE DEF t
<1>2. StructBytes(c) = encodeTelemetrySummary(t)
  BY <1>1, Zenon DEF StructBytes, encodeTelemetrySummary
<1>3. QED
  BY <1>2 DEF t

\* What the boat of from has put into its frame n.
SentBy(from, n) ==
  IF from \in Firmware THEN AsSummary(Collected(from, n)) ELSE MeasuredBy(from, n)

\* What latLonToE7 gives fits its field.
LEMMA LatLonFits == -LatLonLimit..LatLonLimit \subseteq Int32
<1>1. PICK h \in Nat \ {0} : Base = 2 * h /\ Base \div 2 = h
  BY BaseHalf
<1> DEFINE m == h * Base * Base * Base
<1>2. m \in Nat /\ Base * Base * Base * Base = 2 * m
  BY <1>1
<1> HIDE DEF m
<1>3. LatLonLimit \in Nat /\ LatLonLimit < m
  BY <1>2, WireAssumption, TelemetryAssumption DEF MaxU32, LatLonLimit
<1>4. Int32 = -m..(m - 1)
  BY <1>1, Zenon DEF Int32, m
<1>5. QED
  BY <1>2, <1>3, <1>4

\* Numbers of frames fit a sequence number and a timestamp.
LEMMA SentTypes ==
  ASSUME NEW from \in Senders, NEW n \in 1..MaxFrames, from \in Firmware
  PROVE  SentBy(from, n) \in Telemetries
<1>1. Collected(from, n) \in BcTelemetrySummaryV1
  BY CollectedAssumption
<1>2. QED
  BY <1>1 DEF SentBy, AsSummary, Telemetries, BcTelemetrySummaryV1

\* Frames of both sides decode, unless they were damaged, and have the payload they were
\* given.
LEMMA FramesDecode ==
  ASSUME NEW from \in Senders, NEW n \in 1..MaxFrames
  PROVE  /\ Received[from][n].decodes <=> n \notin BadFrames
         /\ n \notin BadFrames =>
              Received[from][n].telemetry
                = decodeTelemetrySummary(encodeTelemetrySummary(SentBy(from, n)))
<1> DEFINE t == SentBy(from, n)
           p == encodeTelemetrySummary(t)
           b == Append(Body(n, p), bc_crc32(Body(n, p)))
<1>1. t.timestampMs \in Nat
  <2>1. CASE from \in Firmware
    <3>1. t \in Telemetries
      BY <2>1, SentTypes
    <3>2. MaxU32 \in Int
      BY TelemetryAssumption DEF MaxU32
    <3> HIDE DEF t
    <3>3. QED
      BY <3>1, <3>2 DEF Telemetries
  <2>2. CASE from \notin Firmware
    <3>1. t.timestampMs = n
      BY <2>2 DEF SentBy, MeasuredBy, Summary
    <3>2. QED
      BY <3>1, HostAssumption
  <2>3. QED
    BY <2>1, <2>2
<1> HIDE DEF t
<1>2. t.timestampMs \in Int /\ t.timestampMs % Base \in Nat
  BY <1>1, TelemetryAssumption
<1>3. Begins(p, 26, t.timestampMs % Base)
  BY <1>2, PayloadBegins
<1> HIDE DEF p
<1>4. Len(p) = 26
  BY <1>3, CellsSeq DEF Begins
<1>5. FirmwareFrame(n, p) = b
  BY <1>4, Zenon DEF FirmwareFrame, Body
<1>6. LibraryFrame(n, p) = b
  <2> DEFINE f == [version |-> ProtocolVersion, msgType |-> TelemetrySummary, boatId |-> 1,
                   seq |-> n, payload |-> p]
  <2>1. /\ f.version = 1 /\ f.msgType = 1 /\ f.boatId = 1 /\ f.seq = n /\ f.payload = p
        /\ Len(f.payload) = 26
    BY <1>4 DEF ProtocolVersion, TelemetrySummary
  <2>2. LibraryFrame(n, p) = EncodeFrame(f)
    BY Zenon DEF LibraryFrame
  <2> HIDE DEF f
  <2>3. EncodeFrame(f) = Append(Body(n, p), HostCrc(Body(n, p)))
    BY <2>1, Zenon DEF EncodeFrame, Body
  <2>4. QED
    BY <2>2, <2>3, SameChecksum, Zenon DEF HostCrc
<1>7. OnWire(from, n) = IF n \in BadFrames THEN Damaged(b) ELSE b
  <2>1. CASE from \in Firmware
    <3>1. StructBytes(Collected(from, n)) = p
      BY <2>1, SameLayout, Zenon DEF SentBy, p, t
    <3>2. QED
      BY <1>5, <2>1, <3>1, Zenon DEF OnWire
  <2>2. CASE from \notin Firmware
    <3>1. LibraryFrame(n, encodeTelemetrySummary(MeasuredBy(from, n))) = b
      BY <1>6, <2>2, Zenon DEF SentBy, p, t
    <3>2. QED
      BY <2>2, <3>1, Zenon DEF OnWire, MeasuredBy
  <2>3. QED
    BY <2>1, <2>2
<1>8. /\ Received[from][n].decodes = Decodes(OnWire(from, n))
      /\ Received[from][n].telemetry = decodeTelemetrySummary(Payload(OnWire(from, n)))
  BY Zenon DEF Received
<1> HIDE DEF b
<1>9. Decodes(b) /\ ~Decodes(Damaged(b)) /\ Payload(b) = p
  <2>1. Sent(b, n, p)
    BY DEF b, Sent
  <2>2. QED
    BY <1>2, <1>3, <2>1, GoodAndDamaged
<1>10. QED
  BY <1>7, <1>8, <1>9, Zenon DEF p, t

-----------------------------------------------------------------------------
(***************************************************************************)
(* What is measured is what is shown: telemetry-scale.ts and dps.ts.       *)
(***************************************************************************)

\* What a sensor gives.
Measure == [finite : BOOLEAN, tenths : Int]

\* The nearest unit, kept within a range around zero.
Near(x, w, lo, hi) ==
  /\ w \in lo..hi
  /\ \/ x - 10 * w \in -5..5
     \/ w = lo /\ x < 10 * lo
     \/ w = hi /\ x > 10 * hi

LEMMA NearestUnit ==
  ASSUME NEW x \in Int, NEW lo \in Int, NEW hi \in Int, lo <= 0, 0 <= hi
  PROVE  Near(x, Clamped(Rounded(x), lo, hi), lo, hi)
BY DEF Near, Clamped, Rounded

LEMMA NearestQuotient ==
  ASSUME NEW s \in Nat, NEW x \in Nat \ {0}, NEW q, q = (2 * s + x) \div (2 * x)
  PROVE  q \in Nat /\ 2 * (s - q * x) \in -x..x
OBVIOUS

LEMMA Limits ==
  /\ MaxU16 \in Nat /\ MaxU32 \in Nat /\ LatLonLimit \in Nat /\ 1 <= MaxU16
  /\ DegScale \in Nat /\ LatLonLimit = 100 * DegScale
<1>1. Base \in Nat /\ 2 <= Base /\ DegScale \in Nat
  BY TelemetryAssumption
<1>2. \A b \in Nat : 2 <= b => b * b \in Nat /\ 4 <= b * b
  <2>1. \A b \in Nat : 2 <= b => b * b >= 2 * b
    OBVIOUS
  <2>2. QED
    BY <2>1
<1>3. Base * Base \in Nat /\ 4 <= Base * Base
  BY <1>1, <1>2
<1>4. MaxU16 \in Nat /\ 1 <= MaxU16
  BY <1>3 DEF MaxU16
<1>5. Base * Base * Base * Base \in Nat /\ 1 <= Base * Base * Base * Base
  <2>1. Base * Base * Base * Base = (Base * Base) * (Base * Base)
    BY <1>1
  <2>2. \A b \in Nat : 4 <= b => b * b \in Nat /\ 1 <= b * b
    BY <1>2
  <2>3. QED
    BY <1>3, <2>1, <2>2
<1>6. QED
  BY <1>1, <1>4, <1>5 DEF MaxU32, LatLonLimit

LEMMA LongitudeShown ==
  ASSUME NEW r \in Measure
  PROVE  Shows(latLonToE7(r), r, -LatLonLimit, LatLonLimit)
<1> DEFINE w == latLonToE7(r)
<1>1. CASE ~r.finite
  BY <1>1, Limits DEF latLonToE7, Shows
<1>2. CASE r.finite
  <2>1. w = Clamped(Rounded(r.tenths), -LatLonLimit, LatLonLimit) /\ r.tenths \in Int
    BY <1>2 DEF latLonToE7, Measure
  <2> HIDE DEF w
  <2>2. Near(r.tenths, w, -LatLonLimit, LatLonLimit)
    <3>1. /\ -LatLonLimit \in Int /\ LatLonLimit \in Int
          /\ -LatLonLimit <= 0 /\ 0 <= LatLonLimit
      BY Limits
    <3>2. QED
      BY ONLY <2>1, <3>1, NearestUnit, Zenon
  <2>3. Shows(w, r, -LatLonLimit, LatLonLimit)
    BY <1>2, <2>2 DEF Shows, Near
  <2>4. QED
    BY <2>3 DEF w
<1>3. QED
  BY <1>1, <1>2 DEF Measure

LEMMA LatitudeShown ==
  ASSUME NEW r \in Measure, r.finite => r.tenths \in -900 * DegScale..900 * DegScale
  PROVE  Shows(latLonToE7(r), r, -90 * DegScale, 90 * DegScale)
<1> DEFINE w == latLonToE7(r)
<1>1. CASE ~r.finite
  BY <1>1, Limits DEF latLonToE7, Shows
<1>2. CASE r.finite
  <2>1. w = Clamped(Rounded(r.tenths), -LatLonLimit, LatLonLimit) /\ r.tenths \in Int
    BY <1>2 DEF latLonToE7, Measure
  <2> HIDE DEF w
  <2>2. Near(r.tenths, w, -LatLonLimit, LatLonLimit)
    <3>1. /\ -LatLonLimit \in Int /\ LatLonLimit \in Int
          /\ -LatLonLimit <= 0 /\ 0 <= LatLonLimit
      BY Limits
    <3>2. QED
      BY ONLY <2>1, <3>1, NearestUnit, Zenon
  <2>3. w \in -90 * DegScale..90 * DegScale /\ r.tenths - 10 * w \in -5..5
    BY <1>2, <2>1, <2>2, Limits DEF Near
  <2>4. Shows(w, r, -90 * DegScale, 90 * DegScale)
    BY <1>2, <2>3 DEF Shows
  <2>5. QED
    BY <2>4 DEF w
<1>3. QED
  BY <1>1, <1>2 DEF Measure

\* Numbers that cannot be negative on the wire.
LEMMA UnsignedShown ==
  ASSUME NEW r \in Measure, NEW hi \in Nat, NEW w,
         w = IF ~r.finite \/ r.tenths < 0 THEN 0 ELSE Clamped(Rounded(r.tenths), 0, hi)
  PROVE  Shows(w, r, 0, hi)
<1>1. CASE ~r.finite
  BY <1>1 DEF Shows
<1>2. CASE r.finite /\ r.tenths < 0
  BY <1>2 DEF Shows, Measure
<1>3. CASE r.finite /\ ~(r.tenths < 0)
  <2>1. w = Clamped(Rounded(r.tenths), 0, hi) /\ r.tenths \in Int
    BY <1>3 DEF Measure
  <2>2. Near(r.tenths, w, 0, hi)
    BY <2>1, NearestUnit, 0 \in Int, hi \in Int, 0 <= 0, 0 <= hi, Zenon
  <2>3. QED
    BY <1>3, <2>2 DEF Shows, Near
<1>4. QED
  BY <1>1, <1>2, <1>3 DEF Measure

\* The distance per stroke agrees with the speed and the rate.
DpsAgrees(mm, x100, dps) ==
  /\ x100 = 0 => dps = 0
  /\ x100 # 0 =>
       LET off == DpsScale * mm - dps * x100
       IN  2 * off \in -x100..x100 \/ (dps = MaxU16 /\ off > 0)

LEMMA DpsShown ==
  ASSUME NEW mm \in Nat, NEW x100 \in Nat
  PROVE  /\ dpsX100FromSpeedMmSAndSpmX100(mm, x100) \in 0..MaxU16
         /\ DpsAgrees(mm, x100, dpsX100FromSpeedMmSAndSpmX100(mm, x100))
<1> DEFINE dps == dpsX100FromSpeedMmSAndSpmX100(mm, x100)
           s == DpsScale * mm
           q == (2 * DpsScale * mm + x100) \div (2 * x100)
<1>1. CASE x100 = 0
  BY <1>1, Limits DEF dpsX100FromSpeedMmSAndSpmX100, DpsAgrees
<1>2. CASE x100 # 0
  <2>1. dps = Clamped(q, 0, MaxU16)
    BY <1>2 DEF dpsX100FromSpeedMmSAndSpmX100
  <2>2. s \in Nat /\ 2 * DpsScale * mm = 2 * s
    <3>1. DpsScale \in Nat
      BY TelemetryAssumption
    <3>2. QED
      BY <3>1
  <2>3. q = (2 * s + x100) \div (2 * x100)
    BY <2>2
  <2> HIDE DEF dps, s, q
  <2>4. q \in Nat /\ 2 * (s - q * x100) \in -x100..x100
    BY <1>2, <2>2, <2>3, NearestQuotient
  <2>5. CASE q <= MaxU16
    <3>1. dps = q
      BY <2>1, <2>4, <2>5 DEF Clamped
    <3>2. DpsAgrees(mm, x100, dps)
      BY <1>2, <2>4, <3>1 DEF DpsAgrees, s
    <3>3. QED
      BY <2>4, <2>5, <3>1, <3>2, Limits DEF dps
  <2>6. CASE q > MaxU16
    <3>1. dps = MaxU16
      BY <2>1, <2>4, <2>6, Limits DEF Clamped
    <3>2. s - MaxU16 * x100 > 0
      <4>1. q \in Nat /\ MaxU16 \in Nat /\ MaxU16 + 1 <= q
        BY <2>4, <2>6, Limits
      <4>2. (MaxU16 + 1) * x100 <= q * x100
        BY <4>1
      <4>3. (MaxU16 + 1) * x100 = MaxU16 * x100 + x100
        BY <4>1
      <4>4. QED
        BY <1>2, <2>2, <2>4, <4>1, <4>2, <4>3
    <3>3. DpsAgrees(mm, x100, dps)
      BY <1>2, <3>1, <3>2 DEF DpsAgrees, s
    <3>4. QED
      BY <3>1, <3>3, Limits DEF dps
  <2>7. QED
    BY <2>4, <2>5, <2>6, Limits
<1>3. QED
  BY <1>1, <1>2

\* What the hub shall hear of frame n of from.
True(from, n, t) ==
  IF from \in Firmware THEN AsCollected(from, n, t) ELSE AsMeasured(from, n, t)

LEMMA CollectedSent ==
  ASSUME NEW from \in Senders, NEW n \in 1..MaxFrames, from \in Firmware
  PROVE  AsCollected(from, n, SentBy(from, n))
<1>1. Collected(from, n) \in BcTelemetrySummaryV1
  BY CollectedAssumption
<1>2. QED
  BY <1>1 DEF AsCollected, SentBy, AsSummary, BcTelemetrySummaryV1

\* A boat sends what it measured, and every number fits its field.
LEMMA Measured ==
  ASSUME NEW from \in Senders \ Firmware, NEW n \in 1..MaxFrames
  PROVE  MeasuredBy(from, n) \in Telemetries /\ AsMeasured(from, n, MeasuredBy(from, n))
<1> DEFINE r == Reading(from, n)
           t == MeasuredBy(from, n)
           mm == speedMpsToMmS(r.speed)
           x100 == spmToX100(r.spm)
           dps == dpsX100FromSpeedMmSAndSpmX100(mm, x100)
<1>1. /\ r.lat \in Measure /\ r.lon \in Measure /\ r.speed \in Measure /\ r.spm \in Measure
      /\ r.lat.finite => r.lat.tenths \in -900 * DegScale..900 * DegScale
  BY ReadingAssumption DEF Measure
<1>2. t = [timestampMs |-> n, latE7 |-> latLonToE7(r.lat), lonE7 |-> latLonToE7(r.lon),
           speedMmS |-> mm, spmX100 |-> x100, dpsX100 |-> dps, telemetryFlags |-> 1]
  BY Zenon DEF MeasuredBy, Summary
<1>3. Shows(mm, r.speed, 0, MaxU32)
  BY <1>1, Limits, UnsignedShown DEF speedMpsToMmS
<1>4. Shows(x100, r.spm, 0, MaxU16)
  BY <1>1, Limits, UnsignedShown DEF spmToX100
<1>5. /\ Shows(latLonToE7(r.lat), r.lat, -90 * DegScale, 90 * DegScale)
      /\ Shows(latLonToE7(r.lat), r.lat, -LatLonLimit, LatLonLimit)
      /\ Shows(latLonToE7(r.lon), r.lon, -LatLonLimit, LatLonLimit)
  BY <1>1, LatitudeShown, LongitudeShown
<1>6. /\ mm \in 0..MaxU32 /\ x100 \in 0..MaxU16
      /\ latLonToE7(r.lat) \in Int32 /\ latLonToE7(r.lon) \in Int32
  BY <1>3, <1>4, <1>5, LatLonFits, Zenon DEF Shows
<1>7. mm \in Nat /\ x100 \in Nat
  BY <1>6, Limits
<1>8. dps \in 0..MaxU16 /\ DpsAgrees(mm, x100, dps)
  BY <1>7, DpsShown
<1>9. n \in 0..MaxU32 /\ 1 \in 0..MaxU16
  BY WireAssumption, HostAssumption, Limits
<1> HIDE DEF mm, x100, dps, t
<1>10. t \in Telemetries
  BY <1>2, <1>6, <1>8, <1>9 DEF Telemetries
<1>11. AsMeasured(from, n, t)
  <2>1. /\ t.latE7 = latLonToE7(r.lat) /\ t.lonE7 = latLonToE7(r.lon) /\ t.speedMmS = mm
        /\ t.spmX100 = x100 /\ t.dpsX100 = dps /\ t.timestampMs = n /\ t.telemetryFlags = 1
    BY <1>2
  <2>2. QED
    BY <1>3, <1>4, <1>5, <1>8, <2>1, Zenon DEF AsMeasured, DpsAgrees
<1>12. QED
  BY <1>10, <1>11 DEF t

\* What is sent fits its fields and is true.
LEMMA SentTrue ==
  ASSUME NEW from \in Senders, NEW n \in 1..MaxFrames
  PROVE  SentBy(from, n) \in Telemetries /\ True(from, n, SentBy(from, n))
<1>1. CASE from \in Firmware
  BY <1>1, SentTypes, CollectedSent, Zenon DEF True
<1>2. CASE from \notin Firmware
  BY <1>2, Measured, Zenon DEF True, SentBy
<1>3. QED
  BY <1>1, <1>2

\* A frame that decodes was not damaged and shows what was measured.
LEMMA GoodFrames ==
  ASSUME NEW from \in Senders, NEW n \in 1..MaxFrames, Received[from][n].decodes
  PROVE  n \notin BadFrames /\ True(from, n, Received[from][n].telemetry)
<1>1. n \notin BadFrames
  BY FramesDecode
<1>2. Received[from][n].telemetry
        = decodeTelemetrySummary(encodeTelemetrySummary(SentBy(from, n)))
  BY <1>1, FramesDecode
<1>3. SentBy(from, n) \in Telemetries /\ True(from, n, SentBy(from, n))
  BY SentTrue
<1>4. Received[from][n].telemetry = SentBy(from, n)
  BY <1>2, <1>3, PayloadRoundTrip
<1>5. QED
  BY <1>1, <1>3, <1>4, Zenon

-----------------------------------------------------------------------------
(***************************************************************************)
(* Types.  The hub hears of good frames only.                              *)
(***************************************************************************)

\* What the hub may have heard of: good frames, as they decode.
Heard == {[from |-> f, n |-> k, telemetry |-> Received[f][k].telemetry] :
            f \in Senders, k \in (1..MaxFrames) \ BadFrames}

OptionTypes == kind \in Kinds /\ user \in Users /\ onDecodeError \in OnDecodeErrors

SocketStates == {"none", "opening", "bound", "open", "failed", "closing", "closed"}

LifeTypes ==
  /\ handle \in [Transports -> 0..MaxStarts] /\ starts \in [Transports -> 0..MaxStarts]
  /\ sock \in [Transports -> [Numbers -> SocketStates]]
  /\ started \in [Transports -> [Numbers -> Promises]]
  /\ stopping \in [Transports -> [Numbers -> Promises]]
  /\ armed \in [Transports -> [Numbers -> BOOLEAN]]
  /\ \A e \in Transports :
       handle[e] # 0 => sock[e][handle[e]] \in {"opening", "bound", "open", "failed"}

TrafficTypes ==
  /\ conn \in [Clients -> [to : 0..MaxStarts, open : BOOLEAN]]
  /\ read \in [Clients -> 0..(2 * MaxFrames)]
  /\ parsers \in [Clients -> {Empty} \cup (Clients \X (1..(2 * MaxFrames)))]
  /\ net \subseteq 1..MaxSent /\ sent \in 0..MaxSent
  /\ heard \in Seq(Heard)

TypeInv == OptionTypes /\ LifeTypes /\ TrafficTypes /\ up \in BOOLEAN

LEMMA TypesOK == TypeInv => TypeOK
<1> SUFFICES ASSUME TypeInv PROVE TypeOK
  OBVIOUS
<1>1. \A k \in DOMAIN heard : heard[k].from \in Senders /\ heard[k].n \in 1..MaxFrames
  <2> TAKE k \in DOMAIN heard
  <2>1. heard[k] \in Heard
    BY DEF TypeInv, TrafficTypes
  <2>2. QED
    BY <2>1 DEF Heard
<1>2. QED
  BY <1>1 DEF TypeInv, OptionTypes, LifeTypes, TrafficTypes, TypeOK, SocketStates

LEMMA TypeInit == Init => TypeInv
<1> SUFFICES ASSUME Init PROVE TypeInv
  OBVIOUS
<1>1. heard \in Seq(Heard)
  BY DEF Init
<1>2. QED
  BY <1>1, HostAssumption
     DEF Init, TypeInv, OptionTypes, LifeTypes, TrafficTypes, SocketStates, Promises

\* A transport's socket number.
LEMMA SocketNumber ==
  ASSUME TypeInv, NEW e \in Transports, handle[e] # 0
  PROVE  handle[e] \in Numbers
BY HostAssumption DEF TypeInv, LifeTypes, Numbers

LEMMA LifeTypesStep == TypeInv /\ Next => LifeTypes'
<1> SUFFICES ASSUME TypeInv, Step PROVE LifeTypes'
  BY DEF Next
<1> USE DEF TypeInv, LifeTypes, SocketStates, Promises
<1>1. ASSUME NEW e \in Transports, Start(e) PROVE LifeTypes'
  BY <1>1, HostAssumption DEF Start, Numbers
<1>2. ASSUME NEW e \in Transports, Stop(e) PROVE LifeTypes'
  <2>1. handle[e] \in Numbers
    BY <1>2, SocketNumber DEF Stop
  <2>2. CloseOutcomes(e, handle[e]) \subseteq SocketStates \X Promises
    BY <2>1 DEF CloseOutcomes
  <2>3. PICK o \in SocketStates \X Promises :
          /\ sock' = [sock EXCEPT ![e][handle[e]] = o[1]]
          /\ stopping' = [stopping EXCEPT ![e][handle[e]] = o[2]]
    BY <1>2, <2>2 DEF Stop
  <2>4. QED
    BY <1>2, <2>1, <2>3, HostAssumption DEF Stop
<1>3. ASSUME NEW e \in Transports, NEW i \in Numbers, Opened(e, i) PROVE LifeTypes'
  BY <1>3 DEF Opened
<1>4. ASSUME NEW e \in Transports, NEW i \in Numbers, OpenFails(e, i) PROVE LifeTypes'
  BY <1>4 DEF OpenFails
<1>5. ASSUME NEW e \in Transports, NEW i \in Numbers, Closed(e, i) PROVE LifeTypes'
  BY <1>5 DEF Closed
<1>6. ASSUME NEW e \in Transports, NEW i \in Numbers, LateError(e, i) PROVE LifeTypes'
  BY <1>6 DEF LateError
<1>7. ASSUME NEW i \in Numbers, ConnectFails(i) PROVE LifeTypes'
  BY <1>7 DEF ConnectFails, Transports
<1>8. CASE UNCHANGED life
  BY <1>8 DEF life
<1>9. QED
  BY <1>1, <1>2, <1>3, <1>4, <1>5, <1>6, <1>7, <1>8
     DEF Step, Decided, Accept, WsOpen, NewConnection, Data, ClientEnds, ClientBreaks,
         ClientLeaves, SendFrame, Lose, Message

LEMMA IngestTypes ==
  ASSUME TypeInv, NEW from \in Senders, NEW n \in 1..MaxFrames, Ingest(from, n)
  PROVE  heard' \in Seq(Heard) /\ up' \in BOOLEAN
<1>1. Received[from][n].decodes =>
        [from |-> from, n |-> n, telemetry |-> Received[from][n].telemetry] \in Heard
  BY GoodFrames DEF Heard
<1>2. heard' \in Seq(Heard)
  BY <1>1, AppendProperties DEF Ingest, TypeInv, TrafficTypes
<1>3. onDecodeError \in BOOLEAN /\ (Received[from][n].decodes) \in BOOLEAN
  BY HostAssumption DEF TypeInv, OptionTypes, Received, Decodes
<1>4. QED
  BY <1>2, <1>3 DEF Ingest

\* Reading half a frame.
LEMMA DataTypes ==
  ASSUME TypeInv, NEW c \in Clients, Data(c)
  PROVE  TrafficTypes' /\ up' \in BOOLEAN
<1> DEFINE k == read[c] + 1
<1>1. /\ k \in 1..(2 * MaxFrames) /\ read' = [read EXCEPT ![c] = k]
      /\ UNCHANGED <<conn, net, sent>>
      /\ Push(c, k)
  BY HostAssumption DEF Data, TypeInv, TrafficTypes
<1>2. parsers' = [parsers EXCEPT ![c] = IF k % 2 = 1 THEN <<c, k>> ELSE Empty]
  BY <1>1 DEF Push, ParserOf
<1>3. heard' \in Seq(Heard) /\ up' \in BOOLEAN
  <2>1. CASE k % 2 = 0 /\ parsers[c] = <<c, k - 1>>
    <3>1. Ingest(c, k \div 2)
      BY <1>1, <2>1 DEF Push, ParserOf
    <3>2. c \in Senders /\ k \div 2 \in 1..MaxFrames
      BY <1>1, <2>1, HostAssumption DEF Senders
    <3>3. QED
      BY <3>1, <3>2, IngestTypes
  <2>2. CASE ~(k % 2 = 0 /\ parsers[c] = <<c, k - 1>>)
    BY <1>1, <2>2 DEF Push, ParserOf, TypeInv, TrafficTypes
  <2>3. QED
    BY <2>1, <2>2
<1> HIDE DEF k
<1>4. QED
  BY <1>1, <1>2, <1>3 DEF TypeInv, TrafficTypes

LEMMA TrafficTypesStep ==
  ASSUME TypeInv, Step
  PROVE  TrafficTypes' /\ up' \in BOOLEAN
<1> DEFINE Goal == TrafficTypes' /\ up' \in BOOLEAN
<1>1. ASSUME UNCHANGED traffic, up' \in BOOLEAN PROVE Goal
  BY <1>1 DEF TypeInv, TrafficTypes, traffic
<1>2. ASSUME NEW e \in Transports, Start(e) \/ Stop(e) PROVE Goal
  BY <1>1, <1>2 DEF Start, Stop, TypeInv
<1>3. ASSUME NEW e \in Transports, NEW i \in Numbers, Decided(e, i) \/ LateError(e, i) PROVE Goal
  BY <1>1, <1>3
     DEF Decided, Opened, OpenFails, ConnectFails, Closed, LateError, TypeInv, LifeTypes
<1>4. ASSUME NEW c \in Clients, NEW i \in Numbers, NewConnection(c, i) PROVE Goal
  BY <1>4, HostAssumption DEF NewConnection, TypeInv, TrafficTypes, Numbers
<1>5. ASSUME NEW c \in Clients, Data(c) PROVE Goal
  BY <1>5, DataTypes
<1>6. ASSUME NEW c \in Clients, ClientEnds(c) \/ ClientBreaks(c) PROVE Goal
  <2>1. /\ conn' = [conn EXCEPT ![c].open = FALSE]
        /\ parsers' = parsers \/ parsers' = [parsers EXCEPT ![c] = Empty]
        /\ UNCHANGED <<read, net, sent, heard>>
    BY <1>6 DEF ClientEnds, ClientBreaks, ClientLeaves
  <2>2. up' \in BOOLEAN
    <3>1. CASE ClientEnds(c)
      BY <3>1 DEF ClientEnds, TypeInv
    <3>2. CASE ClientBreaks(c)
      BY <3>2 DEF ClientBreaks
    <3>3. QED
      BY <1>6, <3>1, <3>2
  <2>3. parsers' \in [Clients -> {Empty} \cup (Clients \X (1..(2 * MaxFrames)))]
    <3>1. CASE parsers' = parsers
      BY <3>1 DEF TypeInv, TrafficTypes
    <3>2. CASE parsers' = [parsers EXCEPT ![c] = Empty]
      BY <3>2 DEF TypeInv, TrafficTypes
    <3>3. QED
      BY <2>1, <3>1, <3>2
  <2>4. conn' \in [Clients -> [to : 0..MaxStarts, open : BOOLEAN]]
    BY <2>1 DEF TypeInv, TrafficTypes
  <2>5. QED
    BY <2>1, <2>2, <2>3, <2>4 DEF TypeInv, TrafficTypes
<1>7. ASSUME SendFrame PROVE Goal
  BY <1>7, HostAssumption DEF SendFrame, TypeInv, TrafficTypes
<1>8. ASSUME NEW n \in 1..MaxSent, Lose(n) PROVE Goal
  BY <1>8 DEF Lose, TypeInv, TrafficTypes
<1>9. ASSUME NEW n \in 1..MaxSent, Message(n) PROVE Goal
  <2>1. "udp" \in Senders /\ n \in 1..MaxFrames
    BY HostAssumption DEF Senders
  <2>2. heard' \in Seq(Heard) /\ up' \in BOOLEAN
    BY <1>9, <2>1, IngestTypes DEF Message
  <2>3. QED
    BY <1>9, <2>2 DEF Message, TypeInv, TrafficTypes
<1>10. 1 \in Numbers
  BY HostAssumption DEF Numbers
<1> HIDE DEF Goal
<1>11. ASSUME NEW c \in Clients, Accept(c) \/ WsOpen(c) PROVE Goal
  BY <1>4, <1>10, <1>11 DEF Accept, WsOpen
<1>12. Goal
  <2>1. CASE \E e \in Transports : Start(e) \/ Stop(e)
    BY <1>2, <2>1
  <2>2. CASE \E e \in Transports, i \in Numbers : Decided(e, i) \/ LateError(e, i)
    BY <1>3, <2>2
  <2>3. CASE \E c \in Clients : Accept(c) \/ WsOpen(c) \/ Data(c) \/ ClientEnds(c) \/ ClientBreaks(c)
    BY <1>5, <1>6, <1>11, <2>3
  <2>4. CASE \E n \in 1..MaxSent : Lose(n) \/ Message(n)
    BY <1>8, <1>9, <2>4
  <2>5. QED
    BY <1>7, <2>1, <2>2, <2>3, <2>4 DEF Step
<1>13. QED
  BY <1>12 DEF Goal

LEMMA TypesKept == Spec => []TypeInv
<1>1. TypeInv /\ [Next]_vars => TypeInv'
  <2>1. ASSUME TypeInv, Next PROVE TypeInv'
    <3>1. LifeTypes' /\ TrafficTypes' /\ up' \in BOOLEAN
      BY <2>1, LifeTypesStep, TrafficTypesStep DEF Next
    <3>2. OptionTypes'
      BY <2>1 DEF Next, options, TypeInv, OptionTypes
    <3>3. QED
      BY <3>1, <3>2 DEF TypeInv
  <2>2. ASSUME TypeInv, UNCHANGED vars PROVE TypeInv'
    BY <2>2 DEF vars, options, life, traffic, TypeInv, OptionTypes, LifeTypes, TrafficTypes
  <2>3. QED
    BY <2>1, <2>2
<1>2. QED
  BY TypeInit, <1>1, PTL DEF Spec

\* TypeOK for every number of starts, frames and clients; above all, a transport keeps no
\* socket that it has closed.
THEOREM TypeInvariant == Spec => []TypeOK
BY TypesKept, TypesOK, PTL

\* TelemetryTrue for every reading of the sensors, every struct and whichever side builds the
\* frames: what the hub hears is what the boat measured, rounded and kept within the field
\* (telemetry-scale.ts, dps.ts, encodeTelemetrySummary, decodeTelemetrySummary), or what its
\* struct held (bc_build_telemetry_frame).
THEOREM TelemetryArrives == Spec => []TelemetryTrue
<1>1. ASSUME TypeInv PROVE TelemetryTrue
  <2> SUFFICES ASSUME NEW k \in DOMAIN heard
               PROVE  True(heard[k].from, heard[k].n, heard[k].telemetry)
    BY Zenon DEF TelemetryTrue, True
  <2>1. heard[k] \in Heard
    BY <1>1 DEF TypeInv, TrafficTypes
  <2>2. PICK f \in Senders, n \in (1..MaxFrames) \ BadFrames :
          heard[k] = [from |-> f, n |-> n, telemetry |-> Received[f][n].telemetry]
    BY <2>1 DEF Heard
  <2>3. Received[f][n].decodes
    BY FramesDecode
  <2>4. True(f, n, Received[f][n].telemetry)
    BY <2>3, GoodFrames
  <2>5. /\ heard[k].from = f /\ heard[k].n = n
        /\ heard[k].telemetry = Received[f][n].telemetry
    BY <2>2
  <2>6. QED
    BY <2>4, <2>5, Zenon
<1>2. QED
  BY <1>1, TypesKept, PTL

-----------------------------------------------------------------------------
(***************************************************************************)
(* A user that awaits its calls leaves nothing behind.                     *)
(***************************************************************************)

\* A socket that start() has not made yet does not exist; while it is opening its start() is
\* pending, and when start() rejected it is not bound; only a sender's is bound and not open.
SocketInv ==
  /\ \A e \in Transports, i \in Numbers :
       /\ i > starts[e] => sock[e][i] = "none"
       /\ sock[e][i] = "opening" => started[e][i] = "pending"
       /\ started[e][i] = "rejected" => sock[e][i] \notin {"opening", "bound", "open"}
       /\ sock[e][i] = "bound" => e = "sender"
  /\ \A e \in Transports : handle[e] <= starts[e]

ConnInv ==
  kind # "ws" =>
    \A i \in Numbers, c \in Clients : Connected(c, i) => sock["server"][i] \in {"open", "closing"}

\* A socket that holds a port, or soon may, or is giving it back.
Bound(e, i) == sock[e][i] \in {"opening", "bound", "open", "closing"}

\* Somebody answers for a bound socket.
Owned(e, i) == Bound(e, i) => handle[e] = i \/ stopping[e][i] = "pending"

OwnedInv == user = "awaits" => \A e \in Transports, i \in Numbers : Owned(e, i)

\* The server of a connection is open, or closing and waiting for it: ConnInv.
LifeInv == SocketInv /\ ConnInv /\ OwnedInv

LEMMA LifeInit == Init => LifeInv
<1> SUFFICES ASSUME Init PROVE LifeInv
  OBVIOUS
<1>1. \A c \in Clients : ~conn[c].open
  BY DEF Init
<1>2. SocketInv
  BY HostAssumption DEF Init, SocketInv, Numbers
<1>3. QED
  BY <1>1, <1>2, HostAssumption DEF Init, LifeInv, ConnInv, OwnedInv, Owned, Bound, Connected

\* A step that makes v of a socket and w of the promise of its start(), and perhaps forgets
\* sockets.
Becomes(e, i, v, w) ==
  /\ sock' = [sock EXCEPT ![e][i] = v] /\ started' = [started EXCEPT ![e][i] = w]
  /\ starts' = starts /\ \A d \in Transports : handle'[d] \in {handle[d], 0}
  /\ ~(i > starts[e]) /\ (v = "opening" => w = "pending")
  /\ w = "rejected" => v \notin {"opening", "bound", "open"}
  /\ v = "bound" => e = "sender"

LEMMA SocketStep ==
  ASSUME TypeInv, SocketInv, Step
  PROVE  SocketInv'
<1> USE DEF SocketInv
<1>1. \A e \in Transports, j \in Numbers : starts[e] \in Nat /\ handle[e] \in Nat /\ j \in Nat \ {0}
  BY HostAssumption DEF TypeInv, LifeTypes, Numbers
<1>2. ASSUME NEW e \in Transports, Start(e) PROVE SocketInv'
  <2> DEFINE i == starts[e] + 1
  <2>1. i \in Numbers
    BY <1>2 DEF Start
  <2>2. /\ starts' = [starts EXCEPT ![e] = i] /\ handle' = [handle EXCEPT ![e] = i]
        /\ sock' = [sock EXCEPT ![e][i] = "opening"]
        /\ started' = [started EXCEPT ![e][i] = "pending"]
    BY <1>2 DEF Start
  <2>3. QED
    BY <1>1, <2>1, <2>2 DEF TypeInv, LifeTypes
<1>3. ASSUME NEW e \in Transports, NEW i \in Numbers, NEW v, NEW w, Becomes(e, i, v, w)
      PROVE  SocketInv'
  <2>1. ASSUME NEW d \in Transports, NEW j \in Numbers
        PROVE  /\ (sock'[d][j] = sock[d][j] /\ started'[d][j] = started[d][j])
                    \/ (d = e /\ j = i /\ sock'[d][j] = v /\ started'[d][j] = w)
    BY <1>3 DEF Becomes, TypeInv, LifeTypes
  <2>2. QED
    BY <1>1, <1>3, <2>1 DEF Becomes
<1>4. \A e \in Transports, i \in Numbers : sock[e][i] # "none" => ~(i > starts[e])
  OBVIOUS
<1>5. ASSUME NEW e \in Transports, Stop(e) PROVE SocketInv'
  <2> DEFINE i == handle[e]
  <2>1. i \in Numbers
    BY <1>5, SocketNumber DEF Stop
  <2>2. PICK o \in CloseOutcomes(e, i) : sock' = [sock EXCEPT ![e][i] = o[1]]
    BY <1>5 DEF Stop
  <2>3. /\ handle' = [handle EXCEPT ![e] = 0] /\ starts' = starts /\ started' = started
    BY <1>5 DEF Stop
  <2>4. o[1] \in {"closing", "closed"} \/ o[1] = sock[e][i]
    BY <2>2 DEF CloseOutcomes
  <2>5. ~(i > starts[e])
    BY <1>1, <2>1
  <2> HIDE DEF i
  <2>6. started' = [started EXCEPT ![e][i] = started[e][i]]
    BY <2>1, <2>3 DEF TypeInv, LifeTypes
  <2>7. \A d \in Transports : handle'[d] \in {handle[d], 0}
    BY <2>3 DEF TypeInv, LifeTypes
  <2>8. /\ o[1] = "opening" => started[e][i] = "pending"
        /\ started[e][i] = "rejected" => o[1] \notin {"opening", "bound", "open"}
        /\ o[1] = "bound" => e = "sender"
    <3>1. CASE o[1] \in {"closing", "closed"}
      BY <3>1
    <3>2. CASE o[1] = sock[e][i]
      <4>1. /\ sock[e][i] = "opening" => started[e][i] = "pending"
            /\ started[e][i] = "rejected" => sock[e][i] \notin {"opening", "bound", "open"}
            /\ sock[e][i] = "bound" => e = "sender"
        BY <2>1
      <4>2. QED
        BY <3>2, <4>1
    <3>3. QED
      BY <2>4, <3>1, <3>2
  <2>9. Becomes(e, i, o[1], started[e][i])
    BY <2>2, <2>3, <2>5, <2>6, <2>7, <2>8 DEF Becomes
  <2>10. QED
    BY <1>3, <2>1, <2>9
<1>6. ASSUME NEW e \in Transports, NEW i \in Numbers, Decided(e, i) PROVE SocketInv'
  <2>1. handle' = handle /\ starts' = starts /\ ~(i > starts[e])
    <3>1. handle' = handle /\ starts' = starts /\ sock[e][i] \in {"opening", "closing"}
      BY <1>6 DEF Decided, Opened, OpenFails, ConnectFails, Closed
    <3>2. QED
      BY <1>4, <3>1
  <2>2. CASE Opened(e, i)
    <3>1. Becomes(e, i, "open", "resolved")
      BY <2>1, <2>2 DEF Becomes, Opened
    <3>2. QED
      BY <1>3, <3>1
  <2>3. CASE OpenFails(e, i)
    <3>1. Becomes(e, i, "failed", "rejected")
      BY <2>1, <2>3 DEF Becomes, OpenFails
    <3>2. QED
      BY <1>3, <3>1
  <2>4. CASE e = "sender" /\ ConnectFails(i)
    <3>1. Becomes(e, i, "bound", "resolved")
      BY <2>1, <2>4 DEF Becomes, ConnectFails
    <3>2. QED
      BY <1>3, <3>1
  <2>5. CASE Closed(e, i)
    <3>1. started' = [started EXCEPT ![e][i] = started[e][i]]
      BY <2>5 DEF Closed, TypeInv, LifeTypes
    <3>2. Becomes(e, i, "closed", started[e][i])
      BY <2>1, <2>5, <3>1 DEF Becomes, Closed
    <3>3. QED
      BY <1>3, <3>2
  <2>6. QED
    BY <1>6, <2>2, <2>3, <2>4, <2>5 DEF Decided
<1>7. CASE UNCHANGED <<handle, starts, sock, started>>
  BY <1>7
<1>8. QED
  BY <1>2, <1>5, <1>6, <1>7
     DEF Step, LateError, Accept, WsOpen, NewConnection, Data, ClientEnds, ClientBreaks,
         ClientLeaves, SendFrame, Lose, Message, life

\* What stop() makes of the socket: an open server closes, a sender or listener closes, and a
\* server that did not come to listen is left as it is, or closed.
LEMMA StopOutcome ==
  ASSUME TypeInv, NEW e \in Transports, Stop(e)
  PROVE  /\ handle[e] \in Numbers
         /\ handle' = [handle EXCEPT ![e] = 0]
         /\ UNCHANGED <<starts, started, armed, traffic, up>>
         /\ \E o \in CloseOutcomes(e, handle[e]) :
              /\ sock' = [sock EXCEPT ![e][handle[e]] = o[1]]
              /\ stopping' = [stopping EXCEPT ![e][handle[e]] = o[2]]
BY SocketNumber DEF Stop

LEMMA ConnStep ==
  ASSUME TypeInv, SocketInv, ConnInv, Step, UNCHANGED options
  PROVE  ConnInv'
<1> SUFFICES ASSUME kind # "ws", NEW j \in Numbers, NEW d \in Clients, Connected(d, j)'
             PROVE  sock'["server"][j] \in {"open", "closing"}
  BY DEF ConnInv, options
<1> DEFINE Held(s) == s["server"][j] \in {"open", "closing"}
<1>1. Connected(d, j) => Held(sock)
  BY DEF ConnInv
<1>2. "server" \in Transports
  BY DEF Transports
<1>3. CASE UNCHANGED <<sock, conn>>
  BY <1>1, <1>3 DEF Connected
<1>4. ASSUME NEW e \in Transports, Start(e) PROVE Held(sock')
  <2>1. conn' = conn /\ sock' = [sock EXCEPT ![e][starts[e] + 1] = "opening"]
    BY <1>4 DEF Start, traffic
  <2>2. Held(sock)
    BY <1>1, <2>1 DEF Connected
  <2>3. ~(j > starts["server"])
    BY <1>2, <2>2 DEF SocketInv
  <2>4. ~(e = "server" /\ starts[e] + 1 = j)
    BY <2>3, HostAssumption DEF TypeInv, LifeTypes
  <2>5. starts[e] + 1 \in Numbers
    BY <1>4 DEF Start
  <2>6. QED
    BY <1>2, <2>1, <2>2, <2>4, <2>5 DEF TypeInv, LifeTypes
<1>5. ASSUME NEW e \in Transports, Stop(e) PROVE Held(sock')
  <2>1. handle[e] \in Numbers /\ conn' = conn
    BY <1>5, StopOutcome DEF traffic
  <2>2. PICK o \in CloseOutcomes(e, handle[e]) : sock' = [sock EXCEPT ![e][handle[e]] = o[1]]
    BY <1>5, StopOutcome
  <2>3. Held(sock)
    BY <1>1, <2>1 DEF Connected
  <2>4. CASE e = "server" /\ handle[e] = j
    <3>1. sock[e][j] = "open"
      <4>1. handle[e] # 0 /\ handle[e] = j
        BY <2>1, <2>4, HostAssumption DEF Numbers
      <4>2. sock[e][j] \in {"opening", "bound", "open", "failed"}
        BY <4>1, Zenon DEF TypeInv, LifeTypes
      <4>3. QED
        BY <2>3, <2>4, <4>2
    <3>2. o[1] = "closing"
      BY <2>2, <2>4, <3>1 DEF CloseOutcomes
    <3>3. QED
      BY <1>2, <2>1, <2>2, <2>4, <3>2 DEF TypeInv, LifeTypes
  <2>5. CASE ~(e = "server" /\ handle[e] = j)
    BY <1>2, <2>1, <2>2, <2>3, <2>5 DEF TypeInv, LifeTypes
  <2>6. QED
    BY <2>4, <2>5
<1>6. ASSUME NEW e \in Transports, NEW i \in Numbers, Decided(e, i) PROVE Held(sock')
  <2>1. conn' = conn
    BY <1>6 DEF Decided, Opened, OpenFails, ConnectFails, Closed, traffic
  <2>2. Held(sock) /\ Connected(d, j)
    BY <1>1, <2>1 DEF Connected
  <2>3. CASE Opened(e, i)
    BY <1>2, <2>2, <2>3 DEF Opened, TypeInv, LifeTypes
  <2>4. CASE OpenFails(e, i)
    BY <1>2, <2>2, <2>4 DEF OpenFails, TypeInv, LifeTypes
  <2>5. CASE Closed(e, i)
    <3>1. ~(e = "server" /\ i = j)
      BY <2>2, <2>5 DEF Closed
    <3>2. QED
      BY <1>2, <2>2, <2>5, <3>1 DEF Closed, TypeInv, LifeTypes
  <2>6. CASE e = "sender" /\ ConnectFails(i)
    BY <1>2, <2>2, <2>6 DEF ConnectFails, TypeInv, LifeTypes
  <2>7. QED
    BY <1>6, <2>3, <2>4, <2>5, <2>6 DEF Decided
<1>7. ASSUME NEW c \in Clients, Accept(c) PROVE Held(sock')
  <2>1. PICK i \in Numbers : sock["server"][i] = "open" /\ NewConnection(c, i)
    BY <1>7 DEF Accept
  <2>2. sock' = sock /\ conn' = [conn EXCEPT ![c] = [to |-> i, open |-> TRUE]]
    BY <2>1 DEF NewConnection, life
  <2>3. CASE d = c
    <3>1. j = i
      BY <2>2, <2>3 DEF Connected, TypeInv, TrafficTypes
    <3>2. QED
      BY <2>1, <2>2, <3>1
  <2>4. CASE d # c
    <3>1. Connected(d, j)
      BY <2>2, <2>4 DEF Connected, TypeInv, TrafficTypes
    <3>2. QED
      BY <1>1, <2>2, <3>1
  <2>5. QED
    BY <2>3, <2>4
<1>8. ASSUME NEW c \in Clients, ClientLeaves(c) PROVE Held(sock')
  <2>1. sock' = sock /\ conn' = [conn EXCEPT ![c].open = FALSE]
    BY <1>8 DEF ClientLeaves, life
  <2>2. Connected(d, j)
    BY <2>1 DEF Connected, TypeInv, TrafficTypes
  <2>3. QED
    BY <1>1, <2>1, <2>2
<1>9. QED
  BY <1>3, <1>4, <1>5, <1>6, <1>7, <1>8
     DEF Step, LateError, WsOpen, Data, ClientEnds, ClientBreaks, SendFrame, Lose, Message,
         life, traffic

LEMMA OwnedStep ==
  ASSUME TypeInv, SocketInv, user = "awaits",
         \A e \in Transports, i \in Numbers : Owned(e, i), Step,
         NEW d \in Transports, NEW j \in Numbers
  PROVE  Owned(d, j)'
<1> USE DEF Owned, Bound
<1>1. Owned(d, j) /\ j # 0
  BY HostAssumption DEF Numbers
<1>2. CASE UNCHANGED <<handle, sock, stopping>>
  BY <1>1, <1>2
<1>3. ASSUME NEW e \in Transports, Start(e) PROVE Owned(d, j)'
  <2> DEFINE i == starts[e] + 1
  <2>1. /\ i \in Numbers /\ stopping' = stopping
        /\ handle' = [handle EXCEPT ![e] = i] /\ sock' = [sock EXCEPT ![e][i] = "opening"]
        /\ handle[e] \in {0} \cup {k \in Numbers : started[e][k] = "rejected"}
    BY <1>3 DEF Start
  <2> HIDE DEF i
  <2>2. CASE d = e /\ j = i
    BY <2>1, <2>2 DEF TypeInv, LifeTypes
  <2>3. CASE d = e /\ j # i
    <3>1. sock'[d][j] = sock[d][j]
      BY <2>1, <2>3 DEF TypeInv, LifeTypes
    <3>2. ASSUME handle[e] = j PROVE ~Bound(d, j)
      <4>1. started[d][j] = "rejected"
        BY <1>1, <2>1, <2>3, <3>2
      <4>2. sock[d][j] \in {"opening", "bound", "open", "failed"}
        BY <1>1, <2>3, <3>2 DEF TypeInv, LifeTypes
      <4>3. QED
        BY <4>1, <4>2 DEF SocketInv
    <3>3. QED
      BY <1>1, <2>1, <2>3, <3>1, <3>2
  <2>4. CASE d # e
    BY <1>1, <2>1, <2>4 DEF TypeInv, LifeTypes
  <2>5. QED
    BY <2>2, <2>3, <2>4
<1>4. ASSUME NEW e \in Transports, Stop(e) PROVE Owned(d, j)'
  <2> DEFINE i == handle[e]
  <2>1. /\ i \in Numbers /\ handle' = [handle EXCEPT ![e] = 0]
        /\ sock[e][i] \in {"bound", "open", "failed"}
    <3>1. i \in Numbers /\ handle' = [handle EXCEPT ![e] = 0]
      BY <1>4, StopOutcome
    <3>2. sock[e][i] # "opening"
      BY <1>4, <3>1 DEF Stop, Settled, SocketInv
    <3>3. i # 0
      BY <3>1, HostAssumption DEF Numbers
    <3>4. QED
      BY <3>1, <3>2, <3>3 DEF TypeInv, LifeTypes
  <2>2. PICK o \in CloseOutcomes(e, i) :
          /\ sock' = [sock EXCEPT ![e][i] = o[1]] /\ stopping' = [stopping EXCEPT ![e][i] = o[2]]
    BY <1>4, StopOutcome
  <2> HIDE DEF i
  <2>3. CASE d = e /\ j = i
    <3>1. sock'[d][j] = o[1] /\ stopping'[d][j] = o[2]
      BY <2>1, <2>2, <2>3 DEF TypeInv, LifeTypes
    <3>2. o[2] = "pending" \/ o[1] \notin {"opening", "bound", "open", "closing"}
      BY <2>1, <2>2 DEF CloseOutcomes, SocketInv
    <3>3. QED
      BY <3>1, <3>2
  <2>4. CASE d = e /\ j # i
    <3>1. sock'[d][j] = sock[d][j] /\ stopping'[d][j] = stopping[d][j]
      BY <2>1, <2>2, <2>4 DEF TypeInv, LifeTypes
    <3>2. QED
      BY <1>1, <2>4, <3>1 DEF i
  <2>5. CASE d # e
    BY <1>1, <2>1, <2>2, <2>5 DEF TypeInv, LifeTypes
  <2>6. QED
    BY <2>3, <2>4, <2>5
<1>5. ASSUME NEW e \in Transports, NEW i \in Numbers, Decided(e, i) PROVE Owned(d, j)'
  <2>1. CASE Closed(e, i)
    <3>1. handle' = handle /\ sock' = [sock EXCEPT ![e][i] = "closed"]
          /\ stopping' = [stopping EXCEPT ![e][i] = "resolved"]
      BY <2>1 DEF Closed
    <3>2. CASE d = e /\ j = i
      BY <3>1, <3>2 DEF TypeInv, LifeTypes
    <3>3. CASE ~(d = e /\ j = i)
      BY <1>1, <3>1, <3>3 DEF TypeInv, LifeTypes
    <3>4. QED
      BY <3>2, <3>3
  <2>2. CASE ~Closed(e, i)
    <3>1. /\ sock[e][i] = "opening" /\ UNCHANGED <<handle, stopping>>
          /\ \E v : sock' = [sock EXCEPT ![e][i] = v]
      BY <1>5, <2>2 DEF Decided, Opened, OpenFails, ConnectFails
    <3>2. Bound(d, j)' => Bound(d, j)
      BY <3>1 DEF TypeInv, LifeTypes
    <3>3. QED
      BY <1>1, <3>1, <3>2
  <2>3. QED
    BY <2>1, <2>2
<1>6. QED
  BY <1>2, <1>3, <1>4, <1>5
     DEF Step, LateError, Accept, WsOpen, NewConnection, Data, ClientEnds, ClientBreaks,
         ClientLeaves, SendFrame, Lose, Message, life

LEMMA LifeKept == Spec => []LifeInv
<1>1. TypeInv /\ LifeInv /\ [Next]_vars => LifeInv'
  <2>1. ASSUME TypeInv, LifeInv, Next PROVE LifeInv'
    <3>1. Step /\ UNCHANGED options
      BY <2>1 DEF Next
    <3>2. SocketInv' /\ ConnInv'
      BY <2>1, <3>1, SocketStep, ConnStep DEF LifeInv
    <3>3. OwnedInv'
      <4>1. SUFFICES ASSUME user = "awaits", NEW d \in Transports, NEW j \in Numbers
                     PROVE  Owned(d, j)'
        BY <3>1 DEF OwnedInv, options
      <4>2. \A e \in Transports, i \in Numbers : Owned(e, i)
        BY <2>1, <4>1 DEF LifeInv, OwnedInv
      <4>3. QED
        BY <2>1, <3>1, <4>1, <4>2, OwnedStep DEF LifeInv
    <3>4. QED
      BY <3>2, <3>3 DEF LifeInv
  <2>2. ASSUME LifeInv, UNCHANGED vars PROVE LifeInv'
    BY <2>2 DEF vars, options, life, traffic, LifeInv, SocketInv, ConnInv, OwnedInv, Owned,
                Bound, Connected
  <2>3. QED
    BY <2>1, <2>2
<1>2. QED
  BY LifeInit, TypesKept, <1>1, PTL DEF Spec

\* A server in use is not the WebSocket server, so the server of an open connection is bound.
LEMMA LifeOwned == TypeInv /\ LifeInv => NothingLeftBehind
<1> SUFFICES ASSUME TypeInv, LifeInv, user = "awaits", NEW e \in InUse, NEW i \in Numbers
             PROVE  (\/ sock[e][i] \in {"opening", "bound", "open", "closing"}
                     \/ e = "server" /\ \E c \in Clients : Connected(c, i))
                    => handle[e] = i \/ stopping[e][i] = "pending"
  BY DEF NothingLeftBehind
<1>1. e \in Transports /\ (e = "server" => kind # "ws")
  BY DEF InUse, Transports
<1>2. Owned(e, i)
  BY <1>1 DEF LifeInv, OwnedInv
<1>3. ASSUME e = "server", NEW c \in Clients, Connected(c, i) PROVE Bound(e, i)
  BY <1>1, <1>3 DEF LifeInv, ConnInv, Bound
<1>4. QED
  BY <1>2, <1>3 DEF Owned, Bound

\* NothingLeftBehind for every number of starts and clients: who awaits start() and stop()
\* leaves no bound socket and no server with a connection that the transport has forgotten,
\* unless stop() is still at work on it.
THEOREM NothingStays == Spec => []NothingLeftBehind
BY TypesKept, LifeKept, LifeOwned, PTL

-----------------------------------------------------------------------------
(***************************************************************************)
(* Connections do not disturb each other.                                  *)
(***************************************************************************)

\* The parser of a connected client holds the first half of the frame that the client is in,
\* and of a client that has not connected nothing was read.
HalfInv ==
  \A c \in Clients :
    /\ conn[c].open => parsers[c] = IF read[c] % 2 = 1 THEN <<c, read[c]>> ELSE Empty
    /\ conn[c].to = 0 => read[c] = 0 /\ ~conn[c].open

\* What StreamsStayApart says of client c.
Apart(c) ==
  /\ {heard[k].n : k \in HeardOf(c)} = WholeFrames(c)
  /\ \A j, k \in HeardOf(c) : j < k => heard[j].n < heard[k].n

StreamInv == HalfInv /\ StreamsStayApart

LEMMA StreamInit == Init => StreamInv
<1> SUFFICES ASSUME Init PROVE StreamInv
  OBVIOUS
<1>1. HalfInv
  BY DEF Init, HalfInv
<1>2. ASSUME NEW c \in Clients PROVE HeardOf(c) = {} /\ WholeFrames(c) = {}
  BY DEF Init, HeardOf, WholeFrames
<1>3. QED
  BY <1>1, <1>2 DEF StreamInv, StreamsStayApart

LEMMA Halves ==
  ASSUME NEW r \in Nat
  PROVE  /\ (r + 1) % 2 = 1 => r % 2 = 0 /\ (r + 1) \div 2 = r \div 2
         /\ (r + 1) % 2 # 1 => r % 2 = 1 /\ (r + 1) % 2 = 0 /\ (r + 1) \div 2 = r \div 2 + 1
         /\ r \div 2 \in Nat
OBVIOUS

LEMMA HalfStep ==
  ASSUME TypeInv, HalfInv, Step
  PROVE  HalfInv'
<1>1. CASE UNCHANGED <<read, parsers, conn>>
  BY <1>1 DEF HalfInv
<1>2. ASSUME NEW c \in Clients, NEW i \in Numbers, NewConnection(c, i) PROVE HalfInv'
  <2>1. /\ conn[c].to = 0 /\ i # 0 /\ read' = read
        /\ conn' = [conn EXCEPT ![c] = [to |-> i, open |-> TRUE]]
        /\ parsers' = [parsers EXCEPT ![c] = Empty]
    BY <1>2, HostAssumption DEF NewConnection, Numbers
  <2>2. read[c] = 0
    BY <2>1 DEF HalfInv
  <2>3. QED
    <3> SUFFICES ASSUME NEW d \in Clients
                 PROVE  /\ conn'[d].open =>
                             parsers'[d] = IF read[d] % 2 = 1 THEN <<d, read[d]>> ELSE Empty
                        /\ conn'[d].to = 0 => read[d] = 0 /\ ~conn'[d].open
      BY <2>1 DEF HalfInv
    <3>1. CASE d = c
      <4>1. parsers'[d] = Empty /\ conn'[d].to = i
        BY <2>1, <3>1 DEF TypeInv, TrafficTypes
      <4>2. read[d] % 2 # 1
        BY <2>2, <3>1
      <4>3. QED
        BY <2>1, <4>1, <4>2
    <3>2. CASE d # c
      BY <2>1, <3>2 DEF HalfInv, TypeInv, TrafficTypes
    <3>3. QED
      BY <3>1, <3>2
<1>3. ASSUME NEW c \in Clients, Data(c) PROVE HalfInv'
  <2> DEFINE k == read[c] + 1
  <2>1. /\ read' = [read EXCEPT ![c] = k] /\ conn' = conn /\ conn[c].open
        /\ parsers' = [parsers EXCEPT ![c] = IF k % 2 = 1 THEN <<c, k>> ELSE Empty]
    BY <1>3 DEF Data, Push, ParserOf
  <2> HIDE DEF k
  <2>2. conn[c].to # 0
    BY <2>1 DEF HalfInv
  <2>3. QED
    BY <2>1, <2>2 DEF HalfInv, TypeInv, TrafficTypes
<1>4. ASSUME NEW c \in Clients, ClientLeaves(c) PROVE HalfInv'
  <2>1. /\ conn' = [conn EXCEPT ![c].open = FALSE] /\ read' = read
        /\ parsers' = parsers \/ parsers' = [parsers EXCEPT ![c] = Empty]
    BY <1>4 DEF ClientLeaves
  <2>2. ASSUME NEW d \in Clients
        PROVE  /\ ~conn'[c].open /\ conn'[d].to = conn[d].to
               /\ d # c => conn'[d] = conn[d] /\ parsers'[d] = parsers[d]
    <3>1. conn'[d].to = conn[d].to /\ ~conn'[c].open /\ (d # c => conn'[d] = conn[d])
      BY <2>1 DEF TypeInv, TrafficTypes
    <3>2. d # c => parsers'[d] = parsers[d]
      BY <2>1 DEF TypeInv, TrafficTypes
    <3>3. QED
      BY <3>1, <3>2
  <2>3. QED
    BY <2>1, <2>2 DEF HalfInv
<1>5. 1 \in Numbers
  BY HostAssumption DEF Numbers
<1>6. ASSUME NEW c \in Clients, Accept(c) \/ WsOpen(c) PROVE HalfInv'
  BY <1>2, <1>5, <1>6 DEF Accept, WsOpen
<1>7. QED
  BY <1>1, <1>3, <1>4, <1>6
     DEF Step, Start, Stop, Decided, Opened, OpenFails, ConnectFails, Closed, LateError,
         ClientEnds, ClientBreaks, SendFrame, Lose, Message, traffic

\* One more frame is heard, or none.
LEMMA HeardMore ==
  ASSUME TypeInv, NEW from \in Senders, NEW n \in 1..MaxFrames, Ingest(from, n)
  PROVE  \/ n \in BadFrames /\ heard' = heard
         \/ /\ n \notin BadFrames
            /\ DOMAIN heard' = 1..(Len(heard) + 1) /\ DOMAIN heard = 1..Len(heard)
            /\ Len(heard) \in Nat
            /\ \A k \in DOMAIN heard : heard'[k] = heard[k]
            /\ heard'[Len(heard) + 1].from = from /\ heard'[Len(heard) + 1].n = n
<1>1. Received[from][n].decodes <=> n \notin BadFrames
  BY FramesDecode
<1>2. CASE n \in BadFrames
  BY <1>1, <1>2 DEF Ingest
<1>3. CASE n \notin BadFrames
  <2> DEFINE h == [from |-> from, n |-> n, telemetry |-> Received[from][n].telemetry]
  <2>1. heard' = Append(heard, h) /\ h \in Heard /\ heard \in Seq(Heard)
    BY <1>1, <1>3 DEF Ingest, Heard, TypeInv, TrafficTypes
  <2>2. h.from = from /\ h.n = n
    OBVIOUS
  <2> HIDE DEF h
  <2>3. QED
    BY <1>3, <2>1, <2>2, AppendProperties
<1>4. QED
  BY <1>2, <1>3

\* Client c is unaffected by what others send.
LEMMA OthersApart ==
  ASSUME TypeInv, NEW from \in Senders, NEW n \in 1..MaxFrames, Ingest(from, n),
         NEW c \in Clients, c # from, Apart(c), read'[c] = read[c]
  PROVE  Apart(c)'
<1>1. WholeFrames(c)' = WholeFrames(c)
  BY DEF WholeFrames
<1>2. CASE heard' = heard
  BY <1>1, <1>2 DEF Apart, HeardOf
<1>3. CASE heard' # heard
  <2>1. HeardOf(c)' = HeardOf(c) /\ \A k \in HeardOf(c) : heard'[k] = heard[k]
    BY <1>3, HeardMore DEF HeardOf
  <2>2. QED
    BY <1>1, <2>1 DEF Apart
<1>4. QED
  BY <1>2, <1>3

\* Client c comes to the end of frame n.
LEMMA ClientApart ==
  ASSUME TypeInv, NEW c \in Clients, Apart(c), NEW n \in 1..MaxFrames, Ingest(c, n),
         read[c] \div 2 = n - 1, read'[c] \div 2 = n
  PROVE  Apart(c)'
<1>1. c \in Senders
  BY DEF Senders
<1>2. CASE n \in BadFrames
  <2>1. heard' = heard
    BY <1>1, <1>2, HeardMore
  <2>2. WholeFrames(c)' = WholeFrames(c)
    BY <1>2 DEF WholeFrames
  <2>3. QED
    BY <2>1, <2>2 DEF Apart, HeardOf
<1>3. CASE n \notin BadFrames
  <2> DEFINE z == Len(heard) + 1
  <2>1. /\ z \in Nat \ {0} /\ DOMAIN heard' = 1..z /\ DOMAIN heard = 1..(z - 1)
        /\ \A k \in DOMAIN heard : heard'[k] = heard[k]
        /\ heard'[z].from = c /\ heard'[z].n = n
    BY <1>1, <1>3, HeardMore
  <2> HIDE DEF z
  <2>2. HeardOf(c)' = HeardOf(c) \cup {z}
    <3>1. DOMAIN heard' = DOMAIN heard \cup {z}
      BY <2>1
    <3>2. QED
      BY <2>1, <3>1 DEF HeardOf
  <2>3. \A k \in HeardOf(c) : k \in 1..(z - 1) /\ heard'[k] = heard[k]
    BY <2>1 DEF HeardOf
  <2>4. WholeFrames(c)' = WholeFrames(c) \cup {n}
    BY <1>3 DEF WholeFrames
  <2>5. {heard'[k].n : k \in HeardOf(c)'} = {heard[k].n : k \in HeardOf(c)} \cup {n}
    BY <2>1, <2>2, <2>3
  <2>6. ASSUME NEW k \in HeardOf(c) PROVE heard[k].n < n
    <3>1. heard[k].n \in WholeFrames(c)
      BY DEF Apart
    <3>2. QED
      BY <3>1 DEF WholeFrames
  <2>7. \A j, k \in HeardOf(c)' : j < k => heard'[j].n < heard'[k].n
    BY <2>1, <2>2, <2>3, <2>6 DEF Apart
  <2>8. QED
    BY <2>4, <2>5, <2>7 DEF Apart
<1>4. QED
  BY <1>2, <1>3

LEMMA ApartStep ==
  ASSUME TypeInv, HalfInv, StreamsStayApart, Step, NEW d \in Clients
  PROVE  Apart(d)'
<1>1. \A c \in Clients : Apart(c)
  BY DEF StreamsStayApart, Apart
<1>2. CASE UNCHANGED <<read, heard>>
  BY <1>1, <1>2 DEF Apart, HeardOf, WholeFrames
<1>3. ASSUME NEW c \in Clients, Data(c) PROVE Apart(d)'
  <2> DEFINE k == read[c] + 1
  <2>1. /\ read[c] \in Nat /\ k \in 1..(2 * MaxFrames) /\ read' = [read EXCEPT ![c] = k]
        /\ Push(c, k) /\ c \in Senders
    BY <1>3, HostAssumption DEF Data, TypeInv, TrafficTypes, Senders
  <2>2. read'[c] = k /\ (d # c => read'[d] = read[d])
    BY <2>1 DEF TypeInv, TrafficTypes
  <2>3. CASE k % 2 = 1
    <3>1. heard' = heard
      BY <2>1, <2>3 DEF Push
    <3>2. k \div 2 = read[c] \div 2
      BY <2>1, <2>3, Halves
    <3> HIDE DEF k
    <3>3. WholeFrames(d)' = WholeFrames(d)
      BY <2>2, <3>2 DEF WholeFrames
    <3>4. QED
      BY <1>1, <3>1, <3>3 DEF Apart, HeardOf
  <2>4. CASE k % 2 # 1
    <3> DEFINE n == k \div 2
    <3>1. /\ k % 2 = 0 /\ read[c] % 2 = 1 /\ n = read[c] \div 2 + 1 /\ read[c] \div 2 \in Nat
          /\ n \in 1..MaxFrames
      BY <2>1, <2>4, Halves, HostAssumption
    <3>2. parsers[c] = <<c, k - 1>>
      <4>1. k - 1 = read[c]
        BY <2>1
      <4> HIDE DEF k
      <4>2. conn[c].open
        BY <1>3 DEF Data
      <4>3. QED
        BY <3>1, <4>1, <4>2 DEF HalfInv
    <3>3. Ingest(c, n)
      BY <2>1, <3>1, <3>2 DEF Push, ParserOf
    <3>4. CASE d = c
      <4>1. read[c] \div 2 = n - 1 /\ read'[c] \div 2 = n
        BY <2>2, <3>1
      <4> HIDE DEF k, n
      <4>2. QED
        BY <1>1, <3>1, <3>3, <3>4, <4>1, ClientApart
    <3>5. CASE d # c
      <4> HIDE DEF k, n
      <4>1. QED
        BY <1>1, <2>1, <2>2, <3>1, <3>3, <3>5, OthersApart
    <3>6. QED
      BY <3>4, <3>5
  <2>5. QED
    BY <2>3, <2>4
<1>4. ASSUME NEW n \in 1..MaxSent, Message(n) PROVE Apart(d)'
  <2>1. "udp" \in Senders /\ d # "udp" /\ n \in 1..MaxFrames
    BY HostAssumption DEF Senders
  <2>2. Ingest("udp", n) /\ read' = read
    BY <1>4 DEF Message
  <2>3. QED
    BY <1>1, <2>1, <2>2, OthersApart
<1>5. QED
  BY <1>2, <1>3, <1>4
     DEF Step, Start, Stop, Decided, Opened, OpenFails, ConnectFails, Closed, LateError,
         Accept, WsOpen,
         NewConnection, ClientEnds, ClientBreaks, ClientLeaves, SendFrame, Lose, traffic

LEMMA StreamKept == Spec => []StreamInv
<1>1. TypeInv /\ StreamInv /\ [Next]_vars => StreamInv'
  <2>1. ASSUME TypeInv, StreamInv, Next PROVE StreamInv'
    <3>1. Step
      BY <2>1 DEF Next
    <3>2. HalfInv'
      BY <2>1, <3>1, HalfStep DEF StreamInv
    <3>3. \A d \in Clients : Apart(d)'
      BY <2>1, <3>1, ApartStep DEF StreamInv
    <3>4. QED
      BY <3>2, <3>3 DEF StreamInv, StreamsStayApart, Apart
  <2>2. ASSUME StreamInv, UNCHANGED vars PROVE StreamInv'
    BY <2>2 DEF vars, traffic, StreamInv, HalfInv, StreamsStayApart, HeardOf, WholeFrames
  <2>3. QED
    BY <2>1, <2>2
<1>2. QED
  BY StreamInit, TypesKept, <1>1, PTL DEF Spec

\* StreamsStayApart for every number of clients and frames: whatever the order in which
\* their halves are read, the hub has heard of each client exactly its good frames, in order
\* (TcpServerTransport.start: each accepted socket has a FrameParser of its own).
THEOREM StreamsApart == Spec => []StreamsStayApart
BY StreamKept, PTL DEF StreamInv
=============================================================================
