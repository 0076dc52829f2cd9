--------------------------- MODULE MeshLinkProofs ---------------------------
(***************************************************************************)
(* Theorems about MeshLink, for every set of boats and every bound.        *)
(***************************************************************************)
EXTENDS MeshLink, SequenceTheorems, TLAPS

\* The boat at an address.
Boat(c) == c[1]

LEMMA SourceParts ==
  /\ \A b \in Boats, j \in 1..MaxJoins : <<b, j>> \in Sources /\ Boat(<<b, j>>) = b
  /\ \A c \in Sources : Boat(c) \in Boats
BY DEF Sources, Boat

LEMMA MessageKinds ==
  /\ \A m \in BoatFrames : IsFrame(m)
  /\ \A m \in Foreign \cup {LogLine} : ~IsFrame(m)
  /\ \A m \in BoatFrames \cup Foreign : m # Noise => m \in Forwarded
BY DEF BoatFrames, Forwarded, IsFrame, Foreign, Noise, Damaged, Oversize, LogLine

-----------------------------------------------------------------------------
(***************************************************************************)
(* Types.                                                                  *)
(***************************************************************************)

\* s_seq counts the timer periods since the boot, so its bound is theirs; only a boat that
\* was enrolled has the key.
TypeInv == TypeOK /\ seq = ticks /\ \A b \in Boats : appKey[b] => joins[b] # 0

LEMMA TypeInvInit == Init => TypeInv
<1> SUFFICES ASSUME Init PROVE TypeInv
  OBVIOUS
<1>1. 0 \in 0..MaxTimer /\ 0 \in 0..MaxReboots /\ 0 \in 0..MaxJoins /\ 0 \in 0..MaxForeign
  BY MeshAssumption
<1>2. heard \in [Sources -> [seq : 0..MaxTimer, boot : 0..MaxReboots]]
  BY <1>1 DEF Init, NeverHeard
<1>3. /\ mesh \in [Sources -> Seq(BoatFrames \cup Foreign)]
      /\ uart \in Seq(Forwarded \cup {LogLine})
      /\ events \in [Boats -> Seq({"complete", "reset"})]
  BY DEF Init
<1>4. /\ seq \in [Boats -> 0..MaxTimer] /\ seq = ticks
      /\ reboots \in [Boats -> 0..MaxReboots] /\ joins \in [Boats -> 0..MaxJoins]
      /\ foreign \in 0..MaxForeign
  BY <1>1 DEF Init
<1>5. QED
  BY <1>2, <1>3, <1>4 DEF Init, TypeInv, TypeOK

\* Taking one element out of a sequence, and the rest of it after the first.
LEMMA TakenOut ==
  ASSUME NEW S, NEW s \in Seq(S), NEW k \in DOMAIN s
  PROVE  LET r == SubSeq(s, 1, k - 1) \o SubSeq(s, k + 1, Len(s))
         IN  /\ r \in Seq(S) /\ Len(r) = Len(s) - 1
             /\ \A i \in DOMAIN r : r[i] = IF i < k THEN s[i] ELSE s[i + 1]
<1> DEFINE p == SubSeq(s, 1, k - 1)
           q == SubSeq(s, k + 1, Len(s))
<1>1. Len(s) \in Nat /\ k \in 1..Len(s)
  OBVIOUS
<1>2. p \in Seq(S) /\ Len(p) = k - 1 /\ \A i \in 1..(k - 1) : p[i] = s[i]
  BY <1>1, SubSeqProperties, ElementOfSeq
<1>3. q \in Seq(S) /\ Len(q) = Len(s) - k /\ \A i \in 1..(Len(s) - k) : q[i] = s[k + i]
  BY <1>1, SubSeqProperties, ElementOfSeq
<1> HIDE DEF p, q
<1>4. /\ p \o q \in Seq(S) /\ Len(p \o q) = Len(p) + Len(q)
      /\ \A i \in 1..(Len(p) + Len(q)) :
           (p \o q)[i] = IF i <= Len(p) THEN p[i] ELSE q[i - Len(p)]
  BY <1>2, <1>3, ConcatProperties
<1> DEFINE r == p \o q
<1>5. r \in Seq(S) /\ Len(r) = Len(s) - 1 /\ DOMAIN r = 1..(Len(s) - 1)
  BY <1>1, <1>2, <1>3, <1>4
<1> HIDE DEF r
<1>6. ASSUME NEW i \in 1..(Len(s) - 1) PROVE r[i] = IF i < k THEN s[i] ELSE s[i + 1]
  <2>1. CASE i < k
    <3>1. i \in 1..(k - 1) /\ i <= Len(p) /\ i \in 1..(Len(p) + Len(q))
      BY <1>1, <1>2, <1>3, <2>1
    <3>2. QED
      BY <1>2, <1>4, <2>1, <3>1 DEF r
  <2>2. CASE i >= k
    <3>1. /\ ~(i <= Len(p)) /\ i \in 1..(Len(p) + Len(q)) /\ ~(i < k)
          /\ i - Len(p) \in 1..(Len(s) - k) /\ k + (i - Len(p)) = i + 1
      BY <1>1, <1>2, <1>3, <2>2
    <3>2. QED
      BY <1>3, <1>4, <3>1 DEF r
  <2>3. QED
    BY <1>1, <2>1, <2>2
<1>7. QED
  BY <1>5, <1>6 DEF p, q, r

\* What is left of a sequence without its first k elements.
LEMMA RestProperties ==
  ASSUME NEW S, NEW s \in Seq(S), NEW k \in DOMAIN s
  PROVE  LET r == SubSeq(s, k + 1, Len(s))
         IN  /\ r \in Seq(S) /\ Len(r) = Len(s) - k
             /\ \A i \in 1..(Len(s) - k) : r[i] = s[k + i]
<1>1. Len(s) \in Nat /\ k \in 1..Len(s)
  OBVIOUS
<1>2. QED
  BY <1>1, SubSeqProperties, ElementOfSeq

\* The gateway writes at most a line of its log and the frame it received.
Written(u, line, valid, m) ==
  u \o (IF line THEN <<LogLine>> ELSE <<>>) \o (IF valid THEN <<m>> ELSE <<>>)

LEMMA WrittenProperties ==
  ASSUME NEW S, LogLine \in S, NEW u \in Seq(S), NEW line, NEW valid, NEW m, valid => m \in S
  PROVE  LET w == Written(u, line, valid, m)
         IN  /\ w \in Seq(S)
             /\ \A i \in DOMAIN w : \/ i \in DOMAIN u /\ w[i] = u[i]
                                    \/ w[i] = LogLine
                                    \/ valid /\ w[i] = m /\ i = Len(w) /\ i > Len(u)
<1> DEFINE p == IF line THEN <<LogLine>> ELSE <<>>
           q == IF valid THEN <<m>> ELSE <<>>
           t == u \o p
<1>1. /\ p \in Seq(S) /\ Len(p) \in {0, 1}
      /\ \A i \in 1..Len(p) : p[i] = LogLine
  OBVIOUS
<1>2. /\ q \in Seq(S) /\ Len(q) \in {0, 1}
      /\ \A i \in 1..Len(q) : valid /\ q[i] = m /\ i = Len(q)
  OBVIOUS
<1> HIDE DEF p, q
<1>3. /\ t \in Seq(S) /\ Len(t) = Len(u) + Len(p)
      /\ \A i \in 1..Len(t) : t[i] = IF i <= Len(u) THEN u[i] ELSE p[i - Len(u)]
  BY <1>1, ConcatProperties
<1> HIDE DEF t
<1> DEFINE w == t \o q
<1>4. /\ w \in Seq(S) /\ Len(w) = Len(t) + Len(q)
      /\ \A i \in 1..Len(w) : w[i] = IF i <= Len(t) THEN t[i] ELSE q[i - Len(t)]
  BY <1>2, <1>3, ConcatProperties
<1>5. Written(u, line, valid, m) = w
  BY DEF Written, p, q, t
<1> HIDE DEF w
<1>6. DOMAIN w = 1..Len(w) /\ DOMAIN u = 1..Len(u) /\ Len(u) \in Nat
  BY <1>4
<1>7. ASSUME NEW i \in 1..Len(w)
      PROVE  \/ i \in DOMAIN u /\ w[i] = u[i]
             \/ w[i] = LogLine
             \/ valid /\ w[i] = m /\ i = Len(w) /\ i > Len(u)
  <2>1. CASE i <= Len(u)
    <3>1. i \in 1..Len(t) /\ i <= Len(t)
      BY <1>1, <1>3, <1>6, <2>1
    <3>2. QED
      BY <1>3, <1>4, <1>6, <2>1, <3>1
  <2>2. CASE i > Len(u) /\ i <= Len(t)
    <3>1. i \in 1..Len(t) /\ ~(i <= Len(u)) /\ i - Len(u) \in 1..Len(p)
      BY <1>1, <1>3, <1>6, <2>2
    <3>2. QED
      BY <1>1, <1>3, <1>4, <2>2, <3>1
  <2>3. CASE i > Len(t)
    <3>1. ~(i <= Len(t)) /\ i - Len(t) \in 1..Len(q) /\ i > Len(u)
      BY <1>1, <1>2, <1>3, <1>4, <1>6, <2>3
    <3>2. valid /\ w[i] = m /\ i - Len(t) = Len(q)
      BY <1>2, <1>4, <3>1
    <3>3. QED
      BY <1>2, <1>3, <1>4, <1>6, <3>1, <3>2
  <2>4. i \in Nat /\ Len(u) \in Nat /\ Len(t) \in Nat
    BY <1>3, <1>6
  <2>5. QED
    BY <2>1, <2>2, <2>3, <2>4
<1>8. QED
  BY <1>4, <1>5, <1>6, <1>7

\* The frame a boat publishes.
LEMMA FrameType ==
  ASSUME TypeInv, NEW b \in Boats, ticks[b] < MaxTimer, Publishes(b)
  PROVE  <<b, joins[b]>> \in Sources /\ Frame(b, seq[b] + 1) \in BoatFrames
<1>1. seq[b] \in Nat /\ seq[b] + 1 \in 1..MaxTimer /\ reboots[b] \in 0..MaxReboots
  BY MeshAssumption DEF TypeInv, TypeOK
<1>2. joins[b] \in 0..MaxJoins /\ joins[b] # 0
  BY DEF TypeInv, TypeOK, Publishes
<1>3. <<b, joins[b]>> \in Sources
  BY <1>2, MeshAssumption, SourceParts
<1>4. QED
  BY <1>1, <1>3 DEF Frame, BoatFrames

LEMMA TypeInvStep ==
  ASSUME TypeInv, [Next]_vars
  PROVE  TypeInv'
<1> USE MeshAssumption DEF TypeInv, TypeOK
<1>1. ASSUME NEW b \in Boats, Enrolled(b) PROVE TypeInv'
  <2> DEFINE j == joins[b] + 1
  <2>1. j \in 1..MaxJoins /\ joins' = [joins EXCEPT ![b] = j] /\ UNCHANGED appKey
    BY <1>1 DEF Enrolled
  <2>2. <<b, j>> \in Sources /\ completed' \subseteq Sources
    BY <1>1, <2>1, SourceParts DEF Enrolled
  <2>3. joins' \in [Boats -> 0..MaxJoins] /\ \A c \in Boats : joins[c] # 0 => joins'[c] # 0
    BY <2>1
  <2>4. events' \in [Boats -> Seq({"complete", "reset"})]
    BY <1>1 DEF Enrolled
  <2>5. QED
    BY <1>1, <2>2, <2>3, <2>4 DEF Enrolled, hostVars
<1>2. ASSUME NEW b \in Boats, AddressSet(b) PROVE TypeInv'
  BY <1>2 DEF AddressSet, gatewayVars, hostVars, bounds
<1>3. ASSUME NEW b \in Boats, Removed(b) PROVE TypeInv'
  <2>1. events' \in [Boats -> Seq({"complete", "reset"})]
    BY <1>3 DEF Removed
  <2>2. QED
    BY <1>3, <2>1 DEF Removed, Erase, gatewayVars, hostVars, bounds
<1>4. ASSUME NEW b \in Boats, ProvComplete(b) PROVE TypeInv'
  <2>1. events' \in [Boats -> Seq({"complete", "reset"})]
    BY <1>4, HeadTailProperties DEF ProvComplete
  <2>2. QED
    BY <1>4, <2>1 DEF ProvComplete, flash, gatewayVars, hostVars, bounds
<1>5. ASSUME NEW b \in Boats, ProvReset(b) PROVE TypeInv'
  <2>1. Tail(events[b]) \in Seq({"complete", "reset"})
    BY <1>5, HeadTailProperties DEF ProvReset
  <2>2. Append(Tail(events[b]), "reset") \in Seq({"complete", "reset"})
    BY <2>1
  <2>3. events' \in [Boats -> Seq({"complete", "reset"})]
    <3> DEFINE t == Tail(events[b])
               u == Append(t, "reset")
    <3>1. events' = [events EXCEPT ![b] = t] \/ events' = [events EXCEPT ![b] = u]
      BY <1>5 DEF ProvReset
    <3> HIDE DEF u
    <3> HIDE DEF t
    <3>2. t \in Seq({"complete", "reset"}) /\ u \in Seq({"complete", "reset"})
      BY <2>1, <2>2 DEF t, u
    <3>3. QED
      BY <3>1, <3>2
  <2>4. /\ stored' \in [Boats -> BOOLEAN] /\ appKey' \in [Boats -> BOOLEAN]
        /\ address' \in [Boats -> {"none", "group", "gateway"}]
        /\ \A d \in Boats : appKey'[d] => appKey[d]
    BY <1>5 DEF ProvReset, Erase, flash
  <2>5. QED
    BY <1>5, <2>3, <2>4 DEF ProvReset, gatewayVars, hostVars, bounds
<1>6. ASSUME NEW b \in Boats, Timer(b) PROVE TypeInv'
  <2> DEFINE c == <<b, joins[b]>>
             f == Frame(b, seq[b] + 1)
  <2>1. ticks' \in [Boats -> 0..MaxTimer] /\ seq' = ticks'
    BY <1>6 DEF Timer
  <2>2. mesh' \in [Sources -> Seq(BoatFrames \cup Foreign)]
    <3>1. CASE UNCHANGED mesh
      BY <3>1
    <3>2. CASE Publishes(b) /\ mesh' = [mesh EXCEPT ![c] = Append(@, f)]
      <4>1. c \in Sources /\ f \in BoatFrames
        BY <1>6, <3>2, FrameType DEF Timer
      <4> HIDE DEF c, f
      <4>2. Append(mesh[c], f) \in Seq(BoatFrames \cup Foreign)
        BY <4>1
      <4>3. QED
        BY <3>2, <4>1, <4>2
    <3>3. QED
      BY <1>6, <3>1, <3>2 DEF Timer
  <2>3. QED
    BY <1>6, <2>1, <2>2 DEF Timer, flash, gatewayVars, hostVars
<1>7. ASSUME NEW b \in Boats, Reboot(b) PROVE TypeInv'
  <2>1. /\ stored' \in [Boats -> BOOLEAN] /\ appKey' \in [Boats -> BOOLEAN]
        /\ address' \in [Boats -> {"none", "group", "gateway"}]
        /\ \A d \in Boats : appKey'[d] => appKey[d]
    BY <1>7 DEF Reboot, Erase, flash
  <2>2. /\ seq' \in [Boats -> 0..MaxTimer] /\ ticks' \in [Boats -> 0..MaxTimer] /\ seq' = ticks'
        /\ reboots' \in [Boats -> 0..MaxReboots] /\ provisioned' \in [Boats -> BOOLEAN]
    BY <1>7 DEF Reboot
  <2>3. <<>> \in Seq({"complete", "reset"}) /\ events' = [events EXCEPT ![b] = <<>>]
    BY <1>7 DEF Reboot
  <2>4. events' \in [Boats -> Seq({"complete", "reset"})]
    BY <2>3
  <2>5. QED
    BY <1>7, <2>1, <2>2, <2>4 DEF Reboot, gatewayVars, hostVars
<1>8. ASSUME NEW b \in Boats, NEW j \in 1..MaxJoins, ConfigureNode(b, j) PROVE TypeInv'
  <2>1. \/ joins[b] = j /\ appKey' = [appKey EXCEPT ![b] = TRUE]
        \/ UNCHANGED appKey
    BY <1>8 DEF ConfigureNode
  <2>2. appKey' \in [Boats -> BOOLEAN] /\ \A d \in Boats : appKey'[d] => joins[d] # 0
    <3>1. CASE joins[b] = j /\ appKey' = [appKey EXCEPT ![b] = TRUE]
      <4>1. j # 0 /\ \A d \in Boats : appKey'[d] => d = b \/ appKey[d]
        BY <3>1
      <4>2. QED
        BY <3>1, <4>1
    <3>2. CASE UNCHANGED appKey
      BY <3>2
    <3>3. QED
      BY <2>1, <3>1, <3>2
  <2>3. completed' \subseteq Sources /\ UNCHANGED joins
    BY <1>8 DEF ConfigureNode, bounds
  <2>4. QED
    BY <1>8, <2>2, <2>3 DEF ConfigureNode, hostVars, bounds
<1>9. ASSUME NEW c \in Sources, Lose(c) PROVE TypeInv'
  <2>1. PICK k \in DOMAIN mesh[c] : mesh' =
          [mesh EXCEPT ![c] = SubSeq(@, 1, k - 1) \o SubSeq(@, k + 1, Len(@))]
    BY <1>9 DEF Lose
  <2> DEFINE r == SubSeq(mesh[c], 1, k - 1) \o SubSeq(mesh[c], k + 1, Len(mesh[c]))
  <2>2. r \in Seq(BoatFrames \cup Foreign)
    BY <2>1, TakenOut
  <2>3. mesh' = [mesh EXCEPT ![c] = r]
    BY <2>1
  <2> HIDE DEF r
  <2>4. mesh' \in [Sources -> Seq(BoatFrames \cup Foreign)]
    BY <2>2, <2>3
  <2>5. QED
    BY <1>9, <2>4 DEF Lose, nodeVars, flash, gatewayVars, hostVars, bounds
<1>10. ASSUME NEW c \in Sources, ForeignMessage(c) PROVE TypeInv'
  <2>1. PICK m \in Foreign : mesh' = [mesh EXCEPT ![c] = Append(@, m)]
    BY <1>10 DEF ForeignMessage
  <2>2. Append(mesh[c], m) \in Seq(BoatFrames \cup Foreign)
    OBVIOUS
  <2>3. mesh' \in [Sources -> Seq(BoatFrames \cup Foreign)]
    BY <2>1, <2>2
  <2>4. QED
    BY <1>10, <2>3 DEF ForeignMessage, nodeVars, flash, gatewayVars, hostVars
<1>11. ASSUME NEW c \in Sources, VendorRecv(c) PROVE TypeInv'
  <2> DEFINE m == Head(mesh[c])
             valid == LooksValid(m)
  <2>1. mesh[c] \in Seq(BoatFrames \cup Foreign) /\ mesh[c] # <<>>
    BY <1>11 DEF VendorRecv
  <2>2. /\ m \in BoatFrames \cup Foreign
        /\ Tail(mesh[c]) \in Seq(BoatFrames \cup Foreign)
    BY <2>1, HeadTailProperties
  <2>3. valid => m \in Forwarded
    BY <2>2, MessageKinds DEF LooksValid
  <2>4. uart' = Written(uart, console, valid, m)
    BY <1>11 DEF VendorRecv, Written
  <2> HIDE DEF m, valid
  <2>5. Written(uart, console, valid, m) \in Seq(Forwarded \cup {LogLine})
    BY <2>3, WrittenProperties
  <2>6. mesh' \in [Sources -> Seq(BoatFrames \cup Foreign)]
    BY <1>11, <2>2 DEF VendorRecv
  <2>7. QED
    BY <1>11, <2>4, <2>5, <2>6 DEF VendorRecv, nodeVars, flash, gatewayVars, hostVars, bounds
<1>12. CASE LocalAppKeyAdded
  BY <1>12 DEF LocalAppKeyAdded, nodeVars, flash, hostVars, bounds
<1>13. CASE HostReads
  <2>1. /\ Head(uart) \in Forwarded \cup {LogLine} /\ IsFrame(Head(uart))
        /\ Tail(uart) \in Seq(Forwarded \cup {LogLine})
    BY <1>13, HeadTailProperties DEF HostReads
  <2>2. Head(uart) \in BoatFrames
    BY <2>1 DEF Forwarded, IsFrame, Foreign
  <2>3. /\ Head(uart).from \in Sources
        /\ [seq |-> Head(uart).seq, boot |-> Head(uart).boot]
             \in [seq : 0..MaxTimer, boot : 0..MaxReboots]
    BY <2>2 DEF BoatFrames
  <2>4. heard' \in [Sources -> [seq : 0..MaxTimer, boot : 0..MaxReboots]]
    BY <1>13, <2>3 DEF HostReads
  <2>5. inOrder' \in BOOLEAN /\ uart' \in Seq(Forwarded \cup {LogLine})
    BY <1>13, <2>1 DEF HostReads
  <2>6. QED
    BY <1>13, <2>4, <2>5 DEF HostReads, nodeVars, flash, gatewayVars, bounds
<1>14. CASE HostDrops
  <2>1. PICK k \in DOMAIN uart : uart' = SubSeq(uart, k + 1, Len(uart))
    BY <1>14 DEF HostDrops
  <2>2. uart' \in Seq(Forwarded \cup {LogLine})
    BY <2>1, RestProperties
  <2>3. QED
    BY <1>14, <2>2 DEF HostDrops, nodeVars, flash, gatewayVars, hostVars, bounds
<1>15. CASE HostStuck
  <2>1. Tail(uart) \in Seq(Forwarded \cup {LogLine})
    BY <1>15, HeadTailProperties DEF HostStuck
  <2>2. QED
    BY <1>15, <2>1 DEF HostStuck, nodeVars, flash, gatewayVars, bounds
<1>16. CASE UNCHANGED vars
  BY <1>16 DEF vars, nodeVars, flash, gatewayVars, hostVars, bounds
<1>17. QED
  BY <1>1, <1>2, <1>3, <1>4, <1>5, <1>6, <1>7, <1>8, <1>9, <1>10, <1>11, <1>12, <1>13, <1>14,
     <1>15, <1>16 DEF Next

-----------------------------------------------------------------------------
(***************************************************************************)
(* The order of the frames under way.                                      *)
(***************************************************************************)

\* The frames of one source in s are in the order in which they were made.
Sorted(s) ==
  \A i, j \in DOMAIN s :
    i < j /\ IsFrame(s[i]) /\ IsFrame(s[j]) /\ s[i].from = s[j].from => SentLater(s[j], s[i])

\* Those of a source in t were made after those in s.
Before(s, t) ==
  \A i \in DOMAIN s, j \in DOMAIN t :
    IsFrame(s[i]) /\ IsFrame(t[j]) /\ s[i].from = t[j].from => SentLater(t[j], s[i])

\* They were made after the last frame that the hub has of their source.
IsNews(s, h) == \A i \in DOMAIN s : IsFrame(s[i]) => SentLater(s[i], h[s[i].from])

\* The boat has made m: its number and its boot are not ahead of the boat.
Made(m, b, sq, rb) == m.boot < rb[b] \/ (m.boot = rb[b] /\ m.seq <= sq[b])

AllMade(s, sq, rb) == \A i \in DOMAIN s : IsFrame(s[i]) => Made(s[i], Boat(s[i].from), sq, rb)

OfSource(s, c) == \A i \in DOMAIN s : IsFrame(s[i]) => s[i].from = c

OrderAt(ms, u, h, sq, rb) ==
  /\ Sorted(u) /\ IsNews(u, h) /\ AllMade(u, sq, rb)
  /\ \A c \in Sources :
       /\ Sorted(ms[c]) /\ Before(u, ms[c])
       /\ IsNews(ms[c], h) /\ AllMade(ms[c], sq, rb)
       /\ OfSource(ms[c], c)
       /\ Made(h[c], Boat(c), sq, rb)

OrderInv == inOrder /\ OrderAt(mesh, uart, heard, seq, reboots)

\* What the types say of queues and of the frames in them.
QueueTypes(ms, u, h, sq, rb) ==
  /\ ms \in [Sources -> Seq(BoatFrames \cup Foreign)] /\ u \in Seq(Forwarded \cup {LogLine})
  /\ h \in [Sources -> [seq : Nat, boot : Nat]]
  /\ sq \in [Boats -> Nat] /\ rb \in [Boats -> Nat]

LEMMA FrameNumbers ==
  ASSUME NEW s, s \in Seq(BoatFrames \cup Foreign) \/ s \in Seq(Forwarded \cup {LogLine}),
         NEW i \in DOMAIN s, IsFrame(s[i])
  PROVE  /\ s[i] \in BoatFrames /\ s[i].from \in Sources /\ Boat(s[i].from) \in Boats
         /\ s[i].seq \in Nat /\ s[i].boot \in Nat
<1>1. s[i] \in BoatFrames \cup Foreign \/ s[i] \in Forwarded \cup {LogLine}
  BY ElementOfSeq
<1>2. s[i] \in BoatFrames
  BY <1>1 DEF IsFrame, Forwarded, Foreign
<1>3. s[i].from \in Sources /\ s[i].seq \in Nat /\ s[i].boot \in Nat
  BY <1>2, MeshAssumption DEF BoatFrames
<1>4. QED
  BY <1>2, <1>3, SourceParts

LEMMA TypesOfQueues ==
  ASSUME TypeInv
  PROVE  QueueTypes(mesh, uart, heard, seq, reboots)
<1>1. 0..MaxTimer \subseteq Nat /\ 0..MaxReboots \subseteq Nat
  BY MeshAssumption
<1>2. \A c \in Sources : heard[c] \in [seq : Nat, boot : Nat]
  BY <1>1 DEF TypeInv, TypeOK
<1>3. heard \in [Sources -> [seq : Nat, boot : Nat]]
  BY <1>2 DEF TypeInv, TypeOK
<1>4. seq \in [Boats -> Nat] /\ reboots \in [Boats -> Nat]
  BY <1>1 DEF TypeInv, TypeOK
<1>5. QED
  BY <1>3, <1>4 DEF QueueTypes, TypeInv, TypeOK

\* A boat goes on: what it has made stays made, and what it makes is later.
LEMMA MadeStays ==
  ASSUME NEW m, m.seq \in Nat, m.boot \in Nat, NEW b \in Boats,
         NEW sq \in [Boats -> Nat], NEW rb \in [Boats -> Nat],
         NEW sq2 \in [Boats -> Nat], NEW rb2 \in [Boats -> Nat],
         rb[b] < rb2[b] \/ (rb[b] = rb2[b] /\ sq[b] <= sq2[b]),
         Made(m, b, sq, rb)
  PROVE  Made(m, b, sq2, rb2)
BY DEF Made

LEMMA NextIsLater ==
  ASSUME NEW m, m.seq \in Nat, m.boot \in Nat, NEW b \in Boats,
         NEW sq \in [Boats -> Nat], NEW rb \in [Boats -> Nat],
         NEW f, f.seq = sq[b] + 1, f.boot = rb[b], Made(m, b, sq, rb)
  PROVE  SentLater(f, m)
BY DEF Made, SentLater

LEMMA OrderOfBoatGoesOn ==
  ASSUME NEW ms, NEW u, NEW h, NEW sq, NEW rb, QueueTypes(ms, u, h, sq, rb),
         OrderAt(ms, u, h, sq, rb),
         NEW sq2 \in [Boats -> Nat], NEW rb2 \in [Boats -> Nat],
         \A b \in Boats : rb[b] < rb2[b] \/ (rb[b] = rb2[b] /\ sq[b] <= sq2[b])
  PROVE  OrderAt(ms, u, h, sq2, rb2)
<1>1. AllMade(u, sq2, rb2)
  BY FrameNumbers, MadeStays DEF OrderAt, AllMade, QueueTypes
<1>2. ASSUME NEW c \in Sources PROVE AllMade(ms[c], sq2, rb2) /\ Made(h[c], Boat(c), sq2, rb2)
  <2>1. ms[c] \in Seq(BoatFrames \cup Foreign) /\ AllMade(ms[c], sq, rb)
    BY DEF QueueTypes, OrderAt
  <2>2. AllMade(ms[c], sq2, rb2)
    BY <2>1, FrameNumbers, MadeStays DEF AllMade, QueueTypes
  <2>3. h[c] \in [seq : Nat, boot : Nat] /\ Made(h[c], Boat(c), sq, rb) /\ Boat(c) \in Boats
    BY SourceParts DEF QueueTypes, OrderAt
  <2>4. Made(h[c], Boat(c), sq2, rb2)
    BY <2>3, MadeStays DEF QueueTypes
  <2>5. QED
    BY <2>2, <2>4
<1>3. QED
  BY <1>1, <1>2 DEF OrderAt

\* r has some of the elements of s, in their order: f says which.
Picked(r, s, f) ==
  /\ \A i \in DOMAIN r : f[i] \in DOMAIN s /\ r[i] = s[f[i]]
  /\ \A i, j \in DOMAIN r : i < j => f[i] < f[j]

LEMMA OrderOfFewer ==
  ASSUME NEW ms, NEW u, NEW h, NEW sq, NEW rb, QueueTypes(ms, u, h, sq, rb),
         OrderAt(ms, u, h, sq, rb), NEW b \in Sources, NEW r, NEW f, Picked(r, ms[b], f)
  PROVE  OrderAt([ms EXCEPT ![b] = r], u, h, sq, rb)
<1> DEFINE s == ms[b]
<1>1. Sorted(s) /\ Before(u, s) /\ IsNews(s, h) /\ AllMade(s, sq, rb) /\ OfSource(s, b)
  BY DEF OrderAt
<1> HIDE DEF s
<1>2. Picked(r, s, f)
  BY DEF s
<1>3. Sorted(r)
  BY <1>1, <1>2 DEF Sorted, Picked
<1>4. Before(u, r)
  BY <1>1, <1>2 DEF Before, Picked
<1>5. IsNews(r, h) /\ AllMade(r, sq, rb) /\ OfSource(r, b)
  BY <1>1, <1>2 DEF IsNews, AllMade, OfSource, Picked
<1>6. \A c \in Sources : [ms EXCEPT ![b] = r][c] = IF c = b THEN r ELSE ms[c]
  BY DEF QueueTypes
<1>7. QED
  BY <1>3, <1>4, <1>5, <1>6 DEF OrderAt

LEMMA TailIsPicked ==
  ASSUME NEW S, NEW s \in Seq(S), s # <<>>
  PROVE  /\ 1 \in DOMAIN s /\ Head(s) = s[1] /\ Tail(s) \in Seq(S)
         /\ \E f : Picked(Tail(s), s, f) /\ \A i \in DOMAIN Tail(s) : f[i] > 1
<1>1. /\ Len(s) \in Nat /\ DOMAIN s = 1..Len(s) /\ Len(s) > 0
      /\ Tail(s) \in Seq(S) /\ DOMAIN Tail(s) = 1..(Len(s) - 1)
      /\ \A i \in 1..(Len(s) - 1) : Tail(s)[i] = s[i + 1]
  BY HeadTailProperties
<1> DEFINE f == [i \in DOMAIN Tail(s) |-> i + 1]
<1>2. \A i \in DOMAIN Tail(s) : f[i] = i + 1
  OBVIOUS
<1> HIDE DEF f
<1>3. Picked(Tail(s), s, f) /\ \A i \in DOMAIN Tail(s) : f[i] > 1
  BY <1>1, <1>2 DEF Picked
<1>4. 1 \in DOMAIN s /\ Head(s) = s[1]
  BY <1>1
<1>5. QED
  BY <1>1, <1>3, <1>4

LEMMA TakenOutIsPicked ==
  ASSUME NEW S, NEW s \in Seq(S), NEW k \in DOMAIN s
  PROVE  \E f : Picked(SubSeq(s, 1, k - 1) \o SubSeq(s, k + 1, Len(s)), s, f)
<1> DEFINE r == SubSeq(s, 1, k - 1) \o SubSeq(s, k + 1, Len(s))
           f == [i \in DOMAIN r |-> IF i < k THEN i ELSE i + 1]
<1>1. /\ r \in Seq(S) /\ Len(r) = Len(s) - 1
      /\ \A i \in DOMAIN r : r[i] = IF i < k THEN s[i] ELSE s[i + 1]
  BY TakenOut
<1> HIDE DEF r
<1>2. \A i \in DOMAIN r : f[i] = IF i < k THEN i ELSE i + 1
  OBVIOUS
<1>3. DOMAIN r = 1..(Len(s) - 1) /\ DOMAIN s = 1..Len(s) /\ Len(s) \in Nat /\ k \in Nat
  BY <1>1
<1> HIDE DEF f
<1>4. Picked(r, s, f)
  BY <1>1, <1>2, <1>3 DEF Picked
<1>5. QED
  BY <1>4 DEF r

LEMMA RestIsPicked ==
  ASSUME NEW S, NEW s \in Seq(S), NEW k \in DOMAIN s
  PROVE  \E f : Picked(SubSeq(s, k + 1, Len(s)), s, f)
<1> DEFINE r == SubSeq(s, k + 1, Len(s))
           f == [i \in DOMAIN r |-> k + i]
<1>1. r \in Seq(S) /\ Len(r) = Len(s) - k /\ \A i \in 1..(Len(s) - k) : r[i] = s[k + i]
  BY RestProperties
<1>2. \A i \in DOMAIN r : f[i] = k + i
  OBVIOUS
<1> HIDE DEF r
<1>3. DOMAIN r = 1..(Len(s) - k) /\ DOMAIN s = 1..Len(s) /\ Len(s) \in Nat /\ k \in 1..Len(s)
  BY <1>1
<1> HIDE DEF f
<1>4. Picked(r, s, f)
  BY <1>1, <1>2, <1>3 DEF Picked
<1>5. QED
  BY <1>4 DEF r

\* The boat publishes its next frame.
LEMMA OrderWithNext ==
  ASSUME NEW ms, NEW u, NEW h, NEW sq, NEW rb, QueueTypes(ms, u, h, sq, rb),
         OrderAt(ms, u, h, sq, rb), NEW c \in Sources, NEW b \in Boats, Boat(c) = b,
         NEW m \in BoatFrames, m.from = c, m.seq = sq[b] + 1, m.boot = rb[b]
  PROVE  OrderAt([ms EXCEPT ![c] = Append(@, m)], u, h, [sq EXCEPT ![b] = @ + 1], rb)
<1> DEFINE s == ms[c]
           r == Append(s, m)
           sq2 == [sq EXCEPT ![b] = @ + 1]
<1>1. /\ s \in Seq(BoatFrames \cup Foreign) /\ sq \in [Boats -> Nat] /\ rb \in [Boats -> Nat]
      /\ u \in Seq(Forwarded \cup {LogLine}) /\ h \in [Sources -> [seq : Nat, boot : Nat]]
  BY DEF QueueTypes
<1>2. sq2 \in [Boats -> Nat] /\ (\A d \in Boats : sq[d] <= sq2[d]) /\ sq2[b] = sq[b] + 1
  BY <1>1
<1>3. /\ DOMAIN s = 1..Len(s) /\ Len(s) \in Nat /\ DOMAIN r = 1..(Len(s) + 1)
      /\ r[Len(s) + 1] = m /\ \A i \in 1..Len(s) : r[i] = s[i]
  BY <1>1
<1> HIDE DEF sq2, r
<1>4. OrderAt(ms, u, h, sq2, rb)
  BY <1>1, <1>2, OrderOfBoatGoesOn
<1>5. Sorted(s) /\ Before(u, s) /\ IsNews(s, h) /\ AllMade(s, sq2, rb) /\ OfSource(s, c)
  BY <1>4 DEF OrderAt
<1>6. AllMade(s, sq, rb) /\ AllMade(u, sq, rb) /\ Made(h[c], b, sq, rb)
  BY DEF OrderAt
<1>7. \A i \in DOMAIN s : IsFrame(s[i]) => SentLater(m, s[i])
  BY <1>1, <1>5, <1>6, FrameNumbers, NextIsLater DEF AllMade, OfSource
<1>8. \A i \in DOMAIN u : IsFrame(u[i]) /\ u[i].from = c => SentLater(m, u[i])
  BY <1>1, <1>6, FrameNumbers, NextIsLater DEF AllMade
<1>9. SentLater(m, h[c])
  <2>1. h[c].seq \in Nat /\ h[c].boot \in Nat
    BY <1>1
  <2>2. QED
    BY <1>1, <1>6, <2>1, NextIsLater
<1>10. Made(m, b, sq2, rb)
  BY <1>1, <1>2 DEF Made
<1> HIDE DEF s
<1>11. \A i \in DOMAIN r : (i \in DOMAIN s /\ r[i] = s[i]) \/ (i = Len(s) + 1 /\ r[i] = m)
  BY <1>3
<1>12. Sorted(r)
  BY <1>3, <1>5, <1>7, <1>11 DEF Sorted
<1>13. Before(u, r)
  BY <1>5, <1>8, <1>11 DEF Before
<1>14. IsNews(r, h) /\ AllMade(r, sq2, rb) /\ OfSource(r, c)
  BY <1>5, <1>9, <1>10, <1>11 DEF IsNews, AllMade, OfSource
<1> DEFINE ms2 == [ms EXCEPT ![c] = Append(@, m)]
<1>15. \A d \in Sources : ms2[d] = IF d = c THEN r ELSE ms[d]
  BY DEF QueueTypes, r, s
<1> HIDE DEF ms2
<1>16. OrderAt(ms2, u, h, sq2, rb)
  BY <1>4, <1>12, <1>13, <1>14, <1>15 DEF OrderAt
<1>17. QED
  BY <1>16 DEF ms2, sq2

LEMMA OrderWithForeign ==
  ASSUME NEW ms, NEW u, NEW h, NEW sq, NEW rb, QueueTypes(ms, u, h, sq, rb),
         OrderAt(ms, u, h, sq, rb), NEW c \in Sources, NEW m \in Foreign
  PROVE  OrderAt([ms EXCEPT ![c] = Append(@, m)], u, h, sq, rb)
<1> DEFINE s == ms[c]
           r == Append(s, m)
           ms2 == [ms EXCEPT ![c] = Append(@, m)]
<1>1. s \in Seq(BoatFrames \cup Foreign)
  BY DEF QueueTypes
<1>2. \A i \in DOMAIN r : (i \in DOMAIN s /\ r[i] = s[i]) \/ ~IsFrame(r[i])
  BY <1>1, MessageKinds
<1>3. Sorted(s) /\ Before(u, s) /\ IsNews(s, h) /\ AllMade(s, sq, rb) /\ OfSource(s, c)
  BY DEF OrderAt
<1>4. \A d \in Sources : ms2[d] = IF d = c THEN r ELSE ms[d]
  BY DEF QueueTypes
<1> HIDE DEF ms2, r, s
<1>5. Sorted(r)
  BY <1>2, <1>3 DEF Sorted
<1>6. Before(u, r)
  BY <1>2, <1>3 DEF Before
<1>7. IsNews(r, h) /\ AllMade(r, sq, rb) /\ OfSource(r, c)
  BY <1>2, <1>3 DEF IsNews, AllMade, OfSource
<1>8. OrderAt(ms2, u, h, sq, rb)
  BY <1>4, <1>5, <1>6, <1>7 DEF OrderAt
<1>9. QED
  BY <1>8 DEF ms2

\* The gateway moves the first message of a source to the UART, or drops it.
LEMMA OrderOfReceived ==
  ASSUME NEW ms, NEW u, NEW h, NEW sq, NEW rb, QueueTypes(ms, u, h, sq, rb),
         OrderAt(ms, u, h, sq, rb), NEW c \in Sources, ms[c] # <<>>, NEW line,
         NEW valid, valid <=> Head(ms[c]) # Noise
  PROVE  OrderAt([ms EXCEPT ![c] = Tail(@)], Written(u, line, valid, Head(ms[c])), h, sq, rb)
<1> DEFINE s == ms[c]
           m == Head(s)
           w == Written(u, line, valid, m)
           r == Tail(s)
           ms2 == [ms EXCEPT ![c] = Tail(@)]
<1>1. s \in Seq(BoatFrames \cup Foreign) /\ s # <<>> /\ u \in Seq(Forwarded \cup {LogLine})
  BY DEF QueueTypes
<1>2. 1 \in DOMAIN s /\ m = s[1] /\ \E f : Picked(r, s, f) /\ \A i \in DOMAIN r : f[i] > 1
  BY <1>1, TailIsPicked
<1>3. PICK f : Picked(r, s, f) /\ \A i \in DOMAIN r : f[i] > 1
  BY <1>2
<1>4. OrderAt([ms EXCEPT ![c] = r], u, h, sq, rb)
  BY <1>3, OrderOfFewer
<1>5. ms2 = [ms EXCEPT ![c] = r]
  OBVIOUS
<1>6. m \in BoatFrames \cup Foreign /\ (valid => m \in Forwarded)
  <2>1. s[1] \in BoatFrames \cup Foreign
    BY <1>1, <1>2, ElementOfSeq
  <2>2. QED
    BY <1>2, <2>1, MessageKinds
<1>7. /\ w \in Seq(Forwarded \cup {LogLine}) /\ DOMAIN u = 1..Len(u) /\ Len(u) \in Nat
      /\ \A i \in DOMAIN w : \/ i \in DOMAIN u /\ w[i] = u[i]
                             \/ w[i] = LogLine
                             \/ valid /\ w[i] = m /\ i = Len(w) /\ i > Len(u)
  BY <1>1, <1>6, WrittenProperties
<1>8. DOMAIN w = 1..Len(w) /\ Len(w) \in Nat
  BY <1>7
<1>9. /\ Sorted(s) /\ Before(u, s) /\ IsNews(s, h) /\ AllMade(s, sq, rb) /\ OfSource(s, c)
      /\ Sorted(u) /\ IsNews(u, h) /\ AllMade(u, sq, rb)
  BY DEF OrderAt
<1>10. \A d \in Sources : ms2[d] = IF d = c THEN r ELSE ms[d]
  BY DEF QueueTypes
<1> HIDE DEF w, m, r, s, ms2
<1>11. \A i \in DOMAIN u : IsFrame(u[i]) /\ IsFrame(m) /\ u[i].from = m.from
         => SentLater(m, u[i])
  BY <1>2, <1>9 DEF Before
<1>12. IsFrame(m) => SentLater(m, h[m.from]) /\ Made(m, Boat(m.from), sq, rb) /\ m.from = c
  BY <1>2, <1>9 DEF IsNews, AllMade, OfSource
<1>13. Sorted(w)
  <2> SUFFICES ASSUME NEW i \in DOMAIN w, NEW j \in DOMAIN w, i < j, IsFrame(w[i]),
                      IsFrame(w[j]), w[i].from = w[j].from
               PROVE  SentLater(w[j], w[i])
    BY DEF Sorted
  <2>1. w[i] # LogLine /\ w[j] # LogLine
    BY DEF IsFrame
  <2>2. i \in DOMAIN u /\ w[i] = u[i]
    BY <1>7, <1>8, <2>1
  <2>3. CASE j \in DOMAIN u /\ w[j] = u[j]
    BY <1>9, <2>2, <2>3 DEF Sorted
  <2>4. CASE w[j] = m
    BY <1>11, <2>2, <2>4
  <2>5. QED
    BY <1>7, <2>1, <2>3, <2>4
<1>14. IsNews(w, h) /\ AllMade(w, sq, rb)
  BY <1>7, <1>9, <1>12 DEF IsNews, AllMade, IsFrame
<1>15. ASSUME NEW d \in Sources PROVE Before(w, ms2[d])
  <2>1. Before(u, ms2[d]) /\ OfSource(ms2[d], d)
    BY <1>4, <1>5 DEF OrderAt
  <2>2. IsFrame(m) => \A j \in DOMAIN ms2[d] :
                        IsFrame(ms2[d][j]) /\ m.from = ms2[d][j].from => SentLater(ms2[d][j], m)
    <3>1. CASE d = c
      <4>1. ms2[d] = r
        BY <1>10, <3>1
      <4>2. \A j \in DOMAIN r : f[j] \in DOMAIN s /\ r[j] = s[f[j]] /\ 1 < f[j]
        BY <1>1, <1>3 DEF Picked
      <4>3. QED
        BY <1>2, <1>9, <4>1, <4>2 DEF Sorted
    <3>2. CASE d # c
      BY <1>12, <2>1, <3>2 DEF OfSource
    <3>3. QED
      BY <3>1, <3>2
  <2>3. QED
    BY <1>7, <2>1, <2>2 DEF Before, IsFrame
<1>16. OrderAt(ms2, w, h, sq, rb)
  BY <1>4, <1>5, <1>13, <1>14, <1>15 DEF OrderAt
<1>17. QED
  BY <1>16 DEF ms2, w, m, s

\* The host goes on with some of the messages of the UART.
LEMMA OrderOfRest ==
  ASSUME NEW ms, NEW u, NEW h, NEW sq, NEW rb, QueueTypes(ms, u, h, sq, rb),
         OrderAt(ms, u, h, sq, rb), NEW r, NEW f, Picked(r, u, f)
  PROVE  OrderAt(ms, r, h, sq, rb)
<1>1. Sorted(u) /\ IsNews(u, h) /\ AllMade(u, sq, rb) /\ \A c \in Sources : Before(u, ms[c])
  BY DEF OrderAt
<1>2. Sorted(r)
  BY <1>1 DEF Sorted, Picked
<1>3. \A c \in Sources : Before(r, ms[c])
  BY <1>1 DEF Before, Picked
<1>4. IsNews(r, h) /\ AllMade(r, sq, rb)
  BY <1>1 DEF IsNews, AllMade, Picked
<1>5. QED
  BY <1>2, <1>3, <1>4 DEF OrderAt

\* The hub dispatches the first frame of the UART: it is later than the one it has, and all
\* others of its source are later than it.
LEMMA OrderOfHeard ==
  ASSUME NEW ms, NEW u, NEW h, NEW sq, NEW rb, QueueTypes(ms, u, h, sq, rb),
         OrderAt(ms, u, h, sq, rb), u # <<>>, NEW m, m = Head(u), IsFrame(m)
  PROVE  /\ SentLater(m, h[m.from])
         /\ OrderAt(ms, Tail(u), [h EXCEPT ![m.from] = [seq |-> m.seq, boot |-> m.boot]], sq, rb)
<1> DEFINE r == Tail(u)
           h2 == [h EXCEPT ![m.from] = [seq |-> m.seq, boot |-> m.boot]]
<1>1. u \in Seq(Forwarded \cup {LogLine}) /\ h \in [Sources -> [seq : Nat, boot : Nat]]
      /\ ms \in [Sources -> Seq(BoatFrames \cup Foreign)]
  BY DEF QueueTypes
<1>2. 1 \in DOMAIN u /\ m = u[1] /\ \E f : Picked(r, u, f) /\ \A i \in DOMAIN r : f[i] > 1
  BY <1>1, TailIsPicked
<1>3. PICK f : Picked(r, u, f) /\ \A i \in DOMAIN r : f[i] > 1
  BY <1>2
<1>4. m \in BoatFrames /\ m.from \in Sources /\ Boat(m.from) \in Boats
  BY <1>1, <1>2, FrameNumbers
<1>5. IsFrame(m)
  OBVIOUS
<1>6. OrderAt(ms, r, h, sq, rb)
  BY <1>3, OrderOfRest
<1>7. \A d \in Sources : h2[d] = IF d = m.from THEN [seq |-> m.seq, boot |-> m.boot] ELSE h[d]
  BY <1>1
<1>8. /\ Sorted(u) /\ IsNews(u, h) /\ AllMade(u, sq, rb)
      /\ \A c \in Sources : Before(u, ms[c]) /\ Made(h[c], Boat(c), sq, rb)
  BY DEF OrderAt
<1>9. SentLater(m, h[m.from]) /\ Made(m, Boat(m.from), sq, rb)
  BY <1>2, <1>5, <1>8 DEF IsNews, AllMade
<1> HIDE DEF r, h2
<1>10. \A n : SentLater(n, [seq |-> m.seq, boot |-> m.boot]) <=> SentLater(n, m)
  BY DEF SentLater
<1>11. \A c \in Sources : Made(h2[c], Boat(c), sq, rb)
  <2> TAKE c \in Sources
  <2>1. CASE c = m.from
    <3>1. h2[c].seq = m.seq /\ h2[c].boot = m.boot
      BY <1>7, <2>1
    <3>2. QED
      BY <1>9, <2>1, <3>1, Zenon DEF Made
  <2>2. CASE c # m.from
    BY <1>7, <1>8, <2>2, Zenon
  <2>3. QED
    BY <2>1, <2>2
<1>12. IsNews(r, h2)
  <2> SUFFICES ASSUME NEW i \in DOMAIN r, IsFrame(r[i])
               PROVE  SentLater(r[i], h2[r[i].from])
    BY DEF IsNews
  <2>1. f[i] \in DOMAIN u /\ r[i] = u[f[i]] /\ 1 < f[i]
    BY <1>1, <1>3 DEF Picked
  <2>2. r[i].from \in Sources
    BY <1>1, <2>1, FrameNumbers
  <2>3. r[i].from = m.from => SentLater(r[i], m)
    BY <1>2, <1>5, <1>8, <2>1 DEF Sorted
  <2>4. SentLater(r[i], h[r[i].from])
    BY <1>6 DEF OrderAt, IsNews
  <2>5. QED
    BY <1>7, <1>10, <2>2, <2>3, <2>4
<1>13. ASSUME NEW c \in Sources PROVE IsNews(ms[c], h2)
  <2> SUFFICES ASSUME NEW i \in DOMAIN ms[c], IsFrame(ms[c][i])
               PROVE  SentLater(ms[c][i], h2[ms[c][i].from])
    BY DEF IsNews
  <2>1. ms[c] \in Seq(BoatFrames \cup Foreign)
    BY <1>1
  <2>2. ms[c][i].from \in Sources
    BY <2>1, FrameNumbers
  <2>3. ms[c][i].from = m.from => SentLater(ms[c][i], m)
    BY <1>2, <1>5, <1>8 DEF Before
  <2>4. SentLater(ms[c][i], h[ms[c][i].from])
    BY <1>6 DEF OrderAt, IsNews
  <2>5. QED
    BY <1>7, <1>10, <2>2, <2>3, <2>4
<1>14. OrderAt(ms, r, h2, sq, rb)
  BY <1>6, <1>11, <1>12, <1>13 DEF OrderAt
<1>15. QED
  BY <1>9, <1>14 DEF r, h2

LEMMA OrderInvInit == Init => OrderInv
<1> SUFFICES ASSUME Init PROVE OrderInv
  OBVIOUS
<1>1. /\ mesh = [c \in Sources |-> <<>>] /\ uart = <<>> /\ heard = [c \in Sources |-> NeverHeard]
      /\ seq = [b \in Boats |-> 0] /\ reboots = [b \in Boats |-> 0] /\ inOrder = TRUE
  BY DEF Init
<1>2. DOMAIN uart = {} /\ \A c \in Sources : DOMAIN mesh[c] = {}
  BY <1>1
<1>3. \A c \in Sources : Made(heard[c], Boat(c), seq, reboots)
  <2> TAKE c \in Sources
  <2>1. Boat(c) \in Boats
    BY SourceParts
  <2>2. heard[c] = [seq |-> 0, boot |-> 0] /\ seq[Boat(c)] = 0 /\ reboots[Boat(c)] = 0
    BY <1>1, <2>1 DEF NeverHeard
  <2>3. heard[c].seq = 0 /\ heard[c].boot = 0 /\ 0 <= 0
    BY <2>2
  <2>4. QED
    BY <2>2, <2>3, Zenon DEF Made
<1>4. QED
  BY <1>1, <1>2, <1>3 DEF OrderInv, OrderAt, Sorted, Before, IsNews, AllMade, OfSource

LEMMA OrderInvStep ==
  ASSUME TypeInv, OrderInv, [Next]_vars
  PROVE  OrderInv'
<1>1. QueueTypes(mesh, uart, heard, seq, reboots) /\ inOrder
      /\ OrderAt(mesh, uart, heard, seq, reboots)
  BY TypesOfQueues DEF OrderInv
<1>2. /\ mesh \in [Sources -> Seq(BoatFrames \cup Foreign)] /\ uart \in Seq(Forwarded \cup {LogLine})
      /\ seq \in [Boats -> Nat] /\ reboots \in [Boats -> Nat]
  BY <1>1 DEF QueueTypes
<1>3. ASSUME UNCHANGED <<mesh, uart, heard, seq, reboots, inOrder>> PROVE OrderInv'
  BY <1>1, <1>3, Zenon DEF OrderInv
<1>4. ASSUME NEW b \in Boats, Enrolled(b) PROVE OrderInv'
  BY <1>3, <1>4 DEF Enrolled, hostVars
<1>5. ASSUME NEW b \in Boats,
             Removed(b) \/ AddressSet(b) \/ ProvComplete(b) \/ ProvReset(b)
      PROVE  OrderInv'
  BY <1>3, <1>5 DEF Removed, AddressSet, ProvComplete, ProvReset, hostVars, bounds
<1>6. ASSUME NEW b \in Boats, NEW j \in 1..MaxJoins, ConfigureNode(b, j) PROVE OrderInv'
  BY <1>3, <1>6 DEF ConfigureNode, hostVars, bounds
<1>7. CASE LocalAppKeyAdded
  BY <1>3, <1>7 DEF LocalAppKeyAdded, nodeVars, hostVars, bounds
<1>8. CASE UNCHANGED vars
  BY <1>3, <1>8 DEF vars, nodeVars, hostVars, bounds
<1>9. ASSUME NEW b \in Boats, Timer(b) PROVE OrderInv'
  <2> DEFINE sq2 == [seq EXCEPT ![b] = @ + 1]
             c == <<b, joins[b]>>
             f == Frame(b, seq[b] + 1)
             ms2 == [mesh EXCEPT ![c] = Append(@, f)]
  <2>1. /\ seq' = sq2 /\ UNCHANGED <<uart, heard, inOrder, reboots>>
        /\ mesh' = mesh \/ (Publishes(b) /\ mesh' = ms2)
    BY <1>9 DEF Timer, hostVars
  <2>2. ASSUME Publishes(b) PROVE OrderAt(ms2, uart, heard, sq2, reboots)
    <3>1. c \in Sources /\ Boat(c) = b /\ f \in BoatFrames
      BY <1>9, <2>2, FrameType DEF Timer, Boat
    <3>2. f.from = c /\ f.seq = seq[b] + 1 /\ f.boot = reboots[b]
      BY DEF Frame
    <3> HIDE DEF f, c
    <3>3. QED
      BY <1>1, <3>1, <3>2, OrderWithNext
  <2>3. OrderAt(mesh, uart, heard, sq2, reboots)
    <3>1. sq2 \in [Boats -> Nat] /\ \A d \in Boats : seq[d] <= sq2[d]
      BY <1>2
    <3> HIDE DEF sq2
    <3>2. QED
      BY <1>1, <1>2, <3>1, OrderOfBoatGoesOn
  <2> HIDE DEF sq2, ms2
  <2>4. QED
    BY <1>1, <2>1, <2>2, <2>3, Zenon DEF OrderInv
<1>10. ASSUME NEW b \in Boats, Reboot(b) PROVE OrderInv'
  <2> DEFINE sq2 == [seq EXCEPT ![b] = 0]
             rb2 == [reboots EXCEPT ![b] = @ + 1]
  <2>1. seq' = sq2 /\ reboots' = rb2 /\ UNCHANGED <<mesh, uart, heard, inOrder>>
    BY <1>10 DEF Reboot, hostVars
  <2>2. /\ sq2 \in [Boats -> Nat] /\ rb2 \in [Boats -> Nat]
        /\ \A c \in Boats : \/ reboots[c] < rb2[c]
                            \/ reboots[c] = rb2[c] /\ seq[c] <= sq2[c]
    BY <1>2
  <2> HIDE DEF sq2, rb2
  <2>3. OrderAt(mesh, uart, heard, sq2, rb2)
    BY <1>1, <2>2, OrderOfBoatGoesOn
  <2>4. QED
    BY <1>1, <2>1, <2>3, Zenon DEF OrderInv
<1>11. ASSUME NEW c \in Sources, Lose(c) PROVE OrderInv'
  <2>1. PICK k \in DOMAIN mesh[c] : mesh' =
          [mesh EXCEPT ![c] = SubSeq(@, 1, k - 1) \o SubSeq(@, k + 1, Len(@))]
    BY <1>11 DEF Lose
  <2> DEFINE r == SubSeq(mesh[c], 1, k - 1) \o SubSeq(mesh[c], k + 1, Len(mesh[c]))
  <2>2. PICK f : Picked(r, mesh[c], f)
    BY <1>2, TakenOutIsPicked
  <2>3. mesh' = [mesh EXCEPT ![c] = r]
    BY <2>1
  <2> HIDE DEF r
  <2>4. OrderAt([mesh EXCEPT ![c] = r], uart, heard, seq, reboots)
    BY <1>1, <2>2, OrderOfFewer
  <2>5. UNCHANGED <<uart, heard, seq, reboots, inOrder>>
    BY <1>11 DEF Lose, nodeVars, hostVars, bounds
  <2>6. QED
    BY <1>1, <2>3, <2>4, <2>5, Zenon DEF OrderInv
<1>12. ASSUME NEW c \in Sources, ForeignMessage(c) PROVE OrderInv'
  <2>1. PICK m \in Foreign : mesh' = [mesh EXCEPT ![c] = Append(@, m)]
    BY <1>12 DEF ForeignMessage
  <2>2. UNCHANGED <<uart, heard, seq, reboots, inOrder>>
    BY <1>12 DEF ForeignMessage, nodeVars, hostVars
  <2>3. OrderAt([mesh EXCEPT ![c] = Append(@, m)], uart, heard, seq, reboots)
    BY <1>1, OrderWithForeign
  <2>4. QED
    BY <1>1, <2>1, <2>2, <2>3, Zenon DEF OrderInv
<1>13. ASSUME NEW c \in Sources, VendorRecv(c) PROVE OrderInv'
  <2> DEFINE ms2 == [mesh EXCEPT ![c] = Tail(@)]
             valid == LooksValid(Head(mesh[c]))
             w == Written(uart, console, valid, Head(mesh[c]))
  <2>1. mesh[c] # <<>> /\ mesh' = ms2 /\ uart' = w
        /\ UNCHANGED <<heard, seq, reboots, inOrder>>
    BY <1>13 DEF VendorRecv, Written, nodeVars, hostVars, bounds
  <2>2. valid <=> Head(mesh[c]) # Noise
    BY DEF LooksValid
  <2>3. OrderAt(ms2, w, heard, seq, reboots)
    <3> HIDE DEF valid
    <3>1. QED
      BY <1>1, <2>1, <2>2, OrderOfReceived
  <2> HIDE DEF ms2, w
  <2>4. QED
    BY <1>1, <2>1, <2>3, Zenon DEF OrderInv
<1>14. CASE HostReads
  <2> DEFINE m == Head(uart)
             h2 == [heard EXCEPT ![m.from] = [seq |-> m.seq, boot |-> m.boot]]
  <2>1. /\ uart # <<>> /\ IsFrame(m) /\ uart' = Tail(uart) /\ heard' = h2
        /\ inOrder' = (inOrder /\ SentLater(m, heard[m.from]))
        /\ UNCHANGED <<mesh, seq, reboots>>
    BY <1>14 DEF HostReads, nodeVars, bounds
  <2>2. SentLater(m, heard[m.from]) /\ OrderAt(mesh, Tail(uart), h2, seq, reboots)
    BY <1>1, <2>1, OrderOfHeard
  <2> HIDE DEF m, h2
  <2>3. QED
    BY <1>1, <2>1, <2>2, Zenon DEF OrderInv
<1>15. CASE HostDrops
  <2>1. PICK k \in DOMAIN uart : uart' = SubSeq(uart, k + 1, Len(uart))
    BY <1>15 DEF HostDrops
  <2>2. UNCHANGED <<mesh, heard, seq, reboots, inOrder>>
    BY <1>15 DEF HostDrops, nodeVars, hostVars, bounds
  <2>3. PICK f : Picked(SubSeq(uart, k + 1, Len(uart)), uart, f)
    BY <1>2, RestIsPicked
  <2>4. OrderAt(mesh, uart', heard, seq, reboots)
    BY <1>1, <2>1, <2>3, OrderOfRest
  <2>5. QED
    BY <1>1, <2>2, <2>4, Zenon DEF OrderInv
<1>16. CASE HostStuck
  <2>1. uart # <<>> /\ uart' = Tail(uart) /\ UNCHANGED <<mesh, heard, seq, reboots, inOrder>>
    BY <1>16 DEF HostStuck, nodeVars, bounds
  <2>2. PICK f : Picked(Tail(uart), uart, f)
    BY <1>2, <2>1, TailIsPicked
  <2>3. OrderAt(mesh, Tail(uart), heard, seq, reboots)
    BY <1>1, <2>2, OrderOfRest
  <2>4. QED
    BY <1>1, <2>1, <2>3, Zenon DEF OrderInv
<1>17. QED
  BY <1>4, <1>5, <1>6, <1>7, <1>8, <1>9, <1>10, <1>11, <1>12, <1>13, <1>14, <1>15, <1>16 DEF Next

-----------------------------------------------------------------------------
(***************************************************************************)
(* Membership: what the boat has been told and what it still has to be.    *)
(***************************************************************************)

\* The last event the stack of a boat has raised says whether it is a node of the network,
\* and so does the flag when all have been handled.
Told(b) ==
  /\ events[b] # <<>> => (events[b][Len(events[b])] = "complete" <=> stored[b])
  /\ events[b] = <<>> => (provisioned[b] => stored[b])

ToldInv == \A b \in Boats : Told(b)

LEMMA ToldInvInit == Init => ToldInv
BY DEF Init, ToldInv, Told

\* Taking the first event of a queue leaves its last.
LEMMA LastOfTail ==
  ASSUME NEW S, NEW e \in Seq(S), e # <<>>
  PROVE  /\ Tail(e) # <<>> => Tail(e)[Len(Tail(e))] = e[Len(e)]
         /\ Tail(e) = <<>> => e[Len(e)] = Head(e)
<1>1. /\ Tail(e) \in Seq(S) /\ Len(Tail(e)) = Len(e) - 1 /\ Len(e) \in Nat \ {0}
      /\ \A i \in 1..(Len(e) - 1) : Tail(e)[i] = e[i + 1]
  BY HeadTailProperties
<1>2. CASE Tail(e) # <<>>
  <2>1. Len(e) - 1 \in 1..(Len(e) - 1)
    BY <1>1, <1>2, EmptySeq
  <2>2. QED
    BY <1>1, <1>2, <2>1
<1>3. CASE Tail(e) = <<>>
  <2>1. Len(Tail(e)) = 0
    BY <1>1, <1>3, EmptySeq
  <2>2. Len(e) = 1
    <3> DEFINE t == Tail(e)
    <3>1. Len(t) = Len(e) - 1 /\ Len(e) \in Nat /\ Len(t) = 0
      BY <1>1, <2>1
    <3> HIDE DEF t
    <3>2. QED
      BY <3>1
  <2>3. QED
    BY <1>3, <2>2
<1>4. QED
  BY <1>2, <1>3

\* A queue that ends with an event.
LEMMA LastOfAppend ==
  ASSUME NEW S, NEW e \in Seq(S), NEW v \in S
  PROVE  Append(e, v) # <<>> /\ Append(e, v)[Len(Append(e, v))] = v
OBVIOUS

LEMMA ToldInvStep ==
  ASSUME TypeInv, ToldInv, [Next]_vars
  PROVE  ToldInv'
<1> DEFINE Kinds == {"complete", "reset"}
<1>1. /\ events \in [Boats -> Seq(Kinds)] /\ provisioned \in [Boats -> BOOLEAN]
      /\ stored \in [Boats -> BOOLEAN] /\ "complete" \in Kinds /\ "reset" \in Kinds
  BY DEF TypeInv, TypeOK
<1> HIDE DEF Kinds
<1>2. ASSUME UNCHANGED <<events, provisioned, stored>> PROVE ToldInv'
  BY <1>2 DEF ToldInv, Told
<1>3. ASSUME NEW b \in Boats, Told(b)',
             \A d \in Boats : d # b => events'[d] = events[d],
             \A d \in Boats : d # b => provisioned'[d] = provisioned[d],
             \A d \in Boats : d # b => stored'[d] = stored[d]
      PROVE  ToldInv'
  <2>1. ASSUME NEW d \in Boats, d # b PROVE Told(d)'
    <3>1. /\ events'[d] = events[d] /\ provisioned'[d] = provisioned[d]
          /\ stored'[d] = stored[d]
      BY <1>3, <2>1
    <3>2. Told(d)
      BY DEF ToldInv
    <3>3. QED
      BY <3>1, <3>2 DEF Told
  <2>2. QED
    BY <1>3, <2>1 DEF ToldInv
<1>4. ASSUME NEW b \in Boats, Enrolled(b) PROVE ToldInv'
  <2>1. /\ events' = [events EXCEPT ![b] = Append(@, "complete")]
        /\ stored' = [stored EXCEPT ![b] = TRUE] /\ provisioned' = provisioned
    BY <1>4 DEF Enrolled
  <2>2. events'[b] # <<>> /\ events'[b][Len(events'[b])] = "complete" /\ stored'[b]
    BY <1>1, <2>1, LastOfAppend
  <2>3. Told(b)'
    BY <2>2 DEF Told
  <2>4. QED
    BY <1>1, <1>3, <2>1, <2>3
<1>5. ASSUME NEW b \in Boats, Removed(b) PROVE ToldInv'
  <2>1. /\ events' = [events EXCEPT ![b] = Append(@, "reset")]
        /\ stored' = [stored EXCEPT ![b] = FALSE] /\ provisioned' = provisioned
    BY <1>5 DEF Removed, Erase
  <2>2. events'[b] # <<>> /\ events'[b][Len(events'[b])] = "reset" /\ ~stored'[b]
    BY <1>1, <2>1, LastOfAppend
  <2>3. Told(b)'
    BY <2>2 DEF Told
  <2>4. QED
    BY <1>1, <1>3, <2>1, <2>3
<1>6. ASSUME NEW b \in Boats, ProvComplete(b) PROVE ToldInv'
  <2>1. /\ events[b] # <<>> /\ Head(events[b]) = "complete"
        /\ events' = [events EXCEPT ![b] = Tail(@)] /\ stored' = stored
        /\ provisioned' = [provisioned EXCEPT ![b] = TRUE]
    BY <1>6 DEF ProvComplete, flash
  <2>2. events[b] \in Seq(Kinds) /\ events'[b] = Tail(events[b])
    BY <1>1, <2>1
  <2>3. /\ events'[b] # <<>> => events'[b][Len(events'[b])] = events[b][Len(events[b])]
        /\ events'[b] = <<>> => events[b][Len(events[b])] = "complete"
    BY <2>1, <2>2, LastOfTail
  <2>4. Told(b) /\ (stored'[b] <=> stored[b])
    BY <2>1 DEF ToldInv
  <2>5. Told(b)'
    BY <2>1, <2>3, <2>4 DEF Told
  <2>6. QED
    BY <1>1, <1>3, <2>1, <2>5
<1>7. ASSUME NEW b \in Boats, ProvReset(b) PROVE ToldInv'
  <2>1. /\ events[b] # <<>> /\ events[b] \in Seq(Kinds) /\ Tail(events[b]) \in Seq(Kinds)
        /\ provisioned' = [provisioned EXCEPT ![b] = FALSE] /\ ~provisioned'[b]
    BY <1>1, <1>7, HeadTailProperties DEF ProvReset
  <2>2. CASE /\ events' = [events EXCEPT ![b] = Append(Tail(@), "reset")]
             /\ stored' = [stored EXCEPT ![b] = FALSE]
    <3>1. events'[b] # <<>> /\ events'[b][Len(events'[b])] = "reset" /\ ~stored'[b]
      BY <1>1, <2>1, <2>2, LastOfAppend
    <3>2. Told(b)'
      BY <3>1 DEF Told
    <3>3. QED
      BY <1>1, <1>3, <2>1, <2>2, <3>2
  <2>3. CASE stored' = stored /\ events' = [events EXCEPT ![b] = Tail(@)]
    <3>1. events'[b] = Tail(events[b])
      BY <1>1, <2>3
    <3>2. events'[b] # <<>> => events'[b][Len(events'[b])] = events[b][Len(events[b])]
      BY <2>1, <3>1, LastOfTail
    <3>3. Told(b) /\ (stored'[b] <=> stored[b])
      BY <2>3 DEF ToldInv
    <3>4. Told(b)'
      BY <2>1, <3>2, <3>3 DEF Told
    <3>5. QED
      BY <1>1, <1>3, <2>1, <2>3, <3>4
  <2>4. QED
    BY <1>7, <2>2, <2>3 DEF ProvReset, Erase, flash
<1>8. ASSUME NEW b \in Boats, Reboot(b) PROVE ToldInv'
  <2>1. /\ events' = [events EXCEPT ![b] = <<>>]
        /\ provisioned' = [provisioned EXCEPT ![b] = FALSE]
        /\ stored' = [stored EXCEPT ![b] = FALSE] \/ stored' = stored
    BY <1>8 DEF Reboot, Erase, flash
  <2>2. events'[b] = <<>> /\ ~provisioned'[b]
    BY <1>1, <2>1
  <2>3. Told(b)'
    BY <2>2 DEF Told
  <2>4. \A d \in Boats : d # b => stored'[d] = stored[d]
    BY <1>1, <2>1
  <2>5. QED
    BY <1>1, <1>3, <2>1, <2>3, <2>4
<1>9. ASSUME NEW b \in Boats,
             AddressSet(b) \/ Timer(b) \/ \E j \in 1..MaxJoins : ConfigureNode(b, j)
      PROVE  ToldInv'
  BY <1>2, <1>9 DEF AddressSet, Timer, ConfigureNode, flash
<1>10. ASSUME NEW c \in Sources, Lose(c) \/ ForeignMessage(c) \/ VendorRecv(c) PROVE ToldInv'
  BY <1>2, <1>10 DEF Lose, ForeignMessage, VendorRecv, nodeVars, flash
<1>11. CASE LocalAppKeyAdded \/ HostReads \/ HostDrops \/ HostStuck \/ UNCHANGED vars
  BY <1>2, <1>11 DEF LocalAppKeyAdded, HostReads, HostDrops, HostStuck, vars, nodeVars, flash
<1>12. QED
  BY <1>4, <1>5, <1>6, <1>7, <1>8, <1>9, <1>10, <1>11 DEF Next

\* Only the timer makes a frame.
LEMMA MemberStep ==
  ASSUME TypeInv, ToldInv, [Next]_vars, NEW b \in Boats, seq'[b] > seq[b]
  PROVE  stored[b] \/ events[b] # <<>>
<1>1. seq \in [Boats -> Nat] /\ provisioned \in [Boats -> BOOLEAN] /\ stored \in [Boats -> BOOLEAN]
  BY TypesOfQueues DEF TypeInv, TypeOK, QueueTypes
<1>2. \/ UNCHANGED seq
      \/ \E d \in Boats : Timer(d) \/ Reboot(d)
  BY DEF Next, Enrolled, Removed, AddressSet, ProvComplete, ProvReset, ConfigureNode, Lose,
         ForeignMessage, VendorRecv, LocalAppKeyAdded, HostReads, HostDrops, HostStuck, vars,
         nodeVars
<1>3. CASE UNCHANGED seq
  BY <1>1, <1>3
<1>4. ASSUME NEW d \in Boats, Reboot(d) PROVE FALSE
  BY <1>1, <1>4 DEF Reboot
<1>5. ASSUME NEW d \in Boats, Timer(d) PROVE stored[b] \/ events[b] # <<>>
  <2>1. d = b /\ provisioned[d]
    BY <1>1, <1>5 DEF Timer
  <2>2. QED
    BY <2>1 DEF ToldInv, Told
<1>6. QED
  BY <1>2, <1>3, <1>4, <1>5

-----------------------------------------------------------------------------
(***************************************************************************)
(* The theorems.                                                           *)
(***************************************************************************)

LEMMA TypeInvariantOfLink == Spec => []TypeInv
<1>1. TypeInv /\ [Next]_vars => TypeInv'
  BY TypeInvStep
<1>2. QED
  BY TypeInvInit, <1>1, PTL DEF Spec

\* The numbers, flags, events and messages are what their names say; what the gateway writes
\* to its UART is a line of its log or begins with the magic of a frame.
THEOREM TypeInvariant == Spec => []TypeOK
<1>1. TypeInv => TypeOK
  BY DEF TypeInv
<1>2. QED
  BY TypeInvariantOfLink, <1>1, PTL

\* Losses, bad messages, log lines, reboots and new enrolments notwithstanding, the hub hears
\* the frames that a boat made in one enrolment in the order in which they were made and none
\* twice.
THEOREM SnapshotOrder == Spec => []SnapshotMovesForward
<1>1. TypeInv /\ OrderInv /\ [Next]_vars => OrderInv'
  BY OrderInvStep
<1>2. OrderInv => SnapshotMovesForward
  BY DEF OrderInv, SnapshotMovesForward
<1>3. QED
  BY OrderInvInit, TypeInvariantOfLink, <1>1, <1>2, PTL DEF Spec

\* A boat that has handled every event of its stack makes frames only as a node of the
\* network, however enrolments, removals, local resets, reboots and the timer interleave.
THEOREM MembersPublish == Spec => PublishesAsMember
<1>1. TypeInv /\ ToldInv /\ [Next]_vars => ToldInv'
  BY ToldInvStep
<1>2. TypeInv /\ ToldInv /\ [Next]_vars =>
        [\A b \in Boats : seq'[b] > seq[b] => stored[b] \/ events[b] # <<>>]_vars
  BY MemberStep
<1>3. QED
  BY ToldInvInit, TypeInvariantOfLink, <1>1, <1>2, PTL DEF Spec, PublishesAsMember
=============================================================================
