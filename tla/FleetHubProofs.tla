--------------------------- MODULE FleetHubProofs ---------------------------
(***************************************************************************)
(* Theorems about FleetHub, for every set of boats and listeners and every *)
(* bound.                                                                  *)
(***************************************************************************)
EXTENDS FleetHub, SequenceTheorems, TLAPS

-----------------------------------------------------------------------------
(***************************************************************************)
(* Types.                                                                  *)
(***************************************************************************)

\* A call of dispatch() that fits the log and the entries of the Set.
ActivationOK(a, lg, n) ==
  /\ a \in Activations
  /\ a.frame.id \in DOMAIN lg
  /\ a.frame.boatId = lg[a.frame.id].boatId
  /\ a.next \in 1..(n + 1)

\* It goes on fitting them when the entries or the log grow.
LEMMA FitsMoreEntries ==
  ASSUME NEW a, NEW lg, NEW n \in Nat, NEW m \in Nat, n <= m, ActivationOK(a, lg, n)
  PROVE  ActivationOK(a, lg, m)
BY DEF ActivationOK

LEMMA FitsLongerLog ==
  ASSUME NEW lg \in Seq([boatId : Boats, at : Nat]), NEW n \in Nat,
         NEW a, ActivationOK(a, lg, n), NEW e \in [boatId : Boats, at : Nat]
  PROVE  ActivationOK(a, Append(lg, e), n)
<1>1. a.frame.id \in 1..Len(lg)
  BY DEF ActivationOK
<1>2. a.frame.id \in DOMAIN Append(lg, e) /\ Append(lg, e)[a.frame.id] = lg[a.frame.id]
  BY <1>1
<1>3. QED
  BY <1>2 DEF ActivationOK

\* The stack conjuncts of TypeOK in one.
LEMMA TypeOKStack ==
  TypeOK => \A d \in DOMAIN stack : ActivationOK(stack[d], log, Len(listeners))
<1> SUFFICES ASSUME TypeOK, NEW d \in DOMAIN stack
             PROVE  ActivationOK(stack[d], log, Len(listeners))
  OBVIOUS
<1>1. stack[d] \in Activations
  BY DEF TypeOK
<1>2. QED
  BY <1>1 DEF TypeOK, ActivationOK

\* Put and Delete make maps on boats.
LEMMA MapType ==
  ASSUME NEW S, NEW map, DOMAIN map \subseteq Boats, map \in [DOMAIN map -> S],
         NEW b \in Boats, NEW v \in S
  PROVE  /\ DOMAIN Put(map, b, v) \subseteq Boats
         /\ Put(map, b, v) \in [DOMAIN Put(map, b, v) -> S]
         /\ DOMAIN Delete(map, b) \subseteq Boats
         /\ Delete(map, b) \in [DOMAIN Delete(map, b) -> S]
BY DEF Put, Delete

\* Initially the maps, the stack and the history are empty.
LEMMA TypeInit == Init => TypeOK
BY DEF Init, TypeOK, EmptyMap

\* A step that only changes the calls in progress, each by one that fits.
LEMMA StackStepType ==
  ASSUME TypeOK, NEW s, s \in Seq(Activations), stack' = s,
         \A d \in DOMAIN s : ActivationOK(s[d], log, Len(listeners)),
         UNCHANGED <<listeners, lastByBoat, lastSeenMs, now, log, cleared, ops>>
  PROVE  TypeOK'
BY DEF TypeOK, ActivationOK

LEMMA ReplaceTopType ==
  ASSUME TypeOK, stack # <<>>, NEW a, ReplaceTop(a), ActivationOK(a, log, Len(listeners))
  PROVE  TypeOK'
<1>1. stack \in Seq(Activations) /\ Depth \in DOMAIN stack
  BY DEF TypeOK, Depth
<1>2. [stack EXCEPT ![Depth] = a] \in Seq(Activations)
  BY <1>1 DEF ActivationOK
<1>3. \A d \in DOMAIN stack : [stack EXCEPT ![Depth] = a][d] = IF d = Depth THEN a ELSE stack[d]
  BY <1>1
<1>4. \A d \in DOMAIN [stack EXCEPT ![Depth] = a] :
        ActivationOK([stack EXCEPT ![Depth] = a][d], log, Len(listeners))
  BY <1>3, TypeOKStack
<1>5. QED
  BY <1>2, <1>4, StackStepType DEF ReplaceTop

LEMMA PopTopType ==
  ASSUME TypeOK, stack # <<>>, PopTop
  PROVE  TypeOK'
<1>1. stack \in Seq(Activations) /\ Depth - 1 \in 0..Len(stack)
  BY DEF TypeOK, Depth
<1> DEFINE s == SubSeq(stack, 1, Depth - 1)
<1>2. s \in Seq(Activations) /\ DOMAIN s \subseteq DOMAIN stack
      /\ \A d \in DOMAIN s : s[d] = stack[d]
  BY <1>1
<1>3. \A d \in DOMAIN s : ActivationOK(s[d], log, Len(listeners))
  BY <1>2, TypeOKStack
<1>4. QED
  BY <1>2, <1>3, StackStepType DEF PopTop

\* The loop's call of listener l, recorded in a.
Visited(a, l) ==
  [a EXCEPT !.next = @ + 1, !.running = TRUE, !.called = Append(@, l)]

LEMMA VisitedFields ==
  ASSUME NEW a \in Activations, NEW l \in Listeners
  PROVE  /\ Visited(a, l) \in Activations
         /\ Visited(a, l).frame = a.frame /\ Visited(a, l).next = a.next + 1
         /\ Visited(a, l).called = Append(a.called, l)
         /\ Visited(a, l).kept = a.kept
<1> DEFINE c == Append(a.called, l)
           n == a.next + 1
<1>1. a.called \in Seq(Listeners) /\ a.next \in Nat
  BY DEF Activations
<1>2. c \in Seq(Listeners) /\ n \in Nat
  BY <1>1
<1>3. Visited(a, l) = [a EXCEPT !.next = n, !.running = TRUE, !.called = c]
  BY DEF Visited, Activations
<1> HIDE DEF c, n
<1>4. /\ Visited(a, l) \in Activations
      /\ Visited(a, l).frame = a.frame /\ Visited(a, l).next = n
      /\ Visited(a, l).called = c /\ Visited(a, l).kept = a.kept
  BY <1>2, <1>3 DEF Activations
<1>5. QED
  BY <1>4 DEF c, n

\* Every step keeps the types: a case for each action.
LEMMA TypeStep == ASSUME TypeOK, [Next]_vars PROVE TypeOK'
<1> USE HubAssumption
<1>1. ASSUME NEW b \in Boats, Dispatch(b) PROVE TypeOK'
  <2> DEFINE id == Len(log) + 1
             e == [boatId |-> b, at |-> now]
             a == Activation(b, id)
  <2>1. /\ log \in Seq([boatId : Boats, at : Nat]) /\ e \in [boatId : Boats, at : Nat]
        /\ stack \in Seq(Activations) /\ now \in Nat /\ id \in Nat
        /\ listeners \in Seq(Listeners \cup {NoListener}) /\ Len(listeners) \in Nat
    BY DEF TypeOK
  <2>2. Append(log, e) \in Seq([boatId : Boats, at : Nat]) /\ Append(log, e)[id] = e
        /\ Len(Append(log, e)) = id /\ id \in DOMAIN Append(log, e)
    BY <2>1
  <2>3. Subscribed \in SUBSET Listeners
    BY <2>1 DEF Subscribed
  <2>4. a \in Activations /\ a.frame = Frame(b, id) /\ a.next = 1
    <3>1. Frame(b, id) \in Frames /\ <<>> \in Seq(Listeners)
      BY <2>1 DEF Frame, Frames
    <3>2. QED
      BY <2>3, <3>1 DEF Activation, Activations
  <2>5. ActivationOK(a, Append(log, e), Len(listeners))
    BY <2>1, <2>2, <2>4 DEF ActivationOK, Frame
  <2> HIDE DEF a, e, id
  <2>6. \A d \in DOMAIN stack : ActivationOK(stack[d], Append(log, e), Len(listeners))
    BY <2>1, TypeOKStack, FitsLongerLog
  <2>7. Append(stack, a) \in Seq(Activations)
        /\ \A d \in DOMAIN Append(stack, a) :
             ActivationOK(Append(stack, a)[d], Append(log, e), Len(listeners))
    BY <2>1, <2>4, <2>5, <2>6
  <2>8. /\ stack' = Append(stack, a) /\ log' = Append(log, e)
        /\ lastByBoat' = Put(lastByBoat, b, Frame(b, id))
        /\ lastSeenMs' = Put(lastSeenMs, b, now)
        /\ UNCHANGED <<listeners, now, cleared, ops>>
    BY <1>1 DEF Dispatch, a, e, id
  <2>9. Frame(b, id) \in Frames
    BY <2>1 DEF Frame, Frames
  <2>10. /\ DOMAIN lastByBoat' \subseteq Boats
         /\ lastByBoat' \in [DOMAIN lastByBoat' -> Frames]
    <3>1. DOMAIN lastByBoat \subseteq Boats /\ lastByBoat \in [DOMAIN lastByBoat -> Frames]
      BY DEF TypeOK
    <3>2. QED
      BY <2>8, <2>9, <3>1, MapType, Zenon
  <2>11. /\ DOMAIN lastSeenMs' \subseteq Boats
         /\ lastSeenMs' \in [DOMAIN lastSeenMs' -> Nat]
    <3>1. DOMAIN lastSeenMs \subseteq Boats /\ lastSeenMs \in [DOMAIN lastSeenMs -> Nat]
      BY DEF TypeOK
    <3>2. QED
      BY <2>1, <2>8, <3>1, MapType, Zenon
  <2>12. \A c \in Boats : cleared[c] <= Len(Append(log, e))
    BY <2>1, <2>2 DEF TypeOK, id
  <2>13. QED
    BY <2>2, <2>7, <2>8, <2>10, <2>11, <2>12 DEF TypeOK, ActivationOK
<1>2. ASSUME LoopRuns \/ ListenerRuns
      PROVE  /\ stack # <<>> /\ ActivationOK(Top, log, Len(listeners))
             /\ Len(listeners) \in Nat
  <2>1. stack # <<>> /\ stack \in Seq(Activations) /\ Len(listeners) \in Nat
    BY <1>2 DEF LoopRuns, ListenerRuns, TypeOK
  <2>2. Depth \in DOMAIN stack
    BY <2>1 DEF Depth
  <2>3. QED
    BY <2>1, <2>2, TypeOKStack DEF Top
<1>3. CASE VisitDeleted
  <2>1. ActivationOK([Top EXCEPT !.next = @ + 1], log, Len(listeners))
    BY <1>2, <1>3 DEF VisitDeleted, ActivationOK, Activations
  <2>2. QED
    BY <1>2, <1>3, <2>1, ReplaceTopType DEF VisitDeleted
<1>4. CASE VisitListener
  <2> DEFINE l == listeners[Top.next]
  <2>1. l \in Listeners
    <3>1. Top.next \in 1..(Len(listeners) + 1)
      BY <1>2, <1>4 DEF VisitListener, ActivationOK
    <3>2. Top.next <= Len(listeners) /\ l # NoListener
      BY <1>4 DEF VisitListener
    <3>3. Top.next \in DOMAIN listeners /\ listeners \in Seq(Listeners \cup {NoListener})
      BY <3>1, <3>2 DEF TypeOK
    <3>4. QED
      BY ONLY <3>2, <3>3
  <2>2. ActivationOK(Visited(Top, l), log, Len(listeners))
    <3>1. Top \in Activations /\ Top.next + 1 \in 1..(Len(listeners) + 1)
      BY <1>2, <1>4 DEF VisitListener, ActivationOK, Activations
    <3> HIDE DEF l
    <3>2. QED
      BY <1>2, <1>4, <2>1, <3>1, VisitedFields DEF VisitListener, ActivationOK
  <2>3. ReplaceTop(Visited(Top, l))
    BY <1>4 DEF VisitListener, Visited
  <2>4. QED
    BY <1>2, <1>4, <2>2, <2>3, ReplaceTopType DEF VisitListener
<1>5. CASE ListenerReturns
  <2>1. ActivationOK([Top EXCEPT !.running = FALSE], log, Len(listeners))
    BY <1>2, <1>5 DEF ListenerReturns, ActivationOK, Activations
  <2>2. QED
    BY <1>2, <1>5, <2>1, ReplaceTopType DEF ListenerReturns
<1>6. CASE ListenerThrows \/ LoopEnds
  BY <1>2, <1>6, PopTopType DEF ListenerThrows, LoopEnds
<1>7. ASSUME NEW l \in Listeners, Subscribe(l) PROVE TypeOK'
  <2> DEFINE s == IF l \in Subscribed THEN listeners ELSE Append(listeners, l)
  <2>1. listeners \in Seq(Listeners \cup {NoListener})
    BY DEF TypeOK
  <2>2. s \in Seq(Listeners \cup {NoListener}) /\ Len(listeners) <= Len(s)
    BY <2>1
  <2> HIDE DEF s
  <2>3. \A d \in DOMAIN stack : ActivationOK(stack[d], log, Len(s))
    <3>1. Len(listeners) \in Nat /\ Len(s) \in Nat
      BY <2>1, <2>2
    <3>2. QED
      BY <2>2, <3>1, TypeOKStack, FitsMoreEntries
  <2>4. /\ listeners' = s
        /\ UNCHANGED <<lastByBoat, lastSeenMs, stack, now, log, cleared>> /\ ops' = ops + 1
    BY <1>7 DEF Subscribe, Call, s
  <2>5. QED
    BY <2>2, <2>3, <2>4 DEF TypeOK, ActivationOK
<1>8. ASSUME NEW l \in Listeners, Unsubscribe(l) PROVE TypeOK'
  <2> DEFINE s == [i \in DOMAIN listeners |->
                     IF listeners[i] = l THEN NoListener ELSE listeners[i]]
             k == [i \in DOMAIN stack |-> [stack[i] EXCEPT !.kept = @ \ {l}]]
  <2>1. listeners \in Seq(Listeners \cup {NoListener}) /\ stack \in Seq(Activations)
    BY DEF TypeOK
  <2>2. s \in Seq(Listeners \cup {NoListener}) /\ Len(s) = Len(listeners)
    BY <2>1
  <2>3. \A d \in DOMAIN stack : ActivationOK(k[d], log, Len(listeners))
    BY TypeOKStack DEF ActivationOK, Activations
  <2>4. k \in Seq(Activations) /\ DOMAIN k = DOMAIN stack /\ Len(k) = Len(stack)
    <3>1. \A d \in DOMAIN stack : k[d] \in Activations
      BY <2>3, Zenon DEF ActivationOK
    <3>2. DOMAIN stack = 1..Len(stack) /\ Len(stack) \in Nat
      BY <2>1
    <3>3. k = [d \in 1..Len(stack) |-> k[d]]
      BY ONLY <3>2
    <3> HIDE DEF k
    <3>4. QED
      BY ONLY <3>1, <3>2, <3>3
  <2> HIDE DEF s, k
  <2>5. /\ listeners' = s /\ stack' = k
        /\ UNCHANGED <<lastByBoat, lastSeenMs, now, log, cleared>> /\ ops' = ops + 1
    BY <1>8 DEF Unsubscribe, Call, s, k
  <2>6. QED
    BY <2>2, <2>3, <2>4, <2>5 DEF TypeOK, ActivationOK
<1>9. ASSUME NEW b \in Boats, ClearBoat(b) PROVE TypeOK'
  BY <1>9, MapType DEF ClearBoat, Call, TypeOK, Delete
<1>10. CASE ResetAll
  BY <1>10 DEF ResetAll, Call, TypeOK, EmptyMap
<1>11. CASE Tick
  BY <1>11 DEF Tick, TypeOK
<1>12. CASE UNCHANGED vars
  BY <1>12 DEF vars, TypeOK
<1>13. QED
  BY <1>1, <1>3, <1>4, <1>5, <1>6, <1>7, <1>8, <1>9, <1>10, <1>11, <1>12
  DEF Next, DispatchStep

\* Every state of every execution satisfies the types: among them that a dispatch
\* in progress has a frame of the log and a position in the Set.
THEOREM TypeInvariant == Spec => []TypeOK
<1>1. QED
  BY TypeInit, TypeStep, PTL DEF Spec

-----------------------------------------------------------------------------
(***************************************************************************)
(* The snapshot.                                                           *)
(***************************************************************************)

\* The positions of log lg behind n whose frame is of boat b: Heard, without
\* the variables.
HeardIn(lg, n, b) == {i \in (n + 1)..Len(lg) : lg[i].boatId = b}

LEMMA HeardGrows ==
  ASSUME NEW lg \in Seq([boatId : Boats, at : Nat]), NEW n \in 0..Len(lg),
         NEW b, NEW e \in [boatId : Boats, at : Nat]
  PROVE  HeardIn(Append(lg, e), n, b) =
           IF e.boatId = b THEN HeardIn(lg, n, b) \cup {Len(lg) + 1} ELSE HeardIn(lg, n, b)
<1> DEFINE lh == Append(lg, e)
<1>1. /\ Len(lg) \in Nat /\ Len(lh) = Len(lg) + 1
      /\ \A i \in 1..Len(lg) : lh[i] = lg[i]
      /\ lh[Len(lg) + 1] = e
  OBVIOUS
<1> HIDE DEF lh
<1>2. \A i : i \in (n + 1)..Len(lh) <=> i \in (n + 1)..Len(lg) \/ i = Len(lg) + 1
  BY <1>1
<1>3. \A i \in (n + 1)..Len(lg) : lh[i] = lg[i] /\ i # Len(lg) + 1
  BY <1>1
<1>4. HeardIn(lh, n, b) =
        IF e.boatId = b THEN HeardIn(lg, n, b) \cup {Len(lg) + 1} ELSE HeardIn(lg, n, b)
  BY <1>1, <1>2, <1>3 DEF HeardIn
<1>5. QED
  BY <1>4 DEF lh

LEMMA NothingHeard ==
  ASSUME NEW lg \in Seq([boatId : Boats, at : Nat]), NEW b
  PROVE  HeardIn(lg, Len(lg), b) = {}
BY DEF HeardIn

\* What SnapshotIsLatest says of one boat, without the variables: p and t are
\* the maps, lg the log, n how much of it the last clearing covers.
BoatInSnapshot(p, t, lg, n, b) ==
  /\ b \in DOMAIN p <=> HeardIn(lg, n, b) # {}
  /\ b \in DOMAIN t <=> b \in DOMAIN p
  /\ b \in DOMAIN p =>
       /\ p[b] = Frame(b, p[b].id)
       /\ p[b].id \in HeardIn(lg, n, b)
       /\ \A i \in HeardIn(lg, n, b) : i <= p[b].id
       /\ t[b] = lg[p[b].id].at

EveryBoatInSnapshot ==
  \A b \in Boats : BoatInSnapshot(lastByBoat, lastSeenMs, log, cleared[b], b)

LEMMA SnapshotByBoat == TypeOK => (SnapshotIsLatest <=> EveryBoatInSnapshot)
<1> SUFFICES ASSUME TypeOK PROVE SnapshotIsLatest <=> EveryBoatInSnapshot
  OBVIOUS
<1>1. DOMAIN lastByBoat \subseteq Boats /\ DOMAIN lastSeenMs \subseteq Boats
  BY DEF TypeOK
<1>2. \A b : Heard(b) = HeardIn(log, cleared[b], b)
  BY DEF Heard, HeardIn
<1> DEFINE Latest(b) ==
             /\ lastByBoat[b] = Frame(b, lastByBoat[b].id)
             /\ lastByBoat[b].id \in Heard(b)
             /\ \A i \in Heard(b) : i <= lastByBoat[b].id
             /\ lastSeenMs[b] = log[lastByBoat[b].id].at
<1>3. SnapshotIsLatest <=>
        /\ DOMAIN lastByBoat = {b \in Boats : Heard(b) # {}}
        /\ DOMAIN lastSeenMs = DOMAIN lastByBoat
        /\ \A b \in DOMAIN lastByBoat : Latest(b)
  BY DEF SnapshotIsLatest
<1>4. \A b \in Boats :
        BoatInSnapshot(lastByBoat, lastSeenMs, log, cleared[b], b) <=>
          /\ b \in DOMAIN lastByBoat <=> Heard(b) # {}
          /\ b \in DOMAIN lastSeenMs <=> b \in DOMAIN lastByBoat
          /\ b \in DOMAIN lastByBoat => Latest(b)
  BY <1>2 DEF BoatInSnapshot
<1> HIDE DEF Latest
<1>5. QED
  BY <1>1, <1>3, <1>4 DEF EveryBoatInSnapshot

\* One boat, when the frame of a dispatch is put into the maps.
LEMMA DispatchOneBoat ==
  ASSUME NEW p, NEW t, NEW lg \in Seq([boatId : Boats, at : Nat]),
         NEW b, NEW n \in 0..Len(lg), BoatInSnapshot(p, t, lg, n, b),
         NEW c \in Boats, NEW at \in Nat
  PROVE  BoatInSnapshot(Put(p, c, Frame(c, Len(lg) + 1)), Put(t, c, at),
                        Append(lg, [boatId |-> c, at |-> at]), n, b)
<1> DEFINE id == Len(lg) + 1
           e == [boatId |-> c, at |-> at]
           lh == Append(lg, e)
           q == Put(p, c, Frame(c, id))
           u == Put(t, c, at)
<1>1. /\ Len(lg) \in Nat /\ id \in Nat /\ e \in [boatId : Boats, at : Nat] /\ e.boatId = c
      /\ \A i \in HeardIn(lg, n, b) : i \in 1..Len(lg) /\ lh[i] = lg[i]
      /\ lh[id] = e /\ e.at = at
  BY DEF HeardIn
<1>2. HeardIn(lh, n, b) =
        IF c = b THEN HeardIn(lg, n, b) \cup {id} ELSE HeardIn(lg, n, b)
  <2>1. \A f \in [boatId : Boats, at : Nat] :
          HeardIn(Append(lg, f), n, b) =
            IF f.boatId = b THEN HeardIn(lg, n, b) \cup {Len(lg) + 1} ELSE HeardIn(lg, n, b)
    BY HeardGrows
  <2> HIDE DEF e
  <2>2. QED
    BY <1>1, <2>1
<1>3. CASE c = b
  <2>1. b \in DOMAIN q /\ b \in DOMAIN u /\ q[b] = Frame(b, id) /\ u[b] = at
    BY <1>3 DEF Put
  <2>2. q[b].id = id
    BY <2>1 DEF Frame
  <2> HIDE DEF q, u, lh, e
  <2>3. id \in HeardIn(lh, n, b) /\ \A i \in HeardIn(lh, n, b) : i <= id
    <3>1. \A i \in HeardIn(lg, n, b) : i <= id
      BY <1>1
    <3> HIDE DEF id
    <3>2. QED
      BY <1>1, <1>2, <1>3, <3>1
  <2> HIDE DEF id
  <2>4. BoatInSnapshot(q, u, lh, n, b)
    BY <1>1, <2>1, <2>2, <2>3 DEF BoatInSnapshot
  <2>5. QED
    BY <2>4 DEF q, u, lh, e, id
<1>4. CASE c # b
  <2>1. /\ b \in DOMAIN q <=> b \in DOMAIN p
        /\ b \in DOMAIN u <=> b \in DOMAIN t
        /\ b \in DOMAIN p => q[b] = p[b]
        /\ b \in DOMAIN t => u[b] = t[b]
    BY <1>4 DEF Put
  <2> HIDE DEF q, u, lh, e, id
  <2>2. BoatInSnapshot(q, u, lh, n, b)
    BY <1>1, <1>2, <1>4, <2>1 DEF BoatInSnapshot
  <2>3. QED
    BY <2>2 DEF q, u, lh, e, id
<1>5. QED
  BY <1>3, <1>4

LEMMA SnapshotInit == Init => SnapshotIsLatest
<1> SUFFICES ASSUME Init PROVE SnapshotIsLatest
  OBVIOUS
<1>1. TypeOK
  BY TypeInit
<1>2. DOMAIN lastByBoat = {} /\ DOMAIN lastSeenMs = {}
  BY DEF Init, EmptyMap
<1>3. \A b \in Boats : HeardIn(log, cleared[b], b) = {}
  <2>1. log = <<>> /\ \A b \in Boats : cleared[b] = 0
    BY DEF Init
  <2>2. Len(log) = 0 /\ log \in Seq([boatId : Boats, at : Nat])
    BY <2>1
  <2>3. QED
    BY <2>1, <2>2, NothingHeard
<1>4. QED
  BY <1>1, <1>2, <1>3, SnapshotByBoat DEF EveryBoatInSnapshot, BoatInSnapshot

LEMMA SnapshotStep ==
  ASSUME TypeOK, TypeOK', SnapshotIsLatest, [Next]_vars
  PROVE  SnapshotIsLatest'
<1>1. \A b \in Boats : BoatInSnapshot(lastByBoat, lastSeenMs, log, cleared[b], b)
  BY SnapshotByBoat DEF EveryBoatInSnapshot
<1>2. SUFFICES ASSUME NEW b \in Boats
               PROVE  BoatInSnapshot(lastByBoat', lastSeenMs', log', cleared'[b], b)
  <2>1. TypeOK' => (SnapshotIsLatest' <=> EveryBoatInSnapshot')
    BY SnapshotByBoat, PTL
  <2>2. QED
    BY <2>1 DEF EveryBoatInSnapshot
<1>3. /\ log \in Seq([boatId : Boats, at : Nat]) /\ cleared \in [Boats -> Nat]
      /\ now \in Nat /\ cleared[b] \in 0..Len(log)
  BY DEF TypeOK
<1>4. ASSUME NEW c \in Boats, Dispatch(c)
      PROVE  BoatInSnapshot(lastByBoat', lastSeenMs', log', cleared'[b], b)
  BY <1>1, <1>3, <1>4, DispatchOneBoat, Zenon DEF Dispatch
<1>5. ASSUME NEW c \in Boats, ClearBoat(c)
      PROVE  BoatInSnapshot(lastByBoat', lastSeenMs', log', cleared'[b], b)
  <2>1. CASE c = b
    BY <1>3, <1>5, <2>1, NothingHeard DEF ClearBoat, Delete, BoatInSnapshot
  <2>2. CASE c # b
    <3>1. /\ lastByBoat' = Delete(lastByBoat, c) /\ lastSeenMs' = Delete(lastSeenMs, c)
          /\ log' = log /\ cleared'[b] = cleared[b]
      BY <1>3, <1>5, <2>2 DEF ClearBoat
    <3>2. QED
      BY <1>1, <2>2, <3>1 DEF Delete, BoatInSnapshot
  <2>3. QED
    BY <2>1, <2>2
<1>6. CASE ResetAll
  <2>1. cleared'[b] = Len(log) /\ log' = log
        /\ lastByBoat' = EmptyMap /\ lastSeenMs' = EmptyMap
    BY <1>6 DEF ResetAll
  <2>2. QED
    BY <1>3, <2>1, NothingHeard DEF BoatInSnapshot, EmptyMap
<1>7. CASE UNCHANGED <<lastByBoat, lastSeenMs, log, cleared>>
  BY <1>1, <1>7
<1>8. QED
  BY <1>4, <1>5, <1>6, <1>7
  DEF Next, DispatchStep, VisitDeleted, VisitListener, ListenerReturns, ListenerThrows,
      LoopEnds, ReplaceTop, PopTop, Subscribe, Unsubscribe, Tick, vars

\* Whatever listeners do during dispatches, the snapshot of each boat is its last
\* frame since it was cleared.
THEOREM SnapshotInvariant == Spec => []SnapshotIsLatest
<1>1. Init => TypeOK /\ SnapshotIsLatest
  BY TypeInit, SnapshotInit
<1>2. TypeOK /\ SnapshotIsLatest /\ [Next]_vars => TypeOK' /\ SnapshotIsLatest'
  BY TypeStep, SnapshotStep
<1>3. QED
  BY <1>1, <1>2, PTL DEF Spec

\* The types and the snapshot say enough to see the frame of a dispatch in it.
LEMMA SnapshotHasEvent == TypeOK /\ SnapshotIsLatest => EventInSnapshot
<1> SUFFICES ASSUME TypeOK, SnapshotIsLatest, NEW d \in DOMAIN stack,
                    cleared[stack[d].frame.boatId] < stack[d].frame.id
             PROVE  /\ stack[d].frame.boatId \in DOMAIN lastByBoat
                    /\ lastByBoat[stack[d].frame.boatId].id >= stack[d].frame.id
  <2>1. ASSUME TypeOK, NEW d \in DOMAIN stack
        PROVE  \/ cleared[stack[d].frame.boatId] < stack[d].frame.id
               \/ cleared[stack[d].frame.boatId] >= stack[d].frame.id
    <3>1. stack[d].frame.id \in Nat /\ cleared[stack[d].frame.boatId] \in Nat
      <4>1. stack[d].frame.id \in Nat /\ stack[d].frame.boatId \in Boats
        BY <2>1, TypeOKStack DEF ActivationOK, Activations, Frames
      <4>2. QED
        BY <2>1, <4>1 DEF TypeOK
    <3>2. QED
      BY <3>1
  <2>2. QED
    BY <2>1 DEF EventInSnapshot
<1> DEFINE f == stack[d].frame
<1>1. f.id \in 1..Len(log) /\ f.boatId \in Boats /\ f.boatId = log[f.id].boatId
  <2>1. /\ log \in Seq([boatId : Boats, at : Nat])
        /\ ActivationOK(stack[d], log, Len(listeners))
    BY TypeOKStack DEF TypeOK
  <2>2. f.boatId \in Boats
    BY <2>1 DEF ActivationOK, Activations, Frames
  <2>3. QED
    BY <2>1, <2>2 DEF ActivationOK
<1>2. cleared[f.boatId] \in Nat /\ Len(log) \in Nat
  <2>1. cleared \in [Boats -> Nat] /\ log \in Seq([boatId : Boats, at : Nat])
    BY DEF TypeOK
  <2> HIDE DEF f
  <2>2. QED
    BY ONLY <1>1, <2>1
<1>3. f.id \in Heard(f.boatId)
  BY <1>1, <1>2 DEF Heard
<1>4. QED
  <2>1. f.boatId \in DOMAIN lastByBoat
    BY <1>1, <1>3 DEF SnapshotIsLatest
  <2>2. f.id <= lastByBoat[f.boatId].id /\ lastByBoat[f.boatId].id \in Nat
    BY <1>3, <2>1 DEF SnapshotIsLatest, TypeOK, Frames
  <2>3. QED
    BY <1>1, <2>1, <2>2

\* A listener sees its own frame, or a later one, when it asks for the snapshot.
THEOREM EventInvariant == Spec => []EventInSnapshot
<1>1. QED
  BY TypeInvariant, SnapshotInvariant, SnapshotHasEvent, PTL

-----------------------------------------------------------------------------
(***************************************************************************)
(* Nobody is passed over.                                                  *)
(***************************************************************************)

\* What NobodySkipped says of one call of dispatch() and the entries s.
SkipsNobody(a, s) ==
  \A l \in a.kept :
    \/ \E i \in DOMAIN a.called : a.called[i] = l
    \/ \E i \in a.next..Len(s) : s[i] = l

LEMMA NobodySkippedStack ==
  NobodySkipped <=> \A d \in DOMAIN stack : SkipsNobody(stack[d], listeners)
BY DEF NobodySkipped, SkipsNobody

\* A dispatch that begins has all the subscribed listeners ahead.
LEMMA BeginsBeforeAll ==
  ASSUME NEW b \in Boats, NEW id, TypeOK
  PROVE  SkipsNobody(Activation(b, id), listeners)
<1>1. DOMAIN listeners = 1..Len(listeners)
  BY DEF TypeOK
<1>2. QED
  BY <1>1 DEF Activation, SkipsNobody, Subscribed

LEMMA MoreEntriesSkipNobody ==
  ASSUME NEW s \in Seq(Listeners \cup {NoListener}), NEW l \in Listeners,
         NEW a \in Activations, SkipsNobody(a, s), a.next \in 1..(Len(s) + 1)
  PROVE  SkipsNobody(a, Append(s, l))
<1> DEFINE t == Append(s, l)
<1>1. Len(s) \in Nat /\ Len(t) = Len(s) + 1 /\ \A i \in 1..Len(s) : t[i] = s[i]
  OBVIOUS
<1> HIDE DEF t
<1>2. \A i \in a.next..Len(s) : i \in a.next..Len(t) /\ t[i] = s[i]
  BY <1>1
<1>3. SkipsNobody(a, t)
  BY <1>2 DEF SkipsNobody
<1>4. QED
  BY <1>3 DEF t

\* Emptying the entry of one listener moves no other.
LEMMA EmptiedEntrySkipsNobody ==
  ASSUME NEW s \in Seq(Listeners \cup {NoListener}), NEW l \in Listeners,
         NEW a \in Activations, SkipsNobody(a, s), a.next \in 1..(Len(s) + 1)
  PROVE  SkipsNobody([a EXCEPT !.kept = @ \ {l}],
                     [i \in DOMAIN s |-> IF s[i] = l THEN NoListener ELSE s[i]])
<1> DEFINE t == [i \in DOMAIN s |-> IF s[i] = l THEN NoListener ELSE s[i]]
           k == [a EXCEPT !.kept = @ \ {l}]
<1>1. Len(s) \in Nat /\ Len(t) = Len(s) /\ DOMAIN s = 1..Len(s)
      /\ \A i \in 1..Len(s) : s[i] # l => t[i] = s[i]
  OBVIOUS
<1>2. k.kept = a.kept \ {l} /\ k.called = a.called /\ k.next = a.next
  BY DEF Activations
<1> HIDE DEF t, k
<1>3. \A i \in a.next..Len(s) : i \in 1..Len(s)
  BY <1>1
<1>4. SkipsNobody(k, t)
  BY <1>1, <1>2, <1>3 DEF SkipsNobody
<1>5. QED
  BY <1>4 DEF t, k

\* The loop steps over an empty entry, or calls the listener of the entry.
LEMMA EmptyEntryPassed ==
  ASSUME HubAssumption, NEW s \in Seq(Listeners \cup {NoListener}),
         NEW a \in Activations, SkipsNobody(a, s), a.next \in 1..Len(s),
         s[a.next] = NoListener
  PROVE  SkipsNobody([a EXCEPT !.next = @ + 1], s)
<1> DEFINE k == [a EXCEPT !.next = @ + 1]
<1>1. k.kept = a.kept /\ k.called = a.called /\ k.next = a.next + 1
      /\ a.kept \subseteq Listeners
  BY DEF Activations
<1> HIDE DEF k
<1>2. \A i \in a.next..Len(s) : s[i] \in Listeners => i \in (a.next + 1)..Len(s)
  BY DEF HubAssumption
<1>3. SkipsNobody(k, s)
  BY <1>1, <1>2 DEF SkipsNobody
<1>4. QED
  BY <1>3 DEF k

LEMMA CalledNotSkipped ==
  ASSUME NEW s \in Seq(Listeners \cup {NoListener}),
         NEW a \in Activations, SkipsNobody(a, s), a.next \in 1..Len(s),
         s[a.next] \in Listeners
  PROVE  SkipsNobody(Visited(a, s[a.next]), s)
<1> DEFINE l == s[a.next]
           c == Append(a.called, l)
           k == Visited(a, l)
<1>1. k.called = c /\ k.kept = a.kept /\ k.next = a.next + 1 /\ a.called \in Seq(Listeners)
  BY VisitedFields DEF Activations
<1>2. /\ \A i \in DOMAIN a.called : i \in DOMAIN c /\ c[i] = a.called[i]
      /\ \E i \in DOMAIN c : c[i] = l
  <2>1. /\ Len(a.called) \in Nat /\ DOMAIN a.called = 1..Len(a.called)
        /\ DOMAIN c = 1..(Len(a.called) + 1) /\ c[Len(a.called) + 1] = l
        /\ \A i \in 1..Len(a.called) : c[i] = a.called[i]
    BY <1>1
  <2> HIDE DEF c
  <2>2. QED
    BY <2>1
<1>3. \A i \in a.next..Len(s) : i = a.next \/ i \in (a.next + 1)..Len(s)
  OBVIOUS
<1> HIDE DEF k, c
<1>4. SkipsNobody(k, s)
  BY <1>1, <1>2, <1>3 DEF SkipsNobody
<1>5. QED
  BY <1>4 DEF k

LEMMA SkippedInit == Init => NobodySkipped
BY DEF Init, NobodySkipped

LEMMA SkippedStep ==
  ASSUME TypeOK, NobodySkipped, [Next]_vars
  PROVE  NobodySkipped'
<1>1. \A d \in DOMAIN stack : SkipsNobody(stack[d], listeners)
  BY NobodySkippedStack
<1>2. SUFFICES ASSUME NEW d \in DOMAIN stack' PROVE SkipsNobody(stack'[d], listeners')
  <2>1. NobodySkipped' <=> \A d \in DOMAIN stack' : SkipsNobody(stack'[d], listeners')
    BY DEF NobodySkipped, SkipsNobody
  <2>2. QED
    BY <2>1
<1>3. /\ stack \in Seq(Activations) /\ listeners \in Seq(Listeners \cup {NoListener})
      /\ \A e \in DOMAIN stack :
           stack[e] \in Activations /\ stack[e].next \in 1..(Len(listeners) + 1)
  <2>1. stack \in Seq(Activations) /\ listeners \in Seq(Listeners \cup {NoListener})
    BY DEF TypeOK
  <2>2. QED
    BY <2>1, TypeOKStack DEF ActivationOK
<1>4. ASSUME NEW b \in Boats, Dispatch(b) PROVE SkipsNobody(stack'[d], listeners')
  <2> DEFINE a == Activation(b, Len(log) + 1)
  <2>1. stack' = Append(stack, a) /\ listeners' = listeners
    BY <1>4 DEF Dispatch
  <2>2. SkipsNobody(a, listeners)
    BY BeginsBeforeAll
  <2> HIDE DEF a
  <2>3. stack'[d] = a \/ (d \in DOMAIN stack /\ stack'[d] = stack[d])
    BY <1>3, <2>1
  <2>4. QED
    BY <1>1, <2>1, <2>2, <2>3
<1>5. ASSUME NEW a, stack # <<>>, ReplaceTop(a), SkipsNobody(a, listeners)
      PROVE  SkipsNobody(stack'[d], listeners')
  BY <1>1, <1>3, <1>5 DEF ReplaceTop
<1>6. ASSUME stack # <<>>
      PROVE  Top \in Activations /\ Top.next \in Nat /\ SkipsNobody(Top, listeners)
  <2>1. Depth \in DOMAIN stack
    BY <1>3, <1>6 DEF Depth
  <2>2. QED
    BY <1>1, <1>3, <2>1 DEF Top, Activations
<1>7. CASE VisitDeleted
  <2>1. Top.next \in 1..Len(listeners) /\ listeners[Top.next] = NoListener
        /\ stack # <<>> /\ Depth \in DOMAIN stack
    <3>1. stack # <<>> /\ Depth \in DOMAIN stack
      BY <1>3, <1>7 DEF VisitDeleted, LoopRuns, Depth
    <3>2. QED
      BY <1>3, <1>7, <3>1 DEF VisitDeleted, Top
  <2>2. SkipsNobody([Top EXCEPT !.next = @ + 1], listeners)
    BY <1>3, <1>6, <2>1, EmptyEntryPassed, HubAssumption
  <2>3. QED
    BY <1>5, <1>7, <2>1, <2>2 DEF VisitDeleted
<1>8. CASE VisitListener
  <2>1. Top.next \in 1..Len(listeners) /\ listeners[Top.next] \in Listeners
        /\ stack # <<>> /\ Depth \in DOMAIN stack
    <3>1. stack # <<>> /\ Depth \in DOMAIN stack
      BY <1>3, <1>8 DEF VisitListener, LoopRuns, Depth
    <3>2. QED
      BY <1>3, <1>8, <3>1 DEF VisitListener, Top
  <2>2. SkipsNobody(Visited(Top, listeners[Top.next]), listeners)
    BY <1>3, <1>6, <2>1, CalledNotSkipped
  <2>3. QED
    BY <1>5, <1>8, <2>1, <2>2 DEF VisitListener, Visited
<1>9. CASE ListenerReturns
  <2>1. stack # <<>>
    BY <1>9 DEF ListenerReturns, ListenerRuns
  <2>2. SkipsNobody([Top EXCEPT !.running = FALSE], listeners)
    BY <1>6, <2>1 DEF SkipsNobody, Activations
  <2>3. QED
    BY <1>5, <1>9, <2>1, <2>2 DEF ListenerReturns
<1>10. CASE ListenerThrows \/ LoopEnds
  <2>1. stack # <<>> /\ PopTop
    BY <1>10 DEF ListenerThrows, LoopEnds, LoopRuns, ListenerRuns
  <2>2. Len(stack) \in Nat /\ Len(stack) > 0
    BY <1>3, <2>1
  <2>3. d \in DOMAIN stack /\ stack'[d] = stack[d] /\ listeners' = listeners
    BY <1>3, <2>1, <2>2 DEF PopTop, Depth
  <2>4. QED
    BY <1>1, <2>3
<1>11. ASSUME NEW l \in Listeners, Subscribe(l) PROVE SkipsNobody(stack'[d], listeners')
  <2>1. SkipsNobody(stack[d], listeners) /\ stack'[d] = stack[d] /\ d \in DOMAIN stack
    BY <1>1, <1>11 DEF Subscribe
  <2>2. SkipsNobody(stack[d], Append(listeners, l))
    BY <1>3, <2>1, MoreEntriesSkipNobody
  <2>3. QED
    BY <1>11, <2>1, <2>2 DEF Subscribe
<1>12. ASSUME NEW l \in Listeners, Unsubscribe(l) PROVE SkipsNobody(stack'[d], listeners')
  <2>1. d \in DOMAIN stack /\ stack'[d] = [stack[d] EXCEPT !.kept = @ \ {l}]
    BY <1>12 DEF Unsubscribe
  <2>2. QED
    BY <1>1, <1>3, <1>12, <2>1, EmptiedEntrySkipsNobody DEF Unsubscribe
<1>13. CASE UNCHANGED <<listeners, stack>>
  BY <1>1, <1>13
<1>14. QED
  BY <1>4, <1>7, <1>8, <1>9, <1>10, <1>11, <1>12, <1>13
  DEF Next, DispatchStep, ClearBoat, ResetAll, Tick, vars

\* A listener that stays subscribed during a dispatch is called by it or still
\* ahead of its loop, whatever the listeners do to the Set.
THEOREM SkippedInvariant == Spec => []NobodySkipped
<1>1. Init => TypeOK /\ NobodySkipped
  BY TypeInit, SkippedInit
<1>2. TypeOK /\ NobodySkipped /\ [Next]_vars => TypeOK' /\ NobodySkipped'
  BY TypeStep, SkippedStep
<1>3. QED
  BY <1>1, <1>2, PTL DEF Spec

-----------------------------------------------------------------------------
(***************************************************************************)
(* isStale.                                                                *)
(***************************************************************************)

\* The frames were dispatched in the order of the log, and none in the future.
InOrderAt(lg, t) ==
  /\ \A i \in DOMAIN lg : lg[i].at <= t
  /\ \A i, j \in DOMAIN lg : i <= j => lg[i].at <= lg[j].at

LogInOrder == InOrderAt(log, now)

LEMMA TimesAreNumbers ==
  ASSUME NEW lg \in Seq([boatId : Boats, at : Nat])
  PROVE  DOMAIN lg = 1..Len(lg) /\ \A i \in DOMAIN lg : lg[i].at \in Nat
<1>1. DOMAIN lg = 1..Len(lg)
  OBVIOUS
<1>2. \A i \in 1..Len(lg) : lg[i] \in [boatId : Boats, at : Nat]
  BY ElementOfSeq
<1>3. QED
  BY <1>1, <1>2

LEMMA AppendedInOrder ==
  ASSUME NEW lg \in Seq([boatId : Boats, at : Nat]), NEW t \in Nat, NEW b \in Boats,
         InOrderAt(lg, t)
  PROVE  InOrderAt(Append(lg, [boatId |-> b, at |-> t]), t)
<1> DEFINE e == [boatId |-> b, at |-> t]
           h == Append(lg, e)
<1>1. e \in [boatId : Boats, at : Nat] /\ e.at = t
  OBVIOUS
<1> HIDE DEF e
<1>2. /\ Len(lg) \in Nat /\ DOMAIN lg = 1..Len(lg) /\ DOMAIN h = 1..(Len(lg) + 1)
      /\ h[Len(lg) + 1] = e /\ \A i \in 1..Len(lg) : h[i] = lg[i]
  BY <1>1
<1> HIDE DEF h
<1>3. \A i \in DOMAIN h : (i \in DOMAIN lg /\ h[i] = lg[i]) \/ (i = Len(lg) + 1 /\ h[i] = e)
  BY <1>2
<1>4. \A i \in DOMAIN lg : lg[i].at \in Nat
  BY TimesAreNumbers
<1>5. \A i \in DOMAIN h : h[i].at <= t
  BY <1>1, <1>3 DEF InOrderAt
<1>6. ASSUME NEW i \in DOMAIN h, NEW j \in DOMAIN h, i <= j
      PROVE  h[i].at <= h[j].at
  <2>1. CASE j = Len(lg) + 1
    BY <1>1, <1>2, <1>5, <2>1
  <2>2. CASE j \in DOMAIN lg /\ i \in DOMAIN lg
    BY <1>2, <1>6, <2>2 DEF InOrderAt
  <2>3. QED
    BY <1>2, <1>6, <2>1, <2>2
<1>7. QED
  BY <1>5, <1>6 DEF InOrderAt, h, e

LEMMA LaterInOrder ==
  ASSUME NEW lg \in Seq([boatId : Boats, at : Nat]), NEW t \in Nat, InOrderAt(lg, t)
  PROVE  InOrderAt(lg, t + 1)
<1>1. \A i \in DOMAIN lg : lg[i].at \in Nat
  BY TimesAreNumbers
<1>2. QED
  BY <1>1 DEF InOrderAt

LEMMA LogInOrderStep ==
  ASSUME TypeOK, LogInOrder, [Next]_vars
  PROVE  LogInOrder'
<1>1. /\ log \in Seq([boatId : Boats, at : Nat]) /\ now \in Nat /\ InOrderAt(log, now)
  BY DEF TypeOK, LogInOrder
<1>2. SUFFICES InOrderAt(log', now')
  BY DEF LogInOrder, InOrderAt
<1>3. ASSUME NEW b \in Boats, Dispatch(b) PROVE InOrderAt(log', now')
  BY <1>1, <1>3, AppendedInOrder DEF Dispatch
<1>4. CASE Tick
  BY <1>1, <1>4, LaterInOrder DEF Tick
<1>5. CASE UNCHANGED <<log, now>>
  BY <1>1, <1>5
<1>6. QED
  BY <1>3, <1>4, <1>5
  DEF Next, DispatchStep, VisitDeleted, VisitListener, ListenerReturns, ListenerThrows,
      LoopEnds, ReplaceTop, PopTop, Subscribe, Unsubscribe, ClearBoat, ResetAll, vars

\* The last frame heard is the youngest, so its age decides.
LEMMA LastDecides ==
  ASSUME HubAssumption, TypeOK, LogInOrder, SnapshotIsLatest
  PROVE  StaleMeansSilent
<1>1. SUFFICES ASSUME NEW b \in Boats
               PROVE  IsStale(b, MaxAge, now)
                        <=> \A i \in Heard(b) : now - log[i].at > MaxAge
  BY DEF StaleMeansSilent
<1>2. CASE Heard(b) = {}
  <2>1. b \notin DOMAIN lastSeenMs
    BY <1>2 DEF SnapshotIsLatest
  <2>2. QED
    BY <1>2, <2>1 DEF IsStale
<1>3. CASE Heard(b) # {}
  <2> DEFINE id == lastByBoat[b].id
  <2>1. /\ b \in DOMAIN lastByBoat /\ b \in DOMAIN lastSeenMs
    BY <1>3 DEF SnapshotIsLatest
  <2>2. /\ id \in Heard(b) /\ \A i \in Heard(b) : i <= id
        /\ lastSeenMs[b] = log[id].at
    BY <2>1 DEF SnapshotIsLatest
  <2>3. Heard(b) \subseteq DOMAIN log /\ \A i \in DOMAIN log : log[i].at \in Nat
    <3>1. /\ log \in Seq([boatId : Boats, at : Nat]) /\ cleared[b] \in Nat
      BY DEF TypeOK
    <3>2. Heard(b) \subseteq (cleared[b] + 1)..Len(log)
      BY DEF Heard
    <3>3. \A i \in (cleared[b] + 1)..Len(log) : i \in 1..Len(log)
      BY <3>1
    <3>4. QED
      BY <3>1, <3>2, <3>3, TimesAreNumbers
  <2> HIDE DEF id
  <2>4. \A i \in Heard(b) : log[i].at <= log[id].at
    BY <2>2, <2>3 DEF LogInOrder, InOrderAt
  <2>5. now \in Nat /\ MaxAge \in Nat
    BY DEF TypeOK, HubAssumption
  <2>6. IsStale(b, MaxAge, now) <=> now - log[id].at > MaxAge
    BY <2>1, <2>2 DEF IsStale
  <2>7. \A i \in Heard(b) : now - log[i].at >= now - log[id].at
    BY <2>2, <2>3, <2>4, <2>5
  <2>8. (now - log[id].at > MaxAge) <=> \A i \in Heard(b) : now - log[i].at > MaxAge
    BY <2>2, <2>3, <2>5, <2>7
  <2>9. QED
    BY <2>6, <2>8
<1>4. QED
  BY <1>2, <1>3

\* A boat is stale exactly when no frame of it was dispatched in the last MaxAge
\* and since it was cleared: the one time in lastSeenMs stands for them all.
THEOREM StaleInvariant == Spec => []StaleMeansSilent
<1>1. Init => LogInOrder
  BY DEF Init, LogInOrder, InOrderAt
<1>2. TypeOK /\ LogInOrder /\ [Next]_vars => LogInOrder'
  BY LogInOrderStep
<1>3. TypeOK /\ LogInOrder /\ SnapshotIsLatest => StaleMeansSilent
  BY LastDecides, HubAssumption
<1>4. QED
  BY TypeInvariant, SnapshotInvariant, <1>1, <1>2, <1>3, PTL DEF Spec

-----------------------------------------------------------------------------
(***************************************************************************)
(* Nobody is called twice.                                                 *)
(***************************************************************************)

\* A Set: no listener has two entries.
EntriesDiffer(s) ==
  \A i, j \in DOMAIN s : s[i] = s[j] /\ s[i] # NoListener => i = j

\* A listener that a dispatch called and that is still subscribed has its entry
\* behind the position of the loop.
CalledBehind(a, s) ==
  \A l \in a.kept : \A i \in DOMAIN a.called :
    a.called[i] = l => \E p \in 1..(a.next - 1) : s[p] = l

CallsOnce(a) ==
  \A l \in a.kept : \A i, j \in DOMAIN a.called :
    a.called[i] = l /\ a.called[j] = l => i = j

CallsOK(a, s) == CalledBehind(a, s) /\ CallsOnce(a)

OnceInv ==
  /\ EntriesDiffer(listeners)
  /\ \A d \in DOMAIN stack : CallsOK(stack[d], listeners)

LEMMA AppendedDiffers ==
  ASSUME NEW s \in Seq(Listeners \cup {NoListener}), NEW l \in Listeners,
         EntriesDiffer(s), \A i \in DOMAIN s : s[i] # l
  PROVE  EntriesDiffer(Append(s, l))
<1> DEFINE t == Append(s, l)
<1>1. /\ Len(s) \in Nat /\ DOMAIN s = 1..Len(s) /\ DOMAIN t = 1..(Len(s) + 1)
      /\ t[Len(s) + 1] = l /\ \A i \in 1..Len(s) : t[i] = s[i]
  OBVIOUS
<1> HIDE DEF t
<1>2. EntriesDiffer(t)
  BY <1>1 DEF EntriesDiffer
<1>3. QED
  BY <1>2 DEF t

LEMMA AppendedCallsOK ==
  ASSUME NEW s \in Seq(Listeners \cup {NoListener}), NEW l \in Listeners,
         NEW a \in Activations, a.next \in 1..(Len(s) + 1), CallsOK(a, s)
  PROVE  CallsOK(a, Append(s, l))
<1> DEFINE t == Append(s, l)
<1>1. Len(s) \in Nat /\ \A i \in 1..Len(s) : t[i] = s[i]
  OBVIOUS
<1> HIDE DEF t
<1>2. \A p \in 1..(a.next - 1) : p \in 1..Len(s) /\ t[p] = s[p]
  BY <1>1
<1>3. CallsOK(a, t)
  BY <1>2 DEF CallsOK, CalledBehind
<1>4. QED
  BY <1>3 DEF t

\* The entries s after l was deleted.
Emptied(s, l) == [i \in DOMAIN s |-> IF s[i] = l THEN NoListener ELSE s[i]]

LEMMA EmptiedDiffer ==
  ASSUME NEW s \in Seq(Listeners \cup {NoListener}), NEW l, EntriesDiffer(s)
  PROVE  EntriesDiffer(Emptied(s, l))
BY DEF EntriesDiffer, Emptied

LEMMA EmptiedCallsOK ==
  ASSUME NEW s \in Seq(Listeners \cup {NoListener}), NEW l,
         NEW a \in Activations, a.next \in 1..(Len(s) + 1), CallsOK(a, s)
  PROVE  CallsOK([a EXCEPT !.kept = @ \ {l}], Emptied(s, l))
<1> DEFINE k == [a EXCEPT !.kept = @ \ {l}]
           t == Emptied(s, l)
<1>1. k.kept = a.kept \ {l} /\ k.called = a.called /\ k.next = a.next
  BY DEF Activations
<1>2. Len(s) \in Nat /\ DOMAIN s = 1..Len(s) /\ \A i \in 1..Len(s) : s[i] # l => t[i] = s[i]
  BY DEF Emptied
<1> HIDE DEF k, t
<1>3. \A p \in 1..(a.next - 1) : p \in 1..Len(s)
  BY <1>2
<1>4. CallsOnce(k)
  BY <1>1 DEF CallsOK, CallsOnce
<1>5. CalledBehind(k, t)
  BY <1>1, <1>2, <1>3 DEF CallsOK, CalledBehind
<1>6. QED
  BY <1>4, <1>5 DEF CallsOK, k, t

\* The loop moves on, or its listener returns.
LEMMA PassedCallsOK ==
  ASSUME NEW s, NEW a \in Activations, CallsOK(a, s)
  PROVE  /\ CallsOK([a EXCEPT !.next = @ + 1], s)
         /\ CallsOK([a EXCEPT !.running = FALSE], s)
<1> DEFINE k == [a EXCEPT !.next = @ + 1]
           r == [a EXCEPT !.running = FALSE]
<1>1. /\ k.kept = a.kept /\ k.called = a.called /\ k.next = a.next + 1 /\ a.next \in Nat
      /\ r.kept = a.kept /\ r.called = a.called /\ r.next = a.next
  BY DEF Activations
<1> HIDE DEF k, r
<1>2. \A p \in 1..(a.next - 1) : p \in 1..((a.next + 1) - 1)
  BY <1>1
<1>3. CallsOK(k, s) /\ CallsOK(r, s)
  BY <1>1, <1>2 DEF CallsOK, CalledBehind, CallsOnce
<1>4. QED
  BY <1>3 DEF k, r

\* The entry the loop comes to is not behind it, so its listener was not called.
LEMMA VisitedCallsOK ==
  ASSUME HubAssumption, NEW s \in Seq(Listeners \cup {NoListener}), EntriesDiffer(s),
         NEW a \in Activations, CallsOK(a, s), a.next \in 1..Len(s),
         s[a.next] \in Listeners
  PROVE  CallsOK(Visited(a, s[a.next]), s)
<1> DEFINE l == s[a.next]
           c == Append(a.called, l)
           k == Visited(a, l)
<1>1. /\ k.called = c /\ k.kept = a.kept /\ k.next = a.next + 1
      /\ a.called \in Seq(Listeners)
  BY VisitedFields DEF Activations
<1>2. /\ Len(a.called) \in Nat /\ DOMAIN a.called = 1..Len(a.called)
      /\ DOMAIN c = 1..(Len(a.called) + 1) /\ c[Len(a.called) + 1] = l
      /\ \A i \in 1..Len(a.called) : c[i] = a.called[i]
  BY <1>1
<1>3. DOMAIN s = 1..Len(s) /\ l # NoListener
  BY DEF HubAssumption
<1>4. \A p \in 1..(a.next - 1) : p \in DOMAIN s /\ p # a.next /\ p \in 1..((a.next + 1) - 1)
  BY <1>3
<1>5. \A p \in 1..(a.next - 1) : s[p] # l
  BY <1>3, <1>4 DEF EntriesDiffer
<1>6. l \in a.kept => \A i \in DOMAIN a.called : a.called[i] # l
  BY <1>5 DEF CallsOK, CalledBehind
<1>7. a.next \in 1..((a.next + 1) - 1) /\ s[a.next] = l
  OBVIOUS
<1> HIDE DEF k, c, l
<1>8. \A i \in DOMAIN c : (i \in DOMAIN a.called /\ c[i] = a.called[i])
                          \/ (i = Len(a.called) + 1 /\ c[i] = l)
  BY <1>2
<1>9. CalledBehind(k, s)
  <2> SUFFICES ASSUME NEW m \in a.kept, NEW i \in DOMAIN c, c[i] = m
               PROVE  \E p \in 1..((a.next + 1) - 1) : s[p] = m
    BY <1>1 DEF CalledBehind
  <2>1. CASE i \in DOMAIN a.called /\ c[i] = a.called[i]
    BY <1>4, <2>1 DEF CallsOK, CalledBehind
  <2>2. CASE c[i] = l
    BY <1>7, <2>2
  <2>3. QED
    BY <1>8, <2>1, <2>2
<1>10. CallsOnce(k)
  <2> SUFFICES ASSUME NEW m \in a.kept, NEW i \in DOMAIN c, NEW j \in DOMAIN c,
                      c[i] = m, c[j] = m
               PROVE  i = j
    BY <1>1 DEF CallsOnce
  <2>1. CASE m = l
    BY <1>6, <1>8, <2>1
  <2>2. CASE m # l
    BY <1>8, <2>2 DEF CallsOK, CallsOnce
  <2>3. QED
    BY <2>1, <2>2
<1>11. QED
  BY <1>9, <1>10 DEF CallsOK, k, l

LEMMA OnceStep ==
  ASSUME TypeOK, OnceInv, [Next]_vars
  PROVE  OnceInv'
<1>1. /\ stack \in Seq(Activations) /\ listeners \in Seq(Listeners \cup {NoListener})
      /\ \A e \in DOMAIN stack :
           stack[e] \in Activations /\ stack[e].next \in 1..(Len(listeners) + 1)
  <2>1. stack \in Seq(Activations) /\ listeners \in Seq(Listeners \cup {NoListener})
    BY DEF TypeOK
  <2>2. QED
    BY <2>1, TypeOKStack DEF ActivationOK
<1>2. EntriesDiffer(listeners) /\ \A d \in DOMAIN stack : CallsOK(stack[d], listeners)
  BY DEF OnceInv
<1>3. SUFFICES /\ EntriesDiffer(listeners')
               /\ \A d \in DOMAIN stack' : CallsOK(stack'[d], listeners')
  BY DEF OnceInv, EntriesDiffer, CallsOK, CalledBehind, CallsOnce
<1> DEFINE Goal == /\ EntriesDiffer(listeners')
                   /\ \A d \in DOMAIN stack' : CallsOK(stack'[d], listeners')
<1>4. ASSUME NEW b \in Boats, Dispatch(b) PROVE Goal
  <2> DEFINE a == Activation(b, Len(log) + 1)
  <2>1. stack' = Append(stack, a) /\ listeners' = listeners
    BY <1>4 DEF Dispatch
  <2>2. CallsOK(a, listeners)
    BY DEF CallsOK, CalledBehind, CallsOnce, Activation
  <2> HIDE DEF a
  <2>3. \A d \in DOMAIN stack' : stack'[d] = a \/ (d \in DOMAIN stack /\ stack'[d] = stack[d])
    BY <1>1, <2>1
  <2>4. QED
    BY <1>2, <2>1, <2>2, <2>3
<1>5. ASSUME NEW a, stack # <<>>, ReplaceTop(a), CallsOK(a, listeners) PROVE Goal
  BY <1>1, <1>2, <1>5 DEF ReplaceTop
<1>6. ASSUME stack # <<>>
      PROVE  /\ Depth \in DOMAIN stack /\ Top \in Activations /\ CallsOK(Top, listeners)
             /\ Top.next \in 1..(Len(listeners) + 1)
  <2>1. Depth \in DOMAIN stack
    BY <1>1, <1>6 DEF Depth
  <2>2. QED
    BY <1>1, <1>2, <2>1 DEF Top
<1>7. CASE VisitDeleted
  <2>1. stack # <<>>
    BY <1>7 DEF VisitDeleted, LoopRuns
  <2>2. CallsOK([Top EXCEPT !.next = @ + 1], listeners)
    BY <1>6, <2>1, PassedCallsOK
  <2>3. QED
    BY <1>5, <1>7, <2>1, <2>2 DEF VisitDeleted
<1>8. CASE VisitListener
  <2>1. stack # <<>>
    BY <1>8 DEF VisitListener, LoopRuns
  <2>2. Top.next \in 1..Len(listeners) /\ listeners[Top.next] \in Listeners
    BY <1>1, <1>6, <1>8, <2>1 DEF VisitListener
  <2>3. CallsOK(Visited(Top, listeners[Top.next]), listeners)
    BY <1>1, <1>2, <1>6, <2>1, <2>2, VisitedCallsOK, HubAssumption
  <2>4. QED
    BY <1>5, <1>8, <2>1, <2>3 DEF VisitListener, Visited
<1>9. CASE ListenerReturns
  <2>1. stack # <<>>
    BY <1>9 DEF ListenerReturns, ListenerRuns
  <2>2. CallsOK([Top EXCEPT !.running = FALSE], listeners)
    BY <1>6, <2>1, PassedCallsOK
  <2>3. QED
    BY <1>5, <1>9, <2>1, <2>2 DEF ListenerReturns
<1>10. CASE ListenerThrows \/ LoopEnds
  <2>1. stack # <<>> /\ PopTop
    BY <1>10 DEF ListenerThrows, LoopEnds, LoopRuns, ListenerRuns
  <2>2. Len(stack) \in Nat /\ Len(stack) > 0
    BY <1>1, <2>1
  <2>3. /\ listeners' = listeners
        /\ \A d \in DOMAIN stack' : d \in DOMAIN stack /\ stack'[d] = stack[d]
    BY <1>1, <2>1, <2>2 DEF PopTop, Depth
  <2>4. QED
    BY <1>2, <2>3
<1>11. ASSUME NEW l \in Listeners, Subscribe(l) PROVE Goal
  <2>1. stack' = stack
    BY <1>11 DEF Subscribe
  <2>2. CASE l \in Subscribed
    BY <1>2, <1>11, <2>1, <2>2 DEF Subscribe
  <2>3. CASE l \notin Subscribed
    <3>1. listeners' = Append(listeners, l)
      BY <1>11, <2>3 DEF Subscribe
    <3>2. \A i \in DOMAIN listeners : listeners[i] # l
      BY <2>3, HubAssumption DEF Subscribed, HubAssumption
    <3>3. EntriesDiffer(listeners')
      BY <1>1, <1>2, <3>1, <3>2, AppendedDiffers
    <3>4. \A d \in DOMAIN stack : CallsOK(stack[d], listeners')
      BY <1>1, <1>2, <3>1, AppendedCallsOK
    <3>5. QED
      BY <2>1, <3>3, <3>4
  <2>4. QED
    BY <2>2, <2>3
<1>12. ASSUME NEW l \in Listeners, Unsubscribe(l) PROVE Goal
  <2>1. /\ listeners' = Emptied(listeners, l)
        /\ stack' = [i \in DOMAIN stack |-> [stack[i] EXCEPT !.kept = @ \ {l}]]
    BY <1>12 DEF Unsubscribe, Emptied
  <2>2. EntriesDiffer(Emptied(listeners, l))
    BY <1>1, <1>2, EmptiedDiffer
  <2>3. \A d \in DOMAIN stack :
          CallsOK([stack[d] EXCEPT !.kept = @ \ {l}], Emptied(listeners, l))
    BY <1>1, <1>2, EmptiedCallsOK
  <2>4. QED
    BY <2>1, <2>2, <2>3
<1>13. CASE UNCHANGED <<listeners, stack>>
  BY <1>2, <1>13
<1>14. QED
  BY <1>4, <1>7, <1>8, <1>9, <1>10, <1>11, <1>12, <1>13
  DEF Next, DispatchStep, ClearBoat, ResetAll, Tick, vars

\* A listener that stays subscribed is called once for a frame, whatever the
\* listeners do to the Set while the loop walks it.
THEOREM OnceInvariant == Spec => []NobodyTwice
<1>1. Init => OnceInv
  BY DEF Init, OnceInv, EntriesDiffer
<1>2. TypeOK /\ OnceInv /\ [Next]_vars => OnceInv'
  BY OnceStep
<1>3. OnceInv => NobodyTwice
  BY DEF OnceInv, CallsOK, CallsOnce, NobodyTwice
<1>4. QED
  BY TypeInvariant, <1>1, <1>2, <1>3, PTL DEF Spec
=============================================================================
