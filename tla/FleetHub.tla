------------------------------ MODULE FleetHub ------------------------------
(***************************************************************************)
(* FleetHub (src/src/session/fleet-hub.ts): the snapshot of the latest     *)
(* frame of each boat and the dispatch of every frame to the listeners.    *)
(*                                                                         *)
(* dispatch() calls user code for each listener, and that code may call    *)
(* any method of the hub: unsubscribe itself or others, subscribe, clear a *)
(* boat, reset everything, or feed the hub another frame, which dispatches *)
(* inside the dispatch.  So the calls in progress are a stack and each     *)
(* call of a listener is a step that other actions may fall into.          *)
(*                                                                         *)
(* The listeners are the entries of a JavaScript Set: deleting leaves an   *)
(* empty entry behind, adding appends, and the for-of loops of the calls   *)
(* in progress walk the same entries by position.                          *)
(***************************************************************************)
EXTENDS Integers, Sequences

CONSTANTS
  Boats,       \* boat ids
  Listeners,   \* listener functions
  NoListener,  \* an entry of the Set that was deleted
  MaxAge,      \* the age given to isStale
  MaxFrames,   \* bound on the frames dispatched
  MaxDepth,    \* bound on dispatches inside dispatches
  MaxOps,      \* bound on the calls of subscribe, off, clearBoat and resetAll
  MaxTime      \* bound on the clock

ASSUME HubAssumption ==
  /\ NoListener \notin Listeners
  /\ MaxAge \in Nat /\ MaxFrames \in Nat /\ MaxDepth \in Nat
  /\ MaxOps \in Nat /\ MaxTime \in Nat

VARIABLES
  listeners,   \* this.listeners: the entries of the Set, in insertion order
  lastByBoat,  \* this.lastByBoat: a function on the boats that have an entry
  lastSeenMs,  \* this.lastSeenMs: the same
  stack,       \* the dispatch() calls in progress, the innermost last
  now,         \* Date.now()
  log,         \* history: boat and time of every frame dispatched
  cleared,     \* history: how many frames had been dispatched when a boat was
               \* last cleared
  ops          \* bound: how many calls were made

vars == <<listeners, lastByBoat, lastSeenMs, stack, now, log, cleared, ops>>

\* Frame number id, as dispatched.
Frame(b, id) == [boatId |-> b, id |-> id]
Frames == [boatId : Boats, id : Nat]

Subscribed == {listeners[i] : i \in DOMAIN listeners} \ {NoListener}

\* A call of dispatch(): its frame, the position of its loop, whether a
\* listener is running; for the properties, the listeners it called, in order,
\* and those subscribed without interruption since it began.
Activation(b, id) ==
  [frame |-> Frame(b, id), next |-> 1, running |-> FALSE,
   called |-> <<>>, kept |-> Subscribed]

Activations ==
  [frame : Frames, next : Nat, running : BOOLEAN,
   called : Seq(Listeners), kept : SUBSET Listeners]

Depth == Len(stack)
Top == stack[Depth]

EmptyMap == [b \in {} |-> 0]

Init ==
  /\ listeners = <<>>
  /\ lastByBoat = EmptyMap /\ lastSeenMs = EmptyMap
  /\ stack = <<>> /\ now = 0
  /\ log = <<>> /\ cleared = [b \in Boats |-> 0] /\ ops = 0

\* Methods are called by the event loop, when nothing runs, or by a listener.
UserCodeRuns == stack # <<>> => Top.running

Call ==
  /\ UserCodeRuns
  /\ ops < MaxOps /\ ops' = ops + 1

\* Map.set and Map.delete.
Put(map, b, v) == [c \in DOMAIN map \cup {b} |-> IF c = b THEN v ELSE map[c]]
Delete(map, b) == [c \in DOMAIN map \ {b} |-> map[c]]

-----------------------------------------------------------------------------
(***************************************************************************)
(* dispatch(frame), reached by ingestDecoded, feedDatagram and feedStream. *)
(***************************************************************************)

\* Wrong on purpose: keeps the time of the first frame of a boat.
DispatchKeepsTime(b) ==
  LET id == Len(log) + 1
  IN  /\ UserCodeRuns
      /\ Depth < MaxDepth /\ id <= MaxFrames
      /\ lastByBoat' = Put(lastByBoat, b, Frame(b, id))
      /\ lastSeenMs' = IF b \in DOMAIN lastSeenMs THEN lastSeenMs
                                                 ELSE Put(lastSeenMs, b, now)
      /\ stack' = Append(stack, Activation(b, id))
      /\ log' = Append(log, [boatId |-> b, at |-> now])
      /\ UNCHANGED <<listeners, now, cleared, ops>>

\* Wrong on purpose: updates the snapshot only when no dispatch is in progress.
DispatchOuterOnly(b) ==
  LET id == Len(log) + 1
  IN  /\ UserCodeRuns
      /\ Depth < MaxDepth /\ id <= MaxFrames
      /\ IF stack = <<>>
           THEN /\ lastByBoat' = Put(lastByBoat, b, Frame(b, id))
                /\ lastSeenMs' = Put(lastSeenMs, b, now)
           ELSE UNCHANGED <<lastByBoat, lastSeenMs>>
      /\ stack' = Append(stack, Activation(b, id))
      /\ log' = Append(log, [boatId |-> b, at |-> now])
      /\ UNCHANGED <<listeners, now, cleared, ops>>

\* The statements before the loop run without interruption.
Dispatch(b) ==
  LET id == Len(log) + 1
  IN  /\ UserCodeRuns
      /\ Depth < MaxDepth /\ id <= MaxFrames
      /\ lastByBoat' = Put(lastByBoat, b, Frame(b, id))
      /\ lastSeenMs' = Put(lastSeenMs, b, now)
      /\ stack' = Append(stack, Activation(b, id))
      /\ log' = Append(log, [boatId |-> b, at |-> now])
      /\ UNCHANGED <<listeners, now, cleared, ops>>

LoopRuns == stack # <<>> /\ ~Top.running
ListenerRuns == stack # <<>> /\ Top.running

ReplaceTop(a) ==
  /\ stack' = [stack EXCEPT ![Depth] = a]
  /\ UNCHANGED <<listeners, lastByBoat, lastSeenMs, now, log, cleared, ops>>

PopTop ==
  /\ stack' = SubSeq(stack, 1, Depth - 1)
  /\ UNCHANGED <<listeners, lastByBoat, lastSeenMs, now, log, cleared, ops>>

\* The loop comes to an entry of the Set.
VisitDeleted ==
  /\ LoopRuns /\ Top.next <= Len(listeners)
  /\ listeners[Top.next] = NoListener
  /\ ReplaceTop([Top EXCEPT !.next = @ + 1])

VisitListener ==
  /\ LoopRuns /\ Top.next <= Len(listeners)
  /\ listeners[Top.next] # NoListener
  /\ ReplaceTop([Top EXCEPT !.next = @ + 1, !.running = TRUE,
                            !.called = Append(@, listeners[Top.next])])

ListenerReturns ==
  /\ ListenerRuns
  /\ ReplaceTop([Top EXCEPT !.running = FALSE])

\* An error leaves dispatch() and its caller; the listener that had called the
\* hub, if any, catches it or throws in turn.
ListenerThrows == ListenerRuns /\ PopTop

LoopEnds == LoopRuns /\ Top.next > Len(listeners) /\ PopTop

-----------------------------------------------------------------------------
(***************************************************************************)
(* The other methods.                                                      *)
(***************************************************************************)

\* Wrong on purpose: adds a listener a second time, as an array would.
SubscribePushes(l) ==
  /\ Call
  /\ listeners' = Append(listeners, l)
  /\ UNCHANGED <<lastByBoat, lastSeenMs, stack, now, log, cleared>>

\* Set.add of an element that is in the Set changes nothing.
Subscribe(l) ==
  /\ Call
  /\ listeners' = IF l \in Subscribed THEN listeners ELSE Append(listeners, l)
  /\ UNCHANGED <<lastByBoat, lastSeenMs, stack, now, log, cleared>>

\* Wrong on purpose: closes the gap, as splicing an array would.
UnsubscribeSplices(l) ==
  /\ Call
  /\ listeners' = SelectSeq(listeners, LAMBDA x : x # l)
  /\ stack' = [i \in DOMAIN stack |-> [stack[i] EXCEPT !.kept = @ \ {l}]]
  /\ UNCHANGED <<lastByBoat, lastSeenMs, now, log, cleared>>

\* The function that subscribe returned.
Unsubscribe(l) ==
  /\ Call
  /\ listeners' = [i \in DOMAIN listeners |->
                     IF listeners[i] = l THEN NoListener ELSE listeners[i]]
  /\ stack' = [i \in DOMAIN stack |-> [stack[i] EXCEPT !.kept = @ \ {l}]]
  /\ UNCHANGED <<lastByBoat, lastSeenMs, now, log, cleared>>

\* Wrong on purpose: forgets the frame and not its time.
ClearBoatHalf(b) ==
  /\ Call
  /\ lastByBoat' = Delete(lastByBoat, b)
  /\ cleared' = [cleared EXCEPT ![b] = Len(log)]
  /\ UNCHANGED <<listeners, lastSeenMs, stack, now, log>>

ClearBoat(b) ==
  /\ Call
  /\ lastByBoat' = Delete(lastByBoat, b)
  /\ lastSeenMs' = Delete(lastSeenMs, b)
  /\ cleared' = [cleared EXCEPT ![b] = Len(log)]
  /\ UNCHANGED <<listeners, stack, now, log>>

\* The reset of the shared parser is in FrameParser (ResetInCallback, Reset).
ResetAll ==
  /\ Call
  /\ lastByBoat' = EmptyMap /\ lastSeenMs' = EmptyMap
  /\ cleared' = [b \in Boats |-> Len(log)]
  /\ UNCHANGED <<listeners, stack, now, log>>

IsStale(b, maxAgeMs, nowMs) ==
  IF b \notin DOMAIN lastSeenMs THEN TRUE ELSE nowMs - lastSeenMs[b] > maxAgeMs

Tick ==
  /\ now < MaxTime /\ now' = now + 1
  /\ UNCHANGED <<listeners, lastByBoat, lastSeenMs, stack, log, cleared, ops>>

DispatchStep ==
  \/ VisitDeleted \/ VisitListener \/ ListenerReturns \/ ListenerThrows \/ LoopEnds

Next ==
  \/ \E b \in Boats : Dispatch(b) \/ ClearBoat(b)
  \/ \E l \in Listeners : Subscribe(l) \/ Unsubscribe(l)
  \/ DispatchStep \/ ResetAll \/ Tick

Spec == Init /\ [][Next]_vars

-----------------------------------------------------------------------------
(***************************************************************************)
(* Properties.                                                             *)
(***************************************************************************)

\* The types of the variables; a call of dispatch() has a frame of the log, and
\* its position is an entry of the Set or just past the last.
TypeOK ==
  /\ listeners \in Seq(Listeners \cup {NoListener})
  /\ DOMAIN lastByBoat \subseteq Boats
  /\ lastByBoat \in [DOMAIN lastByBoat -> Frames]
  /\ DOMAIN lastSeenMs \subseteq Boats
  /\ lastSeenMs \in [DOMAIN lastSeenMs -> Nat]
  /\ stack \in Seq(Activations)
  /\ now \in Nat /\ ops \in Nat
  /\ log \in Seq([boatId : Boats, at : Nat])
  /\ cleared \in [Boats -> Nat]
  /\ \A b \in Boats : cleared[b] <= Len(log)
  /\ \A d \in DOMAIN stack :
       /\ stack[d].frame.id \in DOMAIN log
       /\ stack[d].frame.boatId = log[stack[d].frame.id].boatId
       /\ stack[d].next \in 1..(Len(listeners) + 1)

\* The frames of boat b dispatched since it was last cleared.
Heard(b) == {i \in (cleared[b] + 1)..Len(log) : log[i].boatId = b}

\* The snapshot of every boat is the last frame dispatched for it since the
\* boat was last cleared, lastSeenMs is when that was, and both maps have the
\* same boats, also while listeners run, clear, reset and feed further frames.
SnapshotIsLatest ==
  /\ DOMAIN lastByBoat = {b \in Boats : Heard(b) # {}}
  /\ DOMAIN lastSeenMs = DOMAIN lastByBoat
  /\ \A b \in DOMAIN lastByBoat :
       LET id == lastByBoat[b].id
       IN  /\ lastByBoat[b] = Frame(b, id)
           /\ id \in Heard(b) /\ \A i \in Heard(b) : i <= id
           /\ lastSeenMs[b] = log[id].at

\* isStale answers by what was heard: a boat is not stale exactly when a frame
\* of it was dispatched at most MaxAge ago and the boat not cleared since.  (The
\* clock of this model does not step back.)
StaleMeansSilent ==
  \A b \in Boats :
    IsStale(b, MaxAge, now) <=> \A i \in Heard(b) : now - log[i].at > MaxAge

\* While a listener runs for a frame, the snapshot shows that frame or one that
\* was dispatched later, unless the boat was cleared meanwhile.
EventInSnapshot ==
  \A d \in DOMAIN stack :
    LET f == stack[d].frame
    IN  \/ f.boatId \in DOMAIN lastByBoat /\ lastByBoat[f.boatId].id >= f.id
        \/ cleared[f.boatId] >= f.id

\* A listener that stays subscribed is not passed over, whatever other listeners
\* subscribe and unsubscribe during the dispatch: the loop has called it or is
\* still to come to it.
NobodySkipped ==
  \A d \in DOMAIN stack : \A l \in stack[d].kept :
    \/ \E i \in DOMAIN stack[d].called : stack[d].called[i] = l
    \/ \E i \in stack[d].next..Len(listeners) : listeners[i] = l

\* One that stays subscribed is called once for a frame, also when it feeds the
\* hub a further frame from inside.
NobodyTwice ==
  \A d \in DOMAIN stack : \A l \in stack[d].kept :
    \A i, j \in DOMAIN stack[d].called :
      stack[d].called[i] = l /\ stack[d].called[j] = l => i = j
=============================================================================
