-------------------------- MODULE TcpClientProofs --------------------------
(***************************************************************************)
(* Theorems about TcpClient, for every number of connections, frames and   *)
(* chunks.                                                                 *)
(***************************************************************************)
EXTENDS TcpClient, SequenceTheorems, TLAPS

-----------------------------------------------------------------------------
(***************************************************************************)
(* The inductive invariant.                                                *)
(***************************************************************************)

\* A socket exists when connect() made it; until it has opened it is nobody's.
SocketLife ==
  \A i \in Attempts :
    /\ conn[i] = "none" <=> i > attempts
    /\ conn[i] = "none" => connected[i] = "none" /\ closing[i] = "none"
    /\ conn[i] = "connecting" => connected[i] = "pending" /\ closing[i] = "none" /\ socket # i
    /\ conn[i] \in {"open", "ending"} => connected[i] = "resolved"
    /\ failed[i] # "none" => conn[i] = "closed"

\* The transport has no socket that it was asked to close.
HeldIsOpen ==
  socket # NoSocket => connected[socket] = "resolved" /\ closing[socket] = "none"

\* A user that awaits has at most the last connection, and the transport has it then.
OneAtATime ==
  user = "awaits" =>
    \A i \in Attempts :
      /\ i < attempts => connected[i] = "rejected" \/ closing[i] = "resolved"
      /\ connected[i] = "resolved" /\ closing[i] = "none" => socket = i

TcpInv ==
  /\ TypeOK /\ SocketLife /\ HeldIsOpen /\ OneAtATime
  /\ CloseAfterSends /\ AwaitedErrorsInPlace /\ ErrorsReachUser

SendTypes == [on : Attempts \cup {NoSocket}, state : PromiseStates]

LEMMA TcpInvInit == Init => TcpInv
<1> SUFFICES ASSUME Init PROVE TcpInv
  OBVIOUS
<1>1. sends \in Seq(SendTypes) /\ fed \in Seq(Attempts)
  BY DEF Init
<1>2. TypeOK
  BY <1>1, TcpAssumption DEF Init, TypeOK, PromiseStates, SendTypes
<1>3. SocketLife
  BY TcpAssumption DEF Init, SocketLife, Attempts
<1>4. HeldIsOpen /\ OneAtATime /\ AwaitedErrorsInPlace /\ ErrorsReachUser
  BY DEF Init, HeldIsOpen, OneAtATime, AwaitedErrorsInPlace, OnlyLateErrors, ErrorsReachUser
<1>5. CloseAfterSends
  BY DEF Init, CloseAfterSends
<1>6. QED
  BY <1>2, <1>3, <1>4, <1>5 DEF TcpInv

\* A step that leaves the sends alone, and resolves no close() but of a socket without any.
LEMMA SendsStand ==
  ASSUME CloseAfterSends, sends' = sends,
         \A i \in Attempts : closing'[i] = "resolved" => closing[i] = "resolved" \/ Pending(i) = {}
  PROVE  CloseAfterSends'
BY DEF CloseAfterSends, Pending

LEMMA ConnectStep ==
  ASSUME TcpInv, Connect
  PROVE  TcpInv'
<1> DEFINE a == attempts + 1
<1>1. /\ a \in Attempts /\ attempts \in 0..MaxConnects /\ attempts < MaxConnects
      /\ a > attempts /\ ~(a > a) /\ a # NoSocket
  BY TcpAssumption DEF TcpInv, TypeOK, Connect, Attempts, NoSocket
<1>2. \A i \in Attempts : (i > a <=> i > attempts /\ i # a) /\ (i < a => i <= attempts)
                          /\ i \in Nat /\ (i <= attempts => i \in 1..attempts)
  BY TcpAssumption, <1>1 DEF Attempts
<1>3. /\ attempts' = a /\ conn' = [conn EXCEPT ![a] = "connecting"]
      /\ connected' = [connected EXCEPT ![a] = "pending"]
      /\ UNCHANGED <<user, socket, closing, sends, failed, fed, up>> /\ a \in 0..MaxConnects
  BY <1>1, TcpAssumption DEF Connect
<1> HIDE DEF a
<1>4. conn[a] = "none" /\ connected[a] = "none" /\ closing[a] = "none" /\ failed[a] = "none"
  BY <1>1 DEF TcpInv, SocketLife
<1>5. socket # a
  BY <1>1, <1>4 DEF TcpInv, HeldIsOpen
<1>6. TypeOK'
  BY <1>1, <1>3, <1>5 DEF TcpInv, TypeOK, PromiseStates
<1>7. SocketLife'
  BY <1>1, <1>2, <1>3, <1>4, <1>5 DEF TcpInv, TypeOK, SocketLife
<1>8. HeldIsOpen'
  BY <1>1, <1>3, <1>5 DEF TcpInv, TypeOK, HeldIsOpen
<1>9. OneAtATime'
  BY <1>1, <1>2, <1>3, <1>4 DEF TcpInv, TypeOK, OneAtATime, Connect, UserMayConnect
<1>10. AwaitedErrorsInPlace' /\ ErrorsReachUser'
  BY <1>1, <1>3, <1>4
     DEF TcpInv, TypeOK, AwaitedErrorsInPlace, OnlyLateErrors, ErrorsReachUser
<1>11. CloseAfterSends'
  BY <1>3, SendsStand DEF TcpInv
<1>12. QED
  BY <1>6, <1>7, <1>8, <1>9, <1>10, <1>11 DEF TcpInv

LEMMA OpenedStep ==
  ASSUME TcpInv, NEW a \in Attempts, Opened(a)
  PROVE  TcpInv'
<1>1. /\ conn[a] = "connecting" /\ conn' = [conn EXCEPT ![a] = "open"] /\ socket' = a
      /\ connected' = [connected EXCEPT ![a] = "resolved"]
      /\ UNCHANGED <<user, attempts, closing, sends, failed, fed, up>>
  BY DEF Opened
<1>2. connected[a] = "pending" /\ closing[a] = "none" /\ socket # a /\ ~(a > attempts)
  BY <1>1 DEF TcpInv, SocketLife
<1>3. TypeOK'
  BY <1>1 DEF TcpInv, TypeOK, PromiseStates
<1>4. SocketLife'
  BY <1>1, <1>2 DEF TcpInv, TypeOK, SocketLife
<1>5. HeldIsOpen'
  BY <1>1, <1>2 DEF TcpInv, TypeOK, HeldIsOpen
<1>6. OneAtATime'
  <2>1. user = "awaits" => ~(a < attempts)
    BY <1>2 DEF TcpInv, OneAtATime
  <2>2. \A i \in Attempts : user = "awaits" /\ i # a /\ ~(i < attempts) => i > attempts
    BY <1>2, <2>1, TcpAssumption DEF TcpInv, TypeOK, Attempts
  <2>3. \A i \in Attempts : i > attempts => connected[i] = "none"
    BY DEF TcpInv, SocketLife
  <2>4. QED
    BY <1>1, <1>2, <2>1, <2>2, <2>3 DEF TcpInv, TypeOK, OneAtATime
<1>7. AwaitedErrorsInPlace' /\ ErrorsReachUser'
  BY <1>1, <1>2 DEF TcpInv, TypeOK, AwaitedErrorsInPlace, OnlyLateErrors, ErrorsReachUser
<1>8. CloseAfterSends'
  BY <1>1, SendsStand DEF TcpInv
<1>9. QED
  BY <1>3, <1>4, <1>5, <1>6, <1>7, <1>8 DEF TcpInv

LEMMA SocketErrorStep ==
  ASSUME TcpInv, NEW a \in Attempts, SocketError(a)
  PROVE  TcpInv'
<1>1. /\ conn[a] \in {"connecting", "open", "ending"} /\ conn' = [conn EXCEPT ![a] = "closed"]
      /\ UNCHANGED <<user, socket, attempts, closing, sends, fed, up>>
  BY DEF SocketError
<1>2. ~(a > attempts) /\ failed[a] = "none"
      /\ (conn[a] = "connecting" => connected[a] = "pending")
      /\ (conn[a] # "connecting" => connected[a] = "resolved")
  BY <1>1 DEF TcpInv, SocketLife
<1>3. \/ /\ socket = NoSocket /\ connected[a] = "pending" /\ conn[a] = "connecting"
         /\ connected' = [connected EXCEPT ![a] = "rejected"]
         /\ failed' = [failed EXCEPT ![a] = "rejected"]
      \/ /\ socket = NoSocket /\ connected[a] = "resolved"
         /\ failed' = [failed EXCEPT ![a] = "swallowed"] /\ connected' = connected
      \/ /\ socket # NoSocket
         /\ failed' = [failed EXCEPT ![a] = "reported"] /\ connected' = connected
  BY <1>2 DEF SocketError, Reject
<1>4. TypeOK'
  BY <1>1, <1>3 DEF TcpInv, TypeOK, PromiseStates
<1>5. SocketLife'
  BY <1>1, <1>2, <1>3 DEF TcpInv, TypeOK, SocketLife
<1>6. HeldIsOpen'
  BY <1>1, <1>3 DEF TcpInv, TypeOK, HeldIsOpen
<1>7. OneAtATime'
  BY <1>1, <1>2, <1>3 DEF TcpInv, TypeOK, OneAtATime
<1>8. user = "awaits" /\ socket # NoSocket => connected[a] = "resolved"
  <2> SUFFICES ASSUME user = "awaits", socket # NoSocket, connected[a] = "pending" PROVE FALSE
    BY <1>2
  <2>1. /\ socket \in Attempts /\ connected[socket] = "resolved" /\ closing[socket] = "none"
        /\ conn[socket] # "none"
    BY DEF TcpInv, TypeOK, HeldIsOpen, SocketLife
  <2>2. ~(socket < attempts) /\ ~(socket > attempts)
    BY <2>1 DEF TcpInv, OneAtATime, SocketLife
  <2>3. ~(a < attempts)
    <3>1. conn[a] = "connecting"
      BY <1>1, <1>2
    <3>2. closing[a] = "none"
      BY <3>1 DEF TcpInv, SocketLife
    <3>3. QED
      BY <3>2 DEF TcpInv, OneAtATime
  <2>4. a = socket
    BY <1>2, <2>1, <2>2, <2>3, TcpAssumption DEF TcpInv, TypeOK, Attempts
  <2>5. QED
    BY <2>1, <2>4
<1>9. user = "awaits" /\ socket = NoSocket /\ connected[a] = "resolved" => closing[a] # "none"
  BY TcpAssumption DEF TcpInv, OneAtATime, NoSocket, Attempts
<1>10. AwaitedErrorsInPlace' /\ ErrorsReachUser'
  BY <1>1, <1>3, <1>8, <1>9
     DEF TcpInv, TypeOK, AwaitedErrorsInPlace, OnlyLateErrors, ErrorsReachUser
<1>11. CloseAfterSends'
  BY <1>1, SendsStand DEF TcpInv
<1>12. QED
  BY <1>4, <1>5, <1>6, <1>7, <1>10, <1>11 DEF TcpInv

LEMMA CloseStep ==
  ASSUME TcpInv, Close
  PROVE  TcpInv'
<1>1. /\ socket # NoSocket /\ socket \in Attempts
      /\ closing' = [closing EXCEPT ![socket] = "pending"] /\ socket' = NoSocket
      /\ conn' = [conn EXCEPT ![socket] = IF @ = "open" THEN "ending" ELSE @]
      /\ UNCHANGED <<user, attempts, connected, sends, failed, fed, up>>
  BY DEF Close, TcpInv, TypeOK
<1>2. connected[socket] = "resolved" /\ closing[socket] = "none"
  BY <1>1 DEF TcpInv, HeldIsOpen
<1>3. \A i \in Attempts : i # NoSocket
  BY TcpAssumption DEF Attempts, NoSocket
<1>4. TypeOK'
  BY <1>1 DEF TcpInv, TypeOK, PromiseStates
<1>5. SocketLife'
  BY <1>1, <1>2, <1>3 DEF TcpInv, TypeOK, SocketLife
<1>6. HeldIsOpen'
  BY <1>1 DEF HeldIsOpen
<1>7. OneAtATime'
  BY <1>1, <1>2, <1>3 DEF TcpInv, TypeOK, OneAtATime
<1>8. AwaitedErrorsInPlace' /\ ErrorsReachUser'
  BY <1>1, <1>2 DEF TcpInv, TypeOK, AwaitedErrorsInPlace, OnlyLateErrors, ErrorsReachUser
<1>9. CloseAfterSends'
  BY <1>1, SendsStand DEF TcpInv, TypeOK
<1>10. QED
  BY <1>4, <1>5, <1>6, <1>7, <1>8, <1>9 DEF TcpInv

LEMMA EndedStep ==
  ASSUME TcpInv, NEW a \in Attempts, Ended(a)
  PROVE  TcpInv'
<1>1. /\ closing[a] = "pending" /\ Pending(a) = {}
      /\ closing' = [closing EXCEPT ![a] = "resolved"]
      /\ UNCHANGED <<user, socket, attempts, conn, connected, sends, failed, fed, up>>
  BY DEF Ended
<1>2. TypeOK'
  BY <1>1 DEF TcpInv, TypeOK, PromiseStates
<1>3. SocketLife' /\ HeldIsOpen' /\ OneAtATime'
  BY <1>1 DEF TcpInv, TypeOK, SocketLife, HeldIsOpen, OneAtATime
<1>4. AwaitedErrorsInPlace' /\ ErrorsReachUser'
  BY <1>1 DEF TcpInv, TypeOK, AwaitedErrorsInPlace, OnlyLateErrors, ErrorsReachUser
<1>5. CloseAfterSends'
  BY <1>1, SendsStand DEF TcpInv, TypeOK
<1>6. QED
  BY <1>2, <1>3, <1>4, <1>5 DEF TcpInv

LEMMA SendStep ==
  ASSUME TcpInv, Send
  PROVE  TcpInv'
<1> DEFINE s == [on |-> socket, state |-> IF socket = NoSocket THEN "rejected" ELSE "pending"]
           r == Append(sends, s)
<1>1. /\ sends' = r
      /\ UNCHANGED <<user, socket, attempts, conn, connected, closing, failed, fed, up>>
  BY DEF Send
<1>2. s \in SendTypes /\ sends \in Seq(SendTypes) /\ s.on = socket
  BY DEF TcpInv, TypeOK, PromiseStates, SendTypes
<1> HIDE DEF s
<1>3. r \in Seq(SendTypes)
      /\ \A n \in DOMAIN r : (n \in DOMAIN sends /\ r[n] = sends[n]) \/ r[n] = s
  BY <1>2
<1> HIDE DEF r
<1>4. TypeOK'
  BY <1>1, <1>3 DEF TcpInv, TypeOK, SendTypes
<1>5. ASSUME NEW i \in Attempts, closing[i] = "resolved" PROVE Pending(i)' = {}
  <2>1. socket # i
    BY <1>5, TcpAssumption DEF TcpInv, HeldIsOpen, Attempts, NoSocket
  <2>2. s # [on |-> i, state |-> "pending"]
    BY <1>2, <2>1
  <2>3. Pending(i) = {}
    BY <1>5 DEF TcpInv, CloseAfterSends
  <2>4. QED
    BY <1>1, <1>3, <2>2, <2>3 DEF Pending
<1>6. CloseAfterSends'
  BY <1>1, <1>5 DEF CloseAfterSends
<1>7. QED
  BY <1>1, <1>4, <1>6 DEF TcpInv, SocketLife, HeldIsOpen, OneAtATime, AwaitedErrorsInPlace,
                          OnlyLateErrors, ErrorsReachUser

LEMMA SendSettlesStep ==
  ASSUME TcpInv, NEW n \in DOMAIN sends, NEW state \in {"resolved", "rejected"},
         SendSettles(n, state)
  PROVE  TcpInv'
<1> DEFINE r == [sends EXCEPT ![n].state = state]
<1>1. /\ sends' = r
      /\ UNCHANGED <<user, socket, attempts, conn, connected, closing, failed, fed, up>>
  BY DEF SendSettles
<1>2. sends \in Seq(SendTypes) /\ sends[n] \in SendTypes /\ DOMAIN sends = 1..Len(sends)
  <2>1. sends \in Seq(SendTypes)
    BY DEF TcpInv, TypeOK, SendTypes
  <2>2. DOMAIN sends = 1..Len(sends)
    BY <2>1
  <2>3. QED
    BY <2>1, <2>2, ElementOfSeq
<1>3. r = [sends EXCEPT ![n] = [sends[n] EXCEPT !.state = state]]
  OBVIOUS
<1>4. [sends[n] EXCEPT !.state = state] \in SendTypes
      /\ [sends[n] EXCEPT !.state = state].state = state
  BY <1>2 DEF SendTypes, PromiseStates
<1>5. /\ r \in Seq(SendTypes) /\ DOMAIN r = DOMAIN sends
      /\ \A k \in DOMAIN sends : k # n => r[k] = sends[k]
      /\ r[n].state = state
  BY <1>2, <1>3, <1>4, ExceptSeq
<1> HIDE DEF r
<1>6. TypeOK'
  BY <1>1, <1>5 DEF TcpInv, TypeOK, SendTypes
<1>7. \A i \in Attempts : Pending(i)' \subseteq Pending(i)
  BY <1>1, <1>5 DEF Pending
<1>8. CloseAfterSends'
  BY <1>1, <1>7 DEF TcpInv, CloseAfterSends
<1>9. QED
  BY <1>1, <1>6, <1>8 DEF TcpInv, SocketLife, HeldIsOpen, OneAtATime, AwaitedErrorsInPlace,
                          OnlyLateErrors, ErrorsReachUser

LEMMA TcpInvStep ==
  ASSUME TcpInv, [Next]_vars
  PROVE  TcpInv'
<1>1. ASSUME NEW a \in Attempts, PeerEnds(a) PROVE TcpInv'
  <2>1. /\ conn[a] \in {"open", "ending"} /\ conn' = [conn EXCEPT ![a] = "closed"]
        /\ UNCHANGED <<user, socket, attempts, connected, closing, sends, failed, fed, up>>
    BY <1>1 DEF PeerEnds
  <2>2. TypeOK' /\ SocketLife'
    BY <2>1 DEF TcpInv, TypeOK, SocketLife
  <2>3. CloseAfterSends'
    BY <2>1, SendsStand DEF TcpInv
  <2>4. QED
    BY <2>1, <2>2, <2>3 DEF TcpInv, HeldIsOpen, OneAtATime, AwaitedErrorsInPlace,
                            OnlyLateErrors, ErrorsReachUser
<1>2. ASSUME NEW a \in Attempts, Data(a) \/ DataThrows(a) PROVE TcpInv'
  <2>1. /\ fed' = Append(fed, a) /\ up' \in BOOLEAN
        /\ UNCHANGED <<user, socket, attempts, conn, connected, closing, sends, failed>>
    BY <1>2 DEF Data, DataThrows, Feeds, TcpInv, TypeOK
  <2>2. TypeOK'
    BY <2>1 DEF TcpInv, TypeOK
  <2>3. CloseAfterSends'
    BY <2>1, SendsStand DEF TcpInv
  <2>4. QED
    BY <2>1, <2>2, <2>3 DEF TcpInv, SocketLife, HeldIsOpen, OneAtATime, AwaitedErrorsInPlace,
                            OnlyLateErrors, ErrorsReachUser
<1>3. CASE UNCHANGED vars
  <2>1. CloseAfterSends'
    BY <1>3, SendsStand DEF TcpInv, vars
  <2>2. QED
    BY <1>3, <2>1 DEF vars, TcpInv, TypeOK, SocketLife, HeldIsOpen, OneAtATime,
                      AwaitedErrorsInPlace, OnlyLateErrors, ErrorsReachUser
<1>4. QED
  BY <1>1, <1>2, <1>3, ConnectStep, OpenedStep, SocketErrorStep, CloseStep, EndedStep,
     SendStep, SendSettlesStep DEF Next, Network

LEMMA TcpInvariant == Spec => []TcpInv
<1>1. TcpInv /\ [Next]_vars => TcpInv'
  BY TcpInvStep
<1>2. QED
  BY TcpInvInit, <1>1, PTL DEF Spec

-----------------------------------------------------------------------------
(***************************************************************************)
(* The theorems.                                                           *)
(***************************************************************************)

\* The types, and that the transport holds only a socket that opened.
THEOREM TypeInvariant == Spec => []TypeOK
<1>1. TcpInv => TypeOK
  BY DEF TcpInv
<1>2. QED
  BY TcpInvariant, <1>1, PTL

\* A close() that resolved leaves no send() of its socket undecided, however many sockets
\* overlap.
THEOREM CloseIsLast == Spec => []CloseAfterSends
<1>1. TcpInv => CloseAfterSends
  BY DEF TcpInv
<1>2. QED
  BY TcpInvariant, <1>1, PTL

\* For a user that awaits connect() and close(), onSocketError gets no error of a connect()
\* that has not resolved.
THEOREM ErrorsAreLate == Spec => []AwaitedErrorsInPlace
<1>1. TcpInv => AwaitedErrorsInPlace
  BY DEF TcpInv
<1>2. QED
  BY TcpInvariant, <1>1, PTL

\* For such a user no error of a connection it has not closed is lost.
THEOREM ErrorsAreSeen == Spec => []ErrorsReachUser
<1>1. TcpInv => ErrorsReachUser
  BY DEF TcpInv
<1>2. QED
  BY TcpInvariant, <1>1, PTL
=============================================================================
