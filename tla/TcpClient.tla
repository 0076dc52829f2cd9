----------------------------- MODULE TcpClient -----------------------------
(***************************************************************************)
(* TcpClientTransport (src/src/transports/tcp-client.ts): one transport,   *)
(* whose connect() makes a new socket each time, and the network that      *)
(* opens, breaks and ends those sockets.                                   *)
(*                                                                         *)
(* A socket is named by the number of the connect() that made it.  Of what *)
(* is received only the socket is kept: the hub's parser is shared, so the *)
(* order of the chunks of different sockets is what matters to it.         *)
(*                                                                         *)
(* The sockets are node:net's: this module relies on what tcp-client.ts    *)
(* relies on, that end() still flushes what was written, that it leaves    *)
(* the receiving side open, and that callbacks are called also when the    *)
(* socket is destroyed.                                                    *)
(***************************************************************************)
EXTENDS Integers, Sequences

CONSTANTS
  MaxConnects,  \* bound on the calls of connect()
  MaxSends,     \* bound on the calls of send()
  MaxChunks,    \* bound on the chunks received
  Users         \* the users modelled: "any", or "awaits", one that awaits every
                \* connect() and, before connecting again, has closed whatever
                \* it connected

ASSUME TcpAssumption ==
  /\ MaxConnects \in Nat /\ MaxSends \in Nat /\ MaxChunks \in Nat
  /\ Users \subseteq {"any", "awaits"}

NoSocket == 0
Attempts == 1..MaxConnects

VARIABLES
  user,      \* which of the Users this one is
  socket,    \* this.socket
  attempts,  \* bound: how many times connect() was called
  conn,      \* the sockets: connecting, open, ending (end() was called), closed
  connected, \* the promises of connect()
  closing,   \* the promises of close(), by the socket it took
  sends,     \* the promises of send(): the socket each wrote to and its state
  failed,    \* where the error of a socket went
  fed,       \* history: the sockets of the chunks given to hub.feedStream
  up         \* the process runs: FALSE after an exception that nobody catches

vars == <<user, socket, attempts, conn, connected, closing, sends, failed, fed, up>>

PromiseStates == {"none", "pending", "resolved", "rejected"}

Init ==
  /\ user \in Users
  /\ socket = NoSocket /\ attempts = 0
  /\ conn = [i \in Attempts |-> "none"]
  /\ connected = [i \in Attempts |-> "none"]
  /\ closing = [i \in Attempts |-> "none"]
  /\ sends = <<>>
  /\ failed = [i \in Attempts |-> "none"]
  /\ fed = <<>> /\ up = TRUE

Pending(i) == {n \in DOMAIN sends : sends[n] = [on |-> i, state |-> "pending"]}

-----------------------------------------------------------------------------
(***************************************************************************)
(* connect() and what becomes of it.                                       *)
(***************************************************************************)
UserMayConnect ==
  user = "awaits" =>
    \A i \in 1..attempts :
      connected[i] = "rejected" \/ closing[i] = "resolved"

\* Wrong on purpose: takes the socket before it is open.
ConnectTakesSocket ==
  /\ attempts < MaxConnects /\ UserMayConnect
  /\ attempts' = attempts + 1
  /\ conn' = [conn EXCEPT ![attempts + 1] = "connecting"]
  /\ connected' = [connected EXCEPT ![attempts + 1] = "pending"]
  /\ socket' = attempts + 1
  /\ UNCHANGED <<user, closing, sends, failed, fed, up>>

Connect ==
  /\ attempts < MaxConnects /\ UserMayConnect
  /\ attempts' = attempts + 1
  /\ conn' = [conn EXCEPT ![attempts + 1] = "connecting"]
  /\ connected' = [connected EXCEPT ![attempts + 1] = "pending"]
  /\ UNCHANGED <<user, socket, closing, sends, failed, fed, up>>

\* Wrong on purpose: resolves without keeping the socket.
OpenedForgetsSocket(i) ==
  /\ conn[i] = "connecting"
  /\ conn' = [conn EXCEPT ![i] = "open"]
  /\ connected' = [connected EXCEPT ![i] = "resolved"]
  /\ UNCHANGED <<user, socket, attempts, closing, sends, failed, fed, up>>

\* The connection listener given to net.createConnection.
Opened(i) ==
  /\ conn[i] = "connecting"
  /\ conn' = [conn EXCEPT ![i] = "open"]
  /\ socket' = i
  /\ connected' = [connected EXCEPT ![i] = "resolved"]
  /\ UNCHANGED <<user, attempts, closing, sends, failed, fed, up>>

\* reject() of a promise that is settled does nothing.
Reject(i) ==
  IF connected[i] = "pending"
    THEN /\ connected' = [connected EXCEPT ![i] = "rejected"]
         /\ failed' = [failed EXCEPT ![i] = "rejected"]
    ELSE /\ failed' = [failed EXCEPT ![i] = "swallowed"]
         /\ UNCHANGED connected

\* Wrong on purpose: the error of every attempt goes to onSocketError.
SocketErrorReportsOnly(i) ==
  /\ conn[i] \in {"connecting", "open", "ending"}
  /\ conn' = [conn EXCEPT ![i] = "closed"]
  /\ failed' = [failed EXCEPT ![i] = "reported"] /\ UNCHANGED connected
  /\ UNCHANGED <<user, socket, attempts, closing, sends, fed, up>>

\* The listener of "error": an attempt that fails, or a connection that breaks.
\* It asks whether the transport has a socket, whichever that is.
SocketError(i) ==
  /\ conn[i] \in {"connecting", "open", "ending"}
  /\ conn' = [conn EXCEPT ![i] = "closed"]
  /\ IF socket = NoSocket
       THEN Reject(i)
       ELSE failed' = [failed EXCEPT ![i] = "reported"] /\ UNCHANGED connected
  /\ UNCHANGED <<user, socket, attempts, closing, sends, fed, up>>

Feeds(i) ==
  /\ conn[i] \in {"open", "ending"}
  /\ Len(fed) < MaxChunks
  /\ fed' = Append(fed, i)
  /\ UNCHANGED <<user, socket, attempts, conn, connected, closing, sends, failed>>

\* The listener of "data".
Data(i) == Feeds(i) /\ UNCHANGED up

\* hub.feedStream throws (a bad frame without onDecodeError, or a listener of the hub that
\* throws), and nobody catches it.
DataThrows(i) == Feeds(i) /\ up' = FALSE

\* The peer ends the connection and node:net closes it: there is no listener for
\* "end" or "close", so this.socket stays.
PeerEnds(i) ==
  /\ conn[i] \in {"open", "ending"}
  /\ conn' = [conn EXCEPT ![i] = "closed"]
  /\ UNCHANGED <<user, socket, attempts, connected, closing, sends, failed, fed, up>>

-----------------------------------------------------------------------------
(***************************************************************************)
(* send() and close().                                                     *)
(***************************************************************************)
Send ==
  /\ Len(sends) < MaxSends
  /\ sends' = Append(sends,
       [on |-> socket,
        state |-> IF socket = NoSocket THEN "rejected" ELSE "pending"])
  /\ UNCHANGED <<user, socket, attempts, conn, connected, closing, failed, fed, up>>

\* The callback of write().
SendSettles(n, state) ==
  /\ sends[n].state = "pending"
  /\ state = "resolved" => conn[sends[n].on] \in {"open", "ending"}
  /\ state = "rejected" => conn[sends[n].on] = "closed"
  /\ sends' = [sends EXCEPT ![n].state = state]
  /\ UNCHANGED <<user, socket, attempts, conn, connected, closing, failed, fed, up>>

\* Wrong on purpose: does not forget the socket.
CloseKeepsSocket ==
  /\ socket # NoSocket
  /\ closing' = [closing EXCEPT ![socket] = IF @ = "none" THEN "pending" ELSE @]
  /\ conn' = [conn EXCEPT ![socket] = IF @ = "open" THEN "ending" ELSE @]
  /\ UNCHANGED <<user, socket, attempts, connected, sends, failed, fed, up>>

\* Wrong on purpose: resolves without waiting for end().
CloseAtOnce ==
  /\ socket # NoSocket
  /\ closing' = [closing EXCEPT ![socket] = "resolved"]
  /\ conn' = [conn EXCEPT ![socket] = IF @ = "open" THEN "ending" ELSE @]
  /\ socket' = NoSocket
  /\ UNCHANGED <<user, attempts, connected, sends, failed, fed, up>>

\* close() without a socket resolves at once and changes nothing.
Close ==
  /\ socket # NoSocket
  /\ closing' = [closing EXCEPT ![socket] = "pending"]
  /\ conn' = [conn EXCEPT ![socket] = IF @ = "open" THEN "ending" ELSE @]
  /\ socket' = NoSocket
  /\ UNCHANGED <<user, attempts, connected, sends, failed, fed, up>>

\* The callback of end(): everything written is flushed, or the socket is gone.
Ended(i) ==
  /\ closing[i] = "pending"
  /\ Pending(i) = {}
  /\ closing' = [closing EXCEPT ![i] = "resolved"]
  /\ UNCHANGED <<user, socket, attempts, conn, connected, sends, failed, fed, up>>

Network(i) == Opened(i) \/ SocketError(i) \/ PeerEnds(i)

Next ==
  /\ up
  /\ \/ Connect \/ Send \/ Close
     \/ \E i \in Attempts : Network(i) \/ Data(i) \/ DataThrows(i) \/ Ended(i)
     \/ \E n \in DOMAIN sends, state \in {"resolved", "rejected"} : SendSettles(n, state)

Spec == Init /\ [][Next]_vars

Decided(i) == up /\ (Opened(i) \/ (conn[i] = "connecting" /\ SocketError(i)))

\* Every attempt is decided at last: the operating system gives up connecting
\* after its timeout.
FairSpec == Spec /\ \A i \in Attempts : WF_vars(Decided(i))

-----------------------------------------------------------------------------
(***************************************************************************)
(* Properties.                                                             *)
(***************************************************************************)

\* The types of the variables; the transport holds only a socket that opened.
TypeOK ==
  /\ user \in Users
  /\ socket \in Attempts \cup {NoSocket}
  /\ attempts \in 0..MaxConnects
  /\ conn \in [Attempts -> {"none", "connecting", "open", "ending", "closed"}]
  /\ connected \in [Attempts -> PromiseStates]
  /\ closing \in [Attempts -> PromiseStates]
  /\ sends \in Seq([on : Attempts \cup {NoSocket}, state : PromiseStates])
  /\ failed \in [Attempts -> {"none", "rejected", "reported", "swallowed"}]
  /\ fed \in Seq(Attempts) /\ up \in BOOLEAN
  /\ socket # NoSocket => connected[socket] = "resolved"

\* When close() has resolved, every frame given to send() on that socket was
\* written or has failed: none is still under way.
CloseAfterSends == \A i \in Attempts : closing[i] = "resolved" => Pending(i) = {}

\* onSocketError is "called for socket errors after connect() resolves": never
\* for a connect() that has not.
OnlyLateErrors ==
  \A i \in Attempts : failed[i] = "reported" => connected[i] = "resolved"

\* It is so for a user that awaits connect() and close(), also when connections
\* break or are refused in between.
AwaitedErrorsInPlace == user = "awaits" => OnlyLateErrors

\* For such a user an error of a connection it has not closed goes to the promise
\* of connect() or to onSocketError, never to a promise that is settled.
ErrorsReachUser ==
  user = "awaits" =>
    \A i \in Attempts : failed[i] = "swallowed" => closing[i] # "none"

\* Every connect() of such a user resolves or rejects, unless the process ends.
ConnectSettles ==
  \A i \in Attempts :
    user = "awaits" /\ connected[i] = "pending"
      ~> connected[i] \in {"resolved", "rejected"} \/ ~up

\* "Feed bytes from one connection.  Do not interleave multiple sockets here": once
\* the hub's stream parser got bytes of a connection, it gets none of an earlier.
OneConnectionAtATime ==
  \A m, n \in DOMAIN fed : m < n => fed[m] <= fed[n]
=============================================================================
