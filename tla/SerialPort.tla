----------------------------- MODULE SerialPort -----------------------------
(***************************************************************************)
(* SerialPortTransport (src/src/transports/serial.ts): start(), send() and *)
(* stop() of one transport, whose single FrameParser is fed by every port  *)
(* the transport ever had.                                                 *)
(*                                                                         *)
(* With opts.port the port is port 1, open from the beginning; with        *)
(* opts.path every start() makes a port of the serialport package after    *)
(* awaiting its import, and that port opens (or fails to) later.  A port   *)
(* that was given belongs to its owner, who may open it again.  Without    *)
(* either start() throws before it changes anything.                       *)
(*                                                                         *)
(* Each opening of a port is a connection, numbered in the order in which  *)
(* they are made.  The device sends frames in two chunks: of a connection  *)
(* the chunks with odd numbers are first halves, those with even numbers   *)
(* second halves, and the first chunk that is read may be either.          *)
(*                                                                         *)
(* What is relied on of serialport: a port opens on its own after it is    *)
(* constructed, two ports are not open on one device, close() of a port    *)
(* that is not open calls back with an error and changes nothing, data may *)
(* come until close() has called back, and a port that is opened again has *)
(* the listeners it had.                                                   *)
(***************************************************************************)
EXTENDS Integers, Sequences

CONSTANTS
  Givens,      \* the options modelled: TRUE with opts.port, FALSE with opts.path
  MaxStarts,   \* bound on the calls of start(), and on the openings of a given port
  MaxChunks,   \* bound on the chunks fed
  Users        \* the users modelled: "any"; "awaits", one that awaits start() before
               \* stop() and stop() before the next start(); "reopens", one that does
               \* so too and may open a given port again

ASSUME SerialAssumption ==
  /\ Givens \subseteq BOOLEAN /\ Users \subseteq {"any", "awaits", "reopens"}
  /\ MaxStarts \in Nat \ {0} /\ MaxChunks \in Nat

NoPort == 0
Ports == 1..MaxStarts

VARIABLES
  given,      \* opts.port is set
  user,       \* which of the Users this one is
  port,       \* this.port
  starts,     \* bound: how many times start() was called
  importing,  \* the calls of start() that await the import
  ports,      \* the ports: none, opening, open, closing, closed
  listeners,  \* how many "data" listeners each port has
  stopping,   \* the promises of the calls of stop() that took a port, by port
  stopAt,     \* history: how many starts there were when stop() took the port
  stopped,    \* history: a stop() has resolved and start() was not called since
              \* that stop()
  conns,      \* how many connections there were
  conn,       \* the last connection of each port
  chunk,      \* the number of the chunk that each port's device sends next
  fed,        \* history: connection and number of the chunks pushed to this.parser
  reported,   \* history: how many errors went to opts.onError
  up          \* the process runs: FALSE after an exception that nobody catches

options == <<given, user>>
device == <<conns, conn, chunk>>
history == <<fed, reported, up>>

vars == <<options, port, starts, importing, ports, listeners, stopping, stopAt, stopped,
          device, history>>

Init ==
  /\ given \in Givens /\ user \in Users
  /\ port = NoPort /\ starts = 0 /\ importing = {}
  /\ ports = [p \in Ports |-> IF given /\ p = 1 THEN "open" ELSE "none"]
  /\ listeners = [p \in Ports |-> 0]
  /\ stopping = [p \in Ports |-> "none"]
  /\ stopAt = [p \in Ports |-> 0] /\ stopped = FALSE
  /\ conns = IF given THEN 1 ELSE 0
  /\ conn = [p \in Ports |-> IF given /\ p = 1 THEN 1 ELSE 0]
  /\ \E first \in 1..2 : chunk = [p \in Ports |-> first]
  /\ fed = <<>> /\ reported = 0 /\ up = TRUE

-----------------------------------------------------------------------------
(***************************************************************************)
(* start().                                                                *)
(***************************************************************************)
UserMayStart ==
  user # "any" =>
    /\ importing = {} /\ port = NoPort
    /\ \A p \in Ports : stopping[p] # "pending"

UserMayStop ==
  user # "any" => importing = {} /\ \A p \in Ports : stopping[p] # "pending"

\* Wrong on purpose: forgets the "data" listener.
AttachNoData(p) ==
  /\ port' = p
  /\ UNCHANGED listeners

\* this.port = port; port.on("data", ...).
Attach(p) ==
  /\ port' = p
  /\ listeners' = [listeners EXCEPT ![p] = @ + 1]

\* With opts.port nothing is awaited.
StartGiven ==
  /\ given /\ starts < MaxStarts /\ UserMayStart
  /\ starts' = starts + 1
  /\ Attach(1)
  /\ stopped' = FALSE
  /\ UNCHANGED <<options, importing, ports, stopping, stopAt, device, history>>

StartPath ==
  /\ ~given /\ starts < MaxStarts /\ UserMayStart
  /\ starts' = starts + 1
  /\ importing' = importing \cup {starts + 1}
  /\ stopped' = FALSE
  /\ UNCHANGED <<options, port, ports, listeners, stopping, stopAt, device, history>>

\* The import is rejected, or the constructor of the port throws: start() rejects.
ImportFails(p) ==
  /\ p \in importing
  /\ importing' = importing \ {p}
  /\ UNCHANGED <<options, port, starts, ports, listeners, stopping, stopAt, stopped,
                 device, history>>

\* The rest of start(), after the import.
Imported(p) ==
  /\ p \in importing
  /\ importing' = importing \ {p}
  /\ ports' = [ports EXCEPT ![p] = "opening"]
  /\ Attach(p)
  /\ UNCHANGED <<options, starts, stopping, stopAt, stopped, device, history>>

-----------------------------------------------------------------------------
(***************************************************************************)
(* The ports.                                                              *)
(***************************************************************************)

\* A new connection, which may begin within a frame.
Connects(p) ==
  /\ ports' = [ports EXCEPT ![p] = "open"]
  /\ conns' = conns + 1
  /\ conn' = [conn EXCEPT ![p] = conns + 1]
  /\ \E first \in 1..2 : chunk' = [chunk EXCEPT ![p] = first]
  /\ UNCHANGED <<options, port, starts, importing, listeners, stopping, stopAt, stopped,
                 history>>

PortOpens(p) ==
  /\ ports[p] = "opening"
  /\ \A q \in Ports : ports[q] \notin {"open", "closing"}
  /\ Connects(p)

\* The owner of a given port opens it again.
OwnerReopens ==
  /\ given /\ user # "awaits" /\ conns < MaxStarts
  /\ ports[1] = "closed"
  /\ Connects(1)

\* A port that cannot be opened, or breaks: every "error" listener calls onError.
\* A close() under way then calls back.
PortFails(p) ==
  /\ ports[p] \in {"opening", "open", "closing"}
  /\ ports' = [ports EXCEPT ![p] = "closed"]
  /\ reported' = reported + listeners[p]
  /\ stopping' = [stopping EXCEPT ![p] = IF @ = "pending" THEN "resolved" ELSE @]
  /\ stopped' = (stopped \/ (stopping[p] = "pending" /\ stopAt[p] = starts))
  /\ UNCHANGED <<options, port, starts, importing, listeners, stopAt, device, fed, up>>

\* The chunk that the device sends next is pushed n times to the one parser of the
\* transport.
Feeds(p, n) ==
  /\ ports[p] \in {"open", "closing"} /\ listeners[p] > 0
  /\ Len(fed) + listeners[p] <= MaxChunks
  /\ fed' = fed \o [k \in 1..n |-> <<conn[p], chunk[p]>>]
  /\ chunk' = [chunk EXCEPT ![p] = @ + 1]
  /\ UNCHANGED <<options, port, starts, importing, ports, listeners, stopping, stopAt, stopped,
                 conns, conn, reported>>

\* Every "data" listener pushes it.
Data(p) == Feeds(p, listeners[p]) /\ UNCHANGED up

\* push() throws in one of them (a bad frame without onDecodeError, or a listener of the hub
\* that throws), and nobody catches it.
DataThrows(p) == (\E n \in 1..listeners[p] : Feeds(p, n)) /\ up' = FALSE

-----------------------------------------------------------------------------
(***************************************************************************)
(* stop().                                                                 *)
(***************************************************************************)

\* Wrong on purpose: forgets the port without closing it.
StopForgets ==
  /\ UserMayStop /\ port # NoPort
  /\ port' = NoPort
  /\ stopAt' = [stopAt EXCEPT ![port] = starts]
  /\ stopping' = [stopping EXCEPT ![port] = "resolved"]
  /\ stopped' = TRUE
  /\ UNCHANGED <<options, starts, importing, ports, listeners, device, history>>

\* A port that is not open refuses to close, and this.port is gone already.
Stop ==
  /\ UserMayStop /\ port # NoPort
  /\ port' = NoPort
  /\ stopAt' = [stopAt EXCEPT ![port] = starts]
  /\ IF ports[port] = "open"
       THEN /\ ports' = [ports EXCEPT ![port] = "closing"]
            /\ stopping' = [stopping EXCEPT ![port] = "pending"]
       ELSE /\ stopping' = [stopping EXCEPT ![port] = "rejected"]
            /\ UNCHANGED ports
  /\ UNCHANGED <<options, starts, importing, listeners, stopped, device, history>>

\* Without a port stop() resolves at once.
StopIdle ==
  /\ UserMayStop /\ port = NoPort
  /\ stopped' = TRUE
  /\ UNCHANGED <<options, port, starts, importing, ports, listeners, stopping, stopAt,
                 device, history>>

\* Wrong on purpose: close() calls back while the port is still open.
StopSettlesEarly(p) ==
  /\ stopping[p] = "pending"
  /\ stopping' = [stopping EXCEPT ![p] = "resolved"]
  /\ stopped' = (stopped \/ stopAt[p] = starts)
  /\ UNCHANGED <<options, port, starts, importing, ports, listeners, stopAt,
                 device, history>>

\* The callback of close().
StopSettles(p) ==
  /\ stopping[p] = "pending"
  /\ ports' = [ports EXCEPT ![p] = "closed"]
  /\ stopping' = [stopping EXCEPT ![p] = "resolved"]
  /\ stopped' = (stopped \/ stopAt[p] = starts)
  /\ UNCHANGED <<options, port, starts, importing, listeners, stopAt,
                 device, history>>

Next ==
  /\ up
  /\ \/ StartGiven \/ StartPath \/ Stop \/ StopIdle \/ OwnerReopens
     \/ \E p \in Ports :
          \/ ImportFails(p) \/ Imported(p) \/ PortOpens(p) \/ PortFails(p)
          \/ Data(p) \/ DataThrows(p) \/ StopSettles(p)

Spec == Init /\ [][Next]_vars

-----------------------------------------------------------------------------
(***************************************************************************)
(* Properties.                                                             *)
(***************************************************************************)

\* The types of the variables; the port of a started transport is listened to.
TypeOK ==
  /\ given \in Givens /\ user \in Users
  /\ port \in Ports \cup {NoPort} /\ starts \in 0..MaxStarts
  /\ importing \subseteq Ports
  /\ ports \in [Ports -> {"none", "opening", "open", "closing", "closed"}]
  /\ listeners \in [Ports -> Nat]
  /\ stopping \in [Ports -> {"none", "pending", "resolved", "rejected"}]
  /\ stopAt \in [Ports -> 0..MaxStarts] /\ stopped \in BOOLEAN
  /\ conns \in Nat /\ conn \in [Ports -> 0..conns] /\ chunk \in [Ports -> Nat \ {0}]
  /\ fed \in Seq((0..conns) \X (Nat \ {0})) /\ reported \in Nat /\ up \in BOOLEAN
  /\ port # NoPort => listeners[port] > 0

\* The chunk b may come behind a: it is the next one of the same connection, or the first
\* that is read of a later one.
Follows(a, b) == b = <<a[1], a[2] + 1>> \/ (a[1] < b[1] /\ b[2] \in 1..2)

\* A given port that is started more than once, before stop() or after it when the owner has
\* opened it again, has as many listeners, and what they are given comes twice or more.
MayRepeat == given /\ user # "awaits" /\ starts > 1

\* Over any number of starts, stops, failures and reopenings the one parser is fed the
\* chunks of each connection in order, none left out, and those of an old port never behind
\* those of a newer one.  A chunk comes once, or more than once in a row as MayRepeat says:
\* never with opts.path, and never with a given port that nobody opens again and whose user
\* awaits start() and stop().
FramesWhole ==
  /\ fed # <<>> => fed[1][2] \in 1..2
  /\ \A n \in 1..(Len(fed) - 1) :
       Follows(fed[n], fed[n + 1]) \/ (MayRepeat /\ fed[n] = fed[n + 1])

\* Once stop() has resolved nothing more is fed to the parser until the next
\* start(), for a user that awaits both and as long as no stop() was rejected (which
\* leaves a port that the transport has forgotten).
QuietAfterStop ==
  [][user = "awaits" /\ stopped /\ (\A p \in Ports : stopping[p] # "rejected")
     => UNCHANGED fed]_vars
=============================================================================
