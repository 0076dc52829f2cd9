----------------------------- MODULE HostLinks -----------------------------
(***************************************************************************)
(* How frames come to the coach's FleetHub over IP: UdpSenderTransport and *)
(* UdpListenerTransport (src/src/transports/udp-*.ts), TcpServerTransport  *)
(* (src/src/transports/tcp-server.ts), and the WebSocket server of         *)
(* src/examples/ws-bun-server.ts, which does as the TCP server does.       *)
(*                                                                         *)
(* Boats measure, scale, encode and send telemetry with the library, or    *)
(* send the numbers of a struct with the firmware, and the host decodes    *)
(* them: Telemetry, Crc32 and Frame put together.                          *)
(*                                                                         *)
(* The three transports start and stop in the same way: start() keeps the  *)
(* new socket before it is bound, stop() forgets it before it is closed.   *)
(* One socket is one call of start().  A client is one connection; it      *)
(* writes numbered frames, each read as two halves.  A datagram holds one  *)
(* frame and is lost, doubled or overtaken.  Frames of BadFrames were      *)
(* damaged on their way.                                                   *)
(*                                                                         *)
(* Relied on of node:dgram and node:net: a port has one socket; close()    *)
(* while the address is looked up ends a datagram socket without a word    *)
(* to who waits for it, and fails for a server, which may yet listen;      *)
(* connect() of a datagram socket binds it first, and when it fails then,  *)
(* it calls the callback, not "error", and the socket stays bound; a       *)
(* datagram socket that is not connected does not send; a server is closed *)
(* once its connections have ended; an "error" without listener ends the   *)
(* process, as an uncaught exception does.                                 *)
(***************************************************************************)
EXTENDS Telemetry, Crc32

CONSTANTS
  Magic, MaxPayload, TelemetrySize,  \* see Frame
  Reading(_, _),  \* what was measured for the frame of a sender and a number
  Firmware,       \* the senders that run the firmware, not the library
  Collected(_, _), \* what bc_collect_telemetry gave for the frame of such a sender
  Kinds,          \* the links modelled: subset of {"udp", "tcp", "ws"}
  Users,          \* the users modelled: "any", or "awaits", one that awaits
                  \* start() and stop(), and stops what has started before it
                  \* starts again
  OnDecodeErrors, \* whether the hub has the option onDecodeError: the choices
  Clients,        \* the connections that may be made to the host
  BadFrames,      \* the numbers of the damaged frames
  MaxStarts,      \* bound on the calls of start() of each transport
  MaxFrames,      \* bound on the frames of each client
  MaxSent,        \* bound on the datagrams sent
  MaxHeard        \* bound on the datagrams received

ASSUME HostAssumption ==
  /\ Kinds \subseteq {"udp", "tcp", "ws"} /\ Users \subseteq {"any", "awaits"}
  /\ OnDecodeErrors \subseteq BOOLEAN
  /\ MaxStarts \in Nat \ {0} /\ MaxFrames \in Nat /\ MaxSent \in 0..MaxFrames /\ MaxHeard \in Nat
  /\ "udp" \notin Clients

\* The payload of a telemetry summary has 26 bytes; what latLonToE7 gives fits an int32, a
\* number of a frame a uint32.
ASSUME WireAssumption ==
  /\ Magic \in Seq(Nat) /\ Len(Magic) > 0
  /\ TelemetrySize = 26 /\ MaxPayload \in Nat /\ MaxPayload >= TelemetrySize
  /\ 2 * LatLonLimit <= MaxU32 /\ MaxFrames <= MaxU32

Senders == Clients \cup {"udp"}

\* A sensor measures latitudes of this world.
ASSUME ReadingAssumption ==
  \A from \in Senders \ Firmware, n \in 1..MaxFrames :
    LET r == Reading(from, n)
    IN  /\ {r.lat, r.lon, r.speed, r.spm} \subseteq [finite : BOOLEAN, tenths : Int]
        /\ r.lat.finite => r.lat.tenths \in -900 * DegScale..900 * DegScale

\* The numbers of the struct have the types of C; which they are is up to the sensors.
ASSUME CollectedAssumption ==
  \A from \in Senders \cap Firmware, n \in 1..MaxFrames :
    Collected(from, n) \in BcTelemetrySummaryV1

HostCrc(data) == crc32(data, Ones)
INSTANCE Frame WITH Crc <- HostCrc

Transports == {"sender", "listener", "server"}
Numbers == 1..MaxStarts

VARIABLES
  kind, user, onDecodeError,  \* which of the choices these are
  handle,    \* this.socket, this.server: the number of a start(), 0 for null
  starts,    \* how many times start() was called
  sock,      \* the sockets: none, opening, bound, open, failed, closing, closed; one of
             \* the sender is open when it is connected
  started,   \* the promises of start()
  stopping,  \* the promises of stop(), by the socket it took
  armed,     \* the listener once("error", reject) has not been called
  conn,      \* the server each client is connected to, and whether it still is
  read,      \* how many halves were read from each client
  parsers,   \* the half frame each client's parser holds
  net,       \* the datagrams under way
  sent,      \* how many frames were given to sendFrame()
  heard,     \* history: the frames dispatched: sender, number, telemetry
  up         \* the process runs

options == <<kind, user, onDecodeError>>
life == <<handle, starts, sock, started, stopping, armed>>
traffic == <<conn, read, parsers, net, sent, heard>>
vars == <<options, life, traffic, up>>

InUse == CASE kind = "udp" -> {"sender", "listener"}
           [] kind = "tcp" -> {"server"}
           [] OTHER        -> {}

Empty == <<>>

Init ==
  /\ kind \in Kinds /\ user \in Users /\ onDecodeError \in OnDecodeErrors
  /\ handle = [e \in Transports |-> 0] /\ starts = [e \in Transports |-> 0]
  /\ sock = [e \in Transports |-> [i \in Numbers |-> "none"]]
  /\ started = sock /\ stopping = sock
  /\ armed = [e \in Transports |-> [i \in Numbers |-> FALSE]]
  /\ conn = [c \in Clients |-> [to |-> 0, open |-> FALSE]]
  /\ read = [c \in Clients |-> 0] /\ parsers = [c \in Clients |-> Empty]
  /\ net = {} /\ sent = 0 /\ heard = <<>> /\ up = TRUE

-----------------------------------------------------------------------------
(***************************************************************************)
(* start() and what becomes of the socket.                                 *)
(***************************************************************************)
Settled(e) ==
  \A i \in Numbers : started[e][i] # "pending" /\ stopping[e][i] # "pending"

Start(e) ==
  LET i == starts[e] + 1
  IN  /\ e \in InUse /\ i \in Numbers
      /\ user = "awaits" =>
           Settled(e) /\ handle[e] \in {0} \cup {j \in Numbers : started[e][j] = "rejected"}
      /\ starts' = [starts EXCEPT ![e] = i]
      /\ handle' = [handle EXCEPT ![e] = i]
      /\ sock' = [sock EXCEPT ![e][i] = "opening"]
      /\ started' = [started EXCEPT ![e][i] = "pending"]
      /\ armed' = [armed EXCEPT ![e][i] = TRUE]
      /\ UNCHANGED <<stopping, traffic, up>>

\* The callback of bind(), connect() and listen().
Opened(e, i) ==
  /\ sock[e][i] = "opening"
  /\ e = "sender" \/ \A j \in Numbers : sock[e][j] # "open"
  /\ sock' = [sock EXCEPT ![e][i] = "open"]
  /\ started' = [started EXCEPT ![e][i] = "resolved"]
  /\ UNCHANGED <<handle, starts, stopping, armed, traffic, up>>

\* Wrong on purpose: nobody listens for the error.
OpenFailsUnheard(e, i) ==
  /\ sock[e][i] = "opening"
  /\ sock' = [sock EXCEPT ![e][i] = "failed"]
  /\ UNCHANGED <<handle, starts, started, stopping, armed, traffic, up>>

\* bind() or listen() fails: "error" calls reject().
OpenFails(e, i) ==
  /\ sock[e][i] = "opening"
  /\ sock' = [sock EXCEPT ![e][i] = "failed"]
  /\ started' = [started EXCEPT ![e][i] = "rejected"]
  /\ armed' = [armed EXCEPT ![e][i] = FALSE]
  /\ UNCHANGED <<handle, starts, stopping, traffic, up>>

\* connect() fails on the socket that it has bound: resolve() is called all the same.
ConnectFails(i) ==
  /\ sock["sender"][i] = "opening"
  /\ sock' = [sock EXCEPT !["sender"][i] = "bound"]
  /\ started' = [started EXCEPT !["sender"][i] = "resolved"]
  /\ UNCHANGED <<handle, starts, stopping, armed, traffic, up>>

\* An error of a socket in use: the first is swallowed by the settled promise.
LateError(e, i) ==
  /\ sock[e][i] \in {"bound", "open"}
  /\ armed' = [armed EXCEPT ![e][i] = FALSE]
  /\ up' = armed[e][i]
  /\ UNCHANGED <<handle, starts, sock, started, stopping, traffic>>

-----------------------------------------------------------------------------
(***************************************************************************)
(* stop().                                                                 *)
(***************************************************************************)
CloseOutcomes(e, i) ==
  IF e # "server" \/ sock[e][i] = "open" THEN {<<"closing", "pending">>}
  ELSE {<<sock[e][i], "rejected">>, <<"closed", "rejected">>}

\* Wrong on purpose: forgets the socket without closing it.
StopForgets(e) ==
  LET i == handle[e]
  IN  /\ i # 0 /\ (user = "awaits" => Settled(e))
      /\ handle' = [handle EXCEPT ![e] = 0]
      /\ stopping' = [stopping EXCEPT ![e][i] = "resolved"]
      /\ UNCHANGED <<starts, sock, started, armed, traffic, up>>

\* Wrong on purpose: does not forget the socket.
StopKeepsSocket(e) ==
  LET i == handle[e]
  IN  /\ i # 0 /\ (user = "awaits" => Settled(e))
      /\ \E o \in CloseOutcomes(e, i) :
           /\ sock' = [sock EXCEPT ![e][i] = o[1]]
           /\ stopping' = [stopping EXCEPT ![e][i] = o[2]]
      /\ UNCHANGED <<handle, starts, started, armed, traffic, up>>

\* Without a socket stop() resolves and changes nothing.
Stop(e) ==
  LET i == handle[e]
  IN  /\ i # 0 /\ (user = "awaits" => Settled(e))
      /\ handle' = [handle EXCEPT ![e] = 0]
      /\ \E o \in CloseOutcomes(e, i) :
           /\ sock' = [sock EXCEPT ![e][i] = o[1]]
           /\ stopping' = [stopping EXCEPT ![e][i] = o[2]]
      /\ UNCHANGED <<starts, started, armed, traffic, up>>

Connected(c, i) == conn[c].open /\ conn[c].to = i

\* The callback of close().
Closed(e, i) ==
  /\ sock[e][i] = "closing"
  /\ e = "server" => \A c \in Clients : ~Connected(c, i)
  /\ sock' = [sock EXCEPT ![e][i] = "closed"]
  /\ stopping' = [stopping EXCEPT ![e][i] = "resolved"]
  /\ UNCHANGED <<handle, starts, started, armed, traffic, up>>

-----------------------------------------------------------------------------
(***************************************************************************)
(* Frames, from measuring to dispatch.                                     *)
(***************************************************************************)
\* encodeTelemetrySummaryFrame, with boat 1.
LibraryFrame(n, payload) ==
  EncodeFrame([version |-> ProtocolVersion, msgType |-> TelemetrySummary, boatId |-> 1,
               seq |-> n, payload |-> payload])

\* bc_build_telemetry_frame.
FirmwareFrame(n, payload) ==
  LET body == Magic \o <<1, 1, 1, n, Len(payload)>> \o payload
  IN  Append(body, bc_crc32(body))

\* One bit of the first byte of the payload has flipped.
Damaged(b) ==
  [b EXCEPT ![FrameHeaderSize + 1] = IF @ % 2 = 0 THEN @ + 1 ELSE @ - 1]

OnWire(from, n) ==
  LET r == Reading(from, n)
      b == IF from \in Firmware
             THEN FirmwareFrame(n, StructBytes(Collected(from, n)))
             ELSE LibraryFrame(n, encodeTelemetrySummary(
                                    Summary(n, r.lat, r.lon, r.speed, r.spm, 1)))
  IN  IF n \in BadFrames THEN Damaged(b) ELSE b

\* What decodeFrame makes of each frame.
Received ==
  [from \in Senders |-> [n \in 1..MaxFrames |->
     LET b == OnWire(from, n)
     IN  [decodes |-> Decodes(b), telemetry |-> decodeTelemetrySummary(Payload(b))]]]

\* dispatch, or the error handler, or an uncaught exception.
Ingest(from, n) ==
  LET f == Received[from][n]
  IN  /\ heard' = IF f.decodes
                    THEN Append(heard, [from |-> from, n |-> n, telemetry |-> f.telemetry])
                    ELSE heard
      /\ up' = (f.decodes \/ onDecodeError)

(***************************************************************************)
(* Streams: each connection has its own parser.                            *)
(***************************************************************************)
NewConnection(c, i) ==
  /\ conn[c].to = 0
  /\ conn' = [conn EXCEPT ![c] = [to |-> i, open |-> TRUE]]
  /\ parsers' = [parsers EXCEPT ![c] = Empty]
  /\ UNCHANGED <<life, read, net, sent, heard, up>>

Accept(c) == \E i \in Numbers : sock["server"][i] = "open" /\ NewConnection(c, i)

\* The Bun server listens from the start; 1 is its number.
WsOpen(c) == kind = "ws" /\ NewConnection(c, 1)

\* Wrong on purpose: one parser for all connections.
SharedParser(c) == CHOOSE d \in Clients : TRUE

ParserOf(c) == c

\* parser.push of the next half that client c wrote.
Push(c, k) ==
  LET p == ParserOf(c)
  IN  /\ parsers' = [parsers EXCEPT ![p] = IF k % 2 = 1 THEN <<c, k>> ELSE Empty]
      /\ IF k % 2 = 0 /\ parsers[p] = <<c, k - 1>>
           THEN Ingest(c, k \div 2)
           ELSE UNCHANGED <<heard, up>>

\* The "data" listener, which stop() leaves in place, and Bun's message().
Data(c) ==
  /\ conn[c].open /\ read[c] < 2 * MaxFrames
  /\ read' = [read EXCEPT ![c] = @ + 1]
  /\ Push(c, read[c] + 1)
  /\ UNCHANGED <<life, conn, net, sent>>

\* The client ends the connection, perhaps within a frame.  One that breaks it raises
\* "error" on the accepted socket, to which the TCP server does not listen.  The WebSocket
\* server deletes its parser, the TCP server's goes with the socket.
ClientLeaves(c) ==
  /\ conn[c].open
  /\ conn' = [conn EXCEPT ![c].open = FALSE]
  /\ parsers' = IF kind = "ws" THEN [parsers EXCEPT ![c] = Empty] ELSE parsers
  /\ UNCHANGED <<life, read, net, sent, heard>>

ClientEnds(c) == ClientLeaves(c) /\ UNCHANGED up
ClientBreaks(c) == ClientLeaves(c) /\ up' = (kind # "tcp")

(***************************************************************************)
(* Datagrams.                                                              *)
(***************************************************************************)
\* sendFrame rejects without a socket, or when it is not connected (yet).
SendFrame ==
  /\ kind = "udp" /\ sent < MaxSent
  /\ sent' = sent + 1
  /\ net' = IF handle["sender"] # 0 /\ sock["sender"][handle["sender"]] = "open"
              THEN net \cup {sent + 1} ELSE net
  /\ UNCHANGED <<life, conn, read, parsers, heard, up>>

Lose(n) ==
  /\ n \in net /\ net' = net \ {n}
  /\ UNCHANGED <<life, conn, read, parsers, sent, heard, up>>

\* "message" and feedDatagram; a copy may still be under way.
Message(n) ==
  /\ n \in net /\ \E i \in Numbers : sock["listener"][i] = "open"
  /\ Len(heard) < MaxHeard
  /\ Ingest("udp", n)
  /\ UNCHANGED <<life, conn, read, parsers, net, sent>>

-----------------------------------------------------------------------------
\* What the operating system brings about.
Decided(e, i) ==
  Opened(e, i) \/ OpenFails(e, i) \/ (e = "sender" /\ ConnectFails(i)) \/ Closed(e, i)

Step ==
  \/ \E e \in Transports : Start(e) \/ Stop(e)
  \/ \E e \in Transports, i \in Numbers : Decided(e, i) \/ LateError(e, i)
  \/ \E c \in Clients : Accept(c) \/ WsOpen(c) \/ Data(c)
                        \/ ClientEnds(c) \/ ClientBreaks(c)
  \/ SendFrame \/ \E n \in 1..MaxSent : Lose(n) \/ Message(n)

Next == up /\ Step /\ UNCHANGED options

Spec == Init /\ [][Next]_vars

\* The operating system decides about every socket and closes it: there are finitely
\* many.
SystemStep ==
  up /\ (\E e \in Transports, i \in Numbers : Decided(e, i)) /\ UNCHANGED options

FairSpec == Spec /\ WF_vars(SystemStep)

-----------------------------------------------------------------------------
(***************************************************************************)
(* Properties.                                                             *)
(***************************************************************************)
Promises == {"none", "pending", "resolved", "rejected"}

\* The types of the variables; a transport keeps no socket that it has closed.
TypeOK ==
  /\ kind \in Kinds /\ user \in Users /\ onDecodeError \in OnDecodeErrors /\ up \in BOOLEAN
  /\ handle \in [Transports -> 0..MaxStarts] /\ starts \in [Transports -> 0..MaxStarts]
  /\ sock \in [Transports -> [Numbers -> {"none", "opening", "bound", "open", "failed", "closing", "closed"}]]
  /\ started \in [Transports -> [Numbers -> Promises]]
  /\ stopping \in [Transports -> [Numbers -> Promises]]
  /\ armed \in [Transports -> [Numbers -> BOOLEAN]]
  /\ conn \in [Clients -> [to : 0..MaxStarts, open : BOOLEAN]]
  /\ read \in [Clients -> 0..(2 * MaxFrames)]
  /\ \A c \in Clients : parsers[c] \in {Empty} \cup (Clients \X (1..(2 * MaxFrames)))
  /\ net \subseteq 1..MaxSent /\ sent \in 0..MaxSent
  /\ \A k \in DOMAIN heard : heard[k].from \in Senders /\ heard[k].n \in 1..MaxFrames
  /\ \A e \in Transports :
       handle[e] # 0 => sock[e][handle[e]] \in {"opening", "bound", "open", "failed"}

\* The good frames of client c that were read in full.
WholeFrames(c) == {n \in 1..(read[c] \div 2) : n \notin BadFrames}

\* Where in heard the frames of client c are.
HeardOf(c) == {k \in DOMAIN heard : heard[k].from = c}

\* Connections do not disturb each other: whatever the order in which their bytes
\* are read, and also while stop() waits for them, the hub has heard of each client
\* exactly its good frames read in full, in order ("each accepted socket uses its
\* own FrameParser").
StreamsStayApart ==
  \A c \in Clients :
    /\ {heard[k].n : k \in HeardOf(c)} = WholeFrames(c)
    /\ \A j, k \in HeardOf(c) : j < k => heard[j].n < heard[k].n

\* wire is measured number r to the nearest unit, 0 when r is not finite, and the
\* nearest end of lo..hi when r is beyond it.
Shows(wire, r, lo, hi) ==
  /\ wire \in lo..hi
  /\ ~r.finite => wire = 0
  /\ r.finite => \/ r.tenths - 10 * wire \in -5..5
                 \/ wire = lo /\ r.tenths < 10 * lo
                 \/ wire = hi /\ r.tenths > 10 * hi

\* t is what a boat with the library measured.
AsMeasured(from, n, t) ==
  LET r == Reading(from, n)
  IN  /\ Shows(t.latE7, r.lat, -90 * DegScale, 90 * DegScale)
      /\ Shows(t.lonE7, r.lon, -LatLonLimit, LatLonLimit)
      /\ Shows(t.speedMmS, r.speed, 0, MaxU32) /\ Shows(t.spmX100, r.spm, 0, MaxU16)
      /\ t.spmX100 = 0 => t.dpsX100 = 0
      /\ t.spmX100 # 0 =>
           LET off == DpsScale * t.speedMmS - t.dpsX100 * t.spmX100
           IN  2 * off \in -t.spmX100..t.spmX100 \/ (t.dpsX100 = MaxU16 /\ off > 0)
      /\ t.timestampMs = n /\ t.telemetryFlags = 1

\* t is what a boat with the firmware had in its struct.
AsCollected(from, n, t) ==
  Collected(from, n) =
    [timestamp_ms |-> t.timestampMs, lat_e7 |-> t.latE7, lon_e7 |-> t.lonE7,
     speed_mm_s |-> t.speedMmS, spm_x100 |-> t.spmX100, dps_x100 |-> t.dpsX100,
     telemetry_flags |-> t.telemetryFlags]

\* What the hub hears is what the boat measured, whichever side built the frame.  With the
\* library no field wraps, numbers too large for their field come out as the largest, and
\* the distance per stroke agrees with the speed and rate next to it (longitudes beyond 100
\* degrees are another matter: LongitudeArrives).  The struct of the firmware comes out as
\* it was, to the last number.
TelemetryTrue ==
  \A k \in DOMAIN heard :
    IF heard[k].from \in Firmware
      THEN AsCollected(heard[k].from, heard[k].n, heard[k].telemetry)
      ELSE AsMeasured(heard[k].from, heard[k].n, heard[k].telemetry)

\* "Latitude/longitude as i32 x 1e7 for wire format": the hub hears the longitude that a boat
\* with the library measured.
LongitudeArrives ==
  \A k \in DOMAIN heard :
    heard[k].from \notin Firmware =>
      Shows(heard[k].telemetry.lonE7, Reading(heard[k].from, heard[k].n).lon,
            -180 * DegScale, 180 * DegScale)

\* A user that awaits its calls leaves nothing behind: a socket that is bound, being bound
\* or being closed, also one whose connect() failed, and a server with an open connection
\* is the one the transport still knows or one that a pending stop() is closing.
NothingLeftBehind ==
  user = "awaits" =>
    \A e \in InUse, i \in Numbers :
      (\/ sock[e][i] \in {"opening", "bound", "open", "closing"}
       \/ e = "server" /\ \E c \in Clients : Connected(c, i))
      => handle[e] = i \/ stopping[e][i] = "pending"

Waits(e) ==
  \E i \in Numbers :
    \/ started[e][i] = "pending"
    \/ stopping[e][i] = "pending" /\ \A c \in Clients : ~Connected(c, i)

\* For such a user start() settles, and stop() too once the clients have gone.  (For
\* others it need not: stop() during start() leaves the promise of start() pending.)
PromisesSettle ==
  \A e \in Transports : (user = "awaits" /\ Waits(e)) ~> (~Waits(e) \/ ~up)
=============================================================================
