------------------------------ MODULE MeshLink ------------------------------
(***************************************************************************)
(* Telemetry from the boats to the host over BLE Mesh: the boat node       *)
(* (src/firmware/esp_ble_mesh_node/main/boatconnect_node_main.c), the      *)
(* coach gateway (src/firmware/esp_ble_mesh_gateway/main/                  *)
(* boatconnect_gateway_main.c) and, of the host, the order in which        *)
(* FleetHub dispatches what the gateway wrote to its UART.                 *)
(*                                                                         *)
(* Each boat has a state in RAM (s_seq, s_provisioned, the events that its *)
(* stack has raised and not yet handed to the callback) that a reboot      *)
(* resets, and one in flash (its provisioning, key and publish address,    *)
(* kept by CONFIG_BLE_MESH_SETTINGS) that a reboot keeps unless it erases  *)
(* the flash.  The stack reports NODE_PROV_COMPLETE when a node is         *)
(* provisioned, not when it starts with a stored provisioning; a local     *)
(* reset removes a provisioned node and does nothing to another.           *)
(*                                                                         *)
(* Each enrolment gives the boat a new unicast address: it is another      *)
(* source to the mesh.  The mesh loses messages; its replay protection     *)
(* delivers those of one source in the order they were sent and none       *)
(* twice, and promises nothing about two sources.                          *)
(*                                                                         *)
(* The gateway provisions every boat whose beacon it sees and sends it the *)
(* application key; the publish address is set by someone else.  The       *)
(* gateway subscribes to no group: of frames published to BC_GROUP_ADDR it *)
(* receives none.  Its UART is the one of the console unless BC_UART_NUM   *)
(* is changed, as src/firmware/README.md advises: both are modelled.       *)
(***************************************************************************)
EXTENDS Integers, Sequences

CONSTANTS
  Boats,       \* boat ids, one node each
  MaxTimer,    \* bound on the timer periods of each boat between two reboots
  MaxReboots,  \* bound on the reboots of each boat
  MaxJoins,    \* bound on the enrolments of each boat
  MaxForeign,  \* bound on the messages on the opcode that are no BTC1 frames
  MaxInFlight, \* bound on the messages of a source in the mesh, and on the UART
  Consoles     \* whether the console is on the UART of the frames: the choices

ASSUME MeshAssumption ==
  /\ MaxTimer \in Nat /\ MaxReboots \in Nat /\ MaxJoins \in Nat /\ MaxForeign \in Nat
  /\ MaxInFlight \in Nat \ {0} /\ Consoles \subseteq BOOLEAN

\* An address in the mesh: a boat and the number of its enrolment.
Sources == Boats \X (1..MaxJoins)

VARIABLES
  seq,          \* s_seq of each boat, in RAM
  provisioned,  \* s_provisioned, in RAM
  events,       \* raised by the stack of the boat, not yet handled, in RAM
  stored,       \* the node is provisioned, in flash
  appKey,       \* it has the application key, in flash
  address,      \* its publish address, in flash: none, the group's, the gateway's
  console,      \* the gateway logs to the UART of the frames
  bound,        \* the gateway bound the application key to its vendor model
  completed,    \* the sources whose PROV_COMPLETE the gateway has not handled yet
  mesh,         \* the messages of each source under way in the mesh
  uart,         \* the messages the gateway wrote, not yet read by the host
  stuck,        \* the host hears nothing more
  heard,        \* history: the last frame of each source dispatched by the hub
  inOrder,      \* history: every dispatch so far was of a frame of its source sent later
  ticks,        \* bound: timer periods since the last reboot
  reboots,      \* bound, and the number of the boot that frames carry here
  joins,        \* bound, and the number of the enrolment
  foreign       \* bound

flash == <<stored, appKey, address>>
nodeVars == <<seq, provisioned, events, flash>>
gatewayVars == <<console, bound, completed>>
hostVars == <<stuck, heard, inOrder>>
bounds == <<ticks, reboots, joins, foreign>>
vars == <<nodeVars, gatewayVars, mesh, uart, hostVars, bounds>>

\* The frame of a boat; the numbers of the enrolment and of the boot are not part of it.
Frame(b, n) == [from |-> <<b, joins[b]>>, seq |-> n, boot |-> reboots[b]]

\* What another device sends with the opcode: without the magic of a frame; with it, and of a
\* length or checksum that does not fit; with it, and the length of an oversize payload.
Noise == [kind |-> "noise"]
Damaged == [kind |-> "damaged"]
Oversize == [kind |-> "oversize"]
Foreign == {Noise, Damaged, Oversize}

LogLine == [kind |-> "log"]

NeverHeard == [seq |-> 0, boot |-> 0]

Init ==
  /\ seq = [b \in Boats |-> 0]
  /\ provisioned = [b \in Boats |-> FALSE] /\ events = [b \in Boats |-> <<>>]
  /\ stored = [b \in Boats |-> FALSE]
  /\ appKey = [b \in Boats |-> FALSE] /\ address = [b \in Boats |-> "none"]
  /\ console \in Consoles /\ bound = FALSE
  /\ completed = {} /\ stuck = FALSE
  /\ mesh = [s \in Sources |-> <<>>] /\ uart = <<>>
  /\ heard = [s \in Sources |-> NeverHeard] /\ inOrder = TRUE
  /\ ticks = [b \in Boats |-> 0] /\ reboots = [b \in Boats |-> 0]
  /\ joins = [b \in Boats |-> 0] /\ foreign = 0

-----------------------------------------------------------------------------
(***************************************************************************)
(* The boat node.                                                          *)
(***************************************************************************)

\* The gateway provisions a boat of which it received the beacon of an unprovisioned
\* node: NODE_PROV_COMPLETE, and PROVISIONER_PROV_COMPLETE unless the link broke.
Enrolled(b) ==
  LET j == joins[b] + 1
  IN  /\ ~stored[b] /\ j \in 1..MaxJoins
      /\ joins' = [joins EXCEPT ![b] = j]
      /\ stored' = [stored EXCEPT ![b] = TRUE]
      /\ events' = [events EXCEPT ![b] = Append(@, "complete")]
      /\ completed' \in {completed, completed \cup {<<b, j>>}}
      /\ UNCHANGED <<seq, provisioned, appKey, address, console, bound, mesh, uart, hostVars,
                     ticks, reboots, foreign>>

\* What removing the node leaves in flash.
Erase(b) ==
  /\ stored' = [stored EXCEPT ![b] = FALSE]
  /\ appKey' = [appKey EXCEPT ![b] = FALSE]
  /\ address' = [address EXCEPT ![b] = "none"]

\* The stack removes the node from the network and raises NODE_PROV_RESET.
Removed(b) ==
  /\ stored[b]
  /\ Erase(b)
  /\ events' = [events EXCEPT ![b] = Append(@, "reset")]
  /\ UNCHANGED <<seq, provisioned, gatewayVars, mesh, uart, hostVars, bounds>>

\* The provisioner of record configures the publish address.
AddressSet(b) ==
  /\ stored[b]
  /\ \E a \in {"group", "gateway"} :
       /\ address[b] # a
       /\ address' = [address EXCEPT ![b] = a]
  /\ UNCHANGED <<seq, provisioned, events, stored, appKey, gatewayVars, mesh, uart, hostVars,
                 bounds>>

\* bc_prov_complete.
ProvComplete(b) ==
  /\ events[b] # <<>> /\ Head(events[b]) = "complete"
  /\ events' = [events EXCEPT ![b] = Tail(@)]
  /\ provisioned' = [provisioned EXCEPT ![b] = TRUE]
  /\ UNCHANGED <<seq, flash, gatewayVars, mesh, uart, hostVars, bounds>>

\* Wrong on purpose: the flag is not reset.
ProvResetKeepsFlag(b) ==
  /\ events[b] # <<>> /\ Head(events[b]) = "reset"
  /\ \/ /\ stored[b] /\ Erase(b)
        /\ events' = [events EXCEPT ![b] = Append(Tail(@), "reset")]
     \/ /\ ~stored[b] /\ UNCHANGED flash
        /\ events' = [events EXCEPT ![b] = Tail(@)]
  /\ UNCHANGED <<seq, provisioned, gatewayVars, mesh, uart, hostVars, bounds>>

\* NODE_PROV_RESET.  esp_ble_mesh_node_local_reset() removes a node that was provisioned
\* again in the meantime, which raises the event once more.
ProvReset(b) ==
  /\ events[b] # <<>> /\ Head(events[b]) = "reset"
  /\ provisioned' = [provisioned EXCEPT ![b] = FALSE]
  /\ \/ /\ stored[b] /\ Erase(b)
        /\ events' = [events EXCEPT ![b] = Append(Tail(@), "reset")]
     \/ /\ ~stored[b] /\ UNCHANGED flash
        /\ events' = [events EXCEPT ![b] = Tail(@)]
  /\ UNCHANGED <<seq, gatewayVars, mesh, uart, hostVars, bounds>>

\* The gateway hears what the boat publishes.
Publishes(b) == appKey[b] /\ address[b] = "gateway"

\* Wrong on purpose: publishes each frame twice, against losses.
TimerSendsTwice(b) ==
  LET s == <<b, joins[b]>>
      f == Frame(b, seq[b] + 1)
  IN  /\ provisioned[b] /\ ticks[b] < MaxTimer
      /\ ticks' = [ticks EXCEPT ![b] = @ + 1]
      /\ seq' = [seq EXCEPT ![b] = @ + 1]
      /\ \/ /\ Publishes(b) /\ Len(mesh[s]) + 1 < MaxInFlight
            /\ mesh' = [mesh EXCEPT ![s] = @ \o <<f, f>>]
         \/ UNCHANGED mesh
      /\ UNCHANGED <<provisioned, events, flash, gatewayVars, uart, hostVars, reboots, joins,
                     foreign>>

\* bc_publish_timer_cb: the frame takes the next number also when publishing it
\* fails, because there is no key or no address, or for want of buffers, and when nobody
\* listens to the address.
Timer(b) ==
  LET s == <<b, joins[b]>>
  IN  /\ provisioned[b] /\ ticks[b] < MaxTimer
      /\ ticks' = [ticks EXCEPT ![b] = @ + 1]
      /\ seq' = [seq EXCEPT ![b] = @ + 1]
      /\ \/ /\ Publishes(b) /\ Len(mesh[s]) < MaxInFlight
            /\ mesh' = [mesh EXCEPT ![s] = Append(@, Frame(b, seq[b] + 1))]
         \/ UNCHANGED mesh
      /\ UNCHANGED <<provisioned, events, flash, gatewayVars, uart, hostVars, reboots, joins,
                     foreign>>

\* Power off and app_main, which may find that it has to erase the flash: what is in RAM
\* starts again.
Reboot(b) ==
  /\ reboots[b] < MaxReboots
  /\ reboots' = [reboots EXCEPT ![b] = @ + 1]
  /\ ticks' = [ticks EXCEPT ![b] = 0]
  /\ seq' = [seq EXCEPT ![b] = 0]
  /\ provisioned' = [provisioned EXCEPT ![b] = FALSE]
  /\ events' = [events EXCEPT ![b] = <<>>]
  /\ Erase(b) \/ UNCHANGED flash
  /\ UNCHANGED <<gatewayVars, mesh, uart, hostVars, joins, foreign>>

-----------------------------------------------------------------------------
(***************************************************************************)
(* The mesh.                                                               *)
(***************************************************************************)
Lose(s) ==
  /\ \E i \in DOMAIN mesh[s] :
       mesh' = [mesh EXCEPT ![s] = SubSeq(@, 1, i - 1) \o SubSeq(@, i + 1, Len(@))]
  /\ UNCHANGED <<nodeVars, gatewayVars, uart, hostVars, bounds>>

\* A device at that address sends something else with the opcode BTC1_PUBLISH.
ForeignMessage(s) ==
  /\ foreign < MaxForeign /\ Len(mesh[s]) < MaxInFlight
  /\ foreign' = foreign + 1
  /\ \E m \in Foreign : mesh' = [mesh EXCEPT ![s] = Append(@, m)]
  /\ UNCHANGED <<nodeVars, gatewayVars, uart, hostVars, ticks, reboots, joins>>

-----------------------------------------------------------------------------
(***************************************************************************)
(* The gateway and the host.                                               *)
(***************************************************************************)

\* ADD_LOCAL_APP_KEY_COMP.
LocalAppKeyAdded ==
  /\ ~bound /\ bound' = TRUE
  /\ UNCHANGED <<nodeVars, console, completed, mesh, uart, hostVars, bounds>>

\* bc_configure_node: the key is sent once to that address; an error, a timeout and a boat
\* that has the address no more are alike, nothing tries again.
ConfigureNode(b, j) ==
  /\ <<b, j>> \in completed
  /\ completed' = completed \ {<<b, j>>}
  /\ \/ stored[b] /\ joins[b] = j /\ appKey' = [appKey EXCEPT ![b] = TRUE]
     \/ UNCHANGED appKey
  /\ UNCHANGED <<seq, provisioned, events, stored, address, console, bound, mesh, uart,
                 hostVars, bounds>>

\* Wrong on purpose: accepts whatever has the length of a frame.
LooksLongEnough(m) == m = m

\* bc_frame_looks_valid: the length of an empty frame, and the magic.
LooksValid(m) == m # Noise

\* bc_vendor_recv; uart_write_bytes waits for room.  It logs the message, be it
\* dropped or not, in a line that holds the text "BTC1".
VendorRecv(s) ==
  /\ bound /\ mesh[s] # <<>> /\ Len(uart) < MaxInFlight
  /\ mesh' = [mesh EXCEPT ![s] = Tail(@)]
  /\ uart' = uart \o (IF console THEN <<LogLine>> ELSE <<>>)
                  \o (IF LooksValid(Head(mesh[s])) THEN <<Head(mesh[s])>> ELSE <<>>)
  /\ UNCHANGED <<nodeVars, gatewayVars, hostVars, bounds>>

SentLater(m, n) == m.boot > n.boot \/ (m.boot = n.boot /\ m.seq > n.seq)

IsFrame(m) == m # LogLine /\ m \notin Foreign

\* The frame reaches FleetHub and becomes the last of its boat, whatever its number.
HostReads ==
  /\ uart # <<>> /\ ~stuck /\ IsFrame(Head(uart))
  /\ uart' = Tail(uart)
  /\ LET m == Head(uart)
     IN  /\ heard' = [heard EXCEPT ![m.from] = [seq |-> m.seq, boot |-> m.boot]]
         /\ inOrder' = (inOrder /\ SentLater(m, heard[m.from]))
  /\ UNCHANGED <<nodeVars, gatewayVars, mesh, stuck, bounds>>

\* decodeFrame rejects the frame, and what its payload length took of those behind it is
\* lost with it.
HostDrops ==
  /\ uart # <<>> /\ ~stuck /\ Head(uart) = Damaged
  /\ \E k \in DOMAIN uart : uart' = SubSeq(uart, k + 1, Len(uart))
  /\ UNCHANGED <<nodeVars, gatewayVars, mesh, hostVars, bounds>>

\* The text after "BTC1" in a log line stands where the header has the payload length
\* and makes it larger than MAX_PAYLOAD_LEN: the parser waits for ever
\* (FrameParser!OversizeIsDropped), as with an oversize message; a bad frame ends the process
\* of a hub without onDecodeError.
HostStuck ==
  /\ uart # <<>> /\ (stuck \/ ~IsFrame(Head(uart)))
  /\ uart' = Tail(uart)
  /\ stuck' = TRUE
  /\ UNCHANGED <<nodeVars, gatewayVars, mesh, heard, inOrder, bounds>>

Next ==
  \/ \E b \in Boats :
       \/ Enrolled(b) \/ Removed(b) \/ AddressSet(b) \/ ProvComplete(b) \/ ProvReset(b)
       \/ Timer(b) \/ Reboot(b) \/ \E j \in 1..MaxJoins : ConfigureNode(b, j)
  \/ \E s \in Sources : Lose(s) \/ ForeignMessage(s) \/ VendorRecv(s)
  \/ LocalAppKeyAdded \/ HostReads \/ HostDrops \/ HostStuck

Spec == Init /\ [][Next]_vars

-----------------------------------------------------------------------------
(***************************************************************************)
(* Properties.                                                             *)
(***************************************************************************)
BoatFrames ==
  [from : Sources, seq : 1..MaxTimer, boot : 0..MaxReboots]

\* What the gateway writes to its UART, if it is not a line of its log.
Forwarded == BoatFrames \cup {Damaged, Oversize}

\* The types of the variables; what the gateway forwards begins with the magic, if not more.
TypeOK ==
  /\ seq \in [Boats -> 0..MaxTimer]
  /\ provisioned \in [Boats -> BOOLEAN] /\ events \in [Boats -> Seq({"complete", "reset"})]
  /\ stored \in [Boats -> BOOLEAN]
  /\ appKey \in [Boats -> BOOLEAN] /\ address \in [Boats -> {"none", "group", "gateway"}]
  /\ console \in Consoles /\ bound \in BOOLEAN
  /\ completed \subseteq Sources /\ stuck \in BOOLEAN
  /\ mesh \in [Sources -> Seq(BoatFrames \cup Foreign)]
  /\ uart \in Seq(Forwarded \cup {LogLine})
  /\ heard \in [Sources -> [seq : 0..MaxTimer, boot : 0..MaxReboots]]
  /\ inOrder \in BOOLEAN
  /\ ticks \in [Boats -> 0..MaxTimer] /\ reboots \in [Boats -> 0..MaxReboots]
  /\ joins \in [Boats -> 0..MaxJoins] /\ foreign \in 0..MaxForeign

\* Over mesh, gateway and UART the hub gets the frames that a boat made in one enrolment in
\* the order in which they were made, none twice, amid bad messages and also when the boat
\* has rebooted or is enrolled anew, with numbers that start again, before they arrive.
SnapshotMovesForward == inOrder

\* A boat that has handled what its stack told it makes frames only as a node of the network:
\* one that was removed stops, and one that is provisioned and removed again before the first
\* event is handled does not go on by mistake, whatever timers and reboots come between.
PublishesAsMember ==
  [][\A b \in Boats : seq'[b] > seq[b] => stored[b] \/ events[b] # <<>>]_vars
=============================================================================
