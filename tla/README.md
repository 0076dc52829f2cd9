# BoatConnect in TLA+

BoatConnect carries telemetry of rowing boats to a coach's machine: boats (or a mesh gateway on their
behalf) send binary `BTC1` frames over UDP, TCP, WebSocket or a serial line; a TypeScript library
reassembles and decodes them and keeps the latest frame of each boat. This directory holds TLA+ models of
that library, of its WebSocket example and of the reference firmware, the TLC runs that check them, and TLAPS proofs about
all of the models. Paths below are those of the repository (`src/src` is the library, `src/firmware` the firmware).

## The system

| Component | State | Operations | What is hard about it |
|---|---|---|---|
| Frame codec, `codec/frame.ts` | none | `encodeFrame`, `decodeFrame`, `trySliceOneFrame` | the order of the tests; sizes at their limits |
| `FrameParser`, `codec/stream-parser.ts` | `buf`, `len` | `push`, `reset`, `pendingLength` | chunk boundaries anywhere, noise, listeners that throw or reset the parser inside `push` |
| `FleetHub`, `session/fleet-hub.ts` | `listeners`, `lastByBoat`, `lastSeenMs`, a parser | `feedStream`, `feedDatagram`, `ingestDecoded`, `subscribe`, `isStale`, `clearBoat`, `resetAll`, ... | listeners that call the hub while it dispatches |
| `TcpClientTransport` | `socket` | `connect`, `send`, `close`; socket events | overlapping connects, sockets that outlive `close`, errors with no promise left to reject |
| `SerialPortTransport` | `port`, a parser | `start`, `send`, `stop`; port events | the awaited import, ports that open late, restarts on one parser |
| `TcpServerTransport`, WebSocket example | `server`, a parser per socket | `start`, `stop`, accepted sockets; `open`, `message`, `close` | sockets that outlive `stop`, clients that stop within a frame, decode errors thrown in a data handler |
| UDP listener and sender | `socket` | `start`, `stop`, `sendFrame` | socket kept before it is bound, promises that must settle; loss, duplication, reordering |
| `StrokeRateEstimator` | `buf`, `strokeTimes`, `strokeHead`, `lastPeakT` | `pushSample`, `spmAt`, `reset` | lazy pruning and splicing that must not show |
| Payload, scaling, CRC-32 | none | pure functions | clamping, widths; the checksum is computed in two ways |
| Boat node firmware | `s_seq`, `s_provisioned` (RAM), provisioning (flash) | timer, provisioning events, boot | reboots |
| Gateway firmware | none of its own | mesh receive to UART, auto-provisioning | the log shares the UART with the frames |

Everything in the library runs on one JavaScript thread. What interleaves are callbacks: a listener called by
`push()` or `dispatch()` may call the same objects again; socket and port events come between the awaited steps
of `connect`, `start`, `stop` and `close`. A transport pushes its chunks into a `FrameParser` (TCP client: the
hub's own; serial and TCP server: one of theirs), the parser calls back with each decoded frame, and the
callback is `FleetHub.dispatch`, which updates the snapshot and calls the subscribers.

## Modules

| Module | What it models |
|---|---|
| `Frame` | Wire format, `encodeFrame`, `decodeFrame`, `trySliceOneFrame`, `alignMagicFront`, as operators on sequences of cells |
| `FrameReassembly` | Abstract specification: what a reassembler promises, without chunks or buffers |
| `FrameParser` | `push()` in steps (`Push`, `Align`, `Deliver`, callback, `Consume`, `Wait`, `LoopExit`, `DecodeFails`), `reset()`, and what a listener may do in between |
| `ParserMemory` | The array behind `len`: growth, moves within it, replacement, and `rawPayload` as a view of it; each action of `FrameParser` with what it does to the array |
| `MCFrameParser`, `MCParserMemory` | Streams of frames, damaged frames and noise, a checksum, a short magic |
| `FleetHub`, `MCFleetHub` | Snapshot, listeners as the entries of a JavaScript `Set`, dispatches as a stack |
| `TcpClient` | `connect`, `send`, `close` and the sockets |
| `SerialPort` | `start`, `stop` and the ports |
| `StrokeRate` | Peak detection, pruning, `spmAt` |
| `Telemetry` | Scaling, distance per stroke, the bytes of the payload, both ways |
| `Crc32` | The checksum by table and bit by bit |
| `HostLinks`, `MCHostLinks` | From measuring to dispatch over UDP, TCP server and WebSocket: `Telemetry`, `Crc32` and `Frame` put together, with the life of the sockets |
| `MeshLink` | Boat nodes, mesh, gateway, UART and the order in which the hub hears the boats |
| `FrameParserProofs` (`Frame`, `FrameParser`), `ParserMemoryProofs`, `FleetHubProofs`, `TcpClientProofs`, `SerialPortProofs`, `StrokeRateProofs`, `MeshLinkProofs`, `HostLinksProofs` (`Crc32`, `Telemetry`, `HostLinks`) | Theorems |

**Cells.** A frame is a sequence of cells: one per byte of the magic and of the payload, one for each other field the
code tests. Flags and the reserved byte are never tested and are left out. Field widths are abstracted; the
checksum is the parameter `Crc`, any function in the proofs, one that separates the strings of the instance
in the runs of the parser, and the real one in `HostLinks`.

**FrameParser.** `buf` is the array up to `len`. The code keeps `len` apart from the bytes and so does the model:
`ResetInCallback` and `DecodeHandlerResets` make them differ, as `reset()` inside `onFrame` and `onDecodeError` does. A step is a stretch of `push()` that no
other code can interrupt; the callback is where it can be. A chunk is any next part of the stream. A push from inside a callback is not modelled.

**FrameReassembly.** What leaves the pending bytes leaves them with an offered frame, with a frame that does not decode, as noise that no magic starts in,
or because the user discarded everything just then. `acts` counts what users do, and the parser counts the same (`faults`), so a `Discard` cannot stand for a parser
that keeps too little by itself. After a `reset()` inside a callback the parser is `unusable`: what arrives is lost.

**ParserMemory.** `array` is the whole of `this.buf`, with whatever earlier frames left behind `len`. Its operations are
computed from the array alone, so that `ArrayHoldsBuffer` compares what the code does to the array with the sequence `buf` of `FrameParser`.
`kept` is the view given out last; when the array is replaced (by a larger one or by `reset()`) the view stays on the old one.

**FleetHub.** An entry of the `Set` that was deleted stays as `NoListener` and entries are appended, which is how
ECMAScript defines iteration of a `Set` that changes under way. `stack` holds the `dispatch()` calls in progress. `called`,
`kept`, `log` and `cleared` are history for the properties. `resetAll` also resets the hub's parser; that half
is `Reset` and `ResetInCallback` of `FrameParser`.

**TcpClient.** A socket is named by the `connect()` that made it. `SocketError` is the one listener of
`"error"`, for failed attempts and broken connections alike, and decides by `this.socket` as the code does.
There is no listener of `"close"`, so `PeerEnds` leaves `this.socket`. `user` is how careful the caller is: overlapping calls
are possible for "any", and some promises of the transport hold only for "awaits". Relied on of `node:net`: `end()`
flushes what was written and leaves the receiving side open; callbacks also come when the socket is destroyed. An exception out of the
`"data"` listener (`DataThrows`) ends the process, and `up` becomes false.

**SerialPort.** When `given` the port exists from the beginning, and its owner may open it again after it was closed (`OwnerReopens`), with the listeners it
had; otherwise `StartPath` and `Imported` are the two halves of `start()` around its `await`, and `ImportFails` stands for a rejected import and for a constructor
that throws. Each opening is a connection; the device sends frames in two chunks and the first one read may be the second half of a frame. Relied on of
`serialport`: it opens by itself after construction, one open port per device, `close()` of a port that is not open fails and changes nothing, listeners survive closing and
opening. `DataThrows` is an exception out of `push()`. `FramesWhole` says what the one parser of the transport is given through starts, stops, failures and reopenings: everything, in order,
and once. The one exception is a given port that is started again, after its owner has opened it again or before `stop()`: the old data listener is still there, and
the code pushes every chunk twice (`MayRepeat`).

**StrokeRate.** The `while` loop of the pruning is the head it ends at; the loop of `spmAt` is the position of the last
stroke before the window. `peaks` remembers every peak. `CountsAllPeaks` asks that no peak of the window is lost and none from before it comes back; what is later than
the time asked for, which the comment excludes and the code counts, may be counted or not.

**Telemetry, Crc32.** A measured number is a whole number of tenths of its wire unit, or not finite: rounding and clamping are exact, floating-point
errors are left out. `Base` is the number of values of a byte. A 32-bit word of `Crc32` is the set of its bits, so that exclusive or is symmetric difference;
the polynomial is the real one. `BcTelemetrySummaryV1` is the firmware's struct and `StructBytes` what `memcpy` takes of it: the firmware scales, rounds and clamps nothing.

**HostLinks.** `start()` and `stop()` have one shape in the three transports and are one action each, by transport; where they differ the
action says so (a `connect()` that fails resolves all the same and its socket stays `"bound"`, a server that is not listening cannot be closed). A socket is one call of `start()`;
`handle` is `this.socket` or `this.server`. A client writes numbered frames, each read in two halves, so that a client can leave within a frame;
`parsers` holds the half frame each connection's parser has. Frame `n` of a sender is what `OnWire` builds: with the library of its reading, scaled; with the
firmware of the numbers of its struct. What the host hears is `DecodeResult` of those bytes. `up` becomes false where the code leaves an exception uncaught: a decode error without
`onDecodeError`, an accepted socket that breaks, a second error of a listening socket. `sendFrame` on a socket that is not connected (yet) rejects. What is relied on of node is listed at the head of the module.

**MeshLink.** RAM (`seq`, `provisioned`, and `events`, what the stack raised and the callback has not handled) and flash (`stored`, `appKey`, `address`) of each boat.
A reboot resets the first and, in the branch that erases the flash, the second. What the stack does (`Enrolled`, `Removed`) and the callback that tells the code (`ProvComplete`,
`ProvReset`) are steps of their own: timers, reboots and further enrolments come in between, and the local reset in the callback may remove a node that was enrolled
again. Each enrolment is a new source of the mesh (`Sources`), as it has a new unicast address. The
gateway enrols boats and sends each its key once (`ConfigureNode`), receives once its own key is bound, tests length and magic only (`LooksValid`), and writes what passes to its
UART: frames, but also `Damaged` and `Oversize` messages of another device. It subscribes to no group, so it hears a boat only that was told to publish to the gateway's own address.
`console` says whether its log goes to the same UART, as it does until `BC_UART_NUM` is changed: each message is then preceded by a log
line with the text `BTC1`, whose next characters stand for a payload length above the limit, and the host's parser waits for ever
(`HostStuck`, as with an oversize message); a damaged message takes what its length covers with it (`HostDrops`) or ends the process. Relied on of the mesh: messages are lost but the replay
protection keeps those of one source in order and single, and says nothing about two sources. Relied on of
ESP-IDF: NODE_PROV_COMPLETE is not raised at a start with stored provisioning, and a local reset does nothing to a node that is not provisioned. So a boat that has rebooted
is silent until it is enrolled again, and the frames of one enrolment are of one boot. The number of the boot and of the enrolment are
in the model's frames for the properties only. A reboot of the gateway is not in this module yet.

Definitions marked "wrong on purpose" are used by no specification. Each is a neighbouring definition with a plausible mistake; put in its
place, TLC finds the property listed with it in `PROJECT.json` violated. They document what each property notices.

## Runs

Passing runs:

| Run | Bounds | Shows |
|---|---|---|
| `parser_memory` | streams of 1 or 2 frames (good, with the magic in its payload, corrupt), one that carries a frame in a payload, and two of 3 frames, all chunkings, first array of 16 bytes, one misbehaviour | `ArrayHoldsBuffer`, `PayloadKept`; all good frames of a stream are offered in the end (`AllGoodFramesOffered`) |
| `parser_faults` | streams of 2 pieces: frames of every kind, noise, half and false magics, a torn frame; of 3 of a good and a corrupt frame, noise and half a magic; of 3 with one that carries a frame in its payload; one of 4; all chunkings; with and without `onDecodeError`; 2 misbehaviours of listeners | `OfferedFramesAreReal`, `BufferIsStreamWindow`, `OfferedInOrder`, `CleanStreamExact`, `FrontFrameKept`, `StopsAtBadFrame`, refinement `Reassembles` |
| `hub` | 2 boats, 3 listeners, 3 frames, 2 nested dispatches, 4 calls | `SnapshotIsLatest`, `StaleMeansSilent`, `EventInSnapshot`, `NobodySkipped`, `NobodyTwice` |
| `tcp_users` | 3 connects, 2 sends; any user, and one that awaits promises and closes before reconnecting | `CloseAfterSends` for both; `AwaitedErrorsInPlace`, `ErrorsReachUser`, `ConnectSettles` for the second |
| `serial` | 3 starts of a port by path or of a given port, which is open up to 3 times, 4 chunks; any user, one that awaits start and stop, and one that does so and opens a given port again | `FramesWhole` for all, `QuietAfterStop` for the second |
| `strokes` | times 0..9, window 2, values below and at the threshold, one reset | `CountsAllPeaks` |
| `mesh` | 1 boat with 3 enrolments, which are 3 sources of the mesh, 2 reboots, 2 timer periods per boot, removals, losses, a foreign message, console on the UART or not | `SnapshotMovesForward`, `PublishesAsMember` |
| `links` | 2 clients (one with the firmware) with 3 frames each or 2 datagrams, 2 starts of each transport, one damaged frame, with and without `onDecodeError`; any user, and one that awaits its calls | `StreamsStayApart`, `TelemetryTrue`, `NothingLeftBehind`, `PromisesSettle` |

Runs whose property states what a comment or document of the repository says and whose code does otherwise (the
quotations are in `PROJECT.json`):

| Run | The code |
|---|---|
| `parser_oversize` | never drops a header with an oversize length; every later frame is stuck behind it |
| `parser_reset` | makes `len` negative when a listener resets the parser; later pushes throw |
| `tcp_interleaved` | goes on feeding the old socket after an awaited `close()`, between bytes of the new one |
| `longitude` | clamps longitudes like latitudes, at 100 degrees: boats in eastern China are shown there |

Other places where code and documents part, seen while modelling and kept in the models, without a run of their own:

- a complete frame stays in the parser when noise stands between it and the frame before it in the same chunk, until the next
  chunk (`stream-parser.ts:61`; `pendingLength` is said to count bytes waiting for a complete frame);
- the `rawPayload` of a frame kept for the snapshot changes when the parser uses its array again, with the next frame of the same chunk or the next
  chunk (`frame.ts:107`; `fleet-hub.ts:18` says "Keeps the latest frame per `boatId` for snapshot queries"; the decoded `telemetry` is a copy and stays); `PayloadKept` says how long
  it is good for;
- a `connect()` made while the transport still holds a broken socket, and refused, reports to `onSocketError` and never settles (`tcp-client.ts:31`; the comment at
  line 8 says "after `connect()` resolves"); `AwaitedErrorsInPlace` and `ConnectSettles` say for which users this does not happen;
- a client that breaks its connection to the TCP server ends the host's process (`tcp-server.ts:22`, no listener of `"error"`), and so does a damaged frame or
  datagram without `onDecodeError`;
- `UdpSenderTransport.start()` resolves also when `connect()` fails (`udp-sender.ts:21`: the callback ignores its error); `stop()` during `start()` leaves the promise of
  `start()` of a UDP transport pending; the first error of a bound socket is swallowed by `once("error", reject)` and the second is uncaught;
- the gateway's model is never subscribed to the group address (`boatconnect_gateway_main.c:324` only mentions it), so what boats publish to `0xC000` does not
  reach it (its comment at lines 6-7 and `src/firmware/README.md:58` say "subscribes"); `Publishes` has this;
- the gateway passes on every message of sufficient length that begins with the magic (`boatconnect_gateway_main.c:143`), damaged and oversize ones too;
- the transport of a serial port opened by path has one parser for all ports it ever opened, so a half frame of the old port is completed with
  bytes of the new one (`serial.ts:46`; the comment at line 36 says "per-connection"); a given port that is started again pushes every chunk twice (`serial.ts:64`);
- `spmAt(nowMs)` counts peaks later than `nowMs` (`stroke-rate.ts:53`; the comment at line 48 says "window ending at `nowMs`");
- `s_seq` restarts with every boot (`boatconnect_node_main.c:64`; `PROTOCOL.md:15` says "monotonic per boat");
- `s_provisioned` is set before a publish address is (`boatconnect_node_main.c:201`; the comment at line 164 says otherwise).

**Why the bounds are enough.** The parser's decisions depend on the front of its buffer and on what follows one frame; three
pieces put the kinds of pieces before, between and after frames (four for the parked frame, which needs frame, noise, frame
and a later chunk), and the magic of two cells has a proper prefix to be cut at. Everything the proofs cover holds without
bounds. Two nested dispatches and three listeners are one that acts, one behind and one ahead of the loop's position, and
4 calls let one leave and come back during each. Three connects are a broken, a pending and a new one. In the stroke list,
ten times with a window of two let strokes die, the head move and the list be spliced several times. The first array of 16 bytes grows once or twice
in the longer streams. Two clients are one that is in the middle of a frame and one that is not, three frames a good one before and after a damaged one; two starts are an old
and a new socket, three enrolments an old, a current and a next one: nothing in the node, the gateway or the mesh depends on more than one boat, and the frames of two enrolments are as foreign to each other as those of two boats. Bytes of 32 values make `MaxU32` about 10^6; readings lie on both sides of every limit and of zero.

**Fairness.** `FrameParser!FairSpec` and `ParserMemory!MFairSpec`: `push()` runs to its end once called (one call stack) and the peer's bytes keep
arriving. `TcpClient!FairSpec`: each connection attempt is decided, at the latest by the operating system's timeout;
nothing else is assumed to happen. `HostLinks!FairSpec`: the operating system decides about every
`bind`, `connect` and `listen` and closes what was closed; clients need not leave, and a server that waits for them is not counted as waiting. The other specifications are checked for safety only. Deadlock is not checked where
the system may come to rest: all bytes parsed, all sockets closed, a bound used up.

## Proofs

All are for every value of the constants that the assumptions allow: any magic, checksum and limits, any streams, boats, listeners, readings, bounds.
Every invariant and every action property of a passing run is a theorem, and so is the refinement.

*Codec* (`FrameParserProofs`). `EncodedFramesDecode`: what `encodeFrame` writes, `trySliceOneFrame` cuts out again whatever bytes follow, and
`decodeFrame` gives back, exactly when version and payload size are those it accepts; the checksum may be any function. Lemmas
about `alignMagicFront` (it drops a prefix and no magic) and about windows of the stream (dropping from one and extending one gives one) serve all that follows.

*FrameParser* (`FrameParserProofs`). `BufferIsStreamWindow` is not inductive alone: `BufferInv` adds that inside the loop `len` is the length of the
buffer, and that the frame being consumed is at its front or the buffer was reset. `OfferInv`, for `OfferedFramesAreReal` and `OfferedInOrder`,
adds that every frame offered ends before the bytes still buffered, or is the one at the front. `FrontFrameKept` and `StopsAtBadFrame` are action
properties: `FrontStep` finds the only steps that move the front frame away or offer one, and `FrontInv` says that while `onFrame` runs the
frame at the front is one that was offered. `CleanStreamExact` needs `CleanInv`: on a stream without noise the buffer always starts at
a frame of the framing, or where the next one will, and the frames offered are the good ones before it, with the one that `onFrame` has (`AtFrame`). `Implements` is `Spec => Reassembles`: each step of the parser
maps to a step of `FrameReassembly` or to a stutter.

*ParserMemory* (`ParserMemoryProofs`). `MemoryIsParser` (`MSpec => Spec`) carries the theorems above over to it. `ArrayInv` for `ArrayHoldsBuffer` relates
`array` and `len` to the `buf` of `FrameParser` through growth, moves and replacement; that the doubling of `Size` ends at a
size that suffices is proved from its recursion. `PayloadInv` for `PayloadKept` adds that the frame offered last is the one at the front while the payload is used.

*FleetHub* (`FleetHubProofs`). `TypeOK` and `SnapshotIsLatest` are inductive together: clearing must not count frames that are not in the log.
`EventInSnapshot` follows from them. For `NobodySkipped` the step is that an emptied entry
moves no other and a new entry comes last, so what is ahead of the position of a loop stays ahead.
`StaleMeansSilent` needs `LogInOrder` (the times of the log do not decrease), so that the age of the
last frame decides for all. `NobodyTwice` needs `OnceInv`: no listener has two entries, and one that a dispatch called and that is still
subscribed has its entry behind the position of the loop, so the loop does not come to it again.

*TcpClient* (`TcpClientProofs`). `TcpInv` adds to the properties `SocketLife` (which states of a socket, its `connect()` and its `close()` go together), `HeldIsOpen` and
`OneAtATime`: of a user that awaits, every connection but the last was rejected or closed, and the transport holds one that has
opened until it is closed. Then an error finds the promise it belongs to (`AwaitedErrorsInPlace`, `ErrorsReachUser`).

*SerialPort* (`SerialPortProofs`). `SerialInv`: an awaiting user has one call under way (`OneCallAtATime`), a given port is the only one and has one data listener while it is open and held (`GivenPort`),
never more listeners than starts, a port opened by path is listened to once (`PathPorts`), one port at a time is open (`OneLive`), and what the port in use sends next may come behind the chunk fed last (`FedInv`), which is what
makes `FramesWhole` inductive. `QuietAfterStop` is an action property.

*StrokeRate* (`StrokeRateProofs`). `PeakInv`: the list of strokes is the end of the history of peaks, in order, and what was cut off it or is before the head is older than
two windows. That the position at which the loops of the code stop splits the list at the start of the window (`HeadAfterStops`, `CountIsAll`) gives both bounds of `CountsAllPeaks`.

*MeshLink* (`MeshLinkProofs`). `OrderInv`: of each source, what is on the UART and in the mesh is sorted by boot and number, everything in the mesh is newer than what is on the UART, everything there
newer than what was heard, and nothing is newer than what the boat has made; messages that are no frames may stand anywhere between. That losing messages keeps this is one lemma about sequences picked out of others. `PublishesAsMember` needs `ToldInv`: the last event
that the stack has raised says whether the boat is a node, and so does `s_provisioned` once all events were handled.

*Crc32* (`HostLinksProofs`). `SameChecksum`: table and bit by bit give the same on all data; the reason is that a round is linear, so that the bits of the table index and the rest can be
moved through eight rounds separately. `OneByteNoticed`: a round is also invertible, so two registers that differ once differ to the end.

*Telemetry* (`HostLinksProofs`). `PayloadRoundTrip`: `decodeTelemetrySummary` undoes `encodeTelemetrySummary` for all numbers that fit their fields. The lemmas before it follow the chain of quotients whose
remainders are the bytes (`BytesChain`, `UnsignedValue`) and the top byte of a negative number (`TopByte`).

*HostLinks* (`HostLinksProofs`). `TypeInv` adds that what was heard are good frames as they decode. `FramesDecode` puts codec and checksum together: a frame of either side decodes unless it was damaged;
with `PayloadRoundTrip`, the layout of the struct (`SameLayout`), and rounding and clamping (`Measured`), it gives `TelemetryTrue`. `NothingLeftBehind` is `OwnedInv` (a socket that holds a port, whether or not it could connect, is known to its transport or its
`stop()` is pending) with `ConnInv` (a connection belongs to a server that is open or closing) and `SocketInv` (no socket beyond the last `start()`, and none that is bound when its `start()` was rejected). `StreamsStayApart` needs `HalfInv`: the parser of a
connection holds the first half of the frame that connection is in, and nothing else.

The assumptions on constants are those named `...Assumption` in the modules; TLC evaluates them in every run. `WireAssumption` fixes what the code fixes: 26 bytes
of telemetry, coordinates that fit an int32 and frame numbers that fit a uint32. `ReadingAssumption` says that latitudes are those of this world; the other readings are any numbers. `CollectedAssumption` says that the numbers of the struct have the types of C.

Only model-checked: the liveness properties `AllGoodFramesOffered`, `ConnectSettles` and `PromisesSettle`, as
the prover does not reason about fairness and `ENABLED`. The runs that find a violation show what is not so and have no theorem. Induction over data (bytes, sizes, positions) is not taken from the library, whose theorems need an
operator as parameter: `CountingUp` and `LeastNat` get it for sets of numbers from the well-foundedness of `<`, which is why `Crc32`, `Telemetry` and `ParserMemory` use recursive functions.

## Plan

1. *Done*: codec, parser, its abstract specification and refinement, its memory, hub, TCP client, serial port, stroke rate, mesh; TCP server, UDP and
   WebSocket with scaling, payload and checksum.
2. `StreamHub`: `FrameParser` and `FleetHub` composed, `resetAll` whole.
3. Reboots of the gateway in `MeshLink`; its log and frames on the UART byte by byte, through the parser.
4. Proofs. *Done*: all invariants, action properties and the refinement. What is left is to say for which users, and by which steps, the promises of the transports settle, as far as that is
   a matter of safety (a promise that is pending belongs to a socket the system still decides about).

## Not modelled

The other examples and the tests (they call the library once), the entry point (re-exports) and the publishing scripts (git and the GitHub API; no part of the running
system); getters and `send` of the serial port, which change no state; flags and the reserved byte of the header, which nothing tests; floating-point errors of the scaling;
a push into a parser from inside its own `onFrame` or `onDecodeError` (a listener that calls `feedStream`); a wall clock that steps back; ESP-IDF, node and `serialport` beyond what is listed with the modules that
rely on them; sensor reads, which are stubs in the firmware.
