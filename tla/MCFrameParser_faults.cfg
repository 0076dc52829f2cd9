SPECIFICATION Spec
CONSTANTS
  Magic <- MCMagic
  MaxPayload = 8
  TelemetrySize = 2
  Crc <- MCCrc
  FrameStarts <- MCFrameStarts
  MaxStreamLen = 48
  Streams <- FaultyStreams
  OnDecodeErrors = {TRUE, FALSE}
  Faults = {"throw", "throwBoatConnectError", "resetInCallback", "reset"}
  MaxFaults = 2
INVARIANTS TypeOK OfferedFramesAreReal BufferIsStreamWindow OfferedInOrder CleanStreamExact
PROPERTIES FrontFrameKept StopsAtBadFrame Reassembles
CHECK_DEADLOCK FALSE
