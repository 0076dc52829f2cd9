SPECIFICATION MFairSpec
CONSTANTS
  FirstSize = 16
  Magic <- MCMagic
  MaxPayload = 8
  TelemetrySize = 2
  Crc <- MCCrc
  FrameStarts <- MCFrameStarts
  MaxStreamLen = 48
  Streams <- CleanStreams
  OnDecodeErrors = {TRUE, FALSE}
  Faults = {"throw", "throwBoatConnectError", "resetInCallback", "reset"}
  MaxFaults = 1
INVARIANTS ArrayHoldsBuffer PayloadKept
PROPERTIES AllGoodFramesOffered
CHECK_DEADLOCK FALSE
