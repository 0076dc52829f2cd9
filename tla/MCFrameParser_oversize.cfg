SPECIFICATION Spec
CONSTANTS
  Magic <- MCMagic
  MaxPayload = 8
  TelemetrySize = 2
  Crc <- MCCrc
  FrameStarts <- MCFrameStarts
  MaxStreamLen = 48
  Streams <- OversizeStreams
  OnDecodeErrors = {TRUE}
  Faults = {}
  MaxFaults = 0
INVARIANTS OversizeIsDropped
CHECK_DEADLOCK FALSE
