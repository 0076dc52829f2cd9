\* UDP, TCP and WebSocket, for any user and one that awaits its calls.
SPECIFICATION FairSpec
CONSTANTS
  Magic <- MCMagic
  MaxPayload = 30
  TelemetrySize = 26
  Base = 32
  DegScale = 1000
  DpsScale = 600
  Reading <- MCReading
  Firmware = {"c2"}
  Collected <- MCCollected
  Kinds = {"udp", "tcp", "ws"}
  Users = {"any", "awaits"}
  OnDecodeErrors = {TRUE, FALSE}
  Clients = {"c1", "c2"}
  BadFrames = {2}
  MaxStarts = 2
  MaxFrames = 3
  MaxSent = 2
  MaxHeard = 2
INVARIANTS TypeOK StreamsStayApart TelemetryTrue NothingLeftBehind
PROPERTIES PromisesSettle
CHECK_DEADLOCK FALSE
