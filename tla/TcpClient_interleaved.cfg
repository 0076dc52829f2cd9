\* close() and connect(), each awaited, while the peer goes on sending.
SPECIFICATION Spec
CONSTANTS
  MaxConnects = 2
  MaxSends = 0
  MaxChunks = 2
  Users = {"awaits"}
INVARIANTS OneConnectionAtATime
CHECK_DEADLOCK FALSE
