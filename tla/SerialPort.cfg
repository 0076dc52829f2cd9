\* A port given or opened by path, started and stopped in turn, or opened again by its owner.
SPECIFICATION Spec
CONSTANTS
  Givens = {TRUE, FALSE}
  MaxStarts = 3
  MaxChunks = 4
  Users = {"any", "awaits", "reopens"}
INVARIANTS TypeOK FramesWhole
PROPERTIES QuietAfterStop
CHECK_DEADLOCK FALSE
