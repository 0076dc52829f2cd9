\* One boat that is removed and enrolled again, and reboots in between.  It ends when the
\* bounds are used up.
SPECIFICATION Spec
CONSTANTS
  Boats = {b1}
  MaxTimer = 2
  MaxReboots = 2
  MaxJoins = 3
  MaxForeign = 1
  MaxInFlight = 2
  Consoles = {TRUE, FALSE}
INVARIANTS TypeOK SnapshotMovesForward
PROPERTIES PublishesAsMember
CHECK_DEADLOCK FALSE
