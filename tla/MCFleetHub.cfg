SPECIFICATION Spec
CONSTANTS
  Boats = {b1, b2}
  Listeners = {l1, l2, l3}
  NoListener = NoListener
  MaxAge = 1
  MaxFrames = 3
  MaxDepth = 2
  MaxOps = 4
  MaxTime = 2
SYMMETRY Symmetry
INVARIANTS TypeOK SnapshotIsLatest StaleMeansSilent EventInSnapshot NobodySkipped NobodyTwice
CHECK_DEADLOCK FALSE
