\* A user that awaits and closes, and one that does not.
SPECIFICATION FairSpec
CONSTANTS
  MaxConnects = 3
  MaxSends = 2
  MaxChunks = 1
  Users = {"any", "awaits"}
INVARIANTS TypeOK CloseAfterSends AwaitedErrorsInPlace ErrorsReachUser
PROPERTIES ConnectSettles
CHECK_DEADLOCK FALSE
