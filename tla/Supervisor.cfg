CONSTANTS
  Conn = {1, 2}
  Sup = {1, 2}
  NoConn = NoConn
  NoSup = NoSup
  MaxAttempts = 2
  MaxOps = 3
SPECIFICATION FairSpec
INVARIANT IInv
INVARIANT DisconnectIsFinal
INVARIANT OneSession
PROPERTY LostIsNoticed
PROPERTY DisconnectReturns
CHECK_DEADLOCK FALSE
