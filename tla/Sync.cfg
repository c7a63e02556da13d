CONSTANTS
  Client = {a}
  hub = hub
  MaxChange = 2
  MaxFault = 1
  None = None
SPECIFICATION FairSpec
INVARIANT TypeOK
 
 
 
INVARIANT QuietMeansEqual
PROPERTY Converges
PROPERTY FallsSilent
CHECK_DEADLOCK FALSE
