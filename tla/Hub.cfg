CONSTANTS
  Conn = {c1}
  Key = {k1, k2}
  Kept = {k1}
  NoKey = NoKey
  MaxChange = 2
SPECIFICATION FairSpec
INVARIANT NoOrphanSlot
INVARIANT IInv
PROPERTY KeptAreNotDropped
 
PROPERTY RevokedIsDroppedWhenBusy
