CONSTANTS
  Path = {p}
  FileId = {1, 2}
  Text = {e, a}
  Bin = {z, y}
  Empty = e
  None = None
  TextPath = {p}
  Protected = {}
  Oversize = {y}
  UserOps = {"save", "truncate", "remove", "move"}
  Before = {a}
  Reuse = TRUE
  MaxSave = 1
  MaxMerge = 1
  MaxFault = 1
  MaxCrash = 0
SPECIFICATION Spec
INVARIANT TypeOK
INVARIANT IInv
INVARIANT SafeHashes
INVARIANT MarksAreRecoverable
 
 
SYMMETRY ContentSymmetry
