CONSTANTS
  Path = {p}
  FileId = {1, 2}
  Text = {e, a, b}
  Bin = {}
  Empty = e
  None = None
  TextPath = {p}
  Protected = {}
  Oversize = {}
  UserOps = {}
  Before = {}
  Reuse = TRUE
  MaxSave = 0
  MaxMerge = 2
  MaxFault = 0
  MaxCrash = 1
SPECIFICATION Spec
PROPERTY RestartKeepsNewerText
SYMMETRY ContentSymmetry
