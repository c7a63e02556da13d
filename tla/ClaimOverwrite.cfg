CONSTANTS
  Path = {p}
  FileId = {1, 2}
  Text = {e, a, b}
  Bin = {}
  Empty = e
  None = None
  TextPath = {p}
  Protected = {}
  Oversize = {}
  UserOps = {"save"}
  Before = {}
  Reuse = TRUE
  MaxSave = 1
  MaxMerge = 1
  MaxFault = 0
  MaxCrash = 0
SPECIFICATION Spec
PROPERTY NoUncapturedOverwrite
SYMMETRY ContentSymmetry
