CONSTANTS
  Path = {p, q}
  FileId = {1, 2}
  Text = {e, a}
  Bin = {}
  Empty = e
  None = None
  TextPath = {p}
  Protected = {q}
  Oversize = {}
  UserOps = {"save", "remove"}
  Before = {}
  Reuse = TRUE
  MaxSave = 2
  MaxMerge = 0
  MaxFault = 0
  MaxCrash = 0
SPECIFICATION FairSpec
PROPERTY DiskIsCaptured
