CONSTANTS
  Path = {p}
  FileId = {1, 2, 3}
  Text = {e, a}
  Bin = {}
  Empty = e
  None = None
  TextPath = {p}
  Protected = {}
  Oversize = {}
  UserOps = {"save"}
  Before = {}
  Reuse = FALSE
  MaxSave = 1
  MaxMerge = 1
  MaxFault = 0
  MaxCrash = 1
SPECIFICATION FairSpec
PROPERTY SavesAreCaptured
