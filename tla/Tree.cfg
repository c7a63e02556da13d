CONSTANTS
  Path <- MCPath
  FileId = {1, 2}
  Text = {e}
  Bin = {z}
  Empty = e
  None = None
  DirId = {1, 2}
  Raw <- MCRaw
  Nfc <- MCNfc
  Nul = Nul
  Segment = {"a", "b", "c"}
  MaxDepth = 3
SPECIFICATION Spec
INVARIANT TypeOK
INVARIANT FilesHaveParents
 
