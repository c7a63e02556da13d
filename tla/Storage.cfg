CONSTANTS
  Proc = {p1, p2}
  Id = {i1, i2}
  Remote = i2
  Change = {c1, c2, a1}
  Attachment = {a1}
  Overlap = {"idle"}
  MaxFail = 1
  None = None
  Torn = Torn
SPECIFICATION FairSpec
INVARIANT TypeOK
 
INVARIANT ConfigNamesTheVault
 
PROPERTY ImplementsDurableDoc
PROPERTY EditsAreSaved
