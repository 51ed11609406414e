\* The settings of MCPrudpStream.
SPECIFICATION MCSpec
CONSTANTS
  Size = {0, 1, 2}
  SeqMod = 16
  SeenLimit = 4
  SeenKeep = 3
  InOrder = TRUE
  MaxLag = 2
  MaxReq = 7
  MaxPos = 14
  MaxRekey = 2
INVARIANTS
  TypeOK InOrderAtMostOnce AtMostOnce
  OrderedAckedIsDispatched OrderedDuplicateWasProcessed
PROPERTY ChannelSpec
