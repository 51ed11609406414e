\* Any network: a packet overtakes another.
SPECIFICATION Spec
CONSTANTS
  Size = {1, 2}
  SeqMod = 8
  SeenLimit = 8
  SeenKeep = 4
  InOrder = FALSE
  MaxLag = 0
  MaxReq = 3
  MaxPos = 6
  MaxRekey = 0
INVARIANTS DuplicateWasProcessed
