SPECIFICATION FairSpec
CONSTANTS BufSize = 5  PacketMax = 2  Word = 2  BufLen = 17  MaxLost = 2
  Kinds <- MCKinds  Fillers <- MCFillers
INVARIANTS WholeSentences FixIsLatest UnreadExact
PROPERTIES InitEnds
