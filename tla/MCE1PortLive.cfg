CONSTANTS
  MF = 1
  NMF = 3
  MaxInFlight = 2
  Prime = 2
  MaxChunk = 1
SPECIFICATION FairSpec
PROPERTIES StopDrains RxRecovers
