SPECIFICATION FairSpec
CONSTANTS MF = 2  NMF = 3  MaxInFlight = 2  MaxFrames = 3  Wired <- OneLine
INVARIANTS SlotsInOrder StoppedIsOff
PROPERTIES LossAnnounced KeepsReceiving
