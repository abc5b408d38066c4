SPECIFICATION FairSpec
CONSTANTS
  Words <- MCWords
  E1Base = 0
  UsbBase = 1
  Lens <- MCLens
  LenMod = 4096
  E1Word = 3
  CpuWord = 0
INVARIANTS CopyExact GrantHolds E1WaitBounded
PROPERTY DmaEnds
