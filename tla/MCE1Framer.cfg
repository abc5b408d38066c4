SPECIFICATION Spec
CONSTANTS
  FarEnds <- MCFarEnds
  Payloads = {5}
  SearchLimit = 64
  OutageLen = 5
INVARIANTS AlignedTruly FrameLossNoticed CrcVerdict
PROPERTIES KeepsAlignment Realigns FallsBack
