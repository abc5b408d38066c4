SPECIFICATION Spec
CONSTANTS
  Dev <- MCDev
  TuneWords <- MCTuneWords
  Wrap = 6
  MaxDevValid = 1000
  MaxDevFine = 3
  MaxInvalid = 5
  iKv = 0
  Kp = 0
  Ki = 0
  Kd = 0
INVARIANTS TracksLivePps TracksGoodPps
PROPERTIES UsesSettled
