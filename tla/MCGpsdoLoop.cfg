SPECIFICATION LoopSpec
CONSTANTS
  Dev <- MCDev
  TuneWords <- MCTuneWords
  Wrap = 8
  MaxDevValid = 1000
  MaxDevFine = 3
  MaxInvalid = 5
  iKv = 300
  Kp = 14336
  Ki = 410
  Kd <- MCKd
  Bases <- MCBases
  Jitter <- MCJitter
  Outages <- MCOutages
  Slope = 85
  MaxTrouble = 1
  DriftPeriod = 20
  MaxBase = 700
  LockTime = 40
INVARIANTS LocksInTime
PROPERTIES Locks
