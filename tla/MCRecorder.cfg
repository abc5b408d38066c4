SPECIFICATION FairSpec
CONSTANTS Nx = 2  Ppx = 2  Buffered = 2  MaxSent = 2  MaxSessions = 2  MaxTrouble = 1
INVARIANT RecordingTrue
PROPERTY NeverStalls
CHECK_DEADLOCK FALSE
