SPECIFICATION FairSpec
CONSTANTS
    StreamIds = {s1, s2, s3}
    Callers = {c1}
    PlayerState = {playing}
    NoStream = NoStream
    MaxTimers = 2
INVARIANTS
  StackConsistent
  CountdownIffTemporary
  DisplaysFollow
PROPERTIES
  AutoDismiss
CHECK_DEADLOCK FALSE
