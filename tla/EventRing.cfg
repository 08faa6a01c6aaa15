SPECIFICATION Spec
CONSTANTS
    Ids = {1, 2, 3, 4, 5, 6, 7}
    Capacity = 3
    TTL = 1
    MaxTime = 3
    Miss = Miss
    NoEntry = NoEntry
INVARIANTS
  ReplayExact
PROPERTIES
  ImplementsLog
CHECK_DEADLOCK FALSE
