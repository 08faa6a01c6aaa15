SPECIFICATION FairSpec
CONSTANTS
    MaxScreens = 3
    Intervals = {0, 30}
    PauseDefaults = {0, 120}
    NotPublished = NotPublished
    MaxGen = 6
INVARIANTS
  RotationArmed
  PublishedIsCurrent
PROPERTIES
  FullIntervalAfterRequest
  RotationGoesOn
CHECK_DEADLOCK FALSE
