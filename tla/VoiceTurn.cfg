SPECIFICATION FairSpec
CONSTANTS
    Posters = {post1}
    Posted = {"idle", "speaking"}
    MaxTimers = 2
    MaxChunks = 1
INVARIANTS
  WatchdogGuardsSpeaking
  OutcomeShown
PROPERTIES
  TurnEnds
  SpeakingEnds
