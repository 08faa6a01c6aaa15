CONSTANTS
  SeqNodes = 6
  MaxSearchNodes = 60
  MaxScreens = 2
  Configs <- MCConfigs
  Edited <- MCEdited
  Origins <- MCOrigins
  MaxEdits = 3
SPECIFICATION Spec
INVARIANTS
  Tiled
  SolverComplete
  AutoPlacedFit
  DrawnWhereAsked
  SaveIsStable
CHECK_DEADLOCK FALSE
