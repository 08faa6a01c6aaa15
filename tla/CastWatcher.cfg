SPECIFICATION Spec
CONSTANTS
    Apps = {tv, player}
    NoApp = NoApp
    Player = player
    Active = {"playing", "paused"}
    Wakers = {w1, w2}
    Capacity = 1
    MaxSession = 2
    MaxChanges = 2
    MaxFaults = 1
INVARIANTS
  CoreAgrees
PROPERTIES
  Follows
