CONSTANTS
  Users <- MCUsers
  Asks <- MCAsks
  Confs <- MCConfs
  NumItems = 3
  Parent <- MCParent
  Initially <- MCInitially
  Dashboards <- MCDashboards
  ShowCompleted = 1
  PageSize = 1
  MaxPages = 3
  Interval = 20
  InitialInterval = 5
  MaxInterval = 18
  MaxFaults = 1
  MaxFailures = 3
  MaxChanges = 1
SPECIFICATION FairSpec
INVARIANTS
  RefreshNotLost
  ReplyTruthful
  ListSound
  RetryBounded
PROPERTIES
  Converges
CHECK_DEADLOCK FALSE
