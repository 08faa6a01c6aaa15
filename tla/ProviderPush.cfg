SPECIFICATION FairSpec
CONSTANTS
    Widgets = {w1}
    ChatWidgets = {}
    Pushers = {p1}
    Subscribing = TRUE
    SinkCapacity = 1
    Configs <- TwoDomains
    MaxGen = 2
    NoEntry = NoEntry
    w1 = w1
    w2 = w2
    p1 = p1
VIEW CacheView
INVARIANTS
  PurgedStaysPurged
PROPERTIES
  UpdateCompletes
