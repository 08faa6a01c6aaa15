SPECIFICATION Spec
CONSTANTS
    Widgets = {w1, w2}
    ChatWidgets = {w2}
    Pushers = {}
    Subscribing = FALSE
    SinkCapacity = 1
    Configs <- PolledAndChat
    MaxGen = 2
    NoEntry = NoEntry
    w1 = w1
    w2 = w2
INVARIANTS
  SinkAgrees
