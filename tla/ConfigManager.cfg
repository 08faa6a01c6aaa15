SPECIFICATION Spec
CONSTANTS
    Types <- MCTypes
    Builtin <- MCBuiltin
    Contents = {c1}
    Installed <- MCInstalled
    Yamls <- MCYamls
    Overrides <- MCOverrides
    Requests = {r1}
    MaxChanges = 2
    SHIPPED = SHIPPED
    BROKEN = BROKEN
    ABSENT = ABSENT
    NONE = NONE
INVARIANTS
  LastKnownGood
  ConsumersInStep
  AssetsFresh
PROPERTIES
  ReloadCompletes
