CONSTANTS
  Count = 2
  MinReady <- MCUnset
  Drains = TRUE
  Modes = {"BulkUpdate", "OnDelete", "RollingUpdate"}
  ConfigOnly = FALSE
  SlowFetch = FALSE
  OthersBusy = TRUE
  MaxVersion = 2
  MaxTrouble = 1
SPECIFICATION FairSpec
INVARIANT WithinBudget
PROPERTIES  PreChecked PodsCatchUp
CHECK_DEADLOCK FALSE
