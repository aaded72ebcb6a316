CONSTANTS
  Count = 2
  MinReady <- MCUnset
  Drains = FALSE
  Modes = {"RollingUpdate"}
  ConfigOnly = FALSE
  SlowFetch = FALSE
  OthersBusy = TRUE
  MaxVersion = 3
  MaxTrouble = 0
SPECIFICATION FairSpec
PROPERTIES PodsCatchUp
