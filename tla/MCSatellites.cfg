SPECIFICATION Spec
CONSTANTS
  MaxGeneration = 2
  MaxRemote = 2
  MaxPodFailures = 1
  MaxJobFailures = 2
  MaxClusterStops = 1
INVARIANTS   StagesInOrder
PROPERTIES  FinishedForGood ReleaseFinishes
CHECK_DEADLOCK FALSE
