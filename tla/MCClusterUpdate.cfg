SPECIFICATION FairSpec
CONSTANTS
  Loop <- MCLoop
  Primary = "p"
  Proxy = "h"
  Type <- MCType
  Heater = FALSE
  Concurrency = 2
  Edits <- MixedEdits
  MidUpdateEdits = FALSE
  MaxGeneration = 2
  MaxFaults = 1
INVARIANTS  RunningIsCurrent
PROPERTIES StopsPrepared MastersFirst  Converges
