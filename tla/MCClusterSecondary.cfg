SPECIFICATION FairSpec
CONSTANTS
  Loop <- CellsLoop
  Primary = "p"
  Proxy = "h"
  Type <- MCType
  Heater = FALSE
  Concurrency = 3
  Edits <- SecondaryEdits
  MidUpdateEdits = FALSE
  MaxGeneration = 2
  MaxFaults = 0
PROPERTY UpdateEnds
