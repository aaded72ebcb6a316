CONSTANTS
  Bundles = {b1}
  Nodes = {n1, n2}
  Batches <- MCBatches
  MaxCells = 2
  ListFails = FALSE
  MaxOverrides = 2
SPECIFICATION FairSpec
INVARIANTS NoCellsWhileDown TabletsBack 
PROPERTY UpdateSettles
CHECK_DEADLOCK FALSE
