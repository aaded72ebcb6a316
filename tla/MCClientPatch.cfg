CONSTANTS
  Bundles = {b1}
  Nodes = {n1}
  Batches <- MCBatches
  MaxCells = 2
  ListFails = FALSE
  MaxOverrides = 2
SPECIFICATION Spec
INVARIANT PatchReported
CHECK_DEADLOCK FALSE
