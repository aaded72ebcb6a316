CONSTANTS
  Cells = {c1, c2}
  Patient = TRUE
  MaxRoles = 2
SPECIFICATION FairSpec
INVARIANTS KnownFirst NothingForgotten MaintenanceMeansExtended
PROPERTY ExtensionEnds
CHECK_DEADLOCK FALSE
