SPECIFICATION Spec
CONSTANTS
  CellId = 7
  SecondaryCellId = 8
  Overrides <- MCOverrides
  MaxSpecs = 2
  MaxWrites = 1
  MaxBreaks = 1
  Generated <- MCGenerated
  OverrideDocs <- MCOverrideDocs
  MaxChanges = 2
  Tags = {1, 2}
  Counts = {0, 1, 2, 3, 5}
  RoleChoices <- MCRoleChoices
  NewClusters <- MCNewClusters
  MaxCells = 2
  MaxEdits = 2
INVARIANTS  MostSpecificWins QuorumSurvives NothingOrphaned StaysEditable
PROPERTIES  CopiedLast 
CHECK_DEADLOCK FALSE
