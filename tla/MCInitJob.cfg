SPECIFICATION FairSpec
CONSTANTS
  CellsInitialization = CellsInitialization
  ClusterInitialization = ClusterInitialization
  UpdateReasons = {EnterReadOnly, ExitReadOnly}
  NoReason = NoReason
  MaxEpoch = 5
  MaxManual = 2
INVARIANTS FreshCompletion NoConcurrentInvocations ScriptsOfThisStep
PROPERTIES RunsEveryScript StepCompletes
