\* Jobs and the CI pin on one directory, whose processes fail or die.
SPECIFICATION Spec
CONSTANTS
  RowOf <- MCRowOf
  PaperRows = {"shared", "quarantined"}
  HistoricalRows = {"shared", "foreign"}
  Environments = {"assumptions"}
  CiEnvironment = "ci"
  Readers = {r1}
  None = None
  Torn = Torn
  MaxSteps = 2
  MaxJobs = 3
INVARIANTS
  WeightsHaveLineage
PROPERTIES
  CheckpointRefinement
CHECK_DEADLOCK FALSE
