\* The clock, the modes and the budget of the local demo.
SPECIFICATION Spec
CONSTANTS
  Artifacts = {a1}
  Reports = {passing}
  PassingReports = {passing}
  QualifiedArtifacts = {a1}
  Callers = {}
  MaxModels = 1
  None = None
  OpsModel = OpsModel
  DemoBound = TRUE
  BindStates = {"shadow", "benchmark_qualified"}
  EventCount = 3
  SpeedChoices = {0, 1, 2}
  BudgetChoices <- MCBudgets
  Answers <- MCAnswers
INVARIANTS
  TypeOK
  HandledInOrder
  ModelPauseNeedsModelMode
PROPERTIES
  PausedClockQuotesNothing
