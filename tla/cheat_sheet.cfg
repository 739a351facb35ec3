\* An operator who follows the cheat sheet and the runbook, with two models.
SPECIFICATION CheatSheetSpec
CONSTANTS
  Artifacts = {a1, a2}
  Reports = {passing}
  PassingReports = {passing}
  QualifiedArtifacts = {a1}
  Callers = {}
  MaxModels = 2
  None = None
  OpsModel = OpsModel
  DemoBound = FALSE
  BindStates = {}
  EventCount = 2
  SpeedChoices = {1}
  BudgetChoices = {100}
  Answers <- MCPromptOrLate
INVARIANTS
  KnownStateIsCurrent
PROPERTIES
  ReplayCompletes
CHECK_DEADLOCK FALSE
