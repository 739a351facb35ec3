\* Two models under promotion by two callers at once.
SPECIFICATION RegistrySpec
CONSTANTS
  Artifacts = {a1, a2}
  Reports = {passing, failing}
  PassingReports = {passing}
  QualifiedArtifacts = {a1}
  Callers = {job, operator}
  MaxModels = 2
  None = None
INVARIANTS
  AuditIsHistory
  AuditExplainsState
  ShadowFirst
  ArtifactRegisteredOnce
\* Every model may end up withdrawn.
CHECK_DEADLOCK FALSE
