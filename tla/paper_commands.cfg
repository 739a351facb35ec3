\* Two keys, a store that fails and a process that dies.
SPECIFICATION Spec
CONSTANTS
  Keys = {k1, k2}
  MaxBatch = 1
  MaxLoads = 3
  MaxVersion = 1
  MaxEvents = 3
  None = None
INVARIANTS
  KeyAnsweredOnce
  StreamIsAudited
  AcknowledgedIsStored
PROPERTIES
  JournalRefinement
CHECK_DEADLOCK FALSE
