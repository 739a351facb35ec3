\* Episodes of two seconds, at most five of three lineages, split as they come.
SPECIFICATION Spec
CONSTANTS
  Logs <- MCLogs
  Duration = 4
  MaintenanceSeconds = 1
  TicksPerSecond = 2
  Starts = {0, 3, 4, 8, 12, 18}
  SplitEnd = 22
  Configs <- MCConfigs
  Lineages = {l1, l2, l3}
  MaxEpisodes = 5
SYMMETRY MCSymmetry
INVARIANTS
  EpisodeCovers
  NothingLeaks
PROPERTIES
  FoldsOnlyGrow
CHECK_DEADLOCK FALSE
