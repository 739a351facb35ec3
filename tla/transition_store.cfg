\* Two processes that add and correct the transitions of one decision.
SPECIFICATION FairSpec
CONSTANTS
  Clients = {writer, corrector}
  Requests <- MCRequests
  None = None
  u1 = u1
  u2 = u2
  u3 = u3
  first = first
  second = second
  third = third
  plain = plain
  fixed = fixed
INVARIANTS
  EvidenceIsWhole
PROPERTIES
  RegisterRefinement
  CallsEnd
