CONSTANTS
  Prices = {2}
  SaleFee <- MCSaleFee
  BuyFee = 1
  InitialCash = 6
  MaxRuns = 2
  MaxFills = 2
  MaxSteps = 3
  MaxBatch = 2
  MaxOrders = 2
SPECIFICATION Spec
INVARIANTS
  ExportTypeOK
  FeesTravelWithFills
  CostsAreFees
  ExportRepeatable
  EpisodesChain
CHECK_DEADLOCK FALSE
