SPECIFICATION Spec
CONSTANTS
  None = None
  Skus <- MCTwoProducts
  Events <- MCEvents
  MaxBatch = 1
  InitialCash = 25
  OpenBuyCap = 15
  ExpectedBuyFees = 2
  InboundShipping = 1
  SaleRatePct = 13
  BuySlippage = 0
  SellSlippage = 0
  BidOffset = 1
  AskOffset = 1
  ReviseThreshold = 2
  Ticks <- MCTicks
  Modes = {"deterministic"}
  CancelForms = {"keyed", "unkeyed"}
  CancelSides = {"buy", "sell"}
  StoreFails = TRUE
  MaxOrders = 4
INVARIANTS
  TypeOK
  CapitalWithinPolicy
  KeyIndexSound
  LotsSoldOnce
PROPERTIES
  LedgerRefinement
