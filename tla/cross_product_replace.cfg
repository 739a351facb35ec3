SPECIFICATION Spec
CONSTANTS
  None = None
  Skus <- MCTwoProducts
  Events <- MCEvents
  MaxBatch = 1
  InitialCash = 25
  OpenBuyCap = 15
  ExpectedBuyFees = 2
  InboundShipping = 1
  SaleRatePct = 13
  BuySlippage = 0
  SellSlippage = 0
  BidOffset = 1
  AskOffset = 1
  ReviseThreshold = 2
  Ticks <- MCTicks
  Modes = {"deterministic"}
  CancelForms = {"keyed"}
  CancelSides = {}
  StoreFails = FALSE
  MaxOrders = 6
INVARIANTS
  OpenBuyPrincipalWithinCap
