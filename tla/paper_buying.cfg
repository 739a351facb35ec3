SPECIFICATION Spec
CONSTANTS
  None = None
  Skus <- MCOneProduct
  Events <- MCBuyingEvents
  MaxBatch = 2
  InitialCash = 25
  OpenBuyCap = 15
  ExpectedBuyFees = 2
  InboundShipping = 1
  SaleRatePct = 13
  BuySlippage = 0
  SellSlippage = 0
  BidOffset = 1
  AskOffset = 1
  ReviseThreshold = 2
  Ticks <- MCTicks
  Modes = {"deterministic", "advisory", "iql_primary"}
  CancelForms = {"keyed"}
  CancelSides = {"buy", "sell"}
  StoreFails = FALSE
  MaxOrders = 5
INVARIANTS
  ReservationExact
  OneOpenOrderPerKey
  MatchedOrdersSettle
  OpenAsksBacked
PROPERTIES
  CancelClosesAnOrder
