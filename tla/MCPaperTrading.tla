--------------------------- MODULE MCPaperTrading ---------------------------
(* Small instances of PaperTrading for TLC.  Prices are a hundredth of the  *)
(* code's, with the same order: expected fees exceed the inbound shipping,  *)
(* the cap is 60% of the initial cash, and a quote moves when the market    *)
(* does.                                                                    *)
EXTENDS PaperAccounts

\* A quiet book, one whose ask drops to a resting bid, one whose bid rises to
\* a resting ask.
MarketOf(sku) ==
  {[sku |-> sku, bid |-> 5, ask |-> 9],
   [sku |-> sku, bid |-> 3, ask |-> 6],
   [sku |-> sku, bid |-> 8, ask |-> 12]}

\* A market whose bid never reaches a resting ask: lots are bought, none sold.
BuyingMarketOf(sku) ==
  {[sku |-> sku, bid |-> 4, ask |-> 9],
   [sku |-> sku, bid |-> 3, ask |-> 5],
   [sku |-> sku, bid |-> 1, ask |-> 7]}

MCOneProduct == {"jordan_1_retro"}
MCTwoProducts == {"jordan_1_retro", "nike_dunk_low"}
MCEvents == UNION {MarketOf(sku) : sku \in Skus}
MCBuyingEvents == UNION {BuyingMarketOf(sku) : sku \in Skus}
MCTicks == {-1, 0}
=============================================================================
