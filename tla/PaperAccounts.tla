---------------------------- MODULE PaperAccounts ---------------------------
(***************************************************************************)
(* What the paper book promises about sums and counts over its history:    *)
(* exposure, cash and backing, as the documents state them.  The           *)
(* properties are apart from PaperTrading because they fold over the book. *)
(***************************************************************************)
EXTENDS PaperTrading, Sums

OpenOf(side) == {i \in DOMAIN orders : IsOpen(i) /\ orders[i].side = side}

\* Aggregate principal of the open orders: of the open buys.
OpenBuyPrincipal ==
  SumTo([i \in DOMAIN orders |-> IF IsOpen(i) THEN Principal(orders[i]) ELSE 0],
        Len(orders))

\* What the buys cost, or the sells brought.
Total(side) ==
  SumTo([f \in DOMAIN fills |-> IF fills[f].side = side THEN fills[f].amount ELSE 0],
        Len(fills))
Spent == Total("buy")
Earned == Total("sell")

\* The aggregate principal of the open buy orders, not just the reserve kept
\* for them, is at most the cap (CONTEXT.md, Paper Capital).
OpenBuyPrincipalWithinCap == OpenBuyPrincipal <= OpenBuyCap

\* Between handlers the reserve is exactly the principal of the open bids:
\* no refused, filled or cancelled bid leaves a reservation behind and no
\* replacement reserves twice.  It needs every intent the gate accepted to
\* reach the book: a handler that raises in between breaks it (session.py:423,
\* quote_engine.py:307).
ReservationExact == Idle => capital.reserved = OpenBuyPrincipal

\* The cash is the initial cash less what the buys cost plus what the sells
\* brought: no command loses or invents money, as long as no fill raises out of
\* the match loop and leaves the quote engine's copy of the cash behind.
CashBalances == capital.cash = (InitialCash - Spent) + Earned

\* No duplicate exposure: one open order per product and side at most, as
\* long as every accepted intent reaches the book.
OneOpenOrderPerKey ==
  \A i, j \in DOMAIN orders :
    (IsOpen(i) /\ IsOpen(j) /\ KeyOf(orders[i]) = KeyOf(orders[j])) => i = j

\* Every open bid the market reaches can be paid: no tick dies in match while
\* it buys, as long as every accepted intent reaches the book.
MatchedOrdersSettle ==
  stage = "match" => \A i \in todo :
    (Crosses(orders[i]) /\ orders[i].side = "buy") => CanBuy(orders[i])

\* No sell without an inventory lot: between handlers each open ask has a
\* reserved lot of its product to deliver, until one is sold, and as long as
\* the cancel of an ask whose lot was released reaches the book.
OpenAsksBacked ==
  Idle => \A sku \in Skus :
    Cardinality(OpenOf("sell") \cap OpenOrders(sku))
      <= Cardinality(LotsIn("reserved_for_sale", sku))

\* A cancel by hand clears a working quote: it closes an open order of its
\* product and side whenever there is one, if its payload names the order in
\* full and no raise has left the order out of the index.
CancelClosesAnOrder ==
  [][\A side \in CancelSides, sku \in Skus, form \in CancelForms :
       (/\ OperatorCancel(side, sku, form)
        /\ OpenOf(side) \cap OpenOrders(sku) # {}) =>
         \E i \in OpenOf(side) \cap OpenOrders(sku) :
           orders'[i].status = "cancelled"]_vars
=============================================================================
