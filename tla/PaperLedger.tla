----------------------------- MODULE PaperLedger ----------------------------
(***************************************************************************)
(* What the paper book promises, whatever drives it: every order has one   *)
(* unit and is open until it is filled or cancelled, once; a buy fill      *)
(* brings in a new lot; a sell fill takes a reserved lot of its product    *)
(* out for good; a lot is received, reserved and released in between.      *)
(* Prices and money are left out.  PaperTrading implements this            *)
(* specification (LedgerRefinement).                                       *)
(***************************************************************************)
EXTENDS Integers, Sequences

CONSTANT Skus

VARIABLES
  orders,  \* every order ever placed, in order of placement
  fills,   \* every fill: the order it closed and the lot it moved
  lots     \* every lot ever bought

ledgerVars == <<orders, fills, lots>>

Sides == {"buy", "sell"}
OrderStatuses == {"open", "filled", "cancelled"}
LotStates == {"purchased", "available", "reserved_for_sale", "sold"}

Order == [sku : Skus, side : Sides, status : OrderStatuses]
Fill == [order : Nat, side : Sides, lot : Nat]
Lot == [sku : Skus, state : LotStates, fill : Nat]

OpenOrder(i) == i \in DOMAIN orders /\ orders[i].status = "open"
LotIs(l, state) == l \in DOMAIN lots /\ lots[l].state = state
Mark(i, status) == [orders EXCEPT ![i].status = status]
Move(l, state) == [lots EXCEPT ![l].state = state]

Init == orders = <<>> /\ fills = <<>> /\ lots = <<>>

\* A new replay starts an empty book.
Reset == orders' = <<>> /\ fills' = <<>> /\ lots' = <<>>

Opened(sku, side) == [sku |-> sku, side |-> side, status |-> "open"]

Place(sku, side) ==
  /\ orders' = Append(orders, Opened(sku, side))
  /\ UNCHANGED <<fills, lots>>

\* The replacement takes the place of an open order of its product and side.
Replace(i) ==
  /\ OpenOrder(i)
  /\ orders' = Append(Mark(i, "cancelled"), Opened(orders[i].sku, orders[i].side))
  /\ UNCHANGED <<fills, lots>>

Cancel(i) ==
  /\ OpenOrder(i)
  /\ orders' = Mark(i, "cancelled")
  /\ UNCHANGED <<fills, lots>>

Buy(i) ==
  /\ OpenOrder(i) /\ orders[i].side = "buy"
  /\ orders' = Mark(i, "filled")
  /\ fills' = Append(fills, [order |-> i, side |-> "buy", lot |-> Len(lots) + 1])
  /\ lots' = Append(lots, [sku |-> orders[i].sku, state |-> "purchased",
                           fill |-> Len(fills) + 1])

Sell(i, l) ==
  /\ OpenOrder(i) /\ orders[i].side = "sell"
  /\ LotIs(l, "reserved_for_sale") /\ lots[l].sku = orders[i].sku
  /\ orders' = Mark(i, "filled")
  /\ fills' = Append(fills, [order |-> i, side |-> "sell", lot |-> l])
  /\ lots' = Move(l, "sold")

\* Some of the purchased lots become available for sale.
Receive ==
  /\ \E S \in SUBSET {l \in DOMAIN lots : lots[l].state = "purchased"} :
       lots' = [l \in DOMAIN lots |->
                  IF l \in S THEN [lots[l] EXCEPT !.state = "available"] ELSE lots[l]]
  /\ UNCHANGED <<orders, fills>>

Reserve(l) ==
  /\ LotIs(l, "available") /\ lots' = Move(l, "reserved_for_sale")
  /\ UNCHANGED <<orders, fills>>

Release(l) ==
  /\ LotIs(l, "reserved_for_sale") /\ lots' = Move(l, "available")
  /\ UNCHANGED <<orders, fills>>

Next ==
  \/ Reset
  \/ \E sku \in Skus, side \in Sides : Place(sku, side)
  \/ \E i \in DOMAIN orders : Replace(i) \/ Cancel(i) \/ Buy(i)
  \/ \E i \in DOMAIN orders, l \in DOMAIN lots : Sell(i, l)
  \/ Receive
  \/ \E l \in DOMAIN lots : Reserve(l) \/ Release(l)

Spec == Init /\ [][Next]_ledgerVars
=============================================================================
