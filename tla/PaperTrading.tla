---------------------------- MODULE PaperTrading ----------------------------
(***************************************************************************)
(* The paper trading loop: Deterministic Gate, quote engine, execution     *)
(* engine and inventory ledger, driven by the session commands that change *)
(* them (tick, enable, disable, cancel, set-mode, load).                   *)
(*                                                                         *)
(* A command runs alone (the event loop executes one at a time), but it    *)
(* may raise in the middle and it leaves behind whatever it had already    *)
(* done.  `tick` and `disable` are therefore cut at the points between     *)
(* which they can raise: `stage` is the position of the running handler,   *)
(* and no other command starts before it is "idle" again.  A tick raises   *)
(* in the match loop, in the model, while it releases the ask's lot, and   *)
(* where it writes to the store: the advisory fallback's audit row, before *)
(* anything is submitted, and the step effects, after everything is.  The  *)
(* other writes are the last thing a handler does, so that one which fails *)
(* leaves this module's state as one which does not.                       *)
(*                                                                         *)
(* Money is an integer number of cents.  A SKU stands for a triple of      *)
(* product family, style code and shoe size, one style and one size per    *)
(* family, as in the golden replay.                                        *)
(***************************************************************************)
EXTENDS Integers, Sequences, FiniteSets

CONSTANTS
  Skus,             \* products the replay quotes
  Events,           \* market events a replay may hold: [sku, bid, ask]
  MaxBatch,         \* largest replay speed: events handed out by one tick
  InitialCash,      \* INITIAL_PAPER_CAPITAL
  OpenBuyCap,       \* OPEN_BUY_PRINCIPAL_CAP
  ExpectedBuyFees,  \* expected_buy_fees_and_slippage
  InboundShipping,  \* FeeSchedule.inbound_shipping
  SaleRatePct,      \* FeeSchedule.sale_rate, in percent
  BuySlippage,      \* SlippageModel.buy_slippage
  SellSlippage,     \* SlippageModel.sell_slippage
  BidOffset,        \* QuoteEngineConfig.bid_offset
  AskOffset,        \* QuoteEngineConfig.ask_offset
  ReviseThreshold,  \* QuoteEngineConfig.price_revise_threshold
  Ticks,            \* tick offsets (in money) a model may put on a side
  Modes,            \* strategy modes the operator may select
  CancelForms,      \* "keyed": the payload names style and size; "unkeyed"
  CancelSides,      \* sides the operator cancels by hand
  StoreFails,       \* a write may raise (PostgreSQL), or none (in memory)
  MaxOrders,        \* bound: no tick starts that could exceed it
  None              \* Python's None: no quote, no price

ASSUME PolicyAssumption ==
  /\ InitialCash \in Nat
  /\ OpenBuyCap \in Nat
  /\ ExpectedBuyFees \in Nat
  /\ InboundShipping \in Nat
  /\ SaleRatePct \in 0 .. 99
  /\ BuySlippage \in Nat /\ SellSlippage \in Nat
  /\ BidOffset \in Int /\ AskOffset \in Int
  /\ ReviseThreshold \in Int

ASSUME MarketAssumption ==
  /\ Events \subseteq [sku : Skus, bid : Int, ask : Int]
  /\ MaxBatch \in Nat \ {0}
  /\ MaxOrders \in Nat
  /\ Ticks \subseteq Int

ASSUME OperatorAssumption ==
  /\ Modes \subseteq {"deterministic", "advisory", "iql_primary"}
  /\ CancelForms \subseteq {"keyed", "unkeyed"}
  /\ CancelSides \subseteq {"buy", "sell"}

ASSUME StoreAssumption == StoreFails \in BOOLEAN

ASSUME NoneAssumption ==
  /\ None \notin Int
  /\ None \notin [sku : Skus, price : Int, lot : Nat]

VARIABLES
  capital,       \* PaperExecutionEngine._capital
  orders,        \* PaperExecutionEngine._orders, in insertion order
  openByKey,     \* PaperExecutionEngine._open_by_key, 0 where absent
  fills,         \* PaperExecutionEngine._fills
  lots,          \* InventoryLedger._lots
  quoteCapital,  \* QuoteEngine._capital
  bid,           \* QuoteEngine._active_bid
  ask,           \* QuoteEngine._active_ask
  desired,       \* QuoteEngine._desired_bid, _desired_ask
  enabled,       \* QuoteEngine._enabled
  mode,          \* StrategyModeMachine._mode
  stage,         \* where the running handler is
  batch,         \* events of the tick still to handle, the current one first
  todo,          \* open orders the match loop has still to try
  fresh,         \* fills the match loop has produced for this event
  fallback,      \* the event's advisory fallback has still to be recorded
  outbox         \* accepted intents the handler has still to submit

bookVars == <<capital, orders, openByKey, fills, lots>>
quoteVars == <<quoteCapital, bid, ask, desired>>
handlerVars == <<stage, batch, todo, fresh, fallback, outbox>>
vars == <<bookVars, quoteVars, enabled, mode, handlerVars>>

-----------------------------------------------------------------------------
(* Data *)

Sides == {"buy", "sell"}
Stages == {"idle", "match", "decide", "reconcileBid", "reconcileAsk", "submit"}
LotStates == {"purchased", "available", "reserved_for_sale", "sold"}
OrderStatuses == {"open", "filled", "cancelled"}

Capital == [cash : Int, reserved : Int]
Order == [sku : Skus, side : Sides, price : Int, status : OrderStatuses]
Fill == [order : Nat, side : Sides, amount : Int, lot : Nat]
Lot == [sku : Skus, state : LotStates, fill : Nat]
Quote == [sku : Skus, price : Int, lot : Nat]
Intent == [kind : {"place", "replace", "cancel"}, side : Sides, sku : Skus,
           price : Int, principal : Int, release : Int]
Decision == [intent : Intent, capital : Capital]

Abs(x) == IF x < 0 THEN -x ELSE x
Least(x, y) == IF x <= y THEN x ELSE y
Greatest(x, y) == IF x >= y THEN x ELSE y

\* The order's reservation: its price for a buy, nothing for a sell.
Principal(o) == IF o.side = "buy" THEN o.price ELSE 0

IsOpen(i) == orders[i].status = "open"
OpenOrders(sku) == {i \in DOMAIN orders : IsOpen(i) /\ orders[i].sku = sku}
LotsIn(state, sku) == {l \in DOMAIN lots : lots[l].state = state /\ lots[l].sku = sku}
Event == Head(batch)

-----------------------------------------------------------------------------
(* Deterministic Gate *)

\* Mutant of BuyFits: the cap is checked before the new principal is added.
BuyFitsCapLate(intent, cap) ==
  LET left == cap.reserved - intent.release
  IN  /\ intent.principal > 0
      /\ intent.principal + ExpectedBuyFees <= cap.cash - left
      /\ left <= OpenBuyCap

\* A buy must leave the expected fees covered and the reserve under its cap.
BuyFits(intent, cap) ==
  LET left == cap.reserved - intent.release
  IN  /\ intent.principal > 0
      /\ intent.principal + ExpectedBuyFees <= cap.cash - left
      /\ left + intent.principal <= OpenBuyCap

Accepts(intent, cap) ==
  \/ intent.side = "sell"
  \/ /\ intent.release \in 0 .. cap.reserved
     /\ intent.kind = "cancel" \/ BuyFits(intent, cap)

\* Mutant of CapitalAfter: a replacement reserves without releasing.
CapitalAfterNoRelease(intent, cap) ==
  IF intent.side = "sell"
  THEN cap
  ELSE [cap EXCEPT !.reserved = IF intent.kind = "replace" THEN @ + intent.principal
                                ELSE (@ - intent.release) + intent.principal]

CapitalAfter(intent, cap) ==
  IF intent.side = "sell"
  THEN cap
  ELSE [cap EXCEPT !.reserved = (@ - intent.release) + intent.principal]

-----------------------------------------------------------------------------
(* Commands that start and end a handler *)

Idle == stage = "idle"

InitialCapital == [cash |-> InitialCash, reserved |-> 0]
NoDesire == [bid |-> None, ask |-> None]

Init ==
  /\ capital = InitialCapital /\ quoteCapital = InitialCapital
  /\ orders = <<>> /\ fills = <<>> /\ lots = <<>>
  /\ openByKey = [k \in Skus \X Sides |-> 0]
  /\ bid = None /\ ask = None /\ desired = NoDesire
  /\ enabled = FALSE /\ mode = "deterministic"
  /\ stage = "idle" /\ batch = <<>> /\ todo = {} /\ fresh = {}
  /\ fallback = FALSE /\ outbox = <<>>

\* The handler is over, or it raised: what it had not done yet never happens.
EndHandler ==
  /\ stage' = "idle" /\ batch' = <<>> /\ todo' = {} /\ fresh' = {}
  /\ fallback' = FALSE /\ outbox' = <<>>

\* load: a fresh ledger, quote engine and execution engine; the mode stays.
Load ==
  /\ Idle
  /\ capital' = InitialCapital /\ quoteCapital' = InitialCapital
  /\ orders' = <<>> /\ fills' = <<>> /\ lots' = <<>>
  /\ openByKey' = [k \in Skus \X Sides |-> 0]
  /\ bid' = None /\ ask' = None /\ desired' = NoDesire
  /\ enabled' = FALSE
  /\ UNCHANGED <<mode, handlerVars>>

Enable ==
  /\ Idle
  /\ enabled' = TRUE
  /\ UNCHANGED <<bookVars, quoteVars, mode, handlerVars>>

\* disable: desire nothing, then cancel both actives through the gate.
Disable ==
  /\ Idle
  /\ enabled' = FALSE
  /\ desired' = NoDesire
  /\ stage' = "reconcileBid"
  /\ UNCHANGED <<bookVars, quoteCapital, bid, ask, mode, batch, todo, fresh,
                 fallback, outbox>>

SetMode(m) ==
  /\ Idle
  /\ mode' = m
  /\ UNCHANGED <<bookVars, quoteVars, enabled, handlerVars>>

\* tick: the clock hands out the next events; the first one is matched next.
Tick(events) ==
  /\ Idle
  /\ Len(orders) + 2 * Len(events) <= MaxOrders
  /\ stage' = "match"
  /\ batch' = events
  /\ todo' = OpenOrders(Head(events).sku)
  /\ UNCHANGED <<bookVars, quoteVars, enabled, mode, fresh, fallback, outbox>>

\* Mutant of OperatorCancel: the capital is released, the order forgotten.
OperatorCancelCapitalOnly(side, sku, form) ==
  /\ Idle
  /\ \E i \in OpenOrders(sku) :
       /\ orders[i].side = side
       /\ Principal(orders[i]) <= capital.reserved
       /\ capital' = [capital EXCEPT !.reserved = @ - Principal(orders[i])]
  /\ quoteCapital' = capital'
  /\ bid' = IF side = "buy" THEN None ELSE bid
  /\ ask' = IF side = "sell" THEN None ELSE ask
  /\ UNCHANGED <<orders, openByKey, fills, lots, desired, enabled, mode, handlerVars>>

\* cancel by hand: the payload's family and side pick the first open order,
\* its principal is what the gate releases; the execution engine then looks
\* the order up again under the payload's own key, and the active is cleared.
OperatorCancel(side, sku, form) ==
  LET found == {i \in OpenOrders(sku) : orders[i].side = side}
      first == CHOOSE i \in found : \A j \in found : i <= j
      release == IF found # {} THEN Principal(orders[first]) ELSE 0
      intent == [kind |-> "cancel", side |-> side, sku |-> sku,
                 price |-> 0, principal |-> 0, release |-> release]
      key == <<sku, side>>
      held == IF form = "keyed" THEN openByKey[key] ELSE 0
  IN  /\ Idle
      /\ Accepts(intent, capital)
      /\ capital' = CapitalAfter(intent, capital)
      /\ quoteCapital' = CapitalAfter(intent, capital)
      /\ IF held # 0
         THEN /\ orders' = [orders EXCEPT ![held].status = "cancelled"]
              /\ openByKey' = [openByKey EXCEPT ![key] = 0]
         ELSE UNCHANGED <<orders, openByKey>>
      /\ bid' = IF side = "buy" THEN None ELSE bid
      /\ ask' = IF side = "sell" THEN None ELSE ask
      /\ UNCHANGED <<fills, lots, desired, enabled, mode, handlerVars>>

-----------------------------------------------------------------------------
(* Match: every open order of the event's product, oldest first *)

Matching(i) == stage = "match" /\ i \in todo /\ \A j \in todo : i <= j

Crosses(o) ==
  IF o.side = "buy" THEN Event.ask <= o.price ELSE Event.bid >= o.price

BuyPrice(o) == Least(o.price, Event.ask + BuySlippage)
SellPrice(o) == Greatest(o.price, Event.bid - SellSlippage)
PurchaseCost(o) == BuyPrice(o) + InboundShipping
SaleProceeds(o) == SellPrice(o) - (SellPrice(o) * SaleRatePct) \div 100

\* apply_buy_fill and the fee schedule raise unless all of this holds.
CanBuy(o) ==
  /\ BuyPrice(o) > 0
  /\ Principal(o) <= capital.reserved
  /\ PurchaseCost(o) <= capital.cash

CanSell(o) == SellPrice(o) > 0 /\ SaleProceeds(o) >= 0

Close(i, status) == [orders EXCEPT ![i].status = status]
KeyOf(o) == <<o.sku, o.side>>

\* The book is not crossed, or no reserved lot can be delivered.
LeaveOpen(i) ==
  /\ Matching(i)
  /\ \/ ~Crosses(orders[i])
     \/ orders[i].side = "sell" /\ LotsIn("reserved_for_sale", orders[i].sku) = {}
  /\ todo' = todo \ {i}
  /\ UNCHANGED <<bookVars, quoteVars, enabled, mode, stage, batch, fresh, fallback, outbox>>

Buyable(i) ==
  Matching(i) /\ orders[i].side = "buy" /\ Crosses(orders[i]) /\ CanBuy(orders[i])

\* create_from_buy_fill: the fill and the purchased lot point at each other.
BookBuy(i) ==
  /\ fills' = Append(fills, [order |-> i, side |-> "buy",
                             amount |-> PurchaseCost(orders[i]), lot |-> Len(lots) + 1])
  /\ lots' = Append(lots, [sku |-> orders[i].sku, state |-> "purchased",
                           fill |-> Len(fills) + 1])
  /\ todo' = todo \ {i}
  /\ fresh' = fresh \cup {Len(fills) + 1}
  /\ UNCHANGED <<quoteVars, enabled, mode, stage, batch, fallback, outbox>>

\* apply_buy_fill: the order's reservation goes, the cost is paid.
AfterBuy(o) == [cash |-> capital.cash - PurchaseCost(o),
                reserved |-> capital.reserved - Principal(o)]
PopKey(o) == [openByKey EXCEPT ![KeyOf(o)] = 0]

\* Mutants of FillBuy: the key is not popped; the shipping is not paid.
FillBuyKeyKept(i) ==
  /\ Buyable(i)
  /\ capital' = AfterBuy(orders[i])
  /\ orders' = Close(i, "filled")
  /\ UNCHANGED openByKey
  /\ BookBuy(i)

FillBuyFreeShipping(i) ==
  /\ Buyable(i)
  /\ capital' = [AfterBuy(orders[i]) EXCEPT !.cash = @ + InboundShipping]
  /\ orders' = Close(i, "filled")
  /\ openByKey' = PopKey(orders[i])
  /\ BookBuy(i)

FillBuy(i) ==
  /\ Buyable(i)
  /\ capital' = AfterBuy(orders[i])
  /\ orders' = Close(i, "filled")
  /\ openByKey' = PopKey(orders[i])
  /\ BookBuy(i)

\* A sell fill of lot l closes the order and is booked at its net proceeds.
BookSell(i, l) ==
  LET o == orders[i] IN
  /\ Matching(i)
  /\ o.side = "sell" /\ Crosses(o) /\ CanSell(o)
  /\ l \in LotsIn("reserved_for_sale", o.sku)
  /\ capital' = [capital EXCEPT !.cash = @ + SaleProceeds(o)]
  /\ orders' = Close(i, "filled")
  /\ openByKey' = PopKey(o)
  /\ fills' = Append(fills, [order |-> i, side |-> "sell",
                             amount |-> SaleProceeds(o), lot |-> l])
  /\ todo' = todo \ {i}
  /\ fresh' = fresh \cup {Len(fills) + 1}
  /\ UNCHANGED <<quoteVars, enabled, mode, stage, batch, fallback, outbox>>

\* Mutant of FillSell: the lot is released instead of marked sold.
FillSellLotReleased(i, l) ==
  BookSell(i, l) /\ lots' = [lots EXCEPT ![l].state = "available"]

\* Lot ids are random, so the reserved lot with the least id may be any.
FillSell(i, l) ==
  BookSell(i, l) /\ lots' = [lots EXCEPT ![l].state = "sold"]

\* A fill the book cannot pay for raises out of the tick.
MatchRaises(i) ==
  LET o == orders[i] IN
  /\ Matching(i)
  /\ Crosses(o)
  /\ \/ o.side = "buy" /\ ~CanBuy(o)
     \/ o.side = "sell" /\ ~CanSell(o) /\ LotsIn("reserved_for_sale", o.sku) # {}
  /\ EndHandler
  /\ UNCHANGED <<bookVars, quoteVars, enabled, mode>>

\* After the match loop: the lots just bought are walked to AVAILABLE and the
\* quote engine takes the execution engine's capital.
Settle ==
  /\ stage = "match" /\ todo = {}
  /\ lots' = [l \in DOMAIN lots |->
                IF lots[l].fill \in fresh /\ lots[l].state = "purchased"
                THEN [lots[l] EXCEPT !.state = "available"]
                ELSE lots[l]]
  /\ quoteCapital' = capital
  /\ fresh' = {}
  /\ stage' = "decide"
  /\ UNCHANGED <<capital, orders, openByKey, fills, bid, ask, desired,
                 enabled, mode, batch, todo, fallback, outbox>>

-----------------------------------------------------------------------------
(* Decide: the strategy mode turns the event into desired prices *)

BaseBid == Event.bid + BidOffset
BaseAsk ==
  LET touch == Event.ask - AskOffset
  IN  IF LotsIn("available", Event.sku) # {} /\ touch > BaseBid THEN touch ELSE None

\* Mutant of OnMarket: the enabled switch is not looked at.
OnMarketAlways(b, a) ==
  /\ desired' = [bid |-> b, ask |-> a]
  /\ stage' = "reconcileBid"
  /\ UNCHANGED <<bookVars, quoteCapital, bid, ask, enabled, mode,
                 batch, todo, fresh, outbox>>

\* QuoteEngine.on_market: a disabled engine desires nothing and does nothing.
OnMarket(b, a) ==
  /\ desired' = IF enabled THEN [bid |-> b, ask |-> a] ELSE NoDesire
  /\ stage' = IF enabled THEN "reconcileBid" ELSE "submit"
  /\ UNCHANGED <<bookVars, quoteCapital, bid, ask, enabled, mode,
                 batch, todo, fresh, outbox>>

\* The deterministic base: also advisory's answer to a neutral recommendation
\* and, a fallback to be recorded, to a missing, late or untranslatable one.
DecideBase ==
  /\ stage = "decide"
  /\ mode \in {"deterministic", "advisory"}
  /\ OnMarket(BaseBid, BaseAsk)
  /\ \/ UNCHANGED fallback
     \/ mode = "advisory" /\ fallback' = TRUE

\* A model quote: ticks around the base prices (advisory) or around the touch
\* (iql_primary), refused when crossed, the ask dropped when there is no base ask.
DecideModelQuote(x, y) ==
  LET advisory == mode = "advisory"
      modelBid == x + (IF advisory THEN BaseBid ELSE Event.bid)
      modelAsk == y + (IF advisory /\ BaseAsk # None THEN BaseAsk ELSE Event.ask)
  IN  /\ stage = "decide"
      /\ mode \in {"advisory", "iql_primary"}
      /\ modelBid < modelAsk
      /\ OnMarket(modelBid, IF BaseAsk = None THEN None ELSE modelAsk)
      /\ UNCHANGED fallback

\* A model CANCEL: both actives are cancelled, enabled or not.
DecideCancelAll ==
  /\ stage = "decide"
  /\ mode \in {"advisory", "iql_primary"}
  /\ desired' = NoDesire
  /\ stage' = "reconcileBid"
  /\ UNCHANGED <<bookVars, quoteCapital, bid, ask, enabled, mode,
                 batch, todo, fresh, fallback, outbox>>

\* A model NO_OP in iql_primary: no new intents.
DecideNoOp ==
  /\ stage = "decide"
  /\ mode = "iql_primary"
  /\ stage' = "submit"
  /\ UNCHANGED <<bookVars, quoteVars, enabled, mode, batch, todo, fresh,
                 fallback, outbox>>

\* iql_primary without a valid proposal: the clock pauses and the loop breaks,
\* so the events of the batch behind this one are never handled.
DecidePause ==
  /\ stage = "decide"
  /\ mode = "iql_primary"
  /\ EndHandler
  /\ UNCHANGED <<bookVars, quoteVars, enabled, mode>>

\* The model raises what TimedIqlInference does not catch.
InferenceRaises ==
  /\ stage = "decide"
  /\ mode \in {"advisory", "iql_primary"}
  /\ EndHandler
  /\ UNCHANGED <<bookVars, quoteVars, enabled, mode>>

-----------------------------------------------------------------------------
(* Reconcile one side: place, replace, cancel or leave the active quote *)

NewQuote(price, lot) == [sku |-> Event.sku, price |-> price, lot |-> lot]
QuoteIntent(kind, side, sku, price, release) ==
  [kind |-> kind, side |-> side, sku |-> sku, price |-> price,
   principal |-> IF side = "buy" /\ kind # "cancel" THEN price ELSE 0,
   release |-> release]

\* Past its age limit a quote is replaced at any price; the replay's clock
\* decides when, so aged may be either.
NeedsUpdate(price, active, aged) ==
  aged \/ Abs(price - active.price) >= ReviseThreshold

\* The gate's verdict on a bid: accepted, it takes effect in the quote engine.
GateBid(intent, quote) ==
  /\ IF Accepts(intent, quoteCapital)
     THEN /\ quoteCapital' = CapitalAfter(intent, quoteCapital)
          /\ bid' = quote
          /\ outbox' = Append(outbox, [intent |-> intent,
                                       capital |-> CapitalAfter(intent, quoteCapital)])
     ELSE UNCHANGED <<quoteCapital, bid, outbox>>
  /\ stage' = "reconcileAsk"
  /\ UNCHANGED <<bookVars, ask, desired, enabled, mode, batch, todo, fresh, fallback>>

PlaceBid ==
  /\ stage = "reconcileBid"
  /\ bid = None /\ desired.bid # None
  /\ GateBid(QuoteIntent("place", "buy", Event.sku, desired.bid, 0),
             NewQuote(desired.bid, 0))

ReplaceBid(aged) ==
  /\ stage = "reconcileBid"
  /\ bid # None /\ desired.bid # None
  /\ NeedsUpdate(desired.bid, bid, aged)
  /\ GateBid(QuoteIntent("replace", "buy", Event.sku, desired.bid, bid.price),
             NewQuote(desired.bid, 0))

CancelBid ==
  /\ stage = "reconcileBid"
  /\ bid # None /\ desired.bid = None
  /\ GateBid(QuoteIntent("cancel", "buy", bid.sku, bid.price, bid.price), None)

KeepBid(aged) ==
  /\ stage = "reconcileBid"
  /\ \/ bid = None /\ desired.bid = None
     \/ bid # None /\ desired.bid # None /\ ~NeedsUpdate(desired.bid, bid, aged)
  /\ stage' = "reconcileAsk"
  /\ UNCHANGED <<bookVars, quoteVars, enabled, mode, batch, todo, fresh,
                 fallback, outbox>>

\* The gate accepts every ask of an allowlisted family, capital unchanged.
GateAsk(intent, quote) ==
  /\ ask' = quote
  /\ outbox' = Append(outbox, [intent |-> intent, capital |-> quoteCapital])
  /\ stage' = "submit"
  /\ UNCHANGED <<capital, orders, openByKey, fills, quoteCapital, bid, desired,
                 enabled, mode, batch, todo, fresh, fallback>>

\* Mutant of PlaceAsk: a misspelt lot state.
PlaceAskMisspelt(l) ==
  /\ stage = "reconcileAsk"
  /\ ask = None /\ desired.ask # None
  /\ l \in LotsIn("available", Event.sku)
  /\ lots' = [lots EXCEPT ![l].state = "reserved"]
  /\ GateAsk(QuoteIntent("place", "sell", Event.sku, desired.ask, 0),
             NewQuote(desired.ask, l))

\* An ask is desired only if a lot was available, and none left since.
PlaceAsk(l) ==
  /\ stage = "reconcileAsk"
  /\ ask = None /\ desired.ask # None
  /\ l \in LotsIn("available", Event.sku)
  /\ lots' = [lots EXCEPT ![l].state = "reserved_for_sale"]
  /\ GateAsk(QuoteIntent("place", "sell", Event.sku, desired.ask, 0),
             NewQuote(desired.ask, l))

ReplaceAsk(aged) ==
  /\ stage = "reconcileAsk"
  /\ ask # None /\ desired.ask # None
  /\ NeedsUpdate(desired.ask, ask, aged)
  /\ GateAsk(QuoteIntent("replace", "sell", Event.sku, desired.ask, 0),
             NewQuote(desired.ask, ask.lot))
  /\ UNCHANGED lots

\* Mutant of CancelAsk: the lot keeps its reservation.
CancelAskLotKept ==
  /\ stage = "reconcileAsk"
  /\ ask # None /\ desired.ask = None
  /\ lots[ask.lot].state = "reserved_for_sale"
  /\ UNCHANGED lots
  /\ GateAsk(QuoteIntent("cancel", "sell", ask.sku, ask.price, 0), None)

CancelAsk ==
  /\ stage = "reconcileAsk"
  /\ ask # None /\ desired.ask = None
  /\ lots[ask.lot].state = "reserved_for_sale"
  /\ lots' = [lots EXCEPT ![ask.lot].state = "available"]
  /\ GateAsk(QuoteIntent("cancel", "sell", ask.sku, ask.price, 0), None)

\* The active ask's lot is no longer reserved: release_reservation raises, and
\* the intents collected so far, the bid's included, are never submitted.
CancelAskRaises ==
  /\ stage = "reconcileAsk"
  /\ ask # None /\ desired.ask = None
  /\ lots[ask.lot].state # "reserved_for_sale"
  /\ EndHandler
  /\ UNCHANGED <<bookVars, quoteVars, enabled, mode>>

KeepAsk(aged) ==
  /\ stage = "reconcileAsk"
  /\ \/ ask = None /\ desired.ask = None
     \/ ask # None /\ desired.ask # None /\ ~NeedsUpdate(desired.ask, ask, aged)
  /\ stage' = "submit"
  /\ UNCHANGED <<bookVars, quoteVars, enabled, mode, batch, todo, fresh,
                 fallback, outbox>>

-----------------------------------------------------------------------------
(* Submit: the execution engine applies the accepted intents in order *)

\* The audit row of an advisory fallback is written before the first intent is
\* submitted.  When the store raises, the quotes have moved and a lot may have
\* changed hands, but no intent reaches the book.
FallbackAuditRaises ==
  /\ StoreFails
  /\ stage = "submit" /\ fallback
  /\ EndHandler
  /\ UNCHANGED <<bookVars, quoteVars, enabled, mode>>

NewOrder(intent) ==
  [sku |-> intent.sku, side |-> intent.side, price |-> intent.price, status |-> "open"]

\* Mutant of SubmitOrder: a replace places and forgets the old order.
SubmitOrderBesideOld ==
  LET intent == Head(outbox).intent
  IN  /\ stage = "submit" /\ outbox # <<>>
      /\ intent.kind # "cancel"
      /\ capital' = Head(outbox).capital
      /\ orders' = Append(orders, NewOrder(intent))
      /\ openByKey' = [openByKey EXCEPT ![<<intent.sku, intent.side>>] = Len(orders) + 1]
      /\ outbox' = Tail(outbox) /\ fallback' = FALSE
      /\ UNCHANGED <<fills, lots, quoteVars, enabled, mode, stage, batch, todo, fresh>>

\* Only a replace closes the order its key holds; a place just takes the key.
SubmitOrder ==
  LET intent == Head(outbox).intent
      key == <<intent.sku, intent.side>>
      held == openByKey[key]
      kept == IF intent.kind = "replace" /\ held # 0 THEN Close(held, "cancelled") ELSE orders
  IN  /\ stage = "submit" /\ outbox # <<>>
      /\ intent.kind # "cancel"
      /\ capital' = Head(outbox).capital
      /\ orders' = Append(kept, NewOrder(intent))
      /\ openByKey' = [openByKey EXCEPT ![key] = Len(orders) + 1]
      /\ outbox' = Tail(outbox) /\ fallback' = FALSE
      /\ UNCHANGED <<fills, lots, quoteVars, enabled, mode, stage, batch, todo, fresh>>

\* Mutant of SubmitCancel: the capital moves, the order is left open.
SubmitCancelCapitalOnly ==
  /\ stage = "submit" /\ outbox # <<>>
  /\ Head(outbox).intent.kind = "cancel"
  /\ capital' = Head(outbox).capital
  /\ outbox' = Tail(outbox) /\ fallback' = FALSE
  /\ UNCHANGED <<orders, openByKey, fills, lots, quoteVars, enabled, mode, stage,
                 batch, todo, fresh>>

SubmitCancel ==
  LET intent == Head(outbox).intent
      key == <<intent.sku, intent.side>>
      held == openByKey[key]
  IN  /\ stage = "submit" /\ outbox # <<>>
      /\ intent.kind = "cancel"
      /\ capital' = Head(outbox).capital
      /\ orders' = IF held # 0 THEN Close(held, "cancelled") ELSE orders
      /\ openByKey' = [openByKey EXCEPT ![key] = 0]
      /\ outbox' = Tail(outbox) /\ fallback' = FALSE
      /\ UNCHANGED <<fills, lots, quoteVars, enabled, mode, stage, batch, todo, fresh>>

\* The capital copies agree again; the next event of the batch, or the end.
FinishEvent ==
  LET rest == IF batch = <<>> THEN <<>> ELSE Tail(batch)
  IN  /\ stage = "submit" /\ outbox = <<>>
      /\ quoteCapital' = capital
      /\ batch' = rest
      /\ stage' = IF rest = <<>> THEN "idle" ELSE "match"
      /\ todo' = IF rest = <<>> THEN {} ELSE OpenOrders(Head(rest).sku)
      /\ fallback' = FALSE
      /\ UNCHANGED <<bookVars, bid, ask, desired, enabled, mode, fresh, outbox>>

\* The event's step effects cannot be stored: everything is submitted and the
\* copies agree, but the rest of the batch is never handled.
StepAuditRaises ==
  /\ StoreFails
  /\ stage = "submit" /\ outbox = <<>> /\ batch # <<>>
  /\ quoteCapital' = capital
  /\ EndHandler
  /\ UNCHANGED <<bookVars, bid, ask, desired, enabled, mode>>

-----------------------------------------------------------------------------

Command ==
  \/ Load \/ Enable \/ Disable
  \/ \E m \in Modes : SetMode(m)
  \/ \E n \in 1 .. MaxBatch : \E events \in [1 .. n -> Events] : Tick(events)
  \/ \E side \in CancelSides, sku \in Skus, form \in CancelForms :
       OperatorCancel(side, sku, form)

MatchStep ==
  \/ \E i \in todo : LeaveOpen(i) \/ FillBuy(i) \/ MatchRaises(i)
  \/ \E i \in todo, l \in DOMAIN lots : FillSell(i, l)
  \/ Settle

DecideStep ==
  \/ DecideBase \/ DecideCancelAll \/ DecideNoOp \/ DecidePause \/ InferenceRaises
  \/ \E x, y \in Ticks : DecideModelQuote(x, y)

ReconcileStep ==
  \/ PlaceBid \/ CancelBid \/ CancelAsk \/ CancelAskRaises
  \/ \E aged \in BOOLEAN :
       ReplaceBid(aged) \/ KeepBid(aged) \/ ReplaceAsk(aged) \/ KeepAsk(aged)
  \/ \E l \in DOMAIN lots : PlaceAsk(l)

SubmitStep ==
  \/ SubmitOrder \/ SubmitCancel \/ FinishEvent
  \/ FallbackAuditRaises \/ StepAuditRaises

Next == Command \/ MatchStep \/ DecideStep \/ ReconcileStep \/ SubmitStep

Spec == Init /\ [][Next]_vars
-----------------------------------------------------------------------------
(* Properties *)

\* Every variable keeps the shape the code gives it.
TypeOK ==
  /\ capital \in Capital /\ quoteCapital \in Capital
  /\ orders \in Seq(Order)
  /\ openByKey \in [Skus \X Sides -> Nat]
  /\ fills \in Seq(Fill)
  /\ lots \in Seq(Lot)
  /\ bid \in Quote \cup {None} /\ ask \in Quote \cup {None}
  /\ desired \in [bid : Int \cup {None}, ask : Int \cup {None}]
  /\ enabled \in BOOLEAN
  /\ mode \in Modes \cup {"deterministic"}
  /\ stage \in Stages
  /\ batch \in Seq(Events)
  /\ todo \in SUBSET Nat /\ fresh \in SUBSET Nat
  /\ fallback \in BOOLEAN
  /\ outbox \in Seq(Decision)

WithinPolicy(cap) == cap.cash >= 0 /\ cap.reserved \in 0 .. OpenBuyCap

\* Whatever raises and wherever, neither copy of the capital overdraws the
\* cash nor reserves more than the open-buy cap (gate.py, capital.py).
CapitalWithinPolicy == WithinPolicy(capital) /\ WithinPolicy(quoteCapital)

\* The index the execution engine cancels and replaces through never names an
\* order that is closed or belongs to another product or side.
KeyIndexSound ==
  \A k \in Skus \X Sides : openByKey[k] # 0 =>
    /\ openByKey[k] \in DOMAIN orders
    /\ IsOpen(openByKey[k])
    /\ KeyOf(orders[openByKey[k]]) = k

\* An order fills at most once, in full: a filled or cancelled order never
\* changes again, whatever later intent names its key.
ClosedOrdersStayClosed ==
  [][orders' # <<>> => \A i \in DOMAIN orders :
       ~IsOpen(i) => i \in DOMAIN orders' /\ orders'[i] = orders[i]]_orders

\* Fills and filled orders correspond one to one, side by side.
OrdersFillOnce ==
  /\ \A f \in DOMAIN fills :
       /\ fills[f].order \in DOMAIN orders
       /\ orders[fills[f].order].status = "filled"
       /\ orders[fills[f].order].side = fills[f].side
  /\ \A f, g \in DOMAIN fills : fills[f].order = fills[g].order => f = g

\* A pair is bought by one fill and sold by at most one: double-selling is
\* impossible, and a lot is sold exactly when a sell fill delivered it.
LotsSoldOnce ==
  /\ \A f \in DOMAIN fills :
       /\ fills[f].lot \in DOMAIN lots
       /\ IF fills[f].side = "buy"
          THEN lots[fills[f].lot].fill = f
          ELSE lots[fills[f].lot].state = "sold"
       /\ lots[fills[f].lot].sku = orders[fills[f].order].sku
  /\ \A f, g \in DOMAIN fills :
       (fills[f].side = fills[g].side /\ fills[f].lot = fills[g].lot) => f = g
  /\ \A l \in DOMAIN lots :
       /\ lots[l].fill \in DOMAIN fills
       /\ fills[lots[l].fill].side = "buy" /\ fills[lots[l].fill].lot = l

\* A disabled strategy takes no new risk: no handler that runs while it is
\* disabled adds an order to the book or raises the reserve.
DisabledTakesNoRisk ==
  [][~enabled =>
       /\ Len(orders') <= Len(orders)
       /\ capital'.reserved <= capital.reserved]_vars

\* A lot is held in reserve only for the ask that is being maintained.
ReservedLotHeld ==
  \A l \in DOMAIN lots : lots[l].state = "reserved_for_sale" =>
    ask # None /\ ask.lot = l

-----------------------------------------------------------------------------
(* Refinement *)

\* The book without prices and money, as PaperLedger sees it.
OrderBook == [i \in DOMAIN orders |->
  [sku |-> orders[i].sku, side |-> orders[i].side, status |-> orders[i].status]]
FillBook == [f \in DOMAIN fills |->
  [order |-> fills[f].order, side |-> fills[f].side, lot |-> fills[f].lot]]

Ledger == INSTANCE PaperLedger WITH orders <- OrderBook, fills <- FillBook

\* Whatever command raises and wherever it stops, the book only ever moves the
\* way PaperLedger allows: no order closes twice, no lot is sold without the
\* reservation and the open ask it was promised to (execution.py, inventory.py).
LedgerRefinement == Ledger!Spec
=============================================================================
