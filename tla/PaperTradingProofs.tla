------------------------- MODULE PaperTradingProofs -------------------------
(***************************************************************************)
(* What holds of the paper trading loop for every set of products, market  *)
(* and policy: its invariants, that it implements PaperLedger, and what    *)
(* follows for the history of the book: orders close once and fill once,   *)
(* lots are sold once.  Then the accounts of the book: the cash balances,  *)
(* a disabled strategy takes no risk, and, where one product is quoted and *)
(* cancels name their key, one order per key is open, the reserve is exact *)
(* and every matched buy can be paid.  What a theorem has to exclude to    *)
(* hold, an exception or a sale, is a premise of it: TLC shows the         *)
(* property violated without it.                                           *)
(***************************************************************************)
EXTENDS PaperAccounts, SumTheorems, FiniteSetTheorems, TLAPS

-----------------------------------------------------------------------------
(* Sequences *)

\* Appending keeps the old entries and adds one of the same type.
LEMMA AppendEntry ==
  ASSUME NEW S, NEW s \in Seq(S), NEW e \in S
  PROVE  /\ Append(s, e) \in Seq(S)
         /\ Len(Append(s, e)) = Len(s) + 1
         /\ DOMAIN Append(s, e) = 1 .. (Len(s) + 1)
         /\ \A i \in DOMAIN s : Append(s, e)[i] = s[i]
         /\ Append(s, e)[Len(s) + 1] = e
BY SMT

\* Updating an entry keeps the others.
LEMMA UpdateEntry ==
  ASSUME NEW S, NEW s \in Seq(S), NEW i \in DOMAIN s, NEW e \in S
  PROVE  /\ [s EXCEPT ![i] = e] \in Seq(S)
         /\ DOMAIN [s EXCEPT ![i] = e] = DOMAIN s
         /\ Len([s EXCEPT ![i] = e]) = Len(s)
         /\ [s EXCEPT ![i] = e][i] = e
         /\ \A j \in DOMAIN s : j # i => [s EXCEPT ![i] = e][j] = s[j]
BY SMT

\* The first entry of a sequence and the rest are of its type.
LEMMA HeadTail ==
  ASSUME NEW S, NEW s \in Seq(S), s # <<>>
  PROVE  /\ Head(s) \in S /\ Tail(s) \in Seq(S)
         /\ 1 \in DOMAIN s /\ Head(s) = s[1]
         /\ \A i \in DOMAIN Tail(s) : i + 1 \in DOMAIN s /\ Tail(s)[i] = s[i + 1]
BY SMT

\* The indexes of a sequence.
LEMMA Indexes ==
  ASSUME NEW S, NEW s \in Seq(S)
  PROVE  /\ DOMAIN s = 1 .. Len(s) /\ Len(s) \in Nat
         /\ \A i \in DOMAIN s : s[i] \in S /\ i \in Nat /\ i # 0
BY SMT

\* A sequence mapped entry by entry is a sequence of the new type.
LEMMA MapEntry ==
  ASSUME NEW S, NEW s \in Seq(S), NEW T, NEW t,
         t = [i \in DOMAIN s |-> t[i]],
         \A i \in DOMAIN s : t[i] \in T
  PROVE  t \in Seq(T) /\ DOMAIN t = DOMAIN s /\ Len(t) = Len(s)
BY SMT

-----------------------------------------------------------------------------
(* The inductive invariant *)

\* Where a handler stands there is an event to handle; only a disable
\* reconciles without one, and then it desires nothing.  The orders the match
\* loop has still to try are open orders of the event's product.
StageInv ==
  /\ stage = "match" => batch # <<>> /\ todo \subseteq OpenOrders(Event.sku)
  /\ stage = "decide" => batch # <<>>
  /\ stage \in {"reconcileBid", "reconcileAsk"} => batch # <<>> \/ desired = NoDesire

\* The capital an accepted intent carries to the execution engine obeys the
\* policy as well, however late it is submitted.
OutboxWithinPolicy == \A n \in DOMAIN outbox : WithinPolicy(outbox[n].capital)

\* The active ask names a lot of the ledger.
AskLotKnown == ask # None => ask.lot \in DOMAIN lots

Typed == TypeOK /\ StageInv /\ KeyIndexSound /\ AskLotKnown
IInv == Typed /\ CapitalWithinPolicy /\ OutboxWithinPolicy

-----------------------------------------------------------------------------
(* Operators *)

LEMMA EventTyped ==
  ASSUME TypeOK, batch # <<>>
  PROVE  Event \in Events /\ Event.sku \in Skus /\ Event.bid \in Int /\ Event.ask \in Int
BY HeadTail, MarketAssumption DEF TypeOK, Event

\* What a fill is worth is an integer.
LEMMA FillPricesTyped ==
  ASSUME TypeOK, batch # <<>>, NEW o \in Order
  PROVE  /\ BuyPrice(o) \in Int /\ SellPrice(o) \in Int
         /\ PurchaseCost(o) \in Int /\ SaleProceeds(o) \in Int
         /\ Principal(o) \in Int
<1>1. BuyPrice(o) \in Int /\ SellPrice(o) \in Int
  BY EventTyped, PolicyAssumption DEF BuyPrice, SellPrice, Least, Greatest, Order
<1>2. SellPrice(o) * SaleRatePct \in Int
  BY <1>1, PolicyAssumption
<1>3. (SellPrice(o) * SaleRatePct) \div 100 \in Int
  BY <1>2
<1> QED
  BY <1>1, <1>3, PolicyAssumption DEF PurchaseCost, SaleProceeds, Principal, Order

\* What the gate hands out is a capital.
LEMMA CapitalAfterTyped ==
  ASSUME NEW intent, NEW cap \in Capital,
         \/ intent.side = "sell"
         \/ intent.release \in Int /\ intent.principal \in Int
  PROVE  CapitalAfter(intent, cap) \in Capital
BY DEF CapitalAfter, Capital

\* The gate keeps a capital within policy: an accepted intent neither
\* overdraws nor exceeds the cap, provided a cancel reserves nothing.
LEMMA GateKeepsPolicy ==
  ASSUME NEW intent \in Intent, NEW cap \in Capital,
         WithinPolicy(cap), Accepts(intent, cap),
         intent.kind = "cancel" => intent.principal = 0
  PROVE  WithinPolicy(CapitalAfter(intent, cap))
BY PolicyAssumption DEF WithinPolicy, Accepts, BuyFits, CapitalAfter, Intent, Capital

LEMMA QuoteIntentTyped ==
  ASSUME NEW kind \in {"place", "replace", "cancel"}, NEW side \in Sides,
         NEW sku \in Skus, NEW price \in Int, NEW release \in Int
  PROVE  /\ QuoteIntent(kind, side, sku, price, release) \in Intent
         /\ kind = "cancel" => QuoteIntent(kind, side, sku, price, release).principal = 0
         /\ QuoteIntent(kind, side, sku, price, release).kind = kind
         /\ QuoteIntent(kind, side, sku, price, release).side = side
BY DEF QuoteIntent, Intent, Sides

\* The key index is a total map, 0 where the code has no entry.
LEMMA NoKeysTyped == [k \in Skus \X Sides |-> 0] \in [Skus \X Sides -> Nat]
OBVIOUS

LEMMA KeyUpdateTyped ==
  ASSUME openByKey \in [Skus \X Sides -> Nat],
         NEW sku \in Skus, NEW side \in Sides, NEW n \in Nat
  PROVE  /\ [openByKey EXCEPT ![<<sku, side>>] = n] \in [Skus \X Sides -> Nat]
         /\ [openByKey EXCEPT ![<<sku, side>>] = n][<<sku, side>>] = n
         /\ \A k \in Skus \X Sides : k # <<sku, side>> =>
              [openByKey EXCEPT ![<<sku, side>>] = n][k] = openByKey[k]
<1> DEFINE key == <<sku, side>>
<1>1. key \in Skus \X Sides
  OBVIOUS
<1> HIDE DEF key
<1>2. /\ [openByKey EXCEPT ![key] = n] \in [Skus \X Sides -> Nat]
      /\ [openByKey EXCEPT ![key] = n][key] = n
      /\ \A k \in Skus \X Sides : k # key => [openByKey EXCEPT ![key] = n][k] = openByKey[k]
  BY <1>1
<1> QED
  BY <1>2 DEF key

\* Closing an order keeps the book's type and every other order.
LEMMA CloseTyped ==
  ASSUME orders \in Seq(Order), NEW i \in DOMAIN orders, NEW status \in OrderStatuses
  PROVE  /\ Close(i, status) \in Seq(Order)
         /\ DOMAIN Close(i, status) = DOMAIN orders
         /\ Len(Close(i, status)) = Len(orders)
         /\ Close(i, status)[i] = [orders[i] EXCEPT !.status = status]
         /\ \A j \in DOMAIN orders : j # i => Close(i, status)[j] = orders[j]
<1>1. orders[i] \in Order
  BY Indexes
<1>2. [orders[i] EXCEPT !.status = status] \in Order
  BY <1>1 DEF Order
<1> QED
  BY <1>2, UpdateEntry DEF Close

\* A command comes between two ticks.  Other than a load it leaves the fills, the
\* lots and what the handler of events has, and takes the active ask or leaves it.
LEMMA CommandsLeave ==
  ASSUME Command
  PROVE  /\ stage = "idle"
         /\ Load \/ UNCHANGED <<fills, lots>>
         /\ Load \/ ask' = ask \/ ("sell" \in CancelSides /\ ask' = None)
         /\ Load => ask' = None
<1> USE DEF bookVars, quoteVars, Idle
<1>0. Load => stage = "idle" /\ ask' = None
  BY DEF Load
<1>1. CASE Load
  BY <1>0, <1>1
<1>2. CASE Enable \/ Disable \/ \E m \in Modes : SetMode(m)
  BY <1>0, <1>2 DEF Enable, Disable, SetMode
<1>3. CASE \E n \in 1 .. MaxBatch : \E events \in [1 .. n -> Events] : Tick(events)
  BY <1>0, <1>3 DEF Tick
<1>4. CASE \E side \in CancelSides, sku \in Skus, form \in CancelForms :
             OperatorCancel(side, sku, form)
  <2>1. PICK side \in CancelSides, sku \in Skus, form \in CancelForms :
               OperatorCancel(side, sku, form)
    BY <1>4
  <2>2. /\ stage = "idle" /\ UNCHANGED <<fills, lots>>
        /\ ask' = IF side = "sell" THEN None ELSE ask
    BY <2>1 DEF OperatorCancel
  <2> QED BY <1>0, <2>1, <2>2
<1> QED BY <1>1, <1>2, <1>3, <1>4 DEF Command

\* Moving a lot keeps the ledger's type and every other lot.
LEMMA MoveTyped ==
  ASSUME lots \in Seq(Lot), NEW l \in DOMAIN lots, NEW state \in LotStates
  PROVE  /\ [lots EXCEPT ![l].state = state] \in Seq(Lot)
         /\ DOMAIN [lots EXCEPT ![l].state = state] = DOMAIN lots
         /\ [lots EXCEPT ![l].state = state][l] = [lots[l] EXCEPT !.state = state]
         /\ \A m \in DOMAIN lots : m # l => [lots EXCEPT ![l].state = state][m] = lots[m]
<1>1. lots[l] \in Lot
  BY Indexes
<1>2. [lots[l] EXCEPT !.state = state] \in Lot
  BY <1>1 DEF Lot
<1> QED
  BY <1>2, UpdateEntry

-----------------------------------------------------------------------------
(* Type correctness *)

LEMMA InitInv == Init => IInv
<1> SUFFICES ASSUME Init PROVE IInv
  OBVIOUS
<1>1. openByKey \in [Skus \X Sides -> Nat] /\ \A k \in Skus \X Sides : openByKey[k] = 0
  BY NoKeysTyped DEF Init
<1>2. InitialCapital \in Capital /\ NoDesire \in [bid : Int \cup {None}, ask : Int \cup {None}]
  BY PolicyAssumption DEF InitialCapital, NoDesire, Capital
<1>3. /\ <<>> \in Seq(Order) /\ <<>> \in Seq(Fill) /\ <<>> \in Seq(Lot)
      /\ <<>> \in Seq(Events) /\ <<>> \in Seq(Decision)
  OBVIOUS
<1>4. enabled \in BOOLEAN
 BY DEF Init
<1>5. TypeOK
  BY <1>1, <1>2, <1>3, <1>4 DEF Init, TypeOK, Stages
<1>6. StageInv /\ KeyIndexSound /\ AskLotKnown
  BY <1>1 DEF Init, StageInv, KeyIndexSound, AskLotKnown
<1>7. CapitalWithinPolicy
  BY PolicyAssumption DEF Init, CapitalWithinPolicy, WithinPolicy, InitialCapital
<1>8. OutboxWithinPolicy
  BY DEF Init, OutboxWithinPolicy
<1> QED
  BY <1>5, <1>6, <1>7, <1>8 DEF IInv, Typed

\* An empty sequence has any type.
LEMMA EmptySeq == \A S : <<>> \in Seq(S) /\ DOMAIN <<>> = {}
OBVIOUS

\* A command keeps the types.
LEMMA CommandTyped ==
  ASSUME Typed, Command
  PROVE  TypeOK'
<1> USE DEF bookVars, quoteVars, handlerVars
<1>1. CASE Load
  <2>1. InitialCapital \in Capital /\ NoDesire \in [bid : Int \cup {None}, ask : Int \cup {None}]
    BY PolicyAssumption DEF InitialCapital, NoDesire, Capital
  <2>2. enabled' \in BOOLEAN
    BY <1>1 DEF Load
  <2> QED
    BY <1>1, <2>1, <2>2, NoKeysTyped, EmptySeq DEF Typed, TypeOK, Load
<1>2. CASE Enable
  BY <1>2 DEF Typed, TypeOK, Enable
<1>3. CASE Disable
  BY <1>3 DEF Typed, TypeOK, Disable, NoDesire, Stages
<1>4. ASSUME NEW m \in Modes, SetMode(m)
      PROVE  TypeOK'
  BY <1>4 DEF Typed, TypeOK, SetMode
<1>5. ASSUME NEW n \in 1 .. MaxBatch, NEW events \in [1 .. n -> Events], Tick(events)
      PROVE  TypeOK'
  <2>1. n \in Nat /\ events \in Seq(Events)
    BY MarketAssumption
  <2>2. OpenOrders(Head(events).sku) \in SUBSET Nat
    BY Indexes DEF OpenOrders, Typed, TypeOK
  <2> QED
    BY <1>5, <2>1, <2>2 DEF Typed, TypeOK, Tick, Stages
<1>6. ASSUME NEW side \in CancelSides, NEW sku \in Skus, NEW form \in CancelForms,
             OperatorCancel(side, sku, form)
      PROVE  TypeOK'
  <2> DEFINE found == {i \in OpenOrders(sku) : orders[i].side = side}
             first == CHOOSE i \in found : \A j \in found : i <= j
             release == IF found # {} THEN Principal(orders[first]) ELSE 0
             intent == [kind |-> "cancel", side |-> side, sku |-> sku,
                        price |-> 0, principal |-> 0, release |-> release]
             held == IF form = "keyed" THEN openByKey[<<sku, side>>] ELSE 0
  <2>1. Accepts(intent, capital)
    BY <1>6 DEF OperatorCancel
  <2>2. ASSUME held # 0
        PROVE  held \in DOMAIN orders
    BY <2>2, OperatorAssumption DEF Typed, KeyIndexSound, Sides
  <2>3. /\ capital' = CapitalAfter(intent, capital)
        /\ quoteCapital' = CapitalAfter(intent, capital)
        /\ IF held # 0
           THEN /\ orders' = Close(held, "cancelled")
                /\ openByKey' = [openByKey EXCEPT ![<<sku, side>>] = 0]
           ELSE UNCHANGED <<orders, openByKey>>
        /\ bid' \in {bid, None} /\ ask' \in {ask, None}
        /\ UNCHANGED <<fills, lots, desired, enabled, mode, handlerVars>>
    BY <1>6 DEF OperatorCancel, Close
  <2> HIDE DEF found, first, release, held
  <2>4. CapitalAfter(intent, capital) \in Capital
    <3>1. capital \in Capital /\ capital.reserved \in Int
      BY DEF Typed, TypeOK, Capital
    <3>2. \/ intent.side = "sell"
          \/ intent.release \in Int /\ intent.principal \in Int
      BY <2>1, <3>1 DEF Accepts
    <3> HIDE DEF intent
    <3> QED
      BY <3>1, <3>2, CapitalAfterTyped
  <2>5. orders' \in Seq(Order)
    BY <2>2, <2>3, CloseTyped DEF Typed, TypeOK, OrderStatuses
  <2>6. openByKey' \in [Skus \X Sides -> Nat]
    <3>1. openByKey \in [Skus \X Sides -> Nat] /\ side \in Sides /\ 0 \in Nat
      BY OperatorAssumption DEF Typed, TypeOK, Sides
    <3>2. [openByKey EXCEPT ![<<sku, side>>] = 0] \in [Skus \X Sides -> Nat]
      BY <3>1, KeyUpdateTyped
    <3> QED
      BY <2>3, <3>1, <3>2
  <2> QED
    BY <2>3, <2>4, <2>5, <2>6 DEF Typed, TypeOK
<1> QED
  BY <1>1, <1>2, <1>3, <1>4, <1>5, <1>6 DEF Command

\* What the match loop holds: an open order of the event's product.
LEMMA MatchingOrder ==
  ASSUME Typed, NEW i, Matching(i)
  PROVE  /\ batch # <<>> /\ i \in DOMAIN orders /\ i \in Nat
         /\ orders[i] \in Order /\ IsOpen(i) /\ orders[i].sku = Event.sku
<1>1. orders \in Seq(Order)
  BY DEF Typed, TypeOK
<1> QED
  BY <1>1, Indexes DEF Typed, StageInv, Matching, OpenOrders

\* Popping an order's key keeps the index a total map.
LEMMA PopKeyTyped ==
  ASSUME openByKey \in [Skus \X Sides -> Nat], NEW o \in Order
  PROVE  /\ PopKey(o) \in [Skus \X Sides -> Nat]
         /\ PopKey(o)[KeyOf(o)] = 0 /\ KeyOf(o) \in Skus \X Sides
         /\ \A k \in Skus \X Sides : k # KeyOf(o) => PopKey(o)[k] = openByKey[k]
<1>1. o.sku \in Skus /\ o.side \in Sides /\ 0 \in Nat
  BY DEF Order
<1> QED
  BY <1>1, KeyUpdateTyped DEF PopKey, KeyOf

LEMMA SettleTyped ==
  ASSUME lots \in Seq(Lot), Settle
  PROVE  /\ lots' \in Seq(Lot) /\ DOMAIN lots' = DOMAIN lots
         /\ \A l \in DOMAIN lots :
              lots'[l] \in {lots[l], [lots[l] EXCEPT !.state = "available"]}
<1>1. /\ lots' = [l \in DOMAIN lots |-> lots'[l]]
      /\ \A l \in DOMAIN lots :
              lots'[l] \in {lots[l], [lots[l] EXCEPT !.state = "available"]}
  BY DEF Settle
<1>2. ASSUME NEW l \in DOMAIN lots
      PROVE  lots'[l] \in Lot
  <2>1. lots[l] \in Lot
    BY Indexes
  <2> QED
    BY <1>1, <2>1 DEF Lot, LotStates
<1> QED
  BY <1>1, <1>2, MapEntry

LEMMA MatchTyped ==
  ASSUME Typed, MatchStep
  PROVE  TypeOK'
<1> USE DEF bookVars, quoteVars
<1>1. ASSUME NEW i \in todo, LeaveOpen(i)
      PROVE  TypeOK'
  BY <1>1 DEF Typed, TypeOK, LeaveOpen
<1>2. ASSUME NEW i \in todo, FillBuy(i)
      PROVE  TypeOK'
  <2>1. Matching(i)
    BY <1>2 DEF FillBuy, Buyable
  <2>2. AfterBuy(orders[i]) \in Capital
    <3>1. capital.cash \in Int /\ capital.reserved \in Int
      BY DEF Typed, TypeOK, Capital
    <3>2. PurchaseCost(orders[i]) \in Int /\ Principal(orders[i]) \in Int
      BY <2>1, MatchingOrder, FillPricesTyped DEF Typed
    <3> QED
      BY <3>1, <3>2 DEF AfterBuy, Capital
  <2>3. Close(i, "filled") \in Seq(Order)
    BY <2>1, MatchingOrder, CloseTyped DEF Typed, TypeOK, OrderStatuses
  <2>4. PopKey(orders[i]) \in [Skus \X Sides -> Nat]
    BY <2>1, MatchingOrder, PopKeyTyped DEF Typed, TypeOK
  <2>5. Len(fills) \in Nat /\ Len(lots) \in Nat
    BY Indexes DEF Typed, TypeOK
  <2>6. fills' \in Seq(Fill)
    <3>1. [order |-> i, side |-> "buy", amount |-> PurchaseCost(orders[i]),
           lot |-> Len(lots) + 1] \in Fill
      BY <2>1, <2>5, MatchingOrder, FillPricesTyped DEF Fill, Sides, Typed
    <3> QED
      BY <1>2, <3>1, AppendEntry DEF FillBuy, BookBuy, Typed, TypeOK
  <2>7. lots' \in Seq(Lot)
    <3>1. [sku |-> orders[i].sku, state |-> "purchased", fill |-> Len(fills) + 1] \in Lot
      BY <2>1, <2>5, MatchingOrder DEF Lot, LotStates, Order
    <3> QED
      BY <1>2, <3>1, AppendEntry DEF FillBuy, BookBuy, Typed, TypeOK
  <2>8. /\ capital' \in Capital /\ orders' \in Seq(Order)
        /\ openByKey' \in [Skus \X Sides -> Nat]
        /\ UNCHANGED <<quoteCapital, bid, ask, desired, enabled, mode, stage, batch,
                       fallback, outbox>>
    BY <1>2, <2>2, <2>3, <2>4 DEF FillBuy, BookBuy
  <2>9. todo' \in SUBSET Nat /\ fresh' \in SUBSET Nat
    <3>1. todo' = todo \ {i} /\ fresh' = fresh \cup {Len(fills) + 1}
      BY <1>2 DEF FillBuy, BookBuy
    <3>2. todo \in SUBSET Nat /\ fresh \in SUBSET Nat
      BY DEF Typed, TypeOK
    <3>3. Len(fills) + 1 \in Nat
      BY <2>5
    <3> QED
      BY <3>1, <3>2, <3>3
  <2> QED
    BY <2>6, <2>7, <2>8, <2>9 DEF Typed, TypeOK
<1>3. ASSUME NEW i \in todo, MatchRaises(i)
      PROVE  TypeOK'
  BY <1>3, EmptySeq DEF Typed, TypeOK, MatchRaises, EndHandler, Stages
<1>4. ASSUME NEW i \in todo, NEW l \in DOMAIN lots, FillSell(i, l)
      PROVE  TypeOK'
  <2>1. Matching(i)
    BY <1>4 DEF FillSell, BookSell
  <2>2. capital' \in Capital
    <3>1. capital \in Capital /\ SaleProceeds(orders[i]) \in Int
      BY <2>1, MatchingOrder, FillPricesTyped DEF Typed, TypeOK
    <3> QED
      BY <1>4, <3>1 DEF FillSell, BookSell, Capital
  <2>3. Close(i, "filled") \in Seq(Order)
    BY <2>1, MatchingOrder, CloseTyped DEF Typed, TypeOK, OrderStatuses
  <2>4. PopKey(orders[i]) \in [Skus \X Sides -> Nat]
    BY <2>1, MatchingOrder, PopKeyTyped DEF Typed, TypeOK
  <2>5. Len(fills) \in Nat /\ l \in Nat
    BY Indexes DEF Typed, TypeOK
  <2>6. fills' \in Seq(Fill)
    <3>1. [order |-> i, side |-> "sell", amount |-> SaleProceeds(orders[i]),
           lot |-> l] \in Fill
      BY <2>1, <2>5, MatchingOrder, FillPricesTyped DEF Fill, Sides, Typed
    <3> QED
      BY <1>4, <3>1, AppendEntry DEF FillSell, BookSell, Typed, TypeOK
  <2>7. lots' \in Seq(Lot)
    BY <1>4, MoveTyped DEF FillSell, LotStates, Typed, TypeOK
  <2> QED
    BY <1>4, <2>2, <2>3, <2>4, <2>5, <2>6, <2>7 DEF FillSell, BookSell, Typed, TypeOK
<1>5. CASE Settle
  BY <1>5, SettleTyped DEF Typed, TypeOK, Settle, Stages
<1> QED
  BY <1>1, <1>2, <1>3, <1>4, <1>5 DEF MatchStep

\* The quote engine is asked to desire integer prices or none.
LEMMA OnMarketTyped ==
  ASSUME Typed, NEW b \in Int \cup {None}, NEW a \in Int \cup {None},
         OnMarket(b, a), fallback' \in BOOLEAN
  PROVE  TypeOK'
<1>1. desired' \in [bid : Int \cup {None}, ask : Int \cup {None}]
  BY DEF OnMarket, NoDesire
<1> QED
  BY <1>1 DEF OnMarket, Typed, TypeOK, Stages, bookVars

LEMMA DecideTyped ==
  ASSUME Typed, DecideStep
  PROVE  TypeOK'
<1>1. ASSUME stage = "decide"
      PROVE  /\ Event.bid \in Int /\ Event.ask \in Int
             /\ BaseBid \in Int /\ BaseAsk \in Int \cup {None}
  <2>1. Event.bid \in Int /\ Event.ask \in Int
    BY <1>1, EventTyped DEF Typed, StageInv
  <2> QED
    BY <2>1, PolicyAssumption DEF BaseBid, BaseAsk
<1>2. CASE DecideBase
  <2>1. fallback' \in BOOLEAN
    BY <1>2 DEF DecideBase, Typed, TypeOK
  <2> QED
    BY <1>1, <1>2, <2>1, OnMarketTyped DEF DecideBase, OnMarket
<1>3. CASE DecideCancelAll
  BY <1>3 DEF DecideCancelAll, NoDesire, Typed, TypeOK, Stages, bookVars
<1>4. CASE DecideNoOp
  BY <1>4 DEF DecideNoOp, Typed, TypeOK, Stages, bookVars, quoteVars
<1>5. CASE DecidePause \/ InferenceRaises
  BY <1>5, EmptySeq DEF DecidePause, InferenceRaises, EndHandler, Typed, TypeOK, Stages, bookVars, quoteVars
<1>6. ASSUME NEW x \in Ticks, NEW y \in Ticks, DecideModelQuote(x, y)
      PROVE  TypeOK'
  <2> DEFINE advisory == mode = "advisory"
             modelBid == x + (IF advisory THEN BaseBid ELSE Event.bid)
             modelAsk == y + (IF advisory /\ BaseAsk # None THEN BaseAsk ELSE Event.ask)
  <2>1. x \in Int /\ y \in Int
    BY MarketAssumption
  <2>2. modelBid \in Int /\ modelAsk \in Int
    BY <1>1, <1>6, <2>1 DEF DecideModelQuote
  <2>3. OnMarket(modelBid, IF BaseAsk = None THEN None ELSE modelAsk)
    BY <1>6 DEF DecideModelQuote
  <2>4. fallback' \in BOOLEAN
    BY <1>6 DEF DecideModelQuote, Typed, TypeOK
  <2> HIDE DEF modelBid, modelAsk
  <2> QED
    BY <2>2, <2>3, <2>4, OnMarketTyped
<1> QED
  BY <1>2, <1>3, <1>4, <1>5, <1>6 DEF DecideStep

\* While one side is reconciled to a desired price, there is an event.
LEMMA DesiredPrice ==
  ASSUME Typed, stage \in {"reconcileBid", "reconcileAsk"}
  PROVE  /\ desired.bid # None => batch # <<>> /\ desired.bid \in Int
         /\ desired.ask # None => batch # <<>> /\ desired.ask \in Int
         /\ bid # None => bid \in Quote /\ bid.price \in Int /\ bid.sku \in Skus
         /\ ask # None => /\ ask \in Quote /\ ask.price \in Int /\ ask.sku \in Skus
                          /\ ask.lot \in Nat
BY DEF Typed, TypeOK, StageInv, NoDesire, Quote

LEMMA NewQuoteTyped ==
  ASSUME TypeOK, batch # <<>>, NEW price \in Int, NEW lot \in Nat
  PROVE  NewQuote(price, lot) \in Quote
BY EventTyped DEF NewQuote, Quote

LEMMA DecisionTyped ==
  ASSUME outbox \in Seq(Decision), NEW intent \in Intent, NEW cap \in Capital
  PROVE  Append(outbox, [intent |-> intent, capital |-> cap]) \in Seq(Decision)
<1>1. [intent |-> intent, capital |-> cap] \in Decision
  BY DEF Decision
<1> QED
  BY <1>1, AppendEntry

LEMMA GateBidTyped ==
  ASSUME Typed, NEW intent \in Intent, NEW quote \in Quote \cup {None}, GateBid(intent, quote)
  PROVE  TypeOK'
<1>1. CapitalAfter(intent, quoteCapital) \in Capital
  BY CapitalAfterTyped DEF Typed, TypeOK, Intent
<1>2. Append(outbox, [intent |-> intent, capital |-> CapitalAfter(intent, quoteCapital)])
        \in Seq(Decision)
  BY <1>1, DecisionTyped DEF Typed, TypeOK
<1> QED
  BY <1>1, <1>2 DEF GateBid, Typed, TypeOK, Stages, bookVars

LEMMA GateAskTyped ==
  ASSUME Typed, NEW intent \in Intent, NEW quote \in Quote \cup {None}, GateAsk(intent, quote),
         lots' \in Seq(Lot)
  PROVE  TypeOK'
<1>1. Append(outbox, [intent |-> intent, capital |-> quoteCapital]) \in Seq(Decision)
  BY DecisionTyped DEF Typed, TypeOK
<1> QED
  BY <1>1 DEF GateAsk, Typed, TypeOK, Stages

LEMMA ReconcileTyped ==
  ASSUME Typed, ReconcileStep
  PROVE  TypeOK'
<1>0. TypeOK
  BY DEF Typed
<1>1. CASE PlaceBid
  <2>1. batch # <<>> /\ desired.bid \in Int
    BY <1>1, DesiredPrice DEF PlaceBid
  <2>2. NewQuote(desired.bid, 0) \in Quote
    BY <1>0, <2>1, NewQuoteTyped
  <2>3. QuoteIntent("place", "buy", Event.sku, desired.bid, 0) \in Intent
    BY <1>0, <2>1, EventTyped, QuoteIntentTyped DEF Sides
  <2> QED
    BY <1>1, <2>2, <2>3, GateBidTyped DEF PlaceBid
<1>2. CASE CancelBid
  <2>1. bid.price \in Int /\ bid.sku \in Skus
    BY <1>2, DesiredPrice DEF CancelBid
  <2>2. QuoteIntent("cancel", "buy", bid.sku, bid.price, bid.price) \in Intent
    BY <2>1, QuoteIntentTyped DEF Sides
  <2> QED
    BY <1>2, <2>2, GateBidTyped DEF CancelBid
<1>3. CASE CancelAsk
  <2>1. ask.price \in Int /\ ask.sku \in Skus
    BY <1>3, DesiredPrice DEF CancelAsk
  <2>2. QuoteIntent("cancel", "sell", ask.sku, ask.price, 0) \in Intent
    BY <2>1, QuoteIntentTyped DEF Sides
  <2>3. lots' \in Seq(Lot)
    BY <1>3, MoveTyped DEF CancelAsk, Typed, TypeOK, AskLotKnown, LotStates
  <2> QED
    BY <1>3, <2>2, <2>3, GateAskTyped DEF CancelAsk
<1>4. CASE CancelAskRaises
  BY <1>4, EmptySeq DEF CancelAskRaises, EndHandler, Typed, TypeOK, Stages, bookVars, quoteVars
<1>5. ASSUME NEW aged \in BOOLEAN, ReplaceBid(aged)
      PROVE  TypeOK'
  <2>1. batch # <<>> /\ desired.bid \in Int /\ bid.price \in Int
    BY <1>5, DesiredPrice DEF ReplaceBid
  <2>2. NewQuote(desired.bid, 0) \in Quote
    BY <1>0, <2>1, NewQuoteTyped
  <2>3. QuoteIntent("replace", "buy", Event.sku, desired.bid, bid.price) \in Intent
    BY <1>0, <2>1, EventTyped, QuoteIntentTyped DEF Sides
  <2> QED
    BY <1>5, <2>2, <2>3, GateBidTyped DEF ReplaceBid
<1>6. ASSUME NEW aged \in BOOLEAN, KeepBid(aged) \/ KeepAsk(aged)
      PROVE  TypeOK'
  BY <1>6 DEF KeepBid, KeepAsk, Typed, TypeOK, Stages, bookVars, quoteVars
<1>7. ASSUME NEW aged \in BOOLEAN, ReplaceAsk(aged)
      PROVE  TypeOK'
  <2>1. batch # <<>> /\ desired.ask \in Int /\ ask.lot \in Nat
    BY <1>7, DesiredPrice DEF ReplaceAsk
  <2>2. NewQuote(desired.ask, ask.lot) \in Quote
    BY <1>0, <2>1, NewQuoteTyped
  <2>3. QuoteIntent("replace", "sell", Event.sku, desired.ask, 0) \in Intent
    BY <1>0, <2>1, EventTyped, QuoteIntentTyped DEF Sides
  <2>4. lots' \in Seq(Lot)
    BY <1>0, <1>7 DEF ReplaceAsk, TypeOK
  <2> QED
    BY <1>7, <2>2, <2>3, <2>4, GateAskTyped DEF ReplaceAsk
<1>8. ASSUME NEW l \in DOMAIN lots, PlaceAsk(l)
      PROVE  TypeOK'
  <2>1. batch # <<>> /\ desired.ask \in Int /\ l \in Nat
    BY <1>0, <1>8, DesiredPrice, Indexes DEF PlaceAsk, TypeOK
  <2>2. NewQuote(desired.ask, l) \in Quote
    BY <1>0, <2>1, NewQuoteTyped
  <2>3. QuoteIntent("place", "sell", Event.sku, desired.ask, 0) \in Intent
    BY <1>0, <2>1, EventTyped, QuoteIntentTyped DEF Sides
  <2>4. lots' \in Seq(Lot)
    BY <1>0, <1>8, MoveTyped DEF PlaceAsk, TypeOK, LotStates
  <2> QED
    BY <1>8, <2>2, <2>3, <2>4, GateAskTyped DEF PlaceAsk
<1> QED
  BY <1>1, <1>2, <1>3, <1>4, <1>5, <1>6, <1>7, <1>8 DEF ReconcileStep

\* The intent at the head of the outbox and what submitting it does to the book.
LEMMA Submitted ==
  ASSUME Typed, outbox # <<>>
  PROVE  LET intent == Head(outbox).intent
             held == openByKey[<<intent.sku, intent.side>>]
         IN  /\ intent \in Intent /\ intent.sku \in Skus /\ intent.side \in Sides
             /\ Head(outbox).capital \in Capital
             /\ Tail(outbox) \in Seq(Decision)
             /\ NewOrder(intent) \in Order
             /\ held \in Nat
             /\ held # 0 => /\ held \in DOMAIN orders /\ IsOpen(held)
                            /\ KeyOf(orders[held]) = <<intent.sku, intent.side>>
<1> DEFINE intent == Head(outbox).intent
           held == openByKey[<<intent.sku, intent.side>>]
<1>1. Head(outbox) \in Decision /\ Tail(outbox) \in Seq(Decision)
  BY HeadTail DEF Typed, TypeOK
<1>2. intent \in Intent /\ Head(outbox).capital \in Capital
  BY <1>1 DEF Decision
<1>3. intent.sku \in Skus /\ intent.side \in Sides /\ intent.price \in Int
  BY <1>2 DEF Intent
<1>4. NewOrder(intent) \in Order
  BY <1>3 DEF NewOrder, Order, OrderStatuses
<1>5. <<intent.sku, intent.side>> \in Skus \X Sides
  BY <1>3
<1>6. held \in Nat
  BY <1>5 DEF Typed, TypeOK
<1> QED
  BY <1>1, <1>2, <1>3, <1>4, <1>5, <1>6 DEF Typed, KeyIndexSound

LEMMA SubmitTyped ==
  ASSUME Typed, SubmitStep
  PROVE  TypeOK'
<1> DEFINE intent == Head(outbox).intent
           key == <<intent.sku, intent.side>>
           held == openByKey[key]
<1>0. /\ orders \in Seq(Order) /\ Len(orders) + 1 \in Nat
      /\ openByKey \in [Skus \X Sides -> Nat]
  BY Indexes DEF Typed, TypeOK
<1>1. CASE SubmitOrder
  <2> DEFINE kept == IF intent.kind = "replace" /\ held # 0
                     THEN Close(held, "cancelled") ELSE orders
  <2>1. kept \in Seq(Order)
    BY <1>0, <1>1, Submitted, CloseTyped DEF SubmitOrder, OrderStatuses
  <2>2. Append(kept, NewOrder(intent)) \in Seq(Order)
    BY <1>1, <2>1, Submitted, AppendEntry DEF SubmitOrder
  <2>3. [openByKey EXCEPT ![key] = Len(orders) + 1] \in [Skus \X Sides -> Nat]
    BY <1>0, <1>1, Submitted, KeyUpdateTyped DEF SubmitOrder
  <2>4. /\ capital' \in Capital /\ orders' \in Seq(Order) /\ outbox' \in Seq(Decision)
        /\ openByKey' \in [Skus \X Sides -> Nat]
    BY <1>1, <2>2, <2>3, Submitted DEF SubmitOrder
  <2> QED
    BY <1>1, <2>4 DEF SubmitOrder, Typed, TypeOK, quoteVars
<1>2. CASE SubmitCancel
  <2>1. Close(held, "cancelled") \in Seq(Order) \/ held = 0
    BY <1>0, <1>2, Submitted, CloseTyped DEF SubmitCancel, OrderStatuses
  <2>2. [openByKey EXCEPT ![key] = 0] \in [Skus \X Sides -> Nat]
    BY <1>0, <1>2, Submitted, KeyUpdateTyped DEF SubmitCancel
  <2>3. /\ capital' \in Capital /\ orders' \in Seq(Order) /\ outbox' \in Seq(Decision)
        /\ openByKey' \in [Skus \X Sides -> Nat]
    BY <1>0, <1>2, <2>1, <2>2, Submitted DEF SubmitCancel
  <2> QED
    BY <1>2, <2>3 DEF SubmitCancel, Typed, TypeOK, quoteVars
<1>3. CASE FinishEvent
  <2> DEFINE rest == IF batch = <<>> THEN <<>> ELSE Tail(batch)
  <2>1. rest \in Seq(Events)
    BY HeadTail, EmptySeq DEF Typed, TypeOK
  <2>2. OpenOrders(Head(rest).sku) \in SUBSET Nat
    BY <1>0, Indexes DEF OpenOrders
  <2>3. todo' \in SUBSET Nat /\ batch' \in Seq(Events) /\ stage' \in Stages
    BY <1>3, <2>1, <2>2 DEF FinishEvent, Stages
  <2> QED
    BY <1>3, <2>3 DEF FinishEvent, Typed, TypeOK, bookVars
<1>4. CASE FallbackAuditRaises \/ StepAuditRaises
  BY <1>4, EmptySeq DEF FallbackAuditRaises, StepAuditRaises, EndHandler, Typed, TypeOK,
                        Stages, bookVars, quoteVars
<1> QED
  BY <1>1, <1>2, <1>3, <1>4 DEF SubmitStep

\* A step that changes nothing keeps the invariant.
LEMMA Stutter == IInv /\ UNCHANGED vars => IInv'
BY DEF IInv, Typed, TypeOK, StageInv, KeyIndexSound, AskLotKnown, CapitalWithinPolicy,
       OutboxWithinPolicy, WithinPolicy, OpenOrders, IsOpen, Event, KeyOf,
       vars, bookVars, quoteVars, handlerVars

-----------------------------------------------------------------------------
(* The handler's position *)

\* Filling one order of the loop leaves the others open.
LEMMA FilledLeavesOthersOpen ==
  ASSUME Typed, NEW i, Matching(i),
         orders' = Close(i, "filled"), todo' = todo \ {i}, UNCHANGED <<stage, batch>>
  PROVE  StageInv'
<1>1. /\ batch # <<>> /\ i \in DOMAIN orders /\ stage = "match"
      /\ todo \subseteq OpenOrders(Event.sku)
  BY MatchingOrder DEF Matching, Typed, StageInv
<1>2. /\ DOMAIN orders' = DOMAIN orders
      /\ \A j \in DOMAIN orders : j # i => orders'[j] = orders[j]
  BY <1>1, CloseTyped DEF Typed, TypeOK, OrderStatuses
<1>3. todo' \subseteq OpenOrders(Event.sku)'
  BY <1>1, <1>2 DEF OpenOrders, IsOpen, Event
<1> QED
  BY <1>1, <1>3 DEF StageInv

LEMMA StageStep ==
  ASSUME Typed, Next
  PROVE  StageInv'
<1> USE DEF bookVars, quoteVars, handlerVars
<1>1. CASE Command
  <2>1. CASE Load \/ Enable \/ \E m \in Modes : SetMode(m)
    BY <2>1 DEF Load, Enable, SetMode, Idle, StageInv
  <2>2. CASE Disable
    BY <2>2 DEF Disable, StageInv
  <2>3. ASSUME NEW n \in 1 .. MaxBatch, NEW events \in [1 .. n -> Events], Tick(events)
        PROVE  StageInv'
    <3>1. events # <<>>
      BY MarketAssumption
    <3>2. OpenOrders(Head(events).sku)' = OpenOrders(Head(events).sku)
      BY <2>3 DEF Tick, OpenOrders, IsOpen
    <3> QED
      BY <2>3, <3>1, <3>2 DEF Tick, StageInv, Event
  <2>4. ASSUME NEW side \in CancelSides, NEW sku \in Skus, NEW form \in CancelForms,
               OperatorCancel(side, sku, form)
        PROVE  StageInv'
    BY <2>4 DEF OperatorCancel, Idle, StageInv
  <2> QED
    BY <1>1, <2>1, <2>2, <2>3, <2>4 DEF Command
<1>2. CASE MatchStep
  <2>1. ASSUME NEW i \in todo, LeaveOpen(i)
        PROVE  StageInv'
    BY <2>1 DEF LeaveOpen, Matching, Typed, StageInv, OpenOrders, IsOpen, Event
  <2>2. ASSUME NEW i \in todo, FillBuy(i)
        PROVE  StageInv'
    <3>1. /\ Matching(i) /\ orders' = Close(i, "filled") /\ todo' = todo \ {i}
          /\ UNCHANGED <<stage, batch>>
      BY <2>2 DEF FillBuy, Buyable, BookBuy
    <3> QED
      BY <3>1, FilledLeavesOthersOpen
  <2>3. ASSUME NEW i \in todo, MatchRaises(i)
        PROVE  StageInv'
    BY <2>3 DEF MatchRaises, EndHandler, StageInv
  <2>4. ASSUME NEW i \in todo, NEW l \in DOMAIN lots, FillSell(i, l)
        PROVE  StageInv'
    <3>1. /\ Matching(i) /\ orders' = Close(i, "filled") /\ todo' = todo \ {i}
          /\ UNCHANGED <<stage, batch>>
      BY <2>4 DEF FillSell, BookSell
    <3> QED
      BY <3>1, FilledLeavesOthersOpen
  <2>5. CASE Settle
    BY <2>5 DEF Settle, Typed, StageInv
  <2> QED
    BY <1>2, <2>1, <2>2, <2>3, <2>4, <2>5 DEF MatchStep
<1>3. CASE DecideStep
  <2>1. CASE DecidePause \/ InferenceRaises
    BY <2>1 DEF DecidePause, InferenceRaises, EndHandler, StageInv
  <2>2. CASE stage = "decide" /\ batch' = batch /\ stage' \in {"reconcileBid", "submit"}
    BY <2>2 DEF Typed, StageInv
  <2> QED
    BY <1>3, <2>1, <2>2
    DEF DecideStep, DecideBase, DecideCancelAll, DecideNoOp, DecideModelQuote, OnMarket
<1>4. CASE ReconcileStep
  <2>1. CASE CancelAskRaises
    BY <2>1 DEF CancelAskRaises, EndHandler, StageInv
  <2>2. CASE /\ stage \in {"reconcileBid", "reconcileAsk"}
             /\ stage' \in {"reconcileAsk", "submit"}
             /\ UNCHANGED <<batch, desired>>
    BY <2>2 DEF Typed, StageInv
  <2> QED
    BY <1>4, <2>1, <2>2
    DEF ReconcileStep, PlaceBid, CancelBid, ReplaceBid, KeepBid, CancelAsk, PlaceAsk,
        ReplaceAsk, KeepAsk, GateBid, GateAsk
<1>5. CASE SubmitStep
  <2>1. CASE SubmitOrder \/ SubmitCancel
    BY <2>1 DEF SubmitOrder, SubmitCancel, StageInv
  <2>2. CASE FinishEvent
    BY <2>2 DEF FinishEvent, StageInv, OpenOrders, IsOpen, Event
  <2>3. CASE FallbackAuditRaises \/ StepAuditRaises
    BY <2>3 DEF FallbackAuditRaises, StepAuditRaises, EndHandler, StageInv
  <2> QED
    BY <1>5, <2>1, <2>2, <2>3 DEF SubmitStep
<1> QED
  BY <1>1, <1>2, <1>3, <1>4, <1>5 DEF Next

-----------------------------------------------------------------------------
(* The key index *)

\* Closing an order and dropping its key leaves the index sound.
LEMMA CloseKeepsKeys ==
  ASSUME Typed, NEW i \in DOMAIN orders, NEW status \in OrderStatuses,
         orders' = Close(i, status), openByKey' = PopKey(orders[i])
  PROVE  KeyIndexSound'
<1>0. orders \in Seq(Order) /\ openByKey \in [Skus \X Sides -> Nat]
  BY DEF Typed, TypeOK
<1>1. orders[i] \in Order
  BY <1>0, Indexes
<1>2. /\ DOMAIN orders' = DOMAIN orders
      /\ \A j \in DOMAIN orders : j # i => orders'[j] = orders[j]
  BY ZenonT(30), <1>0, CloseTyped
<1>3. /\ openByKey'[KeyOf(orders[i])] = 0
      /\ \A k \in Skus \X Sides : k # KeyOf(orders[i]) => openByKey'[k] = openByKey[k]
  BY <1>0, <1>1, PopKeyTyped
<1>4. ASSUME NEW k \in Skus \X Sides, openByKey'[k] # 0
      PROVE  /\ openByKey'[k] \in DOMAIN orders'
             /\ orders'[openByKey'[k]].status = "open"
             /\ KeyOf(orders'[openByKey'[k]]) = k
  <2> DEFINE n == openByKey[k]
  <2>1. k # KeyOf(orders[i]) /\ openByKey'[k] = n
    BY <1>3, <1>4
  <2>2. n \in DOMAIN orders /\ IsOpen(n) /\ KeyOf(orders[n]) = k
    BY <1>4, <2>1 DEF Typed, KeyIndexSound
  <2>3. n # i
    BY <2>1, <2>2
  <2>4. n \in DOMAIN orders' /\ orders'[n] = orders[n]
    BY <1>2, <2>2, <2>3
  <2> QED
    BY <2>1, <2>2, <2>4 DEF IsOpen
<1> QED
  BY <1>4 DEF KeyIndexSound, IsOpen, KeyOf

LEMMA SameKeys ==
  ASSUME KeyIndexSound, UNCHANGED <<orders, openByKey>>
  PROVE  KeyIndexSound'
BY DEF KeyIndexSound, IsOpen, KeyOf

\* Dropping a key that held nothing, or closing the order it held.
LEMMA DropKey ==
  ASSUME Typed, NEW sku \in Skus, NEW side \in Sides,
         orders' = IF openByKey[<<sku, side>>] # 0
                   THEN Close(openByKey[<<sku, side>>], "cancelled") ELSE orders,
         openByKey' = [openByKey EXCEPT ![<<sku, side>>] = 0]
  PROVE  KeyIndexSound'
<1> DEFINE key == <<sku, side>>
           held == openByKey[key]
<1>0. openByKey \in [Skus \X Sides -> Nat] /\ key \in Skus \X Sides /\ 0 \in Nat
  BY DEF Typed, TypeOK
<1>1. CASE held # 0
  <2>1. held \in DOMAIN orders /\ KeyOf(orders[held]) = key
    BY <1>0, <1>1 DEF Typed, KeyIndexSound
  <2>2. openByKey' = PopKey(orders[held])
    BY <2>1 DEF PopKey
  <2>3. orders' = Close(held, "cancelled")
    BY <1>1
  <2> QED
    BY <2>1, <2>2, <2>3, CloseKeepsKeys DEF OrderStatuses
<1>2. CASE held = 0
  <2>1. orders' = orders
    BY <1>2
  <2>2. /\ openByKey'[key] = 0
        /\ \A k \in Skus \X Sides : k # key => openByKey'[k] = openByKey[k]
    BY <1>0, KeyUpdateTyped
  <2> QED
    BY <2>1, <2>2 DEF Typed, KeyIndexSound, IsOpen, KeyOf
<1> QED
  BY <1>1, <1>2

\* What a submitted order does: it is appended open, it takes its key, and the
\* order it replaces, which held the key, is cancelled; the rest stays.
LEMMA OrderAppended ==
  ASSUME Typed, SubmitOrder
  PROVE  LET intent == Head(outbox).intent
             key == <<intent.sku, intent.side>>
             held == openByKey[key]
             last == Len(orders) + 1
         IN  /\ key \in Skus \X Sides
             /\ DOMAIN orders' = 1 .. last /\ DOMAIN orders = 1 .. Len(orders)
             /\ Len(orders) \in Nat
             /\ orders'[last] = NewOrder(intent)
             /\ \A j \in DOMAIN orders :
                  orders'[j] = IF intent.kind = "replace" /\ j = held
                               THEN [orders[j] EXCEPT !.status = "cancelled"]
                               ELSE orders[j]
             /\ openByKey'[key] = last
             /\ \A k \in Skus \X Sides : k # key => openByKey'[k] = openByKey[k]
<1> DEFINE intent == Head(outbox).intent
           key == <<intent.sku, intent.side>>
           held == openByKey[key]
           last == Len(orders) + 1
           kept == IF intent.kind = "replace" /\ held # 0
                   THEN Close(held, "cancelled") ELSE orders
<1>0. /\ orders \in Seq(Order) /\ Len(orders) \in Nat /\ last \in Nat
      /\ DOMAIN orders = 1 .. Len(orders)
      /\ openByKey \in [Skus \X Sides -> Nat]
  BY Indexes DEF Typed, TypeOK
<1>1. outbox # <<>> /\ orders' = Append(kept, NewOrder(intent))
  BY DEF SubmitOrder
<1>2. /\ intent.sku \in Skus /\ intent.side \in Sides /\ NewOrder(intent) \in Order
      /\ held # 0 => held \in DOMAIN orders
  BY <1>1, Submitted
<1>3. /\ kept \in Seq(Order) /\ Len(kept) = Len(orders) /\ DOMAIN kept = DOMAIN orders
      /\ \A j \in DOMAIN orders :
           kept[j] = IF intent.kind = "replace" /\ j = held
                     THEN [orders[j] EXCEPT !.status = "cancelled"]
                     ELSE orders[j]
  <2>1. CASE intent.kind = "replace" /\ held # 0
    <3>1. kept = Close(held, "cancelled") /\ held \in DOMAIN orders
      BY <1>2, <2>1
    <3> HIDE DEF kept, held, intent
    <3> QED
      BY ZenonT(30), <1>0, <2>1, <3>1, CloseTyped DEF OrderStatuses
  <2>2. CASE ~(intent.kind = "replace" /\ held # 0)
    <3>1. kept = orders
      BY <2>2
    <3> HIDE DEF kept, held, intent
    <3>2. \A j \in DOMAIN orders : ~(intent.kind = "replace" /\ j = held)
      BY <1>0, <2>2
    <3> QED
      BY <1>0, <3>1, <3>2
  <2> QED
    BY <2>1, <2>2
<1>4. openByKey' = [openByKey EXCEPT ![key] = last]
  BY DEF SubmitOrder
<1>5. /\ openByKey'[key] = last
      /\ \A k \in Skus \X Sides : k # key => openByKey'[k] = openByKey[k]
  BY <1>0, <1>2, <1>4, KeyUpdateTyped
<1> HIDE DEF kept
<1>6. /\ DOMAIN orders' = 1 .. last /\ orders'[last] = NewOrder(intent)
      /\ \A j \in DOMAIN orders : orders'[j] = kept[j]
  BY <1>0, <1>1, <1>2, <1>3, AppendEntry
<1> QED
  BY <1>0, <1>2, <1>3, <1>5, <1>6

LEMMA KeysAfterSubmitOrder ==
  ASSUME Typed, SubmitOrder
  PROVE  KeyIndexSound'
<1> DEFINE intent == Head(outbox).intent
           key == <<intent.sku, intent.side>>
           held == openByKey[key]
           last == Len(orders) + 1
<1>1. ASSUME NEW k \in Skus \X Sides, openByKey'[k] # 0
      PROVE  /\ openByKey'[k] \in DOMAIN orders'
             /\ orders'[openByKey'[k]].status = "open"
             /\ KeyOf(orders'[openByKey'[k]]) = k
  <2>1. CASE k = key
    <3>1. openByKey'[k] = last /\ orders'[last] = NewOrder(intent) /\ last \in DOMAIN orders'
      BY <2>1, OrderAppended
    <3> QED
      BY <2>1, <3>1 DEF NewOrder, KeyOf
  <2>2. CASE k # key
    <3> DEFINE n == openByKey[k]
    <3>1. openByKey'[k] = n
      BY <2>2, OrderAppended
    <3>2. n \in DOMAIN orders /\ IsOpen(n) /\ KeyOf(orders[n]) = k
      BY <1>1, <3>1 DEF Typed, KeyIndexSound
    <3>3. n # held
      <4>1. held # 0 => KeyOf(orders[held]) = key
        BY OrderAppended DEF Typed, KeyIndexSound
      <4> QED
        BY <1>1, <2>2, <3>1, <3>2, <4>1
    <3>4. orders'[n] = orders[n] /\ n \in DOMAIN orders'
      <4>1. /\ DOMAIN orders' = 1 .. last /\ DOMAIN orders = 1 .. Len(orders)
            /\ Len(orders) \in Nat
            /\ \A j \in DOMAIN orders : j # held => orders'[j] = orders[j]
        BY OrderAppended
      <4> HIDE DEF held
      <4> QED
        BY <3>2, <3>3, <4>1
    <3> QED
      BY <3>1, <3>2, <3>4 DEF IsOpen
  <2> QED
    BY <2>1, <2>2
<1> QED
  BY <1>1 DEF KeyIndexSound, IsOpen, KeyOf

LEMMA KeyStep ==
  ASSUME Typed, Next
  PROVE  KeyIndexSound'
<1> USE DEF bookVars
<1>0. KeyIndexSound
  BY DEF Typed
<1>1. CASE UNCHANGED <<orders, openByKey>>
  BY <1>0, <1>1, SameKeys
<1>2. CASE Load
  <2>1. \A k \in Skus \X Sides : openByKey'[k] = 0
    BY <1>2 DEF Load
  <2> QED
    BY <2>1 DEF KeyIndexSound
<1>3. ASSUME NEW side \in CancelSides, NEW sku \in Skus, NEW form \in CancelForms,
             OperatorCancel(side, sku, form)
      PROVE  KeyIndexSound'
  <2> DEFINE held == IF form = "keyed" THEN openByKey[<<sku, side>>] ELSE 0
  <2>1. side \in Sides
    BY OperatorAssumption DEF Sides
  <2>2. CASE held # 0
    <3>1. /\ orders' = Close(openByKey[<<sku, side>>], "cancelled")
          /\ openByKey[<<sku, side>>] # 0
          /\ openByKey' = [openByKey EXCEPT ![<<sku, side>>] = 0]
      BY <1>3, <2>2 DEF OperatorCancel, Close
    <3> QED
      BY <2>1, <3>1, DropKey
  <2>3. CASE held = 0
    BY <1>0, <1>3, <2>3, SameKeys DEF OperatorCancel
  <2> QED
    BY <2>2, <2>3
<1>4. ASSUME NEW i \in todo,
             \/ FillBuy(i)
             \/ \E l \in DOMAIN lots : FillSell(i, l)
      PROVE  KeyIndexSound'
  <2>1. /\ Matching(i) /\ orders' = Close(i, "filled") /\ openByKey' = PopKey(orders[i])
    BY <1>4 DEF FillBuy, Buyable, FillSell, BookSell
  <2> QED
    BY <2>1, MatchingOrder, CloseKeepsKeys DEF OrderStatuses
<1>5. CASE SubmitOrder
  BY <1>5, KeysAfterSubmitOrder
<1>6. CASE SubmitCancel
  <2> DEFINE intent == Head(outbox).intent
  <2>1. intent.sku \in Skus /\ intent.side \in Sides
    BY <1>6, Submitted DEF SubmitCancel
  <2> QED
    BY <1>6, <2>1, DropKey DEF SubmitCancel
<1>7. Command => \/ Load \/ UNCHANGED <<orders, openByKey>>
                 \/ \E side \in CancelSides, sku \in Skus, form \in CancelForms :
                      OperatorCancel(side, sku, form)
  BY DEF Command, Enable, Disable, SetMode, Tick
<1>8. MatchStep => \/ UNCHANGED <<orders, openByKey>>
                   \/ \E i \in todo : FillBuy(i) \/ \E l \in DOMAIN lots : FillSell(i, l)
  BY DEF MatchStep, LeaveOpen, MatchRaises, Settle
<1>9. DecideStep => UNCHANGED <<orders, openByKey>>
  BY DEF DecideStep, DecideBase, DecideCancelAll, DecideNoOp, DecidePause, InferenceRaises,
         DecideModelQuote, OnMarket
<1>10. ReconcileStep => UNCHANGED <<orders, openByKey>>
  BY DEF ReconcileStep, PlaceBid, CancelBid, ReplaceBid, KeepBid, CancelAsk,
         CancelAskRaises, PlaceAsk, ReplaceAsk, KeepAsk, GateBid, GateAsk
<1>11. SubmitStep => UNCHANGED <<orders, openByKey>> \/ SubmitOrder \/ SubmitCancel
  BY DEF SubmitStep, FinishEvent, FallbackAuditRaises, StepAuditRaises
<1> QED
  BY <1>1, <1>2, <1>3, <1>4, <1>5, <1>6, <1>7, <1>8, <1>9, <1>10, <1>11 DEF Next

-----------------------------------------------------------------------------
(* The active ask's lot *)

\* Lots are only forgotten by a load, which forgets the active ask as well.
LEMMA LotsStay ==
  ASSUME Typed, Next
  PROVE  ask' = None \/ DOMAIN lots \subseteq DOMAIN lots'
<1> USE DEF bookVars, quoteVars, handlerVars
<1>0. lots \in Seq(Lot)
  BY DEF Typed, TypeOK
<1>1. CASE Load
  BY <1>1 DEF Load
<1>2. ASSUME NEW i \in todo, FillBuy(i)
      PROVE  DOMAIN lots \subseteq DOMAIN lots'
  <2>1. lots' \in Seq(Lot)
    BY <1>2, MatchTyped DEF MatchStep, TypeOK
  <2>2. \E e : lots' = Append(lots, e)
    BY <1>2 DEF FillBuy, BookBuy
  <2> QED
    BY <1>0, <2>2
<1>3. Command => Load \/ lots' = lots
  BY CommandsLeave
<1>4. MatchStep => \/ DOMAIN lots' = DOMAIN lots
                   \/ \E i \in todo : FillBuy(i)
  BY DEF MatchStep, LeaveOpen, MatchRaises, Settle, FillSell
<1>5. DecideStep => lots' = lots
  BY DEF DecideStep, DecideBase, DecideCancelAll, DecideNoOp, DecidePause, InferenceRaises,
         DecideModelQuote, OnMarket
<1>6. ReconcileStep => DOMAIN lots' = DOMAIN lots
  BY DEF ReconcileStep, PlaceBid, CancelBid, ReplaceBid, KeepBid, CancelAsk,
         CancelAskRaises, PlaceAsk, ReplaceAsk, KeepAsk, GateBid
<1>7. SubmitStep => lots' = lots
  BY DEF SubmitStep, SubmitOrder, SubmitCancel, FinishEvent, FallbackAuditRaises, StepAuditRaises
<1> QED
  BY <1>1, <1>2, <1>3, <1>4, <1>5, <1>6, <1>7 DEF Next

LEMMA AskStep ==
  ASSUME Typed, Next
  PROVE  AskLotKnown'
<1> USE DEF bookVars, quoteVars, handlerVars
<1>1. CASE ask' = ask \/ ask' = None
  BY <1>1, LotsStay DEF Typed, AskLotKnown
<1>2. ASSUME NEW l \in DOMAIN lots, PlaceAsk(l)
      PROVE  AskLotKnown'
  BY <1>2 DEF PlaceAsk, GateAsk, NewQuote, AskLotKnown
<1>3. ASSUME NEW aged \in BOOLEAN, ReplaceAsk(aged)
      PROVE  AskLotKnown'
  BY <1>3 DEF ReplaceAsk, GateAsk, NewQuote, Typed, AskLotKnown
<1>4. Command => ask' = ask \/ ask' = None
  BY CommandsLeave
<1>5. MatchStep \/ DecideStep \/ SubmitStep => ask' = ask
  BY DEF MatchStep, LeaveOpen, FillBuy, BookBuy, FillSell, BookSell, MatchRaises, Settle,
         DecideStep, DecideBase, DecideCancelAll, DecideNoOp, DecidePause, InferenceRaises,
         DecideModelQuote, OnMarket, SubmitStep, SubmitOrder, SubmitCancel, FinishEvent,
         FallbackAuditRaises, StepAuditRaises
<1>6. ReconcileStep => \/ ask' = ask \/ ask' = None
                       \/ \E l \in DOMAIN lots : PlaceAsk(l)
                       \/ \E aged \in BOOLEAN : ReplaceAsk(aged)
  BY DEF ReconcileStep, PlaceBid, CancelBid, ReplaceBid, KeepBid, CancelAsk,
         CancelAskRaises, KeepAsk, GateBid, GateAsk
<1> QED
  BY <1>1, <1>2, <1>3, <1>4, <1>5, <1>6 DEF Next

LEMMA TypedStep ==
  ASSUME Typed, Next
  PROVE  Typed'
<1>1. TypeOK'
  BY CommandTyped, MatchTyped, DecideTyped, ReconcileTyped, SubmitTyped DEF Next
<1> QED
  BY <1>1, StageStep, KeyStep, AskStep DEF Typed

-----------------------------------------------------------------------------
(* Capital within policy *)

\* A gated bid hands a capital within policy to the quote engine and the outbox.
LEMMA GateBidPolicy ==
  ASSUME IInv, NEW intent \in Intent, NEW quote, GateBid(intent, quote),
         intent.kind = "cancel" => intent.principal = 0
  PROVE  CapitalWithinPolicy' /\ OutboxWithinPolicy'
<1>0. /\ quoteCapital \in Capital /\ WithinPolicy(quoteCapital) /\ WithinPolicy(capital)
      /\ outbox \in Seq(Decision) /\ OutboxWithinPolicy
  BY DEF IInv, Typed, TypeOK, CapitalWithinPolicy
<1>1. capital' = capital
  BY DEF GateBid, bookVars
<1>2. CASE Accepts(intent, quoteCapital)
  <2> DEFINE after == CapitalAfter(intent, quoteCapital)
             decision == [intent |-> intent, capital |-> after]
  <2>1. after \in Capital /\ WithinPolicy(after)
    BY <1>0, <1>2, CapitalAfterTyped, GateKeepsPolicy DEF Intent
  <2>2. quoteCapital' = after /\ outbox' = Append(outbox, decision)
    BY <1>2 DEF GateBid
  <2>3. decision \in Decision /\ decision.capital = after
    BY <2>1 DEF Decision
  <2> HIDE DEF after, decision
  <2>4. OutboxWithinPolicy'
    <3>1. /\ DOMAIN outbox' = 1 .. (Len(outbox) + 1) /\ DOMAIN outbox = 1 .. Len(outbox)
          /\ Len(outbox) \in Nat
          /\ \A n \in DOMAIN outbox : outbox'[n] = outbox[n]
          /\ outbox'[Len(outbox) + 1] = decision
      BY <1>0, <2>2, <2>3, AppendEntry, Indexes
    <3> QED
      BY <1>0, <2>1, <2>3, <3>1 DEF OutboxWithinPolicy, WithinPolicy
  <2> QED
    BY <1>0, <1>1, <2>1, <2>2, <2>4 DEF CapitalWithinPolicy, WithinPolicy
<1>3. CASE ~Accepts(intent, quoteCapital)
  BY <1>0, <1>1, <1>3 DEF GateBid, CapitalWithinPolicy, OutboxWithinPolicy, WithinPolicy
<1> QED
  BY <1>2, <1>3

LEMMA GateAskPolicy ==
  ASSUME IInv, NEW intent \in Intent, NEW quote, GateAsk(intent, quote)
  PROVE  CapitalWithinPolicy' /\ OutboxWithinPolicy'
<1>0. /\ quoteCapital \in Capital /\ WithinPolicy(quoteCapital) /\ WithinPolicy(capital)
      /\ outbox \in Seq(Decision) /\ OutboxWithinPolicy
  BY DEF IInv, Typed, TypeOK, CapitalWithinPolicy
<1> DEFINE decision == [intent |-> intent, capital |-> quoteCapital]
<1>1. decision \in Decision /\ decision.capital = quoteCapital
  BY <1>0 DEF Decision
<1>2. outbox' = Append(outbox, decision) /\ UNCHANGED <<capital, quoteCapital>>
  BY DEF GateAsk
<1> HIDE DEF decision
<1>3. /\ DOMAIN outbox' = 1 .. (Len(outbox) + 1) /\ DOMAIN outbox = 1 .. Len(outbox)
      /\ Len(outbox) \in Nat
      /\ \A n \in DOMAIN outbox : outbox'[n] = outbox[n]
      /\ outbox'[Len(outbox) + 1] = decision
  BY <1>0, <1>1, <1>2, AppendEntry, Indexes
<1> QED
  BY <1>0, <1>1, <1>2, <1>3 DEF CapitalWithinPolicy, OutboxWithinPolicy, WithinPolicy
LEMMA PolicyOfReconcile ==
  ASSUME IInv, ReconcileStep
  PROVE  CapitalWithinPolicy' /\ OutboxWithinPolicy'
<1> USE DEF bookVars, quoteVars
<1>0. Typed /\ TypeOK /\ CapitalWithinPolicy /\ OutboxWithinPolicy
  BY DEF IInv, Typed
<1>1. CASE PlaceBid
  <2>1. batch # <<>> /\ desired.bid \in Int
    BY <1>0, <1>1, DesiredPrice DEF PlaceBid
  <2>2. /\ QuoteIntent("place", "buy", Event.sku, desired.bid, 0) \in Intent
        /\ QuoteIntent("place", "buy", Event.sku, desired.bid, 0).kind = "place"
    BY <1>0, <2>1, EventTyped, QuoteIntentTyped DEF Sides
  <2> QED
    BY <1>1, <2>2, GateBidPolicy DEF PlaceBid
<1>2. CASE CancelBid
  <2>1. bid.price \in Int /\ bid.sku \in Skus
    BY <1>0, <1>2, DesiredPrice DEF CancelBid
  <2>2. /\ QuoteIntent("cancel", "buy", bid.sku, bid.price, bid.price) \in Intent
        /\ QuoteIntent("cancel", "buy", bid.sku, bid.price, bid.price).principal = 0
    BY <2>1, QuoteIntentTyped DEF Sides
  <2> QED
    BY <1>2, <2>2, GateBidPolicy DEF CancelBid
<1>3. ASSUME NEW aged \in BOOLEAN, ReplaceBid(aged)
      PROVE  CapitalWithinPolicy' /\ OutboxWithinPolicy'
  <2>1. batch # <<>> /\ desired.bid \in Int /\ bid.price \in Int
    BY <1>0, <1>3, DesiredPrice DEF ReplaceBid
  <2>2. /\ QuoteIntent("replace", "buy", Event.sku, desired.bid, bid.price) \in Intent
        /\ QuoteIntent("replace", "buy", Event.sku, desired.bid, bid.price).kind = "replace"
    BY <1>0, <2>1, EventTyped, QuoteIntentTyped DEF Sides
  <2> QED
    BY <1>3, <2>2, GateBidPolicy DEF ReplaceBid
<1>4. CASE CancelAsk
  <2>1. ask.price \in Int /\ ask.sku \in Skus
    BY <1>0, <1>4, DesiredPrice DEF CancelAsk
  <2>2. QuoteIntent("cancel", "sell", ask.sku, ask.price, 0) \in Intent
    BY <2>1, QuoteIntentTyped DEF Sides
  <2> QED
    BY <1>4, <2>2, GateAskPolicy DEF CancelAsk
<1>5. ASSUME NEW aged \in BOOLEAN, ReplaceAsk(aged)
      PROVE  CapitalWithinPolicy' /\ OutboxWithinPolicy'
  <2>1. batch # <<>> /\ desired.ask \in Int
    BY <1>0, <1>5, DesiredPrice DEF ReplaceAsk
  <2>2. QuoteIntent("replace", "sell", Event.sku, desired.ask, 0) \in Intent
    BY <1>0, <2>1, EventTyped, QuoteIntentTyped DEF Sides
  <2> QED
    BY <1>5, <2>2, GateAskPolicy DEF ReplaceAsk
<1>6. ASSUME NEW l \in DOMAIN lots, PlaceAsk(l)
      PROVE  CapitalWithinPolicy' /\ OutboxWithinPolicy'
  <2>1. batch # <<>> /\ desired.ask \in Int
    BY <1>0, <1>6, DesiredPrice DEF PlaceAsk
  <2>2. QuoteIntent("place", "sell", Event.sku, desired.ask, 0) \in Intent
    BY <1>0, <2>1, EventTyped, QuoteIntentTyped DEF Sides
  <2> QED
    BY <1>6, <2>2, GateAskPolicy DEF PlaceAsk
<1>7. CASE CancelAskRaises
  BY <1>0, <1>7, EmptySeq
  DEF CancelAskRaises, EndHandler, CapitalWithinPolicy, OutboxWithinPolicy, WithinPolicy
<1>8. ASSUME NEW aged \in BOOLEAN, KeepBid(aged) \/ KeepAsk(aged)
      PROVE  CapitalWithinPolicy' /\ OutboxWithinPolicy'
  BY <1>0, <1>8 DEF KeepBid, KeepAsk, CapitalWithinPolicy, OutboxWithinPolicy, WithinPolicy
<1> QED
  BY <1>1, <1>2, <1>3, <1>4, <1>5, <1>6, <1>7, <1>8 DEF ReconcileStep

LEMMA PolicyOfMatch ==
  ASSUME IInv, MatchStep
  PROVE  CapitalWithinPolicy' /\ OutboxWithinPolicy'
<1> USE DEF bookVars, quoteVars
<1>0. Typed /\ TypeOK /\ CapitalWithinPolicy /\ OutboxWithinPolicy
  BY DEF IInv, Typed
<1>1. ASSUME NEW i \in todo, FillBuy(i)
      PROVE  CapitalWithinPolicy' /\ OutboxWithinPolicy'
  <2>1. Matching(i) /\ orders[i].side = "buy" /\ CanBuy(orders[i])
    BY <1>1 DEF FillBuy, Buyable
  <2>2. orders[i] \in Order /\ batch # <<>>
    BY <1>0, <2>1, MatchingOrder
  <2>3. orders[i].price \in Int /\ orders[i].price > 0
    BY <1>0, <2>1, <2>2, EventTyped, PolicyAssumption DEF CanBuy, BuyPrice, Least, Order
  <2>4. /\ PurchaseCost(orders[i]) \in Int /\ Principal(orders[i]) = orders[i].price
        /\ capital.cash \in Int /\ capital.reserved \in Int
    BY <1>0, <2>1, <2>2, FillPricesTyped DEF Principal, TypeOK, Capital
  <2>5. WithinPolicy(AfterBuy(orders[i]))
    BY <1>0, <2>1, <2>3, <2>4, PolicyAssumption
    DEF CanBuy, AfterBuy, WithinPolicy, CapitalWithinPolicy
  <2>6. capital' = AfterBuy(orders[i]) /\ UNCHANGED <<quoteCapital, outbox>>
    BY <1>1 DEF FillBuy, BookBuy
  <2> HIDE DEF AfterBuy
  <2> QED
    BY <1>0, <2>5, <2>6 DEF CapitalWithinPolicy, OutboxWithinPolicy, WithinPolicy
<1>2. ASSUME NEW i \in todo, NEW l \in DOMAIN lots, FillSell(i, l)
      PROVE  CapitalWithinPolicy' /\ OutboxWithinPolicy'
  <2>1. Matching(i) /\ CanSell(orders[i])
    BY <1>2 DEF FillSell, BookSell
  <2>2. SaleProceeds(orders[i]) \in Int /\ SaleProceeds(orders[i]) >= 0
    BY <1>0, <2>1, MatchingOrder, FillPricesTyped DEF CanSell
  <2>3. /\ capital' = [capital EXCEPT !.cash = @ + SaleProceeds(orders[i])]
        /\ UNCHANGED <<quoteCapital, outbox>>
    BY <1>2 DEF FillSell, BookSell
  <2>4. WithinPolicy(capital')
    <3>1. capital \in Capital /\ capital.cash >= 0 /\ capital.reserved \in 0 .. OpenBuyCap
      BY <1>0 DEF TypeOK, CapitalWithinPolicy, WithinPolicy
    <3>2. /\ capital'.cash = capital.cash + SaleProceeds(orders[i])
          /\ capital'.reserved = capital.reserved
      BY <2>3, <3>1 DEF Capital
    <3>3. capital.cash \in Int
      BY <3>1 DEF Capital
    <3> QED
      BY <2>2, <3>1, <3>2, <3>3 DEF WithinPolicy
  <2> QED
    BY <1>0, <2>3, <2>4 DEF CapitalWithinPolicy, OutboxWithinPolicy, WithinPolicy
<1>3. ASSUME NEW i \in todo, LeaveOpen(i)
      PROVE  CapitalWithinPolicy' /\ OutboxWithinPolicy'
  BY <1>0, <1>3 DEF LeaveOpen, CapitalWithinPolicy, OutboxWithinPolicy, WithinPolicy
<1>4. ASSUME NEW i \in todo, MatchRaises(i)
      PROVE  CapitalWithinPolicy' /\ OutboxWithinPolicy'
  BY <1>0, <1>4, EmptySeq
  DEF MatchRaises, EndHandler, CapitalWithinPolicy, OutboxWithinPolicy, WithinPolicy
<1>5. CASE Settle
  BY <1>0, <1>5 DEF Settle, CapitalWithinPolicy, OutboxWithinPolicy, WithinPolicy
<1> QED
  BY <1>1, <1>2, <1>3, <1>4, <1>5 DEF MatchStep

LEMMA PolicyOfCommand ==
  ASSUME IInv, Command
  PROVE  CapitalWithinPolicy' /\ OutboxWithinPolicy'
<1> USE DEF bookVars, quoteVars, handlerVars
<1>0. Typed /\ TypeOK /\ CapitalWithinPolicy /\ OutboxWithinPolicy
  BY DEF IInv, Typed
<1>1. CASE Load
  BY <1>0, <1>1, PolicyAssumption
  DEF Load, InitialCapital, CapitalWithinPolicy, OutboxWithinPolicy, WithinPolicy
<1>2. ASSUME NEW side \in CancelSides, NEW sku \in Skus, NEW form \in CancelForms,
             OperatorCancel(side, sku, form)
      PROVE  CapitalWithinPolicy' /\ OutboxWithinPolicy'
  <2>1. PICK release :
          LET intent == [kind |-> "cancel", side |-> side, sku |-> sku,
                         price |-> 0, principal |-> 0, release |-> release]
          IN  /\ Accepts(intent, capital)
              /\ capital' = CapitalAfter(intent, capital)
              /\ quoteCapital' = CapitalAfter(intent, capital)
    BY <1>2 DEF OperatorCancel
  <2> DEFINE intent == [kind |-> "cancel", side |-> side, sku |-> sku,
                        price |-> 0, principal |-> 0, release |-> release]
  <2>2. WithinPolicy(CapitalAfter(intent, capital))
    <3>1. capital \in Capital /\ WithinPolicy(capital)
      BY <1>0 DEF TypeOK, CapitalWithinPolicy
    <3>2. CASE side = "sell"
      BY <3>1, <3>2 DEF CapitalAfter
    <3>3. CASE side # "sell"
      <4>1. release \in 0 .. capital.reserved
        BY <2>1, <3>3 DEF Accepts
      <4>2. CapitalAfter(intent, capital)
              = [capital EXCEPT !.reserved = (@ - release) + 0]
        BY <3>3 DEF CapitalAfter
      <4> HIDE DEF intent
      <4> QED
        BY <3>1, <4>1, <4>2, PolicyAssumption DEF WithinPolicy, Capital
    <3> QED
      BY <3>2, <3>3
  <2>3. outbox' = outbox
    BY <1>2 DEF OperatorCancel
  <2> HIDE DEF intent
  <2> QED
    BY <1>0, <2>1, <2>2, <2>3 DEF CapitalWithinPolicy, OutboxWithinPolicy, WithinPolicy, intent
<1>3. Command => \/ Load
                 \/ UNCHANGED <<capital, quoteCapital, outbox>>
                 \/ \E side \in CancelSides, sku \in Skus, form \in CancelForms :
                      OperatorCancel(side, sku, form)
  BY DEF Command, Enable, Disable, SetMode, Tick
<1>4. CASE UNCHANGED <<capital, quoteCapital, outbox>>
  BY <1>0, <1>4 DEF CapitalWithinPolicy, OutboxWithinPolicy, WithinPolicy
<1> QED
  BY <1>1, <1>2, <1>3, <1>4
LEMMA PolicyOfSubmit ==
  ASSUME IInv, SubmitStep
  PROVE  CapitalWithinPolicy' /\ OutboxWithinPolicy'
<1> USE DEF bookVars, quoteVars
<1>0. /\ Typed /\ CapitalWithinPolicy /\ OutboxWithinPolicy
      /\ outbox \in Seq(Decision)
  BY DEF IInv, Typed, TypeOK
<1>1. CASE SubmitOrder \/ SubmitCancel
  <2>1. /\ outbox # <<>> /\ capital' = Head(outbox).capital /\ outbox' = Tail(outbox)
        /\ quoteCapital' = quoteCapital
    BY <1>1 DEF SubmitOrder, SubmitCancel
  <2>2. /\ 1 \in DOMAIN outbox /\ Head(outbox) = outbox[1]
        /\ \A n \in DOMAIN Tail(outbox) :
             n + 1 \in DOMAIN outbox /\ Tail(outbox)[n] = outbox[n + 1]
    BY <1>0, <2>1, HeadTail
  <2> QED
    BY <1>0, <2>1, <2>2 DEF CapitalWithinPolicy, OutboxWithinPolicy, WithinPolicy
<1>2. CASE FinishEvent
  BY <1>0, <1>2 DEF FinishEvent, CapitalWithinPolicy, OutboxWithinPolicy, WithinPolicy
<1>3. CASE FallbackAuditRaises \/ StepAuditRaises
  BY <1>0, <1>3, EmptySeq DEF FallbackAuditRaises, StepAuditRaises, EndHandler,
                              CapitalWithinPolicy, OutboxWithinPolicy, WithinPolicy
<1> QED
  BY <1>1, <1>2, <1>3 DEF SubmitStep

LEMMA PolicyOfDecide ==
  ASSUME IInv, DecideStep
  PROVE  CapitalWithinPolicy' /\ OutboxWithinPolicy'
<1>1. UNCHANGED <<capital, quoteCapital>> /\ outbox' \in {outbox, <<>>}
  BY DEF DecideStep, DecideBase, DecideCancelAll, DecideNoOp, DecidePause, InferenceRaises,
         DecideModelQuote, OnMarket, EndHandler, bookVars, quoteVars
<1> QED
  BY <1>1, EmptySeq DEF IInv, CapitalWithinPolicy, OutboxWithinPolicy, WithinPolicy

LEMMA InvStep == IInv /\ [Next]_vars => IInv'
<1>1. ASSUME IInv, Next
      PROVE  IInv'
  <2>1. Typed'
    BY <1>1, TypedStep DEF IInv
  <2>2. CapitalWithinPolicy' /\ OutboxWithinPolicy'
    BY <1>1, PolicyOfCommand, PolicyOfMatch, PolicyOfDecide, PolicyOfReconcile,
       PolicyOfSubmit DEF Next
  <2> QED
    BY <2>1, <2>2 DEF IInv
<1> QED
  BY <1>1, Stutter

-----------------------------------------------------------------------------
(* Reserved lots *)

\* A step of the handlers takes a reservation only with the ask, and gives up
\* the ask only with its reservation.
LEMMA ReservedInitially == Init => ReservedLotHeld
BY DEF Init, ReservedLotHeld

LEMMA ReservedThroughMatch ==
  ASSUME Typed, ReservedLotHeld, MatchStep
  PROVE  ReservedLotHeld'
<1> USE DEF bookVars, quoteVars
<1>0. lots \in Seq(Lot) /\ ask' = ask
  BY DEF Typed, TypeOK, MatchStep, LeaveOpen, FillBuy, BookBuy, FillSell, BookSell,
         MatchRaises, Settle
<1>1. ASSUME NEW i \in todo, LeaveOpen(i) \/ MatchRaises(i)
      PROVE  ReservedLotHeld'
  BY <1>1, <1>0 DEF LeaveOpen, MatchRaises, ReservedLotHeld
<1>2. ASSUME NEW i \in todo, FillBuy(i)
      PROVE  ReservedLotHeld'
  <2>1. PICK e : lots' = Append(lots, e) /\ e.state = "purchased"
    BY <1>2 DEF FillBuy, BookBuy
  <2>2. \A l \in DOMAIN lots' :
          \/ l \in DOMAIN lots /\ lots'[l] = lots[l]
          \/ lots'[l] = e
    BY <1>0, <2>1
  <2> QED
    BY <1>0, <2>1, <2>2 DEF ReservedLotHeld
<1>3. ASSUME NEW i \in todo, NEW l \in DOMAIN lots, FillSell(i, l)
      PROVE  ReservedLotHeld'
  BY <1>0, <1>3 DEF FillSell, ReservedLotHeld
<1>4. ASSUME Settle
      PROVE  ReservedLotHeld'
  BY <1>0, <1>4 DEF Settle, ReservedLotHeld
<1> QED
  BY <1>1, <1>2, <1>3, <1>4 DEF MatchStep

LEMMA ReservedThroughReconcile ==
  ASSUME Typed, ReservedLotHeld, ReconcileStep
  PROVE  ReservedLotHeld'
<1> USE DEF bookVars, quoteVars
<1>0. ask \in Quote \cup {None} /\ desired.ask \in Int \cup {None}
  BY DEF Typed, TypeOK
<1>1. ASSUME NEW l \in DOMAIN lots, PlaceAsk(l)
      PROVE  ReservedLotHeld'
  <2>1. ask' = NewQuote(desired.ask, l) /\ ask = None /\ desired.ask # None
        /\ lots' = [lots EXCEPT ![l].state = "reserved_for_sale"]
    BY <1>1 DEF PlaceAsk, GateAsk
  <2>2. ask' # None /\ ask'.lot = l
    <3>1. NewQuote(desired.ask, l) \in Quote /\ NewQuote(desired.ask, l).lot = l
      <4>1. l \in Nat
        BY DEF Typed, TypeOK
      <4>2. Event \in Events
        BY <1>1, <2>1, EventTyped DEF PlaceAsk, Typed, StageInv, NoDesire, TypeOK
      <4> QED
        BY <4>1, <4>2, <1>0, <2>1, MarketAssumption DEF NewQuote, Quote
    <3> QED
      BY <2>1, <3>1, NoneAssumption DEF Quote
  <2> QED
    BY <2>1, <2>2 DEF ReservedLotHeld
<1>2. ASSUME NEW aged \in BOOLEAN, ReplaceAsk(aged)
      PROVE  ReservedLotHeld'
  <2>1. ask' = NewQuote(desired.ask, ask.lot) /\ ask # None /\ desired.ask # None
        /\ lots' = lots
    BY <1>2 DEF ReplaceAsk, GateAsk
  <2>2. ask' # None /\ ask'.lot = ask.lot
    <3>1. NewQuote(desired.ask, ask.lot) \in Quote
      <4>1. ask.lot \in Nat
        BY <1>0, <2>1 DEF Quote
      <4>2. Event \in Events
        BY <1>2, <2>1, EventTyped DEF ReplaceAsk, Typed, StageInv, NoDesire, TypeOK
      <4> QED
        BY <4>1, <4>2, <1>0, <2>1, MarketAssumption DEF NewQuote, Quote
    <3> QED
      BY <2>1, <3>1, NoneAssumption DEF Quote, NewQuote
  <2> QED
    BY <2>1, <2>2 DEF ReservedLotHeld
<1>3. ASSUME CancelAsk
      PROVE  ReservedLotHeld'
  <2>1. lots' = [lots EXCEPT ![ask.lot].state = "available"] /\ ask # None
        /\ ask.lot \in DOMAIN lots
    BY <1>3 DEF CancelAsk, Typed, AskLotKnown
  <2> QED
    BY <2>1 DEF ReservedLotHeld
<1>4. CASE ask' = ask /\ lots' = lots
  BY <1>4 DEF ReservedLotHeld
<1> QED
  BY <1>1, <1>2, <1>3, <1>4 DEF ReconcileStep, PlaceBid, CancelBid, ReplaceBid, KeepBid,
     CancelAskRaises, KeepAsk, GateBid

LEMMA ReservedStep ==
  ASSUME "sell" \notin CancelSides, IInv, ReservedLotHeld, [Next]_vars
  PROVE  ReservedLotHeld'
<1> USE DEF bookVars, quoteVars
<1>1. CASE Command
  <2>1. CASE Load
    BY <2>1 DEF Load, ReservedLotHeld
  <2>2. CASE ~Load
    <3>1. ask' = ask /\ lots' = lots
      BY <1>1, <2>2, CommandsLeave
    <3> QED
      BY <3>1 DEF ReservedLotHeld
  <2> QED
    BY <2>1, <2>2
<1>2. CASE MatchStep
  BY <1>2, ReservedThroughMatch DEF IInv
<1>3. CASE DecideStep \/ SubmitStep
  <2>1. ask' = ask /\ lots' = lots
    BY <1>3 DEF DecideStep, DecideBase, DecideCancelAll, DecideNoOp, DecidePause, InferenceRaises,
       DecideModelQuote, OnMarket, SubmitStep, SubmitOrder, SubmitCancel, FinishEvent,
       FallbackAuditRaises, StepAuditRaises
  <2> QED
    BY <2>1 DEF ReservedLotHeld
<1>4. CASE ReconcileStep
  BY <1>4, ReservedThroughReconcile DEF IInv
<1>5. CASE UNCHANGED vars
  BY <1>5 DEF vars, ReservedLotHeld
<1> QED
  BY <1>1, <1>2, <1>3, <1>4, <1>5 DEF Next

-----------------------------------------------------------------------------
(* Theorems *)

LEMMA Invariance == Spec => []IInv
BY InitInv, InvStep, PTL DEF Spec

\* Every variable keeps its type, for any products, market and policy.
THEOREM TypeCorrect == Spec => []TypeOK
<1>1. IInv => TypeOK
  BY DEF IInv, Typed
<1> QED
  BY <1>1, Invariance, PTL

\* Neither copy of the capital ever overdraws the cash or reserves more than
\* the open-buy cap, whatever is quoted, filled, cancelled or raised.
THEOREM CapitalSafe == Spec => []CapitalWithinPolicy
<1>1. IInv => CapitalWithinPolicy
  BY DEF IInv
<1> QED
  BY <1>1, Invariance, PTL

\* The execution engine's key index only ever names open orders of its key.
THEOREM KeyIndexCorrect == Spec => []KeyIndexSound
<1>1. IInv => KeyIndexSound
  BY DEF IInv, Typed
<1> QED
  BY <1>1, Invariance, PTL

\* As long as no ask is cancelled by hand, a reserved lot belongs to the ask
\* being maintained, whatever raises, pauses or is disabled.
THEOREM ReservationHeld ==
  ASSUME "sell" \notin CancelSides
  PROVE  Spec => []ReservedLotHeld
<1>1. Init => ReservedLotHeld
  BY ReservedInitially
<1>2. IInv /\ ReservedLotHeld /\ [Next]_vars => ReservedLotHeld'
  BY ReservedStep
<1> QED
  BY <1>1, <1>2, Invariance, PTL DEF Spec

-----------------------------------------------------------------------------
(* The book through the refinement mapping *)

\* What the ledger sees of one order, and of one fill.
OrderSeen(o) == [sku |-> o.sku, side |-> o.side, status |-> o.status]
FillSeen(f) == [order |-> f.order, side |-> f.side, lot |-> f.lot]

LEMMA BookTyped ==
  ASSUME orders \in Seq(Order)
  PROVE  /\ OrderBook \in Seq(Ledger!Order)
         /\ DOMAIN OrderBook = DOMAIN orders /\ Len(OrderBook) = Len(orders)
         /\ \A i \in DOMAIN orders : OrderBook[i] = OrderSeen(orders[i])
<1>1. \A i \in DOMAIN orders : OrderBook[i] = OrderSeen(orders[i])
  BY DEF OrderBook, OrderSeen
<1>2. ASSUME NEW i \in DOMAIN orders
      PROVE  OrderBook[i] \in Ledger!Order
  <2>1. orders[i] \in Order
    BY Indexes
  <2>2. Ledger!Sides = Sides /\ Ledger!OrderStatuses = OrderStatuses
    BY DEF Ledger!Sides, Sides, Ledger!OrderStatuses, OrderStatuses
  <2>3. OrderSeen(orders[i]) \in Ledger!Order
    BY <2>1, <2>2 DEF OrderSeen, Order, Ledger!Order
  <2> QED
    BY <1>1, <2>3
<1>3. OrderBook = [i \in DOMAIN orders |-> OrderBook[i]]
  BY DEF OrderBook
<1> QED
  BY <1>1, <1>2, <1>3, MapEntry

LEMMA FillsTyped ==
  ASSUME fills \in Seq(Fill)
  PROVE  /\ FillBook \in Seq(Ledger!Fill)
         /\ DOMAIN FillBook = DOMAIN fills /\ Len(FillBook) = Len(fills)
         /\ \A f \in DOMAIN fills : FillBook[f] = FillSeen(fills[f])
<1>1. \A f \in DOMAIN fills : FillBook[f] = FillSeen(fills[f])
  BY DEF FillBook, FillSeen
<1>2. ASSUME NEW f \in DOMAIN fills
      PROVE  FillBook[f] \in Ledger!Fill
  <2>1. fills[f] \in Fill
    BY Indexes
  <2>2. Ledger!Sides = Sides
    BY DEF Ledger!Sides, Sides
  <2>3. FillSeen(fills[f]) \in Ledger!Fill
    BY <2>1, <2>2 DEF FillSeen, Fill, Ledger!Fill
  <2> QED
    BY <1>1, <2>3
<1>3. FillBook = [f \in DOMAIN fills |-> FillBook[f]]
  BY DEF FillBook
<1> QED
  BY <1>1, <1>2, <1>3, MapEntry

\* A sequence is the function on its indexes.
LEMMA SeqIsFunction ==
  ASSUME NEW S, NEW s \in Seq(S)
  PROVE  s = [i \in DOMAIN s |-> s[i]]
BY SMT

\* Closing an order is marking it in the ledger.
LEMMA BookClosed ==
  ASSUME orders \in Seq(Order), orders' \in Seq(Order),
         NEW i \in DOMAIN orders, NEW status \in OrderStatuses,
         orders' = Close(i, status)
  PROVE  OrderBook' = Ledger!Mark(i, status)
<1>1. /\ DOMAIN orders' = DOMAIN orders
      /\ orders'[i] = [orders[i] EXCEPT !.status = status]
      /\ \A j \in DOMAIN orders : j # i => orders'[j] = orders[j]
  BY CloseTyped
<1>2. /\ DOMAIN OrderBook = DOMAIN orders
      /\ \A j \in DOMAIN orders : OrderBook[j] = OrderSeen(orders[j])
  BY BookTyped
<1>3. /\ OrderBook' = [j \in DOMAIN orders' |-> OrderSeen(orders'[j])]
  BY DEF OrderBook, OrderSeen
<1>4. OrderSeen(orders'[i]) = [OrderSeen(orders[i]) EXCEPT !.status = status]
  <2>1. orders[i] \in Order
    BY Indexes
  <2> QED
    BY <1>1, <2>1 DEF OrderSeen, Order
<1>5. ASSUME NEW j \in DOMAIN orders
      PROVE  OrderBook'[j] = Ledger!Mark(i, status)[j]
  <2>1. CASE j = i
    BY <1>1, <1>2, <1>3, <1>4, <2>1 DEF Ledger!Mark
  <2>2. CASE j # i
    BY <1>1, <1>2, <1>3, <2>2 DEF Ledger!Mark
  <2> QED
    BY <2>1, <2>2
<1>6. /\ DOMAIN Ledger!Mark(i, status) = DOMAIN orders /\ DOMAIN OrderBook' = DOMAIN orders
      /\ Ledger!Mark(i, status) = [j \in DOMAIN orders |-> Ledger!Mark(i, status)[j]]
      /\ OrderBook' = [j \in DOMAIN orders |-> OrderBook'[j]]
  BY <1>1, <1>2, <1>3 DEF Ledger!Mark
<1> QED
  BY <1>5, <1>6
\* Appending an order to the book appends what the ledger sees of it.
LEMMA BookAppended ==
  ASSUME orders \in Seq(Order), orders' \in Seq(Order),
         DOMAIN orders' = 1 .. (Len(orders) + 1),
         NEW kept \in Seq(Ledger!Order), Len(kept) = Len(orders),
         \A j \in DOMAIN orders : OrderSeen(orders'[j]) = kept[j],
         NEW o \in Ledger!Order, OrderSeen(orders'[Len(orders) + 1]) = o
  PROVE  OrderBook' = Append(kept, o)
<1>1. /\ Len(orders) \in Nat /\ DOMAIN orders = 1 .. Len(orders) /\ DOMAIN kept = 1 .. Len(orders)
  BY Indexes
<1>2. /\ Append(kept, o) \in Seq(Ledger!Order)
      /\ DOMAIN Append(kept, o) = 1 .. (Len(orders) + 1)
      /\ \A j \in DOMAIN kept : Append(kept, o)[j] = kept[j]
      /\ Append(kept, o)[Len(orders) + 1] = o
  BY AppendEntry
<1>3. OrderBook' = [j \in 1 .. (Len(orders) + 1) |-> OrderSeen(orders'[j])]
  BY DEF OrderBook, OrderSeen
<1>4. ASSUME NEW j \in 1 .. (Len(orders) + 1)
      PROVE  OrderSeen(orders'[j]) = Append(kept, o)[j]
  <2>1. CASE j = Len(orders) + 1
    BY <1>2, <2>1
  <2>2. CASE j # Len(orders) + 1
    <3>1. j \in DOMAIN orders /\ j \in DOMAIN kept
      BY <1>1, <2>2
    <3> QED
      BY <1>2, <3>1
  <2> QED
    BY <2>1, <2>2
<1>5. Append(kept, o) = [j \in 1 .. (Len(orders) + 1) |-> Append(kept, o)[j]]
  <2> DEFINE t == Append(kept, o)
  <2>1. t \in Seq(Ledger!Order) /\ DOMAIN t = 1 .. (Len(orders) + 1)
    BY <1>2
  <2> HIDE DEF t
  <2>2. t = [j \in 1 .. (Len(orders) + 1) |-> t[j]]
    BY <2>1, SeqIsFunction
  <2> QED
    BY <2>2 DEF t
<1> QED
  BY <1>3, <1>4, <1>5

\* A fill of the book is a fill of the ledger.
LEMMA FillAppended ==
  ASSUME fills \in Seq(Fill), NEW f \in Fill, fills' = Append(fills, f)
  PROVE  FillBook' = Append(FillBook, FillSeen(f))
<1>1. /\ FillBook \in Seq(Ledger!Fill) /\ Len(FillBook) = Len(fills)
      /\ DOMAIN FillBook = DOMAIN fills
      /\ \A g \in DOMAIN fills : FillBook[g] = FillSeen(fills[g])
  BY FillsTyped
<1>2. /\ Len(fills) \in Nat /\ DOMAIN fills = 1 .. Len(fills)
      /\ DOMAIN fills' = 1 .. (Len(fills) + 1)
      /\ \A g \in DOMAIN fills : fills'[g] = fills[g]
      /\ fills'[Len(fills) + 1] = f
  BY Indexes, AppendEntry
<1>3. FillSeen(f) \in Ledger!Fill
  <2>1. Ledger!Sides = Sides
    BY DEF Ledger!Sides, Sides
  <2> QED
    BY <2>1 DEF FillSeen, Fill, Ledger!Fill
<1>4. /\ DOMAIN Append(FillBook, FillSeen(f)) = 1 .. (Len(fills) + 1)
      /\ \A g \in DOMAIN fills : Append(FillBook, FillSeen(f))[g] = FillBook[g]
      /\ Append(FillBook, FillSeen(f))[Len(fills) + 1] = FillSeen(f)
      /\ Append(FillBook, FillSeen(f)) \in Seq(Ledger!Fill)
  BY <1>1, <1>3, AppendEntry
<1>5. FillBook' = [g \in 1 .. (Len(fills) + 1) |-> FillSeen(fills'[g])]
  BY <1>2 DEF FillBook, FillSeen
<1>6. ASSUME NEW g \in 1 .. (Len(fills) + 1)
      PROVE  FillSeen(fills'[g]) = Append(FillBook, FillSeen(f))[g]
  <2>1. CASE g = Len(fills) + 1
    BY <1>2, <1>4, <2>1
  <2>2. CASE g # Len(fills) + 1
    <3>1. g \in DOMAIN fills
      BY <1>2, <2>2
    <3> QED
      BY <1>1, <1>2, <1>4, <3>1
  <2> QED
    BY <2>1, <2>2
<1>7. Append(FillBook, FillSeen(f))
        = [g \in 1 .. (Len(fills) + 1) |-> Append(FillBook, FillSeen(f))[g]]
  <2> DEFINE t == Append(FillBook, FillSeen(f))
  <2>1. t \in Seq(Ledger!Fill) /\ DOMAIN t = 1 .. (Len(fills) + 1)
    BY <1>4
  <2> HIDE DEF t
  <2>2. t = [g \in 1 .. (Len(fills) + 1) |-> t[g]]
    BY <2>1, SeqIsFunction
  <2> QED
    BY <2>2 DEF t
<1> QED
  BY <1>5, <1>6, <1>7

-----------------------------------------------------------------------------
(* Every step of the loop is a step of the ledger *)

LEMMA SameBook ==
  ASSUME UNCHANGED <<orders, fills, lots>>
  PROVE  UNCHANGED Ledger!ledgerVars
BY DEF Ledger!ledgerVars, OrderBook, FillBook

LEMMA LedgerCancels ==
  ASSUME IInv, TypeOK', NEW i \in DOMAIN orders, IsOpen(i),
         orders' = Close(i, "cancelled"), UNCHANGED <<fills, lots>>
  PROVE  Ledger!Next
<1>1. orders \in Seq(Order) /\ orders' \in Seq(Order)
  BY DEF IInv, Typed, TypeOK
<1>2. OrderBook' = Ledger!Mark(i, "cancelled")
  BY <1>1, BookClosed DEF OrderStatuses
<1>3. i \in DOMAIN OrderBook /\ OrderBook[i].status = "open"
  BY <1>1, BookTyped DEF OrderSeen, IsOpen
<1>4. FillBook' = FillBook
  BY DEF FillBook
<1> QED
  BY <1>2, <1>3, <1>4 DEF Ledger!Next, Ledger!Cancel, Ledger!OpenOrder

LEMMA LedgerBuys ==
  ASSUME IInv, TypeOK', NEW i \in todo, FillBuy(i)
  PROVE  Ledger!Next
<1>1. /\ orders \in Seq(Order) /\ orders' \in Seq(Order)
      /\ fills \in Seq(Fill) /\ lots \in Seq(Lot) /\ Typed
  BY DEF IInv, Typed, TypeOK
<1>2. /\ Matching(i) /\ orders[i].side = "buy" /\ orders' = Close(i, "filled")
      /\ fills' = Append(fills, [order |-> i, side |-> "buy",
                                 amount |-> PurchaseCost(orders[i]), lot |-> Len(lots) + 1])
      /\ lots' = Append(lots, [sku |-> orders[i].sku, state |-> "purchased",
                               fill |-> Len(fills) + 1])
  BY DEF FillBuy, Buyable, BookBuy
<1>3. i \in DOMAIN orders /\ IsOpen(i) /\ orders[i] \in Order /\ batch # <<>> /\ i \in Nat
  BY <1>1, <1>2, MatchingOrder
<1>4. OrderBook' = Ledger!Mark(i, "filled")
  BY <1>1, <1>2, <1>3, BookClosed DEF OrderStatuses
<1>5. /\ i \in DOMAIN OrderBook /\ OrderBook[i].status = "open"
      /\ OrderBook[i].side = "buy" /\ OrderBook[i].sku = orders[i].sku
  BY <1>1, <1>2, <1>3, BookTyped DEF OrderSeen, IsOpen
<1>6. /\ FillBook' = Append(FillBook, [order |-> i, side |-> "buy", lot |-> Len(lots) + 1])
      /\ Len(FillBook) = Len(fills)
  <2> DEFINE fill == [order |-> i, side |-> "buy",
                      amount |-> PurchaseCost(orders[i]), lot |-> Len(lots) + 1]
  <2>1. PurchaseCost(orders[i]) \in Int /\ Len(lots) + 1 \in Nat
    BY <1>1, <1>3, FillPricesTyped, Indexes DEF Typed
  <2>2. fill \in Fill
    BY <1>3, <2>1 DEF Fill, Sides
  <2>3. FillSeen(fill) = [order |-> i, side |-> "buy", lot |-> Len(lots) + 1]
    BY DEF FillSeen
  <2> HIDE DEF fill
  <2> QED
    BY <1>1, <1>2, <2>2, <2>3, FillAppended, FillsTyped DEF fill
<1> QED
  BY <1>2, <1>4, <1>5, <1>6 DEF Ledger!Next, Ledger!Buy, Ledger!OpenOrder
LEMMA LedgerSells ==
  ASSUME IInv, TypeOK', NEW i \in todo, NEW l \in DOMAIN lots, FillSell(i, l)
  PROVE  Ledger!Next
<1>1. /\ orders \in Seq(Order) /\ orders' \in Seq(Order)
      /\ fills \in Seq(Fill) /\ lots \in Seq(Lot) /\ Typed
  BY DEF IInv, Typed, TypeOK
<1>2. /\ Matching(i) /\ orders[i].side = "sell" /\ orders' = Close(i, "filled")
      /\ lots[l].state = "reserved_for_sale" /\ lots[l].sku = orders[i].sku
      /\ fills' = Append(fills, [order |-> i, side |-> "sell",
                                 amount |-> SaleProceeds(orders[i]), lot |-> l])
      /\ lots' = [lots EXCEPT ![l].state = "sold"]
  BY DEF FillSell, BookSell, LotsIn
<1>3. i \in DOMAIN orders /\ IsOpen(i) /\ orders[i] \in Order /\ batch # <<>> /\ i \in Nat
  BY <1>1, <1>2, MatchingOrder
<1>4. OrderBook' = Ledger!Mark(i, "filled")
  BY <1>1, <1>2, <1>3, BookClosed DEF OrderStatuses
<1>5. /\ i \in DOMAIN OrderBook /\ OrderBook[i].status = "open"
      /\ OrderBook[i].side = "sell" /\ OrderBook[i].sku = orders[i].sku
  BY <1>1, <1>2, <1>3, BookTyped DEF OrderSeen, IsOpen
<1>6. FillBook' = Append(FillBook, [order |-> i, side |-> "sell", lot |-> l])
  <2> DEFINE fill == [order |-> i, side |-> "sell",
                      amount |-> SaleProceeds(orders[i]), lot |-> l]
  <2>1. SaleProceeds(orders[i]) \in Int /\ l \in Nat
    BY <1>1, <1>3, FillPricesTyped, Indexes DEF Typed
  <2>2. fill \in Fill
    BY <1>3, <2>1 DEF Fill, Sides
  <2>3. FillSeen(fill) = [order |-> i, side |-> "sell", lot |-> l]
    BY DEF FillSeen
  <2> HIDE DEF fill
  <2> QED
    BY <1>1, <1>2, <2>2, <2>3, FillAppended DEF fill
<1>7. Ledger!Sell(i, l)
  BY <1>2, <1>4, <1>5, <1>6 DEF Ledger!Sell, Ledger!OpenOrder, Ledger!LotIs, Ledger!Move
<1> QED
  BY <1>5, <1>7 DEF Ledger!Next

LEMMA LedgerReceives ==
  ASSUME Settle
  PROVE  Ledger!Next
<1> DEFINE S == {l \in DOMAIN lots : lots[l].fill \in fresh /\ lots[l].state = "purchased"}
<1>1. S \in SUBSET {l \in DOMAIN lots : lots[l].state = "purchased"}
  OBVIOUS
<1>2. lots' = [l \in DOMAIN lots |->
                 IF l \in S THEN [lots[l] EXCEPT !.state = "available"] ELSE lots[l]]
  BY DEF Settle
<1>3. OrderBook' = OrderBook /\ FillBook' = FillBook
  BY DEF Settle, OrderBook, FillBook
<1> HIDE DEF S
<1> QED
  BY <1>1, <1>2, <1>3 DEF Ledger!Next, Ledger!Receive

LEMMA LedgerReserves ==
  ASSUME NEW l \in DOMAIN lots, UNCHANGED <<orders, fills>>,
         \/ lots[l].state = "available" /\ lots' = [lots EXCEPT ![l].state = "reserved_for_sale"]
         \/ lots[l].state = "reserved_for_sale" /\ lots' = [lots EXCEPT ![l].state = "available"]
  PROVE  Ledger!Next
<1>1. OrderBook' = OrderBook /\ FillBook' = FillBook
  BY DEF OrderBook, FillBook
<1> QED
  BY <1>1 DEF Ledger!Next, Ledger!Reserve, Ledger!Release, Ledger!LotIs, Ledger!Move

\* A submitted order is a Place or, when its key held an order, a Replace.
LEMMA LedgerPlaces ==
  ASSUME IInv, TypeOK', SubmitOrder
  PROVE  Ledger!Next
<1> DEFINE intent == Head(outbox).intent
           key == <<intent.sku, intent.side>>
           held == openByKey[key]
           last == Len(orders) + 1
           new == Ledger!Opened(intent.sku, intent.side)
<1>1. orders \in Seq(Order) /\ orders' \in Seq(Order) /\ Typed
  BY DEF IInv, Typed, TypeOK
<1>2. /\ intent.sku \in Skus /\ intent.side \in Sides
      /\ held # 0 => held \in DOMAIN orders /\ IsOpen(held) /\ KeyOf(orders[held]) = key
  BY <1>1, Submitted DEF SubmitOrder
<1>3. /\ DOMAIN orders' = 1 .. last /\ orders'[last] = NewOrder(intent)
      /\ DOMAIN orders = 1 .. Len(orders) /\ Len(orders) \in Nat
      /\ \A j \in DOMAIN orders :
           orders'[j] = IF intent.kind = "replace" /\ j = held
                        THEN [orders[j] EXCEPT !.status = "cancelled"]
                        ELSE orders[j]
  BY <1>1, OrderAppended
<1>4. new \in Ledger!Order /\ OrderSeen(orders'[last]) = new
  <2>1. OrderSeen(orders'[last]) = new
    BY <1>3 DEF OrderSeen, NewOrder, Ledger!Opened
  <2>2. Ledger!Sides = Sides /\ "open" \in Ledger!OrderStatuses
    BY DEF Ledger!Sides, Sides, Ledger!OrderStatuses
  <2>3. new \in Ledger!Order
    BY <1>2, <2>2 DEF Ledger!Opened, Ledger!Order
  <2> QED
    BY <2>1, <2>3
<1>5. /\ OrderBook \in Seq(Ledger!Order) /\ DOMAIN OrderBook = DOMAIN orders
      /\ Len(OrderBook) = Len(orders)
      /\ \A j \in DOMAIN orders : OrderBook[j] = OrderSeen(orders[j])
  BY <1>1, BookTyped
<1>6. FillBook' = FillBook /\ lots' = lots
  BY DEF SubmitOrder, FillBook
<1> HIDE DEF new, last, intent
<1>7. CASE intent.kind = "replace" /\ held # 0
  <2> DEFINE kept == Ledger!Mark(held, "cancelled")
  <2>1. /\ held \in DOMAIN orders /\ IsOpen(held) /\ orders[held] \in Order
        /\ KeyOf(orders[held]) = key
    BY <1>1, <1>2, <1>7, Indexes
  <2>2. OrderSeen([orders[held] EXCEPT !.status = "cancelled"])
          = [OrderBook[held] EXCEPT !.status = "cancelled"]
    <3>1. ASSUME NEW o \in Order
          PROVE  OrderSeen([o EXCEPT !.status = "cancelled"])
                   = [OrderSeen(o) EXCEPT !.status = "cancelled"]
      BY DEF OrderSeen, Order
    <3>2. OrderBook[held] = OrderSeen(orders[held])
      BY <1>5, <2>1
    <3> HIDE DEF held
    <3> QED
      BY <2>1, <3>1, <3>2
  <2>3. [OrderBook[held] EXCEPT !.status = "cancelled"] \in Ledger!Order
    <3>1. OrderBook[held] \in Ledger!Order /\ "cancelled" \in Ledger!OrderStatuses
      BY <1>5, <2>1, Indexes DEF Ledger!OrderStatuses
    <3> QED
      BY <3>1 DEF Ledger!Order
  <2>4. /\ kept \in Seq(Ledger!Order) /\ Len(kept) = Len(orders)
        /\ kept[held] = [OrderBook[held] EXCEPT !.status = "cancelled"]
        /\ \A j \in DOMAIN orders : j # held => kept[j] = OrderBook[j]
    <3> HIDE DEF held
    <3> QED
      BY <1>5, <2>1, <2>3, UpdateEntry DEF Ledger!Mark
  <2>5. \A j \in DOMAIN orders : OrderSeen(orders'[j]) = kept[j]
    <3> HIDE DEF held, kept
    <3> QED
      BY <1>3, <1>5, <1>7, <2>2, <2>4
  <2>6. OrderBook' = Append(kept, new)
    <3> HIDE DEF kept
    <3> QED
      BY <1>1, <1>3, <1>4, <2>4, <2>5, BookAppended DEF last
  <2>7. OrderBook[held].sku = intent.sku /\ OrderBook[held].side = intent.side
    BY <1>5, <2>1 DEF OrderSeen, KeyOf
  <2>8. held \in DOMAIN OrderBook /\ OrderBook[held].status = "open"
    BY <1>5, <2>1 DEF OrderSeen, IsOpen
  <2>9. Ledger!Replace(held)
    BY <1>6, <2>6, <2>7, <2>8 DEF Ledger!Replace, Ledger!OpenOrder, new
  <2> QED
    BY <2>8, <2>9 DEF Ledger!Next
<1>8. CASE ~(intent.kind = "replace" /\ held # 0)
  <2>1. \A j \in DOMAIN orders : OrderSeen(orders'[j]) = OrderBook[j]
    <3>1. \A j \in DOMAIN orders : ~(intent.kind = "replace" /\ j = held)
      <4> HIDE DEF held
      <4> QED
        BY <1>3, <1>8
    <3> QED
      BY <1>3, <1>5, <3>1
  <2>2. OrderBook' = Append(OrderBook, new)
    BY <1>1, <1>3, <1>4, <1>5, <2>1, BookAppended DEF last
  <2>3. Ledger!Place(intent.sku, intent.side)
    BY <1>6, <2>2 DEF Ledger!Place, new
  <2>4. intent.side \in Ledger!Sides
    BY <1>2 DEF Sides, Ledger!Sides
  <2> QED
    BY <1>2, <2>3, <2>4 DEF Ledger!Next
<1> QED
  BY <1>7, <1>8
LEMMA CommandOnLedger ==
  ASSUME IInv, TypeOK', Command
  PROVE  Ledger!Next \/ UNCHANGED Ledger!ledgerVars
<1> USE DEF bookVars
<1>1. CASE UNCHANGED <<orders, fills, lots>>
  BY <1>1, SameBook
<1>2. CASE Load
  <2>1. orders' = <<>> /\ fills' = <<>> /\ lots' = <<>>
    BY <1>2 DEF Load
  <2>2. OrderBook' = <<>> /\ FillBook' = <<>>
    BY <2>1 DEF OrderBook, FillBook
  <2> QED
    BY <2>1, <2>2 DEF Ledger!Next, Ledger!Reset
<1>3. ASSUME NEW side \in CancelSides, NEW sku \in Skus, NEW form \in CancelForms,
             OperatorCancel(side, sku, form)
      PROVE  Ledger!Next \/ UNCHANGED Ledger!ledgerVars
  <2> DEFINE key == <<sku, side>>
             held == IF form = "keyed" THEN openByKey[key] ELSE 0
  <2>1. UNCHANGED <<fills, lots>> /\ orders' = IF held # 0 THEN Close(held, "cancelled") ELSE orders
    BY <1>3 DEF OperatorCancel, Close
  <2>2. held # 0 => held \in DOMAIN orders /\ IsOpen(held)
    BY OperatorAssumption DEF IInv, Typed, KeyIndexSound, Sides
  <2> HIDE DEF held
  <2> QED
    BY <2>1, <2>2, SameBook, LedgerCancels
<1> QED
  BY <1>1, <1>2, <1>3 DEF Command, Enable, Disable, SetMode, Tick

\* Every step of the loop is a step of the ledger or leaves it unchanged.
LEMMA StepOnLedger ==
  ASSUME IInv, [Next]_vars
  PROVE  Ledger!Next \/ UNCHANGED Ledger!ledgerVars
<1> USE DEF bookVars
<1>0. ASSUME Next PROVE TypeOK'
  BY <1>0, InvStep DEF IInv, Typed
<1>1. CASE UNCHANGED vars
  BY <1>1, SameBook DEF vars
<1>2. CASE Command
  BY <1>0, <1>2, CommandOnLedger DEF Next
<1>3. CASE MatchStep
  <2>1. ASSUME NEW i \in todo, LeaveOpen(i) \/ MatchRaises(i)
        PROVE  UNCHANGED Ledger!ledgerVars
    BY <2>1, SameBook DEF LeaveOpen, MatchRaises
  <2> QED
    BY <1>0, <1>3, <2>1, LedgerBuys, LedgerSells, LedgerReceives DEF MatchStep, Next
<1>4. CASE DecideStep
  BY <1>4, SameBook
  DEF DecideStep, DecideBase, DecideCancelAll, DecideNoOp, DecidePause, InferenceRaises,
      DecideModelQuote, OnMarket
<1>5. CASE ReconcileStep
  <2>1. CASE CancelAsk
    <3>1. /\ ask.lot \in DOMAIN lots /\ lots[ask.lot].state = "reserved_for_sale"
          /\ lots' = [lots EXCEPT ![ask.lot].state = "available"]
          /\ UNCHANGED <<orders, fills>>
      BY <2>1 DEF CancelAsk, GateAsk, IInv, Typed, AskLotKnown
    <3> QED
      BY <3>1, LedgerReserves
  <2>2. ASSUME NEW l \in DOMAIN lots, PlaceAsk(l)
        PROVE  Ledger!Next
    <3>1. /\ lots[l].state = "available"
          /\ lots' = [lots EXCEPT ![l].state = "reserved_for_sale"]
          /\ UNCHANGED <<orders, fills>>
      BY <2>2 DEF PlaceAsk, GateAsk, LotsIn
    <3> QED
      BY <3>1, LedgerReserves
  <2>3. CASE UNCHANGED <<orders, fills, lots>>
    BY <2>3, SameBook
  <2> QED
    BY <1>5, <2>1, <2>2, <2>3
    DEF ReconcileStep, PlaceBid, CancelBid, ReplaceBid, KeepBid, CancelAskRaises,
        ReplaceAsk, KeepAsk, GateBid, GateAsk
<1>6. CASE SubmitStep
  <2>1. CASE SubmitOrder
    BY <1>0, <1>6, <2>1, LedgerPlaces DEF Next
  <2>2. CASE SubmitCancel
    <3> DEFINE intent == Head(outbox).intent
               held == openByKey[<<intent.sku, intent.side>>]
    <3>1. UNCHANGED <<fills, lots>> /\ orders' = IF held # 0 THEN Close(held, "cancelled") ELSE orders
      BY <2>2 DEF SubmitCancel
    <3>2. held # 0 => held \in DOMAIN orders /\ IsOpen(held)
      BY <2>2, Submitted DEF SubmitCancel, IInv
    <3> HIDE DEF held
    <3> QED
      BY <1>0, <1>6, <3>1, <3>2, SameBook, LedgerCancels DEF Next
  <2>3. CASE FinishEvent \/ FallbackAuditRaises \/ StepAuditRaises
    BY <2>3, SameBook DEF FinishEvent, FallbackAuditRaises, StepAuditRaises
  <2> QED
    BY <1>6, <2>1, <2>2, <2>3 DEF SubmitStep
<1> QED
  BY <1>1, <1>2, <1>3, <1>4, <1>5, <1>6 DEF Next

\* The paper trading loop implements the ledger: whatever command runs or
\* raises, the book only moves the way PaperLedger allows.
THEOREM ImplementsLedger == Spec => LedgerRefinement
<1>1. Init => Ledger!Init
  <2>1. ASSUME Init
        PROVE  OrderBook = <<>> /\ FillBook = <<>>
    BY <2>1 DEF Init, OrderBook, FillBook
  <2> QED
    BY <2>1 DEF Init, Ledger!Init
<1>2. IInv /\ [Next]_vars => [Ledger!Next]_Ledger!ledgerVars
  BY StepOnLedger
<1> QED
  BY <1>1, <1>2, Invariance, PTL DEF Spec, LedgerRefinement, Ledger!Spec

-----------------------------------------------------------------------------
(* Closed orders *)

ClosedStay ==
  \A i \in DOMAIN orders : ~IsOpen(i) => i \in DOMAIN orders' /\ orders'[i] = orders[i]

LEMMA ClosingStays ==
  ASSUME orders \in Seq(Order), NEW i \in DOMAIN orders, IsOpen(i),
         NEW status \in OrderStatuses, orders' = Close(i, status)
  PROVE  ClosedStay
<1>1. /\ DOMAIN orders' = DOMAIN orders
      /\ \A j \in DOMAIN orders : j # i => orders'[j] = orders[j]
  BY ZenonT(30), CloseTyped
<1> QED
  BY <1>1 DEF ClosedStay

\* A step of the loop: a load, a new order, one order closed, or no change.
LEMMA OrdersStep ==
  ASSUME IInv, Next
  PROVE  \/ Load
         \/ SubmitOrder
         \/ UNCHANGED orders
         \/ \E i \in DOMAIN orders, status \in {"cancelled", "filled"} :
              IsOpen(i) /\ orders' = Close(i, status)
<1> USE DEF bookVars
<1> DEFINE Closes == \E i \in DOMAIN orders, status \in {"cancelled", "filled"} :
                       IsOpen(i) /\ orders' = Close(i, status)
<1>0. Typed
  BY DEF IInv
<1>1. ASSUME NEW side \in CancelSides, NEW sku \in Skus, NEW form \in CancelForms,
             OperatorCancel(side, sku, form)
      PROVE  UNCHANGED orders \/ Closes
  <2> DEFINE held == IF form = "keyed" THEN openByKey[<<sku, side>>] ELSE 0
  <2>1. orders' = IF held # 0 THEN Close(held, "cancelled") ELSE orders
    BY <1>1 DEF OperatorCancel, Close
  <2>2. held # 0 => held \in DOMAIN orders /\ IsOpen(held)
    BY <1>0, OperatorAssumption DEF Typed, KeyIndexSound, Sides
  <2> HIDE DEF held
  <2> QED
    BY <2>1, <2>2
<1>2. Command => UNCHANGED orders \/ Closes \/ Load
  <2>1. Command => \/ UNCHANGED orders \/ Load
                   \/ \E side \in CancelSides, sku \in Skus, form \in CancelForms :
                        OperatorCancel(side, sku, form)
    BY DEF Command, Enable, Disable, SetMode, Tick
  <2> HIDE DEF Closes
  <2> QED
    BY <1>1, <2>1
<1>3. MatchStep => UNCHANGED orders \/ Closes
  <2>1. ASSUME NEW i \in todo, FillBuy(i) \/ \E l \in DOMAIN lots : FillSell(i, l)
        PROVE  Closes
    <3>1. Matching(i) /\ orders' = Close(i, "filled")
      BY <2>1 DEF FillBuy, Buyable, FillSell, BookSell
    <3> QED
      BY <1>0, <3>1, MatchingOrder
  <2>2. MatchStep => \/ UNCHANGED orders
                     \/ \E i \in todo : FillBuy(i) \/ \E l \in DOMAIN lots : FillSell(i, l)
    BY DEF MatchStep, LeaveOpen, MatchRaises, Settle
  <2> HIDE DEF Closes
  <2> QED
    BY <2>1, <2>2
<1>4. DecideStep \/ ReconcileStep => UNCHANGED orders
  BY DEF DecideStep, DecideBase, DecideCancelAll, DecideNoOp, DecidePause, InferenceRaises,
         DecideModelQuote, OnMarket, ReconcileStep, PlaceBid, CancelBid, ReplaceBid,
         KeepBid, CancelAsk, CancelAskRaises, PlaceAsk, ReplaceAsk, KeepAsk, GateBid, GateAsk
<1>5. SubmitStep => SubmitOrder \/ UNCHANGED orders \/ Closes
  <2>1. ASSUME SubmitCancel
        PROVE  UNCHANGED orders \/ Closes
    <3> DEFINE intent == Head(outbox).intent
               held == openByKey[<<intent.sku, intent.side>>]
    <3>1. orders' = IF held # 0 THEN Close(held, "cancelled") ELSE orders
      BY <2>1 DEF SubmitCancel
    <3>2. held # 0 => held \in DOMAIN orders /\ IsOpen(held)
      BY <1>0, <2>1, Submitted DEF SubmitCancel
    <3> HIDE DEF held
    <3> QED
      BY <3>1, <3>2
  <2> HIDE DEF Closes
  <2> QED
    BY <2>1 DEF SubmitStep, FinishEvent, FallbackAuditRaises, StepAuditRaises
<1> QED
  BY <1>2, <1>3, <1>4, <1>5 DEF Next

LEMMA ClosedStep ==
  ASSUME IInv, Next
  PROVE  Load \/ ClosedStay
<1>0. Typed /\ orders \in Seq(Order)
  BY DEF IInv, Typed, TypeOK
<1>1. CASE SubmitOrder
  <2> DEFINE intent == Head(outbox).intent
             held == openByKey[<<intent.sku, intent.side>>]
  <2>1. /\ DOMAIN orders' = 1 .. (Len(orders) + 1) /\ DOMAIN orders = 1 .. Len(orders)
        /\ Len(orders) \in Nat
        /\ \A j \in DOMAIN orders : j # held => orders'[j] = orders[j]
    BY <1>0, <1>1, OrderAppended
  <2>2. held # 0 => IsOpen(held)
    BY <1>0, <1>1, Submitted DEF SubmitOrder
  <2> HIDE DEF held
  <2> QED
    BY <2>1, <2>2 DEF ClosedStay
<1>2. ASSUME NEW i \in DOMAIN orders, NEW status \in {"cancelled", "filled"},
             IsOpen(i), orders' = Close(i, status)
      PROVE  ClosedStay
  BY <1>0, <1>2, ClosingStays DEF OrderStatuses
<1>3. CASE UNCHANGED orders
  BY <1>3 DEF ClosedStay
<1> QED
  BY <1>1, <1>2, <1>3, OrdersStep

\* A filled or cancelled order never changes again until the next load.
THEOREM ClosedForGood == Spec => ClosedOrdersStayClosed
<1>1. IInv /\ [Next]_vars =>
        [orders' # <<>> => ClosedStay]_orders
  <2>1. ASSUME IInv, Next
        PROVE  orders' # <<>> => ClosedStay
    BY <2>1, ClosedStep DEF Load
  <2> QED
    BY <2>1 DEF vars, bookVars
<1>2. IInv /\ [Next]_vars =>
        [orders' # <<>> => \A i \in DOMAIN orders :
           ~IsOpen(i) => i \in DOMAIN orders' /\ orders'[i] = orders[i]]_orders
  BY <1>1 DEF ClosedStay
<1> QED
  BY <1>2, Invariance, PTL DEF Spec, ClosedOrdersStayClosed
-----------------------------------------------------------------------------
(* Fills, orders and lots *)

HistoryInv == OrdersFillOnce /\ LotsSoldOnce

\* A filled order is closed, so it and what it says of its fill stay.
LEMMA HistoryOfOrders ==
  ASSUME IInv, HistoryInv, ClosedStay, UNCHANGED <<fills, lots>>
  PROVE  HistoryInv'
<1>1. ASSUME NEW f \in DOMAIN fills
      PROVE  /\ fills[f].order \in DOMAIN orders'
             /\ orders'[fills[f].order] = orders[fills[f].order]
  <2>1. fills[f].order \in DOMAIN orders /\ ~IsOpen(fills[f].order)
    BY DEF HistoryInv, OrdersFillOnce, IsOpen
  <2> QED
    BY <2>1 DEF ClosedStay
<1>2. OrdersFillOnce'
  BY <1>1 DEF HistoryInv, OrdersFillOnce
<1>3. LotsSoldOnce'
  BY <1>1 DEF HistoryInv, LotsSoldOnce
<1> QED
  BY <1>2, <1>3 DEF HistoryInv

\* Lots that keep their product and fill, and stay sold once sold.
LEMMA HistoryOfLots ==
  ASSUME IInv, HistoryInv, UNCHANGED <<orders, fills>>,
         DOMAIN lots' = DOMAIN lots,
         \A l \in DOMAIN lots :
           /\ lots'[l].sku = lots[l].sku /\ lots'[l].fill = lots[l].fill
           /\ lots[l].state = "sold" => lots'[l].state = "sold"
  PROVE  HistoryInv'
<1>1. OrdersFillOnce'
  BY DEF HistoryInv, OrdersFillOnce
<1>2. LotsSoldOnce'
  BY DEF HistoryInv, LotsSoldOnce
<1> QED
  BY <1>1, <1>2 DEF HistoryInv

\* A fill of an open order: no earlier fill names the order.
LEMMA FillHistory ==
  ASSUME IInv, HistoryInv, NEW i \in DOMAIN orders, IsOpen(i),
         orders' = Close(i, "filled"),
         NEW fill \in Fill, fills' = Append(fills, fill),
         fill.order = i, fill.side = orders[i].side
  PROVE  /\ OrdersFillOnce'
         /\ Len(fills) \in Nat /\ DOMAIN fills = 1 .. Len(fills)
         /\ DOMAIN fills' = 1 .. (Len(fills) + 1)
         /\ fills'[Len(fills) + 1] = fill
         /\ \A f \in DOMAIN fills : fills'[f] = fills[f] /\ fills[f].order # i
         /\ \A j \in DOMAIN orders : orders'[j].sku = orders[j].sku
<1>0. orders \in Seq(Order) /\ fills \in Seq(Fill) /\ "filled" \in OrderStatuses
  BY DEF IInv, Typed, TypeOK, OrderStatuses
<1>1. /\ DOMAIN orders' = DOMAIN orders
      /\ orders'[i] = [orders[i] EXCEPT !.status = "filled"]
      /\ \A j \in DOMAIN orders : j # i => orders'[j] = orders[j]
  BY <1>0, CloseTyped
<1>2. /\ orders'[i].status = "filled" /\ orders'[i].side = orders[i].side
      /\ orders'[i].sku = orders[i].sku
  <2>1. orders[i] \in Order
    BY <1>0, Indexes
  <2> QED
    BY <1>1, <2>1 DEF Order
<1>3. /\ Len(fills) \in Nat /\ DOMAIN fills = 1 .. Len(fills)
      /\ DOMAIN fills' = 1 .. (Len(fills) + 1)
      /\ fills'[Len(fills) + 1] = fill
      /\ \A f \in DOMAIN fills : fills'[f] = fills[f]
  BY <1>0, Indexes, AppendEntry
<1>4. ASSUME NEW f \in DOMAIN fills
      PROVE  /\ fills[f].order # i /\ fills[f].order \in DOMAIN orders
             /\ orders[fills[f].order].status = "filled"
             /\ orders[fills[f].order].side = fills[f].side
  BY DEF HistoryInv, OrdersFillOnce, IsOpen
<1>5. ASSUME NEW f \in DOMAIN fills'
      PROVE  /\ fills'[f].order \in DOMAIN orders'
             /\ orders'[fills'[f].order].status = "filled"
             /\ orders'[fills'[f].order].side = fills'[f].side
  <2>1. CASE f = Len(fills) + 1
    BY <1>1, <1>2, <1>3, <2>1
  <2>2. CASE f # Len(fills) + 1
    <3>1. f \in DOMAIN fills /\ fills'[f] = fills[f]
      BY <1>3, <2>2
    <3> QED
      BY <1>1, <1>4, <3>1
  <2> QED
    BY <2>1, <2>2
<1>6. ASSUME NEW f \in DOMAIN fills', NEW g \in DOMAIN fills',
             fills'[f].order = fills'[g].order
      PROVE  f = g
  <2>1. \A h \in DOMAIN fills' :
          IF h \in DOMAIN fills THEN fills'[h].order = fills[h].order /\ fills[h].order # i
                                ELSE h = Len(fills) + 1 /\ fills'[h].order = i
    BY <1>3, <1>4
  <2>2. CASE f \in DOMAIN fills /\ g \in DOMAIN fills
    BY <1>6, <2>1, <2>2 DEF HistoryInv, OrdersFillOnce
  <2> QED
    BY <1>6, <2>1, <2>2
<1>7. \A j \in DOMAIN orders : orders'[j].sku = orders[j].sku
  BY <1>1, <1>2
<1> QED
  BY <1>3, <1>4, <1>5, <1>6, <1>7 DEF OrdersFillOnce

LEMMA BuyHistory ==
  ASSUME IInv, HistoryInv, NEW i \in todo, FillBuy(i)
  PROVE  HistoryInv'
<1> DEFINE fill == [order |-> i, side |-> "buy", amount |-> PurchaseCost(orders[i]),
                    lot |-> Len(lots) + 1]
           lot == [sku |-> orders[i].sku, state |-> "purchased", fill |-> Len(fills) + 1]
           new == Len(fills) + 1
           last == Len(lots) + 1
<1>0. /\ Typed /\ TypeOK /\ lots \in Seq(Lot) /\ fills \in Seq(Fill)
      /\ OrdersFillOnce /\ LotsSoldOnce
  BY DEF IInv, Typed, TypeOK, HistoryInv
<1>1. /\ Matching(i) /\ orders[i].side = "buy" /\ orders' = Close(i, "filled")
      /\ fills' = Append(fills, fill) /\ lots' = Append(lots, lot)
  BY DEF FillBuy, Buyable, BookBuy
<1>2. i \in DOMAIN orders /\ IsOpen(i) /\ i \in Nat /\ orders[i] \in Order /\ batch # <<>>
  BY <1>0, <1>1, MatchingOrder
<1>3. Len(fills) \in Nat /\ Len(lots) \in Nat /\ DOMAIN lots = 1 .. Len(lots)
  BY <1>0, Indexes
<1>4. fill \in Fill
  BY <1>0, <1>2, <1>3, FillPricesTyped DEF Fill, Sides
<1>5. lot \in Lot
  BY <1>2, <1>3 DEF Lot, LotStates, Order
<1>6. /\ fill.order = i /\ fill.side = "buy" /\ fill.lot = last
      /\ lot.sku = orders[i].sku /\ lot.fill = new /\ lot.state = "purchased"
  OBVIOUS
<1> HIDE DEF fill, lot
<1>7. /\ OrdersFillOnce'
      /\ DOMAIN fills = 1 .. Len(fills)
      /\ DOMAIN fills' = 1 .. new
      /\ fills'[new] = fill
      /\ \A f \in DOMAIN fills : fills'[f] = fills[f] /\ fills[f].order # i
      /\ \A j \in DOMAIN orders : orders'[j].sku = orders[j].sku
  BY <1>1, <1>2, <1>4, <1>6, FillHistory
<1>8. /\ DOMAIN lots' = 1 .. last /\ lots'[last] = lot
      /\ \A l \in DOMAIN lots : lots'[l] = lots[l]
  BY <1>0, <1>1, <1>5, AppendEntry
<1>9. \A f \in DOMAIN fills : /\ fills[f].lot \in DOMAIN lots
                              /\ fills[f].order \in DOMAIN orders
  BY <1>0 DEF LotsSoldOnce, OrdersFillOnce
<1>10. ASSUME NEW f \in DOMAIN fills'
       PROVE  /\ fills'[f].lot \in DOMAIN lots'
              /\ IF fills'[f].side = "buy"
                 THEN lots'[fills'[f].lot].fill = f
                 ELSE lots'[fills'[f].lot].state = "sold"
              /\ lots'[fills'[f].lot].sku = orders'[fills'[f].order].sku
  <2>1. CASE f = new
    BY <1>2, <1>3, <1>6, <1>7, <1>8, <2>1
  <2>2. CASE f # new
    <3>1. f \in DOMAIN fills /\ fills'[f] = fills[f]
      BY <1>3, <1>7, <2>2
    <3>2. fills[f].lot \in DOMAIN lots' /\ lots'[fills[f].lot] = lots[fills[f].lot]
      BY <1>3, <1>8, <1>9, <3>1
    <3> QED
      BY <1>0, <1>7, <1>9, <3>1, <3>2 DEF LotsSoldOnce
  <2> QED
    BY <2>1, <2>2
<1>11. ASSUME NEW f \in DOMAIN fills', NEW g \in DOMAIN fills',
              fills'[f].side = fills'[g].side, fills'[f].lot = fills'[g].lot
       PROVE  f = g
  <2>1. \A h \in DOMAIN fills' :
          IF h \in DOMAIN fills THEN fills'[h] = fills[h] /\ fills[h].lot # last
                                ELSE h = new /\ fills'[h].lot = last
    BY <1>3, <1>6, <1>7, <1>9
  <2>2. CASE f \in DOMAIN fills /\ g \in DOMAIN fills
    <3>1. fills'[f] = fills[f] /\ fills'[g] = fills[g]
      BY <2>1, <2>2
    <3>2. fills[f].side = fills[g].side /\ fills[f].lot = fills[g].lot
      BY <1>11, <3>1
    <3> QED
      BY <1>0, <2>2, <3>2 DEF LotsSoldOnce
  <2> QED
    BY <1>11, <2>1, <2>2
<1>12. ASSUME NEW l \in DOMAIN lots'
       PROVE  /\ lots'[l].fill \in DOMAIN fills'
              /\ fills'[lots'[l].fill].side = "buy" /\ fills'[lots'[l].fill].lot = l
  <2>1. CASE l = last
    BY <1>3, <1>6, <1>7, <1>8, <2>1
  <2>2. CASE l # last
    <3>1. l \in DOMAIN lots /\ lots'[l] = lots[l]
      BY <1>3, <1>8, <2>2
    <3>2. lots[l].fill \in DOMAIN fills /\ fills[lots[l].fill].side = "buy"
          /\ fills[lots[l].fill].lot = l
      BY <1>0, <3>1 DEF LotsSoldOnce
    <3> QED
      BY <1>3, <1>7, <3>1, <3>2
  <2> QED
    BY <2>1, <2>2
<1>13. LotsSoldOnce'
  BY <1>10, <1>11, <1>12 DEF LotsSoldOnce
<1> QED
  BY <1>7, <1>13 DEF HistoryInv
\* A sell fill takes a lot that was reserved, hence not sold before.
LEMMA SellHistory ==
  ASSUME IInv, HistoryInv, NEW i \in todo, NEW l \in DOMAIN lots, FillSell(i, l)
  PROVE  HistoryInv'
<1> DEFINE fill == [order |-> i, side |-> "sell", amount |-> SaleProceeds(orders[i]),
                    lot |-> l]
           new == Len(fills) + 1
<1>0. /\ Typed /\ TypeOK /\ lots \in Seq(Lot) /\ fills \in Seq(Fill)
      /\ OrdersFillOnce /\ LotsSoldOnce /\ "sold" \in LotStates
  BY DEF IInv, Typed, TypeOK, HistoryInv, LotStates
<1>1. /\ Matching(i) /\ orders[i].side = "sell" /\ orders' = Close(i, "filled")
      /\ fills' = Append(fills, fill) /\ lots' = [lots EXCEPT ![l].state = "sold"]
      /\ lots[l].state = "reserved_for_sale" /\ lots[l].sku = orders[i].sku
  BY DEF FillSell, BookSell, LotsIn
<1>2. i \in DOMAIN orders /\ IsOpen(i) /\ i \in Nat /\ orders[i] \in Order /\ batch # <<>>
  BY <1>0, <1>1, MatchingOrder
<1>3. Len(fills) \in Nat /\ l \in Nat /\ lots[l] \in Lot
  BY <1>0, Indexes
<1>4. fill \in Fill
  BY <1>0, <1>2, <1>3, FillPricesTyped DEF Fill, Sides
<1>5. fill.order = i /\ fill.side = "sell" /\ fill.lot = l
  OBVIOUS
<1> HIDE DEF fill
<1>6. /\ OrdersFillOnce'
      /\ DOMAIN fills = 1 .. Len(fills)
      /\ DOMAIN fills' = 1 .. new
      /\ fills'[new] = fill
      /\ \A f \in DOMAIN fills : fills'[f] = fills[f] /\ fills[f].order # i
      /\ \A j \in DOMAIN orders : orders'[j].sku = orders[j].sku
  BY <1>1, <1>2, <1>4, <1>5, FillHistory
<1>7. /\ DOMAIN lots' = DOMAIN lots
      /\ lots'[l].state = "sold"
      /\ \A m \in DOMAIN lots : /\ lots'[m].sku = lots[m].sku /\ lots'[m].fill = lots[m].fill
                                /\ m # l => lots'[m] = lots[m]
  <2>1. /\ DOMAIN lots' = DOMAIN lots
        /\ lots'[l] = [lots[l] EXCEPT !.state = "sold"]
        /\ \A m \in DOMAIN lots : m # l => lots'[m] = lots[m]
    BY <1>0, <1>1, MoveTyped
  <2>2. lots'[l].state = "sold" /\ lots'[l].sku = lots[l].sku /\ lots'[l].fill = lots[l].fill
    BY <1>3, <2>1 DEF Lot
  <2> QED
    BY <2>1, <2>2
<1>8. \A f \in DOMAIN fills : /\ fills[f].lot \in DOMAIN lots
                              /\ fills[f].order \in DOMAIN orders
                              /\ fills[f].side # "buy" => fills[f].lot # l
  BY <1>0, <1>1 DEF LotsSoldOnce, OrdersFillOnce
<1>9. ASSUME NEW f \in DOMAIN fills'
       PROVE  /\ fills'[f].lot \in DOMAIN lots'
              /\ IF fills'[f].side = "buy"
                 THEN lots'[fills'[f].lot].fill = f
                 ELSE lots'[fills'[f].lot].state = "sold"
              /\ lots'[fills'[f].lot].sku = orders'[fills'[f].order].sku
  <2>1. CASE f = new
    BY <1>1, <1>2, <1>5, <1>6, <1>7, <2>1
  <2>2. CASE f # new
    <3>1. f \in DOMAIN fills /\ fills'[f] = fills[f]
      BY <1>3, <1>6, <2>2
    <3> DEFINE m == fills[f].lot
    <3>2. /\ m \in DOMAIN lots
          /\ fills[f].order \in DOMAIN orders
          /\ fills[f].side # "buy" => m # l
          /\ IF fills[f].side = "buy" THEN lots[m].fill = f ELSE lots[m].state = "sold"
          /\ lots[m].sku = orders[fills[f].order].sku
      BY <1>0, <1>8, <3>1 DEF LotsSoldOnce
    <3> HIDE DEF m
    <3>3. /\ lots'[m].sku = lots[m].sku /\ lots'[m].fill = lots[m].fill
          /\ m # l => lots'[m] = lots[m]
      BY <1>7, <3>2
    <3> QED
      BY <1>6, <1>7, <3>1, <3>2, <3>3 DEF m
  <2> QED
    BY <2>1, <2>2
<1>10. ASSUME NEW f \in DOMAIN fills', NEW g \in DOMAIN fills',
              fills'[f].side = fills'[g].side, fills'[f].lot = fills'[g].lot
       PROVE  f = g
  <2>1. \A h \in DOMAIN fills' :
          IF h \in DOMAIN fills THEN fills'[h] = fills[h]
                                ELSE h = new /\ fills'[h] = fill
    BY <1>3, <1>6
  <2>2. CASE f \in DOMAIN fills /\ g \in DOMAIN fills
    <3>1. fills'[f] = fills[f] /\ fills'[g] = fills[g]
      BY <2>1, <2>2
    <3>2. fills[f].side = fills[g].side /\ fills[f].lot = fills[g].lot
      BY <1>10, <3>1
    <3> QED
      BY <1>0, <2>2, <3>2 DEF LotsSoldOnce
  <2>3. ASSUME NEW h \in DOMAIN fills
        PROVE  ~(fills[h].side = fill.side /\ fills[h].lot = fill.lot)
    BY <1>5, <1>8
  <2> QED
    BY <1>10, <2>1, <2>2, <2>3
<1>11. ASSUME NEW m \in DOMAIN lots'
       PROVE  /\ lots'[m].fill \in DOMAIN fills'
              /\ fills'[lots'[m].fill].side = "buy" /\ fills'[lots'[m].fill].lot = m
  <2>1. m \in DOMAIN lots /\ lots'[m].fill = lots[m].fill
    BY <1>7
  <2>2. lots[m].fill \in DOMAIN fills /\ fills[lots[m].fill].side = "buy"
        /\ fills[lots[m].fill].lot = m
    BY <1>0, <2>1 DEF LotsSoldOnce
  <2> QED
    BY <1>3, <1>6, <2>1, <2>2
<1>12. LotsSoldOnce'
  BY <1>9, <1>10, <1>11 DEF LotsSoldOnce
<1> QED
  BY <1>6, <1>12 DEF HistoryInv

\* A step of the loop on fills and lots.
LEMMA LotsStep ==
  ASSUME IInv, Next
  PROVE  \/ Load
         \/ UNCHANGED <<fills, lots>>
         \/ \E i \in todo : FillBuy(i)
         \/ \E i \in todo, l \in DOMAIN lots : FillSell(i, l)
         \/ /\ UNCHANGED <<orders, fills>>
            /\ DOMAIN lots' = DOMAIN lots
            /\ \A l \in DOMAIN lots :
                 /\ lots'[l].sku = lots[l].sku /\ lots'[l].fill = lots[l].fill
                 /\ lots[l].state = "sold" => lots'[l].state = "sold"
<1> USE DEF bookVars
<1> DEFINE LotsMove == /\ UNCHANGED <<orders, fills>>
                       /\ DOMAIN lots' = DOMAIN lots
                       /\ \A l \in DOMAIN lots :
                            /\ lots'[l].sku = lots[l].sku /\ lots'[l].fill = lots[l].fill
                            /\ lots[l].state = "sold" => lots'[l].state = "sold"
<1>0. lots \in Seq(Lot)
  BY DEF IInv, Typed, TypeOK
<1>1. ASSUME NEW l \in DOMAIN lots, NEW state \in LotStates,
             lots[l].state # "sold", lots' = [lots EXCEPT ![l].state = state],
             UNCHANGED <<orders, fills>>
      PROVE  LotsMove
  <2>1. /\ DOMAIN lots' = DOMAIN lots
        /\ lots'[l] = [lots[l] EXCEPT !.state = state]
        /\ \A m \in DOMAIN lots : m # l => lots'[m] = lots[m]
    BY <1>0, <1>1, MoveTyped
  <2>2. lots'[l].sku = lots[l].sku /\ lots'[l].fill = lots[l].fill
    <3>1. lots[l] \in Lot
      BY <1>0, Indexes
    <3> QED
      BY <2>1, <3>1 DEF Lot
  <2> QED
    BY <1>1, <2>1, <2>2
<1>2. CASE Settle
  <2>1. /\ DOMAIN lots' = DOMAIN lots
        /\ \A l \in DOMAIN lots :
             \/ lots'[l] = lots[l]
             \/ lots[l].state = "purchased" /\ lots'[l] = [lots[l] EXCEPT !.state = "available"]
    BY <1>2 DEF Settle
  <2>2. \A l \in DOMAIN lots : lots[l] \in Lot
    BY <1>0, Indexes
  <2>3. UNCHANGED <<orders, fills>>
    BY <1>2 DEF Settle
  <2>4. LotsMove
    BY <2>1, <2>2, <2>3 DEF Lot
  <2> QED
    BY <2>4
<1>3. CASE CancelAsk
  <2>1. /\ ask.lot \in DOMAIN lots /\ lots[ask.lot].state # "sold"
        /\ lots' = [lots EXCEPT ![ask.lot].state = "available"]
        /\ UNCHANGED <<orders, fills>>
    BY <1>3 DEF CancelAsk, GateAsk, IInv, Typed, AskLotKnown
  <2> QED
    BY <1>1, <2>1 DEF LotStates
<1>4. ASSUME NEW l \in DOMAIN lots, PlaceAsk(l)
      PROVE  LotsMove
  <2>1. /\ lots[l].state # "sold"
        /\ lots' = [lots EXCEPT ![l].state = "reserved_for_sale"]
        /\ UNCHANGED <<orders, fills>>
    BY <1>4 DEF PlaceAsk, GateAsk, LotsIn
  <2> QED
    BY <1>1, <2>1 DEF LotStates
<1> HIDE DEF LotsMove
<1>5. Command => Load \/ UNCHANGED <<fills, lots>>
  BY CommandsLeave
<1>6. MatchStep => \/ UNCHANGED <<fills, lots>> \/ Settle
                   \/ \E i \in todo : FillBuy(i)
                   \/ \E i \in todo, l \in DOMAIN lots : FillSell(i, l)
  BY DEF MatchStep, LeaveOpen, MatchRaises
<1>7. DecideStep \/ SubmitStep => UNCHANGED <<fills, lots>>
  BY DEF DecideStep, DecideBase, DecideCancelAll, DecideNoOp, DecidePause, InferenceRaises,
         DecideModelQuote, OnMarket, SubmitStep, SubmitOrder, SubmitCancel, FinishEvent,
         FallbackAuditRaises, StepAuditRaises
<1>8. ReconcileStep => UNCHANGED <<fills, lots>> \/ CancelAsk \/ \E l \in DOMAIN lots : PlaceAsk(l)
  BY DEF ReconcileStep, PlaceBid, CancelBid, ReplaceBid, KeepBid, CancelAskRaises,
         ReplaceAsk, KeepAsk, GateBid, GateAsk
<1> QED
  BY <1>2, <1>3, <1>4, <1>5, <1>6, <1>7, <1>8 DEF Next, LotsMove

LEMMA HistoryStep == IInv /\ HistoryInv /\ [Next]_vars => HistoryInv'
<1>1. ASSUME IInv, HistoryInv, Load
      PROVE  HistoryInv'
  BY <1>1, EmptySeq DEF Load, HistoryInv, OrdersFillOnce, LotsSoldOnce
<1>2. ASSUME IInv, HistoryInv, Next
      PROVE  HistoryInv'
  BY <1>1, <1>2, LotsStep, ClosedStep, HistoryOfOrders, HistoryOfLots, BuyHistory,
     SellHistory
<1>3. ASSUME HistoryInv, UNCHANGED vars
      PROVE  HistoryInv'
  BY <1>3 DEF vars, bookVars, HistoryInv, OrdersFillOnce, LotsSoldOnce
<1> QED
  BY <1>2, <1>3

LEMMA HistoryInvariance == Spec => []HistoryInv
<1>1. Init => HistoryInv
  BY EmptySeq DEF Init, HistoryInv, OrdersFillOnce, LotsSoldOnce
<1> QED
  BY <1>1, HistoryStep, Invariance, PTL DEF Spec

\* Fills and filled orders correspond one to one: no order fills twice.
THEOREM NoDuplicateFill == Spec => []OrdersFillOnce
<1>1. HistoryInv => OrdersFillOnce
  BY DEF HistoryInv
<1> QED
  BY <1>1, HistoryInvariance, PTL

\* Every lot was brought in by its own buy fill and leaves by at most one sell
\* fill, which sold a lot of the order's product.
THEOREM NoDoubleSale == Spec => []LotsSoldOnce
<1>1. HistoryInv => LotsSoldOnce
  BY DEF HistoryInv
<1> QED
  BY <1>1, HistoryInvariance, PTL

-----------------------------------------------------------------------------
(* The accounts of the book *)

\* No fill of this step raises out of the match loop.
NoMatchRaises == ~\E i \in todo : MatchRaises(i)

\* This step does not find the lot of a cancelled ask without its reservation.
NoCancelRaises == ~CancelAskRaises

\* No accepted intent is lost in this step because the audit row of its event's
\* fallback cannot be stored.
NoIntentDropped == ~(FallbackAuditRaises /\ outbox # <<>>)

\* What the quote engine accepts in an event is submitted: reconciliation does
\* not raise half-way, and nothing raises between it and the first submit.
IntentsReachBook == NoCancelRaises /\ NoIntentDropped

\* No ask is filled in this step.
NoSale == ~\E i \in todo, l \in DOMAIN lots : FillSell(i, l)

-----------------------------------------------------------------------------
(* The outbox *)

\* The accepted intents wait in the order bid, ask, at most one of each, and
\* carry the capital the quote engine had after both.
OutboxInv ==
  /\ stage \in {"idle", "match", "decide", "reconcileBid"} => outbox = <<>>
  /\ stage = "reconcileAsk" => \A n \in DOMAIN outbox : outbox[n].intent.side = "buy"
  /\ \A n \in DOMAIN outbox : outbox[n].intent.side = "buy" => n = 1
  /\ \A m, n \in DOMAIN outbox :
       outbox[m].intent.side = outbox[n].intent.side => m = n
  /\ \A n \in DOMAIN outbox : outbox[n].capital = quoteCapital

\* An empty outbox is in order.
LEMMA EmptyOutbox ==
  ASSUME outbox' = <<>>
  PROVE  OutboxInv'
BY EmptySeq DEF OutboxInv

\* What the steps before the reconciliation and the commands leave.
LEMMA OutboxStaysEmpty ==
  ASSUME Typed, OutboxInv, Command \/ MatchStep \/ DecideStep
  PROVE  outbox' = <<>>
<1> USE DEF bookVars, quoteVars, handlerVars
<1>1. CASE Command
  <2>1. CASE Load \/ Enable \/ Disable \/ \E m \in Modes : SetMode(m)
    BY <2>1 DEF Load, Enable, Disable, SetMode, Idle, OutboxInv
  <2>2. CASE \E n \in 1 .. MaxBatch : \E events \in [1 .. n -> Events] : Tick(events)
    BY <2>2 DEF Tick, Idle, OutboxInv
  <2>3. CASE \E side \in CancelSides, sku \in Skus, form \in CancelForms :
               OperatorCancel(side, sku, form)
    BY <2>3 DEF OperatorCancel, Idle, OutboxInv
  <2> QED BY <1>1, <2>1, <2>2, <2>3 DEF Command
<1>2. CASE MatchStep
  BY <1>2 DEF MatchStep, LeaveOpen, FillBuy, Buyable, BookBuy, MatchRaises, EndHandler, FillSell,
              BookSell, Matching, Settle, OutboxInv
<1>3. CASE DecideStep
  BY <1>3 DEF DecideStep, DecideBase, DecideCancelAll, DecideNoOp, DecidePause, InferenceRaises,
              DecideModelQuote, OnMarket, EndHandler, OutboxInv
<1> QED BY <1>1, <1>2, <1>3

\* The first intent leaves, the others keep their capital and their sides.
LEMMA HeadLeaves ==
  ASSUME Typed, OutboxInv, outbox # <<>>, outbox' = Tail(outbox)
  PROVE  /\ Head(outbox) = outbox[1] /\ 1 \in DOMAIN outbox
         /\ \A n \in DOMAIN outbox' :
              /\ n + 1 \in DOMAIN outbox /\ n \in Nat /\ n # 0
              /\ outbox'[n] = outbox[n + 1]
         /\ \A n \in DOMAIN outbox : n = 1 \/ (n - 1 \in DOMAIN outbox' /\ outbox'[n - 1] = outbox[n])
<1>1. outbox \in Seq(Decision)
  BY DEF Typed, TypeOK
<1> QED BY <1>1

\* A decision on the bid is the first in the outbox.
LEMMA OutboxOfGateBid ==
  ASSUME Typed, OutboxInv, stage = "reconcileBid", NEW intent, intent.side = "buy",
         NEW quote, GateBid(intent, quote)
  PROVE  OutboxInv'
<1>1. outbox = <<>>
  BY DEF OutboxInv
<1>2. CASE outbox' = outbox
  BY <1>1, <1>2, EmptyOutbox
<1>3. CASE outbox' # outbox
  <2> DEFINE d == [intent |-> intent, capital |-> CapitalAfter(intent, quoteCapital)]
  <2>1. /\ outbox' = Append(<<>>, d) /\ stage' = "reconcileAsk"
        /\ quoteCapital' = CapitalAfter(intent, quoteCapital)
    BY <1>1, <1>3 DEF GateBid
  <2>2. d.intent.side = "buy" /\ d.capital = quoteCapital'
    BY <2>1
  <2> HIDE DEF d
  <2>3. DOMAIN outbox' = {1} /\ outbox'[1] = d
    BY <2>1
  <2> QED BY <2>1, <2>2, <2>3 DEF OutboxInv
<1> QED BY <1>2, <1>3

\* A decision on the ask comes behind the bid's.
LEMMA OutboxOfGateAsk ==
  ASSUME Typed, OutboxInv, stage = "reconcileAsk", NEW intent, intent.side = "sell",
         NEW quote, GateAsk(intent, quote)
  PROVE  OutboxInv'
<1> DEFINE d == [intent |-> intent, capital |-> quoteCapital]
           S == {outbox[n] : n \in DOMAIN outbox} \cup {d}
<1>1. /\ outbox' = Append(outbox, d) /\ stage' = "submit"
      /\ quoteCapital' = quoteCapital
  BY DEF GateAsk
<1>2. d.intent.side = "sell" /\ d.capital = quoteCapital
  OBVIOUS
<1>3. outbox \in Seq(S) /\ d \in S
  <2>1. outbox \in Seq(Decision)
    BY DEF Typed, TypeOK
  <2> HIDE DEF d
  <2> QED BY <2>1
<1> HIDE DEF d, S
<1>4. /\ DOMAIN outbox' = 1 .. Len(outbox) + 1 /\ Len(outbox) \in Nat
      /\ DOMAIN outbox = 1 .. Len(outbox)
      /\ \A n \in DOMAIN outbox : outbox'[n] = outbox[n]
      /\ outbox'[Len(outbox) + 1] = d
  BY <1>1, <1>3
<1>5. \A n \in DOMAIN outbox : outbox[n].intent.side = "buy" /\ n = 1
  BY DEF OutboxInv
<1>6. \A n \in DOMAIN outbox' : \/ n \in DOMAIN outbox /\ outbox'[n] = outbox[n]
                                \/ n = Len(outbox) + 1 /\ outbox'[n] = d
  BY <1>4
<1> QED BY <1>1, <1>2, <1>5, <1>6 DEF OutboxInv

\* Every step keeps the outbox in order.
LEMMA OutboxStep ==
  ASSUME Typed, OutboxInv, [Next]_vars
  PROVE  OutboxInv'
<1> USE DEF bookVars, quoteVars
<1>1. CASE Command \/ MatchStep \/ DecideStep
  BY <1>1, OutboxStaysEmpty, EmptyOutbox
<1>2. CASE ReconcileStep
  <2>1. CASE PlaceBid \/ CancelBid \/ \E aged \in BOOLEAN : ReplaceBid(aged)
    BY <2>1, OutboxOfGateBid DEF PlaceBid, CancelBid, ReplaceBid, QuoteIntent
  <2>2. CASE \/ CancelAsk \/ \E aged \in BOOLEAN : ReplaceAsk(aged)
             \/ \E l \in DOMAIN lots : PlaceAsk(l)
    BY <2>2, OutboxOfGateAsk DEF CancelAsk, ReplaceAsk, PlaceAsk, QuoteIntent
  <2>3. CASE CancelAskRaises
    BY <2>3, EmptyOutbox DEF CancelAskRaises, EndHandler
  <2>4. ASSUME NEW aged \in BOOLEAN, KeepBid(aged)
        PROVE  OutboxInv'
    BY <2>4, EmptyOutbox DEF KeepBid, OutboxInv
  <2>5. ASSUME NEW aged \in BOOLEAN, KeepAsk(aged)
        PROVE  OutboxInv'
    BY <2>5 DEF KeepAsk, OutboxInv
  <2> QED BY <1>2, <2>1, <2>2, <2>3, <2>4, <2>5 DEF ReconcileStep
<1>3. CASE SubmitOrder \/ SubmitCancel
  <2>1. /\ outbox # <<>> /\ outbox' = Tail(outbox) /\ stage = "submit"
        /\ stage' = stage /\ quoteCapital' = quoteCapital
    BY <1>3 DEF SubmitOrder, SubmitCancel
  <2>2. \A n \in DOMAIN outbox' : /\ n + 1 \in DOMAIN outbox /\ n \in Nat /\ n # 0
                                  /\ outbox'[n] = outbox[n + 1]
    BY <2>1, HeadLeaves
  <2>3. \A n \in DOMAIN outbox' : outbox'[n].intent.side # "buy"
    BY <2>2 DEF OutboxInv
  <2>4. \A m, n \in DOMAIN outbox' :
          outbox'[m].intent.side = outbox'[n].intent.side => m = n
    BY <2>2 DEF OutboxInv
  <2>5. \A n \in DOMAIN outbox' : outbox'[n].capital = quoteCapital'
    BY <2>1, <2>2 DEF OutboxInv
  <2> QED BY <2>1, <2>3, <2>4, <2>5 DEF OutboxInv
<1>4. CASE FinishEvent
  BY <1>4, EmptyOutbox DEF FinishEvent
<1>5. CASE FallbackAuditRaises \/ StepAuditRaises
  BY <1>5, EmptyOutbox DEF FallbackAuditRaises, StepAuditRaises, EndHandler
<1>6. CASE UNCHANGED vars
  BY <1>6 DEF OutboxInv, vars, handlerVars
<1> QED BY <1>1, <1>2, <1>3, <1>4, <1>5, <1>6 DEF Next, SubmitStep

LEMMA OutboxInOrder == Spec => []OutboxInv
<1>1. Init => OutboxInv
  BY EmptySeq DEF Init, OutboxInv
<1>2. IInv /\ OutboxInv /\ [Next]_vars => OutboxInv'
  BY OutboxStep DEF IInv
<1> QED BY <1>1, <1>2, Invariance, PTL DEF Spec

-----------------------------------------------------------------------------
(* The cash *)

\* While no fill is being matched both copies hold the same cash, and it is
\* what the fills have left of the initial cash.
CashInv ==
  /\ stage # "match" => quoteCapital.cash = capital.cash
  /\ CashBalances

\* The amounts of the fills are integers, and so are their totals.
LEMMA TotalTyped ==
  ASSUME TypeOK, NEW side
  PROVE  Total(side) \in Int
<1> DEFINE g == [f \in DOMAIN fills |-> IF fills[f].side = side THEN fills[f].amount ELSE 0]
<1>1. /\ DOMAIN fills = 1 .. Len(fills) /\ Len(fills) \in Nat
      /\ \A f \in DOMAIN fills : fills[f] \in Fill
  BY Indexes DEF TypeOK
<1>2. \A f \in DOMAIN fills : g[f] \in Int
  BY <1>1 DEF Fill
<1> HIDE DEF g
<1>3. SumTo(g, Len(fills)) \in Int
  BY <1>1, <1>2, SumType
<1> QED BY <1>3 DEF Total, g

\* A fill that is booked adds its amount to the total of its side.
LEMMA TotalBooked ==
  ASSUME TypeOK, NEW side, NEW fill \in Fill, fills' = Append(fills, fill)
  PROVE  Total(side)' = Total(side) + (IF fill.side = side THEN fill.amount ELSE 0)
<1> DEFINE n == Len(fills)
           Amount(fs) == [f \in DOMAIN fs |-> IF fs[f].side = side THEN fs[f].amount ELSE 0]
           new == IF fill.side = side THEN fill.amount ELSE 0
<1>1. fills \in Seq(Fill) /\ n \in Nat /\ DOMAIN fills = 1 .. n
  BY Indexes DEF TypeOK
<1>2. /\ DOMAIN fills' = 1 .. (n + 1) /\ Len(fills') = n + 1
      /\ \A f \in 1 .. n : fills'[f] = fills[f]
      /\ fills'[n + 1] = fill
  BY <1>1, AppendEntry
<1>3. \A f \in 1 .. n : Amount(fills')[f] = Amount(fills)[f]
  BY <1>1, <1>2
<1>4. Amount(fills')[n + 1] = new
  BY <1>1, <1>2
<1>5. Total(side) = SumTo(Amount(fills), n) /\ Total(side)' = SumTo(Amount(fills'), n + 1)
  BY <1>2 DEF Total
<1> HIDE DEF Amount, new, n
<1>6. SumTo(Amount(fills'), n + 1) = SumTo(Amount(fills), n) + Amount(fills')[n + 1]
  BY <1>1, <1>3, SumAppend
<1> QED BY <1>4, <1>5, <1>6 DEF new

\* Without a fill the totals stay.
LEMMA TotalsStay ==
  ASSUME fills' = fills
  PROVE  Spent' = Spent /\ Earned' = Earned
BY DEF Spent, Earned, Total

\* The gate does not touch the cash.
LEMMA GateKeepsCash ==
  ASSUME NEW intent, NEW cap \in Capital
  PROVE  CapitalAfter(intent, cap).cash = cap.cash
BY DEF CapitalAfter, Capital

\* A fill moves the execution engine's cash by what it is worth.
LEMMA CashOfFills ==
  ASSUME Typed, CashInv, NEW i \in todo,
         FillBuy(i) \/ \E l \in DOMAIN lots : FillSell(i, l)
  PROVE  CashInv'
<1>0. TypeOK /\ capital \in Capital /\ capital.cash \in Int /\ InitialCash \in Int
  BY PolicyAssumption DEF Typed, TypeOK, Capital
<1>1. Spent \in Int /\ Earned \in Int
  BY <1>0, TotalTyped DEF Spent, Earned
<1>2. Matching(i) /\ stage' = stage /\ stage = "match"
  BY DEF FillBuy, Buyable, BookBuy, FillSell, BookSell, Matching
<1>3. /\ batch # <<>> /\ orders[i] \in Order /\ i \in Nat
      /\ PurchaseCost(orders[i]) \in Int /\ SaleProceeds(orders[i]) \in Int
  BY <1>0, <1>2, MatchingOrder, FillPricesTyped
<1>4. CASE FillBuy(i)
  <2> DEFINE fill == [order |-> i, side |-> "buy", amount |-> PurchaseCost(orders[i]),
                      lot |-> Len(lots) + 1]
  <2>1. fill \in Fill
    BY <1>0, <1>3, Indexes DEF Fill, Sides, TypeOK
  <2>2. fills' = Append(fills, fill) /\ capital'.cash = capital.cash - PurchaseCost(orders[i])
    BY <1>4 DEF FillBuy, BookBuy, AfterBuy
  <2>3. /\ Spent' = Spent + PurchaseCost(orders[i])
        /\ Earned' = Earned + 0
    BY <1>0, <2>1, <2>2, TotalBooked DEF Spent, Earned
  <2> QED BY <1>0, <1>1, <1>2, <1>3, <2>2, <2>3 DEF CashInv, CashBalances
<1>5. ASSUME NEW l \in DOMAIN lots, FillSell(i, l)
      PROVE  CashInv'
  <2> DEFINE fill == [order |-> i, side |-> "sell", amount |-> SaleProceeds(orders[i]),
                      lot |-> l]
  <2>1. fill \in Fill
    BY <1>0, <1>3, Indexes DEF Fill, Sides, TypeOK
  <2>2. fills' = Append(fills, fill) /\ capital'.cash = capital.cash + SaleProceeds(orders[i])
    BY <1>0, <1>5 DEF FillSell, BookSell, Capital
  <2>3. /\ Spent' = Spent + 0
        /\ Earned' = Earned + SaleProceeds(orders[i])
    BY <1>0, <2>1, <2>2, TotalBooked DEF Spent, Earned
  <2> QED BY <1>0, <1>1, <1>2, <1>3, <2>2, <2>3 DEF CashInv, CashBalances
<1> QED BY <1>4, <1>5

\* Every other step keeps the cash, or loads the initial one and no fill.
LEMMA CashStep ==
  ASSUME Typed, OutboxInv, CashInv, [Next]_vars, [NoMatchRaises]_vars
  PROVE  CashInv'
<1> USE DEF bookVars, quoteVars, handlerVars
<1>0. capital \in Capital /\ quoteCapital \in Capital
  BY DEF Typed, TypeOK
<1>1. ASSUME fills' = fills, capital'.cash = capital.cash,
             stage' = "match" \/ quoteCapital'.cash = capital'.cash
      PROVE  CashInv'
  BY <1>1, TotalsStay DEF CashInv, CashBalances
<1>2. CASE Load
  <2>1. /\ capital'.cash = InitialCash /\ quoteCapital'.cash = InitialCash
        /\ fills' = <<>> /\ Len(fills') = 0
    BY <1>2 DEF Load, InitialCapital
  <2>2. Spent' = 0 /\ Earned' = 0
    BY <2>1, RunningDef DEF Spent, Earned, Total
  <2> QED BY <2>1, <2>2, PolicyAssumption DEF CashInv, CashBalances
<1>3. CASE Enable \/ Disable \/ \E m \in Modes : SetMode(m)
  BY <1>1, <1>3 DEF Enable, Disable, SetMode, Idle, CashInv
<1>4. ASSUME NEW n \in 1 .. MaxBatch, NEW events \in [1 .. n -> Events], Tick(events)
      PROVE  CashInv'
  BY <1>1, <1>4 DEF Tick
<1>5. ASSUME NEW side \in CancelSides, NEW sku \in Skus, NEW form \in CancelForms,
             OperatorCancel(side, sku, form)
      PROVE  CashInv'
  BY <1>0, <1>1, <1>5, GateKeepsCash DEF OperatorCancel
<1>6. ASSUME NEW i \in todo, FillBuy(i) \/ \E l \in DOMAIN lots : FillSell(i, l)
      PROVE  CashInv'
  BY <1>6, CashOfFills
<1>7. ASSUME NEW i \in todo, LeaveOpen(i)
      PROVE  CashInv'
  BY <1>1, <1>7 DEF LeaveOpen, Matching
<1>8. ASSUME NEW i \in todo, MatchRaises(i)
      PROVE  CashInv'
  <2>1. UNCHANGED vars
    BY <1>8 DEF NoMatchRaises
  <2> QED BY <2>1, <1>8 DEF MatchRaises, Matching, EndHandler, vars
<1>9. CASE Settle
  BY <1>1, <1>9 DEF Settle
<1>10. CASE DecideStep
  BY <1>1, <1>10 DEF DecideStep, DecideBase, DecideCancelAll, DecideNoOp, DecidePause, InferenceRaises,
                     DecideModelQuote, OnMarket, EndHandler, CashInv
<1>11. ASSUME NEW intent, NEW quote, stage = "reconcileBid", GateBid(intent, quote)
       PROVE  CashInv'
  BY <1>0, <1>1, <1>11, GateKeepsCash DEF GateBid, CashInv
<1>12. ASSUME NEW intent, NEW quote, stage = "reconcileAsk", GateAsk(intent, quote)
       PROVE  CashInv'
  BY <1>1, <1>12 DEF GateAsk, CashInv
<1>13. CASE ReconcileStep
  <2>1. CASE PlaceBid \/ CancelBid \/ \E aged \in BOOLEAN : ReplaceBid(aged)
    BY <1>11, <2>1 DEF PlaceBid, CancelBid, ReplaceBid
  <2>2. CASE \/ CancelAsk \/ \E aged \in BOOLEAN : ReplaceAsk(aged)
             \/ \E l \in DOMAIN lots : PlaceAsk(l)
    BY <1>12, <2>2 DEF CancelAsk, ReplaceAsk, PlaceAsk
  <2>3. CASE CancelAskRaises \/ \E aged \in BOOLEAN : KeepBid(aged) \/ KeepAsk(aged)
    BY <1>1, <2>3 DEF CancelAskRaises, KeepBid, KeepAsk, EndHandler, CashInv
  <2> QED BY <1>13, <2>1, <2>2, <2>3 DEF ReconcileStep
<1>14. CASE SubmitOrder \/ SubmitCancel
  <2>1. Head(outbox) = outbox[1] /\ 1 \in DOMAIN outbox
    BY <1>14, HeadTail DEF Typed, TypeOK, SubmitOrder, SubmitCancel
  <2>2. capital' = quoteCapital
    BY <1>14, <2>1 DEF SubmitOrder, SubmitCancel, OutboxInv
  <2> QED BY <1>1, <1>14, <2>2 DEF SubmitOrder, SubmitCancel, CashInv
<1>15. CASE FinishEvent \/ FallbackAuditRaises \/ StepAuditRaises
  BY <1>1, <1>15 DEF FinishEvent, FallbackAuditRaises, StepAuditRaises, CashInv
<1>16. CASE UNCHANGED vars
  BY <1>1, <1>16 DEF vars, CashInv
<1> QED
  BY <1>2, <1>3, <1>4, <1>5, <1>6, <1>7, <1>8, <1>9, <1>10, <1>13, <1>14, <1>15, <1>16
  DEF Next, Command, MatchStep, SubmitStep

\* No command loses or invents money, for any products, modes and cancels, as
\* long as no fill raises: a fill that raises leaves the quote engine's capital
\* stale, and the next intent carries the old cash back to the book.
THEOREM NoMoneyLost == Spec /\ [][NoMatchRaises]_vars => []CashBalances
<1>1. Init => CashInv
  <2>1. Init => Len(fills) = 0 /\ quoteCapital = capital /\ capital.cash = InitialCash
    BY DEF Init, InitialCapital
  <2>2. Len(fills) = 0 => Spent = 0 /\ Earned = 0
    BY RunningDef DEF Spent, Earned, Total
  <2> QED BY <2>1, <2>2, PolicyAssumption DEF CashInv, CashBalances
<1>2. IInv /\ OutboxInv /\ CashInv /\ [Next]_vars /\ [NoMatchRaises]_vars => CashInv'
  BY CashStep DEF IInv
<1>3. CashInv => CashBalances
  BY DEF CashInv
<1> QED BY <1>1, <1>2, <1>3, Invariance, OutboxInOrder, PTL DEF Spec
-----------------------------------------------------------------------------
(* A disabled strategy *)

\* What the quote engine has reserved beyond the book's reserve, it can release
\* again by cancelling its active bid.
Releasable ==
  \/ quoteCapital.reserved <= capital.reserved
  \/ /\ bid # None
     /\ bid.price \in 0 .. quoteCapital.reserved
     /\ quoteCapital.reserved - bid.price <= capital.reserved

\* Disabled, the engine desires nothing, waits with cancels alone, and has
\* reserved no more than the book once the bid is reconciled.
DisabledInv ==
  ~enabled =>
    /\ stage \in {"reconcileBid", "reconcileAsk"} => desired = NoDesire
    /\ \A n \in DOMAIN outbox : outbox[n].intent.kind = "cancel"
    /\ stage = "reconcileAsk" \/ outbox # <<>> =>
         quoteCapital.reserved <= capital.reserved

RiskInv ==
  /\ stage = "decide" => quoteCapital.reserved = capital.reserved
  /\ \/ stage \in {"idle", "reconcileBid", "reconcileAsk"}
     \/ stage = "submit" /\ fallback
     => Releasable
  /\ DisabledInv

\* The reserves and the prices of the quotes are integers.
LEMMA ReservesTyped ==
  ASSUME TypeOK
  PROVE  /\ capital.reserved \in Int /\ quoteCapital.reserved \in Int
         /\ bid # None => bid.price \in Int
         /\ ask # None => ask.price \in Int
BY DEF TypeOK, Capital, Quote

\* The engine agrees with the book: nothing is owed.
LEMMA NothingOwed ==
  ASSUME TypeOK', outbox' = <<>>, quoteCapital'.reserved = capital'.reserved,
         stage' \notin {"reconcileBid", "reconcileAsk"} \/ desired' = NoDesire \/ enabled'
  PROVE  RiskInv'
<1>1. capital'.reserved \in Int
  BY DEF TypeOK, Capital
<1> QED BY <1>1, EmptySeq DEF RiskInv, Releasable, DisabledInv

\* The gate's answer to an intent on the bid: a bid it accepts can be released
\* again, and a cancel leaves nothing to release.
LEMMA RiskOfGateBid ==
  ASSUME Typed, OutboxInv, RiskInv, stage = "reconcileBid",
         NEW intent, intent.side = "buy", NEW quote, GateBid(intent, quote),
         \/ /\ enabled
            /\ quote # None /\ intent.kind # "cancel"
            /\ quote.price = intent.principal /\ intent.principal \in Int
         \/ quote = None /\ intent.kind = "cancel" /\ intent.principal = 0,
         intent.release = IF bid = None THEN 0 ELSE bid.price
  PROVE  RiskInv'
<1>1. /\ capital.reserved \in Int /\ quoteCapital.reserved \in Int /\ quoteCapital \in Capital
      /\ bid # None => bid.price \in Int
  BY ReservesTyped DEF Typed, TypeOK
<1>2. /\ outbox = <<>> /\ stage' = "reconcileAsk" /\ capital' = capital
      /\ desired' = desired /\ enabled' = enabled /\ Releasable
      /\ ~enabled => desired = NoDesire
  BY DEF GateBid, OutboxInv, RiskInv, DisabledInv, bookVars
<1>3. CASE Accepts(intent, quoteCapital)
  <2>1. /\ quoteCapital' = CapitalAfter(intent, quoteCapital) /\ bid' = quote
        /\ outbox' = Append(<<>>, [intent |-> intent,
                                   capital |-> CapitalAfter(intent, quoteCapital)])
    BY <1>2, <1>3 DEF GateBid
  <2>2. quoteCapital'.reserved = (quoteCapital.reserved - intent.release) + intent.principal
    BY <1>1, <2>1 DEF CapitalAfter, Capital
  <2>3. /\ intent.release \in 0 .. quoteCapital.reserved
        /\ intent.kind # "cancel" => intent.principal > 0
    BY <1>3 DEF Accepts, BuyFits
  <2>4. intent.release \in Int /\ quoteCapital.reserved - intent.release <= capital.reserved
    BY <1>1, <1>2, <2>3 DEF Releasable
  <2>5. quote = None => quoteCapital'.reserved <= capital'.reserved
    BY <1>1, <1>2, <2>2, <2>3, <2>4
  <2>6. quote # None => /\ bid'.price \in 0 .. quoteCapital'.reserved
                        /\ quoteCapital'.reserved - bid'.price <= capital'.reserved
    BY <1>1, <1>2, <2>1, <2>2, <2>3, <2>4
  <2>7. Releasable'
    BY <2>1, <2>5, <2>6 DEF Releasable
  <2>8. ~enabled => \A n \in DOMAIN outbox' : outbox'[n].intent.kind = "cancel"
    BY <2>1
  <2>9. ~enabled => quoteCapital'.reserved <= capital'.reserved
    BY <2>5
  <2> QED BY <1>2, <2>7, <2>8, <2>9 DEF RiskInv, DisabledInv
<1>4. CASE ~Accepts(intent, quoteCapital)
  <2>1. UNCHANGED <<quoteCapital, bid, outbox>>
    BY <1>4 DEF GateBid
  <2>2. Releasable'
    BY <1>2, <2>1 DEF Releasable
  <2>3. ASSUME ~enabled
        PROVE  quoteCapital.reserved <= capital.reserved
    <3>1. intent.kind = "cancel"
      BY <2>3
    <3>2. intent.release \notin 0 .. quoteCapital.reserved
      BY <1>4, <3>1 DEF Accepts
    <3> QED BY <1>1, <1>2, <3>2 DEF Releasable
  <2> QED BY <1>2, <2>1, <2>2, <2>3, EmptySeq DEF RiskInv, DisabledInv
<1> QED BY <1>3, <1>4

\* The answer to an intent on the ask leaves the reserves alone.
LEMMA RiskOfGateAsk ==
  ASSUME Typed, OutboxInv, RiskInv, stage = "reconcileAsk",
         NEW intent, NEW quote, GateAsk(intent, quote),
         ~enabled => intent.kind = "cancel"
  PROVE  RiskInv'
<1> DEFINE d == [intent |-> intent, capital |-> quoteCapital]
           S == {outbox[n] : n \in DOMAIN outbox} \cup {d}
<1>1. /\ outbox' = Append(outbox, d) /\ stage' = "submit" /\ enabled' = enabled
      /\ quoteCapital' = quoteCapital /\ capital' = capital /\ bid' = bid
  BY DEF GateAsk
<1>2. d.intent = intent
  OBVIOUS
<1>3. outbox \in Seq(S) /\ d \in S
  <2>1. outbox \in Seq(Decision)
    BY DEF Typed, TypeOK
  <2> HIDE DEF d
  <2> QED BY <2>1
<1> HIDE DEF d, S
<1>4. \A n \in DOMAIN outbox' : (n \in DOMAIN outbox /\ outbox'[n] = outbox[n]) \/ outbox'[n] = d
  BY <1>1, <1>3
<1>5. Releasable'
  BY <1>1 DEF RiskInv, Releasable
<1> QED BY <1>1, <1>2, <1>4, <1>5 DEF RiskInv, DisabledInv

\* A submitted intent hands the engine's reserve to the book.
LEMMA RiskOfSubmit ==
  ASSUME Typed, OutboxInv, RiskInv, SubmitOrder \/ SubmitCancel
  PROVE  RiskInv' /\ capital' = quoteCapital /\ (~enabled => ~SubmitOrder)
<1> USE DEF quoteVars
<1>0. quoteCapital.reserved \in Int
  BY ReservesTyped DEF Typed
<1>1. /\ outbox # <<>> /\ outbox' = Tail(outbox) /\ stage = "submit" /\ stage' = stage
      /\ quoteCapital' = quoteCapital /\ enabled' = enabled /\ capital' = Head(outbox).capital
      /\ SubmitOrder => Head(outbox).intent.kind # "cancel"
      /\ fallback' = FALSE
  BY DEF SubmitOrder, SubmitCancel
<1>2. /\ Head(outbox) = outbox[1] /\ 1 \in DOMAIN outbox
      /\ \A n \in DOMAIN outbox' : n + 1 \in DOMAIN outbox /\ outbox'[n] = outbox[n + 1]
  BY <1>1, HeadLeaves
<1>3. capital' = quoteCapital
  BY <1>1, <1>2 DEF OutboxInv
<1>4. ~enabled => \A n \in DOMAIN outbox' : outbox'[n].intent.kind = "cancel"
  BY <1>2 DEF RiskInv, DisabledInv
<1> QED BY <1>0, <1>1, <1>2, <1>3, <1>4 DEF RiskInv, DisabledInv

LEMMA RiskStep ==
  ASSUME Typed, TypeOK', OutboxInv, RiskInv, [Next]_vars, [NoMatchRaises]_vars
  PROVE  RiskInv'
<1> USE DEF bookVars, quoteVars, handlerVars
<1>0. /\ capital.reserved \in Int /\ quoteCapital.reserved \in Int
      /\ bid # None => bid.price \in Int
  BY ReservesTyped DEF Typed
<1>1. CASE Load
  BY <1>1, NothingOwed DEF Load, Idle, OutboxInv
<1>2. CASE Enable \/ \E m \in Modes : SetMode(m)
  BY <1>2, EmptySeq DEF Enable, SetMode, Idle, RiskInv, Releasable, DisabledInv, OutboxInv
<1>3. CASE Disable
  BY <1>3, EmptySeq DEF Disable, Idle, RiskInv, Releasable, DisabledInv, OutboxInv
<1>4. ASSUME NEW n \in 1 .. MaxBatch, NEW events \in [1 .. n -> Events], Tick(events)
      PROVE  RiskInv'
  BY <1>4, EmptySeq DEF Tick, Idle, RiskInv, DisabledInv, OutboxInv
<1>5. ASSUME NEW side \in CancelSides, NEW sku \in Skus, NEW form \in CancelForms,
             OperatorCancel(side, sku, form)
      PROVE  RiskInv'
  BY <1>5, NothingOwed DEF OperatorCancel, Idle, OutboxInv
<1>6. CASE MatchStep
  <2>1. ASSUME stage = "match", stage' = "match"
        PROVE  RiskInv'
    <3>1. outbox' = <<>>
      BY <1>6, OutboxStaysEmpty
    <3> QED BY <2>1, <3>1, EmptySeq DEF RiskInv, DisabledInv
  <2>2. ASSUME NEW i \in todo, MatchRaises(i)
        PROVE  RiskInv'
    <3>1. UNCHANGED vars
      BY <2>2 DEF NoMatchRaises
    <3> QED BY <3>1, <2>2 DEF MatchRaises, Matching, EndHandler, vars
  <2>3. CASE Settle
    BY <2>3, NothingOwed DEF Settle, OutboxInv
  <2>4. ASSUME NEW i \in todo, LeaveOpen(i) \/ FillBuy(i) \/ \E l \in DOMAIN lots : FillSell(i, l)
        PROVE  stage = "match" /\ stage' = "match"
    BY <2>4 DEF LeaveOpen, FillBuy, Buyable, BookBuy, FillSell, BookSell, Matching
  <2> QED BY <1>6, <2>1, <2>2, <2>3, <2>4 DEF MatchStep
<1>7. CASE DecideStep
  <2>1. /\ outbox' = <<>> /\ UNCHANGED <<capital, quoteCapital, enabled>> /\ stage = "decide"
        /\ stage' \notin {"reconcileBid", "reconcileAsk"} \/ desired' = NoDesire \/ enabled'
    BY <1>7 DEF DecideStep, DecideBase, DecideCancelAll, DecideNoOp, DecidePause, InferenceRaises,
                DecideModelQuote, OnMarket, EndHandler, OutboxInv
  <2> QED BY <2>1, NothingOwed DEF RiskInv
<1>8. CASE ReconcileStep
  <2>1. CASE PlaceBid
    <3>1. enabled
      BY <2>1 DEF PlaceBid, RiskInv, DisabledInv, NoDesire
    <3>2. desired.bid \in Int /\ desired.bid # None
      BY <2>1, DesiredPrice DEF PlaceBid
    <3>3. NewQuote(desired.bid, 0) # None
      <4>1. batch # <<>>
        BY <2>1, DesiredPrice DEF PlaceBid
      <4>2. NewQuote(desired.bid, 0) \in Quote
        BY <3>2, <4>1, NewQuoteTyped DEF Typed
      <4> QED BY <4>2, NoneAssumption DEF Quote
    <3>4. NewQuote(desired.bid, 0).price = desired.bid
      BY DEF NewQuote
    <3> QED BY <2>1, <3>1, <3>2, <3>3, <3>4, RiskOfGateBid DEF PlaceBid, QuoteIntent
  <2>2. ASSUME NEW aged \in BOOLEAN, ReplaceBid(aged)
        PROVE  RiskInv'
    <3>1. enabled
      BY <2>2 DEF ReplaceBid, RiskInv, DisabledInv, NoDesire
    <3>2. desired.bid \in Int /\ desired.bid # None
      BY <2>2, DesiredPrice DEF ReplaceBid
    <3>3. NewQuote(desired.bid, 0) # None
      <4>1. batch # <<>>
        BY <2>2, DesiredPrice DEF ReplaceBid
      <4>2. NewQuote(desired.bid, 0) \in Quote
        BY <3>2, <4>1, NewQuoteTyped DEF Typed
      <4> QED BY <4>2, NoneAssumption DEF Quote
    <3>4. NewQuote(desired.bid, 0).price = desired.bid
      BY DEF NewQuote
    <3> QED BY <2>2, <3>1, <3>2, <3>3, <3>4, RiskOfGateBid DEF ReplaceBid, QuoteIntent
  <2>3. CASE CancelBid
    BY <2>3, RiskOfGateBid DEF CancelBid, QuoteIntent
  <2>4. ASSUME NEW aged \in BOOLEAN, KeepBid(aged)
        PROVE  RiskInv'
    BY <2>4, EmptySeq DEF KeepBid, RiskInv, Releasable, DisabledInv, OutboxInv, NoDesire
  <2>5. CASE \/ CancelAsk \/ \E aged \in BOOLEAN : ReplaceAsk(aged)
             \/ \E l \in DOMAIN lots : PlaceAsk(l)
    BY <2>5, RiskOfGateAsk
    DEF CancelAsk, ReplaceAsk, PlaceAsk, QuoteIntent, RiskInv, DisabledInv, NoDesire
  <2>6. CASE CancelAskRaises
    BY <2>6, EmptySeq DEF CancelAskRaises, EndHandler, RiskInv, Releasable, DisabledInv
  <2>7. ASSUME NEW aged \in BOOLEAN, KeepAsk(aged)
        PROVE  RiskInv'
    BY <2>7 DEF KeepAsk, RiskInv, DisabledInv, Releasable
  <2> QED BY <1>8, <2>1, <2>2, <2>3, <2>4, <2>5, <2>6, <2>7 DEF ReconcileStep
<1>9. CASE SubmitOrder \/ SubmitCancel
  BY <1>9, RiskOfSubmit
<1>10. CASE FinishEvent
  BY <1>10, NothingOwed DEF FinishEvent
<1>11. CASE UNCHANGED vars
  BY <1>11 DEF RiskInv, Releasable, DisabledInv, vars
<1>12. CASE FallbackAuditRaises
  BY <1>12, EmptySeq DEF FallbackAuditRaises, EndHandler, RiskInv, Releasable, DisabledInv
<1>13. CASE StepAuditRaises
  BY <1>13, NothingOwed DEF StepAuditRaises, EndHandler
<1> QED
  BY <1>1, <1>2, <1>3, <1>4, <1>5, <1>6, <1>7, <1>8, <1>9, <1>10, <1>11, <1>12, <1>13
  DEF Next, Command, SubmitStep

\* What a step does while the strategy is disabled.
LEMMA DisabledStep ==
  ASSUME IInv, OutboxInv, RiskInv, Next, ~enabled
  PROVE  Len(orders') <= Len(orders) /\ capital'.reserved <= capital.reserved
<1> USE DEF bookVars
<1>0. /\ Typed /\ capital \in Capital /\ capital.reserved \in Int /\ capital.reserved >= 0
      /\ orders \in Seq(Order) /\ Len(orders) \in Nat
  BY PolicyAssumption, Indexes
  DEF IInv, Typed, TypeOK, Capital, CapitalWithinPolicy, WithinPolicy
<1>1. CASE SubmitStep
  <2>1. CASE SubmitOrder \/ SubmitCancel
    <3>1. SubmitCancel /\ capital' = quoteCapital
      BY <1>0, <2>1, RiskOfSubmit
    <3>2. capital'.reserved <= capital.reserved
      BY <3>1 DEF SubmitCancel, RiskInv, DisabledInv
    <3>3. Len(orders') = Len(orders)
      BY <1>0, <3>1, Submitted, CloseTyped DEF SubmitCancel, OrderStatuses
    <3> QED BY <1>0, <3>2, <3>3
  <2> QED BY <1>0, <1>1, <2>1 DEF SubmitStep, FinishEvent, FallbackAuditRaises, StepAuditRaises
<1>2. CASE MatchStep
  <2>1. ASSUME NEW i \in todo, FillBuy(i) \/ \E l \in DOMAIN lots : FillSell(i, l)
        PROVE  Len(orders') <= Len(orders) /\ capital'.reserved <= capital.reserved
    <3>1. /\ Matching(i) /\ orders' = Close(i, "filled")
          /\ \/ /\ capital'.reserved = capital.reserved - Principal(orders[i])
                /\ CanBuy(orders[i]) /\ orders[i].side = "buy"
             \/ capital'.reserved = capital.reserved
      <4>1. CASE FillBuy(i)
        BY <4>1 DEF FillBuy, Buyable, AfterBuy
      <4>2. ASSUME NEW l \in DOMAIN lots, FillSell(i, l)
            PROVE  /\ Matching(i) /\ orders' = Close(i, "filled")
                   /\ capital'.reserved = capital.reserved
        BY <1>0, <4>2 DEF FillSell, BookSell, Capital
      <4> QED BY <2>1, <4>1, <4>2
    <3>2. i \in DOMAIN orders /\ orders[i] \in Order /\ batch # <<>>
      BY <1>0, <3>1, MatchingOrder
    <3>3. Len(orders') = Len(orders)
      BY <1>0, <3>1, <3>2, CloseTyped DEF OrderStatuses
    <3>4. CanBuy(orders[i]) /\ orders[i].side = "buy" => Principal(orders[i]) \in Int /\ Principal(orders[i]) > 0
      <4>1. orders[i].price \in Int
        BY <3>2 DEF Order
      <4>2. Event.ask + BuySlippage \in Int
        BY <1>0, <3>2, EventTyped, PolicyAssumption DEF Typed
      <4> QED BY <4>1, <4>2 DEF CanBuy, BuyPrice, Least, Principal
    <3> QED BY <1>0, <3>1, <3>3, <3>4
  <2> QED BY <1>0, <1>2, <2>1 DEF MatchStep, LeaveOpen, MatchRaises, Settle
<1>3. CASE Command
  <2>1. CASE Load
    BY <1>0, <2>1 DEF Load, InitialCapital
  <2>2. ASSUME NEW side \in CancelSides, NEW sku \in Skus, NEW form \in CancelForms,
               OperatorCancel(side, sku, form)
        PROVE  Len(orders') <= Len(orders) /\ capital'.reserved <= capital.reserved
    <3>1. orders' = orders \/ \E i \in DOMAIN orders : orders' = Close(i, "cancelled")
      <4> DEFINE held == IF form = "keyed" THEN openByKey[<<sku, side>>] ELSE 0
      <4>1. orders' = IF held # 0 THEN Close(held, "cancelled") ELSE orders
        BY <2>2 DEF OperatorCancel, Close
      <4>2. held # 0 => held \in DOMAIN orders
        BY <1>0, OperatorAssumption DEF Typed, KeyIndexSound, Sides
      <4> HIDE DEF held
      <4> QED BY <4>1, <4>2
    <3>2. Len(orders') = Len(orders)
      <4>1. \A i \in DOMAIN orders : Len(Close(i, "cancelled")) = Len(orders)
        BY <1>0, CloseTyped DEF OrderStatuses
      <4> QED BY <3>1, <4>1
    <3>3. \E intent : /\ Accepts(intent, capital) /\ capital' = CapitalAfter(intent, capital)
                      /\ intent.kind = "cancel" /\ intent.principal = 0
      <4> DEFINE found == {i \in OpenOrders(sku) : orders[i].side = side}
                 first == CHOOSE i \in found : \A j \in found : i <= j
                 intent == [kind |-> "cancel", side |-> side, sku |-> sku, price |-> 0,
                            principal |-> 0,
                            release |-> IF found # {} THEN Principal(orders[first]) ELSE 0]
      <4>1. Accepts(intent, capital) /\ capital' = CapitalAfter(intent, capital)
        BY <2>2 DEF OperatorCancel
      <4>2. intent.kind = "cancel" /\ intent.principal = 0
        OBVIOUS
      <4> HIDE DEF intent
      <4> QED BY <4>1, <4>2
    <3>4. capital'.reserved <= capital.reserved
      BY <1>0, <3>3 DEF Accepts, CapitalAfter, Capital
    <3> QED BY <1>0, <3>2, <3>4
  <2> QED BY <1>0, <1>3, <2>1, <2>2 DEF Command, Enable, Disable, SetMode, Tick
<1>4. CASE DecideStep \/ ReconcileStep
  BY <1>0, <1>4
  DEF DecideStep, DecideBase, DecideCancelAll, DecideNoOp, DecidePause, InferenceRaises, DecideModelQuote,
      OnMarket, ReconcileStep, PlaceBid, CancelBid, ReplaceBid, KeepBid, CancelAsk,
      CancelAskRaises, PlaceAsk, ReplaceAsk, KeepAsk, GateBid, GateAsk
<1> QED BY <1>1, <1>2, <1>3, <1>4 DEF Next

\* A disabled strategy takes no new risk, whatever a failed or paused handler
\* left behind, as long as no fill raises.
THEOREM DisabledIsSafe == Spec /\ [][NoMatchRaises]_vars => DisabledTakesNoRisk
<1>1. Init => RiskInv
  BY PolicyAssumption, EmptySeq DEF Init, RiskInv, Releasable, DisabledInv, InitialCapital
<1>2. IInv /\ IInv' /\ OutboxInv /\ RiskInv /\ [Next]_vars /\ [NoMatchRaises]_vars => RiskInv'
  BY RiskStep DEF IInv, Typed
<1>3. IInv /\ OutboxInv /\ RiskInv /\ [Next]_vars =>
        [~enabled => /\ Len(orders') <= Len(orders)
                     /\ capital'.reserved <= capital.reserved]_vars
  BY DisabledStep
<1> QED
  BY <1>1, <1>2, <1>3, Invariance, OutboxInOrder, PTL DEF Spec, DisabledTakesNoRisk
-----------------------------------------------------------------------------
(* One open order per key *)

\* One product is quoted: the quote engine has one active per side for all.
OneProduct == \E sku : Skus = {sku}

\* Cancels by hand name the style and size the order was placed under.
KeyedCancels == CancelForms \subseteq {"keyed"}

Active(side) == IF side = "buy" THEN bid ELSE ask

\* Every open order can be found through the index.
OpenHaveKeys == \A i \in DOMAIN orders : IsOpen(i) => openByKey[KeyOf(orders[i])] = i

\* A side without an active quote has no open order, or its cancel is waiting.
QuietSide(side) ==
  \/ \A sku \in Skus : openByKey[<<sku, side>>] = 0
  \/ \E n \in DOMAIN outbox :
       outbox[n].intent.side = side /\ outbox[n].intent.kind = "cancel"

\* What waits to be placed finds its key free, and it is the active quote.
WaitingFits(intent) ==
  /\ intent.kind = "place" => openByKey[<<intent.sku, intent.side>>] = 0
  /\ intent.kind # "cancel" => Active(intent.side) # None

KeyInv ==
  /\ OpenHaveKeys
  /\ \A side \in Sides : Active(side) = None => QuietSide(side)
  /\ \A n \in DOMAIN outbox : WaitingFits(outbox[n].intent)

\* The invariant looks at the book, the quotes and the outbox only.
LEMMA KeysUntouched ==
  ASSUME KeyInv, UNCHANGED <<orders, openByKey, bid, ask, outbox>>
  PROVE  KeyInv'
BY DEF KeyInv, OpenHaveKeys, QuietSide, WaitingFits, Active, IsOpen, KeyOf

\* The orders have a key.
LEMMA OrderKeys ==
  ASSUME orders \in Seq(Order)
  PROVE  \A i \in DOMAIN orders : orders[i] \in Order /\ KeyOf(orders[i]) \in Skus \X Sides
<1> SUFFICES ASSUME NEW i \in DOMAIN orders
             PROVE  orders[i] \in Order /\ KeyOf(orders[i]) \in Skus \X Sides
  OBVIOUS
<1>1. orders[i] \in Order
  BY Indexes
<1>2. orders[i].sku \in Skus /\ orders[i].side \in Sides
  BY <1>1 DEF Order
<1> QED BY <1>1, <1>2 DEF KeyOf

\* Closing an open order and popping its key leaves the others their keys.
LEMMA ClosedLosesKey ==
  ASSUME Typed, OpenHaveKeys, NEW i \in DOMAIN orders, IsOpen(i),
         NEW status \in {"filled", "cancelled"},
         orders' = Close(i, status), openByKey' = PopKey(orders[i])
  PROVE  OpenHaveKeys'
<1>0. orders \in Seq(Order) /\ openByKey \in [Skus \X Sides -> Nat] /\ status \in OrderStatuses
  BY DEF Typed, TypeOK, OrderStatuses
<1>1. /\ DOMAIN orders' = DOMAIN orders
      /\ orders'[i] = [orders[i] EXCEPT !.status = status]
      /\ \A j \in DOMAIN orders : j # i => orders'[j] = orders[j]
  BY <1>0, CloseTyped
<1>2. \A j \in DOMAIN orders : orders[j] \in Order /\ KeyOf(orders[j]) \in Skus \X Sides
  BY <1>0, OrderKeys
<1>3. \A k \in Skus \X Sides : k # KeyOf(orders[i]) => openByKey'[k] = openByKey[k]
  BY <1>0, <1>2, PopKeyTyped
<1>4. orders'[i].status # "open"
  BY <1>1, <1>2 DEF Order
<1>5. ASSUME NEW j \in DOMAIN orders', orders'[j].status = "open"
      PROVE  openByKey'[KeyOf(orders'[j])] = j
  <2>1. j \in DOMAIN orders /\ j # i /\ orders'[j] = orders[j] /\ IsOpen(j)
    BY <1>1, <1>4, <1>5 DEF IsOpen
  <2>2. openByKey[KeyOf(orders[j])] = j /\ openByKey[KeyOf(orders[i])] = i
    BY <2>1 DEF OpenHaveKeys
  <2> QED BY <1>2, <1>3, <2>1, <2>2
<1> QED BY <1>5 DEF OpenHaveKeys, IsOpen, KeyOf

\* A cancel closes the order its key holds and frees the key; other keys stay.
LEMMA CancelledLosesKey ==
  ASSUME Typed, OpenHaveKeys, NEW sku \in Skus, NEW side \in Sides,
         orders' = IF openByKey[<<sku, side>>] # 0
                   THEN Close(openByKey[<<sku, side>>], "cancelled") ELSE orders,
         openByKey' = [openByKey EXCEPT ![<<sku, side>>] = 0]
  PROVE  /\ OpenHaveKeys'
         /\ openByKey'[<<sku, side>>] = 0
         /\ \A k \in Skus \X Sides : k # <<sku, side>> => openByKey'[k] = openByKey[k]
<1> DEFINE key == <<sku, side>>
           held == openByKey[key]
<1>0. openByKey \in [Skus \X Sides -> Nat] /\ key \in Skus \X Sides /\ 0 \in Nat
  BY DEF Typed, TypeOK
<1>1. /\ openByKey'[key] = 0
      /\ \A k \in Skus \X Sides : k # key => openByKey'[k] = openByKey[k]
  BY <1>0, KeyUpdateTyped
<1>2. CASE held # 0
  <2>1. held \in DOMAIN orders /\ IsOpen(held) /\ KeyOf(orders[held]) = key
    BY <1>0, <1>2 DEF Typed, KeyIndexSound
  <2>2. openByKey' = PopKey(orders[held]) /\ orders' = Close(held, "cancelled")
    BY <1>2, <2>1 DEF PopKey
  <2> HIDE DEF held
  <2>3. OpenHaveKeys'
    BY <2>1, <2>2, ClosedLosesKey
  <2> QED BY <1>1, <2>3
<1>3. CASE held = 0
  <2>1. orders' = orders
    BY <1>3
  <2>2. \A k \in Skus \X Sides : openByKey'[k] = openByKey[k]
    BY <1>1, <1>3
  <2>3. \A j \in DOMAIN orders : KeyOf(orders[j]) \in Skus \X Sides
    BY OrderKeys DEF Typed, TypeOK
  <2> QED BY <1>1, <2>1, <2>2, <2>3 DEF OpenHaveKeys, IsOpen, KeyOf
<1> QED BY <1>2, <1>3

\* Where one product is quoted, a freed key leaves its side without an order.
LEMMA KeysOfCancel ==
  ASSUME OneProduct, KeyedCancels, Typed, OutboxInv, KeyInv,
         NEW side \in CancelSides, NEW sku \in Skus, NEW form \in CancelForms,
         OperatorCancel(side, sku, form)
  PROVE  KeyInv'
<1> DEFINE key == <<sku, side>>
<1>0. side \in Sides /\ form = "keyed" /\ outbox = <<>> /\ outbox' = <<>>
  BY OperatorAssumption, EmptySeq DEF KeyedCancels, Sides, OperatorCancel, Idle, OutboxInv,
                                      handlerVars
<1>1. OpenHaveKeys' /\ openByKey'[key] = 0
      /\ \A k \in Skus \X Sides : k # key => openByKey'[k] = openByKey[k]
  <2>1. CASE openByKey[key] # 0
    <3>1. /\ orders' = Close(openByKey[key], "cancelled")
          /\ openByKey' = [openByKey EXCEPT ![key] = 0]
      BY <1>0, <2>1 DEF OperatorCancel, Close
    <3> QED BY <1>0, <2>1, <3>1, CancelledLosesKey DEF KeyInv
  <2>2. CASE openByKey[key] = 0
    <3>1. orders' = orders /\ openByKey' = openByKey
      BY <1>0, <2>2 DEF OperatorCancel
    <3> QED BY <2>2, <3>1 DEF KeyInv, OpenHaveKeys, IsOpen, KeyOf
  <2> QED BY <2>1, <2>2
<1>2. /\ bid' = IF side = "buy" THEN None ELSE bid
      /\ ask' = IF side = "sell" THEN None ELSE ask
  BY DEF OperatorCancel
<1>3. ASSUME NEW s \in Sides, Active(s)' = None
      PROVE  \A t \in Skus : openByKey'[<<t, s>>] = 0
  <2>1. CASE s = side
    BY <1>1, <2>1 DEF OneProduct
  <2>2. CASE s # side
    <3>1. Active(s) = None
      BY <1>0, <1>2, <1>3, <2>2 DEF Active, Sides
    <3>2. \A t \in Skus : openByKey[<<t, s>>] = 0
      BY <1>0, <3>1, EmptySeq DEF KeyInv, QuietSide
    <3> QED BY <1>1, <2>2, <3>2
  <2> QED BY <2>1, <2>2
<1> QED BY <1>0, <1>1, <1>3, EmptySeq DEF KeyInv, QuietSide

\* A fill frees its own key only.
LEMMA KeysOfFill ==
  ASSUME Typed, OutboxInv, KeyInv, NEW i \in todo,
         FillBuy(i) \/ \E l \in DOMAIN lots : FillSell(i, l)
  PROVE  KeyInv'
<1>1. /\ Matching(i) /\ orders' = Close(i, "filled") /\ openByKey' = PopKey(orders[i])
      /\ outbox = <<>> /\ outbox' = <<>> /\ bid' = bid /\ ask' = ask
  BY DEF FillBuy, Buyable, BookBuy, FillSell, BookSell, Matching, OutboxInv, quoteVars
<1>2. i \in DOMAIN orders /\ IsOpen(i) /\ orders[i] \in Order
  BY <1>1, MatchingOrder
<1>3. OpenHaveKeys'
  BY <1>1, <1>2, ClosedLosesKey DEF KeyInv
<1>4. \A k \in Skus \X Sides : openByKey'[k] = openByKey[k] \/ openByKey'[k] = 0
  BY <1>1, <1>2, PopKeyTyped DEF Typed, TypeOK
<1>5. \A s \in Sides : Active(s)' = None => \A t \in Skus : openByKey'[<<t, s>>] = 0
  <2>1. \A s \in Sides : Active(s) = None => \A t \in Skus : openByKey[<<t, s>>] = 0
    BY <1>1, EmptySeq DEF KeyInv, QuietSide
  <2> QED BY <1>1, <1>4, <2>1 DEF Active
<1> QED BY <1>1, <1>3, <1>5, EmptySeq DEF KeyInv, QuietSide

\* An intent of a side that has none waiting yet joins the outbox: a place
\* finds the key free because the side had no active quote.
LEMMA KeysOfDecision ==
  ASSUME Typed, KeyInv, NEW intent, intent.side \in Sides, intent.sku \in Skus,
         \A n \in DOMAIN outbox : outbox[n].intent.side # intent.side,
         NEW cap, outbox' = Append(outbox, [intent |-> intent, capital |-> cap]),
         orders' = orders, openByKey' = openByKey,
         \A s \in Sides : s # intent.side => Active(s)' = Active(s),
         intent.kind = "place" => Active(intent.side) = None,
         intent.kind # "cancel" => Active(intent.side)' # None
  PROVE  KeyInv'
<1> DEFINE d == [intent |-> intent, capital |-> cap]
           S == {outbox[n] : n \in DOMAIN outbox} \cup {d}
<1>1. outbox \in Seq(S) /\ d \in S
  <2>1. outbox \in Seq(Decision)
    BY DEF Typed, TypeOK
  <2> HIDE DEF d
  <2> QED BY <2>1
<1>2. d.intent = intent
  OBVIOUS
<1> HIDE DEF d, S
<1>3. /\ \A n \in DOMAIN outbox' : \/ n \in DOMAIN outbox /\ outbox'[n] = outbox[n]
                                   \/ outbox'[n] = d
      /\ \A n \in DOMAIN outbox : n \in DOMAIN outbox' /\ outbox'[n] = outbox[n]
      /\ Len(outbox) + 1 \in DOMAIN outbox' /\ outbox'[Len(outbox) + 1] = d
  BY <1>1 DEF d
<1>4. OpenHaveKeys'
  BY DEF KeyInv, OpenHaveKeys, IsOpen, KeyOf
<1>5. ASSUME NEW s \in Sides, Active(s)' = None
      PROVE  QuietSide(s)'
  <2>1. CASE s = intent.side
    <3>1. intent.kind = "cancel"
      BY <1>5, <2>1
    <3> QED BY <1>2, <1>3, <2>1, <3>1 DEF QuietSide
  <2>2. CASE s # intent.side
    <3>1. QuietSide(s)
      BY <1>5, <2>2 DEF KeyInv
    <3> QED BY <1>3, <3>1 DEF QuietSide
  <2> QED BY <2>1, <2>2
<1>6. ASSUME NEW n \in DOMAIN outbox'
      PROVE  WaitingFits(outbox[n].intent)'
  <2>1. CASE n \in DOMAIN outbox /\ outbox'[n] = outbox[n]
    <3>1. /\ outbox[n].intent.side \in Sides /\ outbox[n].intent.side # intent.side
          /\ WaitingFits(outbox[n].intent)
      <4>1. outbox[n] \in Decision
        BY <2>1, Indexes DEF Typed, TypeOK
      <4> QED BY <2>1, <4>1 DEF Decision, Intent, KeyInv
    <3> QED BY <2>1, <3>1 DEF WaitingFits
  <2>2. CASE outbox'[n] = d
    <3>1. intent.kind = "place" => openByKey[<<intent.sku, intent.side>>] = 0
      BY DEF KeyInv, QuietSide
    <3> QED BY <1>2, <2>2, <3>1 DEF WaitingFits
  <2> QED BY <1>3, <2>1, <2>2
<1> QED BY <1>4, <1>5, <1>6 DEF KeyInv

\* The submitted intent leaves the others what they need: their side is the
\* other one.
LEMMA KeysOfRest ==
  ASSUME Typed, OutboxInv, KeyInv, outbox # <<>>, outbox' = Tail(outbox),
         OpenHaveKeys', bid' = bid, ask' = ask,
         \A k \in Skus \X Sides : k[2] # Head(outbox).intent.side => openByKey'[k] = openByKey[k],
         Active(Head(outbox).intent.side) = None =>
           \A t \in Skus : openByKey'[<<t, Head(outbox).intent.side>>] = 0
  PROVE  KeyInv'
<1> DEFINE first == Head(outbox).intent
<1>1. /\ Head(outbox) = outbox[1] /\ 1 \in DOMAIN outbox
      /\ \A n \in DOMAIN outbox' :
           n + 1 \in DOMAIN outbox /\ n \in Nat /\ n # 0 /\ outbox'[n] = outbox[n + 1]
      /\ \A n \in DOMAIN outbox : n = 1 \/ (n - 1 \in DOMAIN outbox' /\ outbox'[n - 1] = outbox[n])
  BY HeadLeaves
<1>2. ASSUME NEW s \in Sides, Active(s)' = None
      PROVE  QuietSide(s)'
  <2>1. Active(s) = None
    BY <1>2 DEF Active
  <2>2. CASE s = first.side
    BY <2>1, <2>2 DEF QuietSide
  <2>3. CASE s # first.side
    <3>1. CASE \A t \in Skus : openByKey[<<t, s>>] = 0
      <4>1. \A t \in Skus : openByKey'[<<t, s>>] = 0
        BY <2>3, <3>1
      <4> QED BY <4>1 DEF QuietSide
    <3>2. ASSUME NEW n \in DOMAIN outbox,
                 outbox[n].intent.side = s, outbox[n].intent.kind = "cancel"
          PROVE  QuietSide(s)'
      <4>1. n # 1
        BY <1>1, <2>3, <3>2
      <4>2. n - 1 \in DOMAIN outbox' /\ outbox'[n - 1] = outbox[n]
        BY <1>1, <4>1
      <4> QED BY <3>2, <4>2 DEF QuietSide
    <3> QED BY <2>1, <3>1, <3>2 DEF KeyInv, QuietSide
  <2> QED BY <2>2, <2>3
<1>3. ASSUME NEW n \in DOMAIN outbox'
      PROVE  WaitingFits(outbox[n].intent)'
  <2> DEFINE intent == outbox[n + 1].intent
  <2>1. n + 1 \in DOMAIN outbox /\ outbox'[n] = outbox[n + 1] /\ n + 1 # 1
    BY <1>1
  <2>2. intent.side # first.side
    BY <1>1, <2>1 DEF OutboxInv
  <2>3. <<intent.sku, intent.side>> \in Skus \X Sides
    <3>1. outbox[n + 1] \in Decision
      BY <2>1, Indexes DEF Typed, TypeOK
    <3> QED BY <3>1 DEF Decision, Intent
  <2>4. openByKey'[<<intent.sku, intent.side>>] = openByKey[<<intent.sku, intent.side>>]
    BY <2>2, <2>3
  <2>5. WaitingFits(intent)
    BY <2>1 DEF KeyInv
  <2> HIDE DEF intent
  <2>6. outbox'[n].intent = intent
    BY <2>1 DEF intent
  <2> QED BY <2>4, <2>5, <2>6 DEF WaitingFits, Active
<1> QED BY <1>2, <1>3 DEF KeyInv

\* A submitted order takes its key from nobody: a replace closed the order that
\* held it, a place found it free.
LEMMA KeysOfOrder ==
  ASSUME Typed, OutboxInv, KeyInv, SubmitOrder
  PROVE  KeyInv'
<1> DEFINE intent == Head(outbox).intent
           key == <<intent.sku, intent.side>>
           held == openByKey[key]
           last == Len(orders) + 1
<1>1. /\ key \in Skus \X Sides
      /\ DOMAIN orders' = 1 .. last /\ DOMAIN orders = 1 .. Len(orders)
      /\ Len(orders) \in Nat
      /\ orders'[last] = NewOrder(intent)
      /\ \A j \in DOMAIN orders :
           orders'[j] = IF intent.kind = "replace" /\ j = held
                        THEN [orders[j] EXCEPT !.status = "cancelled"]
                        ELSE orders[j]
      /\ openByKey'[key] = last
      /\ \A k \in Skus \X Sides : k # key => openByKey'[k] = openByKey[k]
  BY OrderAppended
<1>2. /\ outbox # <<>> /\ outbox' = Tail(outbox) /\ bid' = bid /\ ask' = ask
      /\ intent.kind # "cancel"
  BY DEF SubmitOrder, quoteVars
<1>3. Head(outbox) = outbox[1] /\ 1 \in DOMAIN outbox
  BY <1>2, HeadLeaves
<1>4. WaitingFits(intent)
  BY <1>3 DEF KeyInv
<1>5. /\ intent \in Intent
      /\ \A j \in DOMAIN orders : orders[j] \in Order /\ KeyOf(orders[j]) \in Skus \X Sides
  BY <1>2, Submitted, OrderKeys DEF Typed, TypeOK
<1> HIDE DEF intent, last
<1>6. ASSUME NEW j \in DOMAIN orders', orders'[j].status = "open"
      PROVE  openByKey'[KeyOf(orders'[j])] = j
  <2>1. CASE j = last
    BY <1>1, <2>1 DEF NewOrder, KeyOf
  <2>2. CASE j # last
    <3>1. j \in DOMAIN orders /\ j # 0
      BY <1>1, <2>2 DEF last
    <3>2. orders'[j] = orders[j] /\ IsOpen(j) /\ ~(intent.kind = "replace" /\ j = held)
      BY <1>1, <1>5, <1>6, <3>1 DEF IsOpen, Order
    <3>3. openByKey[KeyOf(orders[j])] = j
      BY <3>1, <3>2 DEF KeyInv, OpenHaveKeys
    <3>4. KeyOf(orders[j]) # key
      BY <1>2, <1>4, <1>5, <3>1, <3>2, <3>3 DEF WaitingFits, Intent
    <3> QED BY <1>1, <1>5, <3>1, <3>2, <3>3, <3>4
  <2> QED BY <2>1, <2>2
<1>7. OpenHaveKeys'
  BY <1>6 DEF OpenHaveKeys, IsOpen, KeyOf
<1>8. \A k \in Skus \X Sides : k[2] # intent.side => openByKey'[k] = openByKey[k]
  BY <1>1
<1>9. Active(intent.side) # None
  BY <1>2, <1>4 DEF WaitingFits
<1> QED BY <1>2, <1>7, <1>8, <1>9, KeysOfRest DEF intent

\* A submitted cancel frees the only key of its side.
LEMMA KeysOfSubmitCancel ==
  ASSUME OneProduct, Typed, OutboxInv, KeyInv, SubmitCancel
  PROVE  KeyInv'
<1> DEFINE intent == Head(outbox).intent
           key == <<intent.sku, intent.side>>
<1>1. /\ outbox # <<>> /\ outbox' = Tail(outbox) /\ bid' = bid /\ ask' = ask
      /\ orders' = IF openByKey[key] # 0 THEN Close(openByKey[key], "cancelled") ELSE orders
      /\ openByKey' = [openByKey EXCEPT ![key] = 0]
  BY DEF SubmitCancel, quoteVars
<1>2. intent.sku \in Skus /\ intent.side \in Sides
  BY <1>1, Submitted
<1> HIDE DEF intent
<1>3. /\ OpenHaveKeys' /\ openByKey'[key] = 0
      /\ \A k \in Skus \X Sides : k # key => openByKey'[k] = openByKey[k]
  BY <1>1, <1>2, CancelledLosesKey DEF KeyInv
<1>4. \A k \in Skus \X Sides : k[2] # intent.side => openByKey'[k] = openByKey[k]
  BY <1>3
<1>5. \A t \in Skus : openByKey'[<<t, intent.side>>] = 0
  BY <1>2, <1>3 DEF OneProduct
<1> QED BY <1>1, <1>3, <1>4, <1>5, KeysOfRest DEF intent

LEMMA KeyInvStep ==
  ASSUME OneProduct, KeyedCancels, Typed, OutboxInv, KeyInv,
         [Next]_vars, [IntentsReachBook]_vars
  PROVE  KeyInv'
<1> USE DEF bookVars, quoteVars, handlerVars
<1>1. CASE Load
  <2>1. \A k \in Skus \X Sides : openByKey'[k] = 0
    BY <1>1 DEF Load
  <2>2. outbox' = <<>> /\ orders' = <<>>
    BY <1>1 DEF Load, Idle, OutboxInv
  <2> QED BY <2>1, <2>2, EmptySeq DEF KeyInv, OpenHaveKeys, QuietSide
<1>2. ASSUME NEW side \in CancelSides, NEW sku \in Skus, NEW form \in CancelForms,
             OperatorCancel(side, sku, form)
      PROVE  KeyInv'
  BY <1>2, KeysOfCancel
<1>3. ASSUME NEW i \in todo, FillBuy(i) \/ \E l \in DOMAIN lots : FillSell(i, l)
      PROVE  KeyInv'
  BY <1>3, KeysOfFill
<1>4. CASE Command \/ MatchStep \/ DecideStep
  <2>1. outbox = <<>> /\ outbox' = <<>>
    <3>1. stage \in {"idle", "match", "decide"}
      BY <1>4, CommandsLeave DEF MatchStep, LeaveOpen, FillBuy, Buyable, MatchRaises, FillSell, BookSell,
                  Matching, Settle, DecideStep, DecideBase, DecideCancelAll, DecideNoOp,
                  DecidePause, InferenceRaises, DecideModelQuote
    <3> QED BY <1>4, <3>1, OutboxStaysEmpty DEF OutboxInv
  <2>2. \/ UNCHANGED <<orders, openByKey, bid, ask>> \/ Load
        \/ \E side \in CancelSides, sku \in Skus, form \in CancelForms :
             OperatorCancel(side, sku, form)
        \/ \E i \in todo : FillBuy(i) \/ \E l \in DOMAIN lots : FillSell(i, l)
    BY <1>4 DEF Command, Enable, Disable, SetMode, Tick, MatchStep, LeaveOpen, MatchRaises,
                Settle, DecideStep, DecideBase, DecideCancelAll, DecideNoOp, DecidePause, InferenceRaises,
                DecideModelQuote, OnMarket
  <2> QED BY <1>1, <1>2, <1>3, <2>1, <2>2, KeysUntouched
<1>5. CASE ReconcileStep
  <2>1. ASSUME NEW intent, intent.side = "buy", intent.sku \in Skus, stage = "reconcileBid",
               NEW quote, GateBid(intent, quote),
               intent.kind = "place" => bid = None,
               intent.kind # "cancel" => quote # None
        PROVE  KeyInv'
    <3>1. CASE outbox' = outbox /\ bid' = bid
      BY <2>1, <3>1, KeysUntouched DEF GateBid
    <3>2. CASE /\ bid' = quote
               /\ outbox' = Append(outbox, [intent |-> intent,
                                            capital |-> CapitalAfter(intent, quoteCapital)])
      <4>1. \A n \in DOMAIN outbox : outbox[n].intent.side # intent.side
        BY <2>1, EmptySeq DEF OutboxInv
      <4>2. \A s \in Sides : s # intent.side => Active(s)' = Active(s)
        BY <2>1 DEF GateBid, Active
      <4>3. /\ intent.kind = "place" => Active(intent.side) = None
            /\ intent.kind # "cancel" => Active(intent.side)' # None
        BY <2>1, <3>2 DEF Active
      <4>4. orders' = orders /\ openByKey' = openByKey /\ intent.side \in Sides
        BY <2>1 DEF GateBid, Sides
      <4> QED BY <2>1, <3>2, <4>1, <4>2, <4>3, <4>4, KeysOfDecision
    <3> QED BY <2>1, <3>1, <3>2 DEF GateBid
  <2>2. ASSUME NEW intent, intent.side = "sell", intent.sku \in Skus, stage = "reconcileAsk",
               NEW quote, GateAsk(intent, quote),
               intent.kind = "place" => ask = None,
               intent.kind # "cancel" => quote # None
        PROVE  KeyInv'
    <3>1. \A n \in DOMAIN outbox : outbox[n].intent.side # intent.side
      BY <2>2 DEF OutboxInv
    <3>2. \A s \in Sides : s # intent.side => Active(s)' = Active(s)
      BY <2>2 DEF GateAsk, Active, Sides
    <3>3. /\ intent.kind = "place" => Active(intent.side) = None
          /\ intent.kind # "cancel" => Active(intent.side)' # None
      BY <2>2 DEF GateAsk, Active
    <3>4. /\ orders' = orders /\ openByKey' = openByKey /\ intent.side \in Sides
          /\ outbox' = Append(outbox, [intent |-> intent, capital |-> quoteCapital])
      BY <2>2 DEF GateAsk, Sides
    <3> QED BY <2>2, <3>1, <3>2, <3>3, <3>4, KeysOfDecision
  <2>3. ASSUME NEW price \in Int, NEW lot \in Nat, batch # <<>>
        PROVE  NewQuote(price, lot) # None /\ Event.sku \in Skus
    BY <2>3, NewQuoteTyped, EventTyped, NoneAssumption DEF Typed, Quote
  <2>4. CASE PlaceBid \/ \E aged \in BOOLEAN : ReplaceBid(aged)
    <3>1. desired.bid \in Int /\ batch # <<>>
      BY <2>4, DesiredPrice DEF PlaceBid, ReplaceBid
    <3> QED BY <2>1, <2>3, <2>4, <3>1 DEF PlaceBid, ReplaceBid, QuoteIntent
  <2>5. CASE CancelBid
    <3>1. bid.sku \in Skus
      BY <2>5, DesiredPrice DEF CancelBid
    <3> QED BY <2>1, <2>5, <3>1 DEF CancelBid, QuoteIntent
  <2>6. ASSUME NEW l \in DOMAIN lots, PlaceAsk(l)
        PROVE  KeyInv'
    <3>1. desired.ask \in Int /\ batch # <<>> /\ l \in Nat
      BY <2>6, DesiredPrice, Indexes DEF PlaceAsk, Typed, TypeOK
    <3> QED BY <2>2, <2>3, <2>6, <3>1 DEF PlaceAsk, QuoteIntent
  <2>7. ASSUME NEW aged \in BOOLEAN, ReplaceAsk(aged)
        PROVE  KeyInv'
    <3>1. desired.ask \in Int /\ batch # <<>> /\ ask.lot \in Nat
      BY <2>7, DesiredPrice DEF ReplaceAsk
    <3> QED BY <2>2, <2>3, <2>7, <3>1 DEF ReplaceAsk, QuoteIntent
  <2>8. CASE CancelAsk
    <3>1. ask.sku \in Skus
      BY <2>8, DesiredPrice DEF CancelAsk
    <3> QED BY <2>2, <2>8, <3>1 DEF CancelAsk, QuoteIntent
  <2>9. CASE \E aged \in BOOLEAN : KeepBid(aged) \/ KeepAsk(aged)
    BY <2>9, KeysUntouched DEF KeepBid, KeepAsk
  <2>10. CASE CancelAskRaises
    <3>1. UNCHANGED vars
      BY <2>10 DEF IntentsReachBook, NoCancelRaises
    <3> QED BY <3>1, <2>10 DEF CancelAskRaises, EndHandler, vars
  <2> QED BY <1>5, <2>4, <2>5, <2>6, <2>7, <2>8, <2>9, <2>10 DEF ReconcileStep
<1>6. CASE SubmitOrder
  BY <1>6, KeysOfOrder
<1>7. CASE SubmitCancel
  BY <1>7, KeysOfSubmitCancel
<1>8. CASE FinishEvent \/ StepAuditRaises
  BY <1>8, KeysUntouched DEF FinishEvent, StepAuditRaises, EndHandler
<1>9. CASE UNCHANGED vars
  BY <1>9, KeysUntouched DEF vars
<1>10. CASE FallbackAuditRaises
  <2>1. outbox = <<>>
    BY <1>10
    DEF IntentsReachBook, NoIntentDropped, FallbackAuditRaises, EndHandler, vars
  <2> QED BY <1>10, <2>1, KeysUntouched DEF FallbackAuditRaises, EndHandler
<1> QED BY <1>4, <1>5, <1>6, <1>7, <1>8, <1>9, <1>10 DEF Next, SubmitStep

LEMMA KeyInvariance ==
  ASSUME OneProduct, KeyedCancels
  PROVE  Spec /\ [][IntentsReachBook]_vars => []KeyInv
<1>1. Init => KeyInv
  BY NoKeysTyped, EmptySeq DEF Init, KeyInv, OpenHaveKeys, QuietSide
<1>2. IInv /\ OutboxInv /\ KeyInv /\ [Next]_vars /\ [IntentsReachBook]_vars => KeyInv'
  BY KeyInvStep DEF IInv
<1> QED BY <1>1, <1>2, Invariance, OutboxInOrder, PTL DEF Spec

\* There is no duplicate exposure where one product is quoted, cancels name
\* their key and what the quote engine accepts reaches the book: no handler loses
\* an intent to a cancelled ask that raises, or to the audit row of its fallback.
THEOREM NoDuplicateExposure ==
  ASSUME OneProduct, KeyedCancels
  PROVE  Spec /\ [][IntentsReachBook]_vars => []OneOpenOrderPerKey
<1>1. KeyInv => OneOpenOrderPerKey
  BY DEF KeyInv, OpenHaveKeys, OneOpenOrderPerKey
<1> QED BY <1>1, KeyInvariance, PTL

\* A cancel by hand closes the open order of its product and side, under the
\* same conditions: an order whose cancel was lost leaves the index when the next
\* place takes its key, and no cancel finds it again.
THEOREM CancelReachesOrder ==
  ASSUME OneProduct, KeyedCancels
  PROVE  Spec /\ [][IntentsReachBook]_vars => CancelClosesAnOrder
<1> DEFINE Closes(side, sku) ==
             \E i \in OpenOf(side) \cap OpenOrders(sku) : orders'[i].status = "cancelled"
<1>1. ASSUME IInv, KeyInv,
             NEW side \in CancelSides, NEW sku \in Skus, NEW form \in CancelForms,
             OperatorCancel(side, sku, form), OpenOf(side) \cap OpenOrders(sku) # {}
      PROVE  Closes(side, sku)
  <2>1. PICK i \in OpenOf(side) \cap OpenOrders(sku) : TRUE
    BY <1>1
  <2>2. /\ i \in DOMAIN orders /\ IsOpen(i) /\ KeyOf(orders[i]) = <<sku, side>>
        /\ orders \in Seq(Order) /\ i \in Nat /\ i # 0
    BY <1>1, <2>1, Indexes DEF OpenOf, OpenOrders, KeyOf, IInv, Typed, TypeOK
  <2>3. openByKey[<<sku, side>>] = i
    BY <1>1, <2>2 DEF KeyInv, OpenHaveKeys
  <2>4. orders' = Close(i, "cancelled")
    BY <1>1, <2>2, <2>3 DEF OperatorCancel, Close, KeyedCancels
  <2>5. orders'[i].status = "cancelled"
    <3>1. orders'[i] = [orders[i] EXCEPT !.status = "cancelled"]
      BY <2>2, <2>4, CloseTyped DEF OrderStatuses
    <3>2. orders[i] \in Order
      BY <2>2, Indexes
    <3> QED BY <3>1, <3>2 DEF Order
  <2> QED BY <2>1, <2>5
<1>2. IInv /\ KeyInv /\ [Next]_vars =>
        [\A side \in CancelSides, sku \in Skus, form \in CancelForms :
           (/\ OperatorCancel(side, sku, form)
            /\ OpenOf(side) \cap OpenOrders(sku) # {}) =>
             \E i \in OpenOf(side) \cap OpenOrders(sku) :
               orders'[i].status = "cancelled"]_vars
  BY <1>1
<1> QED
  BY <1>2, Invariance, KeyInvariance, PTL DEF Spec, CancelClosesAnOrder

-----------------------------------------------------------------------------
(* Open asks and reserved lots *)

\* The lot of the active ask is reserved for it.
AskBacked == ask # None => lots[ask.lot].state = "reserved_for_sale"

LEMMA BackedStep ==
  ASSUME Typed, AskBacked, [Next]_vars, [NoSale]_vars
  PROVE  AskBacked'
<1> USE DEF bookVars, quoteVars
<1>0. /\ lots \in Seq(Lot) /\ DOMAIN lots = 1 .. Len(lots) /\ Len(lots) \in Nat
      /\ \A l \in DOMAIN lots : lots[l] \in Lot
      /\ ask # None => ask.lot \in DOMAIN lots /\ ask.lot \in Nat
  BY Indexes DEF Typed, TypeOK, AskLotKnown
<1>1. CASE UNCHANGED <<lots, ask>>
  BY <1>1 DEF AskBacked
<1>2. CASE ask' = None
  BY <1>2 DEF AskBacked
<1>3. ASSUME NEW i \in todo, FillBuy(i)
      PROVE  AskBacked'
  <2> DEFINE lot == [sku |-> orders[i].sku, state |-> "purchased", fill |-> Len(fills) + 1]
             S == Lot \cup {lot}
  <2>1. lots' = Append(lots, lot) /\ ask' = ask
    BY <1>3 DEF FillBuy, BookBuy
  <2>2. lots \in Seq(S) /\ lot \in S
    BY <1>0
  <2> HIDE DEF lot, S
  <2>3. \A l \in DOMAIN lots : lots'[l] = lots[l]
    BY <2>1, <2>2, AppendEntry
  <2> QED BY <1>0, <2>1, <2>3 DEF AskBacked
<1>4. ASSUME NEW i \in todo, NEW l \in DOMAIN lots, FillSell(i, l)
      PROVE  AskBacked'
  BY <1>1, <1>4 DEF NoSale, vars
<1>5. CASE Settle
  <2>1. ask' = ask /\ \A l \in DOMAIN lots : lots[l].state # "purchased" => lots'[l] = lots[l]
    BY <1>5 DEF Settle
  <2> QED BY <1>0, <2>1 DEF AskBacked
<1>6. ASSUME NEW l \in DOMAIN lots, PlaceAsk(l)
      PROVE  AskBacked'
  <2>1. lots' = [lots EXCEPT ![l].state = "reserved_for_sale"]
        /\ ask' = NewQuote(desired.ask, l)
    BY <1>6 DEF PlaceAsk, GateAsk
  <2>2. lots'[l].state = "reserved_for_sale"
    BY <1>0, <2>1, MoveTyped DEF LotStates, Lot
  <2> QED BY <2>1, <2>2 DEF AskBacked, NewQuote
<1>7. ASSUME NEW aged \in BOOLEAN, ReplaceAsk(aged)
      PROVE  AskBacked'
  BY <1>7 DEF ReplaceAsk, GateAsk, AskBacked, NewQuote
<1>8. Command => UNCHANGED <<lots, ask>> \/ ask' = None
  BY CommandsLeave
<1>9. MatchStep => \/ UNCHANGED <<lots, ask>> \/ Settle \/ \E i \in todo : FillBuy(i)
                   \/ \E i \in todo, l \in DOMAIN lots : FillSell(i, l)
  BY DEF MatchStep, LeaveOpen, MatchRaises
<1>10. DecideStep => UNCHANGED <<lots, ask>>
  BY DEF DecideStep, DecideBase, DecideCancelAll, DecideNoOp, DecidePause, InferenceRaises,
         DecideModelQuote, OnMarket
<1>11. ReconcileStep => \/ UNCHANGED <<lots, ask>> \/ ask' = None
                        \/ \E l \in DOMAIN lots : PlaceAsk(l)
                        \/ \E aged \in BOOLEAN : ReplaceAsk(aged)
  BY DEF ReconcileStep, PlaceBid, CancelBid, ReplaceBid, KeepBid, CancelAsk,
         CancelAskRaises, KeepAsk, GateBid, GateAsk
<1>12. SubmitStep => UNCHANGED <<lots, ask>>
  BY DEF SubmitStep, SubmitOrder, SubmitCancel, FinishEvent, FallbackAuditRaises, StepAuditRaises
<1> QED
  BY <1>1, <1>2, <1>3, <1>4, <1>5, <1>6, <1>7, <1>8, <1>9, <1>10, <1>11, <1>12
  DEF Next, vars

\* With its lot reserved, an ask can be cancelled.
LEMMA BackedCancels ==
  ASSUME AskBacked
  PROVE  NoCancelRaises
BY DEF AskBacked, NoCancelRaises, CancelAskRaises

\* Between handlers the one open ask there can be is the active one.
LEMMA AsksBacked ==
  ASSUME OneProduct, Typed, OutboxInv, KeyInv, AskBacked
  PROVE  OpenAsksBacked
<1> SUFFICES ASSUME Idle, NEW sku \in Skus
             PROVE  Cardinality(OpenOf("sell") \cap OpenOrders(sku))
                      <= Cardinality(LotsIn("reserved_for_sale", sku))
  BY DEF OpenAsksBacked
<1> DEFINE asks == OpenOf("sell") \cap OpenOrders(sku)
           backing == LotsIn("reserved_for_sale", sku)
<1>1. /\ lots \in Seq(Lot) /\ orders \in Seq(Order)
      /\ DOMAIN lots = 1 .. Len(lots) /\ Len(lots) \in Nat
  BY Indexes DEF Typed, TypeOK
<1>2. IsFiniteSet(backing) /\ Cardinality(backing) \in Nat
  <2>1. IsFiniteSet(1 .. Len(lots))
    BY <1>1, FS_Interval
  <2>2. backing \subseteq 1 .. Len(lots)
    BY <1>1 DEF LotsIn
  <2> QED BY <2>1, <2>2, FS_Subset, FS_CardinalityType
<1>3. CASE asks = {}
  <2>1. Cardinality(asks) = 0
    BY <1>3, FS_EmptySet
  <2> QED BY <1>2, <2>1
<1>4. ASSUME NEW i \in asks
      PROVE  Cardinality(asks) <= Cardinality(backing)
  <2>1. \A j \in asks : /\ j \in DOMAIN orders /\ IsOpen(j) /\ KeyOf(orders[j]) = <<sku, "sell">>
                        /\ j # 0
    BY <1>1, Indexes DEF OpenOf, OpenOrders, KeyOf
  <2>2. \A j \in asks : openByKey[<<sku, "sell">>] = j
    BY <2>1 DEF KeyInv, OpenHaveKeys
  <2>3. asks = {i}
    BY <1>4, <2>2
  <2>4. Cardinality(asks) = 1
    BY <2>3, FS_Singleton
  <2>5. ask # None
    <3>1. openByKey[<<sku, "sell">>] # 0
      BY <1>4, <2>1, <2>2
    <3>2. DOMAIN outbox = {}
      BY EmptySeq DEF OutboxInv, Idle
    <3> QED BY <3>1, <3>2 DEF KeyInv, QuietSide, Active, Sides
  <2>6. ask.lot \in backing
    <3>1. ask.lot \in DOMAIN lots /\ lots[ask.lot].state = "reserved_for_sale"
      BY <2>5 DEF AskBacked, Typed, AskLotKnown
    <3>2. lots[ask.lot].sku \in Skus
      <4>1. lots[ask.lot] \in Lot
        BY <1>1, <3>1, Indexes
      <4> QED BY <4>1 DEF Lot
    <3> QED BY <3>1, <3>2 DEF OneProduct, LotsIn
  <2>7. Cardinality(backing) # 0
    BY <1>2, <2>6, FS_EmptySet
  <2> QED BY <1>2, <2>4, <2>7
<1> QED BY <1>3, <1>4

\* As long as no ask is filled and no fallback's audit write takes an accepted
\* intent with it, there is no sell without a lot: each open ask has a reserved
\* one, and cancelling it never raises.  A sale leaves the active ask behind with
\* its lot sold; a lost cancel has returned the lot of an ask that stays open.
THEOREM NoNakedSell ==
  ASSUME OneProduct, KeyedCancels
  PROVE  Spec /\ [][NoSale]_vars /\ [][NoIntentDropped]_vars => []OpenAsksBacked
<1>1. Init => AskBacked
  BY DEF Init, AskBacked
<1>2. IInv /\ AskBacked /\ [Next]_vars /\ [NoSale]_vars => AskBacked'
  BY BackedStep DEF IInv
<1>3. AskBacked /\ [NoIntentDropped]_vars => [IntentsReachBook]_vars
  BY BackedCancels DEF IntentsReachBook
<1>4. IInv /\ OutboxInv /\ KeyInv /\ AskBacked => OpenAsksBacked
  BY AsksBacked DEF IInv
<1> QED
  BY <1>1, <1>2, <1>3, <1>4, Invariance, OutboxInOrder, KeyInvariance, PTL DEF Spec
-----------------------------------------------------------------------------
(* The reserve *)

BuyKey(sku) == openByKey[<<sku, "buy">>]
NoBidWaiting == \A n \in DOMAIN outbox : outbox[n].intent.side # "buy"

\* The reserve is the price of the open bid, which the cash covers with its
\* fees and which is the active bid unless a decision on it is waiting.
BidReserved(sku) ==
  /\ capital.reserved = IF BuyKey(sku) = 0 THEN 0 ELSE orders[BuyKey(sku)].price
  /\ BuyKey(sku) # 0 =>
       /\ orders[BuyKey(sku)].price > 0
       /\ orders[BuyKey(sku)].price + ExpectedBuyFees <= capital.cash
       /\ NoBidWaiting => orders[BuyKey(sku)].price = bid.price

\* What a waiting decision on the bid will make the reserve.
WillReserve(intent) ==
  IF intent.kind = "cancel"
  THEN quoteCapital.reserved = 0
  ELSE /\ quoteCapital.reserved = intent.price
       /\ bid.price = intent.price
       /\ intent.price + ExpectedBuyFees <= quoteCapital.cash

ReserveInv ==
  /\ stage # "match" /\ NoBidWaiting => quoteCapital = capital
  /\ bid # None => bid.price > 0
  /\ \A sku \in Skus : BidReserved(sku)
  /\ \A n \in DOMAIN outbox : outbox[n].intent.side = "buy" => WillReserve(outbox[n].intent)

\* The order the buy key holds, if any, is the open bid, and the only one.
LEMMA TheOpenBid ==
  ASSUME OneProduct, Typed, OpenHaveKeys, NEW sku \in Skus
  PROVE  /\ BuyKey(sku) \in Nat
         /\ BuyKey(sku) # 0 =>
              /\ BuyKey(sku) \in DOMAIN orders /\ IsOpen(BuyKey(sku))
              /\ orders[BuyKey(sku)] \in Order /\ orders[BuyKey(sku)].side = "buy"
              /\ orders[BuyKey(sku)].sku = sku /\ orders[BuyKey(sku)].price \in Int
         /\ \A i \in DOMAIN orders :
              IsOpen(i) /\ orders[i].side = "buy" => i = BuyKey(sku) /\ i # 0
<1>1. /\ orders \in Seq(Order) /\ openByKey \in [Skus \X Sides -> Nat]
      /\ <<sku, "buy">> \in Skus \X Sides
      /\ \A i \in DOMAIN orders : orders[i] \in Order /\ i # 0
  BY Indexes DEF Typed, TypeOK, Sides
<1>2. \A i \in DOMAIN orders : orders[i].sku = sku /\ orders[i].price \in Int
  BY <1>1 DEF OneProduct, Order
<1>3. BuyKey(sku) \in Nat
  BY <1>1 DEF BuyKey
<1>4. BuyKey(sku) # 0 => /\ BuyKey(sku) \in DOMAIN orders /\ IsOpen(BuyKey(sku))
                         /\ KeyOf(orders[BuyKey(sku)]) = <<sku, "buy">>
  BY <1>1 DEF BuyKey, Typed, KeyIndexSound
<1>5. ASSUME NEW i \in DOMAIN orders, IsOpen(i), orders[i].side = "buy"
      PROVE  i = BuyKey(sku)
  <2>1. KeyOf(orders[i]) = <<sku, "buy">>
    BY <1>2, <1>5 DEF KeyOf
  <2> QED BY <1>5, <2>1 DEF OpenHaveKeys, BuyKey
<1> QED BY <1>1, <1>2, <1>3, <1>4, <1>5 DEF KeyOf

\* A step that leaves the open bid and its reserve alone.
LEMMA ReserveKept ==
  ASSUME Typed, ReserveInv,
         \A sku \in Skus : /\ BuyKey(sku)' = BuyKey(sku)
                           /\ BuyKey(sku) # 0 => orders'[BuyKey(sku)] = orders[BuyKey(sku)],
         capital'.reserved = capital.reserved,
         capital'.cash \in Int, capital'.cash >= capital.cash,
         bid' = bid, NoBidWaiting' => NoBidWaiting,
         stage' # "match" /\ NoBidWaiting' => quoteCapital' = capital',
         \A n \in DOMAIN outbox' : outbox'[n].intent.side = "buy" => WillReserve(outbox[n].intent)'
  PROVE  ReserveInv'
<1>1. ASSUME NEW sku \in Skus
      PROVE  BidReserved(sku)'
  <2>1. BidReserved(sku)
    BY DEF ReserveInv
  <2>2. capital.cash \in Int /\ ExpectedBuyFees \in Int
    BY PolicyAssumption DEF Typed, TypeOK, Capital
  <2>3. BuyKey(sku) # 0 => orders[BuyKey(sku)].price \in Int
    <3>1. BuyKey(sku) # 0 => BuyKey(sku) \in DOMAIN orders
      BY DEF Typed, KeyIndexSound, BuyKey, Sides
    <3> QED BY <3>1, OrderKeys DEF Typed, TypeOK, Order
  <2>4. BuyKey(sku)' = BuyKey(sku)
    OBVIOUS
  <2>5. BuyKey(sku) # 0 => orders'[BuyKey(sku)] = orders[BuyKey(sku)]
    OBVIOUS
  <2> QED BY <2>1, <2>2, <2>3, <2>4, <2>5 DEF BidReserved
<1> QED BY <1>1 DEF ReserveInv

\* A step that frees the buy key and the reserve with it.
LEMMA ReserveFreed ==
  ASSUME ReserveInv,
         \A sku \in Skus : BuyKey(sku)' = 0,
         capital'.reserved = 0,
         bid' \in {bid, None}, NoBidWaiting',
         stage' # "match" => quoteCapital' = capital'
  PROVE  ReserveInv'
BY DEF ReserveInv, BidReserved, NoBidWaiting

\* The gate's answer to an intent on the bid: whatever the active bid had
\* reserved is released, so the reserve becomes the new principal alone.
LEMMA ReserveOfDecision ==
  ASSUME OneProduct, Typed, OutboxInv, KeyInv, ReserveInv, stage = "reconcileBid",
         NEW intent, intent.side = "buy", NEW quote, GateBid(intent, quote),
         IF bid = None THEN intent.kind = "place" /\ intent.release = 0
                       ELSE intent.kind # "place" /\ intent.release = bid.price,
         IF intent.kind = "cancel"
         THEN intent.principal = 0 /\ quote = None
         ELSE /\ intent.price \in Int /\ intent.principal = intent.price
              /\ quote.price = intent.price
  PROVE  ReserveInv'
<1>1. /\ outbox = <<>> /\ quoteCapital = capital
      /\ capital \in Capital /\ capital.reserved \in Int /\ capital.cash \in Int
      /\ stage' = "reconcileAsk" /\ capital' = capital
      /\ orders' = orders /\ openByKey' = openByKey
      /\ bid # None => bid.price \in Int /\ bid.price > 0
      /\ ExpectedBuyFees \in Int
  BY EmptySeq, ReservesTyped, PolicyAssumption
  DEF OutboxInv, ReserveInv, NoBidWaiting, Typed, TypeOK, Capital, GateBid, bookVars
<1>2. CASE ~Accepts(intent, quoteCapital)
  <2>1. UNCHANGED <<quoteCapital, bid, outbox>>
    BY <1>2 DEF GateBid
  <2> QED BY <1>1, <2>1 DEF ReserveInv, BidReserved, BuyKey, NoBidWaiting, WillReserve
<1>3. CASE Accepts(intent, quoteCapital)
  <2> DEFINE d == [intent |-> intent, capital |-> CapitalAfter(intent, quoteCapital)]
  <2>1. /\ quoteCapital' = CapitalAfter(intent, quoteCapital) /\ bid' = quote
        /\ outbox' = Append(<<>>, d)
    BY <1>1, <1>3 DEF GateBid
  <2>2. d.intent = intent
    OBVIOUS
  <2> HIDE DEF d
  <2>3. DOMAIN outbox' = {1} /\ outbox'[1].intent = intent
    BY <2>1, <2>2
  <2>4. /\ intent.release \in 0 .. capital.reserved
        /\ intent.kind # "cancel" => BuyFits(intent, capital)
    BY <1>1, <1>3 DEF Accepts
  <2>5. intent.release = capital.reserved
    <3>1. PICK sku : Skus = {sku}
      BY DEF OneProduct
    <3>2. BidReserved(sku)
      BY <3>1 DEF ReserveInv
    <3>3. CASE bid = None
      <4>1. BuyKey(sku) = 0
        BY <1>1, <3>1, <3>3, EmptySeq DEF KeyInv, QuietSide, Active, Sides, BuyKey
      <4> QED BY <3>2, <3>3, <4>1 DEF BidReserved
    <3>4. CASE bid # None
      <4>1. BuyKey(sku) # 0
        BY <1>1, <2>4, <3>2, <3>4 DEF BidReserved
      <4>2. NoBidWaiting
        BY <1>1, EmptySeq DEF NoBidWaiting
      <4> QED BY <3>2, <3>4, <4>1, <4>2 DEF BidReserved
    <3> QED BY <3>3, <3>4
  <2>6. intent.principal \in Int /\ intent.release \in Int
    BY <1>1, <2>5
  <2>7. quoteCapital'.reserved = intent.principal /\ quoteCapital'.cash = capital.cash
    BY <1>1, <2>1, <2>5, <2>6 DEF CapitalAfter, Capital
  <2>8. intent.kind # "cancel" =>
          intent.price > 0 /\ intent.price + ExpectedBuyFees <= capital.cash
    BY <1>1, <2>4, <2>5, <2>6 DEF BuyFits
  <2>9. WillReserve(intent)'
    BY <2>1, <2>7, <2>8 DEF WillReserve
  <2>10. ~NoBidWaiting'
    BY <2>3 DEF NoBidWaiting
  <2>11. \A sku \in Skus : BidReserved(sku)'
    BY <1>1, <2>10 DEF ReserveInv, BidReserved, BuyKey
  <2>12. bid' # None => bid'.price > 0
    BY <2>1, <2>8
  <2>13. \A n \in DOMAIN outbox' : outbox'[n].intent = intent
    BY <2>3
  <2> QED BY <2>9, <2>10, <2>11, <2>12, <2>13 DEF ReserveInv, WillReserve
<1> QED BY <1>2, <1>3

\* A decision on the ask waits behind the bid's.
LEMMA ReserveOfAsk ==
  ASSUME Typed, OutboxInv, ReserveInv, stage = "reconcileAsk",
         NEW intent, intent.side = "sell", NEW quote, GateAsk(intent, quote)
  PROVE  ReserveInv'
<1> DEFINE d == [intent |-> intent, capital |-> quoteCapital]
           S == {outbox[n] : n \in DOMAIN outbox} \cup {d}
<1>1. /\ outbox' = Append(outbox, d) /\ stage' = "submit" /\ bid' = bid
      /\ quoteCapital' = quoteCapital /\ capital' = capital
      /\ orders' = orders /\ openByKey' = openByKey
  BY DEF GateAsk
<1>2. d.intent.side = "sell"
  OBVIOUS
<1>3. outbox \in Seq(S) /\ d \in S
  <2>1. outbox \in Seq(Decision)
    BY DEF Typed, TypeOK
  <2> HIDE DEF d
  <2> QED BY <2>1
<1> HIDE DEF d, S
<1>4. /\ \A n \in DOMAIN outbox' : \/ n \in DOMAIN outbox /\ outbox'[n] = outbox[n]
                                   \/ outbox'[n] = d
      /\ \A n \in DOMAIN outbox : n \in DOMAIN outbox' /\ outbox'[n] = outbox[n]
  BY <1>1, <1>3
<1>5. NoBidWaiting' <=> NoBidWaiting
  BY <1>2, <1>4 DEF NoBidWaiting
<1>6. \A n \in DOMAIN outbox' : outbox'[n].intent.side = "buy" => WillReserve(outbox[n].intent)'
  BY <1>1, <1>2, <1>4 DEF ReserveInv, WillReserve
<1>7. capital.cash \in Int
  BY DEF Typed, TypeOK, Capital
<1> QED BY <1>1, <1>5, <1>6, <1>7, ReserveKept DEF ReserveInv, BuyKey

\* The operator's cancel of the bid releases what the open bid had reserved.
LEMMA ReserveOfCancel ==
  ASSUME OneProduct, KeyedCancels, Typed, OutboxInv, KeyInv, ReserveInv,
         NEW side \in CancelSides, NEW sku \in Skus, NEW form \in CancelForms,
         OperatorCancel(side, sku, form)
  PROVE  ReserveInv'
<1> DEFINE found == {i \in OpenOrders(sku) : orders[i].side = side}
           first == CHOOSE i \in found : \A j \in found : i <= j
           release == IF found # {} THEN Principal(orders[first]) ELSE 0
           intent == [kind |-> "cancel", side |-> side, sku |-> sku, price |-> 0,
                      principal |-> 0, release |-> release]
           key == <<sku, side>>
           k == BuyKey(sku)
<1>0. /\ capital \in Capital /\ capital.reserved \in Int /\ capital.cash \in Int
      /\ orders \in Seq(Order) /\ openByKey \in [Skus \X Sides -> Nat] /\ 0 \in Nat
      /\ side \in Sides /\ form = "keyed" /\ Skus = {sku}
  BY OperatorAssumption DEF Typed, TypeOK, Capital, Sides, KeyedCancels, OneProduct
<1>1. /\ outbox = <<>> /\ outbox' = <<>> /\ NoBidWaiting /\ NoBidWaiting' /\ stage' = stage
      /\ stage = "idle"
  BY EmptySeq DEF OutboxInv, OperatorCancel, Idle, NoBidWaiting, handlerVars
<1>2. /\ capital' = CapitalAfter(intent, capital) /\ quoteCapital' = CapitalAfter(intent, capital)
      /\ bid' = IF side = "buy" THEN None ELSE bid
  BY DEF OperatorCancel
<1>3. IF openByKey[key] # 0
      THEN orders' = Close(openByKey[key], "cancelled") /\ openByKey' = [openByKey EXCEPT ![key] = 0]
      ELSE orders' = orders /\ openByKey' = openByKey
  BY <1>0 DEF OperatorCancel, Close
<1>4. /\ k \in Nat
      /\ k # 0 => /\ k \in DOMAIN orders /\ IsOpen(k) /\ orders[k] \in Order
                  /\ orders[k].side = "buy" /\ orders[k].sku = sku
      /\ \A i \in DOMAIN orders : IsOpen(i) /\ orders[i].side = "buy" => i = k /\ i # 0
  BY TheOpenBid DEF KeyInv
<1>5. BidReserved(sku)
  BY DEF ReserveInv
<1>6. CASE side = "buy"
  <2>1. release = capital.reserved
    <3>1. CASE k = 0
      <4>1. found = {}
        BY <1>4, <1>6, <3>1 DEF OpenOrders
      <4> QED BY <1>5, <3>1, <4>1 DEF BidReserved
    <3>2. CASE k # 0
      <4>1. found = {k}
        BY <1>4, <1>6, <3>2 DEF OpenOrders
      <4> HIDE DEF found
      <4>2. first \in found
        BY <1>4, <4>1
      <4>3. first = k
        BY <4>1, <4>2
      <4>4. found # {}
        BY <4>1
      <4>5. release = Principal(orders[k])
        BY <4>3, <4>4
      <4> QED BY <1>4, <1>5, <3>2, <4>5 DEF BidReserved, Principal
    <3> QED BY <3>1, <3>2
  <2> HIDE DEF release
  <2>2. capital'.reserved = 0
    BY <1>0, <1>2, <1>6, <2>1 DEF CapitalAfter, Capital
  <2>3. openByKey'[key] = 0
    BY <1>0, <1>3, KeyUpdateTyped
  <2>4. \A t \in Skus : BuyKey(t)' = 0
    BY <1>0, <1>6, <2>3 DEF BuyKey
  <2> QED BY <1>1, <1>2, <1>6, <2>2, <2>4, ReserveFreed
<1>7. CASE side = "sell"
  <2>1. capital' = capital /\ quoteCapital' = capital /\ bid' = bid
    BY <1>2, <1>7 DEF CapitalAfter
  <2>2. openByKey'[<<sku, "buy">>] = k
    <3>1. <<sku, "buy">> # key /\ <<sku, "buy">> \in Skus \X Sides
      BY <1>7 DEF Sides
    <3> QED BY <1>0, <1>3, <3>1, KeyUpdateTyped DEF BuyKey
  <2>3. k # 0 => orders'[k] = orders[k]
    <3>1. openByKey[key] # 0 => /\ openByKey[key] \in DOMAIN orders
                                /\ KeyOf(orders[openByKey[key]]) = key
      BY <1>0 DEF Typed, KeyIndexSound
    <3>2. k # 0 /\ openByKey[key] # 0 => k # openByKey[key]
      BY <1>4, <1>7, <3>1 DEF KeyOf
    <3>3. ASSUME k # 0, openByKey[key] # 0
          PROVE  orders'[k] = orders[k]
      <4> DEFINE held == openByKey[key]
      <4>1. held \in DOMAIN orders /\ k # held /\ k \in DOMAIN orders
        BY <1>4, <3>1, <3>2, <3>3
      <4>2. orders' = Close(held, "cancelled")
        BY <1>3, <3>3
      <4> HIDE DEF held, k
      <4> QED BY <1>0, <4>1, <4>2, CloseTyped DEF OrderStatuses
    <3> HIDE DEF k
    <3> QED BY <1>3, <3>3
  <2>4. \A t \in Skus : /\ BuyKey(t)' = BuyKey(t)
                        /\ BuyKey(t) # 0 => orders'[BuyKey(t)] = orders[BuyKey(t)]
    BY <1>0, <2>2, <2>3 DEF BuyKey
  <2>5. \A n \in DOMAIN outbox' : FALSE
    BY <1>1, EmptySeq
  <2> QED BY <1>0, <1>1, <2>1, <2>4, <2>5, ReserveKept
<1> QED BY <1>0, <1>6, <1>7 DEF Sides

\* A fill frees the reserve with the bid, or leaves both and brings cash.
LEMMA ReserveOfFill ==
  ASSUME OneProduct, Typed, OutboxInv, KeyInv, ReserveInv, NEW i \in todo,
         FillBuy(i) \/ \E l \in DOMAIN lots : FillSell(i, l)
  PROVE  ReserveInv'
<1>0. /\ capital \in Capital /\ capital.reserved \in Int /\ capital.cash \in Int
      /\ orders \in Seq(Order) /\ openByKey \in [Skus \X Sides -> Nat]
  BY DEF Typed, TypeOK, Capital
<1>1. /\ Matching(i) /\ stage = "match" /\ stage' = stage /\ bid' = bid
      /\ orders' = Close(i, "filled") /\ openByKey' = PopKey(orders[i])
      /\ DOMAIN outbox' = {} /\ NoBidWaiting' /\ NoBidWaiting
  BY EmptySeq DEF FillBuy, Buyable, BookBuy, FillSell, BookSell, Matching, OutboxInv,
                  NoBidWaiting, quoteVars
<1>2. i \in DOMAIN orders /\ IsOpen(i) /\ orders[i] \in Order /\ batch # <<>>
  BY <1>1, MatchingOrder
<1>3. /\ PopKey(orders[i])[KeyOf(orders[i])] = 0
      /\ \A k \in Skus \X Sides : k # KeyOf(orders[i]) => openByKey'[k] = openByKey[k]
  BY <1>0, <1>1, <1>2, PopKeyTyped
<1>4. CASE FillBuy(i)
  <2>1. orders[i].side = "buy" /\ capital' = AfterBuy(orders[i])
    BY <1>4 DEF FillBuy, Buyable
  <2>2. ASSUME NEW sku \in Skus
        PROVE  BuyKey(sku)' = 0 /\ capital'.reserved = 0
    <3>1. i = BuyKey(sku) /\ i # 0 /\ orders[i].sku = sku /\ orders[i].price \in Int
      BY <1>2, <2>1, TheOpenBid DEF KeyInv
    <3>2. BuyKey(sku)' = 0
      BY <1>1, <1>3, <2>1, <3>1 DEF BuyKey, KeyOf
    <3>3. capital.reserved = orders[i].price
      BY <3>1 DEF ReserveInv, BidReserved
    <3> QED BY <2>1, <3>1, <3>2, <3>3 DEF AfterBuy, Principal
  <2>3. Skus # {}
    BY DEF OneProduct
  <2> QED BY <1>1, <2>2, <2>3, ReserveFreed
<1>5. ASSUME NEW l \in DOMAIN lots, FillSell(i, l)
      PROVE  ReserveInv'
  <2>1. /\ orders[i].side = "sell" /\ SaleProceeds(orders[i]) >= 0
        /\ capital' = [capital EXCEPT !.cash = @ + SaleProceeds(orders[i])]
    BY <1>5 DEF FillSell, BookSell, CanSell
  <2>2. SaleProceeds(orders[i]) \in Int
    BY <1>2, FillPricesTyped DEF Typed
  <2>3. /\ capital'.reserved = capital.reserved /\ capital'.cash \in Int
        /\ capital'.cash >= capital.cash
    BY <1>0, <2>1, <2>2 DEF Capital
  <2>4. ASSUME NEW sku \in Skus
        PROVE  /\ BuyKey(sku)' = BuyKey(sku)
               /\ BuyKey(sku) # 0 => orders'[BuyKey(sku)] = orders[BuyKey(sku)]
    <3>1. <<sku, "buy">> \in Skus \X Sides /\ <<sku, "buy">> # KeyOf(orders[i])
      BY <2>1 DEF Sides, KeyOf
    <3>2. BuyKey(sku) # 0 => BuyKey(sku) \in DOMAIN orders /\ BuyKey(sku) # i
      BY <2>1, TheOpenBid DEF KeyInv
    <3>3. \A j \in DOMAIN orders : j # i => orders'[j] = orders[j]
      BY ZenonT(30), <1>0, <1>1, <1>2, CloseTyped DEF OrderStatuses
    <3> QED BY <1>3, <3>1, <3>2, <3>3 DEF BuyKey
  <2>5. \A n \in DOMAIN outbox' : FALSE
    BY <1>1
  <2> QED BY <1>1, <2>3, <2>4, <2>5, ReserveKept
<1> QED BY <1>4, <1>5

\* A submitted decision on the bid becomes the reserve it announced; one on the
\* ask moves no capital, for the bid's is through.
LEMMA ReserveOfSubmit ==
  ASSUME OneProduct, Typed, OutboxInv, KeyInv, ReserveInv, SubmitOrder \/ SubmitCancel
  PROVE  ReserveInv'
<1> DEFINE intent == Head(outbox).intent
           key == <<intent.sku, intent.side>>
           held == openByKey[key]
<1>1. /\ outbox # <<>> /\ outbox' = Tail(outbox) /\ stage = "submit" /\ stage' = stage
      /\ bid' = bid /\ quoteCapital' = quoteCapital /\ capital' = Head(outbox).capital
  BY DEF SubmitOrder, SubmitCancel, quoteVars
<1>2. /\ Head(outbox) = outbox[1] /\ 1 \in DOMAIN outbox
      /\ \A n \in DOMAIN outbox' :
           n + 1 \in DOMAIN outbox /\ n \in Nat /\ n # 0 /\ outbox'[n] = outbox[n + 1]
  BY <1>1, HeadLeaves
<1>3. /\ capital' = quoteCapital /\ quoteCapital \in Capital /\ quoteCapital.cash \in Int
      /\ orders \in Seq(Order) /\ openByKey \in [Skus \X Sides -> Nat] /\ 0 \in Nat
  BY <1>1, <1>2 DEF OutboxInv, Typed, TypeOK, Capital
<1>4. NoBidWaiting' /\ \A n \in DOMAIN outbox' : outbox'[n].intent.side # "buy"
  BY <1>2 DEF OutboxInv, NoBidWaiting
<1>5. intent \in Intent /\ intent.sku \in Skus /\ intent.side \in Sides /\ Skus = {intent.sku}
  BY <1>1, Submitted DEF OneProduct
<1>6. held # 0 => held \in DOMAIN orders /\ KeyOf(orders[held]) = key
  BY <1>1, Submitted
<1>7. SubmitCancel => /\ intent.kind = "cancel"
                      /\ orders' = IF held # 0 THEN Close(held, "cancelled") ELSE orders
                      /\ openByKey' = [openByKey EXCEPT ![key] = 0]
  BY DEF SubmitCancel
<1>8. SubmitOrder => /\ DOMAIN orders' = 1 .. Len(orders) + 1 /\ DOMAIN orders = 1 .. Len(orders)
                     /\ Len(orders) \in Nat
                     /\ orders'[Len(orders) + 1] = NewOrder(intent)
                     /\ \A j \in DOMAIN orders : j # held => orders'[j] = orders[j]
                     /\ openByKey'[key] = Len(orders) + 1
                     /\ \A k \in Skus \X Sides : k # key => openByKey'[k] = openByKey[k]
                     /\ intent.kind # "cancel"
  BY OrderAppended DEF SubmitOrder
<1> HIDE DEF intent
<1>9. CASE intent.side = "buy"
  <2>1. WillReserve(intent)
    BY <1>2, <1>9 DEF ReserveInv, intent
  <2>2. CASE SubmitCancel
    <3>1. capital'.reserved = 0
      BY <1>3, <1>7, <2>1, <2>2 DEF WillReserve
    <3>2. \A sku \in Skus : BuyKey(sku)' = 0
      <4>1. openByKey'[key] = 0
        BY <1>3, <1>5, <1>7, <2>2, KeyUpdateTyped
      <4> QED BY <1>5, <1>9, <4>1 DEF BuyKey
    <3> QED BY <1>1, <1>3, <1>4, <3>1, <3>2, ReserveFreed
  <2>3. CASE SubmitOrder
    <3> DEFINE last == Len(orders) + 1
    <3>1. /\ last # 0 /\ orders'[last].price = intent.price
          /\ \A sku \in Skus : BuyKey(sku)' = last
      BY <1>5, <1>8, <1>9, <2>3 DEF NewOrder, BuyKey
    <3>2. bid # None
      BY <1>2, <1>8, <1>9, <2>3 DEF KeyInv, WaitingFits, Active, intent
    <3>3. /\ capital'.reserved = intent.price /\ bid'.price = intent.price
          /\ intent.price + ExpectedBuyFees <= capital'.cash /\ intent.price > 0
      BY <1>1, <1>3, <1>8, <2>1, <2>3, <3>2 DEF WillReserve, ReserveInv
    <3> HIDE DEF last
    <3>4. \A sku \in Skus : BidReserved(sku)'
      BY <3>1, <3>3 DEF BidReserved
    <3> QED BY <1>1, <1>3, <1>4, <3>2, <3>3, <3>4 DEF ReserveInv
  <2> QED BY <2>2, <2>3
<1>10. CASE intent.side = "sell"
  <2>1. NoBidWaiting /\ quoteCapital = capital
    <3>1. NoBidWaiting
      BY <1>2, <1>10 DEF OutboxInv, NoBidWaiting, intent
    <3> QED BY <1>1, <3>1 DEF ReserveInv
  <2>2. ASSUME NEW sku \in Skus
        PROVE  /\ BuyKey(sku)' = BuyKey(sku)
               /\ BuyKey(sku) # 0 => orders'[BuyKey(sku)] = orders[BuyKey(sku)]
    <3> DEFINE k == BuyKey(sku)
    <3>1. <<sku, "buy">> \in Skus \X Sides /\ <<sku, "buy">> # key
      BY <1>10 DEF Sides
    <3>2. k # 0 => /\ k \in DOMAIN orders /\ orders[k].side = "buy"
      BY TheOpenBid DEF KeyInv
    <3>3. k # 0 /\ held # 0 => k # held
      BY <1>6, <1>10, <3>2 DEF KeyOf
    <3>4. openByKey'[<<sku, "buy">>] = openByKey[<<sku, "buy">>]
      BY <1>3, <1>5, <1>7, <1>8, <3>1, KeyUpdateTyped
    <3>5. ASSUME k # 0
          PROVE  orders'[k] = orders[k]
      <4>1. CASE SubmitOrder
        BY <1>8, <3>2, <3>3, <3>5, <4>1
      <4>2. CASE SubmitCancel
        <5>1. held # 0 => orders' = Close(held, "cancelled") /\ held \in DOMAIN orders
          BY <1>6, <1>7, <4>2
        <5>2. held = 0 => orders' = orders
          BY <1>7, <4>2
        <5>3. k \in DOMAIN orders /\ (held # 0 => k # held)
          BY <3>2, <3>3, <3>5
        <5> HIDE DEF held, k
        <5>4. CASE held # 0
          <6>1. held \in DOMAIN orders /\ k # held /\ orders' = Close(held, "cancelled")
            BY <5>1, <5>3, <5>4
          <6> QED BY <1>3, <5>3, <6>1, CloseTyped DEF OrderStatuses
        <5> QED BY <5>2, <5>4
      <4> QED BY <4>1, <4>2
    <3> QED BY <3>4, <3>5 DEF BuyKey
  <2>3. capital'.reserved = capital.reserved /\ capital'.cash \in Int /\ capital'.cash >= capital.cash
    BY <1>3, <2>1
  <2> QED BY <1>1, <1>3, <1>4, <2>1, <2>2, <2>3, ReserveKept
<1> QED BY <1>5, <1>9, <1>10 DEF Sides

LEMMA ReserveStep ==
  ASSUME OneProduct, KeyedCancels, Typed, OutboxInv, KeyInv, ReserveInv,
         [Next]_vars, [NoMatchRaises]_vars, [IntentsReachBook]_vars
  PROVE  ReserveInv'
<1> USE DEF bookVars, quoteVars, handlerVars
<1>0. capital \in Capital /\ capital.cash \in Int /\ capital.cash >= capital.cash
  BY DEF Typed, TypeOK, Capital
<1>1. CASE Load
  <2>1. \A sku \in Skus : BuyKey(sku)' = 0
    BY <1>1 DEF Load, BuyKey, Sides
  <2>2. /\ capital'.reserved = 0 /\ bid' = None /\ quoteCapital' = capital'
        /\ outbox' = <<>>
    BY <1>1 DEF Load, InitialCapital, Idle, OutboxInv
  <2> QED BY <2>1, <2>2, EmptySeq, ReserveFreed DEF NoBidWaiting
<1>2. ASSUME NEW side \in CancelSides, NEW sku \in Skus, NEW form \in CancelForms,
             OperatorCancel(side, sku, form)
      PROVE  ReserveInv'
  BY <1>2, ReserveOfCancel
<1>3. ASSUME NEW i \in todo, FillBuy(i) \/ \E l \in DOMAIN lots : FillSell(i, l)
      PROVE  ReserveInv'
  BY <1>3, ReserveOfFill
<1>4. ASSUME UNCHANGED <<orders, openByKey, capital, bid, outbox>>,
             quoteCapital' \in {quoteCapital, capital},
             stage' = "match" \/ stage # "match" \/ quoteCapital' = capital,
             quoteCapital' = quoteCapital \/ outbox = <<>>
      PROVE  ReserveInv'
  <2>1. NoBidWaiting' <=> NoBidWaiting
    BY <1>4 DEF NoBidWaiting
  <2>2. \A n \in DOMAIN outbox' : outbox'[n].intent.side = "buy" => WillReserve(outbox[n].intent)'
    BY <1>4, EmptySeq DEF ReserveInv, WillReserve
  <2>3. stage' # "match" /\ NoBidWaiting' => quoteCapital' = capital'
    BY <1>4, <2>1 DEF ReserveInv
  <2> QED BY <1>0, <1>4, <2>1, <2>2, <2>3, ReserveKept DEF BuyKey
<1>5. CASE Command \/ MatchStep \/ DecideStep
  <2>1. ASSUME NEW i \in todo, MatchRaises(i)
        PROVE  ReserveInv'
    <3>1. UNCHANGED vars
      BY <2>1 DEF NoMatchRaises
    <3> QED BY <3>1, <2>1 DEF MatchRaises, Matching, EndHandler, vars
  <2>2. outbox = <<>> /\ outbox' = <<>>
    <3>1. stage \in {"idle", "match", "decide"}
      BY <1>5, CommandsLeave DEF MatchStep, LeaveOpen, FillBuy, Buyable, MatchRaises, FillSell, BookSell,
                  Matching, Settle, DecideStep, DecideBase, DecideCancelAll, DecideNoOp,
                  DecidePause, InferenceRaises, DecideModelQuote
    <3> QED BY <1>5, <3>1, OutboxStaysEmpty DEF OutboxInv
  <2>3. \/ Load \/ \E i \in todo : MatchRaises(i)
        \/ \E side \in CancelSides, sku \in Skus, form \in CancelForms :
             OperatorCancel(side, sku, form)
        \/ \E i \in todo : FillBuy(i) \/ \E l \in DOMAIN lots : FillSell(i, l)
        \/ /\ UNCHANGED <<orders, openByKey, capital, bid>>
           /\ quoteCapital' \in {quoteCapital, capital}
           /\ stage' = "match" \/ stage # "match" \/ quoteCapital' = capital
    BY <1>5 DEF Command, Enable, Disable, SetMode, Tick, MatchStep, LeaveOpen, Matching,
                Settle, DecideStep, DecideBase, DecideCancelAll, DecideNoOp, DecidePause, InferenceRaises,
                DecideModelQuote, OnMarket, Idle
  <2> QED BY <1>1, <1>2, <1>3, <1>4, <2>1, <2>2, <2>3
<1>6. CASE ReconcileStep
  <2>1. CASE PlaceBid \/ \E aged \in BOOLEAN : ReplaceBid(aged)
    <3>1. desired.bid \in Int
      BY <2>1, DesiredPrice DEF PlaceBid, ReplaceBid
    <3> QED BY <2>1, <3>1, ReserveOfDecision DEF PlaceBid, ReplaceBid, QuoteIntent, NewQuote
  <2>2. CASE CancelBid
    BY <2>2, ReserveOfDecision DEF CancelBid, QuoteIntent
  <2>3. CASE \/ CancelAsk \/ \E aged \in BOOLEAN : ReplaceAsk(aged)
             \/ \E l \in DOMAIN lots : PlaceAsk(l)
    BY <2>3, ReserveOfAsk DEF CancelAsk, ReplaceAsk, PlaceAsk, QuoteIntent
  <2>4. CASE CancelAskRaises
    <3>1. UNCHANGED vars
      BY <2>4 DEF IntentsReachBook, NoCancelRaises
    <3> QED BY <3>1, <2>4 DEF CancelAskRaises, EndHandler, vars
  <2>5. CASE \E aged \in BOOLEAN : KeepBid(aged) \/ KeepAsk(aged)
    BY <1>4, <2>5 DEF KeepBid, KeepAsk
  <2> QED BY <1>6, <2>1, <2>2, <2>3, <2>4, <2>5 DEF ReconcileStep
<1>7. CASE SubmitOrder \/ SubmitCancel
  BY <1>7, ReserveOfSubmit
<1>8. CASE FinishEvent
  BY <1>4, <1>8 DEF FinishEvent
<1>9. CASE UNCHANGED vars
  BY <1>4, <1>9 DEF vars
<1>10. CASE FallbackAuditRaises \/ StepAuditRaises
  <2>1. outbox = <<>>
    BY <1>10
    DEF IntentsReachBook, NoIntentDropped, FallbackAuditRaises, StepAuditRaises, EndHandler, vars
  <2> QED BY <1>4, <1>10, <2>1 DEF FallbackAuditRaises, StepAuditRaises, EndHandler
<1> QED BY <1>5, <1>6, <1>7, <1>8, <1>9, <1>10 DEF Next, SubmitStep

\* The principal of the open buys is the one open bid's price.
LEMMA PrincipalIsReserve ==
  ASSUME OneProduct, Typed, KeyInv, ReserveInv
  PROVE  capital.reserved = OpenBuyPrincipal
<1>0. PICK sku : Skus = {sku}
  BY DEF OneProduct
<1> DEFINE k == BuyKey(sku)
           n == Len(orders)
           f == [i \in DOMAIN orders |-> IF IsOpen(i) THEN Principal(orders[i]) ELSE 0]
           z == [i \in DOMAIN orders |-> 0]
<1>1. /\ n \in Nat /\ DOMAIN orders = 1 .. n
      /\ \A i \in DOMAIN orders : orders[i] \in Order
  BY Indexes DEF Typed, TypeOK
<1>2. /\ k # 0 => /\ k \in DOMAIN orders /\ IsOpen(k)
                  /\ orders[k].side = "buy" /\ orders[k].price \in Int
      /\ \A i \in DOMAIN orders : IsOpen(i) /\ orders[i].side = "buy" => i = k /\ i # 0
  BY <1>0, TheOpenBid DEF KeyInv
<1>3. \A i \in 1 .. n : f[i] = IF k # 0 /\ i = k THEN orders[k].price ELSE 0
  BY <1>1, <1>2 DEF Principal
<1>4. \A i \in 1 .. n : z[i] = 0 /\ z[i] \in Int /\ f[i] \in Int
  BY <1>1, <1>2, <1>3
<1>5. OpenBuyPrincipal = SumTo(f, n)
  BY DEF OpenBuyPrincipal
<1>6. capital.reserved = IF k = 0 THEN 0 ELSE orders[k].price
  BY <1>0 DEF ReserveInv, BidReserved
<1> HIDE DEF f, z, n, k
<1>7. SumTo(z, n) = 0
  BY <1>1, <1>4, SumZero
<1>8. CASE k = 0
  BY <1>1, <1>3, <1>5, <1>6, <1>8, SumZero
<1>9. CASE k # 0
  <2>1. k \in 1 .. n /\ \A i \in 1 .. n : i # k => f[i] = z[i]
    BY <1>1, <1>2, <1>3, <1>4, <1>9
  <2>2. SumTo(f, n) = (SumTo(z, n) - z[k]) + f[k]
    BY <1>1, <1>4, <2>1, SumChange
  <2> QED BY <1>2, <1>3, <1>4, <1>5, <1>6, <1>7, <1>9, <2>1, <2>2
<1> QED BY <1>8, <1>9

LEMMA ReserveInitially == Init => ReserveInv
BY NoKeysTyped, EmptySeq DEF Init, ReserveInv, BidReserved, BuyKey, InitialCapital, Sides

\* The reserve is exactly the principal of the open bids, where one product is
\* quoted and cancels name their key, as long as no fill raises and what the
\* quote engine accepts reaches the book.
THEOREM NoReservationLeaks ==
  ASSUME OneProduct, KeyedCancels
  PROVE  Spec /\ [][NoMatchRaises]_vars /\ [][IntentsReachBook]_vars => []ReservationExact
<1>1. IInv /\ OutboxInv /\ KeyInv /\ ReserveInv /\ [Next]_vars
        /\ [NoMatchRaises]_vars /\ [IntentsReachBook]_vars => ReserveInv'
  BY ReserveStep DEF IInv
<1>2. IInv /\ KeyInv /\ ReserveInv => ReservationExact
  BY PrincipalIsReserve DEF IInv, ReservationExact
<1> QED
  BY <1>1, <1>2, ReserveInitially, Invariance, OutboxInOrder, KeyInvariance, PTL DEF Spec

-----------------------------------------------------------------------------
(* Matched orders settle *)

\* The gate expects at least the shipping a buy will be charged.
FeesExpected == InboundShipping <= ExpectedBuyFees

\* The market asks a price, and bids more than a sell slips.
MarketPriced == \A e \in Events : e.ask > 0 /\ e.bid > SellSlippage

\* A bid the gate accepted can be paid whenever the market reaches it.
LEMMA OpenBuysSettle ==
  ASSUME OneProduct, FeesExpected, MarketPriced, Typed, KeyInv, ReserveInv,
         stage = "match", NEW i \in todo, orders[i].side = "buy"
  PROVE  CanBuy(orders[i])
<1>1. /\ batch # <<>> /\ i \in DOMAIN orders /\ IsOpen(i) /\ orders[i].sku \in Skus
      /\ orders[i].price \in Int
  <2>1. batch # <<>> /\ i \in DOMAIN orders /\ IsOpen(i)
    BY DEF Typed, StageInv, OpenOrders
  <2>2. orders[i] \in Order
    BY <2>1, OrderKeys DEF Typed, TypeOK
  <2> QED BY <2>1, <2>2 DEF Order
<1>2. Event.ask \in Int /\ Event.ask > 0
  BY <1>1, EventTyped DEF Typed, MarketPriced
<1>3. i = BuyKey(orders[i].sku) /\ i # 0
  BY <1>1, TheOpenBid DEF KeyInv
<1>4. /\ capital.reserved = orders[i].price /\ orders[i].price > 0
      /\ orders[i].price + ExpectedBuyFees <= capital.cash
  BY <1>1, <1>3 DEF ReserveInv, BidReserved
<1>5. capital.cash \in Int
  BY DEF Typed, TypeOK, Capital
<1>6. /\ InboundShipping \in Int /\ ExpectedBuyFees \in Int /\ BuySlippage \in Nat
      /\ InboundShipping <= ExpectedBuyFees
  BY PolicyAssumption DEF FeesExpected
<1>7. BuyPrice(orders[i]) \in Int /\ BuyPrice(orders[i]) > 0 /\ BuyPrice(orders[i]) <= orders[i].price
  BY <1>1, <1>2, <1>4, <1>6 DEF BuyPrice, Least
<1> QED BY <1>1, <1>4, <1>5, <1>6, <1>7 DEF CanBuy, Principal, PurchaseCost

\* A sell at a positive price brings something after the sale fee.
LEMMA SellsSettle ==
  ASSUME MarketPriced, TypeOK, batch # <<>>, NEW o \in Order
  PROVE  CanSell(o)
<1>1. Event.bid \in Int /\ Event.bid > SellSlippage /\ SellSlippage \in Int
  BY EventTyped, PolicyAssumption DEF MarketPriced
<1>2. SellPrice(o) \in Int /\ SellPrice(o) > 0
  BY <1>1 DEF SellPrice, Greatest, Order
<1> DEFINE p == SellPrice(o)
           r == SaleRatePct
<1>3. r \in 0 .. 99
  BY PolicyAssumption
<1> HIDE DEF p, r
<1>4. p \in Int /\ p > 0
  BY <1>2 DEF p
<1>5. p * r \in Int /\ p * r <= 100 * p
  <2>1. \A a \in 1 .. 100 : p * a \in Int
    BY <1>4
  <2>2. p * (100 - r) \in Int /\ p * (100 - r) >= 0
    BY <1>3, <1>4
  <2>3. p * (100 - r) = 100 * p - p * r
    BY <1>3, <1>4
  <2> QED BY <1>3, <1>4, <2>2, <2>3
<1>6. \A x \in Int : x <= 100 * p => x \div 100 <= p
  BY <1>4
<1>7. (p * r) \div 100 \in Int /\ (p * r) \div 100 <= p
  BY <1>4, <1>5, <1>6
<1>8. p - (p * r) \div 100 >= 0
  BY <1>4, <1>7
<1> QED BY <1>2, <1>8 DEF p, r, CanSell, SaleProceeds

LEMMA NothingRaises ==
  ASSUME OneProduct, FeesExpected, MarketPriced, Typed, KeyInv, ReserveInv
  PROVE  NoMatchRaises
<1> SUFFICES ASSUME NEW i \in todo, MatchRaises(i)
             PROVE  FALSE
  BY DEF NoMatchRaises
<1>1. Matching(i) /\ stage = "match"
  BY DEF MatchRaises, Matching
<1>2. batch # <<>> /\ orders[i] \in Order
  BY <1>1, MatchingOrder
<1>3. orders[i].side = "buy" => CanBuy(orders[i])
  BY <1>1, OpenBuysSettle
<1>4. CanSell(orders[i])
  BY <1>2, SellsSettle DEF Typed
<1> QED BY <1>3, <1>4 DEF MatchRaises

\* No tick dies in the match loop: where one product is quoted, cancels name
\* their key and the gate expects the shipping it will pay, every open buy the
\* market reaches is covered, as long as what the quote engine
\* accepts reaches the book.
THEOREM EveryMatchSettles ==
  ASSUME OneProduct, KeyedCancels, FeesExpected, MarketPriced
  PROVE  Spec /\ [][IntentsReachBook]_vars => []MatchedOrdersSettle
<1>1. IInv /\ OutboxInv /\ KeyInv /\ ReserveInv /\ [Next]_vars /\ [IntentsReachBook]_vars
        => ReserveInv'
  BY ReserveStep, NothingRaises DEF IInv
<1>2. IInv /\ KeyInv /\ ReserveInv => MatchedOrdersSettle
  BY OpenBuysSettle DEF IInv, MatchedOrdersSettle
<1> QED
  BY <1>1, <1>2, ReserveInitially, Invariance, OutboxInOrder, KeyInvariance, PTL DEF Spec
=============================================================================
