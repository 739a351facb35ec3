-------------------------- MODULE TransitionExport --------------------------
(***************************************************************************)
(* How a paper run becomes training data: the fills of a tick are charged  *)
(* to cumulative costs and a fee ledger, each market event ends with the   *)
(* step effects and a checkpoint of the accounting, and an export pairs    *)
(* adjacent checkpoints into rows of the transition repository, identified *)
(* by run and index and immutable by content.                              *)
(*                                                                         *)
(* The book is PaperTrading's with one product, reduced to what the        *)
(* accounting reads: cash, fills, lots and which sides have a working      *)
(* order.  Whether an order crosses, what the gate accepts and where a     *)
(* handler raises is left open here; PaperTrading says when each happens.  *)
(***************************************************************************)
EXTENDS Sequences, FiniteSets, Sums

CONSTANTS
  Prices,      \* execution prices
  SaleFee,     \* SaleFee[p]: what a sale at p costs
  BuyFee,      \* inbound shipping of a purchase
  InitialCash,
  MaxRuns, MaxFills, MaxSteps, MaxBatch, MaxOrders   \* bounds

ASSUME PricesAssumption == Prices \subseteq Nat \ {0}
ASSUME FeesAssumption == BuyFee \in Nat /\ SaleFee \in [Prices -> Nat]
ASSUME CashAssumption == InitialCash \in Nat
ASSUME BoundsAssumption ==
  /\ MaxRuns \in Nat /\ MaxFills \in Nat /\ MaxSteps \in Nat
  /\ MaxBatch \in Nat /\ MaxOrders \in Nat

Sides == {"buy", "sell"}
CostNames == {"shipping", "seller_fees"}
Actions == {"NO_OP", "QUOTE"}

VARIABLES
  run,          \* the paper run (_run_id), 0 while there is none
  runs,         \* how many runs were created
  cash,         \* the capital's cash
  fills,        \* execution fills; a bought lot is named by its fill
  orders,       \* how many orders the run has placed
  working,      \* the sides that have an open order
  costs,        \* _seller_fees and _shipping, cumulative
  feeLedger,    \* _fee_ledger_ids without "opening": the charged fills
  checkpoints,  \* _checkpoints; the first is the opening one
  handler,      \* where the running tick stands
  repo          \* the transition repository: <<run, index>> to row

bookVars == <<cash, fills, orders, working>>
chargeVars == <<costs, feeLedger>>
vars == <<run, runs, bookVars, chargeVars, checkpoints, handler, repo>>

-----------------------------------------------------------------------------
(* Accounting of a book                                                    *)

Fee(f) == IF f.side = "buy" THEN BuyFee ELSE SaleFee[f.price]
CostOf(f) == IF f.side = "buy" THEN "shipping" ELSE "seller_fees"
Sold == {fills[i].lot : i \in {j \in DOMAIN fills : fills[j].side = "sell"}}
OpenLots == {i \in DOMAIN fills : fills[i].side = "buy"} \ Sold

InventoryCost ==
  SumTo([n \in DOMAIN fills |-> IF n \in OpenLots THEN fills[n].price + BuyFee ELSE 0],
        Len(fills))
Equity == cash + InventoryCost

\* What a later view of the book is compared with: everything is append-only,
\* so the identifiers of a view are the first so many.
View == [orders |-> orders, fills |-> Len(fills)]

\* Mutant of Checkpoint: the fills of the run instead of the step's.
CheckpointCumulative(before, action) ==
  [nav |-> Equity, costs |-> costs, ledger |-> feeLedger,
   state |-> [cash |-> cash, lots |-> OpenLots],
   proposed |-> action, post |-> action,
   orders |-> 1 .. orders, fills |-> 1 .. Len(fills),
   lots |-> {i \in 1 .. Len(fills) : fills[i].side = "buy"}]

Checkpoint(before, action) ==
  [nav |-> Equity,
   costs |-> costs,
   ledger |-> feeLedger,
   state |-> [cash |-> cash, lots |-> OpenLots],
   proposed |-> action, post |-> action,
   orders |-> (before.orders + 1) .. orders,
   fills |-> (before.fills + 1) .. Len(fills),
   lots |-> {i \in (before.fills + 1) .. Len(fills) : fills[i].side = "buy"}]

-----------------------------------------------------------------------------
(* The reward and the row of two adjacent checkpoints                      *)

NewEntries(before, after) == after.ledger \ before.ledger
CostIncrease(before, after) ==
  [c \in CostNames |-> after.costs[c] - before.costs[c]]

\* RewardBuilder: costs never fall, the ledger only grows, and every cost that
\* rose has a new ledger entry of its name; else the pair is quarantined.
Reconciles(before, after) ==
  /\ \A c \in CostNames : CostIncrease(before, after)[c] >= 0
  /\ before.ledger \subseteq after.ledger
  /\ \A c \in CostNames : CostIncrease(before, after)[c] # 0 =>
       \E e \in NewEntries(before, after) : e.cost = c

Reward(before, after) ==
  [navDelta |-> after.nav - before.nav,
   costs |-> CostIncrease(before, after),
   entries |-> NewEntries(before, after)]

Row(before, after) ==
  [state |-> before.state, next |-> after.state,
   proposed |-> after.proposed, post |-> after.post,
   reward |-> Reward(before, after),
   orders |-> after.orders, fills |-> after.fills, lots |-> after.lots]

\* The rows an export of the run offers: one for each adjacent pair that
\* reconciles.
Offered ==
  [id \in {<<run, i>> : i \in {j \in 1 .. Len(checkpoints) - 1 :
                                 Reconciles(checkpoints[j], checkpoints[j + 1])}} |->
     Row(checkpoints[id[2]], checkpoints[id[2] + 1])]

\* add_transition on a stored identity refuses other content (and the export
\* with it): the rows before the first refused one are stored.
Conflicts(rows) == {id \in DOMAIN rows \cap DOMAIN repo : rows[id] # repo[id]}
Added(rows) ==
  {id \in DOMAIN rows \ DOMAIN repo : \A c \in Conflicts(rows) : id[2] < c[2]}

-----------------------------------------------------------------------------
NoCosts == [c \in CostNames |-> 0]
Idle == [at |-> "idle", left |-> 0, todo |-> {}, produced |-> 0,
         before |-> [orders |-> 0, fills |-> 0],
         action |-> "NO_OP"]
Opening ==
  [nav |-> InitialCash, costs |-> NoCosts, ledger |-> {},
   state |-> [cash |-> InitialCash, lots |-> {}],
   proposed |-> "NO_OP", post |-> "NO_OP",
   orders |-> {}, fills |-> {}, lots |-> {}]

Init ==
  /\ run = 0 /\ runs = 0 /\ cash = InitialCash /\ fills = <<>> /\ orders = 0
  /\ working = {} /\ costs = NoCosts /\ feeLedger = {}
  /\ checkpoints = <<>> /\ handler = Idle /\ repo = <<>>

\* Mutant of Reset: the shipping and the seller fees of the last run stay.
ResetKeepsCosts ==
  /\ cash' = InitialCash /\ fills' = <<>> /\ orders' = 0 /\ working' = {}
  /\ feeLedger' = {}
  /\ UNCHANGED <<costs, handler, repo>>

\* _reset_book: a new book, no charge and no run; the repository stays.
Reset ==
  /\ cash' = InitialCash /\ fills' = <<>> /\ orders' = 0 /\ working' = {}
  /\ costs' = NoCosts /\ feeLedger' = {}
  /\ UNCHANGED <<handler, repo>>

\* Mutant of Load: a second load goes on under the identity of the first.
LoadSameRun ==
  /\ handler.at = "idle"
  /\ runs < MaxRuns
  /\ Reset
  /\ runs' = runs + 1
  /\ run' = 1
  /\ checkpoints' = <<Opening>>

\* load: the book is reset, then the store creates the run, then the opening
\* checkpoint is kept.
Load ==
  /\ handler.at = "idle"
  /\ runs < MaxRuns
  /\ Reset
  /\ runs' = runs + 1
  /\ run' = runs + 1
  /\ checkpoints' = <<Opening>>

\* Mutant of LoadFails: the checkpoints outlive their run.
LoadFailsKeepsCheckpoints ==
  /\ handler.at = "idle"
  /\ Reset
  /\ run' = 0
  /\ UNCHANGED <<runs, checkpoints>>

\* load whose run the store does not create.
LoadFails ==
  /\ handler.at = "idle"
  /\ Reset
  /\ run' = 0 /\ checkpoints' = <<>>
  /\ UNCHANGED runs

\* tick: the view of the book is taken once, before the first event.
Tick(n) ==
  /\ handler.at = "idle" /\ run > 0
  /\ Len(checkpoints) + n <= MaxSteps
  /\ handler' = [Idle EXCEPT !.at = "match", !.left = n, !.todo = working,
                             !.before = View, !.produced = Len(fills)]
  /\ UNCHANGED <<run, runs, bookVars, chargeVars, checkpoints, repo>>

\* match: the open order of a side crosses the event and fills.  A sale
\* delivers a lot that was bought; a purchase the cash cannot pay raises.
Fill(side, price, lot) ==
  /\ handler.at = "match" /\ side \in handler.todo
  /\ Len(fills) < MaxFills
  /\ \/ side = "buy" /\ lot = 0 /\ price + BuyFee <= cash
     \/ side = "sell" /\ lot \in OpenLots
  /\ LET f == [side |-> side, price |-> price, lot |-> lot] IN
       /\ cash' = IF side = "buy" THEN cash - (price + Fee(f))
                  ELSE cash + (price - Fee(f))
       /\ fills' = Append(fills, f)
  /\ working' = working \ {side}
  /\ handler' = [handler EXCEPT !.todo = @ \ {side}]
  /\ UNCHANGED <<run, runs, orders, chargeVars, checkpoints, repo>>

\* match: the open order of a side does not cross.
Skip(side) ==
  /\ handler.at = "match" /\ side \in handler.todo
  /\ handler' = [handler EXCEPT !.todo = @ \ {side}]
  /\ UNCHANGED <<run, runs, bookVars, chargeVars, checkpoints, repo>>

\* The ledger entries of the fills the event produced, those without a fee
\* left out, and their fees added to the cost of their kind.
Entry(k) == [cost |-> CostOf(fills[k]), fill |-> k]
Charged(produced) ==
  {Entry(k) : k \in {j \in (produced + 1) .. Len(fills) : Fee(fills[j]) > 0}}
FeesOf(produced, cost) ==
  SumTo([n \in DOMAIN fills |->
           IF n > produced /\ CostOf(fills[n]) = cost THEN Fee(fills[n]) ELSE 0],
        Len(fills))

\* _attribute_fill_fees for each fill match returned, after all of them.
Attribute ==
  /\ handler.at = "match" /\ handler.todo = {}
  /\ costs' = [c \in CostNames |-> costs[c] + FeesOf(handler.produced, c)]
  /\ feeLedger' = feeLedger \cup Charged(handler.produced)
  /\ handler' = [handler EXCEPT !.at = "quote"]
  /\ UNCHANGED <<run, runs, bookVars, checkpoints, repo>>

\* The strategy's intents, gated and submitted: placed orders and cancelled
\* ones passed the gate; a refused intent changes nothing but is an intent.
Quote(placed, cancelled, refused) ==
  /\ handler.at = "quote"
  /\ "sell" \in placed => OpenLots # {}
  /\ orders + Cardinality(placed) <= MaxOrders
  /\ orders' = orders + Cardinality(placed)
  /\ working' = (working \ cancelled) \cup placed
  /\ handler' = [handler EXCEPT
       !.at = "effects",
       !.action = IF placed \cup cancelled # {} \/ refused THEN "QUOTE" ELSE "NO_OP"]
  /\ UNCHANGED <<run, runs, cash, fills, chargeVars, checkpoints, repo>>

\* The model has no usable answer in iql_primary: no intents, no next event.
PauseForModel ==
  /\ handler.at = "quote"
  /\ handler' = [handler EXCEPT !.at = "effects", !.left = 1,
                                !.action = "NO_OP"]
  /\ UNCHANGED <<run, runs, bookVars, chargeVars, checkpoints, repo>>

\* Mutant of EmitStepEffects: the tick's view serves all its events.
EmitStepEffectsOneView ==
  /\ handler.at = "effects"
  /\ checkpoints' =
       Append(checkpoints, Checkpoint(handler.before, handler.action))
  /\ handler' = IF handler.left = 1 THEN Idle
                ELSE [handler EXCEPT !.at = "match", !.left = @ - 1, !.todo = working,
                                     !.produced = Len(fills)]
  /\ UNCHANGED <<run, runs, bookVars, chargeVars, repo>>

\* _emit_step_effects: the effects are stored, then the checkpoint is kept and
\* the view becomes the next event's.
EmitStepEffects ==
  /\ handler.at = "effects"
  /\ checkpoints' =
       Append(checkpoints, Checkpoint(handler.before, handler.action))
  /\ handler' = IF handler.left = 1 THEN Idle
                ELSE [handler EXCEPT !.at = "match", !.left = @ - 1, !.todo = working,
                                     !.before = View, !.produced = Len(fills)]
  /\ UNCHANGED <<run, runs, bookVars, chargeVars, repo>>

\* A statement of the tick raises: match at an order it cannot settle, the
\* strategy, or the store.  What the book and the charges have stays.
Raise ==
  /\ handler.at # "idle"
  /\ handler' = Idle
  /\ UNCHANGED <<run, runs, bookVars, chargeVars, checkpoints, repo>>

\* cancel and disable take working orders off the book.
OperatorCancel(sides) ==
  /\ handler.at = "idle" /\ sides \cap working # {}
  /\ working' = working \ sides
  /\ UNCHANGED <<run, runs, cash, fills, orders, chargeVars, checkpoints, handler, repo>>

\* export-from-run: at least two checkpoints; stored rows are found again.
Export ==
  /\ handler.at = "idle" /\ run > 0
  /\ Len(checkpoints) >= 2
  /\ repo' = [id \in DOMAIN repo \cup Added(Offered) |->
                IF id \in DOMAIN repo THEN repo[id] ELSE Offered[id]]
  /\ UNCHANGED <<run, runs, bookVars, chargeVars, checkpoints, handler>>

Next ==
  \/ Load
  \/ LoadFails
  \/ \E n \in 1 .. MaxBatch : Tick(n)
  \/ \E side \in Sides, price \in Prices, lot \in OpenLots \cup {0} :
       Fill(side, price, lot)
  \/ \E side \in Sides : Skip(side)
  \/ Attribute
  \/ \E placed \in SUBSET Sides, cancelled \in SUBSET working, refused \in BOOLEAN :
       Quote(placed, cancelled, refused)
  \/ PauseForModel
  \/ EmitStepEffects
  \/ Raise
  \/ \E sides \in SUBSET Sides : OperatorCancel(sides)
  \/ Export

Spec == Init /\ [][Next]_vars

-----------------------------------------------------------------------------
(* Properties                                                              *)

Steps == 2 .. Len(checkpoints)

\* Every variable has its type, the sums (costs, net asset values) aside; a
\* handler runs only under a run, and a run has its opening checkpoint.
ExportTypeOK ==
  /\ run \in 0 .. runs /\ runs \in Nat
  /\ cash \in Int /\ orders \in Nat /\ working \subseteq Sides
  /\ fills \in Seq([side : Sides, price : Prices, lot : Nat])
  /\ feeLedger \subseteq [cost : CostNames, fill : Nat]
  /\ handler \in [at : {"idle", "match", "quote", "effects"}, left : Int,
                  todo : SUBSET Sides, produced : Nat,
                  before : [orders : Nat, fills : Nat],
                  action : Actions]
  /\ handler.at # "idle" => run > 0
  /\ run = 0 <=> checkpoints = <<>>
  /\ DOMAIN repo \subseteq (1 .. runs) \X Nat

\* What a step reports it charges: every fill of a checkpoint that costs
\* something has its entry among the entries that are new in it, and an entry
\* for a fill it does not report (a tick raised between the two) is of a fill
\* no checkpoint of the run reports (session.py _cmd_tick, _emit_step_effects).
FeesTravelWithFills ==
  \A i \in Steps :
    LET new == {e.fill : e \in NewEntries(checkpoints[i - 1], checkpoints[i])}
    IN /\ \A f \in checkpoints[i].fills : Fee(fills[f]) > 0 => f \in new
       /\ \A j \in Steps : new \cap checkpoints[j].fills # {} => i = j

\* The fees of the fills that the ledger charges to a cost.
LedgerFees(ledger, cost) ==
  SumTo([n \in DOMAIN fills |->
           IF [cost |-> cost, fill |-> n] \in ledger THEN Fee(fills[n]) ELSE 0],
        Len(fills))

\* A cumulative cost is the fees of the ledger's entries of its name, in the
\* book and in every checkpoint, so every step reconciles: RewardBuilder
\* quarantines none of a run's steps (session.py, _attribute_fill_fees).
CostsAreFees ==
  /\ costs = [c \in CostNames |-> LedgerFees(feeLedger, c)]
  /\ \A i \in DOMAIN checkpoints :
       checkpoints[i].costs = [c \in CostNames |-> LedgerFees(checkpoints[i].ledger, c)]
  /\ \A i \in Steps : Reconciles(checkpoints[i - 1], checkpoints[i])

\* Exporting the run again finds its stored rows with the content it offers:
\* no TransitionConflict, whatever was ticked, loaded or raised in between.
ExportRepeatable ==
  \A id \in DOMAIN repo : id[1] = run => id \in DOMAIN Offered /\ repo[id] = Offered[id]

\* The rows of an episode are one trajectory, in every run ever exported: each
\* starts in the state the one before it ends in, and no fee entry and no fill
\* is in two of them.
EpisodesChain ==
  \A a, b \in DOMAIN repo : a[1] = b[1] =>
    /\ b[2] = a[2] + 1 => repo[a].next = repo[b].state
    /\ a # b => /\ repo[a].reward.entries \cap repo[b].reward.entries = {}
               /\ repo[a].fills \cap repo[b].fills = {}
=============================================================================
