# Verification of the continuous paper market-maker

TLA+ specifications of `sneaker_market_maker`: a program that replays recorded
market events for two sneaker families, keeps a two-sided paper quote through a
deterministic risk gate, fills its own paper orders against the replay, tracks
the lots it has bought, and exports what happened as training data for an
offline-learned policy that may in turn influence the quotes.

## 1. Inventory of the system

Paths are relative to `src/src/sneaker_market_maker/`. Section 8 says what of
this is not modelled.

### 1.1 Paper trading (`paper/`)

| Component | State it keeps | Operations | What must be true of it |
|---|---|---|---|
| `capital.py` `PaperCapital` | `cash`, `reserved_buy_principal` (immutable values; two components hold a copy) | `with_reservation`, `apply_buy_fill`, `apply_sell_fill` | cash never overdrawn; reserve within the cap; money neither lost nor invented |
| `gate.py` `DeterministicGate` | none | `evaluate` | a replace releases and reserves as one step; no intent accepted that breaks the cap or the cash |
| `quote_engine.py` `QuoteEngine` | its copy of the capital, `enabled`, one active bid, one active ask (for all products), the desired prices | `enable`, `disable`, `on_market`, `cancel_all_actives`, `sync_capital`, `clear_active` | the actives describe orders that are really open; disabled, it takes no risk |
| `execution.py` `PaperExecutionEngine` | the book's capital, orders, fills, the index of open orders by (family, style, size, side) | `submit` (place, replace, cancel), `match` | an order closes once; the index names open orders only; one open order per key |
| `inventory.py` `InventoryLedger` | lots and their states | `create_from_buy_fill`, `advance_to_available`, `reserve_for_ask`, `release_reservation`, `mark_sold` | no pair sold twice; a reserved lot belongs to one working ask |
| `mode_path.py`, `action_translator.py`, `strategy_mode.py` | the strategy mode | `apply_strategy_mode`, `translate`, `set_mode` | the model proposes, the gate decides; a failing model pauses `iql_primary` and is ignored in `advisory` |
| `session.py` `PaperOpsSession` | everything above, the run id, the pause reason, the idempotency table, the event list, the step checkpoints | fourteen commands through `execute` | a command that raises leaves the parts consistent with one another |
| `replay/simulator.py` | status, cursor, speed | `load`, `start`, `pause`, `resume`, `stop`, `tick` | each event is handed out once per pass, in order |
| `inference.py`, `artifact_bind.py`, `promote.py`, `ops_mode.py` | inference port, bound lineage, latency budget, registry state known to the session | `infer`, bind, promote | an incompatible or late model never authors a quote; the mode in force is one the registry authorises |
| `step_effects.py`, `export_transitions.py`, `transition_bridge.py`, `reward_projection.py` | none (reads the session's checkpoints) | capture, export | each exported step carries exactly the orders, fills and fees of that step |

How they interact: a REST command (`api/paper_routes.py`) runs
`PaperOpsSession.execute` in the event loop, so commands do not overlap.
`tick` takes a batch of events from the replay clock and for each one (1) lets
the execution engine match the open orders, (2) walks bought lots to
`AVAILABLE`, (3) copies the execution engine's capital into the quote engine,
(4) asks the strategy mode for desired prices, (5) lets the quote engine
reconcile its actives through the gate, *collecting* the decisions, (6) submits
the accepted ones to the execution engine, which takes over the capital the
gate computed, and (7) copies the capital back. Any of these may raise, and
nothing is rolled back.

### 1.2 Persistence, API and dashboard

| Component | State | What must be true of it |
|---|---|---|
| `persistence/paper_sql_store.py`, `paper_repository.py` | runs, book rows, audit rows | book and audit describe the same moment; audit numbers have no gap and no duplicate |
| `api/paper_routes.py`, `paper_events.py` | none; reads run in a thread pool beside commands | a projection shows a state the book was in |
| `frontend/src/ops` | the last snapshot | one refresh reads one state |

### 1.3 Research (`research/`)

| Component | State it keeps | Operations | What must be true of it |
|---|---|---|---|
| `registry/`, `qualification/`, `retrain/register_job.py` | models, an append-only audit | `register`, `transition`, `approve`, `register_trained_artifact` | the audit explains the stored states; the serving states are earned; an artifact is registered once |
| `persistence/research_repository.py`, `research_tables.py` | offline transitions and behaviour policies in PostgreSQL | `add_transition`, `add_correction` | rows never change; whoever races or retries sees one register; nothing is stored by half |
| `retrain/mixed_manifest.py`, `iql/dataset.py` | none | mix, batch | a job trains on the rows its manifest lists and on no quarantined one |
| `retrain/train_job.py`, `iql/trainer.py`, `iql/checkpoint.py`, `paper/artifact_bind.py` | a checkpoint directory: weights, manifest, `ops_lineage.json` | train, save, load, pin, bind, benchmark | weights a reader gets were saved whole, under the lineage it asked for |
| `episodes/builder.py` | none | `build` | every event is in one decision, at its time; no gap longer than the maintenance interval |
| `evaluation/splits.py` | none | `split` | no fold tests on what it trained on; results of earlier folds stay valid as episodes are added |
| `rewards/builder.py` | none | reward of a step | a cost that rose has an entry in the fee ledger |
| `transitions/service.py` | none | `validate_trainable` | a quarantined row is not trained on |
| `evaluation/harness.py`, `metrics.py`, `ope.py`, `encoding/`, `iql/math.py`, `networks.py`, `serving/recommender.py` | none | numbers | not modelled |

How they interact: `export-from-run` (`paper/export_transitions.py`) turns the
checkpoints a session kept into rows of a transition repository, the session's
own being the in-memory one; `ResearchRepository` is the shared one, which only
tests construct. A training job mixes the rows of an export with a historical
pin, trains, saves into the checkpoint directory, and its result is benchmarked
and registered; `bind-model` reads the same directory through its sidecar.
Episodes, their manifests and the splits are strung together by whoever runs an
experiment.

### 1.4 What is hard here

* **Partial failure.** `tick`, `disable` and `load` can raise between two of
  their effects, leaving the capital copies, the quote engine's actives, the
  book and the lots to disagree.
* **Stale state.** The quote engine remembers a quote that has filled; a
  gate decision carries the capital of the moment it was taken.
* **Long legal sequences.** The two products share one active bid and one
  active ask; manual cancels, mode changes and disables between ticks reach
  combinations no test visits.
* **Boundaries.** The cap and the cash checks combine a release and a
  reservation in one decision.
* **Files and transactions.** Two files renamed one after the other and a third
  written in place, with readers at any time; a look and an insert in one
  transaction, with the unique constraint to decide a race.
* **Accounting over time.** The fees of a fill are charged after the match,
  reported by a checkpoint and exported as the difference of two: an exception
  in between must not move them to another step.
* **Leakage.** Episodes of the same records, of the same lineage or out of
  order in the training and the test part of a fold.
* **Retry and concurrency at the edges.** Idempotency keys, the audit
  sequence, reads beside a running command, the pause reasons.

`PROJECT.json` lists each of these at its line under "hazards".

## 2. Modules

| Module | Models |
|---|---|
| `PaperTrading` | gate, quote engine, execution engine, inventory ledger, capital, strategy mode path and the session commands that change them |
| `PaperAccounts` | extends it with the properties that sum or count over the book |
| `PaperLedger` | the abstract specification: what the book promises, without prices and money |
| `MCPaperTrading` | small instances for TLC |
| `PaperTradingProofs` | type correctness, capital and index theorems; `PaperTrading` implements `PaperLedger`; orders fill once, lots are sold once, closed orders stay closed; then the theorems of `PaperAccounts`: cash, reserve, exposure, backing |
| `Sums`, `SumTheorems` | the running sum of a book's terms; what it does when a term is added or changed |
| `ModelRegistry` | the research registry, its audit, approval and registration |
| `ReplaySession` | extends it with the control plane of a session: replay clock, pauses, modes, latency budget, bind and promote |
| `MCReplaySession` | small instances for TLC |
| `ReplaySessionProofs` | the theorems of both |
| `PaperCommands` | the execution of a command around what it does: idempotency table, event stream, the store's transactions, crashes |
| `PaperJournal` | the abstract specification of the store: every run is the journal of one book |
| `PaperCommandsProofs` | the theorems of `PaperCommands`, among them that it implements `PaperJournal` |
| `TransitionExport`, `MCTransitionExport`, `TransitionExportProofs` | fills, fees, checkpoints and the rows exported from them; its theorems |
| `TransitionStore`, `MCTransitionStore` | the transition repository in PostgreSQL, shared by processes |
| `TransitionRegister`, `TransitionStoreProofs` | the abstract repository, as if calls came one at a time; that the store implements it |
| `TrainingData` | which rows are trained on |
| `ArtifactFiles`, `MCArtifactFiles` | extends it with the checkpoint directory: training jobs, the CI pin, readers |
| `CheckpointRegister`, `ArtifactFilesProofs` | the abstract directory, one whole checkpoint at a time; that the files implement it |
| `Sorting` | Python's `sorted` by a key that tells the elements apart |
| `EpisodeBuilder` | one episode, decision by decision |
| `WalkForward` | the splitter, as operators over a set of manifests |
| `Experiment`, `MCExperiment` | composes them: episodes are built, declared and split |
| `ExperimentProofs` | the theorems of all three |

### 2.1 `PaperTrading`

**State.** `capital`, `orders`, `openByKey`, `fills` are the execution engine's
attributes; `lots` the ledger's; `quoteCapital`, `bid`, `ask`, `desired`,
`enabled` the quote engine's; `mode` the strategy mode machine's. Order, fill
and lot ids are positions in the sequences, which keep insertion order like the
Python dicts. A SKU stands for (family, style, size); money is in integer cents.

**Handlers in steps.** A command runs alone, but it may raise. The handlers
that can raise are therefore cut where they can: `stage` says where the running
handler is, `batch`, `todo`, `fresh`, `fallback` and `outbox` are its local
variables, and no command starts unless `stage = "idle"`. An exception is an action that ends
the handler (`EndHandler`) and keeps everything it had already done:
`MatchRaises` (`apply_buy_fill` or the fee schedule refuses a fill),
`CancelAskRaises` (`release_reservation` of a lot that is not reserved),
`InferenceRaises` (the model raises what `TimedIqlInference` does not catch) and,
where `StoreFails` says that the store can raise, `FallbackAuditRaises` and
`StepAuditRaises`. The tick writes to the store at three places. The row of an
advisory fallback (`session.py:423`) comes after reconciliation and before the
first submit, so that a failure there loses every accepted intent while the
quotes, the engine's capital and the ask's lot have moved. The effects of a step
(`session.py:446`) come after the submit loop: a failure loses the rest of the
batch only. The row of a model pause is the last thing its handler does; a
failure there is `DecidePause`. The other commands journal after all their
changes. `DecidePause` is the `break` of an IQL pause.

| Actions | Code |
|---|---|
| `Load`, `Enable`, `Disable`, `SetMode`, `OperatorCancel`, `Tick` | the session commands |
| `LeaveOpen`, `FillBuy`, `FillSell`, `MatchRaises` | one order of the loop of `match` / `_try_fill` |
| `Settle` | the lots bought by the event become available; `sync_capital` |
| `DecideBase` (with `fallback` set for a missing, late or untranslatable advisory answer), `DecideModelQuote`, `DecideCancelAll`, `DecideNoOp`, `DecidePause`, `InferenceRaises` | each outcome of the inference and of `apply_strategy_mode` |
| `PlaceBid`, `ReplaceBid`, `CancelBid`, `KeepBid`, and the same for the ask | `_reconcile_side` and what it calls |
| `FallbackAuditRaises` | the audit row of the fallback, before the submit loop |
| `SubmitOrder`, `SubmitCancel`, `FinishEvent` | the submit loop, `sync_capital` |
| `StepAuditRaises` | `_emit_step_effects`, after it |

**Abstracted.** Timestamps: a quote may be at its age limit at any event
(`aged`). Model answers: any tick offset of `Ticks`, CANCEL, NO_OP, or a
failure. Lot ids are random, so the reserved lot with the least id is any
reserved lot. The transit and authentication states of a lot are passed within
one statement. The replay's events may come in any order and number; the clock
itself is `ReplaySession`. Rounding: prices, fees and slippage are given to
the cent; the sale fee is a whole percentage and the division rounds down.

### 2.2 `ModelRegistry`

`models` and `audit` are the attributes of `InMemoryRegistryStore`; a model id
is the position of the registration. `transition` reads the model, validates
the edge and the benchmarks, and then calls the store, which compares the state
it finds with the one that was read. Whoever else holds the registry may move
the model in between, so the two halves are two actions and `call` is the
caller's local variable: `ReadAndValidate` (or `ReadAndApprove`, the extra
conditions of `approve`), then `StoreTransition`, or `TransitionFails` when the
store finds another state or fails. `RegisterArtifact` is the `created` outcome
of `register_trained_artifact`; its `existing` outcome and its conflict change
nothing. Which reports meet the frozen policy and which artifacts have a
qualified report are constants.

### 2.3 `ReplaySession`

| State | Code |
|---|---|
| `status`, `cursor`, `speed` | `HistoricalReplaySimulator` |
| `batch` | the events the running `_cmd_tick` has yet to handle |
| `hasRun` | `_run_id is not None` |
| `pauseReason` | `_pause_reason` |
| `mode`, `modelId`, `known`, `budget` | `PaperModeControls` |
| `port`, `answer` | `_inference`, and what it would answer now |
| `lastEvent` | `_last_market_event is not None` |
| `handled` | history: the events of this pass, each with the author of its quote |

A command runs alone; `tick` is cut at its events because the model answers
each anew. `HandleByBase`, `HandleByModel` and `PauseForModel` are the outcomes
of one event (the book's share of it is `PaperTrading`), `EventRaises` an
exception out of the loop, from the store as well. `LoadRefused` keeps what `load` does before it
raises; other commands that raise change nothing and are no step.
`PromoteModel` makes the whole registry call in one step, since the session
does not yield in it; research jobs move the registry beside it
(`ResearchJob`). Abstracted: what an event holds, the decision state, the
artifact's files (they are `ArtifactFiles`); a failing port is one whose
latency exceeds every budget.

### 2.4 `PaperCommands`

| State | Code |
|---|---|
| `table` | the keys of `_idempotency`; a key found there changes nothing, whether the payload agrees (old answer) or not (error) |
| `run`, `events` | `_run_id` as the position of the run in the store, `_events` |
| `book` | the book in memory, known by the load it comes from and the number of times it may have changed since |
| `handler` | the running command: its key, where it stands in `_persist_and_emit`, what it has yet to journal |
| `runs` | the rows of the store: per run the version of the saved book, and per audit row the version it was written for |
| `answered`, `acked` | history |

What a command does to the book is `PaperTrading`; here it is one more version
or none. A command is cut at its transactions (`CreateRun`, `SaveBook`,
`AppendAudit`) because each may raise, before its commit or, with the
acknowledgement lost, after it (`StoreFails`), and because the process may die
there (`Crash`). `SqlAlchemyPaperStore` is the store that can fail; the
in-memory one is the same without failures. A handler that raises after it has
changed the book and before it journals is `StoreFails(FALSE)` at `save`. The
commands fall into those that emit only (`start`, `pause`, `resume`, `stop`,
`enable`), those that journal, refusals that journal and then raise, `tick` with
one journal entry a step, and `load`.

### 2.5 `TransitionExport`

| State | Code |
|---|---|
| `run`, `runs` | `_run_id`, as the number of the run |
| `cash`, `fills`, `orders`, `working` | the book of `PaperTrading`, reduced to what the accounting reads |
| `costs`, `feeLedger` | `_seller_fees` and `_shipping`, `_fee_ledger_ids` |
| `checkpoints` | `_checkpoints` |
| `handler` | where the running `tick` is: its event, the orders `match` has yet to try, the view `before` |
| `repo` | the transition repository |

| Actions | Code |
|---|---|
| `Load`, `LoadFails` | `load`, and a `load` whose run the store does not create |
| `Tick`, `Fill`, `Skip` | `_cmd_tick` and the match of an event |
| `Attribute` | `_attribute_fill_fees` for the fills the match returned |
| `Quote`, `PauseForModel` | the strategy's decision and what becomes of it |
| `EmitStepEffects` | `_emit_step_effects` with its checkpoint |
| `Raise` | a statement of the tick raises |
| `OperatorCancel`, `Export` | the commands between ticks |

The reward of a step and the reconciliation of `RewardBuilder` are the operators
`Reward` and `Reconciles`. Whether an order crosses and what the gate accepts is
left open (`PaperTrading` says when); what the model proposes beyond "some
quote" is data.

### 2.6 `TransitionStore`

`rows` and `policies` are the two tables, `at[c]` is the next statement of
client `c`'s transaction, `written[c]` what it has inserted and not committed,
`calls[c]` its request and answer. Each statement is an action: `FindOriginal`,
`FindExisting` or `FindNone`, `InsertPolicy`, `InsertTransition`, `Commit`. An
insert that would collide with an uncommitted one waits, one that collides with
a committed one raises (PostgreSQL's unique constraints; READ COMMITTED, the
default, since no isolation level is set). `StatementFails` is any statement
that raises, or a process that dies. A transition is an id, an identity and a
content; ids that are derived from an identity and ids that are not are both
requested.

### 2.7 `TrainingData` and `ArtifactFiles`

| State | Code |
|---|---|
| `weightsFile`, `manifestFile`, `weightsTemp`, `manifestTemp` | `weights.safetensors`, `manifest.json` and their temporary files |
| `sidecar` | `ops_lineage.json` |
| `job` | the running writer, at its file operation or network |
| `results` | what training jobs returned |
| `reader` | whoever is in `CheckpointStore.load`, at its file operation |
| `offered` | history: the checkpoints a save began to write |

`StartTraining`, `Optimise` and `TrainingFails` are `run_offline_iql_train` and
`IQLTrainer.step`, one network at a time; `SaveWeightsTemp`, `HashTemp`,
`SaveManifestTemp`, `ReplaceWeights`, `ReplaceManifest`, `SaveFails` the save;
`StartPin`, `RebuildSidecar`, `OpenSidecar`, `WriteSidecar` the CI pin;
`OperatorSidecar` the runbook's hand-written sidecar; `BeginBind`,
`BeginBenchmark`, `ReadManifest`, `CheckHash`, `LoadWeights`, `LoadRefused` the
readers. `Crash` may come anywhere. Weights are what made them: the rows of the
batch and how often each network was optimised; a hash is its content. Writers
come one at a time: two in one directory would share the names of the temporary
files, and no code or document starts two.

### 2.8 `EpisodeBuilder`, `WalkForward`, `Experiment`

`build` is the running `EpisodeBuilder.build` with the groups of events it has
yet to take and the decisions it has made; `TickBefore`, `DecideOnEvents`,
`TickAfter` and `Close` are the turns of its loops. `WalkForward` has no state:
`Folds` is `_window` with `_attach_augmentation`, `Accepts` the splitter's
refusals, `LineageIsolated` among them. `Experiment` builds episodes in the
order of their time, declares each in a manifest (`Declare`, or `NoManifest`
where `EpisodeManifest` refuses) and splits what there is at any time. Time is
in ticks, several to a second, because the builder drops the part of a second.
Payloads, discounts and the hash of a holdout are left out. `SortBy` puts an
element behind as many as have a lesser key; the keys tell the elements apart
(`LogAssumption` for events, the order in which episodes are built for
manifests), so no tie is left to a stable sort. It stands in for the library's
`SetToSortSeq`, of whose recursion nothing can be proved.

## 3. Runs

The runs of the book use `MCPaperTrading`, and share the policy of the code in
small numbers: prices are a hundredth of the code's, the cap is 60% of the
initial cash, the expected fees exceed the inbound shipping, a quote moves when
the market does. The market has a quiet book, one whose ask falls to a resting
bid and one whose bid rises to a resting ask; the *buying* market's bid never
reaches a resting ask.

| Run | Instance | Shows |
|---|---|---|
| `paper_book` | two products, deterministic mode, keyed and unkeyed cancels, a store that may fail, 4 orders | the type invariant, both capital copies within the policy, the index sound, lots sold once, and the book implements `PaperLedger` |
| `paper_modes` | one product, all modes, batches of 2, keyed cancels of the bid, a store that may fail, 4 orders | a reserved lot always belongs to the active ask, the cash balances against what was bought and sold, and a disabled strategy adds no order and no reserve, whatever raises or pauses |
| `paper_buying` | one product, buying market, all modes, batches of 2, keyed cancels, the in-memory store, 5 orders | as long as no ask fills and no audit row fails, the reserve is exactly the open bids, one open order per side, every open buy the market reaches settles, every open ask has its lot, a keyed cancel closes an order |

Bounds: `MaxOrders` bounds the orders of a behaviour (a tick that could exceed
it does not start). Four orders with two products hold a bid of each product, a
replacement and an ask; five with one product hold a bought lot, its ask, that
ask's replacement and the next bid. In `paper_modes` four suffice: a bid, its ask, and
two that replace either or stand beside it after an intent was lost.
`StoreFails` is the choice between the PostgreSQL store and the in-memory one,
which is the default of the session. `MaxBatch = 2` is the smallest batch that
has an event behind the current one. `Load` returns to the empty book, so
behaviours do not end when the bound is reached; deadlock is checked.

One run checks a property that a document states and the code does not keep;
`PROJECT.json` quotes the line:

| Run | What TLC finds |
|---|---|
| `cross_product_replace` | a replace for the second product orphans the first product's bid; open bids exceed the cap |

It is one reason why `paper_buying` is bounded the way it is; its properties hold
exactly as long as no ask fills, only one product is quoted, cancels name their
key and no intent is lost between the quote engine and the book. The comment of
each property says which of these it needs. The model has more behaviours of the
same family, which no run is kept for; TLC finds each when the constant named is
changed in `paper_buying.cfg`:

* `StoreFails = TRUE`: in advisory mode the audit row of a fallback fails after
  the quote engine has accepted a replace and before the book gets it
  (`paper/session.py:423`). The engine keeps the new price, the next replace
  releases that, and `ReservationExact` fails, although "failed replace cannot
  double-reserve" (`src/.scratch/continuous-paper-mm/SPEC.md:57`). An ask's
  cancel lost the same way has already returned the lot: the ask stays open
  without one, the next event places a second ask under the same key, and the
  first can no longer be cancelled by anyone (`OpenAsksBacked`,
  `OneOpenOrderPerKey`, `CancelClosesAnOrder`);
* `CancelForms = {"unkeyed"}`: a cancel that names side and family, the body of
  `src/docs/paper-ops/operator-cheat-sheet.md:70`, releases the capital and
  closes nothing (`CancelClosesAnOrder`). A second bid opens beside it, both
  are matched, the cash does not suffice for the second fill, and after that
  raise `disable` writes the stale copy of the capital back: the cash no longer
  agrees with the fills (`CashBalances`);
* `Events <- MCEvents`, a market that sells: the engine's active bid and ask
  outlive their fills, so the next event is compared with quotes that are no
  open orders: a filled ask is replaced by an ask with no lot behind it,
  although `src/docs/paper-ops/auditor-reconstructibility.md:124` says "no sell
  without an available Inventory Lot" (`OpenAsksBacked`), and the cancel of a
  filled ask raises (`release_reservation`), so that the bid's cancel accepted
  just before is never submitted and a second bid opens beside it
  (`OneOpenOrderPerKey`).

The registry and the session:

| Run | Instance | Shows |
|---|---|---|
| `model_registry` | two artifacts, two callers, a passing and a failing report, two registrations | the audit is a history of legal edges and explains the stored states, the serving states are earned, artifacts are registered once |
| `session_clock` | three events, speeds 0 (refused), 1, 2, budgets at and beyond the ceiling, answers prompt, late, too late for any budget, unusable | each event quoted once and in order, nothing quoted while paused, a pause for the model never outlives the model mode |
| `cheat_sheet` | the operator of the cheat sheet and of the bind and qualify runbook, two models, two events, a model that is prompt or late | the replay is always completed, and the registry state the session knows is the registry's |

`ModelPauseNeedsModelMode` is the half of recovery that the code keeps:
`set-mode` turns the reason over, so that a clock under deterministic quoting
waits for nobody but the operator. That a late answer authors no quote and that
the deterministic strategy authors none in `iql_primary` is one comparison and
one branch of the code, and the guards of `HandleByModel` and `HandleByBase`: no
property repeats them.

Around the pause and the mode the model shows disagreements that no run is kept
for: `start` runs a clock that was paused for the model without asking its
health, although recovery is to be "intentional"
(`src/.scratch/model-integrated-paper/SPEC.md:34`); a `load` whose speed is refused leaves a running clock without a run, on which `tick` asserts
(`paper/session.py:390`); an operator pause while the model has the clock
paused replaces the reason, although the operator should be able to
"distinguish operator pause from model pause"
(`src/docs/superpowers/specs/2026-07-18-model-integrated-paper-slice.md:34`);
`start` and `load` leave the reason behind, so a running clock reports "paused
(IQL unavailable)"; a model rolled back through the session goes on quoting
until the mode is changed; and `bind-model` takes the registry state from its
payload, so a mode can be selected for a model no registry promoted
(`src/CONTEXT.md:76-77`).

Three events and speed 2 give a full batch, a short last one and an event
behind the one the model fails on. Two callers suffice for a lost update; two
artifacts and two registrations for a duplicate. The registry and the clock
share only the mode and the known state, so `session_clock` has one registered
model and every answer and budget, and `cheat_sheet` two registered models, one
event to a tick and one budget: it needs an event behind the one the model
fails on, and a second model to promote beside the active one.

| Run | Instance | Shows |
|---|---|---|
| `paper_commands` | two keys, three books (loads and restarts), one change to a book, three events, ticks of up to two entries, a store that fails before or after its commit, crashes anywhere | a key is answered once per life of the process, the audit has every audited event of the stream in its order, what was acknowledged is stored for good, every stored run is the journal of one book |

Three books let a load fail, be retried and be followed by a restart; three
events and rows let a tick fail between two of its entries and be retried.
`MaxEvents` bounds the stream and the audit of a run (a command that could
exceed it does not begin); all bounds stop a behaviour, so deadlock is not
checked. The model also shows what the documents promise and the code does not:
the key table dies with the process, and a command whose journal raised is
executed again by its retry although the book has already changed, while
`src/docs/superpowers/specs/2026-07-17-market-maker-dashboard-design.md:486`
says "The server persists the key, normalized request hash, status, and
response"; the book and its audit row are two transactions (line 470: "committed
in one transaction"); and `start`, `pause`, `resume`, `stop` and `enable` are
emitted without a row, while `src/docs/paper-ops/auditor-reconstructibility.md`
calls the store's audit the "Same logical event stream". The properties say what
holds all the same. No run is kept for these three.

The export and the repository:

| Run | Instance | Shows |
|---|---|---|
| `export_run` | two runs of three checkpoints, ticks of up to two events that may raise anywhere, two fills, exports at any time | the type invariant; every exported step has the fees of its own fills; the cumulative costs are the ledger's fees and no step is quarantined; an export can be repeated; the rows of a run are one trajectory |
| `transition_store` | two processes, eight requests around one decision: the same identity with another content and with another id, corrections, corrections of corrections | what is stored is whole; every answer is one an unshared repository could have given; every call ends |

Two runs let rows of an earlier run meet those of the next; three checkpoints
give two rows, which have to chain, and a tick of two events that raises in the
second. Two fills are a purchase and its sale, or two purchases. All bounds of
`export_run` stop a behaviour, so deadlock is not checked there; it is checked
in `transition_store`, where two transactions suffice for every race on a
constraint, and where the ids bound the rows. What the models also show:

* a `match` that raises after a fill leaves the fill's fee charged nowhere, in
  no later step either (`FeesTravelWithFills` says that it is not charged to a
  step that does not report the fill);
* a quote the gate refuses is exported as the `post_gate_action`, which
  `src/docs/research/junior-walkthrough.md:232` explains as "what actually
  would run after risk gates";
* the loser of the race for an identity gets an `IntegrityError`, not
  `EXISTING`; two corrections may supersede one transition; and an addition
  that repeats a stored correction is answered `EXISTING`.

The artifacts and the experiments:

| Run | Instance | Shows |
|---|---|---|
| `artifact_files` | three writers in turn (jobs of one or two steps, the pin), any of which fails or dies at any operation, one reader, rows shared by both lists, quarantined, and of another schema | a reader is given weights made as their manifest says; the directory is a register of whole checkpoints |
| `walk_forward` | two logs of half-second times with events together, on a maintenance tick and on the boundary of two episodes; at most five episodes of three lineages; three fold shapes | an episode covers its time; nothing leaks; folds only grow |

Three writers are a checkpoint, one that overwrites it and dies, and the one
that recovers; readers do not write, so one is enough. Five episodes give up to
three folds of the narrow shape and two of the wide one, with synthetic ones
among them. The bounds stop a behaviour, so deadlock is not checked. What the
models also show:

* `CheckpointStore.load` reads the weights a second time after it has compared
  their hash, so a save in between replaces them unchecked
  (`WeightsHaveLineage` excepts exactly that reader), where
  `src/docs/research/QUANTITATIVE_CONTEXT.md:483` says "SHA-256 before load";
* the sidecar's hash is never compared with the weights that are loaded,
  although `src/docs/paper-ops/bind-qualify-runbook.md:88` calls it "Checkpoint
  tensor hash"; a torn sidecar is not healed by `ensure_ci_pinned_artifact`,
  which only asks whether it exists; and the sidecar it rebuilds over trained
  weights names the lineage of the pin, which the load then refuses;
* two jobs of one manifest in one directory: the benchmark of the first
  measures the weights of the second;
* a synthetic episode that is later than the validation episodes may be trained
  on when another synthetic one is validated on, although
  `src/docs/superpowers/plans/2026-07-17-deep-bellman-pfhedge.md:584` wants
  "chronological train/validation/test ordering": `NothingLeaks` asks for order
  except between two synthetic ones. A decision's clock loses less than a
  second each time (`EpisodeCovers`).

## 4. Abstract specifications and refinement

`PaperLedger` says what the book promises whatever drives it: an order is
placed, replaced, cancelled or filled, once; a buy fill brings in a lot, a sell
fill takes a *reserved* lot of the order's product out for good; lots are
received, reserved and released in between. `LedgerRefinement` maps the orders
and fills of `PaperTrading` to it by forgetting prices and amounts; the run
`paper_book` checks it and `PaperTradingProofs` proves it.

`PaperJournal` says what the store promises to whoever reads it later: the
stored book of a run only moves forward and always belongs to the same load, an
audit row tells the book that was stored when it was written, and only the
latest run is written to. `PaperCommands` implements it with `runs` as it is;
the run `paper_commands` checks it and `PaperCommandsProofs` proves it.

`TransitionRegister` says what a repository of immutable rows promises callers
who come one at a time: a transition is recorded once and never changes,
offering it again finds it, another content under its identity is refused, a
correction follows what it supersedes; a call that ends in an error may have
been recorded. `TransitionStore` implements it with `rows` as the register,
although the look, the insert and the commit of a call are apart (run
`transition_store`, `TransitionStoreProofs`).

`CheckpointRegister` says what a checkpoint directory promises: at most one
readable checkpoint, always one that some save offered as a whole, changed only
while a save runs, and the save's own when it returns. `ArtifactFiles`
implements it: the readable checkpoint is the manifest if its hash is that of
the weights beside it, and none otherwise (run `artifact_files`,
`ArtifactFilesProofs`).

## 5. What is proved

For every set of products, events, modes and every policy satisfying the four
`ASSUME`s of `PaperTrading` (non-negative policy amounts, a sale rate below
100%, events with integer prices):

* `TypeCorrect`, `CapitalSafe`, `KeyIndexCorrect` (`PaperTradingProofs`), from
  one inductive invariant `IInv`. `CapitalWithinPolicy` is not inductive: a
  handler stopped between the gate's decision and its submission holds the
  capital in `outbox`, so `IInv` adds `OutboxWithinPolicy` (every collected
  decision carries a capital within the policy). The submitted capital then
  satisfies the policy because the decision did, not because of what happened
  in between; that is also why the cash may be stale (a tick that raised leaves
  the copy behind) and still within the policy. `StageInv` ties the handler's
  locals to `stage`, and `AskLotKnown` says that the active ask names an
  existing lot.
* `ReservationHeld` (`PaperTradingProofs`), where the operator cancels no ask
  by hand: the lot of an ask is reserved with it and released with it, in one
  step each, so that `ReservedLotHeld` is kept by every step from `IInv`.
* `ImplementsLedger` (`PaperTradingProofs`): initial states map to initial
  states and each action to a step of `PaperLedger` or a stutter, one lemma per
  group of actions.
* `ClosedForGood`, `NoDuplicateFill`, `NoDoubleSale` (`PaperTradingProofs`): the
  history of orders, fills and lots, from `IInv` and the facts that a fill
  names an order that was open and a lot that was new (buy) or reserved (sell).

The accounts (the second part of `PaperTradingProofs`) hold of every policy and market too, but
not of every behaviour: where the code lets an exception out of a handler, the
model's or the store's among them, or where one quote engine serves two products, the documents' promises are broken.
A theorem names what it excludes, `[][P]_vars` for a step that does not happen
and an `ASSUME` for the instance; the run `paper_buying` satisfies all of them
without any premise, because none of the exceptions can occur in it: its bids are
covered, its asks never fill and its store does not fail. `CashBalances` is
checked in `paper_modes`, which sells and whose store may fail: the cash balances
there within its four orders; beyond them stands the theorem with its premise.

| Premise | Says | Without it |
|---|---|---|
| `NoMatchRaises` | no fill raises out of the match loop | the quote engine keeps a stale capital, and the next intent carries its cash and reserve back to the book |
| `IntentsReachBook`: `NoCancelRaises` | the lot of a cancelled ask is still reserved | the bid decided just before is never submitted, while the quote engine takes it for done |
| `IntentsReachBook`: `NoIntentDropped` | no audit row of a fallback fails while accepted intents wait | the quotes move and the book does not. A lost replace of a bid from 10 to 8, then one to 11: 13 reserved, 11 open. A lost cancel of an ask: an open ask whose lot is free again, a second ask under its key, and a first ask no cancel finds |
| `NoSale` | no ask is filled | the active ask stays with its lot sold, and is replaced without a lot |
| `OneProduct` | one product is quoted | one active bid serves both products; a replace for one leaves the other's order open |
| `KeyedCancels` | a cancel by hand names style and size | the capital is released and the order stays open |
| `FeesExpected`, `MarketPriced` | the expected fees cover the shipping; the market's asks are positive and its bids exceed the sell slippage | a fill can raise |

* `NoMoneyLost` needs `NoMatchRaises`, and nothing else: outside the match loop
  both copies hold the same cash, and the waiting intents carry it (`CashInv`,
  `OutboxInv`). That a fill adds its amount to the total is `SumAppend`.
* `DisabledIsSafe` needs `NoMatchRaises`. The quote engine may have reserved
  more than the book when a cancelled ask or the row of a fallback raised; what keeps
  a disabled strategy from carrying that to the book is that the surplus is the
  active bid's and the cancel of that bid cannot be refused (`Releasable`).
* `NoDuplicateExposure`, `CancelReachesOrder` need `OneProduct`, `KeyedCancels`
  and `IntentsReachBook`: every open order can be found through the index, a side
  without an active quote has none open or its cancel is waiting, and what waits
  to be placed finds its key free (`KeyInv`).
* `NoReservationLeaks` needs these and `NoMatchRaises`: the reserve is the price of
  the open bid, which is the active bid unless a decision on it is waiting, and a
  waiting decision says what it will be (`ReserveInv`). Only at the end is it a
  sum, with one term that is not zero (`SumChange`).
* `EveryMatchSettles` needs `OneProduct`, `KeyedCancels` and `IntentsReachBook`,
  and discharges `NoMatchRaises` itself: with `FeesExpected` and
  `MarketPriced`, what `ReserveInv` says of the open bid is what its fill needs.
* `NoNakedSell` needs `OneProduct`, `KeyedCancels`, `NoIntentDropped` and
  `NoSale`, from which the active ask's lot stays reserved (`AskBacked`) and
  `NoCancelRaises` follows.

The sums are a recursive function (`Sums`), and what is proved of it for every
length (`SumTheorems`) rests on an induction whose hypothesis is a *set* of
numbers (`Everywhere`): a set of naturals that is not empty has a least one,
by the well-foundedness of `<`. The library's own induction takes the
hypothesis as an operator, which the provers at hand cannot instantiate.

* `AuditReconstructs`, `AuditCurrent`, `OneEntryPerArtifact`, `Withdrawn`,
  `ServingIsEarned` and `RegistryTypeCorrect` (`ReplaySessionProofs`), for any
  number of callers, models and reports. The history is not inductive alone: a
  stored event continues its model's chain because the store's comparison makes
  its source the current state, and the current state is what the last event
  left (`AuditExplainsState`); that the edge is still legal is
  `CallsValidated`, and that a new model has no earlier event is
  `AuditKnowsModels`. `ShadowFirst` needs no chain: that a model *in shadow or
  beyond it* has a shadow event (`ShadowAudited`) is kept by every edge.
* `SessionTypeCorrect`, `EventsInOrder`, `PausedIsSilent`,
  `PauseNeedsMode`, `SessionAuditReconstructs` (`ReplaySessionProofs`), for any
  replay, speeds, budgets and answers. What carries them is that the running
  batch is always the positions just below the cursor (in `HandledInOrder`) and
  belongs to a running clock (`BatchRuns`).
* `KnownIsTheRegistrys` (`ReplaySessionProofs`): of `CheatSheetSpec`, with no
  callers beside the session, because a promotion of the session's own model is
  the only way its registered state changes (`ModelIsRegistered`).
* `CommandsTypeCorrect`, `AnsweredOnce`, `AcknowledgedForGood`, `StreamTold` and
  `ImplementsJournal` (`PaperCommandsProofs`), for any keys and bounds, from
  `CInv`: where the handler stands tells what the store has (`HandlerOK`: at
  the audit and after it the stored book is the book in memory), and the
  session only ever writes to the latest run, whose stored book is an earlier
  version of its own (`RunOK`). That a refused or crashed load leaves no run
  behind is what keeps `RunOK`. `StreamTold` needs an account of the rows
  (`AuditInv`): between the commit of a row and the event that tells it, the
  last row is nobody's yet and tells the book in memory; the rows before it are
  those of the events already told, in order.
* `ExportTypesHold`, `FeesTravel`, `ExportRepeats`, `EpisodesAreTrajectories`
  (`TransitionExportProofs`), for any prices, fees and bounds. That fees travel
  with their fills is not inductive: it follows from `ChargesStand` (an entry
  is of a fill that costs something; the fills of the running event all have
  theirs once they are charged and none before) and `CheckpointsStand` (the
  fills checkpoints report lie one after the other, each in the ledger of its
  checkpoint and of none before it).
* `CostsReconcile` (`TransitionExportProofs`): the running costs, and those each
  checkpoint took over, are the fees of the ledger entries (`CostsStand`).
  Charging adds to the costs the fees of exactly the entries it adds to the
  ledger (`ChargeAddsUp`, fill by fill with `SumPlus`), so no exception between
  the fill and its charge can part the two.
* `FilesTypesHold`, `LineageHolds`, `DirectoryIsRegister`
  (`ArtifactFilesProofs`), for any rows, environments, readers and bounds.
  `OnTrack` ties the writer's step to the files it has written so far and says
  that a manifest's hash is of weights that a save offered under it; the
  readable checkpoint can then only change where the register's may.
* `StoredIsWhole`, `StoreIsRegister` (`TransitionStoreProofs`), for any number
  of processes and any requests, from `StoreInv`: a transaction has written
  what its place says and what the tables do not have yet (`TransactionOK`),
  and no two open transactions have written what collides (`Apart`). That an
  insert waits for an uncommitted one is what keeps `Apart`, and `Apart` is
  what lets a commit be one step of the register.

* `EpisodesCoverTheirLogs` (`ExperimentProofs`), for every log, duration and
  interval. `EpisodeCovers` is of a finished episode; of one being built,
  `BuildInv` says that each decision made is as it should be (`DecisionsOK`),
  that the times still waiting are times of events, each after every decision
  (`GroupsOK`), and that every event of the episode has its decision or waits
  (`NoneForgotten`). A tick goes in only before the first waiting time, which
  is why no tick skips an event.
* `TestsAreUnseen`, `FoldsStand` (`ExperimentProofs`), for any episodes,
  lineages and window sizes. The folds are those of the manifests there were at
  the last split, and every manifest since is later (`FoldsInv`). A part of a
  fold lies between two places among the historical episodes, synthetic ones
  included (`PartsPlaced`), so of two parts one lies behind the other, and
  neighbours that do not overlap leave no two that do (`OverlapFree`). Two
  decisions at the very boundary of two episodes would be of one event, whose
  source both manifests would have: `UniqueSources` refuses that. Earlier folds
  stand because later episodes come behind all others in the order
  (`HistoryGrows`), windows are counted from the first episode, and a test part
  of at least one episode keeps a later synthetic episode from being inserted
  into a fold that was complete (`FoldsGrow`).

Each proof has one step per action. The action properties follow from the same
invariant.

## 6. What is only model-checked, and fairness

Every invariant and action property that a passing run checks has a theorem.
With TLC stay the two liveness properties, `ReplayCompletes` and `CallsEnd`,
because the installed provers know nothing of `ENABLED`, and what the code
violates: `OpenBuyPrincipalWithinCap`. A theorem of the accounts
holds under the premises of the table above; what TLC checks beside it is that
the instance of `paper_buying` meets them, and that `CashBalances` survives the
sales and the raises of `paper_modes`.

Fairness is stated in two places. The clock moves only when an operator sends
`tick`, and nothing in the code obliges anyone to, so `Spec` states no fairness
of the session and no liveness is claimed of its code alone. `CheatSheetSpec`
restricts the commands to the procedures of
`docs/paper-ops/operator-cheat-sheet.md` and `bind-qualify-runbook.md` and
assumes that the operator goes on following it (weak fairness of each of its
steps) and that a handler which has begun runs to its end, which the code
gives: `_cmd_tick` is a loop without a wait.

`FairSpec` of `TransitionStore` lets a call that has begun go on. The fairness
is strong because an insert may wait for another transaction's: it is enabled
again and again but not always, and PostgreSQL wakes whoever waits on a lock
when its holder ends. A call is at most five steps and has no loop.
Nothing obliges a client to begin a call.

The action properties and safety invariants need none of this: they are of
`Spec`.

## 7. Open

In this order:

1. Weaker premises for the theorems of the accounts: which of them hold of two
   products, or of asks that fill, once the open bids whose key was lost are
   counted apart.
2. A client of the event stream (`paper_events.py`, `after`) that keeps its
   sequence number across a load, which starts the numbers again, and the
   dashboard's four parallel reads: no document says what they promise.
3. Two writers of one checkpoint directory, if the jobs are ever run in
   parallel.

## 8. Not modelled

* Numerical learning (`research/iql/math.py`, `networks.py`, `encoding`,
  `evaluation/metrics.py`, `ope.py`, the criteria of `qualification`):
  floating-point statistics. The evaluation harness is one pass without state
  over the episodes it is given.
* The recommender (`research/serving`): a function of one request, called by
  tests only, whose properties would restate its conditions.
* REST reads beside a command (`api/paper_routes.py`): a status may mix the
  book before and after a fill, and no document or test promises otherwise.
* File parsing and checksums of the replay loader, request validation,
  formatting of projections, the acceptance report, the Monte Carlo
  demonstration, the read-only market fixture, page layout.
* Within modelled components: `set_speed` of the replay clock, which no command
  calls; lot states no code enters; `REVISE` decisions, which the quote engine
  does not emit; penalty weights of a reward.
