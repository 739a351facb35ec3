---------------------------- MODULE ReplaySession ----------------------------
(***************************************************************************)
(* The control plane of a paper session: the replay clock and its pauses,  *)
(* the strategy mode and the registry state that qualifies it, binding and *)
(* promoting a model, and the model's answers under the latency budget.    *)
(* Models: paper/session.py (commands other than those of PaperTrading),   *)
(* replay/simulator.py, strategy_mode.py, ops_mode.py, promote.py,         *)
(* inference.py, and the outcomes of mode_path.py.                         *)
(*                                                                         *)
(* A command runs alone.  tick is cut at its events, because the model may *)
(* answer each one differently.  A command that raises before it changes   *)
(* anything is no step.                                                    *)
(***************************************************************************)
EXTENDS ModelRegistry, Integers

CONSTANTS
  EventCount,      \* events of the loaded replay
  SpeedChoices,    \* speeds an operator asks for, 0 among them
  BudgetChoices,   \* latency budgets an operator asks for, in ms
  Answers,         \* what the port may answer: latency, and whether the
                   \* translator accepts the quote; a hard failure is a
                   \* latency beyond every budget
  BindStates,      \* registry states bind-model is called with
  OpsModel,        \* an id no registry knows, like bind-model's default
  DemoBound        \* the local demo binds a model before it serves

MaxLatency == 250
DefaultLatency == 100

\* None is no pause reason, and neither it nor the demo's model is registered.
ASSUME SessionAssumption ==
  /\ None \notin {"operator", "iql_unavailable"}
  /\ None \notin Nat /\ OpsModel \notin Nat
  /\ EventCount \in Nat \ {0}
  /\ SpeedChoices \subseteq Nat /\ BudgetChoices \subseteq Int
  /\ Answers \subseteq [latency : Nat, usable : BOOLEAN]
  /\ BindStates \subseteq States
  /\ DemoBound \in BOOLEAN

VARIABLES
  hasRun,       \* _run_id is set
  status, cursor, speed,   \* the replay clock
  batch,        \* positions the running tick has yet to handle
  pauseReason,
  mode,
  modelId, known,   \* the active model and the registry state known for it
  port,         \* an inference port is bound
  answer,       \* what the port would answer now
  budget,
  lastEvent,    \* a market event has been seen
  handled       \* history: events of this pass, with the author of the quote

clockVars == <<hasRun, status, cursor, speed, batch>>
modelVars == <<mode, modelId, known, port, answer, budget>>
sessionVars == <<clockVars, pauseReason, modelVars, lastEvent, handled>>
vars == <<registryVars, sessionVars>>
-----------------------------------------------------------------------------
Modes == {"deterministic", "advisory", "iql_primary"}

\* mode_is_qualified
Qualified(m, state) ==
  \/ m = "deterministic"
  \/ m = "advisory" /\ state = "advisory_approved"
  \/ m = "iql_primary" /\ state \in {"benchmark_qualified", "advisory_approved"}

\* The port answers within the budget.
InTime == port /\ answer.latency <= budget

\* What resume asks: the model, on the last market event.
Healthy == lastEvent /\ InTime

Loaded == status # "empty"
Idle == batch = <<>>

Init ==
  /\ RegistryInit
  /\ hasRun = FALSE
  /\ status = "empty" /\ cursor = 0 /\ speed = 1 /\ batch = <<>>
  /\ pauseReason = None
  /\ mode = "deterministic"
  /\ modelId = (IF DemoBound THEN OpsModel ELSE None)
  /\ known = (IF DemoBound THEN "advisory_approved" ELSE None)
  /\ port = DemoBound
  /\ answer \in Answers
  /\ budget = DefaultLatency
  /\ lastEvent = FALSE
  /\ handled = <<>>

-----------------------------------------------------------------------------
(* Commands on the clock *)

\* The book is new and so is the run; mode, model and pause reason stay.
Load(s) ==
  /\ Idle /\ s >= 1
  /\ hasRun' = TRUE
  /\ status' = "loaded" /\ cursor' = 0 /\ speed' = s
  /\ handled' = <<>>
  /\ UNCHANGED <<registryVars, modelVars, batch, pauseReason, lastEvent>>

\* The book is reset and the run forgotten before the clock looks at the speed.
LoadRefused(s) ==
  /\ Idle /\ s < 1
  /\ hasRun' = FALSE
  /\ UNCHANGED <<registryVars, modelVars, status, cursor, speed, batch, pauseReason,
                 lastEvent, handled>>

\* After stop the clock is at its first event.  start asks no health.
Start ==
  /\ Idle /\ Loaded
  /\ status' = "running"
  /\ UNCHANGED <<registryVars, modelVars, hasRun, cursor, speed, batch, pauseReason,
                 lastEvent, handled>>

Pause ==
  /\ Idle /\ Loaded
  /\ status' = (IF status = "running" THEN "paused" ELSE status)
  /\ pauseReason' = "operator"
  /\ UNCHANGED <<registryVars, modelVars, hasRun, cursor, speed, batch, lastEvent, handled>>

\* Mutant of Resume: health is asked whatever the mode and the reason.
ResumeOnlyHealthy ==
  /\ Idle /\ Loaded
  /\ Healthy
  /\ status' = (IF status = "paused" THEN "running" ELSE status)
  /\ pauseReason' = None
  /\ UNCHANGED <<registryVars, modelVars, hasRun, cursor, speed, batch, lastEvent, handled>>

\* A clock the model paused resumes in iql_primary only if the model is healthy.
Resume ==
  /\ Idle /\ Loaded
  /\ (pauseReason = "iql_unavailable" /\ mode = "iql_primary") => Healthy
  /\ status' = (IF status = "paused" THEN "running" ELSE status)
  /\ pauseReason' = None
  /\ UNCHANGED <<registryVars, modelVars, hasRun, cursor, speed, batch, lastEvent, handled>>

Stop ==
  /\ Idle /\ Loaded
  /\ status' = "stopped" /\ cursor' = 0
  /\ pauseReason' = None
  /\ handled' = <<>>
  /\ UNCHANGED <<registryVars, modelVars, hasRun, speed, batch, lastEvent>>

\* The positions the clock hands out next.
Lesser(i, j) == IF i < j THEN i ELSE j
NextCursor == Lesser(cursor + speed, EventCount)

\* Mutant of Tick: the cursor stays on the last event handed out.
TickRepeatsLast ==
  /\ Idle /\ status = "running" /\ cursor < EventCount
  /\ cursor' = (IF speed > 1 THEN NextCursor - 1 ELSE NextCursor)
  /\ batch' = (IF hasRun THEN [i \in 1 .. NextCursor - cursor |-> cursor + i] ELSE <<>>)
  /\ UNCHANGED <<registryVars, modelVars, hasRun, status, speed, pauseReason, lastEvent,
                 handled>>

\* tick takes its events from the clock, then asserts that there is a run.
Tick ==
  /\ Idle /\ status = "running" /\ cursor < EventCount
  /\ cursor' = NextCursor
  /\ batch' = (IF hasRun THEN [i \in 1 .. NextCursor - cursor |-> cursor + i] ELSE <<>>)
  /\ UNCHANGED <<registryVars, modelVars, hasRun, status, speed, pauseReason, lastEvent,
                 handled>>

-----------------------------------------------------------------------------
(* One event of a tick *)

Handle(author) ==
  /\ batch # <<>>
  /\ batch' = Tail(batch)
  /\ lastEvent' = TRUE
  /\ handled' = Append(handled, [position |-> Head(batch), author |-> author])
  /\ UNCHANGED <<registryVars, modelVars, hasRun, status, cursor, speed, pauseReason>>

\* The deterministic quote: the mode asks for nothing else, or the advisory
\* model is missing, late, refused by the translator, or has nothing to add.
HandleByBase ==
  /\ mode \in {"deterministic", "advisory"}
  /\ Handle("base")

\* The model nudges (advisory) or authors (iql_primary) the quote of the event.
HandleByModel ==
  /\ mode \in {"advisory", "iql_primary"}
  /\ InTime /\ answer.usable
  /\ Handle("model")

\* Mutant of PauseForModel: the loop goes on to the next event.
PauseForModelGoesOn ==
  /\ batch # <<>>
  /\ mode = "iql_primary"
  /\ ~(InTime /\ answer.usable)
  /\ batch' = Tail(batch)
  /\ status' = (IF status = "running" THEN "paused" ELSE status)
  /\ pauseReason' = "iql_unavailable"
  /\ lastEvent' = TRUE
  /\ UNCHANGED <<registryVars, modelVars, hasRun, cursor, speed, handled>>

\* iql_primary without a usable answer: the clock pauses, the loop breaks, and
\* the rest of the batch is dropped although the cursor is past it.
PauseForModel ==
  /\ batch # <<>>
  /\ mode = "iql_primary"
  /\ ~(InTime /\ answer.usable)
  /\ batch' = <<>>
  /\ status' = (IF status = "running" THEN "paused" ELSE status)
  /\ pauseReason' = "iql_unavailable"
  /\ lastEvent' = TRUE
  /\ UNCHANGED <<registryVars, modelVars, hasRun, cursor, speed, handled>>

\* Matching, the model or the store raises (PaperTrading says when): the tick
\* ends here, before the event is quoted or, the events before it done, after.
EventRaises ==
  /\ batch # <<>>
  /\ batch' = <<>>
  /\ lastEvent' = TRUE
  /\ UNCHANGED <<registryVars, modelVars, hasRun, status, cursor, speed, pauseReason, handled>>

-----------------------------------------------------------------------------
(* Mode, budget and model *)

\* Mutant of SetMode: the reason of the pause survives the model.
SetModeReasonKept(m) ==
  /\ Idle
  /\ Qualified(m, known)
  /\ mode' = m
  /\ UNCHANGED <<registryVars, clockVars, modelId, known, port, answer, budget, pauseReason,
                 lastEvent, handled>>

\* Leaving the model turns its pause into one of the operator.
SetMode(m) ==
  /\ Idle
  /\ Qualified(m, known)
  /\ mode' = m
  /\ pauseReason' = IF m = "deterministic" /\ pauseReason = "iql_unavailable"
                    THEN "operator" ELSE pauseReason
  /\ UNCHANGED <<registryVars, clockVars, modelId, known, port, answer, budget, lastEvent,
                 handled>>

\* Mutant of SetBudget: no ceiling.
SetBudgetNoCeiling(ms) ==
  /\ Idle
  /\ ms > 0
  /\ budget' = ms
  /\ UNCHANGED <<registryVars, clockVars, mode, modelId, known, port, answer, pauseReason,
                 lastEvent, handled>>

SetBudget(ms) ==
  /\ Idle
  /\ ms > 0 /\ ms <= MaxLatency
  /\ budget' = ms
  /\ UNCHANGED <<registryVars, clockVars, mode, modelId, known, port, answer, pauseReason,
                 lastEvent, handled>>

\* A compatible checkpoint loads: id and registry state are the caller's word.
BindModel(id, state) ==
  /\ Idle
  /\ modelId' = id /\ known' = state /\ port' = TRUE
  /\ UNCHANGED <<registryVars, clockVars, mode, answer, budget, pauseReason, lastEvent,
                 handled>>

\* Mutant of PromoteModel: whatever is promoted becomes the known state.
PromoteModelSyncsAny(m, target) ==
  /\ Idle
  /\ MayMove(m, target)
  /\ Store(m, models[m].state, target)
  /\ modelId' = (IF modelId = None THEN m ELSE modelId)
  /\ known' = target
  /\ UNCHANGED <<call, clockVars, mode, port, answer, budget, pauseReason, lastEvent, handled>>

\* One legal edge of the registry.  The session learns the new state if the
\* model is the active one or there is none; the mode in force stays.
PromoteModel(m, target) ==
  LET active == modelId \in {None, m}
  IN  /\ Idle
      /\ MayMove(m, target)
      /\ Store(m, models[m].state, target)
      /\ modelId' = (IF active THEN m ELSE modelId)
      /\ known' = (IF active THEN target ELSE known)
      /\ UNCHANGED <<call, clockVars, mode, port, answer, budget, pauseReason, lastEvent,
                     handled>>

\* Outside the program: the model gets slower, faster, or quotes nonsense.
PortChanges(a) ==
  /\ port
  /\ answer' = a
  /\ UNCHANGED <<registryVars, clockVars, mode, modelId, known, port, budget, pauseReason,
                 lastEvent, handled>>

-----------------------------------------------------------------------------
ClockCommand ==
  \/ \E s \in SpeedChoices : Load(s) \/ LoadRefused(s)
  \/ Start \/ Pause \/ Resume \/ Stop \/ Tick

HandleEvent == HandleByBase \/ HandleByModel \/ PauseForModel \/ EventRaises

ModelCommand ==
  \/ \E m \in Modes : SetMode(m)
  \/ \E ms \in BudgetChoices : SetBudget(ms)
  \/ \E id \in DOMAIN models \cup {OpsModel}, state \in BindStates : BindModel(id, state)
  \/ \E m \in DOMAIN models, target \in States : PromoteModel(m, target)

\* Registry calls of research jobs, beside the session.
ResearchJob == RegistryNext /\ UNCHANGED sessionVars

Next ==
  \/ ClockCommand \/ HandleEvent \/ ModelCommand \/ ResearchJob
  \/ \E a \in Answers : PortChanges(a)

Spec == Init /\ [][Next]_vars

\* An operator who follows the cheat sheet: load, start, tick, change mode at
\* will, and when the model pauses the clock switch to deterministic and resume.
FollowsCheatSheet ==
  \/ status = "empty" /\ \E s \in SpeedChoices : Load(s)
  \/ status = "loaded" /\ Start
  \/ Tick
  \/ status = "running" /\ \E m \in Modes : SetMode(m)
  \/ pauseReason = "iql_unavailable" /\ SetMode("deterministic")
  \/ pauseReason = "operator" /\ Resume

\* The runbook beside it: models are registered before the replay is loaded,
\* promoted at any time, and bound, with the state they have, before it starts.
FollowsRunbook ==
  \/ status = "empty" /\ ResearchJob
  \/ \E m \in DOMAIN models, target \in States : PromoteModel(m, target)
  \/ status = "loaded" /\ \E m \in DOMAIN models : BindModel(m, models[m].state)

\* The operator does not walk away; a handler that has begun runs to its end.
CheatSheetSpec ==
  /\ Init
  /\ [][FollowsCheatSheet \/ FollowsRunbook \/ HandleEvent
          \/ \E a \in Answers : PortChanges(a)]_vars
  /\ WF_vars(HandleEvent)
  /\ WF_vars(status = "empty" /\ \E s \in SpeedChoices : Load(s))
  /\ WF_vars(status = "loaded" /\ Start)
  /\ WF_vars(Tick)
  /\ WF_vars(pauseReason = "iql_unavailable" /\ SetMode("deterministic"))
  /\ WF_vars(pauseReason = "operator" /\ Resume)
-----------------------------------------------------------------------------
(* Properties *)

\* Every variable keeps the shape the code gives it.
TypeOK ==
  /\ RegistryTypeOK
  /\ hasRun \in BOOLEAN
  /\ status \in {"empty", "loaded", "running", "paused", "stopped"}
  /\ cursor \in 0 .. EventCount
  /\ speed \in Nat \ {0}
  /\ batch \in Seq(1 .. EventCount)
  /\ pauseReason \in {None, "operator", "iql_unavailable"}
  /\ mode \in Modes
  /\ modelId \in Nat \cup {None, OpsModel}
  /\ known \in States \cup {None}
  /\ port \in BOOLEAN
  /\ answer \in Answers
  /\ budget \in 1 .. MaxLatency
  /\ lastEvent \in BOOLEAN
  /\ handled \in Seq([position : 1 .. EventCount, author : {"base", "model"}])

\* Whatever pauses, raises, reloads or restarts, a pass over the replay quotes
\* each event at most once and in order, and what the running tick still has to
\* handle comes next (simulator.py, the loop of tick).
HandledInOrder ==
  /\ \A i, j \in DOMAIN handled : i < j => handled[i].position < handled[j].position
  /\ \A i \in DOMAIN handled : handled[i].position <= cursor
  /\ \A i \in DOMAIN handled, j \in DOMAIN batch : handled[i].position < batch[j]
  /\ \A i \in DOMAIN batch : batch[i] = cursor - Len(batch) + i

Quoted(author) == handled' # <<>> /\ Len(handled') > Len(handled)
                  /\ handled'[Len(handled')].author = author

\* No event is quoted while the clock is not running, in particular none of the
\* batch behind the event the model failed on.
PausedClockQuotesNothing ==
  [][Quoted("base") \/ Quoted("model") => status = "running" /\ hasRun]_vars

\* A pause for the model is only reported while a model mode is in force: whatever
\* the operator switched, bound or promoted after it, a clock under deterministic
\* quoting waits for the operator and asks no model (_cmd_set_mode, _cmd_resume).
ModelPauseNeedsModelMode ==
  pauseReason = "iql_unavailable" => mode # "deterministic"

\* As long as the registry moves through the session only, and bind-model is
\* told the truth, the state the session qualifies modes by is the registry's.
KnownStateIsCurrent ==
  modelId \in DOMAIN models => known = models[modelId].state

\* Following the cheat sheet always gets through the replay, however the model
\* answers and whatever is promoted or bound meanwhile (operator-cheat-sheet.md,
\* "When replay shows paused").
ReplayCompletes == <>[](cursor = EventCount /\ Idle)
=============================================================================
