---------------------------- MODULE ModelRegistry ----------------------------
(***************************************************************************)
(* The research registry that authorises a model: registration of trained  *)
(* artifacts, the legal promotion edges with their benchmark check, the    *)
(* explicit advisory approval, and the append-only audit.                  *)
(* Models: research/registry/service.py, the approval of research/         *)
(* qualification/service.py, research/retrain/register_job.py.             *)
(***************************************************************************)
EXTENDS Sequences, Naturals

CONSTANTS
  Artifacts,       \* checkpoint hashes
  Reports,         \* benchmark reports
  PassingReports,  \* those that meet every criterion of the frozen policy
  QualifiedArtifacts, \* those with a qualification report that passes
  Callers,         \* whoever holds the registry: jobs, operators
  MaxModels,       \* bounds the registrations
  None

VARIABLES
  models,  \* registered models, by order of registration
  audit,   \* the append-only audit
  call     \* per caller, the transition it has validated and not yet stored

registryVars == <<models, audit, call>>
-----------------------------------------------------------------------------
States == {"candidate", "validated", "shadow", "benchmark_qualified",
           "advisory_approved", "rolled_back", "rejected"}

\* None is no state; the passing reports are reports.
ASSUME RegistryAssumption == /\ None \notin States
                             /\ PassingReports \subseteq Reports
                             /\ MaxModels \in Nat

LegalTransitions(state) ==
  CASE state = "candidate" -> {"validated", "rejected"}
    [] state = "validated" -> {"shadow", "rejected"}
    [] state = "shadow" -> {"benchmark_qualified", "rolled_back"}
    [] state = "benchmark_qualified" -> {"advisory_approved", "rolled_back"}
    [] state = "advisory_approved" -> {"rolled_back"}
    [] OTHER -> {}

Model == [artifact : Artifacts, report : Reports, state : States]
AuditEvent == [model : Nat \ {0}, source : States \cup {None}, target : States]
Call == [model : Nat \ {0}, expected : States, target : States]

RegistryInit ==
  /\ models = <<>> /\ audit = <<>>
  /\ call = [c \in Callers |-> None]

\* The two highest states need the benchmark report to meet the policy.
BenchmarksMet(m, target) ==
  target \in {"benchmark_qualified", "advisory_approved"} =>
    models[m].report \in PassingReports

\* Mutant of MayMove: promotion skips states.
MayMoveAnywhere(m, target) ==
  /\ m \in DOMAIN models
  /\ target # models[m].state
  /\ BenchmarksMet(m, target)

\* transition's checks, on the state the store holds.
MayMove(m, target) ==
  /\ m \in DOMAIN models
  /\ target \in LegalTransitions(models[m].state)
  /\ BenchmarksMet(m, target)

\* The store replaces the model and appends the audit event as one step.
Store(m, source, target) ==
  /\ models' = [models EXCEPT ![m].state = target]
  /\ audit' = Append(audit, [model |-> m, source |-> source, target |-> target])

\* Mutant of RegisterArtifact: nobody looks for the artifact.
RegisterArtifactAgain(a, r) ==
  /\ Len(models) < MaxModels
  /\ models' = Append(models, [artifact |-> a, report |-> r, state |-> "candidate"])
  /\ audit' = Append(audit, [model |-> Len(models) + 1, source |-> None,
                             target |-> "candidate"])
  /\ UNCHANGED call

\* A trained artifact is registered once.  An artifact already known is
\* returned (same lineage) or refused (another), and nothing changes.
RegisterArtifact(a, r) ==
  /\ Len(models) < MaxModels
  /\ \A m \in DOMAIN models : models[m].artifact # a
  /\ models' = Append(models, [artifact |-> a, report |-> r, state |-> "candidate"])
  /\ audit' = Append(audit, [model |-> Len(models) + 1, source |-> None,
                             target |-> "candidate"])
  /\ UNCHANGED call

\* transition: the edge and the benchmarks are validated on the state read here.
ReadAndValidate(c, m, target) ==
  /\ call[c] = None
  /\ MayMove(m, target)
  /\ call' = [call EXCEPT ![c] = [model |-> m, expected |-> models[m].state,
                                  target |-> target]]
  /\ UNCHANGED <<models, audit>>

\* approve: a passing report for this artifact, on a model that is qualified now.
\* The confirmation text is checked and recorded as the reason.
ReadAndApprove(c, m, artifact) ==
  /\ m \in DOMAIN models
  /\ artifact \in QualifiedArtifacts
  /\ models[m].state = "benchmark_qualified"
  /\ models[m].artifact = artifact
  /\ ReadAndValidate(c, m, "advisory_approved")

\* Mutant of StoreTransition: the store trusts the caller's reading.
StoreTransitionBlind(c) ==
  /\ call[c] # None
  /\ Store(call[c].model, call[c].expected, call[c].target)
  /\ call' = [call EXCEPT ![c] = None]

\* The store compares the state with the one the caller validated.
StoreTransition(c) ==
  /\ call[c] # None
  /\ models[call[c].model].state = call[c].expected
  /\ Store(call[c].model, call[c].expected, call[c].target)
  /\ call' = [call EXCEPT ![c] = None]

\* Mutant of TransitionFails: the failure comes between the two writes.
TransitionFailsHalfway(c) ==
  /\ call[c] # None
  /\ models[call[c].model].state = call[c].expected
  /\ models' = [models EXCEPT ![call[c].model].state = call[c].target]
  /\ call' = [call EXCEPT ![c] = None]
  /\ UNCHANGED audit

\* The state has changed in between, or the store fails: nothing is written.
TransitionFails(c) ==
  /\ call[c] # None
  /\ call' = [call EXCEPT ![c] = None]
  /\ UNCHANGED <<models, audit>>

RegistryNext ==
  \/ \E a \in Artifacts, r \in Reports : RegisterArtifact(a, r)
  \/ \E c \in Callers, m \in DOMAIN models :
       \/ \E target \in States : ReadAndValidate(c, m, target)
       \/ \E artifact \in Artifacts : ReadAndApprove(c, m, artifact)
  \/ \E c \in Callers : StoreTransition(c) \/ TransitionFails(c)

RegistrySpec == RegistryInit /\ [][RegistryNext]_registryVars
-----------------------------------------------------------------------------
(* Properties *)

\* Every variable keeps the shape the code gives it.
RegistryTypeOK ==
  /\ models \in Seq(Model)
  /\ audit \in Seq(AuditEvent)
  /\ call \in [Callers -> Call \cup {None}]

\* Audit event j is the one before i among those of the same model.
Follows(j, i) ==
  /\ j < i /\ audit[j].model = audit[i].model
  /\ \A k \in j + 1 .. i - 1 : audit[k].model # audit[i].model

\* The audit alone reconstructs a model's life: each event starts where the
\* previous one of its model ended, the first is the registration, and every
\* edge is legal, however many callers promote at once (service.py).
AuditIsHistory ==
  \A i \in DOMAIN audit :
    IF audit[i].source = None
    THEN /\ audit[i].target = "candidate"
         /\ \A j \in 1 .. i - 1 : audit[j].model # audit[i].model
    ELSE /\ audit[i].target \in LegalTransitions(audit[i].source)
         /\ \E j \in DOMAIN audit : Follows(j, i) /\ audit[j].target = audit[i].source

\* The state in the store is the one the last audit event of the model left.
AuditExplainsState ==
  \A m \in DOMAIN models : \E i \in DOMAIN audit :
    /\ audit[i].model = m /\ audit[i].target = models[m].state
    /\ \A k \in i + 1 .. Len(audit) : audit[k].model # m

\* A model that may influence quotes has been in shadow and meets the frozen
\* benchmark policy (AC-09: shadow first, benchmark-policy enforcement).
ShadowFirst ==
  \A m \in DOMAIN models :
    models[m].state \in {"benchmark_qualified", "advisory_approved"} =>
      /\ models[m].report \in PassingReports
      /\ \E i \in DOMAIN audit : audit[i].model = m /\ audit[i].target = "shadow"

\* A checkpoint has one registry entry, so a rejected or rolled back artifact
\* cannot come back under another model id.
ArtifactRegisteredOnce ==
  \A m, n \in DOMAIN models : models[m].artifact = models[n].artifact => m = n

\* Rolled back and rejected are final, also for a promotion that was already
\* validated when the rollback arrived.
WithdrawnForGood ==
  [][\A m \in DOMAIN models :
       models[m].state \in {"rolled_back", "rejected"} => models'[m] = models[m]]_models
=============================================================================
