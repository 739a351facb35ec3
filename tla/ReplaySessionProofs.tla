------------------------- MODULE ReplaySessionProofs -------------------------
(***************************************************************************)
(* The registry's audit is its history, for any number of models, callers  *)
(* and reports; the session never quotes an event twice, out of order,     *)
(* while paused or on behalf of the wrong author, and keeps the registry a *)
(* history, for any replay, model and operator.                            *)
(***************************************************************************)
EXTENDS ReplaySession, TLAPS

-----------------------------------------------------------------------------
(* The registry alone *)

\* A validated call names a registered model and a legal edge, and its target
\* has its benchmarks: none of that can change before the call is stored.
CallsValidated ==
  \A c \in Callers : call[c] # None =>
    /\ call[c].model \in DOMAIN models
    /\ call[c].target \in LegalTransitions(call[c].expected)
    /\ BenchmarksMet(call[c].model, call[c].target)

\* The audit speaks of registered models only.
AuditKnowsModels == \A i \in DOMAIN audit : audit[i].model \in DOMAIN models

\* A model that may influence quotes meets the policy.
BenchmarkedModels ==
  \A m \in DOMAIN models :
    models[m].state \in {"benchmark_qualified", "advisory_approved"} =>
      models[m].report \in PassingReports

\* A model in shadow or beyond it has its shadow event in the audit.
ShadowAudited ==
  \A m \in DOMAIN models :
    models[m].state \in {"shadow", "benchmark_qualified", "advisory_approved"} =>
      \E i \in DOMAIN audit : audit[i].model = m /\ audit[i].target = "shadow"

RInv == /\ RegistryTypeOK
        /\ CallsValidated
        /\ AuditKnowsModels
        /\ AuditIsHistory
        /\ AuditExplainsState
        /\ BenchmarkedModels
        /\ ShadowAudited
        /\ ArtifactRegisteredOnce
-----------------------------------------------------------------------------
(* Facts about the edges and about a growing audit *)

\* The edges of the registry lead from states to states.
LEMMA EdgesAreStates ==
  \A s : LegalTransitions(s) \subseteq States
BY DEF LegalTransitions, States

\* Nothing leaves rolled_back or rejected.
LEMMA NoEdgeFromWithdrawn ==
  LegalTransitions("rolled_back") = {} /\ LegalTransitions("rejected") = {}
BY DEF LegalTransitions

\* The serving states are reached from shadow, one edge after the other.
LEMMA EdgesThroughShadow ==
  ASSUME NEW source, NEW target \in LegalTransitions(source),
         target \in {"benchmark_qualified", "advisory_approved"}
  PROVE  source \in {"shadow", "benchmark_qualified"}
BY DEF LegalTransitions

\* Appending to a sequence adds its last element and keeps the others.
LEMMA Appended ==
  ASSUME NEW S, NEW s \in Seq(S), NEW e \in S
  PROVE  /\ Append(s, e) \in Seq(S)
         /\ Len(Append(s, e)) = Len(s) + 1
         /\ DOMAIN s = 1 .. Len(s)
         /\ DOMAIN Append(s, e) = 1 .. Len(s) + 1
         /\ Len(s) \in Nat
         /\ \A i \in 1 .. Len(s) : Append(s, e)[i] = s[i]
         /\ Append(s, e)[Len(s) + 1] = e
OBVIOUS

\* What both writers of the audit do to it.
Grows(e) == /\ Len(audit') = Len(audit) + 1
            /\ Len(audit) \in Nat
            /\ DOMAIN audit = 1 .. Len(audit)
            /\ DOMAIN audit' = 1 .. Len(audit) + 1
            /\ \A i \in 1 .. Len(audit) : audit'[i] = audit[i]
            /\ audit'[Len(audit) + 1] = e

\* An appended event whose source is the state its model was left in, or the
\* first of its model, keeps the audit a history.
LEMMA HistoryGrows ==
  ASSUME AuditIsHistory, NEW e, Grows(e),
         IF e.source = None
         THEN /\ e.target = "candidate"
              /\ \A j \in 1 .. Len(audit) : audit[j].model # e.model
         ELSE /\ e.target \in LegalTransitions(e.source)
              /\ \E j \in 1 .. Len(audit) :
                   /\ audit[j].model = e.model /\ audit[j].target = e.source
                   /\ \A k \in j + 1 .. Len(audit) : audit[k].model # e.model
  PROVE  AuditIsHistory'
<1> SUFFICES ASSUME NEW i \in 1 .. Len(audit) + 1
             PROVE  IF audit'[i].source = None
                    THEN /\ audit'[i].target = "candidate"
                         /\ \A j \in 1 .. i - 1 : audit'[j].model # audit'[i].model
                    ELSE /\ audit'[i].target \in LegalTransitions(audit'[i].source)
                         /\ \E j \in 1 .. Len(audit) + 1 :
                              /\ j < i /\ audit'[j].model = audit'[i].model
                              /\ \A k \in j + 1 .. i - 1 : audit'[k].model # audit'[i].model
                              /\ audit'[j].target = audit'[i].source
  BY SMTT(30) DEF AuditIsHistory, Follows, Grows
<1>1. CASE i = Len(audit) + 1
  BY <1>1 DEF Grows
<1>2. CASE i \in 1 .. Len(audit)
  <2>1. audit'[i] = audit[i]
    BY <1>2 DEF Grows
  <2>2. CASE audit[i].source = None
    BY <1>2, <2>1, <2>2 DEF Grows, AuditIsHistory
  <2>3. CASE audit[i].source # None
    <3>1. PICK j \in DOMAIN audit : Follows(j, i) /\ audit[j].target = audit[i].source
      BY <1>2, <2>3 DEF Grows, AuditIsHistory
    <3>2. j \in 1 .. Len(audit) + 1 /\ audit'[j] = audit[j]
      BY <1>2, <3>1 DEF Grows
    <3>3. \A k \in j + 1 .. i - 1 : audit'[k] = audit[k]
      BY <1>2, <3>1 DEF Grows
    <3>4. audit[i].target \in LegalTransitions(audit[i].source)
      BY <1>2, <2>3 DEF Grows, AuditIsHistory
    <3> QED BY <2>1, <2>3, <3>1, <3>2, <3>3, <3>4 DEF Follows
  <2> QED BY <2>2, <2>3
<1> QED BY <1>1, <1>2 DEF Grows

\* The appended event explains its own model; the others keep their event.
LEMMA ExplanationGrows ==
  ASSUME AuditExplainsState, NEW e, Grows(e),
         \A n \in DOMAIN models' :
           IF n = e.model THEN models'[n].state = e.target
                          ELSE n \in DOMAIN models /\ models'[n].state = models[n].state
  PROVE  AuditExplainsState'
<1> SUFFICES ASSUME NEW n \in DOMAIN models'
             PROVE  \E i \in 1 .. Len(audit) + 1 :
                      /\ audit'[i].model = n /\ audit'[i].target = models'[n].state
                      /\ \A k \in i + 1 .. Len(audit) + 1 : audit'[k].model # n
  BY DEF AuditExplainsState, Grows
<1>1. CASE n = e.model
  BY <1>1 DEF Grows
<1>2. CASE n # e.model
  <2>1. PICK i \in DOMAIN audit :
          /\ audit[i].model = n /\ audit[i].target = models[n].state
          /\ \A k \in i + 1 .. Len(audit) : audit[k].model # n
    BY <1>2 DEF AuditExplainsState
  <2>2. i \in 1 .. Len(audit) /\ audit'[i] = audit[i]
    BY <2>1 DEF Grows
  <2>3. \A k \in i + 1 .. Len(audit) + 1 : audit'[k].model # n
    BY <1>2, <2>1, <2>2 DEF Grows
  <2> QED BY <1>2, <2>1, <2>2, <2>3 DEF Grows
<1> QED BY <1>1, <1>2
-----------------------------------------------------------------------------
(* The two ways the registry is written *)

\* What the calls and the benchmarks depend on when models change: entries stay
\* and keep their artifact and report.
EntriesStay ==
  \A m \in DOMAIN models :
    /\ m \in DOMAIN models'
    /\ models'[m].artifact = models[m].artifact
    /\ models'[m].report = models[m].report

\* What one write of the registry keeps, apart from the calls.
RegistryKept ==
  /\ models' \in Seq(Model) /\ audit' \in Seq(AuditEvent)
  /\ EntriesStay
  /\ AuditKnowsModels' /\ AuditIsHistory' /\ AuditExplainsState'
  /\ BenchmarkedModels' /\ ShadowAudited' /\ ArtifactRegisteredOnce'

\* A legal edge of the stored state, stored with its event.  The last event of
\* the model left it in the state the edge starts from (AuditExplainsState).
LEMMA StoreKeeps ==
  ASSUME RInv, NEW m, NEW target, MayMove(m, target), Store(m, models[m].state, target)
  PROVE  RegistryKept
<1> DEFINE e == [model |-> m, source |-> models[m].state, target |-> target]
<1>1. /\ models \in Seq(Model) /\ audit \in Seq(AuditEvent)
      /\ m \in DOMAIN models /\ models[m] \in Model
  BY DEF RInv, RegistryTypeOK, MayMove
<1>2. m \in Nat \ {0} /\ DOMAIN models \subseteq Nat \ {0}
  BY <1>1
<1>3. models[m].state \in States /\ target \in States
  BY <1>1, EdgesAreStates DEF Model, MayMove
<1>4. e \in AuditEvent
  BY <1>2, <1>3 DEF AuditEvent
<1>5. audit' = Append(audit, e) /\ models' = [models EXCEPT ![m].state = target]
  BY DEF Store
<1> HIDE DEF e
<1>6. Grows(e) /\ audit' \in Seq(AuditEvent)
  BY <1>1, <1>4, <1>5, Appended DEF Grows
<1>7. DOMAIN models' = DOMAIN models
  BY <1>5
<1>8. models'[m] = [models[m] EXCEPT !.state = target]
  BY <1>1, <1>5
<1>9. \A n \in DOMAIN models : n # m => models'[n] = models[n]
  BY <1>5
<1>10. models'[m] \in Model
  BY <1>1, <1>3, <1>8 DEF Model
<1>11. models' \in Seq(Model)
  BY <1>1, <1>7, <1>9, <1>10, <1>5
<1>12. /\ models'[m].state = target
       /\ models'[m].artifact = models[m].artifact
       /\ models'[m].report = models[m].report
  BY <1>1, <1>8 DEF Model
<1>13. EntriesStay
  BY <1>7, <1>9, <1>12 DEF EntriesStay
<1>14. e.model = m /\ e.source = models[m].state /\ e.target = target
  BY DEF e
<1>15. AuditKnowsModels'
  BY <1>1, <1>6, <1>7, <1>14 DEF AuditKnowsModels, Grows, RInv
<1>16. AuditIsHistory'
  <2>1. PICK i \in DOMAIN audit :
          /\ audit[i].model = m /\ audit[i].target = models[m].state
          /\ \A k \in i + 1 .. Len(audit) : audit[k].model # m
    BY <1>1 DEF RInv, AuditExplainsState
  <2>2. i \in 1 .. Len(audit)
    BY <2>1, <1>6 DEF Grows
  <2>3. e.source # None
    BY <1>3, <1>14, RegistryAssumption
  <2>4. e.target \in LegalTransitions(e.source)
    BY <1>14 DEF MayMove
  <2> QED BY <2>1, <2>2, <2>3, <2>4, <1>6, <1>14, HistoryGrows DEF RInv
<1>17. AuditExplainsState'
  BY <1>6, <1>7, <1>9, <1>12, <1>14, ExplanationGrows DEF RInv
<1>18. BenchmarkedModels'
  <2> SUFFICES ASSUME NEW n \in DOMAIN models,
                      models'[n].state \in {"benchmark_qualified", "advisory_approved"}
               PROVE  models'[n].report \in PassingReports
    BY <1>7 DEF BenchmarkedModels
  <2>1. CASE n = m
    BY <2>1, <1>12 DEF MayMove, BenchmarksMet
  <2>2. CASE n # m
    BY <2>2, <1>9 DEF RInv, BenchmarkedModels
  <2> QED BY <2>1, <2>2
<1>19. ArtifactRegisteredOnce'
  BY <1>7, <1>13 DEF EntriesStay, RInv, ArtifactRegisteredOnce
<1>20. ShadowAudited'
  <2> SUFFICES ASSUME NEW n \in DOMAIN models,
                      models'[n].state \in {"shadow", "benchmark_qualified", "advisory_approved"}
               PROVE  \E i \in 1 .. Len(audit) + 1 :
                        audit'[i].model = n /\ audit'[i].target = "shadow"
    BY <1>6, <1>7 DEF ShadowAudited, Grows
  <2>1. ASSUME models[n].state \in {"shadow", "benchmark_qualified", "advisory_approved"}
        PROVE  \E i \in 1 .. Len(audit) : audit'[i].model = n /\ audit'[i].target = "shadow"
    BY <2>1, <1>6 DEF RInv, ShadowAudited, Grows
  <2>2. CASE n = m /\ target = "shadow"
    BY <2>2, <1>6, <1>14 DEF Grows
  <2>3. CASE n = m /\ target # "shadow"
    BY <2>1, <2>3, <1>6, <1>12, EdgesThroughShadow DEF MayMove, Grows
  <2>4. CASE n # m
    BY <2>1, <2>4, <1>6, <1>9 DEF Grows
  <2> QED BY <2>2, <2>3, <2>4
<1> QED BY <1>6, <1>11, <1>13, <1>15, <1>16, <1>17, <1>18, <1>19, <1>20 DEF RegistryKept

\* A new artifact: the audit, which knows registered models only, has no event
\* of its entry yet.
LEMMA RegisterKeeps ==
  ASSUME RInv, NEW a \in Artifacts, NEW r \in Reports, RegisterArtifact(a, r)
  PROVE  RegistryKept
<1> DEFINE new == [artifact |-> a, report |-> r, state |-> "candidate"]
           e == [model |-> Len(models) + 1, source |-> None, target |-> "candidate"]
<1>1. models \in Seq(Model) /\ audit \in Seq(AuditEvent)
  BY DEF RInv, RegistryTypeOK
<1>2. new \in Model
  BY DEF Model, States
<1>3. e \in AuditEvent
  BY <1>1 DEF AuditEvent, States
<1>4. models' = Append(models, new) /\ audit' = Append(audit, e)
  BY DEF RegisterArtifact
<1>5. new.artifact = a /\ new.report = r /\ new.state = "candidate"
  OBVIOUS
<1>6. e.model = Len(models) + 1 /\ e.source = None /\ e.target = "candidate"
  OBVIOUS
<1> HIDE DEF new, e
<1>7. Grows(e) /\ audit' \in Seq(AuditEvent)
  BY <1>1, <1>3, <1>4, Appended DEF Grows
<1>8. /\ models' \in Seq(Model)
      /\ DOMAIN models = 1 .. Len(models) /\ Len(models) \in Nat
      /\ DOMAIN models' = 1 .. Len(models) + 1
      /\ \A n \in 1 .. Len(models) : models'[n] = models[n]
      /\ models'[Len(models) + 1] = new
  BY <1>1, <1>2, <1>4, Appended
<1>9. EntriesStay
  BY <1>8 DEF EntriesStay
<1>10. AuditKnowsModels'
  <2> SUFFICES ASSUME NEW i \in 1 .. Len(audit) + 1
               PROVE  audit'[i].model \in DOMAIN models'
    BY <1>7 DEF AuditKnowsModels, Grows
  <2>1. CASE i \in 1 .. Len(audit)
    BY <2>1, <1>7, <1>8 DEF AuditKnowsModels, Grows, RInv
  <2>2. CASE i = Len(audit) + 1
    BY <2>2, <1>6, <1>7, <1>8 DEF Grows
  <2> QED BY <2>1, <2>2, <1>7 DEF Grows
<1>11. AuditIsHistory'
  <2>1. \A j \in 1 .. Len(audit) : audit[j].model # e.model
    BY <1>6, <1>7, <1>8 DEF AuditKnowsModels, Grows, RInv
  <2> QED BY <2>1, <1>6, <1>7, HistoryGrows DEF RInv
<1>12. AuditExplainsState'
  <2>1. \A n \in DOMAIN models' :
          IF n = e.model THEN models'[n].state = e.target
                         ELSE n \in DOMAIN models /\ models'[n].state = models[n].state
    BY <1>5, <1>6, <1>8
  <2> QED BY <2>1, <1>7, ExplanationGrows DEF RInv
<1>13. BenchmarkedModels'
  <2> SUFFICES ASSUME NEW n \in 1 .. Len(models) + 1,
                      models'[n].state \in {"benchmark_qualified", "advisory_approved"}
               PROVE  models'[n].report \in PassingReports
    BY <1>8 DEF BenchmarkedModels
  <2>1. n # Len(models) + 1
    BY <1>5, <1>8
  <2> QED BY <2>1, <1>8 DEF RInv, BenchmarkedModels
<1>14. ArtifactRegisteredOnce'
  <2> SUFFICES ASSUME NEW m \in 1 .. Len(models) + 1, NEW n \in 1 .. Len(models) + 1,
                      models'[m].artifact = models'[n].artifact
               PROVE  m = n
    BY <1>8 DEF ArtifactRegisteredOnce
  <2>1. \A k \in 1 .. Len(models) : models'[k].artifact # a
    BY <1>8 DEF RegisterArtifact
  <2>2. models'[Len(models) + 1].artifact = a
    BY <1>5, <1>8
  <2>3. CASE m = Len(models) + 1 \/ n = Len(models) + 1
    BY <2>1, <2>2, <2>3, <1>8
  <2>4. CASE m \in 1 .. Len(models) /\ n \in 1 .. Len(models)
    BY <2>4, <1>8 DEF RInv, ArtifactRegisteredOnce
  <2> QED BY <2>3, <2>4, <1>8
<1>15. ShadowAudited'
  <2> SUFFICES ASSUME NEW n \in 1 .. Len(models) + 1,
                      models'[n].state \in {"shadow", "benchmark_qualified", "advisory_approved"}
               PROVE  \E i \in 1 .. Len(audit) + 1 :
                        audit'[i].model = n /\ audit'[i].target = "shadow"
    BY <1>7, <1>8 DEF ShadowAudited, Grows
  <2>1. n # Len(models) + 1
    BY <1>5, <1>8
  <2>2. \E i \in 1 .. Len(audit) : audit[i].model = n /\ audit[i].target = "shadow"
    BY <2>1, <1>7, <1>8 DEF RInv, ShadowAudited, Grows
  <2> QED BY <2>2, <1>7 DEF Grows
<1> QED BY <1>7, <1>8, <1>9, <1>10, <1>11, <1>12, <1>13, <1>14, <1>15 DEF RegistryKept

\* Calls stay validated while entries stay.
LEMMA CallsKeep ==
  ASSUME CallsValidated, EntriesStay,
         \A c \in Callers : call'[c] = None \/ call'[c] = call[c]
  PROVE  CallsValidated'
BY DEF CallsValidated, EntriesStay, BenchmarksMet
-----------------------------------------------------------------------------
(* The invariant *)

LEMMA RegistryInitHolds == RegistryInit => RInv
<1> SUFFICES ASSUME RegistryInit PROVE RInv
  OBVIOUS
<1>1. RegistryTypeOK
  BY DEF RegistryInit, RegistryTypeOK
<1>2. CallsValidated
  BY DEF RegistryInit, CallsValidated
<1>3. models = <<>> /\ audit = <<>> /\ DOMAIN models = {} /\ DOMAIN audit = {}
  BY DEF RegistryInit
<1> QED BY <1>1, <1>2, <1>3 DEF RInv, AuditKnowsModels, AuditIsHistory, AuditExplainsState,
           BenchmarkedModels, ShadowAudited, ArtifactRegisteredOnce

\* Validation writes no model and no audit.
LEMMA ValidateKeeps ==
  ASSUME RInv, NEW c \in Callers, NEW m, NEW target, ReadAndValidate(c, m, target)
  PROVE  RInv'
<1> DEFINE new == [model |-> m, expected |-> models[m].state, target |-> target]
<1>1. models' = models /\ audit' = audit /\ call' = [call EXCEPT ![c] = new]
  BY DEF ReadAndValidate
<1>2. models \in Seq(Model) /\ m \in DOMAIN models /\ call \in [Callers -> Call \cup {None}]
  BY DEF RInv, RegistryTypeOK, ReadAndValidate, MayMove
<1>3. m \in Nat \ {0} /\ models[m] \in Model
  BY <1>2
<1>4. models[m].state \in States /\ target \in States
  BY <1>3, EdgesAreStates DEF Model, ReadAndValidate, MayMove
<1>5. new \in Call
  BY <1>3, <1>4 DEF Call
<1>6. new.model = m /\ new.expected = models[m].state /\ new.target = target
  OBVIOUS
<1> HIDE DEF new
<1>7. call' \in [Callers -> Call \cup {None}] /\ call'[c] = new
  BY <1>1, <1>2, <1>5
<1>8. CallsValidated'
  <2> SUFFICES ASSUME NEW d \in Callers, call'[d] # None
               PROVE  /\ call'[d].model \in DOMAIN models
                      /\ call'[d].target \in LegalTransitions(call'[d].expected)
                      /\ BenchmarksMet(call'[d].model, call'[d].target)
    BY <1>1 DEF CallsValidated, BenchmarksMet
  <2>1. CASE d = c
    BY <2>1, <1>6, <1>7 DEF ReadAndValidate, MayMove
  <2>2. CASE d # c
    <3>1. call'[d] = call[d]
      BY <2>2, <1>1, <1>2
    <3> QED BY <3>1 DEF RInv, CallsValidated
  <2> QED BY <2>1, <2>2
<1>9. RegistryTypeOK'
  BY <1>1, <1>7 DEF RInv, RegistryTypeOK
<1> QED BY <1>1, <1>8, <1>9 DEF RInv, AuditKnowsModels, AuditIsHistory, Follows,
           AuditExplainsState, BenchmarkedModels, ShadowAudited, ArtifactRegisteredOnce

LEMMA RegistryNextKeeps == RInv /\ [RegistryNext]_registryVars => RInv'
<1> SUFFICES ASSUME RInv, [RegistryNext]_registryVars PROVE RInv'
  OBVIOUS
<1>0. call \in [Callers -> Call \cup {None}] /\ CallsValidated
  BY DEF RInv, RegistryTypeOK
<1>1. ASSUME NEW a \in Artifacts, NEW r \in Reports, RegisterArtifact(a, r) PROVE RInv'
  <2>1. RegistryKept /\ call' = call
    BY <1>1, RegisterKeeps DEF RegisterArtifact
  <2>2. CallsValidated'
    BY <2>1, <1>0, CallsKeep DEF RegistryKept
  <2> QED BY <2>1, <2>2, <1>0 DEF RInv, RegistryKept, RegistryTypeOK
<1>2. ASSUME NEW c \in Callers, NEW m \in DOMAIN models, NEW target \in States,
             ReadAndValidate(c, m, target)
      PROVE  RInv'
  BY <1>2, ValidateKeeps
<1>3. ASSUME NEW c \in Callers, NEW m \in DOMAIN models, NEW artifact \in Artifacts,
             ReadAndApprove(c, m, artifact)
      PROVE  RInv'
  BY <1>3, ValidateKeeps DEF ReadAndApprove
<1>4. ASSUME NEW c \in Callers, StoreTransition(c) PROVE RInv'
  <2> DEFINE m == call[c].model
             target == call[c].target
  <2>1. call' = [call EXCEPT ![c] = None]
    BY <1>4 DEF StoreTransition
  <2>2. MayMove(m, target) /\ Store(m, models[m].state, target)
    BY <1>0, <1>4 DEF StoreTransition, MayMove, CallsValidated
  <2> HIDE DEF m, target
  <2>3. RegistryKept
    BY <2>2, StoreKeeps
  <2>4. /\ call'[c] = None /\ call' \in [Callers -> Call \cup {None}]
        /\ \A d \in Callers \ {c} : call'[d] = call[d]
    BY <1>0, <2>1
  <2>5. CallsValidated'
    BY <1>0, <2>3, <2>4, CallsKeep DEF RegistryKept
  <2> QED BY <2>3, <2>4, <2>5 DEF RInv, RegistryKept, RegistryTypeOK
<1>5. ASSUME NEW c \in Callers, TransitionFails(c) PROVE RInv'
  <2>1. models' = models /\ audit' = audit /\ call' = [call EXCEPT ![c] = None]
    BY <1>5 DEF TransitionFails
  <2>2. /\ call'[c] = None /\ call' \in [Callers -> Call \cup {None}]
        /\ \A d \in Callers \ {c} : call'[d] = call[d]
    BY <1>0, <2>1
  <2>3. EntriesStay
    BY <2>1 DEF EntriesStay
  <2>4. CallsValidated'
    BY <1>0, <2>2, <2>3, CallsKeep
  <2> QED BY <2>1, <2>2, <2>4 DEF RInv, RegistryTypeOK, AuditKnowsModels, AuditIsHistory,
             Follows, AuditExplainsState, BenchmarkedModels, ShadowAudited, ArtifactRegisteredOnce
<1>6. CASE UNCHANGED registryVars
  BY <1>6 DEF registryVars, RInv, RegistryTypeOK, CallsValidated, BenchmarksMet,
     AuditKnowsModels, AuditIsHistory, Follows, AuditExplainsState, BenchmarkedModels,
     ShadowAudited, ArtifactRegisteredOnce
<1> QED BY <1>1, <1>2, <1>3, <1>4, <1>5, <1>6 DEF RegistryNext

LEMMA RegistryInvariant == RegistrySpec => []RInv
BY RegistryInitHolds, RegistryNextKeeps, PTL DEF RegistrySpec
-----------------------------------------------------------------------------
(* Theorems *)

\* The registry, its audit and the calls under way keep their shape.
THEOREM RegistryTypeCorrect == RegistrySpec => []RegistryTypeOK
BY RegistryInvariant, PTL DEF RInv

\* However many callers promote at once, the audit is a chain of legal edges
\* per model, begun by its registration (compare-and-swap of the store).
THEOREM AuditReconstructs == RegistrySpec => []AuditIsHistory
BY RegistryInvariant, PTL DEF RInv

\* The audit and the stored states never part: one step writes both.
THEOREM AuditCurrent == RegistrySpec => []AuditExplainsState
BY RegistryInvariant, PTL DEF RInv

\* No artifact is registered under two ids.
THEOREM OneEntryPerArtifact == RegistrySpec => []ArtifactRegisteredOnce
BY RegistryInvariant, PTL DEF RInv

\* No model serves that has not been in shadow, or whose report fails the
\* policy, whatever promotions race (service.py, transition and approve).
THEOREM ServingIsEarned == RegistrySpec => []ShadowFirst
<1>1. RInv => ShadowFirst
  BY DEF RInv, BenchmarkedModels, ShadowAudited, ShadowFirst
<1> QED BY <1>1, RegistryInvariant, PTL

\* Neither a late promotion nor anything else brings back a model that was
\* rolled back or rejected.
THEOREM Withdrawn == RegistrySpec => WithdrawnForGood
<1>1. ASSUME RInv, [RegistryNext]_registryVars
      PROVE  [\A m \in DOMAIN models :
                models[m].state \in {"rolled_back", "rejected"} => models'[m] = models[m]]_models
  <2> SUFFICES ASSUME NEW m \in DOMAIN models,
                      models[m].state \in {"rolled_back", "rejected"}
               PROVE  models'[m] = models[m]
    OBVIOUS
  <2>0. models \in Seq(Model)
    BY <1>1 DEF RInv, RegistryTypeOK
  <2>1. ASSUME NEW a \in Artifacts, NEW r \in Reports, RegisterArtifact(a, r)
        PROVE  models'[m] = models[m]
    <3> DEFINE new == [artifact |-> a, report |-> r, state |-> "candidate"]
    <3>1. new \in Model /\ models' = Append(models, new)
      BY <2>1 DEF RegisterArtifact, Model, States
    <3> HIDE DEF new
    <3> QED BY <3>1, <2>0, Appended
  <2>2. ASSUME NEW c \in Callers, StoreTransition(c)
        PROVE  models'[m] = models[m]
    <3>1. call[c] # None /\ models[call[c].model].state = call[c].expected
      BY <2>2 DEF StoreTransition
    <3>2. call[c].target \in LegalTransitions(call[c].expected)
      BY <1>1, <3>1 DEF RInv, CallsValidated
    <3>3. call[c].model # m
      BY <3>1, <3>2, NoEdgeFromWithdrawn
    <3>4. models' = [models EXCEPT ![call[c].model].state = call[c].target]
      BY <2>2 DEF StoreTransition, Store
    <3> QED BY <3>3, <3>4
  <2>3. CASE \/ \E c \in Callers, n \in DOMAIN models, t \in States : ReadAndValidate(c, n, t)
             \/ \E c \in Callers, n \in DOMAIN models, f \in Artifacts : ReadAndApprove(c, n, f)
             \/ \E c \in Callers : TransitionFails(c)
    BY <2>3 DEF ReadAndApprove, ReadAndValidate, TransitionFails
  <2>4. CASE UNCHANGED registryVars
    BY <2>4 DEF registryVars
  <2> QED BY <1>1, <2>1, <2>2, <2>3, <2>4 DEF RegistryNext
<1> QED BY <1>1, RegistryInvariant, PTL DEF RegistrySpec, WithdrawnForGood

-----------------------------------------------------------------------------
(* The session *)

\* TypeOK without the registry's part, by what the actions leave alone.
ClockTypeOK ==
  /\ hasRun \in BOOLEAN
  /\ status \in {"empty", "loaded", "running", "paused", "stopped"}
  /\ cursor \in 0 .. EventCount
  /\ speed \in Nat \ {0}
  /\ pauseReason \in {None, "operator", "iql_unavailable"}
  /\ lastEvent \in BOOLEAN

ModelTypeOK ==
  /\ mode \in Modes
  /\ modelId \in Nat \cup {None, OpsModel}
  /\ known \in States \cup {None}
  /\ port \in BOOLEAN
  /\ answer \in Answers
  /\ budget \in 1 .. MaxLatency

HandledEvent == [position : 1 .. EventCount, author : {"base", "model"}]

PassTypeOK == batch \in Seq(1 .. EventCount) /\ handled \in Seq(HandledEvent)

SessionTypeOK == ClockTypeOK /\ ModelTypeOK /\ PassTypeOK

\* A tick that still has events to handle belongs to a running clock with a run.
BatchRuns == batch # <<>> => status = "running" /\ hasRun

SInv == /\ SessionTypeOK
        /\ HandledInOrder
        /\ BatchRuns
        /\ ModelPauseNeedsModelMode
-----------------------------------------------------------------------------
(* Sequences *)

\* The tail of a sequence is the sequence, shifted by one.
LEMMA Shifted ==
  ASSUME NEW S, NEW s \in Seq(S), s # <<>>
  PROVE  /\ Len(s) \in Nat \ {0} /\ DOMAIN s = 1 .. Len(s)
         /\ Head(s) = s[1] /\ s[1] \in S
         /\ Tail(s) \in Seq(S) /\ Len(Tail(s)) = Len(s) - 1
         /\ DOMAIN Tail(s) = 1 .. Len(s) - 1
         /\ \A i \in 1 .. Len(s) - 1 : Tail(s)[i] = s[i + 1]
OBVIOUS

\* The empty sequence has nothing in its domain.
LEMMA EmptySequence ==
  /\ \A S : <<>> \in Seq(S)
  /\ DOMAIN <<>> = {} /\ Len(<<>>) = 0
OBVIOUS
-----------------------------------------------------------------------------
(* The registry under the session *)

\* A promotion through the session is one more writer of the registry.
LEMMA PromoteKeepsRegistry ==
  ASSUME RInv, NEW m \in DOMAIN models, NEW target \in States, PromoteModel(m, target)
  PROVE  RInv'
<1>1. RegistryKept /\ call' = call
  BY StoreKeeps DEF PromoteModel
<1>2. CallsValidated'
  BY <1>1, CallsKeep DEF RInv, RegistryKept
<1> QED BY <1>1, <1>2 DEF RInv, RegistryKept, RegistryTypeOK

LEMMA RegistryUnderSession == RInv /\ [Next]_vars => RInv'
<1> SUFFICES ASSUME RInv, [Next]_vars PROVE RInv'
  OBVIOUS
<1>1. CASE ClockCommand
  <2>1. UNCHANGED registryVars
    BY <1>1 DEF ClockCommand, Load, LoadRefused, Start, Pause, Resume, Stop, Tick
  <2> QED BY <2>1, RegistryNextKeeps
<1>2. CASE HandleEvent
  <2>1. UNCHANGED registryVars
    BY <1>2 DEF HandleEvent, HandleByBase, HandleByModel, Handle, PauseForModel, EventRaises
  <2> QED BY <2>1, RegistryNextKeeps
<1>3. CASE ModelCommand
  <2>1. CASE \E m \in DOMAIN models, target \in States : PromoteModel(m, target)
    BY <2>1, PromoteKeepsRegistry
  <2>2. CASE ~ \E m \in DOMAIN models, target \in States : PromoteModel(m, target)
    <3>1. UNCHANGED registryVars
      BY <1>3, <2>2 DEF ModelCommand, SetMode, SetBudget, BindModel
    <3> QED BY <3>1, RegistryNextKeeps
  <2> QED BY <2>1, <2>2
<1>4. CASE ResearchJob
  BY <1>4, RegistryNextKeeps DEF ResearchJob
<1>5. CASE \E a \in Answers : PortChanges(a)
  <2>1. UNCHANGED registryVars
    BY <1>5 DEF PortChanges
  <2> QED BY <2>1, RegistryNextKeeps
<1>6. CASE UNCHANGED vars
  <2>1. UNCHANGED registryVars
    BY <1>6 DEF vars
  <2> QED BY <2>1, RegistryNextKeeps
<1> QED BY <1>1, <1>2, <1>3, <1>4, <1>5, <1>6 DEF Next
-----------------------------------------------------------------------------
(* The clock *)

LEMMA SessionInitHolds == Init => SInv
<1> SUFFICES ASSUME Init PROVE SInv
  OBVIOUS
<1>1. SessionTypeOK
  <2>1. ClockTypeOK
    <3>1. /\ hasRun = FALSE /\ status = "empty" /\ pauseReason = None /\ lastEvent = FALSE
          /\ cursor = 0 /\ speed = 1
      BY DEF Init
    <3>2. cursor \in 0 .. EventCount /\ speed \in Nat \ {0}
      BY <3>1, SessionAssumption
    <3>3. /\ hasRun \in BOOLEAN /\ lastEvent \in BOOLEAN
          /\ status \in {"empty", "loaded", "running", "paused", "stopped"}
          /\ pauseReason \in {None, "operator", "iql_unavailable"}
      BY <3>1, Zenon
    <3> QED BY <3>2, <3>3 DEF ClockTypeOK
  <2>2. ModelTypeOK
    <3>1. budget \in 1 .. MaxLatency
      BY DEF Init, MaxLatency, DefaultLatency
    <3>2. mode \in Modes /\ answer \in Answers
      BY DEF Init, Modes
    <3>3. port \in BOOLEAN
      BY SessionAssumption, Zenon DEF Init
    <3>4. modelId \in Nat \cup {None, OpsModel} /\ known \in States \cup {None}
      BY Zenon DEF Init, States
    <3> QED BY <3>1, <3>2, <3>3, <3>4 DEF ModelTypeOK
  <2>3. PassTypeOK
    BY EmptySequence DEF Init, PassTypeOK
  <2> QED BY <2>1, <2>2, <2>3 DEF SessionTypeOK
<1>2. HandledInOrder
  BY EmptySequence DEF Init, HandledInOrder
<1>3. BatchRuns
  BY DEF Init, BatchRuns
<1>4. ModelPauseNeedsModelMode
  BY SessionAssumption, Zenon DEF Init, ModelPauseNeedsModelMode
<1> QED BY <1>1, <1>2, <1>3, <1>4 DEF SInv

\* load and stop begin a new pass.
LEMMA NewPass ==
  ASSUME batch = <<>>, batch' = batch, handled' = <<>>
  PROVE  HandledInOrder'
BY EmptySequence DEF HandledInOrder

\* The clock commands other than tick.
LEMMA ClockKeeps ==
  ASSUME SInv, \/ \E s \in SpeedChoices : Load(s) \/ LoadRefused(s)
               \/ Start \/ Pause \/ Resume \/ Stop
  PROVE  SInv'
<1>0. batch = <<>> /\ batch' = batch
  BY DEF Load, LoadRefused, Start, Pause, Resume, Stop, Idle
<1>1. SessionTypeOK'
  <2>1. ClockTypeOK'
    <3>1. CASE \E s \in SpeedChoices : Load(s)
      <4>1. hasRun' = TRUE /\ status' = "loaded" /\ UNCHANGED <<pauseReason, lastEvent>>
        BY <3>1 DEF Load
      <4>2. cursor' \in 0 .. EventCount /\ speed' \in Nat \ {0}
        BY <3>1, SessionAssumption DEF Load
      <4> QED BY <4>1, <4>2 DEF SInv, SessionTypeOK, ClockTypeOK
    <3>2. CASE \E s \in SpeedChoices : LoadRefused(s)
      BY <3>2 DEF SInv, SessionTypeOK, ClockTypeOK, LoadRefused
    <3>3. CASE Start \/ Pause \/ Resume
      BY <3>3 DEF SInv, SessionTypeOK, ClockTypeOK, Start, Pause, Resume
    <3>4. CASE Stop
      <4>1. /\ status' = "stopped" /\ cursor' = 0 /\ pauseReason' = None
            /\ UNCHANGED <<hasRun, speed, lastEvent>>
        BY <3>4 DEF Stop
      <4>2. cursor' \in 0 .. EventCount
        BY <4>1, SessionAssumption
      <4> QED BY <4>1, <4>2 DEF SInv, SessionTypeOK, ClockTypeOK
    <3> QED BY <3>1, <3>2, <3>3, <3>4
  <2>2. UNCHANGED modelVars
    BY DEF Load, LoadRefused, Start, Pause, Resume, Stop
  <2>3. ModelTypeOK'
    BY <2>2 DEF SInv, SessionTypeOK, ModelTypeOK, modelVars
  <2>4. handled' = handled \/ handled' = <<>>
    BY DEF Load, LoadRefused, Start, Pause, Resume, Stop
  <2>5. PassTypeOK'
    BY <1>0, <2>4, EmptySequence DEF SInv, SessionTypeOK, PassTypeOK
  <2> QED BY <2>1, <2>3, <2>5 DEF SessionTypeOK
<1>2. HandledInOrder'
  <2>1. CASE Stop \/ \E s \in SpeedChoices : Load(s)
    BY <1>0, <2>1, NewPass DEF Stop, Load
  <2>2. CASE Start \/ Pause \/ Resume \/ \E s \in SpeedChoices : LoadRefused(s)
    <3>1. UNCHANGED <<batch, cursor, handled>>
      BY <2>2 DEF Start, Pause, Resume, LoadRefused
    <3> QED BY <3>1 DEF SInv, HandledInOrder
  <2> QED BY <2>1, <2>2
<1>3. ModelPauseNeedsModelMode'
  <2>1. mode' = mode
    BY DEF Load, LoadRefused, Start, Pause, Resume, Stop, modelVars
  <2>2. pauseReason' \in {pauseReason, "operator", None}
    BY DEF Load, LoadRefused, Start, Pause, Resume, Stop
  <2> QED BY <2>1, <2>2, SessionAssumption DEF SInv, ModelPauseNeedsModelMode
<1> QED BY <1>0, <1>1, <1>2, <1>3 DEF SInv, BatchRuns

\* tick hands out the next positions: all behind what was handled.
LEMMA TickKeeps ==
  ASSUME SInv, Tick
  PROVE  SInv'
<1>1. /\ batch = <<>> /\ status = "running" /\ cursor \in 0 .. EventCount
      /\ speed \in Nat \ {0} /\ EventCount \in Nat /\ cursor < EventCount
  BY SessionAssumption DEF Tick, Idle, SInv, SessionTypeOK, ClockTypeOK
<1>2. /\ NextCursor \in 0 .. EventCount
      /\ NextCursor > cursor
  BY <1>1 DEF NextCursor, Lesser
<1>3. cursor' = NextCursor /\ handled' = handled /\ status' = status /\ hasRun' = hasRun
  BY DEF Tick
<1>4. ClockTypeOK' /\ ModelTypeOK'
  BY <1>1, <1>2, <1>3 DEF SInv, SessionTypeOK, ClockTypeOK, ModelTypeOK, Tick, modelVars
<1>5. \A i \in DOMAIN handled :
        handled[i].position \in 1 .. EventCount /\ handled[i].position <= cursor
  <2>1. \A i \in DOMAIN handled : handled[i] \in HandledEvent
    BY DEF SInv, SessionTypeOK, PassTypeOK
  <2>2. \A i \in DOMAIN handled : handled[i].position \in 1 .. EventCount
    BY <2>1 DEF HandledEvent
  <2> QED BY <2>2 DEF SInv, HandledInOrder
<1>6. CASE ~hasRun
  <2>1. batch' = <<>>
    BY <1>6 DEF Tick
  <2>2. SessionTypeOK'
    BY <1>4, <1>3, <2>1, EmptySequence DEF SInv, SessionTypeOK, PassTypeOK
  <2>3. HandledInOrder'
    <3>1. DOMAIN batch' = {}
      BY <2>1
    <3>2. \A i \in DOMAIN handled : handled[i].position <= cursor'
      BY <1>1, <1>2, <1>3, <1>5
    <3> QED BY <1>3, <3>1, <3>2 DEF SInv, HandledInOrder
  <2> QED BY <1>3, <2>1, <2>2, <2>3
          DEF SInv, BatchRuns, ModelPauseNeedsModelMode, Tick, modelVars
<1>7. CASE hasRun
  <2>1. batch' = [i \in 1 .. NextCursor - cursor |-> cursor + i]
    BY <1>7 DEF Tick
  <2>2. /\ batch' \in Seq(1 .. EventCount)
        /\ Len(batch') = NextCursor - cursor
        /\ DOMAIN batch' = 1 .. NextCursor - cursor
        /\ \A i \in 1 .. NextCursor - cursor : batch'[i] = cursor + i
    BY <1>1, <1>2, <2>1
  <2>3. SessionTypeOK'
    BY <1>4, <1>3, <2>2 DEF SInv, SessionTypeOK, PassTypeOK
  <2>4. HandledInOrder'
    <3>2. \A i \in DOMAIN handled : handled[i].position <= cursor'
      BY <1>1, <1>2, <1>3, <1>5
    <3>3. \A i \in DOMAIN handled, j \in DOMAIN batch' : handled[i].position < batch'[j]
      BY <1>1, <1>2, <2>2, <1>5
    <3>4. \A i \in DOMAIN batch' : batch'[i] = cursor' - Len(batch') + i
      BY <1>1, <1>2, <1>3, <2>2
    <3> QED BY <1>3, <3>2, <3>3, <3>4 DEF SInv, HandledInOrder
  <2> QED BY <1>1, <1>3, <1>7, <2>3, <2>4
          DEF SInv, BatchRuns, ModelPauseNeedsModelMode, Tick, modelVars
<1> QED BY <1>6, <1>7

\* A handled event is the first the tick had left.
LEMMA HandleKeeps ==
  ASSUME SInv, NEW author \in {"base", "model"}, Handle(author)
  PROVE  SInv'
<1> DEFINE new == [position |-> Head(batch), author |-> author]
<1>1. batch # <<>> /\ batch' = Tail(batch) /\ handled' = Append(handled, new)
  BY DEF Handle
<1>2. batch \in Seq(1 .. EventCount) /\ handled \in Seq(HandledEvent)
  BY DEF SInv, SessionTypeOK, PassTypeOK
<1>3. /\ Len(batch) \in Nat \ {0} /\ DOMAIN batch = 1 .. Len(batch)
      /\ Head(batch) = batch[1] /\ batch[1] \in 1 .. EventCount
      /\ batch' \in Seq(1 .. EventCount) /\ Len(batch') = Len(batch) - 1
      /\ DOMAIN batch' = 1 .. Len(batch) - 1
      /\ \A i \in 1 .. Len(batch) - 1 : batch'[i] = batch[i + 1]
  BY <1>1, <1>2, Shifted
<1>4. new \in HandledEvent /\ new.position = batch[1]
  BY <1>3 DEF HandledEvent
<1> HIDE DEF new
<1>5. /\ handled' \in Seq(HandledEvent)
      /\ Len(handled) \in Nat /\ DOMAIN handled = 1 .. Len(handled)
      /\ DOMAIN handled' = 1 .. Len(handled) + 1
      /\ \A i \in 1 .. Len(handled) : handled'[i] = handled[i]
      /\ handled'[Len(handled) + 1] = new
  BY <1>1, <1>2, <1>4, Appended
<1>6. /\ UNCHANGED <<hasRun, status, cursor, speed, pauseReason>>
      /\ UNCHANGED modelVars /\ lastEvent' = TRUE
  BY DEF Handle
<1>7. SessionTypeOK'
  <2>1. ClockTypeOK' /\ ModelTypeOK'
    BY <1>6 DEF SInv, SessionTypeOK, ClockTypeOK, ModelTypeOK, modelVars
  <2> QED BY <1>3, <1>5, <2>1 DEF SessionTypeOK, PassTypeOK
<1>8. HandledInOrder'
  <2>1. /\ EventCount \in Nat /\ cursor \in 0 .. EventCount /\ cursor' = cursor
        /\ \A j \in 1 .. Len(batch) : batch[j] \in 1 .. EventCount
    BY <1>2, <1>3, <1>6, SessionAssumption DEF SInv, SessionTypeOK, ClockTypeOK
  <2>2. /\ \A j \in 1 .. Len(batch) : batch[j] = cursor - Len(batch) + j
        /\ \A i \in 1 .. Len(handled), j \in 1 .. Len(batch) : handled[i].position < batch[j]
        /\ \A i \in 1 .. Len(handled) : handled[i].position <= cursor
        /\ \A i, j \in 1 .. Len(handled) :
             i < j => handled[i].position < handled[j].position
    BY <1>3, <1>5 DEF SInv, HandledInOrder
  <2>3. \A j \in 1 .. Len(batch) - 1 : batch'[j] = cursor - Len(batch) + j + 1
    <3> SUFFICES ASSUME NEW j \in 1 .. Len(batch) - 1
                 PROVE  batch'[j] = cursor - Len(batch) + j + 1
      OBVIOUS
    <3>1. j + 1 \in 1 .. Len(batch) /\ batch'[j] = batch[j + 1]
      BY <1>3
    <3>2. batch[j + 1] = cursor - Len(batch) + (j + 1)
      BY <2>2, <3>1
    <3>3. cursor \in Nat /\ Len(batch) \in Nat /\ j \in Nat
      BY <1>3, <2>1
    <3> QED BY <3>1, <3>2, <3>3
  <2>4. batch[1] = cursor - Len(batch) + 1 /\ batch[1] <= cursor
    BY <1>3, <2>1, <2>2
  <2>5. \A i \in 1 .. Len(handled) + 1 : handled'[i].position <= cursor
    BY <1>4, <1>5, <2>2, <2>4
  <2>6. \A i \in 1 .. Len(handled) + 1, j \in 1 .. Len(batch) - 1 :
          handled'[i].position < batch'[j]
    <3> SUFFICES ASSUME NEW i \in 1 .. Len(handled) + 1, NEW j \in 1 .. Len(batch) - 1
                 PROVE  handled'[i].position < batch'[j]
      OBVIOUS
    <3>1. j + 1 \in 1 .. Len(batch) /\ batch'[j] = batch[j + 1]
      BY <1>3
    <3>2. CASE i \in 1 .. Len(handled)
      BY <1>5, <2>2, <3>1, <3>2
    <3>3. CASE i = Len(handled) + 1
      <4>1. handled'[i].position = cursor - Len(batch) + 1
        BY <1>4, <1>5, <2>4, <3>3
      <4>2. batch'[j] = cursor - Len(batch) + j + 1
        BY <2>3
      <4>3. cursor \in Nat /\ Len(batch) \in Nat /\ j \in Nat \ {0}
        BY <1>3, <2>1
      <4> QED BY <4>1, <4>2, <4>3
    <3> QED BY <1>5, <3>2, <3>3
  <2>7. \A i, j \in 1 .. Len(handled) + 1 :
          i < j => handled'[i].position < handled'[j].position
    <3> SUFFICES ASSUME NEW i \in 1 .. Len(handled) + 1, NEW j \in 1 .. Len(handled) + 1, i < j
                 PROVE  handled'[i].position < handled'[j].position
      OBVIOUS
    <3>1. i \in 1 .. Len(handled) /\ handled'[i] = handled[i]
      BY <1>5
    <3>2. CASE j \in 1 .. Len(handled)
      BY <1>5, <2>2, <3>1, <3>2
    <3>3. CASE j = Len(handled) + 1
      BY <1>3, <1>4, <1>5, <2>2, <3>1, <3>3
    <3> QED BY <1>5, <3>2, <3>3
  <2>8. \A j \in 1 .. Len(batch) - 1 : batch'[j] = cursor' - Len(batch') + j
    BY <1>3, <2>1, <2>3
  <2> QED BY <1>3, <1>5, <2>1, <2>5, <2>6, <2>7, <2>8 DEF HandledInOrder
<1> QED BY <1>1, <1>6, <1>7, <1>8 DEF SInv, BatchRuns, ModelPauseNeedsModelMode, modelVars

\* A pause or an exception drops what the tick had left.
LEMMA DropKeeps ==
  ASSUME SInv, PauseForModel \/ EventRaises
  PROVE  SInv'
<1>1. batch' = <<>> /\ UNCHANGED <<cursor, handled>> /\ UNCHANGED modelVars
  BY DEF PauseForModel, EventRaises
<1>2. SessionTypeOK'
  <2>1. ClockTypeOK'
    BY DEF SInv, SessionTypeOK, ClockTypeOK, PauseForModel, EventRaises
  <2>2. ModelTypeOK' /\ PassTypeOK'
    BY <1>1, EmptySequence DEF SInv, SessionTypeOK, ModelTypeOK, PassTypeOK, modelVars
  <2> QED BY <2>1, <2>2 DEF SessionTypeOK
<1>3. HandledInOrder'
  <2>1. DOMAIN batch' = {}
    BY <1>1
  <2> QED BY <1>1, <2>1 DEF SInv, HandledInOrder
<1> QED BY <1>1, <1>2, <1>3 DEF SInv, BatchRuns, ModelPauseNeedsModelMode, PauseForModel,
           EventRaises, modelVars

\* Nothing else touches the clock or what it handed out.
LEMMA ModelKeeps ==
  ASSUME SInv, RegistryTypeOK,
         ModelCommand \/ ResearchJob \/ \E a \in Answers : PortChanges(a)
  PROVE  SInv'
<1>1. UNCHANGED clockVars /\ UNCHANGED <<lastEvent, handled>>
  BY DEF ModelCommand, SetMode, SetBudget, BindModel, PromoteModel, ResearchJob, sessionVars,
     PortChanges
<1>2. PassTypeOK'
  BY <1>1 DEF SInv, SessionTypeOK, PassTypeOK, clockVars
<1>3. ClockTypeOK' /\ ModelTypeOK' /\ ModelPauseNeedsModelMode'
  <2>0. DOMAIN models \subseteq Nat
    BY DEF RegistryTypeOK
  <2>1. ASSUME NEW m \in Modes, SetMode(m)
        PROVE  ClockTypeOK' /\ ModelTypeOK' /\ ModelPauseNeedsModelMode'
    BY <1>1, <2>1 DEF SInv, SessionTypeOK, ClockTypeOK, ModelTypeOK, ModelPauseNeedsModelMode,
       SetMode, clockVars
  <2>2. ASSUME NEW ms \in BudgetChoices, SetBudget(ms)
        PROVE  ClockTypeOK' /\ ModelTypeOK' /\ ModelPauseNeedsModelMode'
    <3>1. budget' \in 1 .. MaxLatency
      BY <2>2, SessionAssumption DEF SetBudget, MaxLatency
    <3> QED BY <1>1, <2>2, <3>1 DEF SInv, SessionTypeOK, ClockTypeOK, ModelTypeOK,
               ModelPauseNeedsModelMode, SetBudget, clockVars
  <2>3. ASSUME NEW id \in DOMAIN models \cup {OpsModel}, NEW state \in BindStates,
               BindModel(id, state)
        PROVE  ClockTypeOK' /\ ModelTypeOK' /\ ModelPauseNeedsModelMode'
    BY <1>1, <2>0, <2>3, SessionAssumption DEF SInv, SessionTypeOK, ClockTypeOK, ModelTypeOK,
       ModelPauseNeedsModelMode, BindModel, clockVars
  <2>4. ASSUME NEW m \in DOMAIN models, NEW target \in States, PromoteModel(m, target)
        PROVE  ClockTypeOK' /\ ModelTypeOK' /\ ModelPauseNeedsModelMode'
    BY <1>1, <2>0, <2>4 DEF SInv, SessionTypeOK, ClockTypeOK, ModelTypeOK,
       ModelPauseNeedsModelMode, PromoteModel, clockVars
  <2>5. CASE ResearchJob
    BY <1>1, <2>5 DEF SInv, SessionTypeOK, ClockTypeOK, ModelTypeOK, ModelPauseNeedsModelMode,
       ResearchJob, sessionVars, modelVars, clockVars
  <2>6. ASSUME NEW a \in Answers, PortChanges(a)
        PROVE  ClockTypeOK' /\ ModelTypeOK' /\ ModelPauseNeedsModelMode'
    BY <1>1, <2>6 DEF SInv, SessionTypeOK, ClockTypeOK, ModelTypeOK, ModelPauseNeedsModelMode,
       PortChanges, clockVars
  <2> QED BY <2>1, <2>2, <2>3, <2>4, <2>5, <2>6 DEF ModelCommand
<1>4. HandledInOrder' /\ BatchRuns'
  BY <1>1 DEF SInv, HandledInOrder, BatchRuns, clockVars
<1> QED BY <1>2, <1>3, <1>4 DEF SInv, SessionTypeOK

LEMMA SessionNextKeeps == SInv /\ RInv /\ [Next]_vars => SInv'
<1> SUFFICES ASSUME SInv, RInv, [Next]_vars PROVE SInv'
  OBVIOUS
<1>1. CASE ClockCommand
  BY <1>1, ClockKeeps, TickKeeps DEF ClockCommand
<1>2. CASE HandleEvent
  BY <1>2, HandleKeeps, DropKeeps DEF HandleEvent, HandleByBase, HandleByModel
<1>3. CASE ModelCommand \/ ResearchJob \/ \E a \in Answers : PortChanges(a)
  BY <1>3, ModelKeeps DEF RInv
<1>4. CASE UNCHANGED vars
  BY <1>4 DEF vars, sessionVars, clockVars, modelVars, SInv, SessionTypeOK, ClockTypeOK,
     ModelTypeOK, PassTypeOK, HandledInOrder, BatchRuns, ModelPauseNeedsModelMode
<1> QED BY <1>1, <1>2, <1>3, <1>4 DEF Next

LEMMA SessionInvariant == Spec => [](SInv /\ RInv)
<1>1. Init => SInv /\ RInv
  BY SessionInitHolds, RegistryInitHolds DEF Init
<1>2. (SInv /\ RInv) /\ [Next]_vars => (SInv /\ RInv)'
  BY SessionNextKeeps, RegistryUnderSession
<1> QED BY <1>1, <1>2, PTL DEF Spec
-----------------------------------------------------------------------------
(* Theorems *)

\* The session and its registry keep their shape: the budget stays under the
\* ceiling and the cursor within the replay.
THEOREM SessionTypeCorrect == Spec => []TypeOK
<1>1. SInv /\ RInv => TypeOK
  BY DEF SInv, RInv, SessionTypeOK, ClockTypeOK, ModelTypeOK, PassTypeOK, HandledEvent, TypeOK
<1> QED BY <1>1, SessionInvariant, PTL

\* A pass quotes each event at most once and in order.
THEOREM EventsInOrder == Spec => []HandledInOrder
BY SessionInvariant, PTL DEF SInv

\* A pause for the model implies a model mode, for any registry, answers and
\* budgets: resuming under deterministic quoting never waits for the model.
THEOREM PauseNeedsMode == Spec => []ModelPauseNeedsModelMode
BY SessionInvariant, PTL DEF SInv

\* Promotions through the session and research jobs together keep the audit a
\* history of legal edges.
THEOREM SessionAuditReconstructs == Spec => []AuditIsHistory
BY SessionInvariant, PTL DEF RInv

\* What adds to handled is the handling of one event by its author.
LEMMA QuotingHandles ==
  ASSUME SInv, [Next]_vars, NEW author, Quoted(author)
  PROVE  (author = "base" /\ HandleByBase) \/ (author = "model" /\ HandleByModel)
<1>0. Len(handled) \in Nat
  BY DEF SInv, SessionTypeOK, PassTypeOK
<1>1. ~ (handled' = handled \/ handled' = <<>>)
  BY <1>0 DEF Quoted
<1>2. HandleByBase \/ HandleByModel
  <2>1. ~ClockCommand
    BY <1>1 DEF ClockCommand, Load, LoadRefused, Start, Pause, Resume, Stop, Tick
  <2>2. ~(PauseForModel \/ EventRaises)
    BY <1>1 DEF PauseForModel, EventRaises
  <2>3. ~ModelCommand
    BY <1>1 DEF ModelCommand, SetMode, SetBudget, BindModel, PromoteModel
  <2>4. ~(ResearchJob \/ \E a \in Answers : PortChanges(a))
    BY <1>1 DEF ResearchJob, sessionVars, PortChanges
  <2>5. ~UNCHANGED vars
    BY <1>1 DEF vars, sessionVars
  <2> QED BY <2>1, <2>2, <2>3, <2>4, <2>5 DEF Next, HandleEvent
<1>3. ASSUME NEW a \in {"base", "model"}, Handle(a) PROVE author = a
  <2> DEFINE new == [position |-> Head(batch), author |-> a]
  <2>1. batch # <<>> /\ batch \in Seq(1 .. EventCount) /\ handled \in Seq(HandledEvent)
    BY <1>3 DEF Handle, SInv, SessionTypeOK, PassTypeOK
  <2>2. new \in HandledEvent /\ new.author = a
    BY <2>1, Shifted DEF HandledEvent
  <2>3. handled' = Append(handled, new)
    BY <1>3 DEF Handle
  <2> HIDE DEF new
  <2>4. handled'[Len(handled')] = new
    BY <2>1, <2>2, <2>3, Appended
  <2> QED BY <2>2, <2>4 DEF Quoted
<1> QED BY <1>2, <1>3 DEF HandleByBase, HandleByModel

\* Nothing is quoted on a clock that is not running.
THEOREM PausedIsSilent == Spec => PausedClockQuotesNothing
<1>1. ASSUME SInv, [Next]_vars
      PROVE  [Quoted("base") \/ Quoted("model") => status = "running" /\ hasRun]_vars
  BY <1>1, QuotingHandles DEF SInv, BatchRuns, HandleByBase, HandleByModel, Handle
<1> QED BY <1>1, SessionInvariant, PTL DEF Spec, PausedClockQuotesNothing

-----------------------------------------------------------------------------
(* Following the runbook *)

\* The model a session knows is registered, in the state it is known in.
ModelIsRegistered ==
  modelId \in Nat => modelId \in DOMAIN models /\ known = models[modelId].state

RunbookNext == FollowsCheatSheet \/ FollowsRunbook \/ HandleEvent
               \/ \E a \in Answers : PortChanges(a)

\* The only step of the procedures that Next does not have is a bind.
LEMMA RegistryUnderRunbook ==
  ASSUME RInv, [RunbookNext]_vars
  PROVE  RInv'
<1>1. CASE \E m \in DOMAIN models, target \in States : PromoteModel(m, target)
  BY <1>1, PromoteKeepsRegistry
<1>2. CASE ResearchJob
  BY <1>2, RegistryNextKeeps DEF ResearchJob
<1>3. CASE UNCHANGED registryVars
  BY <1>3, RegistryNextKeeps
<1>4. ASSUME \/ FollowsCheatSheet
             \/ \E m \in DOMAIN models : BindModel(m, models[m].state)
             \/ HandleEvent
             \/ \E a \in Answers : PortChanges(a)
             \/ UNCHANGED vars
      PROVE  UNCHANGED registryVars
  BY <1>4 DEF FollowsCheatSheet, Load, Start, Tick, SetMode, Resume, BindModel, HandleEvent,
     HandleByBase, HandleByModel, Handle, PauseForModel, EventRaises, PortChanges, vars
<1> QED BY <1>1, <1>2, <1>3, <1>4 DEF RunbookNext, FollowsRunbook

\* While no job holds a promotion, registered models change through the session
\* only, and it learns of those of its own model.
LEMMA ModelStaysRegistered ==
  ASSUME Callers = {}, RInv, ModelIsRegistered, [RunbookNext]_vars
  PROVE  ModelIsRegistered'
<1>0. models \in Seq(Model)
  BY DEF RInv, RegistryTypeOK
<1>1. ASSUME NEW m \in DOMAIN models, NEW target \in States, PromoteModel(m, target)
      PROVE  ModelIsRegistered'
  <2>1. models' = [models EXCEPT ![m].state = target] /\ DOMAIN models' = DOMAIN models
    BY <1>1 DEF PromoteModel, Store
  <2>2. CASE modelId \in {None, m}
    <3>1. modelId' = m /\ known' = target
      BY <1>1, <2>2 DEF PromoteModel
    <3>2. models[m] \in Model /\ models'[m] = [models[m] EXCEPT !.state = target]
      BY <1>0, <2>1
    <3>3. models'[m].state = target
      BY <3>2 DEF Model
    <3> QED BY <2>1, <3>1, <3>3 DEF ModelIsRegistered
  <2>3. CASE modelId \notin {None, m}
    <3>1. modelId' = modelId /\ known' = known
      BY <1>1, <2>3 DEF PromoteModel
    <3> QED BY <2>1, <2>3, <3>1 DEF ModelIsRegistered
  <2> QED BY <2>2, <2>3
<1>2. CASE ResearchJob
  <2>1. PICK a \in Artifacts, r \in Reports : RegisterArtifact(a, r)
    BY <1>2 DEF ResearchJob, RegistryNext
  <2>2. \E e : models' = Append(models, e)
    BY <2>1 DEF RegisterArtifact
  <2>3. modelId' = modelId /\ known' = known
    BY <1>2 DEF ResearchJob, sessionVars, modelVars
  <2>4. \A n \in DOMAIN models : n \in DOMAIN models' /\ models'[n] = models[n]
    BY <1>0, <2>2
  <2> QED BY <2>3, <2>4 DEF ModelIsRegistered
<1>3. ASSUME NEW m \in DOMAIN models, BindModel(m, models[m].state)
      PROVE  ModelIsRegistered'
  BY <1>3 DEF BindModel, registryVars, ModelIsRegistered
<1>4. ASSUME FollowsCheatSheet \/ HandleEvent \/ (\E a \in Answers : PortChanges(a))
             \/ UNCHANGED vars
      PROVE  models' = models /\ modelId' = modelId /\ known' = known
  BY <1>4 DEF FollowsCheatSheet, Load, Start, Tick, SetMode, Resume, HandleEvent,
     HandleByBase, HandleByModel, Handle, PauseForModel, EventRaises, PortChanges, vars,
     registryVars, sessionVars, modelVars
<1>5. CASE models' = models /\ modelId' = modelId /\ known' = known
  BY <1>5 DEF ModelIsRegistered
<1> QED BY <1>1, <1>2, <1>3, <1>4, <1>5 DEF RunbookNext, FollowsRunbook

\* An operator who follows the cheat sheet and the runbook qualifies modes by
\* the registry's own state, as long as no job promotes beside the session.
THEOREM KnownIsTheRegistrys ==
  ASSUME Callers = {}
  PROVE  CheatSheetSpec => []KnownStateIsCurrent
<1>1. Init => RInv /\ ModelIsRegistered
  BY RegistryInitHolds, SessionAssumption DEF Init, ModelIsRegistered
<1>2. (RInv /\ ModelIsRegistered) /\ [RunbookNext]_vars => (RInv /\ ModelIsRegistered)'
  BY RegistryUnderRunbook, ModelStaysRegistered
<1>3. RInv /\ ModelIsRegistered => KnownStateIsCurrent
  BY DEF RInv, RegistryTypeOK, ModelIsRegistered, KnownStateIsCurrent
<1>4. CheatSheetSpec => Init /\ [][RunbookNext]_vars
  BY PTL DEF CheatSheetSpec, RunbookNext
<1> QED BY <1>1, <1>2, <1>3, <1>4, PTL
=============================================================================
