-------------------------- MODULE TransitionStore ---------------------------
(***************************************************************************)
(* ResearchRepository: offline transitions in PostgreSQL, added and        *)
(* corrected by any number of processes that share the database.           *)
(*                                                                         *)
(* A call is one transaction, and each of its statements is an action: it  *)
(* looks for the identity, and if there is none it inserts the behaviour   *)
(* policy and then the transition.  Between the look and the insert others *)
(* commit, so the unique constraints decide; an insert waits for an        *)
(* uncommitted one it would collide with.  Any statement may fail, which   *)
(* rolls back, and so may the commit, before or after it took effect.      *)
(***************************************************************************)
EXTENDS Sequences, Naturals

CONSTANTS
  Clients,    \* who calls the repository
  Requests,   \* [item |-> a transition, supersedes |-> an id or None]
  None

\* A transition is told by its id, its identity (the five columns of
\* uq_offline_transitions_identity) and its content hash.
ASSUME RequestsAssumption ==
  \A r \in Requests : /\ DOMAIN r = {"item", "supersedes"}
                      /\ DOMAIN r.item = {"id", "identity", "content"}
                      /\ r.item.id # None

VARIABLES
  rows,       \* offline_transitions, in the order of their commits
  policies,   \* behavior_policies: the ids, which are transition ids
  at,         \* the next statement of each client's transaction, or "idle"
  written,    \* what its transaction has inserted and not committed
  calls       \* what each client asked last, and the answer it got

dbVars == <<rows, policies>>
vars == <<rows, policies, at, written, calls>>

Statements == {"original", "identity", "policy", "transition", "commit"}
Nothing == [policies |-> {}, rows |-> {}]

Request(c) == calls[c].request
\* transition_values: the row a client's transaction is to insert.
Row(c) == [id |-> Request(c).item.id, identity |-> Request(c).item.identity,
           content |-> Request(c).item.content, supersedes |-> Request(c).supersedes]

-----------------------------------------------------------------------------
(* The transaction                                                         *)

Goto(c, statement) == at' = [at EXCEPT ![c] = statement]

\* The call is over, with this answer.
End(c, answer) ==
  /\ Goto(c, "idle")
  /\ calls' = [calls EXCEPT ![c].answer = answer]
  /\ written' = [written EXCEPT ![c] = Nothing]

\* add_transition, or add_correction when there is something to supersede.
Begin(c, request) ==
  /\ at[c] = "idle"
  /\ calls' = [calls EXCEPT ![c] = [request |-> request, answer |-> "pending"]]
  /\ Goto(c, IF request.supersedes = None THEN "identity" ELSE "original")
  /\ UNCHANGED <<dbVars, written>>

\* _get_by_id: the transition to supersede.
FindOriginal(c) ==
  /\ at[c] = "original"
  /\ IF \E n \in DOMAIN rows : rows[n].id = Request(c).supersedes
     THEN Goto(c, "identity") /\ UNCHANGED <<written, calls>>
     ELSE End(c, "conflict")
  /\ UNCHANGED dbVars

\* _get_by_identity finds a row.  It never changes, so that reading what it
\* supersedes in a statement of its own is the same step.
FindExisting(c) ==
  /\ at[c] = "identity"
  /\ \E n \in DOMAIN rows :
       /\ rows[n].identity = Row(c).identity
       /\ End(c, IF /\ rows[n].content = Row(c).content
                    /\ Row(c).supersedes \in {None, rows[n].supersedes}
                 THEN "existing" ELSE "conflict")
  /\ UNCHANGED dbVars

\* _get_by_identity finds none.
FindNone(c) ==
  /\ at[c] = "identity"
  /\ \A n \in DOMAIN rows : rows[n].identity # Row(c).identity
  /\ Goto(c, "policy")
  /\ UNCHANGED <<dbVars, written, calls>>

\* What other transactions have written and may yet commit.
OthersPolicies(c) == UNION {written[d].policies : d \in Clients \ {c}}
OthersRows(c) == UNION {written[d].rows : d \in Clients \ {c}}

\* A collision with a committed row raises, and the transaction is rolled back.
Insert(c, collides, statement, writes) ==
  /\ IF collides
     THEN End(c, "error")
     ELSE /\ written' = [written EXCEPT ![c] = writes]
          /\ Goto(c, statement)
          /\ UNCHANGED calls
  /\ UNCHANGED dbVars

\* _insert_behavior: the policy's key is the transition's id.
InsertPolicy(c) ==
  /\ at[c] = "policy"
  /\ Row(c).id \notin OthersPolicies(c)
  /\ Insert(c, Row(c).id \in policies, "transition",
            [written[c] EXCEPT !.policies = {Row(c).id}])

Collide(row, other) == row.id = other.id \/ row.identity = other.identity

\* Mutant of InsertTransition: uq_offline_transitions_identity is missing.
InsertTransitionUnconstrained(c) ==
  /\ at[c] = "transition"
  /\ Insert(c, \E n \in DOMAIN rows : rows[n].id = Row(c).id, "commit",
            [written[c] EXCEPT !.rows = {Row(c)}])

\* _insert_transition, under the primary key and the identity's constraint.
InsertTransition(c) ==
  /\ at[c] = "transition"
  /\ \A row \in OthersRows(c) : ~Collide(Row(c), row)
  /\ Insert(c, \E n \in DOMAIN rows : Collide(Row(c), rows[n]), "commit",
            [written[c] EXCEPT !.rows = {Row(c)}])

\* The transaction takes effect; its acknowledgement may be lost.
Commit(c) ==
  /\ at[c] = "commit"
  /\ policies' = policies \cup written[c].policies
  /\ rows' = Append(rows, Row(c))
  /\ \E answer \in {"created", "error"} : End(c, answer)

\* Mutants of StatementFails: what was written before stays; the transaction
\* is left open.
StatementFailsHalfway(c) ==
  /\ at[c] # "idle"
  /\ End(c, "error")
  /\ policies' = policies \cup written[c].policies
  /\ UNCHANGED rows

StatementFailsOpen(c) ==
  /\ at[c] # "idle"
  /\ Goto(c, "idle")
  /\ calls' = [calls EXCEPT ![c].answer = "error"]
  /\ UNCHANGED <<dbVars, written>>

\* A statement fails, on lineage the row refers to and nobody stored, on a
\* reward that is not JSON, on the connection, or the process dies: the
\* transaction is rolled back.
StatementFails(c) ==
  /\ at[c] # "idle"
  /\ End(c, "error")
  /\ UNCHANGED dbVars

Init ==
  /\ rows = <<>> /\ policies = {}
  /\ at = [c \in Clients |-> "idle"]
  /\ written = [c \in Clients |-> Nothing]
  /\ calls = [c \in Clients |-> [request |-> None, answer |-> "none"]]

\* What a call does as long as nothing fails.
Proceed(c) ==
  \/ FindOriginal(c) \/ FindExisting(c) \/ FindNone(c)
  \/ InsertPolicy(c) \/ InsertTransition(c) \/ Commit(c)

Next ==
  \E c \in Clients :
    \/ \E request \in Requests : Begin(c, request)
    \/ Proceed(c)
    \/ StatementFails(c)

Spec == Init /\ [][Next]_vars

\* A call goes on by itself.  Strong fairness, because it may wait for another
\* transaction, and PostgreSQL wakes who waits when that one ends.
FairSpec == Spec /\ \A c \in Clients : SF_vars(Proceed(c))

-----------------------------------------------------------------------------
(* Properties                                                              *)

\* The constraints hold of what is stored: a policy for each transition and
\* none without, one row for an id and for an identity, and a correction is
\* stored after what it supersedes, so that following the corrections back
\* always ends at an original.
EvidenceIsWhole ==
  /\ policies = {rows[n].id : n \in DOMAIN rows}
  /\ \A m, n \in DOMAIN rows : Collide(rows[m], rows[n]) => m = n
  /\ \A n \in DOMAIN rows : rows[n].supersedes # None =>
       \E m \in 1 .. n - 1 : rows[m].id = rows[n].supersedes

\* Processes that race, fail and retry see one register of immutable rows: what
\* was answered created or existing is in it, once, and every refusal has its
\* reason in it, as if each call had the repository to itself.
Register == INSTANCE TransitionRegister WITH register <- rows
RegisterRefinement == Register!RegisterSpec

\* Every call gets an answer: no two transactions wait for each other.
CallsEnd == \A c \in Clients : at[c] # "idle" ~> at[c] = "idle"
=============================================================================
