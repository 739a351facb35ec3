----------------------- MODULE TransitionStoreProofs ------------------------
(***************************************************************************)
(* Proofs about TransitionStore, for any clients and requests: what is     *)
(* stored is whole, and the repository implements TransitionRegister.      *)
(***************************************************************************)
EXTENDS TransitionStore, SequenceTheorems, TLAPS

Ids == {r.item.id : r \in Requests}
RowOf(r) == [id |-> r.item.id, identity |-> r.item.identity,
             content |-> r.item.content, supersedes |-> r.supersedes]
AllRows == {RowOf(r) : r \in Requests}
Answers == {"none", "pending", "created", "existing", "conflict", "error"}

StoreTypeOK ==
  /\ rows \in Seq(AllRows)
  /\ policies \in SUBSET Ids
  /\ at \in [Clients -> Statements \cup {"idle"}]
  /\ written \in [Clients -> [policies : SUBSET Ids, rows : SUBSET AllRows]]
  /\ calls \in [Clients -> [request : Requests \cup {None}, answer : Answers]]

\* The policy is written and not yet committed.
HoldsPolicy(c) == at[c] \in {"transition", "commit"}
Stored(id) == \E n \in DOMAIN rows : rows[n].id = id

\* What a client's transaction has written, and what it knows for good: the
\* transition it supersedes is stored; its own writes collide with nothing.
TransactionOK(c) ==
  /\ at[c] = "idle" <=> calls[c].answer # "pending"
  /\ at[c] # "idle" => Request(c) \in Requests
  /\ written[c].policies = IF HoldsPolicy(c) THEN {Row(c).id} ELSE {}
  /\ written[c].rows = IF at[c] = "commit" THEN {Row(c)} ELSE {}
  /\ at[c] = "original" => Row(c).supersedes # None
  /\ at[c] \in {"identity", "policy", "transition", "commit"} =>
       Row(c).supersedes = None \/ Stored(Row(c).supersedes)
  /\ HoldsPolicy(c) => Row(c).id \notin policies
  /\ at[c] = "commit" => \A n \in DOMAIN rows : ~Collide(Row(c), rows[n])

\* Two transactions that may both commit do not collide.
Apart(c, d) ==
  /\ HoldsPolicy(c) /\ HoldsPolicy(d) => Row(c).id # Row(d).id
  /\ at[c] = "commit" /\ at[d] = "commit" => ~Collide(Row(c), Row(d))

StoreInv ==
  /\ StoreTypeOK
  /\ EvidenceIsWhole
  /\ \A c \in Clients : TransactionOK(c)
  /\ \A c, d \in Clients : c # d => Apart(c, d)

-----------------------------------------------------------------------------
(* The ways a transaction goes on                                          *)

\* The database stays as it is, and so do the other transactions.
Keeps(c) ==
  /\ UNCHANGED dbVars
  /\ \A d \in Clients \ {c} : at'[d] = at[d] /\ written'[d] = written[d] /\ calls'[d] = calls[d]

LEMMA RowTyped ==
  ASSUME StoreInv, NEW c \in Clients, at[c] # "idle"
  PROVE  Row(c) \in AllRows /\ Row(c).id \in Ids /\ Row(c) = RowOf(Request(c))
BY DEF StoreInv, TransactionOK, AllRows, Ids, Row, RowOf

\* It is enough to look at the client that moved, as long as the database stays.
LEMMA OneMoves ==
  ASSUME StoreInv, NEW c \in Clients, Keeps(c), StoreTypeOK', TransactionOK(c)',
         \A d \in Clients \ {c} : Apart(c, d)'
  PROVE  StoreInv'
<1>1. EvidenceIsWhole'
  BY DEF StoreInv, Keeps, dbVars, EvidenceIsWhole
<1>2. ASSUME NEW d \in Clients \ {c}
      PROVE  TransactionOK(d)'
  <2>1. TransactionOK(d)
    BY <1>2 DEF StoreInv
  <2>2. /\ at'[d] = at[d] /\ written'[d] = written[d] /\ calls'[d] = calls[d]
        /\ rows' = rows /\ policies' = policies
    BY <1>2 DEF Keeps, dbVars
  <2>3. /\ Row(d)' = Row(d) /\ HoldsPolicy(d)' = HoldsPolicy(d)
        /\ Request(d)' = Request(d)
        /\ Stored(Row(d).supersedes)' = Stored(Row(d).supersedes)
    BY <2>2 DEF Row, Request, HoldsPolicy, Stored
  <2> QED BY <2>1, <2>2, <2>3 DEF TransactionOK, Collide
<1>3. ASSUME NEW d \in Clients, NEW e \in Clients, d # e
      PROVE  Apart(d, e)'
  <2>1. CASE d = c
    BY <1>3, <2>1
  <2>2. CASE e = c
    <3>1. Apart(c, d)'
      BY <1>3, <2>2
    <3> QED BY <2>2, <3>1 DEF Apart, Collide
  <2>3. CASE d # c /\ e # c
    BY <1>3, <2>3 DEF StoreInv, Keeps, Apart, HoldsPolicy, Row, Request
  <2> QED BY <2>1, <2>2, <2>3
<1> QED BY <1>1, <1>2, <1>3 DEF StoreInv

\* A transaction that ends holds nothing any more.
LEMMA Ending ==
  ASSUME StoreInv, NEW c \in Clients, at[c] # "idle", UNCHANGED dbVars,
         NEW answer \in Answers \ {"pending"}, End(c, answer)
  PROVE  /\ StoreInv'
         /\ calls' = [calls EXCEPT ![c].answer = answer]
<1>1. /\ at' = [at EXCEPT ![c] = "idle"]
      /\ calls' = [calls EXCEPT ![c].answer = answer]
      /\ written' = [written EXCEPT ![c] = Nothing]
  BY DEF End, Goto
<1>2. Nothing \in [policies : SUBSET Ids, rows : SUBSET AllRows]
  BY DEF Nothing
<1>3. StoreTypeOK'
  BY <1>1, <1>2 DEF StoreInv, StoreTypeOK, dbVars
<1>4. Keeps(c)
  BY <1>1 DEF Keeps, StoreInv, StoreTypeOK
<1>5. at'[c] = "idle" /\ written'[c] = Nothing /\ calls'[c].answer = answer
  BY <1>1 DEF StoreInv, StoreTypeOK
<1>6. TransactionOK(c)'
  BY <1>5 DEF TransactionOK, HoldsPolicy, Nothing
<1>7. \A d \in Clients \ {c} : Apart(c, d)'
  BY <1>5 DEF Apart, HoldsPolicy
<1> QED BY <1>1, <1>3, <1>4, <1>6, <1>7, OneMoves

\* A transaction that only read goes on to its next statement.
LEMMA Reading ==
  ASSUME StoreInv, NEW c \in Clients, at[c] \in {"original", "identity"},
         NEW statement \in {"identity", "policy"}, Goto(c, statement),
         UNCHANGED <<dbVars, written, calls>>,
         Row(c).supersedes = None \/ Stored(Row(c).supersedes)
  PROVE  StoreInv'
<1>1. at' = [at EXCEPT ![c] = statement] /\ statement \in Statements
  BY DEF Goto, Statements
<1>2. StoreTypeOK'
  BY <1>1 DEF StoreInv, StoreTypeOK, dbVars
<1>3. Keeps(c)
  BY <1>1 DEF Keeps, StoreInv, StoreTypeOK
<1>4. at'[c] = statement
  BY <1>1 DEF StoreInv, StoreTypeOK
<1>5. TransactionOK(c)'
  BY <1>4 DEF StoreInv, TransactionOK, HoldsPolicy, Row, Request, Stored, dbVars
<1>6. \A d \in Clients \ {c} : Apart(c, d)'
  BY <1>4 DEF Apart, HoldsPolicy
<1> QED BY <1>2, <1>3, <1>5, <1>6, OneMoves

-----------------------------------------------------------------------------
(* The invariant, action by action                                         *)

LEMMA BeginKeeps ==
  ASSUME StoreInv, NEW c \in Clients, NEW request \in Requests, Begin(c, request)
  PROVE  StoreInv'
<1>1. /\ at[c] = "idle"
      /\ at' = [at EXCEPT ![c] = IF request.supersedes = None THEN "identity" ELSE "original"]
      /\ calls' = [calls EXCEPT ![c] = [request |-> request, answer |-> "pending"]]
      /\ UNCHANGED <<rows, policies, written>>
  BY DEF Begin, Goto, dbVars
<1>2. StoreTypeOK'
  BY <1>1 DEF StoreInv, StoreTypeOK, Statements, Answers
<1>3. Keeps(c)
  BY <1>1 DEF Keeps, StoreInv, StoreTypeOK, dbVars
<1>4. /\ at'[c] = IF request.supersedes = None THEN "identity" ELSE "original"
      /\ calls'[c] = [request |-> request, answer |-> "pending"]
      /\ written'[c] = written[c]
  BY <1>1 DEF StoreInv, StoreTypeOK
<1>5. written[c].policies = {} /\ written[c].rows = {}
  BY <1>1 DEF StoreInv, TransactionOK, HoldsPolicy
<1>6. Request(c)' = request /\ (Row(c).supersedes)' = request.supersedes
  BY <1>4 DEF Request, Row
<1>7. TransactionOK(c)'
  BY <1>4, <1>5, <1>6 DEF TransactionOK, HoldsPolicy
<1>8. \A d \in Clients \ {c} : Apart(c, d)'
  BY <1>4 DEF Apart, HoldsPolicy
<1> QED BY <1>2, <1>3, <1>7, <1>8, OneMoves

LEMMA ReadsKeep ==
  ASSUME StoreInv, NEW c \in Clients,
         FindOriginal(c) \/ FindExisting(c) \/ FindNone(c)
  PROVE  StoreInv'
<1>1. CASE FindOriginal(c)
  <2>1. CASE \E n \in DOMAIN rows : rows[n].id = Request(c).supersedes
    BY <1>1, <2>1, Reading DEF FindOriginal, Stored, Row
  <2>2. CASE ~\E n \in DOMAIN rows : rows[n].id = Request(c).supersedes
    BY <1>1, <2>2, Ending DEF FindOriginal, Answers, dbVars
  <2> QED BY <2>1, <2>2
<1>2. CASE FindExisting(c)
  <2>1. \E answer \in {"existing", "conflict"} : End(c, answer)
    BY <1>2 DEF FindExisting
  <2>2. at[c] # "idle" /\ UNCHANGED dbVars
    BY <1>2 DEF FindExisting
  <2> QED BY <2>1, <2>2, Ending DEF Answers
<1>3. CASE FindNone(c)
  BY <1>3, Reading DEF FindNone, StoreInv, TransactionOK
<1> QED BY <1>1, <1>2, <1>3

LEMMA InsertPolicyKeeps ==
  ASSUME StoreInv, NEW c \in Clients, InsertPolicy(c)
  PROVE  StoreInv'
<1>1. at[c] = "policy" /\ UNCHANGED dbVars
  BY DEF InsertPolicy, Insert
<1>2. CASE Row(c).id \in policies
  BY <1>1, <1>2, Ending DEF InsertPolicy, Insert, Answers
<1>3. CASE Row(c).id \notin policies
  <2>1. /\ at' = [at EXCEPT ![c] = "transition"]
        /\ written' = [written EXCEPT ![c] = [written[c] EXCEPT !.policies = {Row(c).id}]]
        /\ calls' = calls
    BY <1>3 DEF InsertPolicy, Insert, Goto
  <2>2. Row(c).id \in Ids
    BY <1>1, RowTyped
  <2>3. StoreTypeOK'
    BY <1>1, <2>1, <2>2 DEF StoreInv, StoreTypeOK, dbVars, Statements
  <2>4. Keeps(c)
    BY <1>1, <2>1 DEF Keeps, StoreInv, StoreTypeOK
  <2>5. /\ at'[c] = "transition"
        /\ written'[c].policies = {Row(c).id} /\ written'[c].rows = written[c].rows
    BY <2>1 DEF StoreInv, StoreTypeOK
  <2>6. Row(c)' = Row(c) /\ Request(c)' = Request(c)
    BY <2>1 DEF Row, Request
  <2>7. TransactionOK(c)'
    <3>1. TransactionOK(c)
      BY DEF StoreInv
    <3>2. Stored(Row(c).supersedes)' = Stored(Row(c).supersedes)
      BY <1>1, <2>6 DEF Stored, dbVars
    <3> QED BY <1>1, <1>3, <2>1, <2>5, <2>6, <3>1, <3>2 DEF TransactionOK, HoldsPolicy, dbVars
  <2>8. ASSUME NEW d \in Clients \ {c}
        PROVE  Apart(c, d)'
    <3>1. HoldsPolicy(d) => Row(c).id # Row(d).id
      BY <2>8 DEF InsertPolicy, OthersPolicies, StoreInv, TransactionOK
    <3>2. HoldsPolicy(d)' = HoldsPolicy(d) /\ Row(d)' = Row(d)
      BY <2>4, <2>8 DEF Keeps, HoldsPolicy, Row, Request
    <3> QED BY <2>5, <2>6, <3>1, <3>2 DEF Apart
  <2> QED BY <2>3, <2>4, <2>7, <2>8, OneMoves
<1> QED BY <1>2, <1>3

LEMMA InsertTransitionKeeps ==
  ASSUME StoreInv, NEW c \in Clients, InsertTransition(c)
  PROVE  StoreInv'
<1>1. at[c] = "transition" /\ UNCHANGED dbVars
  BY DEF InsertTransition, Insert
<1>2. CASE \E n \in DOMAIN rows : Collide(Row(c), rows[n])
  BY <1>1, <1>2, Ending DEF InsertTransition, Insert, Answers
<1>3. CASE ~\E n \in DOMAIN rows : Collide(Row(c), rows[n])
  <2>1. /\ at' = [at EXCEPT ![c] = "commit"]
        /\ written' = [written EXCEPT ![c] = [written[c] EXCEPT !.rows = {Row(c)}]]
        /\ calls' = calls
    BY <1>3 DEF InsertTransition, Insert, Goto
  <2>2. Row(c) \in AllRows
    BY <1>1, RowTyped
  <2>3. StoreTypeOK'
    BY <1>1, <2>1, <2>2 DEF StoreInv, StoreTypeOK, dbVars, Statements
  <2>4. Keeps(c)
    BY <1>1, <2>1 DEF Keeps, StoreInv, StoreTypeOK
  <2>5. /\ at'[c] = "commit"
        /\ written'[c].rows = {Row(c)} /\ written'[c].policies = written[c].policies
    BY <2>1 DEF StoreInv, StoreTypeOK
  <2>6. Row(c)' = Row(c) /\ Request(c)' = Request(c)
    BY <2>1 DEF Row, Request
  <2>7. TransactionOK(c)'
    <3>1. TransactionOK(c)
      BY DEF StoreInv
    <3>2. Stored(Row(c).supersedes)' = Stored(Row(c).supersedes)
      BY <1>1, <2>6 DEF Stored, dbVars
    <3>3. (\A n \in DOMAIN rows : ~Collide(Row(c), rows[n]))'
      BY <1>1, <1>3, <2>6 DEF Collide, dbVars
    <3> QED BY <1>1, <2>1, <2>5, <2>6, <3>1, <3>2, <3>3 DEF TransactionOK, HoldsPolicy, dbVars
  <2>8. ASSUME NEW d \in Clients \ {c}
        PROVE  Apart(c, d)'
    <3>1. HoldsPolicy(d) => Row(c).id # Row(d).id
      BY <1>1, <2>8 DEF StoreInv, Apart, HoldsPolicy
    <3>2. at[d] = "commit" => ~Collide(Row(c), Row(d))
      BY <2>8 DEF InsertTransition, OthersRows, StoreInv, TransactionOK
    <3>3. HoldsPolicy(d)' = HoldsPolicy(d) /\ Row(d)' = Row(d) /\ at'[d] = at[d]
      BY <2>4, <2>8 DEF Keeps, HoldsPolicy, Row, Request
    <3> QED BY <2>6, <3>1, <3>2, <3>3 DEF Apart, Collide
  <2> QED BY <2>3, <2>4, <2>7, <2>8, OneMoves
<1> QED BY <1>2, <1>3

\* A commit stores a row nobody else may commit beside.
LEMMA CommitKeeps ==
  ASSUME StoreInv, NEW c \in Clients, Commit(c)
  PROVE  StoreInv'
<1> DEFINE row == Row(c)
<1>1. /\ at[c] = "commit"
      /\ policies' = policies \cup {row.id}
      /\ rows' = Append(rows, row)
      /\ \E answer \in {"created", "error"} : End(c, answer)
  BY DEF Commit, StoreInv, TransactionOK, HoldsPolicy
<1>2. PICK answer \in {"created", "error"} : End(c, answer)
  BY <1>1
<1>3. row \in AllRows /\ row.id \in Ids
  BY <1>1, RowTyped
<1>4. /\ Len(rows') = Len(rows) + 1 /\ DOMAIN rows' = 1 .. Len(rows) + 1
      /\ DOMAIN rows = 1 .. Len(rows) /\ Len(rows) \in Nat
      /\ rows'[Len(rows) + 1] = row
      /\ \A n \in DOMAIN rows : rows'[n] = rows[n]
  BY <1>1, <1>3 DEF StoreInv, StoreTypeOK
<1>5. /\ at' = [at EXCEPT ![c] = "idle"]
      /\ calls' = [calls EXCEPT ![c].answer = answer]
      /\ written' = [written EXCEPT ![c] = Nothing]
  BY <1>2 DEF End, Goto
<1>6. StoreTypeOK'
  <2>1. Nothing \in [policies : SUBSET Ids, rows : SUBSET AllRows]
    BY DEF Nothing
  <2>2. rows' \in Seq(AllRows) /\ policies' \in SUBSET Ids
    BY <1>1, <1>3 DEF StoreInv, StoreTypeOK
  <2> QED BY <1>5, <2>1, <2>2 DEF StoreInv, StoreTypeOK, Answers
<1>7. /\ at'[c] = "idle" /\ written'[c] = Nothing /\ calls'[c].answer = answer
      /\ \A d \in Clients \ {c} :
           at'[d] = at[d] /\ written'[d] = written[d] /\ calls'[d] = calls[d]
  BY <1>5 DEF StoreInv, StoreTypeOK
<1>8. ASSUME NEW d \in Clients \ {c}
      PROVE  Row(d)' = Row(d) /\ Request(d)' = Request(d) /\ HoldsPolicy(d)' = HoldsPolicy(d)
  BY <1>7, <1>8 DEF Row, Request, HoldsPolicy
<1>9. EvidenceIsWhole'
  <2>1. policies' = {rows'[n].id : n \in DOMAIN rows'}
    BY <1>1, <1>4 DEF StoreInv, EvidenceIsWhole
  <2>2. \A m, n \in DOMAIN rows' : Collide(rows'[m], rows'[n]) => m = n
    <3>1. \A n \in DOMAIN rows : ~Collide(row, rows[n]) /\ ~Collide(rows[n], row)
      BY <1>1 DEF StoreInv, TransactionOK, Collide
    <3> QED BY <1>4, <3>1 DEF StoreInv, EvidenceIsWhole
  <2>3. \A n \in DOMAIN rows' : rows'[n].supersedes # None =>
          \E m \in 1 .. n - 1 : rows'[m].id = rows'[n].supersedes
    <3>1. row.supersedes = None \/ \E m \in 1 .. Len(rows) : rows[m].id = row.supersedes
      BY <1>1, <1>4 DEF StoreInv, TransactionOK, Stored
    <3>2. \A n \in DOMAIN rows : rows[n].supersedes # None =>
            \E m \in 1 .. n - 1 : m \in DOMAIN rows /\ rows[m].id = rows[n].supersedes
      BY <1>4 DEF StoreInv, EvidenceIsWhole
    <3> HIDE DEF row
    <3> TAKE n \in DOMAIN rows'
    <3>3. CASE n = Len(rows) + 1
      BY <1>4, <3>1, <3>3
    <3>4. CASE n \in DOMAIN rows
      BY <1>4, <3>2, <3>4
    <3> QED BY <1>4, <3>3, <3>4
  <2> QED BY <2>1, <2>2, <2>3 DEF EvidenceIsWhole, Collide
<1>10. ASSUME NEW d \in Clients \ {c}
       PROVE  TransactionOK(d)'
  <2>1. TransactionOK(d) /\ Apart(c, d) /\ Apart(d, c)
    BY <1>10 DEF StoreInv
  <2>2. HoldsPolicy(d) => row.id # Row(d).id
    BY <1>1, <2>1 DEF Apart, HoldsPolicy
  <2>3. HoldsPolicy(d) => Row(d).id \notin policies'
    BY <1>1, <2>1, <2>2 DEF TransactionOK
  <2>4. at[d] = "commit" => \A n \in DOMAIN rows' : ~Collide(Row(d), rows'[n])
    <3>1. at[d] = "commit" => ~Collide(Row(d), row)
      BY <1>1, <2>1 DEF Apart, Collide
    <3>2. at[d] = "commit" => \A n \in DOMAIN rows : ~Collide(Row(d), rows[n])
      BY <2>1 DEF TransactionOK
    <3> QED BY <1>4, <3>1, <3>2
  <2>5. \A id : Stored(id) => Stored(id)'
    BY <1>4 DEF Stored
  <2> QED BY <1>7, <1>8, <1>10, <2>1, <2>3, <2>4, <2>5 DEF TransactionOK, HoldsPolicy, Collide
<1>11. TransactionOK(c)'
  BY <1>7 DEF TransactionOK, HoldsPolicy, Nothing
<1>12. ASSUME NEW d \in Clients, NEW e \in Clients, d # e
       PROVE  Apart(d, e)'
  <2>1. CASE d = c \/ e = c
    BY <1>7, <2>1 DEF Apart, HoldsPolicy
  <2>2. CASE d # c /\ e # c
    BY <1>7, <1>8, <1>12, <2>2 DEF StoreInv, Apart, Collide
  <2> QED BY <2>1, <2>2
<1> QED BY <1>6, <1>9, <1>10, <1>11, <1>12 DEF StoreInv

LEMMA StoreInitially == Init => StoreInv
<1> SUFFICES ASSUME Init PROVE StoreInv
  OBVIOUS
<1>1. StoreTypeOK
  <2>1. rows \in Seq(AllRows)
    BY DEF Init
  <2>2. written \in [Clients -> [policies : SUBSET Ids, rows : SUBSET AllRows]]
    BY DEF Init, Nothing
  <2>3. calls \in [Clients -> [request : Requests \cup {None}, answer : Answers]]
    BY DEF Init, Answers
  <2> QED BY <2>1, <2>2, <2>3 DEF Init, StoreTypeOK
<1>2. EvidenceIsWhole
  BY DEF Init, EvidenceIsWhole
<1>3. \A c \in Clients : TransactionOK(c)
  BY DEF Init, TransactionOK, HoldsPolicy, Nothing
<1>4. \A c, d \in Clients : Apart(c, d)
  BY DEF Init, Apart, HoldsPolicy
<1> QED BY <1>1, <1>2, <1>3, <1>4 DEF StoreInv

LEMMA StoreStep == StoreInv /\ [Next]_vars => StoreInv'
<1> SUFFICES ASSUME StoreInv, [Next]_vars PROVE StoreInv'
  OBVIOUS
<1>1. ASSUME NEW c \in Clients, NEW request \in Requests, Begin(c, request)
      PROVE  StoreInv'
  BY <1>1, BeginKeeps
<1>2. ASSUME NEW c \in Clients, Proceed(c)
      PROVE  StoreInv'
  BY <1>2, ReadsKeep, InsertPolicyKeeps, InsertTransitionKeeps, CommitKeeps DEF Proceed
<1>3. ASSUME NEW c \in Clients, StatementFails(c)
      PROVE  StoreInv'
  BY <1>3, Ending DEF StatementFails, Answers, dbVars
<1>4. CASE UNCHANGED vars
  <2>1. StoreTypeOK' /\ EvidenceIsWhole'
    BY <1>4 DEF vars, StoreInv, StoreTypeOK, EvidenceIsWhole, Collide
  <2>2. \A c \in Clients : TransactionOK(c)'
    BY ZenonT(30), <1>4 DEF vars, StoreInv, TransactionOK, HoldsPolicy, Stored, Row, Request, Collide
  <2>3. \A c, d \in Clients : c # d => Apart(c, d)'
    BY <1>4 DEF vars, StoreInv, Apart, HoldsPolicy, Row, Request, Collide
  <2> QED BY <2>1, <2>2, <2>3 DEF StoreInv
<1> QED BY <1>1, <1>2, <1>3, <1>4 DEF Next

LEMMA AlwaysInv == Spec => []StoreInv
BY StoreInitially, StoreStep, PTL DEF Spec

\* Whatever processes race or fail, a policy is stored with its transition and
\* never without, the constraints hold, and a correction comes after what it
\* supersedes (ResearchRepository).
THEOREM StoredIsWhole == Spec => []EvidenceIsWhole
<1>1. StoreInv => EvidenceIsWhole
  BY DEF StoreInv
<1> QED BY <1>1, AlwaysInv, PTL

-----------------------------------------------------------------------------
(* The repository implements the register                                  *)

LEMMA SameRow ==
  ASSUME NEW c \in Clients
  PROVE  Register!Row(calls[c].request) = Row(c)
BY DEF Register!Row, Row, Request

LEMMA PendingIsRunning ==
  ASSUME StoreInv, NEW c \in Clients
  PROVE  at[c] # "idle" <=> calls[c].answer = "pending"
BY DEF StoreInv, TransactionOK

\* A failure, before or after other statements, is one of the register.
LEMMA FailureIsFail ==
  ASSUME StoreInv, NEW c \in Clients, at[c] # "idle", End(c, "error"), UNCHANGED dbVars
  PROVE  Register!Fail(c)
BY PendingIsRunning DEF End, Register!Fail, Register!Answered, dbVars

LEMMA ReadsOnRegister ==
  ASSUME StoreInv, NEW c \in Clients,
         FindOriginal(c) \/ FindExisting(c) \/ FindNone(c)
  PROVE  Register!Find(c) \/ Register!Refuse(c) \/ UNCHANGED Register!vars
<1>1. CASE FindOriginal(c)
  <2>1. CASE \E n \in DOMAIN rows : rows[n].id = Request(c).supersedes
    BY <1>1, <2>1 DEF FindOriginal, Register!vars, dbVars
  <2>2. CASE ~\E n \in DOMAIN rows : rows[n].id = Request(c).supersedes
    <3>1. /\ at[c] = "original" /\ UNCHANGED rows
          /\ calls' = [calls EXCEPT ![c].answer = "conflict"]
      BY <1>1, <2>2 DEF FindOriginal, End, dbVars
    <3>2. calls[c].answer = "pending"
      BY <3>1, PendingIsRunning
    <3>3. ~Register!Follows(Row(c))
      BY <2>2, <3>1 DEF Register!Follows, Register!Recorded, Row, StoreInv, TransactionOK
    <3> QED
      BY <3>1, <3>2, <3>3, SameRow DEF Register!Refuse, Register!Answered
  <2> QED BY <2>1, <2>2
<1>2. CASE FindExisting(c)
  <2>1. PICK n \in DOMAIN rows :
          /\ rows[n].identity = Row(c).identity
          /\ End(c, IF /\ rows[n].content = Row(c).content
                       /\ Row(c).supersedes \in {None, rows[n].supersedes}
                    THEN "existing" ELSE "conflict")
    BY <1>2 DEF FindExisting
  <2>2. calls[c].answer = "pending" /\ UNCHANGED rows
    BY <1>2, PendingIsRunning DEF FindExisting, dbVars
  <2>3. CASE Register!Repeats(n, Row(c))
    <3>1. calls' = [calls EXCEPT ![c].answer = "existing"]
      BY <2>1, <2>3 DEF Register!Repeats, End
    <3> QED BY <2>2, <2>3, <3>1, SameRow DEF Register!Find, Register!Answered
  <2>4. CASE ~Register!Repeats(n, Row(c))
    <3>1. calls' = [calls EXCEPT ![c].answer = "conflict"]
      BY <2>1, <2>4 DEF Register!Repeats, End
    <3> QED BY <2>1, <2>2, <2>4, <3>1, SameRow DEF Register!Refuse, Register!Answered
  <2> QED BY <2>3, <2>4
<1>3. CASE FindNone(c)
  BY <1>3 DEF FindNone, Register!vars, dbVars
<1> QED BY <1>1, <1>2, <1>3

LEMMA InsertsOnRegister ==
  ASSUME StoreInv, NEW c \in Clients, InsertPolicy(c) \/ InsertTransition(c)
  PROVE  Register!Fail(c) \/ UNCHANGED Register!vars
<1>1. at[c] # "idle" /\ UNCHANGED dbVars
  BY DEF InsertPolicy, InsertTransition, Insert
<1>2. End(c, "error") \/ UNCHANGED calls
  BY DEF InsertPolicy, InsertTransition, Insert
<1> QED BY <1>1, <1>2, FailureIsFail DEF Register!vars, dbVars

LEMMA CommitOnRegister ==
  ASSUME StoreInv, NEW c \in Clients, Commit(c)
  PROVE  Register!Record(c)
<1>1. at[c] = "commit" /\ rows' = Append(rows, Row(c)) /\ calls[c].answer = "pending"
  BY PendingIsRunning DEF Commit
<1>2. \E answer \in {"created", "error"} : calls' = [calls EXCEPT ![c].answer = answer]
  BY DEF Commit, End
<1>3. \A n \in DOMAIN rows : rows[n].id # Row(c).id /\ rows[n].identity # Row(c).identity
  BY <1>1 DEF StoreInv, TransactionOK, Collide
<1>4. Row(c).supersedes = None \/ \E n \in DOMAIN rows : rows[n].id = Row(c).supersedes
  BY <1>1 DEF StoreInv, TransactionOK, Stored
<1> QED
  BY <1>1, <1>2, <1>3, <1>4, SameRow
  DEF Register!Record, Register!New, Register!Follows, Register!Recorded, Register!Answered

LEMMA StoreOnRegister ==
  ASSUME StoreInv, [Next]_vars
  PROVE  [Register!RegisterNext]_Register!vars
<1>1. ASSUME NEW c \in Clients, NEW request \in Requests, Begin(c, request)
      PROVE  Register!Ask(c, request)
  BY <1>1, PendingIsRunning DEF Begin, Register!Ask, dbVars
<1>2. ASSUME NEW c \in Clients, Proceed(c)
      PROVE  \/ Register!Find(c) \/ Register!Refuse(c) \/ Register!Fail(c)
             \/ Register!Record(c) \/ UNCHANGED Register!vars
  BY <1>2, ReadsOnRegister, InsertsOnRegister, CommitOnRegister DEF Proceed
<1>3. ASSUME NEW c \in Clients, StatementFails(c)
      PROVE  Register!Fail(c)
  BY <1>3, FailureIsFail DEF StatementFails
<1>4. CASE UNCHANGED vars
  BY <1>4 DEF vars, Register!vars
<1> QED BY <1>1, <1>2, <1>3, <1>4 DEF Next, Register!RegisterNext

\* Processes that race, fail and retry see the repository as one register of
\* immutable rows, every answer true of it (add_transition, add_correction).
THEOREM StoreIsRegister == Spec => RegisterRefinement
<1>1. Init => Register!RegisterInit
  BY DEF Init, Register!RegisterInit
<1>2. StoreInv /\ [Next]_vars => [Register!RegisterNext]_Register!vars
  BY StoreOnRegister
<1> QED
  BY <1>1, <1>2, AlwaysInv, PTL DEF Spec, RegisterRefinement, Register!RegisterSpec
=============================================================================
