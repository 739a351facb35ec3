----------------------- MODULE TransitionExportProofs -----------------------
(***************************************************************************)
(* Proofs about TransitionExport, for every price, fee and bound: the type *)
(* invariant; that the fees a step charges are those of the fills it       *)
(* reports; that exporting a run again meets no conflict; and that the     *)
(* rows of an episode are one trajectory.                                  *)
(*                                                                         *)
(* The invariant says where the charges stand while a tick runs: before    *)
(* _attribute_fill_fees the ledger has entries only for the fills of the   *)
(* event's first view, after it those of all later ones too; and what the  *)
(* checkpoints report lies before that view.                               *)
(***************************************************************************)
EXTENDS TransitionExport, SumTheorems, FiniteSetTheorems, TLAPS

\* A sequence, whatever its elements.
IsSeq(s) == s \in Seq({s[i] : i \in DOMAIN s})

\* The fills a checkpoint may already have reported.
Seen == IF handler.at = "idle" THEN Len(fills) ELSE handler.before.fills

\* The charges of the running event.
ChargesStand ==
  /\ handler.at # "idle" => /\ handler.produced = handler.before.fills
                            /\ handler.before.fills <= Len(fills)
  /\ \A e \in feeLedger :
       e.fill \in 1 .. Len(fills) /\ e = Entry(e.fill) /\ Fee(fills[e.fill]) > 0
  /\ handler.at = "match" => \A e \in feeLedger : e.fill <= handler.before.fills
  /\ handler.at \in {"quote", "effects"} =>
       \A k \in (handler.before.fills + 1) .. Len(fills) :
         Fee(fills[k]) > 0 => Entry(k) \in feeLedger

\* What the checkpoints hold.
CheckpointsStand ==
  /\ IsSeq(checkpoints)
  /\ \A i \in DOMAIN checkpoints :
       /\ checkpoints[i].ledger \subseteq feeLedger
       /\ \A e \in checkpoints[i].ledger : e.fill <= Seen
       /\ checkpoints[i].fills \subseteq 1 .. Seen
       /\ \A f \in checkpoints[i].fills :
            Fee(fills[f]) > 0 => Entry(f) \in checkpoints[i].ledger
  /\ \A i, j \in DOMAIN checkpoints : i < j =>
       /\ checkpoints[i].ledger \subseteq checkpoints[j].ledger
       /\ checkpoints[i].fills \cap checkpoints[j].fills = {}
       /\ \A e \in checkpoints[i].ledger : e.fill \notin checkpoints[j].fills

IInv == ExportTypeOK /\ ChargesStand /\ CheckpointsStand /\ ExportRepeatable /\ EpisodesChain

-----------------------------------------------------------------------------
\* What Append does to a sequence of anything.
LEMMA AppendFacts ==
  ASSUME NEW s, IsSeq(s), NEW e
  PROVE  /\ IsSeq(Append(s, e))
         /\ Len(s) \in Nat
         /\ Len(Append(s, e)) = Len(s) + 1
         /\ DOMAIN s = 1 .. Len(s)
         /\ DOMAIN Append(s, e) = 1 .. (Len(s) + 1)
         /\ \A i \in DOMAIN s : Append(s, e)[i] = s[i]
         /\ Append(s, e)[Len(s) + 1] = e
<1> DEFINE S == {s[i] : i \in DOMAIN s}
<1> DEFINE T == S \cup {e}
<1>1. s \in Seq(T)
  <2>1. s \in Seq(S)
    BY DEF IsSeq
  <2>2. S \subseteq T
    OBVIOUS
  <2> QED
    BY <2>1, <2>2
<1>2. /\ Append(s, e) \in Seq(T)
      /\ Len(s) \in Nat
      /\ Len(Append(s, e)) = Len(s) + 1
      /\ DOMAIN s = 1 .. Len(s)
      /\ DOMAIN Append(s, e) = 1 .. (Len(s) + 1)
      /\ \A i \in DOMAIN s : Append(s, e)[i] = s[i]
      /\ Append(s, e)[Len(s) + 1] = e
  BY <1>1
<1>3. IsSeq(Append(s, e))
  BY <1>2 DEF IsSeq
<1> QED
  BY <1>2, <1>3

-----------------------------------------------------------------------------
(* Types                                                                   *)

\* The initial state has its types.
LEMMA InitTypes == Init => ExportTypeOK
  BY CashAssumption DEF Init, ExportTypeOK, Idle, Sides, Actions, CostNames

\* Every step keeps the types.
LEMMA NextTypes ==
  ASSUME IsSeq(checkpoints), ExportTypeOK, [Next]_vars
  PROVE  ExportTypeOK'
<1> USE DEF ExportTypeOK
<1>1. CASE Load
  BY <1>1, CashAssumption DEF Load, Reset, Opening
<1>2. CASE LoadFails
  BY <1>2, CashAssumption DEF LoadFails, Reset
<1>3. ASSUME NEW n \in 1 .. MaxBatch, Tick(n)
      PROVE  ExportTypeOK'
  <2>1. View \in [orders : Nat, fills : Nat] /\ Len(fills) \in Nat
    BY DEF View
  <2>2. handler' = [at |-> "match", left |-> n, todo |-> working, produced |-> Len(fills),
                    before |-> View, action |-> "NO_OP"]
    BY <1>3 DEF Tick, Idle
  <2>3. handler' \in [at : {"idle", "match", "quote", "effects"}, left : Int,
                     todo : SUBSET Sides, produced : Nat,
                     before : [orders : Nat, fills : Nat],
                     action : Actions]
    BY <2>1, <2>2, BoundsAssumption DEF Actions
  <2>4. run > 0 /\ UNCHANGED <<run, runs, bookVars, chargeVars, checkpoints, repo>>
    BY <1>3 DEF Tick
  <2> QED
    BY <2>3, <2>4 DEF bookVars, chargeVars
<1>4. ASSUME NEW side \in Sides, NEW price \in Prices, NEW lot \in OpenLots \cup {0},
             Fill(side, price, lot)
      PROVE  ExportTypeOK'
  <2> DEFINE f == [side |-> side, price |-> price, lot |-> lot]
  <2>1. f \in [side : Sides, price : Prices, lot : Nat]
    BY DEF OpenLots
  <2>2. /\ price \in Int /\ Fee(f) \in Int
    BY PricesAssumption, FeesAssumption DEF Fee, Sides
  <2>3. /\ fills' = Append(fills, f)
        /\ cash' = IF side = "buy" THEN cash - (price + Fee(f)) ELSE cash + (price - Fee(f))
        /\ handler' = [handler EXCEPT !.todo = @ \ {side}]
        /\ working' = working \ {side}
        /\ UNCHANGED <<run, runs, orders, chargeVars, checkpoints, repo>>
    BY <1>4 DEF Fill
  <2>4. cash' \in Int
    <3> HIDE DEF ExportTypeOK, f
    <3>1. cash \in Int
      BY DEF ExportTypeOK
    <3>2. cash' = IF side = "buy" THEN cash - (price + Fee(f)) ELSE cash + (price - Fee(f))
      BY <2>3
    <3> QED
      BY <2>2, <3>1, <3>2
  <2>5. fills' \in Seq([side : Sides, price : Prices, lot : Nat])
    BY <2>1, <2>3
  <2>6. handler' \in [at : {"idle", "match", "quote", "effects"}, left : Int,
                     todo : SUBSET Sides, produced : Nat,
                     before : [orders : Nat, fills : Nat],
                     action : Actions] /\ handler'.at = handler.at
    BY <2>3
  <2> QED
    BY <2>3, <2>4, <2>5, <2>6 DEF chargeVars
<1>5. ASSUME NEW side \in Sides, Skip(side)
      PROVE  ExportTypeOK'
  BY <1>5 DEF Skip, bookVars, chargeVars
<1>6. CASE Attribute
  <2>1. Charged(handler.produced) \subseteq [cost : CostNames, fill : Nat]
    BY DEF Charged, Entry, CostOf, CostNames
  <2> QED
    BY <1>6, <2>1 DEF Attribute, bookVars
<1>7. ASSUME NEW placed \in SUBSET Sides, NEW cancelled \in SUBSET working,
             NEW refused \in BOOLEAN, Quote(placed, cancelled, refused)
      PROVE  ExportTypeOK'
  <2>1. Cardinality(placed) \in Nat
    <3>1. IsFiniteSet(Sides)
      <4>1. IsFiniteSet({"buy"}) /\ IsFiniteSet({"sell"})
        BY FS_Singleton
      <4>2. Sides = {"buy"} \cup {"sell"}
        BY DEF Sides
      <4> QED
        BY <4>1, <4>2, FS_Union
    <3> QED
      BY <3>1, FS_Subset, FS_CardinalityType
  <2>2. working' \subseteq Sides /\ orders' \in Nat
    BY <1>7, <2>1 DEF Quote
  <2>3. handler' \in [at : {"idle", "match", "quote", "effects"}, left : Int,
                     todo : SUBSET Sides, produced : Nat,
                     before : [orders : Nat, fills : Nat],
                     action : Actions] /\ run > 0
    BY <1>7 DEF Quote, Actions
  <2>4. UNCHANGED <<run, runs, cash, fills, chargeVars, checkpoints, repo>>
    BY <1>7 DEF Quote
  <2> QED
    BY <2>2, <2>3, <2>4 DEF chargeVars
<1>8. CASE PauseForModel
  <2>1. handler' \in [at : {"idle", "match", "quote", "effects"}, left : Int,
                     todo : SUBSET Sides, produced : Nat,
                     before : [orders : Nat, fills : Nat],
                     action : Actions] /\ run > 0
    <3>1. handler' = [handler EXCEPT !.at = "effects", !.left = 1,
                                     !.action = "NO_OP"]
      BY <1>8 DEF PauseForModel
    <3>2. handler.at # "idle"
      BY <1>8 DEF PauseForModel
    <3>3. run > 0
      BY <3>2
    <3>4. 1 \in Int /\ "NO_OP" \in Actions /\ FALSE \in BOOLEAN
      BY DEF Actions
    <3> QED
      BY <3>1, <3>3, <3>4
  <2> QED
    BY <1>8, <2>1 DEF PauseForModel, bookVars, chargeVars
<1>9. CASE EmitStepEffects
  <2> DEFINE c == Checkpoint(handler.before, handler.action)
  <2>1. Append(checkpoints, c) # <<>>
    <3> HIDE DEF c, ExportTypeOK
    <3>1. /\ IsSeq(Append(checkpoints, c))
          /\ Len(checkpoints) \in Nat
          /\ Len(Append(checkpoints, c)) = Len(checkpoints) + 1
      BY AppendFacts
    <3> QED
      BY <3>1
  <2>2. checkpoints' # <<>> /\ checkpoints # <<>>
    BY <1>9, <2>1 DEF EmitStepEffects
  <2>3. UNCHANGED <<run, runs, bookVars, chargeVars, repo>>
    BY <1>9 DEF EmitStepEffects
  <2>4. CASE handler.left = 1
    BY <1>9, <2>2, <2>3, <2>4 DEF EmitStepEffects, Idle, Actions, bookVars, chargeVars
  <2>5. CASE handler.left # 1
    <3>1. View \in [orders : Nat, fills : Nat] /\ Len(fills) \in Nat
      BY DEF View
    <3>2. handler' \in [at : {"idle", "match", "quote", "effects"}, left : Int,
                       todo : SUBSET Sides, produced : Nat,
                       before : [orders : Nat, fills : Nat],
                       action : Actions] /\ run > 0
      <4>1. /\ handler.at = "effects" /\ handler.left - 1 \in Int
            /\ handler' = [handler EXCEPT !.at = "match", !.left = handler.left - 1,
                                          !.todo = working, !.before = View,
                                          !.produced = Len(fills)]
        BY <1>9, <2>5 DEF EmitStepEffects
      <4> QED
        BY <3>1, <4>1
    <3> QED
      BY <2>2, <2>3, <3>2 DEF bookVars, chargeVars
  <2> QED
    BY <2>4, <2>5
<1>10. CASE Raise
  BY <1>10 DEF Raise, Idle, Actions, bookVars, chargeVars
<1>11. ASSUME NEW sides \in SUBSET Sides, OperatorCancel(sides)
       PROVE  ExportTypeOK'
  BY <1>11 DEF OperatorCancel, chargeVars
<1>12. CASE Export
  <2>1. DOMAIN Offered \subseteq (1 .. runs) \X Nat
    BY SMTT(30), <1>12 DEF Offered, Export, IsSeq
  <2>2. DOMAIN repo' \subseteq DOMAIN repo \cup DOMAIN Offered
    BY <1>12 DEF Export, Added
  <2> QED
    BY <1>12, <2>1, <2>2 DEF Export, bookVars, chargeVars
<1>13. CASE UNCHANGED vars
  BY <1>13 DEF vars, bookVars, chargeVars
<1> HIDE DEF ExportTypeOK
<1> QED
  BY <1>1, <1>2, <1>3, <1>4, <1>5, <1>6, <1>7, <1>8, <1>9, <1>10, <1>11, <1>12, <1>13 DEF Next

-----------------------------------------------------------------------------
(* The charges                                                             *)

\* A fill that is appended changes none of the fills before it.
LEMMA FillsGrow ==
  ASSUME fills \in Seq([side : Sides, price : Prices, lot : Nat]),
         NEW f \in [side : Sides, price : Prices, lot : Nat],
         fills' = Append(fills, f)
  PROVE  /\ Len(fills) \in Nat /\ Len(fills') = Len(fills) + 1
         /\ \A k \in 1 .. Len(fills) : fills'[k] = fills[k] /\ Entry(k)' = Entry(k)
<1>1. /\ Len(fills) \in Nat /\ Len(fills') = Len(fills) + 1
      /\ \A k \in 1 .. Len(fills) : fills'[k] = fills[k]
  OBVIOUS
<1>2. ASSUME NEW k \in 1 .. Len(fills)
      PROVE  Entry(k)' = Entry(k)
  BY <1>1 DEF Entry, CostOf
<1> QED
  BY <1>1, <1>2

\* What an entry of the book or of a checkpoint stands for depends on the
\* fills alone.
LEMMA ChargesFramed ==
  ASSUME ChargesStand, UNCHANGED <<fills, feeLedger, handler>>
  PROVE  ChargesStand'
<1> QED
  BY DEF ChargesStand, Entry, CostOf, Fee

\* Every step keeps the charges standing.
LEMMA NextCharges ==
  ASSUME ExportTypeOK, ChargesStand, Next
  PROVE  ChargesStand'
<1>a. fills \in Seq([side : Sides, price : Prices, lot : Nat]) /\ Len(fills) \in Nat
  BY DEF ExportTypeOK
<1>1. CASE Load \/ LoadFails
  <2>1. fills' = <<>> /\ feeLedger' = {} /\ handler' = handler /\ handler.at = "idle"
    BY <1>1 DEF Load, LoadFails, Reset
  <2> QED
    BY <2>1 DEF ChargesStand
<1>2. ASSUME NEW n \in 1 .. MaxBatch, Tick(n)
      PROVE  ChargesStand'
  <2>1. /\ handler'.at = "match" /\ handler'.produced = Len(fills)
        /\ handler'.before.fills = Len(fills)
        /\ UNCHANGED <<fills, feeLedger>>
    BY <1>2 DEF Tick, Idle, View, bookVars, chargeVars
  <2> QED
    BY <1>a, <2>1 DEF ChargesStand, Entry, CostOf, Fee
<1>3. ASSUME NEW side \in Sides, NEW price \in Prices, NEW lot \in OpenLots \cup {0},
             Fill(side, price, lot)
      PROVE  ChargesStand'
  <2> DEFINE f == [side |-> side, price |-> price, lot |-> lot]
  <2>1. f \in [side : Sides, price : Prices, lot : Nat]
    BY <1>a DEF OpenLots
  <2>2. /\ fills' = Append(fills, f) /\ feeLedger' = feeLedger /\ handler.at = "match"
        /\ handler' = [handler EXCEPT !.todo = handler.todo \ {side}]
    BY <1>3 DEF Fill, chargeVars
  <2>3. /\ handler'.at = "match" /\ handler'.produced = handler.produced
        /\ handler'.before = handler.before
    BY <2>2 DEF ExportTypeOK
  <2>4. /\ Len(fills') = Len(fills) + 1
        /\ \A k \in 1 .. Len(fills) : fills'[k] = fills[k] /\ Entry(k)' = Entry(k)
    BY <1>a, <2>1, <2>2, FillsGrow
  <2>5. ASSUME NEW e \in feeLedger
        PROVE  /\ e.fill \in 1 .. Len(fills') /\ e = Entry(e.fill)'
               /\ Fee(fills'[e.fill]) > 0 /\ e.fill <= handler.before.fills
    BY <1>a, <2>2, <2>4 DEF ChargesStand
  <2>6. /\ handler.produced = handler.before.fills /\ handler.before.fills <= Len(fills')
    BY <1>a, <2>2, <2>4 DEF ChargesStand, ExportTypeOK
  <2> QED
    BY <2>2, <2>3, <2>5, <2>6 DEF ChargesStand, Fee
<1>4. CASE Attribute
  <2>1. /\ handler.at = "match" /\ feeLedger' = feeLedger \cup Charged(handler.produced)
        /\ handler'.at = "quote" /\ handler'.produced = handler.produced
        /\ handler'.before = handler.before /\ UNCHANGED fills
    BY <1>4 DEF Attribute, bookVars, ExportTypeOK
  <2>2. handler.produced = handler.before.fills /\ handler.before.fills \in Nat
    BY <2>1 DEF ChargesStand, ExportTypeOK
  <2>3. \A e \in Charged(handler.produced) :
          e.fill \in 1 .. Len(fills) /\ e = Entry(e.fill) /\ Fee(fills[e.fill]) > 0
    BY <1>a, <2>2 DEF Charged, Entry
  <2>4. \A k \in (handler.before.fills + 1) .. Len(fills) :
          Fee(fills[k]) > 0 => Entry(k) \in feeLedger'
    BY <2>1, <2>2 DEF Charged
  <2>5. \A k : Entry(k)' = Entry(k) /\ Fee(fills[k])' = Fee(fills[k])
    BY <2>1 DEF Entry, CostOf, Fee
  <2> QED
    BY <1>a, <2>1, <2>2, <2>3, <2>4, <2>5 DEF ChargesStand
<1>5. CASE \/ \E side \in Sides : Skip(side)
           \/ \E placed \in SUBSET Sides, cancelled \in SUBSET working, refused \in BOOLEAN :
                Quote(placed, cancelled, refused)
           \/ PauseForModel
  <2>1. /\ UNCHANGED <<fills, feeLedger>> /\ handler.at # "idle"
        /\ handler'.produced = handler.produced /\ handler'.before = handler.before
        /\ \/ handler.at = "match" /\ handler'.at = "match"
           \/ handler.at = "quote" /\ handler'.at = "effects"
    BY <1>5 DEF Skip, Quote, PauseForModel, bookVars, chargeVars, ExportTypeOK
  <2> QED
    BY <2>1 DEF ChargesStand, Entry, CostOf, Fee
<1>6. CASE EmitStepEffects
  <2>1. /\ UNCHANGED <<fills, feeLedger>>
        /\ \/ handler'.at = "idle"
           \/ /\ handler'.at = "match" /\ handler'.produced = Len(fills)
              /\ handler'.before.fills = Len(fills)
    BY <1>6 DEF EmitStepEffects, Idle, View, bookVars, chargeVars, ExportTypeOK
  <2> QED
    BY <1>a, <2>1 DEF ChargesStand, Entry, CostOf, Fee
<1>7. CASE Raise
  <2>1. UNCHANGED <<fills, feeLedger>> /\ handler'.at = "idle"
    BY <1>7 DEF Raise, Idle, bookVars, chargeVars
  <2> QED
    BY <2>1 DEF ChargesStand, Entry, CostOf, Fee
<1>8. CASE (\E sides \in SUBSET Sides : OperatorCancel(sides)) \/ Export
  <2>1. UNCHANGED <<fills, feeLedger, handler>>
    BY <1>8 DEF OperatorCancel, Export, bookVars, chargeVars
  <2> QED
    BY <2>1, ChargesFramed
<1> QED
  BY <1>1, <1>2, <1>3, <1>4, <1>5, <1>6, <1>7, <1>8 DEF Next

-----------------------------------------------------------------------------
(* The checkpoints                                                         *)

\* What the checkpoints hold stays true when none is added and the book only
\* grows.
LEMMA CheckpointsFramed ==
  ASSUME ExportTypeOK, CheckpointsStand,
         checkpoints' = checkpoints, feeLedger \subseteq feeLedger',
         Seen \in Nat, Seen' \in Nat, Seen <= Seen', Seen <= Len(fills),
         \A k \in 1 .. Len(fills) : fills'[k] = fills[k] /\ Entry(k)' = Entry(k)
  PROVE  CheckpointsStand'
<1>1. ASSUME NEW i \in DOMAIN checkpoints
      PROVE  /\ checkpoints[i].ledger \subseteq feeLedger'
             /\ \A e \in checkpoints[i].ledger : e.fill \in Nat /\ e.fill <= Seen'
             /\ checkpoints[i].fills \subseteq 1 .. Seen'
             /\ \A f \in checkpoints[i].fills :
                  Fee(fills'[f]) > 0 => Entry(f)' \in checkpoints[i].ledger
  <2>1. checkpoints[i].ledger \subseteq feeLedger /\ checkpoints[i].fills \subseteq 1 .. Seen
    BY DEF CheckpointsStand
  <2>2. \A e \in checkpoints[i].ledger : e.fill \in Nat /\ e.fill <= Seen
    BY <2>1 DEF CheckpointsStand, ExportTypeOK
  <2>3. Len(fills) \in Nat
    BY DEF ExportTypeOK
  <2>4. 1 .. Seen \subseteq 1 .. Len(fills) /\ 1 .. Seen \subseteq 1 .. Seen'
    BY <2>3
  <2>5. ASSUME NEW f \in checkpoints[i].fills, Fee(fills'[f]) > 0
        PROVE  Entry(f)' \in checkpoints[i].ledger
    <3>1. fills'[f] = fills[f] /\ Entry(f)' = Entry(f)
      BY <2>1, <2>4
    <3> QED
      BY <2>5, <3>1 DEF CheckpointsStand
  <2>6. \A e \in checkpoints[i].ledger : e.fill <= Seen'
    BY <2>2
  <2> QED
    BY <2>1, <2>2, <2>4, <2>5, <2>6
<1>2. IsSeq(checkpoints')
  BY DEF CheckpointsStand
<1>3. \A i, j \in DOMAIN checkpoints : i < j =>
       /\ checkpoints[i].ledger \subseteq checkpoints[j].ledger
       /\ checkpoints[i].fills \cap checkpoints[j].fills = {}
       /\ \A e \in checkpoints[i].ledger : e.fill \notin checkpoints[j].fills
  BY DEF CheckpointsStand
<1> HIDE DEF Seen
<1> QED
  BY <1>1, <1>2, <1>3 DEF CheckpointsStand, Fee

\* How far the checkpoints report: never beyond the fills, never back.
LEMMA SeenGrows ==
  ASSUME ExportTypeOK, ExportTypeOK', ChargesStand, ChargesStand',
         Len(fills) <= Len(fills'),
         \/ handler'.at = "idle"
         \/ handler'.before.fills = Len(fills')
         \/ handler.at # "idle" /\ handler'.before = handler.before
  PROVE  Seen \in Nat /\ Seen' \in Nat /\ Seen <= Seen' /\ Seen <= Len(fills)
<1>1. Len(fills) \in Nat /\ Len(fills') \in Nat
  BY DEF ExportTypeOK
<1>2. handler.before.fills \in Nat /\ handler'.before.fills \in Nat
  BY DEF ExportTypeOK
<1>3. /\ handler.at # "idle" => handler.before.fills <= Len(fills)
      /\ handler'.at # "idle" => handler'.before.fills <= Len(fills')
  BY DEF ChargesStand
<1> QED
  BY <1>1, <1>2, <1>3 DEF Seen

\* The checkpoint of a step holds the charges of the fills it reports.
LEMMA EmitKeepsCheckpoints ==
  ASSUME ExportTypeOK, ChargesStand, CheckpointsStand, EmitStepEffects
  PROVE  CheckpointsStand'
<1> DEFINE c == Checkpoint(handler.before, handler.action)
           n == Len(checkpoints) + 1
<1>1. /\ checkpoints' = Append(checkpoints, c) /\ UNCHANGED <<fills, feeLedger>>
      /\ handler.at = "effects"
      /\ handler'.at = "idle" \/ handler'.before.fills = Len(fills)
  BY DEF EmitStepEffects, Idle, View, bookVars, chargeVars, ExportTypeOK
<1>2. /\ c.ledger = feeLedger
      /\ c.fills = (handler.before.fills + 1) .. Len(fills)
  BY DEF Checkpoint
<1>3. /\ Len(fills) \in Nat /\ handler.before.fills \in Nat
      /\ handler.before.fills <= Len(fills)
  BY <1>1 DEF ExportTypeOK, ChargesStand
<1>4. Seen = handler.before.fills /\ Seen' = Len(fills)
  BY <1>1 DEF Seen
<1> HIDE DEF c
<1>5. /\ IsSeq(checkpoints') /\ Len(checkpoints) \in Nat
      /\ DOMAIN checkpoints = 1 .. Len(checkpoints) /\ DOMAIN checkpoints' = 1 .. n
      /\ \A i \in DOMAIN checkpoints : checkpoints'[i] = checkpoints[i]
      /\ checkpoints'[n] = c
  BY <1>1, AppendFacts DEF CheckpointsStand
<1>6. \A k : Entry(k)' = Entry(k) /\ Fee(fills[k])' = Fee(fills[k])
  BY <1>1 DEF Entry, CostOf, Fee
<1>7. \A e \in feeLedger : e.fill \in Nat /\ e.fill <= Len(fills)
  BY <1>3 DEF ChargesStand
<1>8. ASSUME NEW i \in DOMAIN checkpoints'
      PROVE  /\ checkpoints'[i].ledger \subseteq feeLedger
             /\ \A e \in checkpoints'[i].ledger : e.fill <= Len(fills)
             /\ checkpoints'[i].fills \subseteq 1 .. Len(fills)
             /\ \A f \in checkpoints'[i].fills :
                  Fee(fills[f]) > 0 => Entry(f) \in checkpoints'[i].ledger
  <2>1. CASE i = n
    <3>1. \A f \in c.fills : Fee(fills[f]) > 0 => Entry(f) \in feeLedger
      BY <1>1, <1>2 DEF ChargesStand
    <3>2. c.fills \subseteq 1 .. Len(fills)
      BY <1>2, <1>3
    <3> QED
      BY <1>2, <1>5, <1>7, <2>1, <3>1, <3>2
  <2>2. CASE i # n
    <3>1. i \in DOMAIN checkpoints /\ checkpoints'[i] = checkpoints[i]
      BY <1>5, <2>2
    <3>2. /\ checkpoints[i].ledger \subseteq feeLedger
          /\ checkpoints[i].fills \subseteq 1 .. handler.before.fills
          /\ \A f \in checkpoints[i].fills :
               Fee(fills[f]) > 0 => Entry(f) \in checkpoints[i].ledger
      BY <1>4, <3>1 DEF CheckpointsStand
    <3>3. 1 .. handler.before.fills \subseteq 1 .. Len(fills)
      BY <1>3
    <3> QED
      BY <1>7, <3>1, <3>2, <3>3
  <2> QED
    BY <2>1, <2>2
<1>9. ASSUME NEW i \in DOMAIN checkpoints', NEW j \in DOMAIN checkpoints', i < j
      PROVE  /\ checkpoints'[i].ledger \subseteq checkpoints'[j].ledger
             /\ checkpoints'[i].fills \cap checkpoints'[j].fills = {}
             /\ \A e \in checkpoints'[i].ledger : e.fill \notin checkpoints'[j].fills
  <2>1. i \in DOMAIN checkpoints /\ checkpoints'[i] = checkpoints[i]
    BY <1>5, <1>9
  <2>2. CASE j = n
    <3>1. /\ checkpoints[i].ledger \subseteq feeLedger
          /\ \A e \in checkpoints[i].ledger : e.fill <= handler.before.fills
          /\ checkpoints[i].fills \subseteq 1 .. handler.before.fills
      BY <1>4, <2>1 DEF CheckpointsStand
    <3>2. \A k \in c.fills : k > handler.before.fills
      BY <1>2, <1>3
    <3>3. \A e \in checkpoints[i].ledger : e.fill \notin c.fills
      BY <1>3, <1>7, <3>1, <3>2
    <3>4. checkpoints[i].fills \cap c.fills = {}
      BY <1>3, <3>1, <3>2
    <3> QED
      BY <1>2, <1>5, <2>1, <2>2, <3>1, <3>3, <3>4
  <2>3. CASE j # n
    <3>1. j \in DOMAIN checkpoints /\ checkpoints'[j] = checkpoints[j]
      BY <1>5, <2>3
    <3> QED
      BY <1>9, <2>1, <3>1 DEF CheckpointsStand
  <2> QED
    BY <2>2, <2>3
<1> HIDE DEF n
<1> QED
  BY <1>1, <1>4, <1>5, <1>6, <1>8, <1>9 DEF CheckpointsStand

\* Every step keeps what the checkpoints hold.
LEMMA NextCheckpoints ==
  ASSUME ExportTypeOK, ExportTypeOK', ChargesStand, ChargesStand', CheckpointsStand, Next
  PROVE  CheckpointsStand'
<1>1. CASE Load
  <2>1. checkpoints' = <<Opening>>
    BY <1>1 DEF Load
  <2>2. /\ DOMAIN checkpoints' = {1}
        /\ checkpoints'[1].ledger = {} /\ checkpoints'[1].fills = {}
    BY <2>1 DEF Opening
  <2>3. IsSeq(checkpoints')
    BY <2>1 DEF IsSeq
  <2> QED
    BY <2>2, <2>3 DEF CheckpointsStand
<1>2. CASE LoadFails
  BY <1>2 DEF LoadFails, CheckpointsStand, IsSeq
<1>3. ASSUME NEW n \in 1 .. MaxBatch, Tick(n)
      PROVE  CheckpointsStand'
  <2>1. /\ handler'.before.fills = Len(fills) /\ UNCHANGED <<fills, feeLedger, checkpoints>>
    BY <1>3 DEF Tick, Idle, View, bookVars, chargeVars
  <2>2. Seen \in Nat /\ Seen' \in Nat /\ Seen <= Seen' /\ Seen <= Len(fills)
    <3>1. Len(fills) \in Nat
      BY DEF ExportTypeOK
    <3> QED
      BY <2>1, <3>1, SeenGrows
  <2>3. \A k : Entry(k)' = Entry(k)
    BY <2>1 DEF Entry, CostOf
  <2> QED
    BY <2>1, <2>2, <2>3, CheckpointsFramed
<1>4. ASSUME NEW side \in Sides, NEW price \in Prices, NEW lot \in OpenLots \cup {0},
             Fill(side, price, lot)
      PROVE  CheckpointsStand'
  <2> DEFINE f == [side |-> side, price |-> price, lot |-> lot]
  <2>1. fills \in Seq([side : Sides, price : Prices, lot : Nat])
    BY DEF ExportTypeOK
  <2>2. f \in [side : Sides, price : Prices, lot : Nat]
    BY <2>1 DEF OpenLots
  <2>3. /\ fills' = Append(fills, f) /\ UNCHANGED <<feeLedger, checkpoints>>
        /\ handler.at = "match" /\ handler'.before = handler.before
    BY <1>4 DEF Fill, chargeVars, ExportTypeOK
  <2>4. /\ Len(fills) \in Nat /\ Len(fills') = Len(fills) + 1
        /\ \A k \in 1 .. Len(fills) : fills'[k] = fills[k] /\ Entry(k)' = Entry(k)
    BY <2>1, <2>2, <2>3, FillsGrow
  <2>5. Seen \in Nat /\ Seen' \in Nat /\ Seen <= Seen' /\ Seen <= Len(fills)
    BY <2>3, <2>4, SeenGrows
  <2> QED
    BY <2>3, <2>4, <2>5, CheckpointsFramed
<1>5. CASE \/ \E side \in Sides : Skip(side)
           \/ Attribute
           \/ \E placed \in SUBSET Sides, cancelled \in SUBSET working, refused \in BOOLEAN :
                Quote(placed, cancelled, refused)
           \/ PauseForModel
           \/ Raise
           \/ \E sides \in SUBSET Sides : OperatorCancel(sides)
           \/ Export
  <2>1. /\ UNCHANGED <<fills, checkpoints>> /\ feeLedger \subseteq feeLedger'
        /\ handler'.at = "idle" \/ (handler.at # "idle" /\ handler'.before = handler.before)
    <3>1. CASE \E side \in Sides : Skip(side)
      BY <3>1 DEF Skip, bookVars, chargeVars, ExportTypeOK
    <3>2. CASE Attribute
      BY <3>2 DEF Attribute, bookVars, ExportTypeOK
    <3>3. CASE \E placed \in SUBSET Sides, cancelled \in SUBSET working, refused \in BOOLEAN :
                 Quote(placed, cancelled, refused)
      BY <3>3 DEF Quote, chargeVars, ExportTypeOK
    <3>4. CASE PauseForModel
      BY <3>4 DEF PauseForModel, bookVars, chargeVars, ExportTypeOK
    <3>5. CASE Raise
      BY <3>5 DEF Raise, Idle, bookVars, chargeVars
    <3>6. CASE (\E sides \in SUBSET Sides : OperatorCancel(sides)) \/ Export
      BY <3>6 DEF OperatorCancel, Export, bookVars, chargeVars
    <3> QED
      BY <1>5, <3>1, <3>2, <3>3, <3>4, <3>5, <3>6
  <2>2. Seen \in Nat /\ Seen' \in Nat /\ Seen <= Seen' /\ Seen <= Len(fills)
    <3>1. Len(fills) \in Nat
      BY DEF ExportTypeOK
    <3> QED
      BY <2>1, <3>1, SeenGrows
  <2>3. \A k : Entry(k)' = Entry(k)
    BY <2>1 DEF Entry, CostOf
  <2> QED
    BY <2>1, <2>2, <2>3, CheckpointsFramed
<1>6. CASE EmitStepEffects
  BY <1>6, EmitKeepsCheckpoints
<1> QED
  BY <1>1, <1>2, <1>3, <1>4, <1>5, <1>6 DEF Next

-----------------------------------------------------------------------------
(* The repository                                                          *)

\* What an export offers: one row for each adjacent pair that reconciles.
LEMMA OfferedRows ==
  ASSUME NEW id
  PROVE  /\ id \in DOMAIN Offered <=>
              \E j \in 1 .. Len(checkpoints) - 1 :
                id = <<run, j>> /\ Reconciles(checkpoints[j], checkpoints[j + 1])
         /\ id \in DOMAIN Offered =>
              Offered[id] = Row(checkpoints[id[2]], checkpoints[id[2] + 1])
  BY DEF Offered

\* Rows are made of checkpoints alone, so old ones stay when one is added.
LEMMA OfferedGrows ==
  ASSUME IsSeq(checkpoints), NEW c, checkpoints' = Append(checkpoints, c), run' = run
  PROVE  \A id \in DOMAIN Offered : id \in DOMAIN Offered' /\ Offered'[id] = Offered[id]
<1>1. /\ Len(checkpoints) \in Nat /\ Len(checkpoints') = Len(checkpoints) + 1
      /\ DOMAIN checkpoints = 1 .. Len(checkpoints)
      /\ \A i \in DOMAIN checkpoints : checkpoints'[i] = checkpoints[i]
  BY AppendFacts
<1>2. ASSUME NEW id \in DOMAIN Offered
      PROVE  id \in DOMAIN Offered' /\ Offered'[id] = Offered[id]
  <2>1. PICK j \in 1 .. Len(checkpoints) - 1 :
          id = <<run, j>> /\ Reconciles(checkpoints[j], checkpoints[j + 1])
    BY OfferedRows
  <2>2. /\ j \in 1 .. Len(checkpoints') - 1
        /\ checkpoints'[j] = checkpoints[j] /\ checkpoints'[j + 1] = checkpoints[j + 1]
    BY <1>1
  <2>3. id \in DOMAIN Offered'
    BY <2>1, <2>2 DEF Offered
  <2>4. Offered'[id] = Row(checkpoints'[id[2]], checkpoints'[id[2] + 1])
    BY <2>3 DEF Offered
  <2> QED
    BY <2>1, <2>2, <2>3, <2>4, OfferedRows
<1> QED
  BY <1>2

\* Every step but load and export leaves the repository and what was offered.
LEMMA OfferedFramed ==
  ASSUME ExportRepeatable, run' = run, repo' = repo,
         \A id \in DOMAIN Offered : id \in DOMAIN Offered' /\ Offered'[id] = Offered[id]
  PROVE  ExportRepeatable'
  BY DEF ExportRepeatable

\* Every step keeps the stored rows of the run equal to what it offers.
LEMMA NextStored ==
  ASSUME ExportTypeOK, CheckpointsStand, ExportRepeatable, Next
  PROVE  ExportRepeatable'
<1>1. CASE Load \/ LoadFails
  <2>1. repo' = repo /\ (run' = runs + 1 \/ run' = 0)
    BY <1>1 DEF Load, LoadFails, Reset
  <2>2. \A id \in DOMAIN repo : id[1] \in 1 .. runs
    BY DEF ExportTypeOK
  <2>3. runs \in Nat
    BY DEF ExportTypeOK
  <2>4. \A id \in DOMAIN repo' : id[1] # run'
    BY <2>1, <2>2, <2>3
  <2> QED
    BY <2>4 DEF ExportRepeatable
<1>2. CASE EmitStepEffects
  <2>1. run' = run /\ repo' = repo
    BY <1>2 DEF EmitStepEffects
  <2>2. \A id \in DOMAIN Offered : id \in DOMAIN Offered' /\ Offered'[id] = Offered[id]
    BY <1>2, <2>1, OfferedGrows DEF EmitStepEffects, CheckpointsStand
  <2> QED
    BY <2>1, <2>2, OfferedFramed
<1>3. CASE Export
  <2>1. /\ run' = run /\ checkpoints' = checkpoints
        /\ repo' = [id \in DOMAIN repo \cup Added(Offered) |->
                     IF id \in DOMAIN repo THEN repo[id] ELSE Offered[id]]
    BY <1>3 DEF Export
  <2>2. Offered' = Offered
    BY <2>1 DEF Offered
  <2>3. Added(Offered) \subseteq DOMAIN Offered
    BY DEF Added
  <2>4. ASSUME NEW id \in DOMAIN repo', id[1] = run'
        PROVE  id \in DOMAIN Offered /\ repo'[id] = Offered[id]
    <3>1. CASE id \in DOMAIN repo
      BY <2>1, <2>4, <3>1 DEF ExportRepeatable
    <3>2. CASE id \notin DOMAIN repo
      BY <2>1, <2>3, <3>2
    <3> QED
      BY <3>1, <3>2
  <2> QED
    BY <2>2, <2>4 DEF ExportRepeatable
<1>4. CASE \/ \E n \in 1 .. MaxBatch : Tick(n)
           \/ \E side \in Sides, price \in Prices, lot \in OpenLots \cup {0} :
                Fill(side, price, lot)
           \/ \E side \in Sides : Skip(side)
           \/ Attribute
           \/ \E placed \in SUBSET Sides, cancelled \in SUBSET working, refused \in BOOLEAN :
                Quote(placed, cancelled, refused)
           \/ PauseForModel
           \/ Raise
           \/ \E sides \in SUBSET Sides : OperatorCancel(sides)
  <2>1. UNCHANGED <<run, repo, checkpoints>>
    BY <1>4 DEF Tick, Fill, Skip, Attribute, Quote, PauseForModel, Raise, OperatorCancel
  <2>2. Offered' = Offered
    BY <2>1 DEF Offered
  <2> QED
    BY <2>1, <2>2, OfferedFramed
<1> QED
  BY <1>1, <1>2, <1>3, <1>4 DEF Next

\* The rows a run offers are one trajectory.
LEMMA OfferedChain ==
  ASSUME CheckpointsStand, NEW a \in DOMAIN Offered, NEW b \in DOMAIN Offered
  PROVE  /\ b[2] = a[2] + 1 => Offered[a].next = Offered[b].state
         /\ a # b => /\ Offered[a].reward.entries \cap Offered[b].reward.entries = {}
                    /\ Offered[a].fills \cap Offered[b].fills = {}
<1>1. PICK i \in 1 .. Len(checkpoints) - 1 : a = <<run, i>>
  BY OfferedRows
<1>2. PICK j \in 1 .. Len(checkpoints) - 1 : b = <<run, j>>
  BY OfferedRows
<1>3. /\ Offered[a] = Row(checkpoints[i], checkpoints[i + 1])
      /\ Offered[b] = Row(checkpoints[j], checkpoints[j + 1])
  BY <1>1, <1>2, OfferedRows
<1>4. /\ Offered[a].next = checkpoints[i + 1].state /\ Offered[b].state = checkpoints[j].state
      /\ Offered[a].reward.entries = checkpoints[i + 1].ledger \ checkpoints[i].ledger
      /\ Offered[b].reward.entries = checkpoints[j + 1].ledger \ checkpoints[j].ledger
      /\ Offered[a].fills = checkpoints[i + 1].fills /\ Offered[b].fills = checkpoints[j + 1].fills
  BY <1>3 DEF Row, Reward, NewEntries
<1>5. DOMAIN checkpoints = 1 .. Len(checkpoints) /\ Len(checkpoints) \in Nat
  BY DEF CheckpointsStand, IsSeq
<1>6. /\ i \in DOMAIN checkpoints /\ i + 1 \in DOMAIN checkpoints
      /\ j \in DOMAIN checkpoints /\ j + 1 \in DOMAIN checkpoints
  BY <1>5
<1>7. CASE i < j
  <2>1. checkpoints[i + 1].ledger \subseteq checkpoints[j].ledger
    <3>1. CASE i + 1 = j
      BY <3>1
    <3>2. CASE i + 1 < j
      BY <1>6, <3>2 DEF CheckpointsStand
    <3> QED
      BY <1>7, <3>1, <3>2
  <2>2. checkpoints[i + 1].fills \cap checkpoints[j + 1].fills = {}
    BY <1>6, <1>7 DEF CheckpointsStand
  <2> QED
    BY <1>1, <1>2, <1>4, <2>1, <2>2
<1>8. CASE j < i
  <2>1. checkpoints[j + 1].ledger \subseteq checkpoints[i].ledger
    <3>1. CASE j + 1 = i
      BY <3>1
    <3>2. CASE j + 1 < i
      BY <1>6, <3>2 DEF CheckpointsStand
    <3> QED
      BY <1>8, <3>1, <3>2
  <2>2. checkpoints[j + 1].fills \cap checkpoints[i + 1].fills = {}
    BY <1>6, <1>8 DEF CheckpointsStand
  <2>3. b[2] # a[2] + 1
    BY <1>1, <1>2, <1>8
  <2> QED
    BY <1>4, <2>1, <2>2, <2>3
<1>9. CASE i = j
  BY <1>1, <1>2, <1>9
<1> QED
  BY <1>7, <1>8, <1>9

\* Every step keeps the episodes of the repository trajectories.
LEMMA NextChain ==
  ASSUME CheckpointsStand, ExportRepeatable', EpisodesChain, Next
  PROVE  EpisodesChain'
<1>1. CASE Export
  <2>1. /\ run' = run /\ checkpoints' = checkpoints
        /\ repo' = [id \in DOMAIN repo \cup Added(Offered) |->
                     IF id \in DOMAIN repo THEN repo[id] ELSE Offered[id]]
    BY <1>1 DEF Export
  <2>2. \A id \in DOMAIN repo' : id[1] # run => id \in DOMAIN repo /\ repo'[id] = repo[id]
    <3>1. \A id \in Added(Offered) : id[1] = run
      BY DEF Added, Offered
    <3> QED
      BY <2>1, <3>1
  <2>3. ASSUME NEW a \in DOMAIN repo', NEW b \in DOMAIN repo', a[1] = b[1]
        PROVE  /\ b[2] = a[2] + 1 => repo'[a].next = repo'[b].state
               /\ a # b => /\ repo'[a].reward.entries \cap repo'[b].reward.entries = {}
                          /\ repo'[a].fills \cap repo'[b].fills = {}
    <3>1. CASE a[1] = run
      <4>1. Offered' = Offered
        BY <2>1 DEF Offered
      <4>2. /\ a \in DOMAIN Offered /\ repo'[a] = Offered[a]
            /\ b \in DOMAIN Offered /\ repo'[b] = Offered[b]
        BY <2>1, <2>3, <3>1, <4>1 DEF ExportRepeatable
      <4> QED
        BY <4>2, OfferedChain
    <3>2. CASE a[1] # run
      BY <2>2, <2>3, <3>2 DEF EpisodesChain
    <3> QED
      BY <3>1, <3>2
  <2> QED
    BY <2>3 DEF EpisodesChain
<1>2. CASE repo' = repo
  BY <1>2 DEF EpisodesChain
<1>3. ~ Export => repo' = repo
  BY DEF Next, Load, LoadFails, Reset, Tick, Fill, Skip, Attribute, Quote, PauseForModel,
         EmitStepEffects, Raise, OperatorCancel
<1> QED
  BY <1>1, <1>2, <1>3

-----------------------------------------------------------------------------
(* Theorems                                                                *)

\* The initial state satisfies the invariant.
LEMMA InitIInv == Init => IInv
<1> SUFFICES ASSUME Init
             PROVE  IInv
  OBVIOUS
<1>1. ExportTypeOK
  BY InitTypes
<1>2. ChargesStand
  BY DEF Init, Idle, ChargesStand
<1>3. CheckpointsStand
  BY DEF Init, CheckpointsStand, IsSeq
<1>4. ExportRepeatable /\ EpisodesChain
  BY DEF Init, ExportRepeatable, EpisodesChain
<1> QED
  BY <1>1, <1>2, <1>3, <1>4 DEF IInv

\* Every step keeps the invariant.
LEMMA NextIInv == IInv /\ [Next]_vars => IInv'
<1> SUFFICES ASSUME IInv, [Next]_vars
             PROVE  IInv'
  OBVIOUS
<1>1. CASE Next
  <2>1. ExportTypeOK'
    BY NextTypes DEF IInv, CheckpointsStand
  <2>2. ChargesStand'
    BY <1>1, NextCharges DEF IInv
  <2>3. CheckpointsStand'
    BY <1>1, <2>1, <2>2, NextCheckpoints DEF IInv
  <2>4. ExportRepeatable'
    BY <1>1, NextStored DEF IInv
  <2>5. EpisodesChain'
    BY <1>1, <2>4, NextChain DEF IInv
  <2> QED
    BY <2>1, <2>2, <2>3, <2>4, <2>5 DEF IInv
<1>2. CASE UNCHANGED vars
  <2>1. Offered' = Offered
    BY <1>2 DEF vars, Offered
  <2>2. ExportTypeOK'
    BY <1>2, NextTypes DEF IInv, CheckpointsStand
  <2>3. ChargesStand'
    BY <1>2, ChargesFramed DEF IInv, vars, bookVars, chargeVars
  <2>4. CheckpointsStand'
    BY <1>2 DEF IInv, CheckpointsStand, vars, bookVars, chargeVars, Seen, Entry, CostOf, Fee
  <2>5. ExportRepeatable' /\ EpisodesChain'
    BY <1>2, <2>1 DEF IInv, ExportRepeatable, EpisodesChain, vars
  <2> QED
    BY <2>2, <2>3, <2>4, <2>5 DEF IInv
<1> QED
  BY <1>1, <1>2

\* What the checkpoints hold makes the fees travel with their fills.
LEMMA CheckpointsCarryFees ==
  ASSUME ExportTypeOK, ChargesStand, CheckpointsStand
  PROVE  FeesTravelWithFills
<1> SUFFICES ASSUME NEW i \in Steps
             PROVE  LET new == {e.fill : e \in NewEntries(checkpoints[i - 1], checkpoints[i])}
                    IN /\ \A f \in checkpoints[i].fills : Fee(fills[f]) > 0 => f \in new
                       /\ \A j \in Steps : new \cap checkpoints[j].fills # {} => i = j
  BY DEF FeesTravelWithFills
<1> DEFINE New == NewEntries(checkpoints[i - 1], checkpoints[i])
<1>1. DOMAIN checkpoints = 1 .. Len(checkpoints) /\ Len(checkpoints) \in Nat
  BY DEF CheckpointsStand, IsSeq
<1>2. i \in DOMAIN checkpoints /\ i - 1 \in DOMAIN checkpoints /\ i - 1 < i
  BY <1>1 DEF Steps
<1>3. ASSUME NEW f \in checkpoints[i].fills, Fee(fills[f]) > 0
      PROVE  \E e \in New : e.fill = f
  <2>1. Entry(f) \in checkpoints[i].ledger /\ Entry(f).fill = f
    BY <1>2, <1>3 DEF CheckpointsStand, Entry
  <2>2. Entry(f) \notin checkpoints[i - 1].ledger
    BY <1>2, <1>3, <2>1 DEF CheckpointsStand
  <2> QED
    BY <2>1, <2>2 DEF NewEntries
<1>4. ASSUME NEW j \in Steps, NEW e \in New, e.fill \in checkpoints[j].fills
      PROVE  i = j
  <2>1. /\ e \in checkpoints[i].ledger /\ e \notin checkpoints[i - 1].ledger
    BY DEF NewEntries
  <2>2. e \in feeLedger /\ e = Entry(e.fill) /\ Fee(fills[e.fill]) > 0
    BY <1>2, <2>1 DEF CheckpointsStand, ChargesStand
  <2>3. j \in DOMAIN checkpoints /\ j \in Int /\ i \in Int
    BY <1>1, <1>2 DEF Steps
  <2>4. CASE i < j
    BY <1>2, <1>4, <2>1, <2>3, <2>4 DEF CheckpointsStand
  <2>5. CASE j < i
    <3>1. e \in checkpoints[j].ledger
      BY <1>4, <2>2, <2>3 DEF CheckpointsStand
    <3>2. CASE j < i - 1
      BY <1>2, <2>1, <2>3, <3>1, <3>2 DEF CheckpointsStand
    <3>3. CASE j = i - 1
      BY <2>1, <3>1, <3>3
    <3> QED
      BY <2>3, <2>5, <3>2, <3>3
  <2> QED
    BY <2>3, <2>4, <2>5
<1> QED
  BY <1>3, <1>4

\* The invariant holds of every behaviour.
LEMMA SpecIInv == Spec => []IInv
<1>1. Init => IInv
  BY InitIInv
<1>2. IInv /\ [Next]_vars => IInv'
  BY NextIInv
<1> QED
  BY <1>1, <1>2, PTL DEF Spec

\* Type correctness of the export model.
THEOREM ExportTypesHold == Spec => []ExportTypeOK
<1>1. IInv => ExportTypeOK
  BY DEF IInv
<1> QED
  BY <1>1, SpecIInv, PTL

\* A step charges the fees of the fills it reports, and of no other step's.
THEOREM FeesTravel == Spec => []FeesTravelWithFills
<1>1. IInv => FeesTravelWithFills
  BY CheckpointsCarryFees DEF IInv
<1> QED
  BY <1>1, SpecIInv, PTL

\* An export can be repeated: what is stored of the run is what it offers.
THEOREM ExportRepeats == Spec => []ExportRepeatable
<1>1. IInv => ExportRepeatable
  BY DEF IInv
<1> QED
  BY <1>1, SpecIInv, PTL

\* The rows of every episode in the repository are one trajectory.
THEOREM EpisodesAreTrajectories == Spec => []EpisodesChain
<1>1. IInv => EpisodesChain
  BY DEF IInv
<1> QED
  BY <1>1, SpecIInv, PTL

-----------------------------------------------------------------------------
(* The costs                                                               *)

\* What a fill costs is a number that is not negative.
LEMMA FeeTyped ==
  ASSUME ExportTypeOK
  PROVE  /\ Len(fills) \in Nat /\ DOMAIN fills = 1 .. Len(fills)
         /\ \A n \in DOMAIN fills : Fee(fills[n]) \in Nat /\ CostOf(fills[n]) \in CostNames
<1>1. /\ fills \in Seq([side : Sides, price : Prices, lot : Nat])
      /\ Len(fills) \in Nat /\ DOMAIN fills = 1 .. Len(fills)
  BY DEF ExportTypeOK
<1>2. ASSUME NEW n \in DOMAIN fills
      PROVE  Fee(fills[n]) \in Nat /\ CostOf(fills[n]) \in CostNames
  <2>1. fills[n] \in [side : Sides, price : Prices, lot : Nat]
    <3> DEFINE S == [side : Sides, price : Prices, lot : Nat]
    <3>1. fills \in Seq(S)
      BY <1>1
    <3> HIDE DEF S
    <3>2. fills[n] \in S
      BY <1>1, <3>1
    <3> QED BY <3>2 DEF S
  <2> QED BY <2>1, FeesAssumption DEF Fee, CostOf, CostNames
<1> QED BY <1>1, <1>2

\* The costs are the fees in the ledger, in the book and in each checkpoint.
CostsStand ==
  /\ costs = [c \in CostNames |-> LedgerFees(feeLedger, c)]
  /\ \A i \in DOMAIN checkpoints :
       checkpoints[i].costs = [c \in CostNames |-> LedgerFees(checkpoints[i].ledger, c)]

\* A ledger without entries charges nothing.
LEMMA NothingLedgered ==
  ASSUME fills = <<>>, NEW ledger, NEW cost
  PROVE  LedgerFees(ledger, cost) = 0
<1>1. Len(fills) = 0
  OBVIOUS
<1> QED BY <1>1, RunningDef DEF LedgerFees

\* What a ledger charges stays when a fill it does not charge is appended.
LEMMA LedgerFramed ==
  ASSUME ExportTypeOK, NEW f, fills' = Append(fills, f), NEW cost,
         NEW ledger, \A e \in ledger : e.fill <= Len(fills)
  PROVE  LedgerFees(ledger, cost)' = LedgerFees(ledger, cost)
<1> DEFINE n == Len(fills)
           S == {fills[i] : i \in DOMAIN fills} \cup {f}
           g == [k \in DOMAIN fills |->
                   IF [cost |-> cost, fill |-> k] \in ledger THEN Fee(fills[k]) ELSE 0]
           h == [k \in DOMAIN fills' |->
                   IF [cost |-> cost, fill |-> k] \in ledger THEN Fee(fills'[k]) ELSE 0]
<1>1. /\ fills \in Seq(S) /\ n \in Nat /\ DOMAIN fills = 1 .. n
      /\ DOMAIN fills' = 1 .. n + 1 /\ Len(fills') = n + 1
      /\ \A k \in 1 .. n : fills'[k] = fills[k]
  <2>1. fills \in Seq([side : Sides, price : Prices, lot : Nat])
    BY DEF ExportTypeOK
  <2>2. fills \in Seq(S)
    BY <2>1
  <2> QED BY <2>2
<1>2. [cost |-> cost, fill |-> n + 1] \notin ledger
  <2>1. [cost |-> cost, fill |-> n + 1].fill = n + 1
    OBVIOUS
  <2> QED BY <1>1, <2>1
<1>3. h[n + 1] = 0 /\ \A k \in 1 .. n : h[k] = g[k]
  BY <1>1, <1>2
<1>4. SumTo(g, n) \in Int
  <2>1. \A k \in 1 .. n : g[k] \in Int
    BY <1>1, FeeTyped
  <2> HIDE DEF g
  <2> QED BY <1>1, <2>1, SumType
<1>5. SumTo(h, n + 1) = SumTo(g, n) + h[n + 1]
  <2>1. n \in Nat /\ \A k \in 1 .. n : h[k] = g[k]
    BY <1>1, <1>3
  <2> HIDE DEF g, h, n
  <2> QED BY <2>1, SumAppend
<1>6. LedgerFees(ledger, cost) = SumTo(g, n) /\ LedgerFees(ledger, cost)' = SumTo(h, n + 1)
  BY <1>1 DEF LedgerFees, Fee
<1> HIDE DEF g, h
<1> QED BY <1>3, <1>4, <1>5, <1>6

\* _attribute_fill_fees adds to the costs what it adds to the ledger.
LEMMA ChargeAddsUp ==
  ASSUME ExportTypeOK, ChargesStand, handler.at = "match", NEW cost \in CostNames
  PROVE  LedgerFees(feeLedger \cup Charged(handler.produced), cost)
           = LedgerFees(feeLedger, cost) + FeesOf(handler.produced, cost)
<1> DEFINE n == Len(fills)
           p == handler.produced
           id(k) == [cost |-> cost, fill |-> k]
           f == [k \in DOMAIN fills |-> IF id(k) \in feeLedger THEN Fee(fills[k]) ELSE 0]
           g == [k \in DOMAIN fills |->
                   IF k > p /\ CostOf(fills[k]) = cost THEN Fee(fills[k]) ELSE 0]
           h == [k \in DOMAIN fills |->
                   IF id(k) \in feeLedger \cup Charged(p) THEN Fee(fills[k]) ELSE 0]
<1>1. /\ n \in Nat /\ DOMAIN fills = 1 .. n /\ p \in Nat
      /\ \A k \in 1 .. n : Fee(fills[k]) \in Nat
  BY FeeTyped DEF ExportTypeOK
<1>2. \A e \in feeLedger : e.fill <= p
  BY DEF ChargesStand
<1>3. ASSUME NEW k \in 1 .. n
      PROVE  f[k] \in Int /\ g[k] \in Int /\ h[k] = f[k] + g[k]
  <2>1. id(k).fill = k /\ id(k).cost = cost
    OBVIOUS
  <2>2. id(k) \in Charged(p) <=> k > p /\ CostOf(fills[k]) = cost /\ Fee(fills[k]) > 0
    <3>1. id(k) \in Charged(p) <=> \E j \in (p + 1) .. n : Fee(fills[j]) > 0 /\ id(k) = Entry(j)
      BY DEF Charged
    <3>2. \A j : Entry(j).fill = j /\ Entry(j).cost = CostOf(fills[j])
      BY DEF Entry
    <3>3. CostOf(fills[k]) = cost => id(k) = Entry(k)
      BY DEF Entry
    <3>4. k \in (p + 1) .. n <=> k > p
      BY <1>1
    <3> HIDE DEF id
    <3> QED BY <2>1, <3>1, <3>2, <3>3, <3>4
  <2>3. k > p => id(k) \notin feeLedger
    BY <1>1, <1>2, <2>1
  <2>4. Fee(fills[k]) \in Nat
    BY <1>1
  <2>5. /\ f[k] = IF id(k) \in feeLedger THEN Fee(fills[k]) ELSE 0
        /\ g[k] = IF k > p /\ CostOf(fills[k]) = cost THEN Fee(fills[k]) ELSE 0
        /\ h[k] = IF id(k) \in feeLedger \/ id(k) \in Charged(p) THEN Fee(fills[k]) ELSE 0
    BY <1>1
  <2> HIDE DEF f, g, h, id
  <2> QED BY <2>2, <2>3, <2>4, <2>5
<1>4. /\ LedgerFees(feeLedger \cup Charged(p), cost) = SumTo(h, n)
      /\ LedgerFees(feeLedger, cost) = SumTo(f, n) /\ FeesOf(p, cost) = SumTo(g, n)
  BY DEF LedgerFees, FeesOf
<1> HIDE DEF f, g, h
<1> QED BY <1>1, <1>3, <1>4, SumPlus

\* Every step keeps the costs standing.
LEMMA NextCosts ==
  ASSUME ExportTypeOK, ChargesStand, CheckpointsStand, CostsStand, [Next]_vars
  PROVE  CostsStand'
<1>1. CASE Load \/ LoadFails
  <2>1. /\ fills' = <<>> /\ costs' = NoCosts
        /\ checkpoints' = <<Opening>> \/ checkpoints' = <<>>
    BY <1>1 DEF Load, LoadFails, Reset
  <2>2. \A ledger, cost : LedgerFees(ledger, cost)' = 0
    <3>1. Len(fills') = 0
      BY <2>1
    <3> QED BY <3>1, RunningDef DEF LedgerFees
  <2>3. \A i \in DOMAIN checkpoints' : checkpoints'[i].costs = NoCosts
    BY <2>1 DEF Opening
  <2>4. \A ledger : [c \in CostNames |-> LedgerFees(ledger, c)'] = NoCosts
    BY <2>2 DEF NoCosts
  <2> QED BY <2>1, <2>3, <2>4 DEF CostsStand
<1>2. ASSUME NEW side \in Sides, NEW price \in Prices, NEW lot \in OpenLots \cup {0},
             Fill(side, price, lot)
      PROVE  CostsStand'
  <2> DEFINE f == [side |-> side, price |-> price, lot |-> lot]
  <2>1. /\ fills' = Append(fills, f)
        /\ costs' = costs /\ feeLedger' = feeLedger /\ checkpoints' = checkpoints
    BY <1>2 DEF Fill, chargeVars
  <2>2. Len(fills) \in Nat /\ \A e \in feeLedger : e.fill \in 1 .. Len(fills)
    BY FeeTyped DEF ChargesStand
  <2>3. \A i \in DOMAIN checkpoints : checkpoints[i].ledger \subseteq feeLedger
    BY DEF CheckpointsStand
  <2>4. ASSUME NEW ledger \in SUBSET feeLedger, NEW c
        PROVE  LedgerFees(ledger, c)' = LedgerFees(ledger, c)
    <3>1. \A e \in ledger : e.fill <= Len(fills)
      BY <2>2
    <3> HIDE DEF f
    <3> QED BY <2>1, <3>1, LedgerFramed
  <2>5. ASSUME NEW ledger \in SUBSET feeLedger
        PROVE  [c \in CostNames |-> LedgerFees(ledger, c)]'
                 = [c \in CostNames |-> LedgerFees(ledger, c)]
    BY <2>4
  <2> QED BY <2>1, <2>3, <2>5 DEF CostsStand
<1>3. CASE Attribute
  <2>1. /\ handler.at = "match" /\ fills' = fills /\ checkpoints' = checkpoints
        /\ costs' = [c \in CostNames |-> costs[c] + FeesOf(handler.produced, c)]
        /\ feeLedger' = feeLedger \cup Charged(handler.produced)
    BY <1>3 DEF Attribute, bookVars
  <2>2. \A ledger, c : LedgerFees(ledger, c)' = LedgerFees(ledger, c)
    BY <2>1 DEF LedgerFees, Fee
  <2>3. \A c \in CostNames : costs'[c] = LedgerFees(feeLedger', c)
    <3>1. \A c \in CostNames : costs[c] = LedgerFees(feeLedger, c)
      BY DEF CostsStand
    <3> QED BY <2>1, <3>1, ChargeAddsUp
  <2>4. costs' = [c \in CostNames |-> LedgerFees(feeLedger', c)]
    BY <2>1, <2>3
  <2> QED BY <2>1, <2>2, <2>4 DEF CostsStand
<1>4. CASE EmitStepEffects
  <2> DEFINE c == Checkpoint(handler.before, handler.action)
  <2>1. /\ checkpoints' = Append(checkpoints, c)
        /\ UNCHANGED <<fills, costs, feeLedger>>
    BY <1>4 DEF EmitStepEffects, bookVars, chargeVars
  <2>2. c.costs = costs /\ c.ledger = feeLedger
    BY DEF Checkpoint
  <2>3. \A ledger, d : LedgerFees(ledger, d)' = LedgerFees(ledger, d)
    BY <2>1 DEF LedgerFees, Fee
  <2> HIDE DEF c
  <2>4. /\ Len(checkpoints) \in Nat /\ DOMAIN checkpoints = 1 .. Len(checkpoints)
        /\ DOMAIN checkpoints' = 1 .. Len(checkpoints) + 1
        /\ \A i \in DOMAIN checkpoints : checkpoints'[i] = checkpoints[i]
        /\ checkpoints'[Len(checkpoints) + 1] = c
    BY <2>1, AppendFacts DEF CheckpointsStand
  <2>5. \A i \in DOMAIN checkpoints' : i \in DOMAIN checkpoints \/ i = Len(checkpoints) + 1
    BY <2>4
  <2>6. c.costs = [d \in CostNames |-> LedgerFees(c.ledger, d)]
    BY <2>2 DEF CostsStand
  <2>7. \A i \in DOMAIN checkpoints' :
          checkpoints'[i].costs = [d \in CostNames |-> LedgerFees(checkpoints'[i].ledger, d)]
    BY <2>4, <2>5, <2>6 DEF CostsStand
  <2> QED BY <2>1, <2>3, <2>7 DEF CostsStand
<1>5. CASE UNCHANGED <<fills, costs, feeLedger, checkpoints>>
  <2>1. \A ledger, d : LedgerFees(ledger, d)' = LedgerFees(ledger, d)
    BY <1>5 DEF LedgerFees, Fee
  <2> QED BY <1>5, <2>1 DEF CostsStand
<1>6. CASE \/ \E n \in 1 .. MaxBatch : Tick(n)
           \/ \E side \in Sides : Skip(side)
           \/ \E placed \in SUBSET Sides, cancelled \in SUBSET working, refused \in BOOLEAN :
                Quote(placed, cancelled, refused)
           \/ PauseForModel
           \/ Raise
           \/ \E sides \in SUBSET Sides : OperatorCancel(sides)
           \/ Export
           \/ UNCHANGED vars
  BY <1>5, <1>6 DEF Tick, Skip, Quote, PauseForModel, Raise, OperatorCancel, Export,
                    bookVars, chargeVars, vars
<1> QED BY <1>1, <1>2, <1>3, <1>4, <1>6 DEF Next

\* A larger ledger charges at least as much, and no more for a cost of which
\* it has no new entry: the pair reconciles.
LEMMA LargerLedgerReconciles ==
  ASSUME ExportTypeOK, CheckpointsStand, CostsStand, NEW i \in Steps
  PROVE  Reconciles(checkpoints[i - 1], checkpoints[i])
<1> DEFINE before == checkpoints[i - 1]
           after == checkpoints[i]
           n == Len(fills)
           term(ledger, c) == [k \in DOMAIN fills |->
             IF [cost |-> c, fill |-> k] \in ledger THEN Fee(fills[k]) ELSE 0]
<1>1. i \in DOMAIN checkpoints /\ i - 1 \in DOMAIN checkpoints /\ i - 1 < i
  BY DEF Steps, CheckpointsStand, IsSeq
<1>2. before.ledger \subseteq after.ledger
  BY <1>1 DEF CheckpointsStand
<1>3. /\ n \in Nat /\ DOMAIN fills = 1 .. n
      /\ \A k \in 1 .. n : Fee(fills[k]) \in Nat
  BY FeeTyped
<1>4. /\ before.costs = [c \in CostNames |-> LedgerFees(before.ledger, c)]
      /\ after.costs = [c \in CostNames |-> LedgerFees(after.ledger, c)]
  BY <1>1 DEF CostsStand
<1>5. \A ledger, c : /\ \A k \in 1 .. n : term(ledger, c)[k] \in Int
                     /\ LedgerFees(ledger, c) = SumTo(term(ledger, c), n)
  BY <1>3 DEF LedgerFees
<1>6. ASSUME NEW c \in CostNames
      PROVE  /\ CostIncrease(before, after)[c]
                  = SumTo(term(after.ledger, c), n) - SumTo(term(before.ledger, c), n)
             /\ SumTo(term(after.ledger, c), n) \in Int
             /\ SumTo(term(before.ledger, c), n) \in Int
  <2>1. CostIncrease(before, after)[c] = after.costs[c] - before.costs[c]
    BY DEF CostIncrease
  <2> HIDE DEF term, before, after
  <2>2. \A ledger : SumTo(term(ledger, c), n) \in Int
    BY <1>3, <1>5, SumType
  <2> QED BY <1>4, <1>5, <2>1, <2>2
<1>7. ASSUME NEW c \in CostNames
      PROVE  CostIncrease(before, after)[c] >= 0
  <2>1. \A k \in 1 .. n : term(before.ledger, c)[k] <= term(after.ledger, c)[k]
    BY <1>2, <1>3
  <2> HIDE DEF term, before, after
  <2>2. SumTo(term(before.ledger, c), n) <= SumTo(term(after.ledger, c), n)
    BY <1>3, <1>5, <2>1, SumMonotone
  <2> QED BY <1>6, <2>2
<1>8. ASSUME NEW c \in CostNames, CostIncrease(before, after)[c] # 0
      PROVE  \E e \in NewEntries(before, after) : e.cost = c
  <2> SUFFICES ASSUME \A e \in NewEntries(before, after) : e.cost # c
               PROVE  FALSE
    OBVIOUS
  <2>1. \A k : [cost |-> c, fill |-> k] \in after.ledger => [cost |-> c, fill |-> k] \in before.ledger
    <3>1. \A k : [cost |-> c, fill |-> k].cost = c
      OBVIOUS
    <3> QED BY <3>1 DEF NewEntries
  <2>2. term(after.ledger, c) = term(before.ledger, c)
    BY <1>2, <2>1
  <2> HIDE DEF term, before, after
  <2> QED BY <1>6, <1>8, <2>2
<1> QED BY <1>2, <1>7, <1>8 DEF Reconciles

\* The cumulative costs are the fees of the ledger, so the reward builder
\* quarantines no step of a run.
THEOREM CostsReconcile == Spec => []CostsAreFees
<1>1. Init => CostsStand
  <2>1. ASSUME Init
        PROVE  /\ checkpoints = <<>> /\ costs = NoCosts
               /\ \A c : LedgerFees(feeLedger, c) = 0
    BY <2>1, NothingLedgered DEF Init
  <2> QED BY <2>1 DEF CostsStand, NoCosts
<1>2. IInv /\ CostsStand /\ [Next]_vars => CostsStand'
  BY NextCosts DEF IInv
<1>3. IInv /\ CostsStand => CostsAreFees
  BY LargerLedgerReconciles DEF IInv, CostsStand, CostsAreFees
<1> QED BY <1>1, <1>2, <1>3, SpecIInv, PTL DEF Spec
=============================================================================
