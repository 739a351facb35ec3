---------------------------- MODULE TrainingData ----------------------------
(***************************************************************************)
(* What a retraining job trains on: the rows of a paper export and of a    *)
(* historical pin mixed into one manifest, the quarantined ones left out,  *)
(* and the manifest's rows read back into one batch of tensors.            *)
(*                                                                         *)
(* A row is what the job asks of it: its stored status, whether            *)
(* validate_trainable accepts it now, the fields its state has, and        *)
(* whether its values have a tensor (finite, inside the mask and bounds).  *)
(***************************************************************************)
EXTENDS Naturals

CONSTANT RowOf   \* RowOf[id]: a row of one of the two repositories

RowIds == DOMAIN RowOf

ASSUME RowsAssumption ==
  \A id \in RowIds : /\ RowOf[id].status \in {"trainable", "quarantined"}
                     /\ RowOf[id].validates \in BOOLEAN
                     /\ RowOf[id].encodes \in BOOLEAN

\* A row that is quarantined, or no longer validates, is not trained on.
Kept(id) == RowOf[id].status = "trainable" /\ RowOf[id].validates

\* A row both lists name is there twice.
Occurrences(id, paper, historical) ==
  (IF id \in paper THEN 1 ELSE 0) + (IF id \in historical THEN 1 ELSE 0)

\* build_mixed_dataset_manifest, and the payload its content hash covers.
Mix(paper, historical) ==
  [paper |-> paper,
   historical |-> historical,
   quarantined |-> {id \in paper \cup historical : ~Kept(id)},
   trainable |-> [id \in RowIds |->
                    IF Kept(id) THEN Occurrences(id, paper, historical) ELSE 0]]

MixRefused(paper, historical) ==
  \/ paper = {} \/ historical = {}
  \/ \A id \in paper \cup historical : ~Kept(id)

RowsOf(mix) == {id \in RowIds : mix.trainable[id] > 0}

\* TransitionDataset.from_repository filters the rows once more ...
Accepted(mix) == [id \in RowIds |-> IF Kept(id) THEN mix.trainable[id] ELSE 0]

\* ... and makes one batch of them: all rows have the fields of the first and
\* values that have a tensor, or the job ends.
Encodes(mix) ==
  /\ \A id \in RowsOf(mix) : RowOf[id].encodes
  /\ \A a, b \in RowsOf(mix) : RowOf[a].fields = RowOf[b].fields

NoRows == [id \in RowIds |-> 0]
=============================================================================
