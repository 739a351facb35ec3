-------------------------- MODULE MCArtifactFiles --------------------------
(* Small instances of ArtifactFiles for TLC. *)
EXTENDS ArtifactFiles

Trainable(fields) ==
  [status |-> "trainable", validates |-> TRUE, encodes |-> TRUE, fields |-> fields]

\* A row both lists may name, a quarantined one, and one of another schema.
MCRowOf == [shared |-> Trainable("paper"),
            quarantined |-> [Trainable("paper") EXCEPT !.status = "quarantined"],
            foreign |-> Trainable("historical")]
=============================================================================
