---------------------------- MODULE MCExperiment ----------------------------
(* Small instances of Experiment for TLC. *)
EXTENDS Experiment, TLC

Event(source, time, order) == [source |-> source, time |-> time, order |-> order]

\* Half seconds; every episode has an event, some times two, and a time may be
\* the boundary of two episodes or short of a second.
MCLogs ==
  LET base == {Event("a", 1, 1), Event("b", 5, 1), Event("c", 9, 1), Event("d", 14, 1),
               Event("e", 17, 1)}
  IN  {base \cup more : more \in
         {{Event("f", 5, 2), Event("g", 21, 1)}, {Event("h", 4, 1)}}}

MCConfigs == {[train |-> 1, validation |-> 1, test |-> 1, step |-> 1],
              [train |-> 1, validation |-> 1, test |-> 1, step |-> 2],
              [train |-> 2, validation |-> 1, test |-> 1, step |-> 1]}

MCSymmetry == Permutations(Lineages)
=============================================================================
