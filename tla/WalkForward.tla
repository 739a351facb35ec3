---------------------------- MODULE WalkForward ----------------------------
(***************************************************************************)
(* WalkForwardSplitter.split: the manifests of episodes made into rolling  *)
(* folds of consecutive historical episodes, to train on, to validate with *)
(* and to test, with synthetic episodes attached to the first two.  The    *)
(* splitter refuses manifests whose folds might leak.                      *)
(*                                                                         *)
(* A manifest is [start, end, split, lineage, provenance, sources].  Its   *)
(* episode ID is its own; the frozen hash of a fold's holdout is the       *)
(* manifests it covers.                                                    *)
(***************************************************************************)
EXTENDS Integers, Sequences, FiniteSets, SequencesExt, Sorting

Ordered(manifests) == SortBy(manifests, [m \in manifests |-> m.start])
Of(provenance, manifests) == {m \in manifests : m.provenance = provenance}

UniqueSources(manifests) ==
  \A a, b \in manifests : a # b => a.sources \cap b.sources = {}

\* Only neighbours are compared.
NonOverlapping(ordered) ==
  \A i \in 1 .. Len(ordered) - 1 : ordered[i + 1].start >= ordered[i].end

AugmentationDeclared(synthetic) ==
  \A m \in synthetic : m.split \in {"train", "validation"}

\* How many windows of all three partitions there are, a step apart.
WindowCount(n, c) ==
  LET width == c.train + c.validation + c.test
  IN  IF n < width THEN 0 ELSE (n - width) \div c.step + 1

\* Mutant of Offset: the last window ends with the last episode.
OffsetFromEnd(k, n, c) ==
  n - (c.train + c.validation + c.test) - (WindowCount(n, c) - k) * c.step

Offset(k, n, c) == (k - 1) * c.step

TrainEnd(k, n, c) == Offset(k, n, c) + c.train
ValidationEnd(k, n, c) == TrainEnd(k, n, c) + c.validation
FoldEnd(k, n, c) == ValidationEnd(k, n, c) + c.test

\* bisect_left of a synthetic episode in the historical ones.
Insertion(m, historical) ==
  Cardinality({i \in DOMAIN historical : historical[i].start < m.start})

\* Mutant of AttachedTo: a synthetic validation episode may be past the test's
\* first.
AttachedLate(m, k, historical, c) ==
  LET n == Len(historical)
      at == Insertion(m, historical)
  IN  CASE m.split = "train" /\ at \in Offset(k, n, c) .. TrainEnd(k, n, c) -> "train"
        [] m.split = "validation" /\ at \in TrainEnd(k, n, c) .. ValidationEnd(k, n, c) + 1
             -> "validation"
        [] OTHER -> "none"

\* The partition of window k a synthetic episode joins, by its declared split
\* and where it falls among the historical episodes.
AttachedTo(m, k, historical, c) ==
  LET n == Len(historical)
      at == Insertion(m, historical)
  IN  CASE m.split = "train" /\ at \in Offset(k, n, c) .. TrainEnd(k, n, c) -> "train"
        [] m.split = "validation" /\ at \in TrainEnd(k, n, c) .. ValidationEnd(k, n, c)
             -> "validation"
        [] OTHER -> "none"

\* _window and _attach_augmentation.
Folds(manifests, c) ==
  LET historical == Ordered(Of("historical", manifests))
      synthetic == Of("synthetic", manifests)
      n == Len(historical)
      Part(from, to, name, k) ==
        Ordered({historical[i] : i \in from + 1 .. to}
                \cup {m \in synthetic : AttachedTo(m, k, historical, c) = name})
  IN  [k \in 1 .. WindowCount(n, c) |->
         [train |-> Part(Offset(k, n, c), TrainEnd(k, n, c), "train", k),
          validation |-> Part(TrainEnd(k, n, c), ValidationEnd(k, n, c), "validation", k),
          test |-> SubSeq(historical, ValidationEnd(k, n, c) + 1, FoldEnd(k, n, c))]]

Partitions == <<"train", "validation", "test">>

LineageIsolated(folds) ==
  \A k \in DOMAIN folds : \A i, j \in DOMAIN Partitions : i # j =>
    \A a \in ToSet(folds[k][Partitions[i]]), b \in ToSet(folds[k][Partitions[j]]) :
      a.lineage # b.lineage

Accepts(manifests, c) ==
  /\ UniqueSources(manifests)
  /\ NonOverlapping(Ordered(manifests))
  /\ AugmentationDeclared(Of("synthetic", manifests))
  /\ LineageIsolated(Folds(manifests, c))
=============================================================================
