----------------------------- MODULE Experiment -----------------------------
(***************************************************************************)
(* A walk-forward experiment: episodes are built from a replay log, one    *)
(* after the other in the order of their time, each declared in a manifest *)
(* and the manifests split into folds, again whenever there are more.      *)
(* The caller that strings EpisodeBuilder, EpisodeManifest and             *)
(* WalkForwardSplitter together is the environment's.                      *)
(***************************************************************************)
EXTENDS EpisodeBuilder, WalkForward

CONSTANTS
  Starts,        \* when an episode may start
  SplitEnd,      \* split_end of the EpisodeConfig
  Configs,       \* WalkForwardConfigs: [train, validation, test, step]
  Lineages,      \* product_size_lineage
  MaxEpisodes    \* bound: manifests of an experiment

ASSUME StartsAssumption == Starts \subseteq Int /\ SplitEnd \in Int

ASSUME ConfigsAssumption ==
  \A c \in Configs : \A f \in {"train", "validation", "test", "step"} : c[f] \in Nat \ {0}

VARIABLES
  config,      \* the experiment's WalkForwardConfig
  manifests,   \* the manifests so far
  folds        \* what split returned last; empty before, and when it refused

vars == <<builderVars, config, manifests, folds>>

Init ==
  /\ BuilderInit /\ config \in Configs
  /\ manifests = {} /\ folds = <<>>

BuildEpisode(start) ==
  /\ Cardinality(manifests) < MaxEpisodes
  /\ \A m \in manifests : m.start < start
  /\ StartBuild(start, SplitEnd)
  /\ UNCHANGED <<config, manifests, folds>>

BuildStep == BuilderNext /\ UNCHANGED <<config, manifests, folds>>

Sources == UNION {ToSet(build.decisions[i].sources) : i \in DOMAIN build.decisions}

\* EpisodeManifest: an episode of no duration, or of no source, has none.
Declare(split, lineage, provenance) ==
  /\ build.at = "built"
  /\ build.start < build.end /\ Sources # {}
  /\ manifests' = manifests \cup
       {[start |-> build.start, end |-> build.end, split |-> split, lineage |-> lineage,
         provenance |-> provenance, sources |-> Sources,
         decisions |-> {build.decisions[i].time : i \in DOMAIN build.decisions}]}
  /\ build' = NoBuild
  /\ UNCHANGED <<log, config, folds>>

NoManifest ==
  /\ build.at = "built"
  /\ build.start = build.end \/ Sources = {}
  /\ build' = NoBuild
  /\ UNCHANGED <<log, config, manifests, folds>>

Split ==
  /\ build.at = "idle"
  /\ folds' = IF Accepts(manifests, config) THEN Folds(manifests, config) ELSE <<>>
  /\ UNCHANGED <<builderVars, config, manifests>>

\* A historical manifest's declared split is not consulted; a synthetic one's
\* says where it is attached.
Next ==
  \/ \E start \in Starts : BuildEpisode(start)
  \/ BuildStep
  \/ \E lineage \in Lineages :
       \/ Declare("test", lineage, "historical")
       \/ \E split \in {"train", "validation", "test"} : Declare(split, lineage, "synthetic")
  \/ NoManifest
  \/ Split

Spec == Init /\ [][Next]_vars

-----------------------------------------------------------------------------
(* Properties                                                              *)

\* What a model is tested or validated on has left no trace in what it was
\* trained on: of two partitions of a fold no source record, no lineage and no
\* instant is in both, every decision of the later is after those of the
\* earlier, and no synthetic episode is tested on.  Two synthetic episodes
\* between the same historical ones may be in any order
\* (WalkForwardSplitter.split on what EpisodeBuilder.build built).
NothingLeaks ==
  \A k \in DOMAIN folds : \A i, j \in DOMAIN Partitions : i < j =>
    \A a \in ToSet(folds[k][Partitions[i]]), b \in ToSet(folds[k][Partitions[j]]) :
      /\ a.sources \cap b.sources = {} /\ a.lineage # b.lineage
      /\ \/ {a.provenance, b.provenance} = {"synthetic"}
         \/ \A t \in a.decisions, u \in b.decisions : t < u
      /\ a.end <= b.start \/ b.end <= a.start
      /\ j = 3 => b.provenance = "historical"

\* Later episodes never change an earlier fold, its holdout or its training
\* set: what was measured stays what it was measured on
\* (WalkForwardSplitter._window, _attach_augmentation).
FoldsOnlyGrow ==
  [][folds' # <<>> => IsPrefix(folds, folds')]_vars
=============================================================================
