--------------------------- MODULE ArtifactFiles ----------------------------
(***************************************************************************)
(* One checkpoint directory: retraining jobs and the CI pin write it, one  *)
(* at a time, the session's bind and the benchmark read it, at any time.   *)
(* It has two files of the checkpoint, weights and manifest, each replaced *)
(* by renaming a temporary file, and the ops_lineage.json sidecar that     *)
(* tells bind-model what to expect, written in place.  A writer may fail   *)
(* or its process may die between any two of its file operations.          *)
(*                                                                         *)
(* Weights are told apart by what made them: the rows of the batch and how *)
(* often each network was optimised.  A hash is its content: no two        *)
(* contents have one SHA-256.                                              *)
(***************************************************************************)
EXTENDS TrainingData

CONSTANTS
  PaperRows, HistoricalRows,   \* what an export and a pin may hold
  Environments,  \* assumption hashes of training jobs
  CiEnvironment, \* CI_ENVIRONMENT_HASH, none of them
  Readers,
  None, Torn,    \* no file; a file cut short
  MaxSteps, MaxJobs   \* bounds: steps of a job, writers in all

ASSUME ListsAssumption == PaperRows \cup HistoricalRows \subseteq RowIds
ASSUME CiAssumption == CiEnvironment \notin Environments
ASSUME JobsAssumption == MaxSteps \in Nat /\ MaxJobs \in Nat

VARIABLES
  weightsFile, manifestFile,   \* weights.safetensors, manifest.json
  weightsTemp, manifestTemp,   \* their temporary files
  sidecar,                     \* ops_lineage.json
  job,                         \* the writer
  jobs,                        \* how many writers there were
  results,                     \* TrainJobResults
  reader,                      \* the readers
  offered                      \* history: every checkpoint a save began

files == <<weightsFile, manifestFile, weightsTemp, manifestTemp>>
vars == <<files, sidecar, job, jobs, results, reader, offered>>

-----------------------------------------------------------------------------
(* Weights, lineage, and what the directory says                           *)

Networks == 1 .. 4   \* value, q1, q2, actor, in the order step optimises them
Untrained == [n \in Networks |-> 0]

\* The tiny deterministic actor of write_ci_pinned_checkpoint.
PinWeights == [rows |-> NoRows, updates |-> Untrained]
PinLineage == [mix |-> Mix({}, {}), environment |-> CiEnvironment]

\* What makes a checkpoint: CheckpointManifest and the weights it hashes.
Checkpoint(lineage, step, weights) ==
  [lineage |-> lineage, step |-> step, weights |-> weights]

Weights == [rows : [RowIds -> Nat], updates : [Networks -> Nat]]
Lineages == [mix : {Mix(paper, historical) : paper \in SUBSET RowIds,
                                             historical \in SUBSET RowIds},
             environment : Environments \cup {CiEnvironment}]
Checkpoints == [lineage : Lineages, step : Nat, weights : Weights]

ASSUME NoneAssumption == None \notin Weights \cup Checkpoints

\* CheckpointStore.load by whoever expects the manifest's lineage.
Readable ==
  IF weightsFile # None /\ manifestFile # None /\ manifestFile.weights = weightsFile
  THEN manifestFile ELSE None

NoJob == [at |-> "idle", lineage |-> PinLineage, step |-> 0, done |-> 0,
          network |-> 1, weights |-> PinWeights, hash |-> None]
NoReader == [at |-> "idle", lineage |-> PinLineage, claim |-> None,
             manifest |-> None, loaded |-> None, raced |-> FALSE]

ReaderSteps == {"idle", "manifest", "hash", "load", "loaded"}
JobSteps == {"idle", "train", "save", "hash", "manifest temp", "replace weights",
             "replace manifest", "open sidecar", "write sidecar"}
Saving == job.at \in {"hash", "manifest temp", "replace weights", "replace manifest"}

Init ==
  /\ weightsFile = None /\ manifestFile = None
  /\ weightsTemp = None /\ manifestTemp = None /\ sidecar = None
  /\ job = NoJob /\ jobs = 0 /\ results = {}
  /\ reader = [r \in Readers |-> NoReader] /\ offered = {}

-----------------------------------------------------------------------------
(* run_offline_iql_train                                                   *)

\* A job whose mix or batch is refused ends before it has done anything.
StartTraining(paper, historical, environment, steps) ==
  LET mix == Mix(paper, historical)
  IN  /\ job.at = "idle" /\ jobs < MaxJobs
      /\ ~MixRefused(paper, historical) /\ Encodes(mix)
      /\ jobs' = jobs + 1
      /\ job' = [NoJob EXCEPT !.at = "train", !.step = steps,
                   !.lineage = [mix |-> mix, environment |-> environment],
                   !.weights = [rows |-> Accepted(mix), updates |-> Untrained]]
      /\ UNCHANGED <<files, sidecar, results, reader, offered>>

\* IQLTrainer.step, network by network; the actor's ends the step, and the
\* last step ends the training.
Optimise ==
  LET ends == job.network = 4
  IN  /\ job.at = "train"
      /\ job' = [job EXCEPT
                   !.weights.updates[job.network] = @ + 1,
                   !.network = IF ends THEN 1 ELSE @ + 1,
                   !.done = IF ends THEN @ + 1 ELSE @,
                   !.at = IF ends /\ job.done + 1 = job.step THEN "save" ELSE "train"]
      /\ UNCHANGED <<files, sidecar, jobs, results, reader, offered>>

\* A loss, a gradient or its norm is not finite: the networks before this one
\* are already ahead, and the job ends without a save.
TrainingFails ==
  /\ job.at = "train"
  /\ job' = NoJob
  /\ UNCHANGED <<files, sidecar, jobs, results, reader, offered>>

\* ensure_ci_pinned_artifact finds a file missing: write_ci_pinned_checkpoint.
StartPin ==
  /\ job.at = "idle" /\ jobs < MaxJobs
  /\ weightsFile = None \/ manifestFile = None
  /\ jobs' = jobs + 1
  /\ job' = [NoJob EXCEPT !.at = "save"]
  /\ UNCHANGED <<files, sidecar, results, reader, offered>>

\* ensure_ci_pinned_artifact finds both files and no sidecar.
RebuildSidecar ==
  /\ job.at = "idle" /\ jobs < MaxJobs
  /\ weightsFile # None /\ manifestFile # None /\ sidecar = None
  /\ jobs' = jobs + 1
  /\ job' = [NoJob EXCEPT !.at = "open sidecar", !.hash = weightsFile]
  /\ UNCHANGED <<files, sidecar, results, reader, offered>>

-----------------------------------------------------------------------------
(* CheckpointStore.save, one file operation at a time                      *)

SaveWeightsTemp ==
  /\ job.at = "save"
  /\ weightsTemp' = job.weights
  /\ offered' = offered \cup {Checkpoint(job.lineage, job.step, job.weights)}
  /\ job' = [job EXCEPT !.at = "hash"]
  /\ UNCHANGED <<weightsFile, manifestFile, manifestTemp, sidecar, jobs, results, reader>>

\* Mutant of HashTemp: the published weights are hashed, if there are any.
HashPublished ==
  /\ job.at = "hash"
  /\ job' = [job EXCEPT !.at = "manifest temp",
               !.hash = IF weightsFile = None THEN weightsTemp ELSE weightsFile]
  /\ UNCHANGED <<files, sidecar, jobs, results, reader, offered>>

HashTemp ==
  /\ job.at = "hash"
  /\ job' = [job EXCEPT !.at = "manifest temp", !.hash = weightsTemp]
  /\ UNCHANGED <<files, sidecar, jobs, results, reader, offered>>

SaveManifestTemp ==
  /\ job.at = "manifest temp"
  /\ manifestTemp' = Checkpoint(job.lineage, job.step, job.hash)
  /\ job' = [job EXCEPT !.at = "replace weights"]
  /\ UNCHANGED <<weightsFile, manifestFile, weightsTemp, sidecar, jobs, results, reader, offered>>

\* A reader between its check and its load gets these weights unchecked.
ReplaceWeights ==
  /\ job.at = "replace weights"
  /\ weightsFile' = weightsTemp /\ weightsTemp' = None
  /\ job' = [job EXCEPT !.at = "replace manifest"]
  /\ reader' = [r \in Readers |->
                  [reader[r] EXCEPT !.raced = @ \/ reader[r].at = "load"]]
  /\ UNCHANGED <<manifestFile, manifestTemp, sidecar, jobs, results, offered>>

\* The second rename ends the save: a training job returns its result, the pin
\* goes on to its sidecar.
ReplaceManifest ==
  /\ job.at = "replace manifest"
  /\ manifestFile' = manifestTemp /\ manifestTemp' = None
  /\ \/ /\ job.lineage # PinLineage
        /\ results' = results \cup {Checkpoint(job.lineage, job.step, job.hash)}
        /\ job' = NoJob
     \/ /\ job.lineage = PinLineage
        /\ results' = results
        /\ job' = [job EXCEPT !.at = "open sidecar"]
  /\ UNCHANGED <<weightsFile, weightsTemp, sidecar, jobs, reader, offered>>

\* An operation of the save raises: the temporary files are removed.
SaveFails ==
  /\ Saving \/ job.at = "save"
  /\ weightsTemp' = None /\ manifestTemp' = None
  /\ job' = NoJob
  /\ UNCHANGED <<weightsFile, manifestFile, sidecar, jobs, results, reader, offered>>

\* The writer's process dies, or its save refuses before it has begun: the
\* files are what they are.
Crash ==
  /\ job.at # "idle"
  /\ job' = NoJob
  /\ UNCHANGED <<files, sidecar, jobs, results, reader, offered>>

-----------------------------------------------------------------------------
(* The sidecar                                                             *)

Sidecar(lineage, hash, compatible) ==
  [lineage |-> lineage, hash |-> hash, compatible |-> compatible]

\* _write_ops_lineage: write_text empties the file and then fills it.
OpenSidecar ==
  /\ job.at = "open sidecar"
  /\ sidecar' = Torn
  /\ job' = [job EXCEPT !.at = "write sidecar"]
  /\ UNCHANGED <<files, jobs, results, reader, offered>>

WriteSidecar ==
  /\ job.at = "write sidecar"
  /\ sidecar' = Sidecar(job.lineage, job.hash, TRUE)
  /\ job' = NoJob
  /\ UNCHANGED <<files, jobs, results, reader, offered>>

\* The sidecar of a trained directory is written by hand, from the result of
\* its job; its schema versions may be none the session can drive.
OperatorSidecar(result, compatible) ==
  /\ job.at = "idle"
  /\ sidecar' = Sidecar(result.lineage, result.weights, compatible)
  /\ UNCHANGED <<files, job, jobs, results, reader, offered>>

-----------------------------------------------------------------------------
(* CheckpointStore.load, one file operation at a time                      *)

Expect(r, lineage, claim) ==
  reader' = [reader EXCEPT ![r] = [NoReader EXCEPT
               !.at = "manifest", !.lineage = lineage, !.claim = claim]]

\* load_ops_lineage and assert_ops_compatible.
LineageLoads == sidecar \notin {None, Torn}
OpsCompatible == sidecar.compatible

\* bind-model.
BeginBind(r) ==
  /\ reader[r].at = "idle"
  /\ LineageLoads /\ OpsCompatible
  /\ Expect(r, sidecar.lineage, sidecar.hash)
  /\ UNCHANGED <<files, sidecar, job, jobs, results, offered>>

\* run_harness_benchmark on the result of a job.
BeginBenchmark(r, result) ==
  /\ reader[r].at = "idle"
  /\ Expect(r, result.lineage, result.weights)
  /\ UNCHANGED <<files, sidecar, job, jobs, results, offered>>

\* Mutant of ReadManifest: any complete manifest will do.
ReadManifestAny(r) ==
  /\ reader[r].at = "manifest"
  /\ manifestFile # None
  /\ reader' = [reader EXCEPT ![r].at = "hash", ![r].manifest = manifestFile]
  /\ UNCHANGED <<files, sidecar, job, jobs, results, offered>>

ReadManifest(r) ==
  /\ reader[r].at = "manifest"
  /\ manifestFile # None /\ manifestFile.lineage = reader[r].lineage
  /\ reader' = [reader EXCEPT ![r].at = "hash", ![r].manifest = manifestFile]
  /\ UNCHANGED <<files, sidecar, job, jobs, results, offered>>

CheckHash(r) ==
  /\ reader[r].at = "hash"
  /\ weightsFile = reader[r].manifest.weights
  /\ reader' = [reader EXCEPT ![r].at = "load"]
  /\ UNCHANGED <<files, sidecar, job, jobs, results, offered>>

\* The file is read a second time.
LoadWeights(r) ==
  /\ reader[r].at = "load"
  /\ reader' = [reader EXCEPT ![r].at = "loaded", ![r].loaded = weightsFile]
  /\ UNCHANGED <<files, sidecar, job, jobs, results, offered>>

\* CheckpointError: no manifest, another lineage, or another hash.
LoadRefused(r) ==
  /\ \/ /\ reader[r].at = "manifest"
        /\ manifestFile = None \/ manifestFile.lineage # reader[r].lineage
     \/ /\ reader[r].at = "hash"
        /\ weightsFile # reader[r].manifest.weights
  /\ reader' = [reader EXCEPT ![r] = NoReader]
  /\ UNCHANGED <<files, sidecar, job, jobs, results, offered>>

\* The model is done with: bound again, or the benchmark is over.
Release(r) ==
  /\ reader[r].at = "loaded"
  /\ reader' = [reader EXCEPT ![r] = NoReader]
  /\ UNCHANGED <<files, sidecar, job, jobs, results, offered>>

Next ==
  \/ \E paper \in SUBSET PaperRows, historical \in SUBSET HistoricalRows,
        environment \in Environments, steps \in 1 .. MaxSteps :
       StartTraining(paper, historical, environment, steps)
  \/ Optimise
  \/ TrainingFails
  \/ StartPin
  \/ RebuildSidecar
  \/ SaveWeightsTemp
  \/ HashTemp
  \/ SaveManifestTemp
  \/ ReplaceWeights
  \/ ReplaceManifest
  \/ SaveFails
  \/ Crash
  \/ OpenSidecar
  \/ WriteSidecar
  \/ \E result \in results, compatible \in BOOLEAN : OperatorSidecar(result, compatible)
  \/ \E r \in Readers :
       \/ BeginBind(r)
       \/ \E result \in results : BeginBenchmark(r, result)
       \/ ReadManifest(r)
       \/ CheckHash(r)
       \/ LoadWeights(r)
       \/ LoadRefused(r)
       \/ Release(r)

Spec == Init /\ [][Next]_vars

-----------------------------------------------------------------------------
(* Properties                                                              *)

\* Every variable has its type: a file holds what its writer writes into it or
\* is missing, only the sidecar may be cut short, and a sidecar always has a
\* hash to bind by.
FilesTypeOK ==
  /\ weightsFile \in Weights \cup {None} /\ weightsTemp \in Weights \cup {None}
  /\ manifestFile \in Checkpoints \cup {None} /\ manifestTemp \in Checkpoints \cup {None}
  /\ sidecar \in [lineage : Lineages, hash : Weights, compatible : BOOLEAN] \cup {None, Torn}
  /\ job \in [at : JobSteps, lineage : Lineages, step : Nat, done : Nat,
              network : Networks, weights : Weights, hash : Weights \cup {None}]
  /\ jobs \in Nat /\ results \subseteq Checkpoints /\ offered \subseteq Checkpoints
  /\ reader \in [Readers -> [at : ReaderSteps, lineage : Lineages,
                             claim : Weights \cup {None},
                             manifest : Checkpoints \cup {None},
                             loaded : Weights \cup {None}, raced : BOOLEAN]]

\* What a checkpoint's manifest says is how its weights were made: the CI
\* pin's are the pin's, a job's are trained on the rows its manifest lists as
\* trainable, each as often, and all four networks for the steps it says.
MadeAsSaid(c) ==
  c.weights = IF c.lineage = PinLineage THEN PinWeights
              ELSE [rows |-> c.lineage.mix.trainable,
                    updates |-> [n \in Networks |-> c.step]]

\* Weights that load were saved, as a whole and by one save, under the lineage
\* their reader expects and were made as their manifest says: no crash, failed
\* save, other job or half trained network comes between.  The exception is a
\* save that replaces the file between the reader's check and its second read
\* (CheckpointStore.save, CheckpointStore.load, run_offline_iql_train).
WeightsHaveLineage ==
  \A r \in Readers :
    LET c == Checkpoint(reader[r].lineage, reader[r].manifest.step, reader[r].loaded)
    IN reader[r].at = "loaded" /\ ~reader[r].raced => c \in offered /\ MadeAsSaid(c)

\* The directory is a register of whole checkpoints, whatever fails or dies
\* (CheckpointStore.save against CheckpointRegister).
Register == INSTANCE CheckpointRegister WITH
  pending <- IF Saving THEN Checkpoint(job.lineage, job.step, job.weights) ELSE None,
  readable <- Readable
CheckpointRefinement == Register!RegisterSpec
=============================================================================
