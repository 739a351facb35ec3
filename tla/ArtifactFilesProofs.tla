------------------------ MODULE ArtifactFilesProofs ------------------------
(***************************************************************************)
(* Proofs about ArtifactFiles, for any rows, environments, readers and     *)
(* numbers of steps and jobs: its types, that weights have the lineage     *)
(* their manifest says, and that the directory implements                  *)
(* CheckpointRegister.                                                     *)
(***************************************************************************)
EXTENDS ArtifactFiles, TLAPS

Pending == Checkpoint(job.lineage, job.step, job.weights)

\* Every save that began offers weights made as their manifest says.
OfferedMade == \A c \in offered : MadeAsSaid(c)

\* Training has optimised the networks before job.network once more than the
\* others, on the rows of the manifest.
TrainingOnTrack ==
  job.at = "train" =>
    /\ job.lineage # PinLineage /\ job.done < job.step
    /\ job.weights.rows = job.lineage.mix.trainable
    /\ job.weights.updates =
         [n \in Networks |-> IF n < job.network THEN job.done + 1 ELSE job.done]

SaveOnTrack ==
  /\ job.at = "save" => MadeAsSaid(Pending)
  /\ Saving => Pending \in offered

\* The temporary files are the save's own, and from the second rename on so is
\* the published file of weights.
FilesOnTrack ==
  /\ manifestFile \in offered \cup {None}
  /\ job.at = "hash" => weightsTemp = job.weights
  /\ job.at \in {"manifest temp", "replace weights"} =>
       job.hash = job.weights /\ weightsTemp = job.weights
  /\ job.at \in {"replace weights", "replace manifest"} => manifestTemp = Pending
  /\ job.at = "replace manifest" => job.hash = job.weights /\ weightsFile = job.weights
  /\ job.at \in {"open sidecar", "write sidecar"} => job.hash # None

\* What a reader holds is the checkpoint it expects, whole unless it raced.
ReadersOnTrack ==
  \A r \in Readers :
    /\ reader[r].at \in {"hash", "load", "loaded"} =>
         reader[r].manifest \in offered /\ reader[r].manifest.lineage = reader[r].lineage
    /\ reader[r].at = "load" /\ ~reader[r].raced => weightsFile = reader[r].manifest.weights
    /\ reader[r].at = "loaded" /\ ~reader[r].raced =>
         reader[r].loaded = reader[r].manifest.weights

OnTrack == OfferedMade /\ TrainingOnTrack /\ SaveOnTrack /\ FilesOnTrack /\ ReadersOnTrack

-----------------------------------------------------------------------------
(* Lineages, weights and checkpoints                                       *)

\* The rows a mix trains on are counted by a natural number, and are the ones
\* the data set accepts.
LEMMA AcceptedIsTrainable ==
  ASSUME NEW paper \in SUBSET RowIds, NEW historical \in SUBSET RowIds
  PROVE  /\ Mix(paper, historical).trainable \in [RowIds -> Nat]
         /\ Accepted(Mix(paper, historical)) = Mix(paper, historical).trainable
BY DEF Mix, Accepted, Occurrences

\* A job's lineage is one, and never the CI pin's.
LEMMA MixHasLineage ==
  ASSUME NEW paper \in SUBSET RowIds, NEW historical \in SUBSET RowIds,
         NEW environment \in Environments
  PROVE  /\ [mix |-> Mix(paper, historical), environment |-> environment] \in Lineages
         /\ [mix |-> Mix(paper, historical), environment |-> environment] # PinLineage
<1>1. [mix |-> Mix(paper, historical), environment |-> environment] \in Lineages
  BY DEF Lineages
<1>2. environment # CiEnvironment
  BY CiAssumption
<1> QED BY <1>1, <1>2 DEF PinLineage

LEMMA PinTypes == PinLineage \in Lineages /\ PinWeights \in Weights
<1>1. PinLineage \in Lineages
  BY DEF PinLineage, Lineages
<1>2. PinWeights \in Weights
  BY DEF PinWeights, Weights, NoRows, Untrained, Networks
<1> QED BY <1>1, <1>2

LEMMA CheckpointTypes ==
  ASSUME NEW lineage \in Lineages, NEW step \in Nat, NEW weights \in Weights
  PROVE  Checkpoint(lineage, step, weights) \in Checkpoints
BY DEF Checkpoint, Checkpoints

LEMMA CheckpointFields ==
  ASSUME NEW c \in Checkpoints
  PROVE  c.lineage \in Lineages /\ c.step \in Nat /\ c.weights \in Weights
         /\ c = Checkpoint(c.lineage, c.step, c.weights)
BY DEF Checkpoint, Checkpoints

LEMMA SidecarTypes ==
  ASSUME NEW lineage \in Lineages, NEW hash \in Weights, NEW compatible \in BOOLEAN
  PROVE  Sidecar(lineage, hash, compatible)
           \in [lineage : Lineages, hash : Weights, compatible : BOOLEAN]
BY DEF Sidecar

-----------------------------------------------------------------------------
(* Types                                                                   *)

Jobs == [at : JobSteps, lineage : Lineages, step : Nat, done : Nat,
         network : Networks, weights : Weights, hash : Weights \cup {None}]
ReaderStates == [at : ReaderSteps, lineage : Lineages, claim : Weights \cup {None},
                 manifest : Checkpoints \cup {None}, loaded : Weights \cup {None},
                 raced : BOOLEAN]
Sidecars == [lineage : Lineages, hash : Weights, compatible : BOOLEAN] \cup {None, Torn}

LEMMA IdleTypes == NoJob \in Jobs /\ NoReader \in ReaderStates
<1>1. NoJob \in Jobs
  BY PinTypes DEF NoJob, Jobs, JobSteps, Networks
<1>2. NoReader \in ReaderStates
  BY PinTypes DEF NoReader, ReaderStates, ReaderSteps
<1> QED BY <1>1, <1>2

LEMMA NoJobIsIdle == NoJob.at = "idle"
BY DEF NoJob

LEMMA TypesInit == Init => FilesTypeOK
<1> SUFFICES ASSUME Init PROVE FilesTypeOK
  OBVIOUS
<1>1. job \in Jobs /\ reader \in [Readers -> ReaderStates]
  BY IdleTypes DEF Init
<1> QED BY <1>1 DEF Init, FilesTypeOK, Jobs, ReaderStates

\* The writer keeps its type ...
LEMMA JobTypes ==
  ASSUME FilesTypeOK, SaveOnTrack, FilesOnTrack, [Next]_vars
  PROVE  job' \in Jobs
<1> DEFINE Others == UNCHANGED job
<1> USE DEF files
<1>0. job \in Jobs /\ weightsTemp \in Weights \cup {None} /\ weightsFile \in Weights \cup {None}
  BY DEF FilesTypeOK, Jobs
<1>1. ASSUME NEW paper \in SUBSET PaperRows, NEW historical \in SUBSET HistoricalRows,
             NEW environment \in Environments, NEW steps \in 1 .. MaxSteps,
             StartTraining(paper, historical, environment, steps)
      PROVE  job' \in Jobs
  <2> DEFINE mix == Mix(paper, historical)
             lineage == [mix |-> mix, environment |-> environment]
             weights == [rows |-> Accepted(mix), updates |-> Untrained]
  <2>1. paper \in SUBSET RowIds /\ historical \in SUBSET RowIds
    BY ListsAssumption
  <2>2. lineage \in Lineages
    BY <2>1, MixHasLineage
  <2>3. weights \in Weights
    <3>1. Accepted(mix) \in [RowIds -> Nat]
      BY <2>1, AcceptedIsTrainable
    <3> QED BY <3>1 DEF Weights, Untrained, Networks
  <2>4. steps \in Nat
    BY JobsAssumption
  <2>5. job' = [NoJob EXCEPT !.at = "train", !.step = steps, !.lineage = lineage,
                             !.weights = weights]
    BY <1>1 DEF StartTraining
  <2> HIDE DEF lineage, weights
  <2> QED BY <2>2, <2>3, <2>4, <2>5, IdleTypes DEF Jobs, JobSteps
<1>2. CASE Optimise
  <2>1. job.weights \in Weights /\ job.network \in Networks /\ job.done \in Nat
    BY <1>0 DEF Jobs
  <2> DEFINE weights == [job.weights EXCEPT !.updates[job.network] = @ + 1]
             network == IF job.network = 4 THEN 1 ELSE job.network + 1
             done == IF job.network = 4 THEN job.done + 1 ELSE job.done
             at == IF job.network = 4 /\ job.done + 1 = job.step THEN "save" ELSE "train"
  <2>2. weights \in Weights
    BY <2>1 DEF Weights
  <2>3. network \in Networks /\ done \in Nat /\ at \in JobSteps
    BY <2>1 DEF Networks, JobSteps
  <2>4. job' = [job EXCEPT !.weights = weights, !.network = network, !.done = done, !.at = at]
    BY <1>2, <1>0 DEF Optimise, Jobs
  <2> HIDE DEF weights, network, done, at
  <2> QED BY <1>0, <2>2, <2>3, <2>4 DEF Jobs
<1>3. CASE TrainingFails \/ SaveFails \/ Crash \/ WriteSidecar
  BY <1>3, IdleTypes DEF TrainingFails, SaveFails, Crash, WriteSidecar
<1>4. CASE StartPin
  BY <1>4, IdleTypes DEF StartPin, Jobs, JobSteps
<1>5. CASE RebuildSidecar
  BY <1>5, <1>0, IdleTypes DEF RebuildSidecar, Jobs, JobSteps
<1>6. CASE SaveWeightsTemp \/ SaveManifestTemp \/ ReplaceWeights \/ OpenSidecar
  BY <1>6, <1>0 DEF SaveWeightsTemp, SaveManifestTemp, ReplaceWeights, OpenSidecar, Jobs, JobSteps
<1>7. CASE HashTemp
  BY <1>7, <1>0 DEF HashTemp, Jobs, JobSteps
<1>8. CASE ReplaceManifest
  BY <1>8, <1>0, IdleTypes DEF ReplaceManifest, Jobs, JobSteps
<1>9. ASSUME NEW result \in results, NEW compatible \in BOOLEAN,
             OperatorSidecar(result, compatible)
      PROVE  Others
  BY <1>9 DEF OperatorSidecar
<1>10. ASSUME NEW r \in Readers,
              \/ BeginBind(r) \/ \E result \in results : BeginBenchmark(r, result)
              \/ ReadManifest(r) \/ CheckHash(r) \/ LoadWeights(r)
              \/ LoadRefused(r) \/ Release(r)
       PROVE  Others
  BY <1>10 DEF BeginBind, BeginBenchmark, ReadManifest, CheckHash, LoadWeights,
               LoadRefused, Release
<1>11. CASE UNCHANGED vars
  BY <1>11, <1>0 DEF vars
<1>12. Others => job' \in Jobs
  BY <1>0
<1> HIDE DEF Others, Jobs
<1> QED BY <1>1, <1>2, <1>3, <1>4, <1>5, <1>6, <1>7, <1>8, <1>9, <1>10, <1>11, <1>12 DEF Next

\* ... and so do the files, the results and the history ...
LEMMA FileTypes ==
  ASSUME FilesTypeOK, FilesOnTrack, [Next]_vars
  PROVE  /\ weightsFile' \in Weights \cup {None} /\ weightsTemp' \in Weights \cup {None}
         /\ manifestFile' \in Checkpoints \cup {None}
         /\ manifestTemp' \in Checkpoints \cup {None}
         /\ sidecar' \in Sidecars
         /\ jobs' \in Nat /\ results' \subseteq Checkpoints /\ offered' \subseteq Checkpoints
<1> DEFINE Typed == /\ weightsFile \in Weights \cup {None} /\ weightsTemp \in Weights \cup {None}
                    /\ manifestFile \in Checkpoints \cup {None}
                    /\ manifestTemp \in Checkpoints \cup {None}
                    /\ sidecar \in Sidecars
                    /\ jobs \in Nat /\ results \subseteq Checkpoints /\ offered \subseteq Checkpoints
           Same == UNCHANGED <<files, sidecar, results, offered>>
<1> SUFFICES Typed'
  BY DEF Sidecars
<1> USE DEF files
<1>0. /\ Typed
      /\ job.lineage \in Lineages /\ job.step \in Nat /\ job.weights \in Weights
      /\ job.hash \in Weights \cup {None}
  BY DEF FilesTypeOK, Sidecars
<1>1. ASSUME jobs' = jobs + 1 \/ jobs' = jobs, Same PROVE Typed'
  BY <1>0, <1>1
<1>2. ASSUME NEW paper \in SUBSET PaperRows, NEW historical \in SUBSET HistoricalRows,
             NEW environment \in Environments, NEW steps \in 1 .. MaxSteps,
             StartTraining(paper, historical, environment, steps)
      PROVE  Typed'
  <2>1. jobs' = jobs + 1 /\ Same
    BY <1>2 DEF StartTraining
  <2> HIDE DEF Typed, Same
  <2> QED BY <1>1, <2>1
<1>3. CASE Optimise \/ TrainingFails \/ StartPin \/ RebuildSidecar \/ HashTemp \/ Crash
  <2>1. (jobs' = jobs + 1 \/ jobs' = jobs) /\ Same
    BY <1>3 DEF Optimise, TrainingFails, StartPin, RebuildSidecar, HashTemp, Crash
  <2> HIDE DEF Typed, Same
  <2> QED BY <1>1, <2>1
<1>4. CASE SaveWeightsTemp
  <2>1. Pending \in Checkpoints
    BY <1>0, CheckpointTypes DEF Pending
  <2> QED BY <1>0, <1>4, <2>1 DEF SaveWeightsTemp, Pending
<1>5. CASE SaveManifestTemp
  <2>1. job.hash \in Weights
    BY <1>0, <1>5 DEF SaveManifestTemp, FilesOnTrack
  <2>2. Checkpoint(job.lineage, job.step, job.hash) \in Checkpoints
    BY <1>0, <2>1, CheckpointTypes
  <2> QED BY <1>0, <1>5, <2>2 DEF SaveManifestTemp
<1>6. CASE ReplaceWeights \/ SaveFails
  BY <1>0, <1>6 DEF ReplaceWeights, SaveFails
<1>7. CASE ReplaceManifest
  <2>1. job.hash \in Weights
    BY <1>0, <1>7 DEF ReplaceManifest, FilesOnTrack
  <2>2. Checkpoint(job.lineage, job.step, job.hash) \in Checkpoints
    BY <1>0, <2>1, CheckpointTypes
  <2> QED BY <1>0, <1>7, <2>2 DEF ReplaceManifest
<1>8. CASE OpenSidecar
  BY <1>0, <1>8 DEF OpenSidecar, Sidecars
<1>9. CASE WriteSidecar
  <2>1. job.hash \in Weights
    BY <1>0, <1>9 DEF WriteSidecar, FilesOnTrack
  <2>2. Sidecar(job.lineage, job.hash, TRUE) \in Sidecars
    BY <1>0, <2>1, SidecarTypes DEF Sidecars
  <2> QED BY <1>0, <1>9, <2>2 DEF WriteSidecar
<1>10. ASSUME NEW result \in results, NEW compatible \in BOOLEAN,
              OperatorSidecar(result, compatible)
       PROVE  Typed'
  <2>1. Sidecar(result.lineage, result.weights, compatible) \in Sidecars
    BY <1>0, SidecarTypes, CheckpointFields DEF Sidecars
  <2> QED BY <1>0, <1>10, <2>1 DEF OperatorSidecar
<1>11. ASSUME NEW r \in Readers,
              \/ BeginBind(r) \/ \E result \in results : BeginBenchmark(r, result)
              \/ ReadManifest(r) \/ CheckHash(r) \/ LoadWeights(r)
              \/ LoadRefused(r) \/ Release(r)
       PROVE  Typed'
  <2>1. jobs' = jobs /\ Same
    BY <1>11 DEF BeginBind, BeginBenchmark, ReadManifest, CheckHash, LoadWeights,
                 LoadRefused, Release
  <2> HIDE DEF Typed, Same
  <2> QED BY <1>1, <2>1
<1>12. CASE UNCHANGED vars
  <2>1. jobs' = jobs /\ Same
    BY <1>12 DEF vars
  <2> HIDE DEF Typed, Same
  <2> QED BY <1>1, <2>1
<1> HIDE DEF Typed
<1> QED BY <1>2, <1>3, <1>4, <1>5, <1>6, <1>7, <1>8, <1>9, <1>10, <1>11, <1>12 DEF Next

\* ... and the readers.
LEMMA ReaderTypes ==
  ASSUME FilesTypeOK, [Next]_vars
  PROVE  reader' \in [Readers -> ReaderStates]
<1> USE DEF files
<1>0. /\ reader \in [Readers -> ReaderStates]
      /\ weightsFile \in Weights \cup {None} /\ manifestFile \in Checkpoints \cup {None}
      /\ sidecar \in Sidecars /\ results \subseteq Checkpoints
  BY DEF FilesTypeOK, ReaderStates, Sidecars
<1>1. ASSUME NEW r \in Readers, NEW lineage \in Lineages, NEW claim \in Weights,
             Expect(r, lineage, claim)
      PROVE  reader' \in [Readers -> ReaderStates]
  <2>1. [NoReader EXCEPT !.at = "manifest", !.lineage = lineage, !.claim = claim] \in ReaderStates
    BY IdleTypes DEF ReaderStates, ReaderSteps
  <2> HIDE DEF ReaderStates
  <2> QED BY <1>0, <1>1, <2>1 DEF Expect
<1>2. ASSUME NEW r \in Readers, BeginBind(r)
      PROVE  reader' \in [Readers -> ReaderStates]
  BY <1>0, <1>1, <1>2 DEF BeginBind, LineageLoads, Sidecars
<1>3. ASSUME NEW r \in Readers, NEW result \in results, BeginBenchmark(r, result)
      PROVE  reader' \in [Readers -> ReaderStates]
  BY <1>0, <1>1, <1>3, CheckpointFields DEF BeginBenchmark
<1>4. ASSUME NEW r \in Readers, ReadManifest(r)
      PROVE  reader' \in [Readers -> ReaderStates]
  <2>1. reader' = [reader EXCEPT ![r] = [reader[r] EXCEPT !.at = "hash", !.manifest = manifestFile]]
    BY <1>0, <1>4 DEF ReadManifest, ReaderStates
  <2>2. [reader[r] EXCEPT !.at = "hash", !.manifest = manifestFile] \in ReaderStates
    BY <1>0 DEF ReaderStates, ReaderSteps
  <2> HIDE DEF ReaderStates
  <2> QED BY <1>0, <2>1, <2>2
<1>5. ASSUME NEW r \in Readers, CheckHash(r)
      PROVE  reader' \in [Readers -> ReaderStates]
  <2>1. [reader[r] EXCEPT !.at = "load"] \in ReaderStates
    BY <1>0 DEF ReaderStates, ReaderSteps
  <2>2. reader' = [reader EXCEPT ![r] = [reader[r] EXCEPT !.at = "load"]]
    BY <1>0, <1>5 DEF CheckHash
  <2> HIDE DEF ReaderStates
  <2> QED BY <1>0, <2>1, <2>2
<1>6. ASSUME NEW r \in Readers, LoadWeights(r)
      PROVE  reader' \in [Readers -> ReaderStates]
  <2>1. reader' = [reader EXCEPT ![r] = [reader[r] EXCEPT !.at = "loaded", !.loaded = weightsFile]]
    BY <1>0, <1>6 DEF LoadWeights, ReaderStates
  <2>2. [reader[r] EXCEPT !.at = "loaded", !.loaded = weightsFile] \in ReaderStates
    BY <1>0 DEF ReaderStates, ReaderSteps
  <2> HIDE DEF ReaderStates
  <2> QED BY <1>0, <2>1, <2>2
<1>7. ASSUME NEW r \in Readers, LoadRefused(r) \/ Release(r)
      PROVE  reader' \in [Readers -> ReaderStates]
  <2> HIDE DEF ReaderStates
  <2> QED BY <1>0, <1>7, IdleTypes DEF LoadRefused, Release
<1>8. CASE ReplaceWeights
  <2>1. ASSUME NEW r \in Readers
        PROVE  [reader[r] EXCEPT !.raced = @ \/ reader[r].at = "load"] \in ReaderStates
    BY <1>0 DEF ReaderStates
  <2> HIDE DEF ReaderStates
  <2> QED BY <1>8, <2>1 DEF ReplaceWeights
<1>9. ASSUME NEW paper \in SUBSET PaperRows, NEW historical \in SUBSET HistoricalRows,
             NEW environment \in Environments, NEW steps \in 1 .. MaxSteps,
             StartTraining(paper, historical, environment, steps)
      PROVE  UNCHANGED reader
  BY <1>9 DEF StartTraining
<1>10. CASE Optimise \/ TrainingFails \/ StartPin \/ RebuildSidecar \/ SaveWeightsTemp \/ HashTemp
            \/ SaveManifestTemp \/ ReplaceManifest \/ SaveFails \/ Crash \/ OpenSidecar \/ WriteSidecar
  BY <1>0, <1>10 DEF Optimise, TrainingFails, StartPin, RebuildSidecar, SaveWeightsTemp, HashTemp,
               SaveManifestTemp, ReplaceManifest, SaveFails, Crash, OpenSidecar, WriteSidecar
<1>11. ASSUME NEW result \in results, NEW compatible \in BOOLEAN,
              OperatorSidecar(result, compatible)
       PROVE  UNCHANGED reader
  BY <1>11 DEF OperatorSidecar
<1>12. CASE UNCHANGED vars
  BY <1>12, <1>0 DEF vars
<1> HIDE DEF ReaderStates
<1> QED BY <1>0, <1>2, <1>3, <1>4, <1>5, <1>6, <1>7, <1>8, <1>9, <1>10, <1>11, <1>12 DEF Next

LEMMA TypesStep ==
  ASSUME FilesTypeOK, SaveOnTrack, FilesOnTrack, [Next]_vars
  PROVE  FilesTypeOK'
BY JobTypes, FileTypes, ReaderTypes DEF FilesTypeOK, Jobs, ReaderStates, Sidecars

-----------------------------------------------------------------------------
(* Which actions leave what alone                                          *)

\* A writer's other steps, the sidecar's and the readers' leave the files of
\* the checkpoint, the history and the job or its phase alone.
ReaderMoves(r) ==
  \/ BeginBind(r) \/ \E result \in results : BeginBenchmark(r, result)
  \/ ReadManifest(r) \/ CheckHash(r) \/ LoadWeights(r) \/ LoadRefused(r) \/ Release(r)

LEMMA ReadersLeaveFiles ==
  ASSUME NEW r \in Readers, ReaderMoves(r)
  PROVE  UNCHANGED <<files, job, offered>>
BY DEF ReaderMoves, BeginBind, BeginBenchmark, ReadManifest, CheckHash, LoadWeights,
       LoadRefused, Release

LEMMA OperatorLeavesFiles ==
  ASSUME NEW result, NEW compatible, OperatorSidecar(result, compatible)
  PROVE  UNCHANGED <<files, job, offered, reader>>
BY DEF OperatorSidecar

LEMMA StartingTraining ==
  ASSUME NEW paper \in SUBSET PaperRows, NEW historical \in SUBSET HistoricalRows,
         NEW environment \in Environments, NEW steps \in 1 .. MaxSteps,
         StartTraining(paper, historical, environment, steps)
  PROVE  /\ UNCHANGED <<files, offered, reader>>
         /\ job'.at = "train" /\ job'.lineage # PinLineage
         /\ job'.step = steps /\ job'.done = 0 /\ job'.network = 1
         /\ job'.weights = [rows |-> job'.lineage.mix.trainable, updates |-> Untrained]
<1> DEFINE mix == Mix(paper, historical)
           lineage == [mix |-> mix, environment |-> environment]
           weights == [rows |-> Accepted(mix), updates |-> Untrained]
<1>1. paper \in SUBSET RowIds /\ historical \in SUBSET RowIds
  BY ListsAssumption
<1>2. lineage # PinLineage
  BY <1>1, MixHasLineage
<1>3. Accepted(mix) = lineage.mix.trainable
  BY <1>1, AcceptedIsTrainable
<1>4. job' = [NoJob EXCEPT !.at = "train", !.step = steps, !.lineage = lineage,
                           !.weights = weights]
  BY DEF StartTraining
<1>5. weights = [rows |-> lineage.mix.trainable, updates |-> Untrained]
  BY <1>3
<1>6. UNCHANGED <<files, offered, reader>>
  BY DEF StartTraining
<1> HIDE DEF lineage, weights
<1> QED BY <1>2, <1>4, <1>5, <1>6 DEF NoJob

LEMMA OfferedStep ==
  ASSUME OfferedMade, SaveOnTrack, [Next]_vars
  PROVE  OfferedMade' /\ offered \subseteq offered'
<1> SUFFICES offered' = offered \/ (offered' = offered \cup {Pending} /\ MadeAsSaid(Pending))
  BY DEF OfferedMade, MadeAsSaid
<1>1. CASE SaveWeightsTemp
  BY <1>1 DEF SaveWeightsTemp, SaveOnTrack, Pending
<1>2. CASE Optimise \/ TrainingFails \/ StartPin \/ RebuildSidecar \/ HashTemp \/ SaveManifestTemp
           \/ ReplaceWeights \/ ReplaceManifest \/ SaveFails \/ Crash \/ OpenSidecar \/ WriteSidecar
  BY <1>2 DEF Optimise, TrainingFails, StartPin, RebuildSidecar, HashTemp, SaveManifestTemp,
              ReplaceWeights, ReplaceManifest, SaveFails, Crash, OpenSidecar, WriteSidecar
<1>3. CASE UNCHANGED vars
  BY <1>3 DEF vars
<1> HIDE DEF Pending, MadeAsSaid
<1> QED BY <1>1, <1>2, <1>3, StartingTraining, OperatorLeavesFiles, ReadersLeaveFiles
        DEF Next, ReaderMoves

-----------------------------------------------------------------------------
(* The job                                                                 *)

\* One step of the trainer: the networks up to the one optimised are ahead.
LEMMA OptimiseStep ==
  ASSUME FilesTypeOK, TrainingOnTrack, Optimise
  PROVE  /\ TrainingOnTrack'
         /\ job'.at = "save" => MadeAsSaid(Pending)'
         /\ job'.at \in {"train", "save"} /\ UNCHANGED <<files, offered, reader>>
<1>1. /\ job.at = "train" /\ job.lineage # PinLineage /\ job.done < job.step
      /\ job.weights = [rows |-> job.lineage.mix.trainable,
           updates |-> [n \in Networks |-> IF n < job.network THEN job.done + 1 ELSE job.done]]
      /\ job.network \in Networks /\ job.done \in Nat /\ job.step \in Nat
  BY DEF Optimise, TrainingOnTrack, FilesTypeOK, Weights
<1> DEFINE rows == job.lineage.mix.trainable
           Ahead(network, done) ==
             [n \in Networks |-> IF n < network THEN done + 1 ELSE done]
           updates == [Ahead(job.network, job.done) EXCEPT ![job.network] = @ + 1]
<1>2. job'.weights = [rows |-> rows, updates |-> updates] /\ UNCHANGED <<files, offered, reader>>
  BY <1>1 DEF Optimise, FilesTypeOK
<1>3. job'.lineage = job.lineage /\ job'.step = job.step
  BY DEF Optimise, FilesTypeOK
<1>4. CASE job.network # 4
  <2>1. updates = Ahead(job.network + 1, job.done)
    BY <1>1, <1>4 DEF Networks
  <2>2. job'.at = "train" /\ job'.network = job.network + 1 /\ job'.done = job.done
    BY <1>4 DEF Optimise, FilesTypeOK
  <2> QED BY <1>1, <1>2, <1>3, <2>1, <2>2 DEF TrainingOnTrack
<1>5. CASE job.network = 4
  <2>1. updates = [n \in Networks |-> job.done + 1] /\ updates = Ahead(1, job.done + 1)
    BY <1>1, <1>5 DEF Networks
  <2>2. /\ job'.network = 1 /\ job'.done = job.done + 1
        /\ job'.at = IF job.done + 1 = job.step THEN "save" ELSE "train"
    BY <1>5 DEF Optimise, FilesTypeOK
  <2>3. CASE job.done + 1 = job.step
    <3>1. job'.weights = [rows |-> rows, updates |-> [n \in Networks |-> job.step]]
      BY <1>2, <2>1, <2>3
    <3>2. MadeAsSaid(Pending)'
      BY <1>1, <1>3, <3>1 DEF MadeAsSaid, Pending, Checkpoint
    <3> QED BY <1>2, <2>2, <2>3, <3>2 DEF TrainingOnTrack
  <2>4. CASE job.done + 1 # job.step
    <3>1. job.done + 1 < job.step
      BY <1>1, <2>4
    <3>2. job'.at = "train"
      BY <2>2, <2>4
    <3> QED BY <1>1, <1>2, <1>3, <2>1, <2>2, <3>1, <3>2 DEF TrainingOnTrack
  <2> QED BY <2>3, <2>4
<1> QED BY <1>4, <1>5

LEMMA TrainingStep ==
  ASSUME FilesTypeOK, TrainingOnTrack, [Next]_vars
  PROVE  TrainingOnTrack'
<1>0. job \in Jobs
  BY DEF FilesTypeOK, Jobs
<1>1. ASSUME NEW paper \in SUBSET PaperRows, NEW historical \in SUBSET HistoricalRows,
             NEW environment \in Environments, NEW steps \in 1 .. MaxSteps,
             StartTraining(paper, historical, environment, steps)
      PROVE  TrainingOnTrack'
  <2>1. /\ job'.lineage # PinLineage
        /\ job'.step = steps /\ job'.done = 0 /\ job'.network = 1
        /\ job'.weights = [rows |-> job'.lineage.mix.trainable, updates |-> Untrained]
    BY <1>1, StartingTraining
  <2>2. 0 < steps
    OBVIOUS
  <2>3. Untrained = [n \in Networks |-> IF n < 1 THEN 0 + 1 ELSE 0]
    BY DEF Untrained, Networks
  <2> QED BY <2>1, <2>2, <2>3 DEF TrainingOnTrack
<1>2. CASE Optimise
  BY <1>2, OptimiseStep
<1>3. CASE TrainingFails \/ StartPin \/ RebuildSidecar \/ SaveWeightsTemp \/ HashTemp
           \/ SaveManifestTemp \/ ReplaceWeights \/ ReplaceManifest \/ SaveFails \/ Crash
           \/ OpenSidecar \/ WriteSidecar
  <2>1. CASE TrainingFails \/ SaveFails \/ Crash \/ WriteSidecar
    BY <2>1, NoJobIsIdle DEF TrainingFails, SaveFails, Crash, WriteSidecar, TrainingOnTrack
  <2>4. CASE StartPin \/ RebuildSidecar
    BY <2>4 DEF StartPin, RebuildSidecar, NoJob, TrainingOnTrack
  <2>2. CASE SaveWeightsTemp \/ HashTemp \/ SaveManifestTemp \/ ReplaceWeights \/ OpenSidecar
    BY <1>0, <2>2 DEF SaveWeightsTemp, HashTemp, SaveManifestTemp, ReplaceWeights, OpenSidecar,
                      Jobs, TrainingOnTrack
  <2>3. CASE ReplaceManifest
    BY <1>0, <2>3, NoJobIsIdle DEF ReplaceManifest, Jobs, TrainingOnTrack
  <2> HIDE DEF TrainingOnTrack
  <2> QED BY <1>3, <2>1, <2>2, <2>3, <2>4
<1>4. ASSUME UNCHANGED job PROVE TrainingOnTrack'
  BY <1>4 DEF TrainingOnTrack
<1>5. CASE UNCHANGED vars
  BY <1>4, <1>5 DEF vars
<1> HIDE DEF TrainingOnTrack
<1> QED BY <1>1, <1>2, <1>3, <1>4, <1>5, OperatorLeavesFiles, ReadersLeaveFiles
        DEF Next, ReaderMoves

\* The save writes what training or the pin ended with.
LEMMA SaveStep ==
  ASSUME FilesTypeOK, TrainingOnTrack, SaveOnTrack, [Next]_vars
  PROVE  SaveOnTrack'
<1>0. job \in Jobs
  BY DEF FilesTypeOK, Jobs
<1> DEFINE Phases == {"save", "hash", "manifest temp", "replace weights", "replace manifest"}
<1>1. ASSUME job'.at \notin Phases PROVE SaveOnTrack'
  BY <1>1 DEF SaveOnTrack, Saving
<1>2. ASSUME UNCHANGED <<job, offered>> PROVE SaveOnTrack'
  BY <1>2 DEF SaveOnTrack, Saving, Pending, MadeAsSaid
<1>3. ASSUME NEW paper \in SUBSET PaperRows, NEW historical \in SUBSET HistoricalRows,
             NEW environment \in Environments, NEW steps \in 1 .. MaxSteps,
             StartTraining(paper, historical, environment, steps)
      PROVE  SaveOnTrack'
  BY <1>1, <1>3, StartingTraining
<1>4. CASE Optimise
  BY <1>4, OptimiseStep DEF SaveOnTrack, Saving
<1>5. CASE TrainingFails \/ RebuildSidecar \/ SaveFails \/ Crash \/ WriteSidecar
  <2>1. CASE RebuildSidecar
    BY <1>1, <2>1 DEF RebuildSidecar, NoJob
  <2>2. CASE TrainingFails \/ SaveFails \/ Crash \/ WriteSidecar
    BY <1>1, <2>2, NoJobIsIdle DEF TrainingFails, SaveFails, Crash, WriteSidecar
  <2> QED BY <1>5, <2>1, <2>2
<1>6. CASE StartPin
  <2>1. /\ job'.at = "save" /\ job'.lineage = PinLineage /\ job'.weights = PinWeights
    BY <1>6 DEF StartPin, NoJob
  <2>2. MadeAsSaid(Pending)'
    BY <2>1 DEF MadeAsSaid, Pending, Checkpoint
  <2> QED BY <2>1, <2>2 DEF SaveOnTrack, Saving
<1>7. CASE SaveWeightsTemp
  <2>1. job'.at = "hash" /\ Pending' = Pending /\ offered' = offered \cup {Pending}
    BY <1>0, <1>7 DEF SaveWeightsTemp, Pending, Jobs
  <2> HIDE DEF Pending
  <2> QED BY <2>1 DEF SaveOnTrack, Saving
<1>8. CASE HashTemp \/ SaveManifestTemp \/ ReplaceWeights
  <2>1. /\ job'.at \in {"manifest temp", "replace weights", "replace manifest"}
        /\ Pending' = Pending /\ offered' = offered /\ Saving
    BY <1>0, <1>8 DEF HashTemp, SaveManifestTemp, ReplaceWeights, Pending, Jobs, Saving
  <2> HIDE DEF Pending
  <2> QED BY <2>1 DEF SaveOnTrack, Saving
<1>9. CASE ReplaceManifest
  <2>1. job'.at \notin Phases
    BY <1>0, <1>9, NoJobIsIdle DEF ReplaceManifest, Jobs
  <2> QED BY <1>1, <2>1
<1>10. CASE OpenSidecar
  <2>1. job'.at \notin Phases
    BY <1>0, <1>10 DEF OpenSidecar, Jobs
  <2> QED BY <1>1, <2>1
<1>11. CASE UNCHANGED vars
  BY <1>2, <1>11 DEF vars
<1> HIDE DEF SaveOnTrack
<1> QED BY <1>2, <1>3, <1>4, <1>5, <1>6, <1>7, <1>8, <1>9, <1>10, <1>11, OperatorLeavesFiles,
           ReadersLeaveFiles DEF Next, ReaderMoves

-----------------------------------------------------------------------------
(* The files and the readers                                               *)

LEMMA FilesStep ==
  ASSUME FilesTypeOK, SaveOnTrack, FilesOnTrack, OfferedMade, [Next]_vars
  PROVE  FilesOnTrack'
<1> USE DEF files
<1>0. job \in Jobs
  BY DEF FilesTypeOK, Jobs
<1>1. offered \subseteq offered'
  BY OfferedStep
<1> DEFINE Phases == {"hash", "manifest temp", "replace weights", "replace manifest",
                      "open sidecar", "write sidecar"}
<1>2. ASSUME job'.at \notin Phases, UNCHANGED manifestFile PROVE FilesOnTrack'
  BY <1>1, <1>2 DEF FilesOnTrack
<1>3. ASSUME UNCHANGED <<files, job, offered>> PROVE FilesOnTrack'
  BY <1>3 DEF FilesOnTrack, Pending
<1>4. ASSUME NEW paper \in SUBSET PaperRows, NEW historical \in SUBSET HistoricalRows,
             NEW environment \in Environments, NEW steps \in 1 .. MaxSteps,
             StartTraining(paper, historical, environment, steps)
      PROVE  FilesOnTrack'
  BY <1>2, <1>4, StartingTraining
<1>5. CASE Optimise
  <2>1. job'.at \notin Phases /\ UNCHANGED manifestFile
    BY <1>0, <1>5 DEF Optimise, Jobs
  <2> QED BY <1>2, <2>1
<1>6. CASE TrainingFails \/ StartPin \/ SaveFails \/ Crash \/ WriteSidecar
  <2>1. CASE StartPin
    BY <1>2, <2>1 DEF StartPin, NoJob
  <2>2. CASE TrainingFails \/ SaveFails \/ Crash \/ WriteSidecar
    BY <1>2, <2>2, NoJobIsIdle DEF TrainingFails, SaveFails, Crash, WriteSidecar
  <2> QED BY <1>6, <2>1, <2>2
<1>7. CASE RebuildSidecar
  <2>1. /\ job'.at = "open sidecar" /\ job'.hash # None
        /\ UNCHANGED <<files, offered>>
    BY <1>7 DEF RebuildSidecar, NoJob
  <2> QED BY <2>1 DEF FilesOnTrack
<1>8. CASE SaveWeightsTemp
  <2>1. /\ job'.at = "hash" /\ weightsTemp' = job'.weights /\ UNCHANGED manifestFile
    BY <1>0, <1>8 DEF SaveWeightsTemp, Jobs
  <2> QED BY <1>1, <2>1 DEF FilesOnTrack
<1>9. CASE HashTemp
  <2>1. /\ job'.at = "manifest temp" /\ job'.hash = job'.weights /\ weightsTemp' = job'.weights
        /\ UNCHANGED <<manifestFile, offered>>
    BY <1>0, <1>9 DEF HashTemp, FilesOnTrack, Jobs
  <2> QED BY <2>1 DEF FilesOnTrack
<1>10. CASE SaveManifestTemp
  <2>1. /\ job'.at = "replace weights" /\ job'.hash = job'.weights
        /\ weightsTemp' = job'.weights /\ manifestTemp' = Pending'
        /\ UNCHANGED <<manifestFile, offered>>
    BY <1>0, <1>10 DEF SaveManifestTemp, FilesOnTrack, Pending, Jobs
  <2> HIDE DEF Pending
  <2> QED BY <2>1 DEF FilesOnTrack
<1>11. CASE ReplaceWeights
  <2>1. /\ job'.at = "replace manifest" /\ job'.hash = job'.weights
        /\ weightsFile' = job'.weights /\ manifestTemp' = Pending'
        /\ UNCHANGED <<manifestFile, offered>>
    BY <1>0, <1>11 DEF ReplaceWeights, FilesOnTrack, Pending, Jobs
  <2> HIDE DEF Pending
  <2> QED BY <2>1 DEF FilesOnTrack
<1>12. CASE ReplaceManifest
  <2>1. manifestFile' = Pending /\ Pending \in offered /\ offered' = offered
    BY <1>12 DEF ReplaceManifest, FilesOnTrack, SaveOnTrack, Saving
  <2>2. job.hash \in Weights
    BY <1>12 DEF ReplaceManifest, FilesOnTrack, FilesTypeOK
  <2>3. job'.at \notin Phases \/ (job'.at = "open sidecar" /\ job'.hash = job.hash)
    <3>1. CASE job' = NoJob
      BY <3>1, NoJobIsIdle
    <3>2. CASE job' = [job EXCEPT !.at = "open sidecar"]
      BY <1>0, <3>2 DEF Jobs
    <3> QED BY <1>12, <3>1, <3>2 DEF ReplaceManifest
  <2>4. job'.at \in {"open sidecar", "write sidecar"} => job'.hash # None
    BY <2>2, <2>3, NoneAssumption
  <2> HIDE DEF Pending
  <2> QED BY <2>1, <2>3, <2>4 DEF FilesOnTrack
<1>13. CASE OpenSidecar
  <2>1. /\ job'.at = "write sidecar" /\ job'.hash # None /\ UNCHANGED <<files, offered>>
    BY <1>0, <1>13 DEF OpenSidecar, FilesOnTrack, Jobs
  <2> QED BY <2>1 DEF FilesOnTrack
<1>14. CASE UNCHANGED vars
  BY <1>3, <1>14 DEF vars
<1> HIDE DEF FilesOnTrack
<1> QED BY <1>3, <1>4, <1>5, <1>6, <1>7, <1>8, <1>9, <1>10, <1>11, <1>12, <1>13, <1>14,
           OperatorLeavesFiles, ReadersLeaveFiles DEF Next, ReaderMoves

LEMMA ReadersStep ==
  ASSUME FilesTypeOK, FilesOnTrack, OfferedMade, SaveOnTrack, ReadersOnTrack, [Next]_vars
  PROVE  ReadersOnTrack'
<1> USE DEF files
<1>0. reader \in [Readers -> ReaderStates]
  BY DEF FilesTypeOK, ReaderStates
<1>1. offered \subseteq offered'
  BY OfferedStep
<1>2. ASSUME UNCHANGED <<reader, weightsFile>> PROVE ReadersOnTrack'
  BY <1>1, <1>2 DEF ReadersOnTrack
<1>3. ASSUME NEW r \in Readers, NEW state, UNCHANGED weightsFile,
             reader' = [reader EXCEPT ![r] = state],
             state.at \in {"hash", "load", "loaded"} =>
               state.manifest \in offered /\ state.manifest.lineage = state.lineage,
             state.at = "load" /\ ~state.raced => weightsFile = state.manifest.weights,
             state.at = "loaded" /\ ~state.raced => state.loaded = state.manifest.weights
      PROVE  ReadersOnTrack'
  <2> SUFFICES ASSUME NEW q \in Readers PROVE
         /\ reader'[q].at \in {"hash", "load", "loaded"} =>
              reader'[q].manifest \in offered' /\ reader'[q].manifest.lineage = reader'[q].lineage
         /\ reader'[q].at = "load" /\ ~reader'[q].raced => weightsFile' = reader'[q].manifest.weights
         /\ reader'[q].at = "loaded" /\ ~reader'[q].raced =>
              reader'[q].loaded = reader'[q].manifest.weights
    BY DEF ReadersOnTrack
  <2>1. CASE q = r
    <3>1. reader'[q] = state
      BY <1>0, <1>3, <2>1
    <3> QED BY <1>1, <1>3, <3>1
  <2>2. CASE q # r
    <3>1. reader'[q] = reader[q]
      BY <1>0, <1>3, <2>2
    <3> QED BY <1>1, <1>3, <3>1 DEF ReadersOnTrack
  <2> QED BY <2>1, <2>2
<1>4. ASSUME NEW r \in Readers, NEW lineage, NEW claim, Expect(r, lineage, claim),
             UNCHANGED weightsFile
      PROVE  ReadersOnTrack'
  <2> DEFINE state == [NoReader EXCEPT !.at = "manifest", !.lineage = lineage, !.claim = claim]
  <2>1. state.at = "manifest"
    BY DEF NoReader
  <2>2. reader' = [reader EXCEPT ![r] = state]
    BY <1>4 DEF Expect
  <2> HIDE DEF state
  <2> QED BY <1>3, <1>4, <2>1, <2>2
<1>5. ASSUME NEW r \in Readers, BeginBind(r) \/ \E result \in results : BeginBenchmark(r, result)
      PROVE  ReadersOnTrack'
  BY <1>4, <1>5 DEF BeginBind, BeginBenchmark
<1>6. ASSUME NEW r \in Readers, ReadManifest(r)
      PROVE  ReadersOnTrack'
  <2> DEFINE state == [reader[r] EXCEPT !.at = "hash", !.manifest = manifestFile]
  <2>1. /\ state.at = "hash" /\ state.manifest = manifestFile
        /\ state.lineage = reader[r].lineage
    BY <1>0 DEF ReaderStates
  <2>2. reader' = [reader EXCEPT ![r] = state] /\ UNCHANGED weightsFile
    BY <1>0, <1>6 DEF ReadManifest, ReaderStates
  <2>3. manifestFile \in offered /\ manifestFile.lineage = reader[r].lineage
    BY <1>6 DEF ReadManifest, FilesOnTrack
  <2> HIDE DEF state
  <2> QED BY <1>3, <2>1, <2>2, <2>3
<1>7. ASSUME NEW r \in Readers, CheckHash(r)
      PROVE  ReadersOnTrack'
  <2> DEFINE state == [reader[r] EXCEPT !.at = "load"]
  <2>1. /\ state.at = "load" /\ state.manifest = reader[r].manifest
        /\ state.lineage = reader[r].lineage
    BY <1>0 DEF ReaderStates
  <2>2. reader' = [reader EXCEPT ![r] = state] /\ UNCHANGED weightsFile
    BY <1>7 DEF CheckHash
  <2>3. /\ reader[r].manifest \in offered /\ reader[r].manifest.lineage = reader[r].lineage
        /\ weightsFile = reader[r].manifest.weights
    BY <1>7 DEF CheckHash, ReadersOnTrack
  <2> HIDE DEF state
  <2> QED BY <1>3, <2>1, <2>2, <2>3
<1>8. ASSUME NEW r \in Readers, LoadWeights(r)
      PROVE  ReadersOnTrack'
  <2> DEFINE state == [reader[r] EXCEPT !.at = "loaded", !.loaded = weightsFile]
  <2>1. /\ state.at = "loaded" /\ state.manifest = reader[r].manifest
        /\ state.lineage = reader[r].lineage /\ state.loaded = weightsFile
        /\ state.raced = reader[r].raced
    BY <1>0 DEF ReaderStates
  <2>2. reader' = [reader EXCEPT ![r] = state] /\ UNCHANGED weightsFile
    BY <1>0, <1>8 DEF LoadWeights, ReaderStates
  <2>3. /\ reader[r].manifest \in offered /\ reader[r].manifest.lineage = reader[r].lineage
        /\ ~reader[r].raced => weightsFile = reader[r].manifest.weights
    BY <1>8 DEF LoadWeights, ReadersOnTrack
  <2> HIDE DEF state
  <2> QED BY <1>3, <2>1, <2>2, <2>3
<1>9. ASSUME NEW r \in Readers, LoadRefused(r) \/ Release(r)
      PROVE  ReadersOnTrack'
  <2>1. NoReader.at = "idle"
    BY DEF NoReader
  <2>2. reader' = [reader EXCEPT ![r] = NoReader] /\ UNCHANGED weightsFile
    BY <1>9 DEF LoadRefused, Release
  <2> QED BY <1>3, <2>1, <2>2
<1>10. CASE ReplaceWeights
  <2> SUFFICES ASSUME NEW q \in Readers PROVE
         /\ reader'[q].at \in {"hash", "load", "loaded"} =>
              reader'[q].manifest \in offered /\ reader'[q].manifest.lineage = reader'[q].lineage
         /\ reader'[q].at = "load" => reader'[q].raced
         /\ reader'[q].at = "loaded" /\ ~reader'[q].raced =>
              reader'[q].loaded = reader'[q].manifest.weights
    BY <1>1 DEF ReadersOnTrack
  <2> DEFINE state == [reader[q] EXCEPT !.raced = @ \/ reader[q].at = "load"]
  <2>1. reader'[q] = state
    BY <1>10 DEF ReplaceWeights
  <2>2. /\ state.at = reader[q].at /\ state.manifest = reader[q].manifest
        /\ state.lineage = reader[q].lineage /\ state.loaded = reader[q].loaded
    BY <1>0 DEF ReaderStates
  <2>3. state.raced = (reader[q].raced \/ reader[q].at = "load")
    BY <1>0 DEF ReaderStates
  <2> HIDE DEF state
  <2> QED BY <2>1, <2>2, <2>3 DEF ReadersOnTrack
<1>11. ASSUME NEW paper \in SUBSET PaperRows, NEW historical \in SUBSET HistoricalRows,
              NEW environment \in Environments, NEW steps \in 1 .. MaxSteps,
              StartTraining(paper, historical, environment, steps)
       PROVE  ReadersOnTrack'
  BY <1>2, <1>11, StartingTraining
<1>12. CASE Optimise \/ TrainingFails \/ StartPin \/ RebuildSidecar \/ SaveWeightsTemp \/ HashTemp
            \/ SaveManifestTemp \/ ReplaceManifest \/ SaveFails \/ Crash \/ OpenSidecar \/ WriteSidecar
  BY <1>2, <1>12 DEF Optimise, TrainingFails, StartPin, RebuildSidecar, SaveWeightsTemp, HashTemp,
               SaveManifestTemp, ReplaceManifest, SaveFails, Crash, OpenSidecar, WriteSidecar
<1>13. ASSUME NEW result \in results, NEW compatible \in BOOLEAN,
              OperatorSidecar(result, compatible)
       PROVE  ReadersOnTrack'
  BY <1>2, <1>13, OperatorLeavesFiles
<1>14. CASE UNCHANGED vars
  BY <1>2, <1>14 DEF vars
<1> HIDE DEF ReadersOnTrack
<1> QED BY <1>5, <1>6, <1>7, <1>8, <1>9, <1>10, <1>11, <1>12, <1>13, <1>14 DEF Next

-----------------------------------------------------------------------------
(* The theorems                                                            *)

LEMMA StartsOnTrack == Init => OnTrack
<1> SUFFICES ASSUME Init PROVE OnTrack
  OBVIOUS
<1>1. NoReader.at = "idle"
  BY DEF NoReader
<1>2. /\ job.at = "idle" /\ offered = {} /\ manifestFile = None
      /\ \A r \in Readers : reader[r].at = "idle"
  BY <1>1, NoJobIsIdle DEF Init
<1> QED BY <1>2 DEF OnTrack, OfferedMade, TrainingOnTrack, SaveOnTrack, Saving, FilesOnTrack,
               ReadersOnTrack

LEMMA StaysOnTrack ==
  ASSUME FilesTypeOK, OnTrack, [Next]_vars
  PROVE  FilesTypeOK' /\ OnTrack'
BY TypesStep, OfferedStep, TrainingStep, SaveStep, FilesStep, ReadersStep DEF OnTrack

LEMMA AlwaysOnTrack == Spec => [](FilesTypeOK /\ OnTrack)
<1>1. Init => FilesTypeOK /\ OnTrack
  BY TypesInit, StartsOnTrack
<1>2. FilesTypeOK /\ OnTrack /\ [Next]_vars => (FilesTypeOK /\ OnTrack)'
  BY StaysOnTrack
<1> QED BY <1>1, <1>2, PTL DEF Spec

\* A file holds what its writer writes into it or is missing, and a sidecar
\* always has a hash to bind by: no job hands one over before its save has
\* hashed the weights (CheckpointStore.save, _write_ops_lineage).
THEOREM FilesTypesHold == Spec => []FilesTypeOK
BY AlwaysOnTrack, PTL

\* Weights that load were saved, whole, under the lineage their reader expects
\* and are made as their manifest says, unless a save replaced the file between
\* the check and the second read (CheckpointStore.load, run_offline_iql_train).
THEOREM LineageHolds == Spec => []WeightsHaveLineage
<1>1. FilesTypeOK /\ OnTrack => WeightsHaveLineage
  <2> SUFFICES ASSUME FilesTypeOK, OnTrack, NEW r \in Readers,
                      reader[r].at = "loaded", ~reader[r].raced
               PROVE  LET c == Checkpoint(reader[r].lineage, reader[r].manifest.step, reader[r].loaded)
                      IN  c \in offered /\ MadeAsSaid(c)
    BY DEF WeightsHaveLineage
  <2> DEFINE m == reader[r].manifest
  <2>1. m \in offered /\ m.lineage = reader[r].lineage /\ reader[r].loaded = m.weights
    BY DEF OnTrack, ReadersOnTrack
  <2>2. m = Checkpoint(m.lineage, m.step, m.weights)
    <3>1. m \in Checkpoints
      BY <2>1 DEF FilesTypeOK
    <3> HIDE DEF m
    <3> QED BY <3>1, CheckpointFields
  <2>3. MadeAsSaid(m)
    BY <2>1 DEF OnTrack, OfferedMade
  <2> QED BY <2>1, <2>2, <2>3
<1> QED BY <1>1, AlwaysOnTrack, PTL

\* A step of the directory is a step of the register or a stutter.
LEMMA RegisterStep ==
  ASSUME FilesTypeOK, OnTrack, [Next]_vars
  PROVE  [Register!Begin \/ Register!Disturb \/ Register!Return \/ Register!Die]_Register!vars
<1> DEFINE pending == IF Saving THEN Pending ELSE None
<1> USE DEF files
<1>0. job \in Jobs
  BY DEF FilesTypeOK, Jobs
<1>1. Pending \in Checkpoints /\ Pending # None
  <2>1. Pending \in Checkpoints
    BY CheckpointTypes DEF FilesTypeOK, Pending
  <2> QED BY <2>1, NoneAssumption
<1>2. ASSUME UNCHANGED <<offered, pending, Readable>>
      PROVE  UNCHANGED Register!vars
  BY <1>2 DEF Register!vars, Pending
<1>3. ASSUME UNCHANGED <<weightsFile, manifestFile, offered>>, ~Saving, ~Saving'
      PROVE  UNCHANGED Register!vars
  BY <1>2, <1>3 DEF Readable
<1>4. ASSUME UNCHANGED <<weightsFile, manifestFile, offered>>, UNCHANGED job
      PROVE  UNCHANGED Register!vars
  BY <1>2, <1>4 DEF Readable, Saving, Pending
<1>5. ASSUME UNCHANGED <<weightsFile, manifestFile, offered>>, ~Saving'
      PROVE  UNCHANGED Register!vars \/ Register!Die
  <2>1. CASE Saving
    <3>1. pending # None /\ pending' = None /\ UNCHANGED Readable
      BY <1>1, <1>5, <2>1 DEF Readable
    <3> QED BY <1>5, <3>1 DEF Register!Die, Pending
  <2>2. CASE ~Saving
    BY <1>3, <1>5, <2>2
  <2> QED BY <2>1, <2>2
<1>6. ASSUME NEW paper \in SUBSET PaperRows, NEW historical \in SUBSET HistoricalRows,
             NEW environment \in Environments, NEW steps \in 1 .. MaxSteps,
             StartTraining(paper, historical, environment, steps)
      PROVE  UNCHANGED Register!vars \/ Register!Die
  BY <1>5, <1>6, StartingTraining DEF Saving
<1>7. CASE Optimise
  BY <1>5, <1>7, OptimiseStep DEF Saving, OnTrack
<1>8. CASE TrainingFails \/ SaveFails \/ Crash \/ WriteSidecar
  BY <1>5, <1>8, NoJobIsIdle DEF TrainingFails, SaveFails, Crash, WriteSidecar, Saving
<1>9. CASE StartPin \/ RebuildSidecar
  BY <1>5, <1>9 DEF StartPin, RebuildSidecar, NoJob, Saving
<1>10. CASE OpenSidecar
  BY <1>0, <1>5, <1>10 DEF OpenSidecar, Saving, Jobs
<1>11. CASE SaveWeightsTemp
  <2>1. /\ ~Saving /\ Saving' /\ Pending' = Pending /\ offered' = offered \cup {Pending}
        /\ UNCHANGED Readable
    BY <1>0, <1>11 DEF SaveWeightsTemp, Saving, Pending, Readable, Jobs
  <2> QED BY <1>1, <2>1 DEF Register!Begin, Pending
<1>12. CASE HashTemp \/ SaveManifestTemp
  <2>1. /\ Saving /\ Saving' /\ Pending' = Pending /\ UNCHANGED <<offered, Readable>>
    BY <1>0, <1>12 DEF HashTemp, SaveManifestTemp, Saving, Pending, Readable, Jobs
  <2> QED BY <1>2, <2>1
<1>13. CASE ReplaceWeights
  <2>1. /\ Saving /\ Saving' /\ Pending' = Pending
        /\ UNCHANGED <<offered, manifestFile>>
    BY <1>0, <1>13 DEF ReplaceWeights, Saving, Pending, Jobs
  <2>2. Readable' \in offered \cup {None}
    BY <2>1 DEF Readable, OnTrack, FilesOnTrack
  <2> QED BY <1>1, <2>1, <2>2 DEF Register!Disturb, Pending
<1>14. CASE ReplaceManifest
  <2>1. /\ Saving /\ manifestFile' = Pending /\ weightsFile' = job.weights /\ offered' = offered
    BY <1>14 DEF ReplaceManifest, Saving, OnTrack, FilesOnTrack
  <2>2. ~Saving'
    <3>1. CASE job' = NoJob
      BY <3>1, NoJobIsIdle DEF Saving
    <3>2. CASE job' = [job EXCEPT !.at = "open sidecar"]
      BY <1>0, <3>2 DEF Jobs, Saving
    <3> QED BY <1>14, <3>1, <3>2 DEF ReplaceManifest
  <2>3. job.weights # None /\ Pending.weights = job.weights
    <3>1. job.weights \in Weights
      BY DEF FilesTypeOK
    <3> QED BY <3>1, NoneAssumption DEF Pending, Checkpoint
  <2>4. Readable' = Pending
    BY <1>1, <2>1, <2>3 DEF Readable
  <2> QED BY <1>1, <2>1, <2>2, <2>4 DEF Register!Return, Pending
<1>15. ASSUME NEW result \in results, NEW compatible \in BOOLEAN,
              OperatorSidecar(result, compatible)
       PROVE  UNCHANGED Register!vars
  BY <1>4, <1>15, OperatorLeavesFiles
<1>16. ASSUME NEW r \in Readers, ReaderMoves(r)
       PROVE  UNCHANGED Register!vars
  BY <1>4, <1>16, ReadersLeaveFiles
<1>17. CASE UNCHANGED vars
  BY <1>4, <1>17 DEF vars
<1> QED
  BY <1>6, <1>7, <1>8, <1>9, <1>10, <1>11, <1>12, <1>13, <1>14, <1>15, <1>16, <1>17
  DEF Next, ReaderMoves

\* The directory holds at most one readable checkpoint, always one that a save
\* offered as a whole; it changes only while a save runs, and is the save's own
\* when the save returns (CheckpointStore.save).
THEOREM DirectoryIsRegister == Spec => CheckpointRefinement
<1>1. Init => Register!RegisterInit
  BY NoJobIsIdle DEF Init, Register!RegisterInit, Readable, Saving
<1>2. FilesTypeOK /\ OnTrack /\ [Next]_vars =>
        [Register!Begin \/ Register!Disturb \/ Register!Return \/ Register!Die]_Register!vars
  BY RegisterStep
<1> QED BY <1>1, <1>2, AlwaysOnTrack, PTL DEF Spec, CheckpointRefinement, Register!RegisterSpec
=============================================================================
