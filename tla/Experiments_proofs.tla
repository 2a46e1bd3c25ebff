------------------------- MODULE Experiments_proofs -------------------------
\* What the trainings leave behind, for any number of processes, models, evidence,
\* contents of the splits, trainings and deaths: every experiment selects one best model,
\* the leaderboard's rows stand on the files of their models and on their MLflow runs,
\* and, as long as nobody prepares data beside a training that takes it, every model is
\* fitted and validated on the splits its records name.
\*
\* The inductive invariant has four layers, each of which needs those before it.
\*   TrainInv   what a training takes from the splits and carries.  If nobody prepares
\*              data beside it (QuietData), then until it has taken everything (Taking)
\*              the manifest is the one it read first, and what it has verified, loaded
\*              and named is one version.  The other layers do not need QuietData.
\*   PlaceInv   what a training holds at each place, and that trainings under way have
\*              attempts and experiments of their own.
\*   RecordInv  what is on disk and in MLflow is what the training has in hand: the
\*              directories and the runs of the models it has done, and nobody else's.
\*   BoardInv   every row of the leaderboard, and of the copy a merge has read, stands on
\*              records that are never changed again.
\* Selection, leaderboard order and the rows that a merge keeps are rankings of finite
\* sets by strict total orders; what such a ranking is, is proved once (RankingSorts).
EXTENDS Experiments, Ranking_proofs, SequenceTheorems

Field == DOMAIN Idle

\* Where a training has everything it takes from the splits.
Fitting ==
    {"fit", "save", "log", "rank", "tag", "report", "publish", "manifest", "board", "merge"}

\* With QuietData, the splits that a training verified stay those of its manifest while
\* it takes them, ...
TakingInv(p) == QuietData =>
    /\ Taking(p) => preparing = None /\ procs[p].manifest = splits.manifest
    /\ procs[p].at = "load" => /\ splits.train = splits.manifest
                               /\ splits.validation = splits.manifest

\* ... and what it has in hand is of one version.
CarriedInv(p) == QuietData =>
    /\ Taking(p) /\ procs[p].kind = "baseline" => procs[p].named = procs[p].manifest
    /\ procs[p].at \in {"claim", "track"} => /\ procs[p].train = procs[p].manifest
                                             /\ procs[p].validation = procs[p].manifest
    /\ procs[p].at \in Fitting => /\ procs[p].train = procs[p].named
                                  /\ procs[p].validation = procs[p].named

TrainingInv(p) ==
    /\ DOMAIN procs[p] = Field
    /\ procs[p].at \in Fitting \cup {"ended", "verify", "load", "claim", "track"}
    /\ TakingInv(p)
    /\ CarriedInv(p)

RunShape ==
    \A key \in DOMAIN tracked :
        DOMAIN tracked[key] = {"id", "macro_f1", "train", "named", "finished", "status"}

TrainInv ==
    /\ DOMAIN procs = Process
    /\ \A p \in Process : TrainingInv(p)
    /\ RunShape
    /\ QuietData => TrainedOnRecordedData

-----------------------------------------------------------------------------

LEMMA FieldIsField ==
    Field = {"at", "kind", "attempt", "id", "manifest", "train", "validation", "named",
             "results", "tagged", "read"}
  BY DEF Field, Idle

\* A training that has ended carries nothing that matters.
LEMMA IdleIsTraining == ASSUME NEW p, procs[p] = Idle PROVE TrainingInv(p)
  BY DEF TrainingInv, TakingInv, CarriedInv, Taking, Idle, Field, Fitting

LEMMA InitTrainInv == Init => TrainInv
  <1> SUFFICES ASSUME Init PROVE TrainInv
    OBVIOUS
  <1>1. DOMAIN procs = Process /\ \A p \in Process : procs[p] = Idle
    BY DEF Init
  <1>2. DOMAIN artifacts = {} /\ DOMAIN tracked = {}
    BY DEF Init
  <1> QED
    BY <1>1, <1>2, IdleIsTraining DEF TrainInv, RunShape, TrainedOnRecordedData

\* What is said of a training speaks of it and of the data it may still take.
LEMMA SameTraining ==
    ASSUME NEW p, TrainingInv(p), procs'[p] = procs[p],
           QuietData => UNCHANGED data \/ ~Taking(p)
    PROVE  TrainingInv(p)'
  BY DEF TrainingInv, TakingInv, CarriedInv, Taking, data

\* The other trainings do not notice the step of one.
LEMMA OneTrainingMoves ==
    ASSUME TrainInv, NEW p \in Process, NEW r, procs' = [procs EXCEPT ![p] = r],
           TrainingInv(p)', UNCHANGED data
    PROVE  DOMAIN procs' = Process /\ \A q \in Process : TrainingInv(q)'
  <1>1. DOMAIN procs' = Process /\ \A q \in Process \ {p} : procs'[q] = procs[q]
    BY DEF TrainInv
  <1> QED
    BY <1>1, SameTraining DEF TrainInv

\* Going on from a place to the next with what is in hand.
LEMMA GoingOn ==
    ASSUME TrainInv, NEW p \in Process, NEW at, Goto(p, at), UNCHANGED data,
           \/ procs[p].at \in Fitting /\ at \in Fitting
           \/ /\ procs[p].at = "verify" /\ at = "load"
              /\ QuietData => /\ splits.train = splits.manifest
                              /\ splits.validation = splits.manifest
    PROVE  DOMAIN procs' = Process /\ \A q \in Process : TrainingInv(q)'
  <1>1. procs' = [procs EXCEPT ![p] = [procs[p] EXCEPT !.at = at]]
    BY DEF Goto
  <1>2. procs'[p] = [procs[p] EXCEPT !.at = at]
    BY <1>1 DEF TrainInv
  <1>3. TrainingInv(p) /\ "at" \in Field
    BY FieldIsField DEF TrainInv
  <1>4. DOMAIN procs'[p] = Field /\ procs'[p].at = at /\ \A f \in Field \ {"at"} : procs'[p][f] = procs[p][f]
    BY <1>2, <1>3 DEF TrainingInv
  <1>5. TrainingInv(p)'
    BY <1>3, <1>4, FieldIsField DEF TrainingInv, TakingInv, CarriedInv, Taking, Fitting, data
  <1> QED
    BY <1>1, <1>5, OneTrainingMoves

LEMMA Ending ==
    ASSUME TrainInv, NEW p \in Process, End(p), UNCHANGED data
    PROVE  DOMAIN procs' = Process /\ \A q \in Process : TrainingInv(q)'
  <1>1. procs'[p] = Idle
    BY DEF End, TrainInv
  <1>2. TrainingInv(p)'
    BY <1>1, IdleIsTraining DEF TrainingInv, TakingInv, CarriedInv, Taking, Idle, Field, Fitting
  <1> QED
    BY <1>2, OneTrainingMoves DEF End

-----------------------------------------------------------------------------
\* What is recorded.

\* Steps that record nothing leave the properties of the records.
LEMMA NothingRecorded ==
    ASSUME TrainInv, UNCHANGED <<artifacts, tracked>>
    PROVE  RunShape' /\ (QuietData => TrainedOnRecordedData')
  BY DEF TrainInv, RunShape, TrainedOnRecordedData

LEMMA StartKeepsInv ==
    ASSUME TrainInv, NEW p \in Process, NEW kind \in Kind, NEW workflow, Start(p, kind, workflow)
    PROVE  TrainInv'
  <1> DEFINE r == procs'[p]
  <1>1. procs' = [procs EXCEPT ![p] = r] /\ UNCHANGED data
    BY DEF Start, TrainInv
  <1>2. /\ DOMAIN r = Field /\ r.at = "verify" /\ r.kind = kind /\ r.manifest = splits.manifest
        /\ kind = "baseline" => r.named = splits.manifest
    BY FieldIsField DEF Start, TrainInv, Idle
  <1>3. TrainingInv(p)'
    BY <1>1, <1>2 DEF Start, TrainingInv, TakingInv, CarriedInv, Taking, Fitting, data
  <1>4. DOMAIN procs' = Process /\ \A q \in Process : TrainingInv(q)'
    BY <1>1, <1>3, OneTrainingMoves
  <1> QED
    BY <1>4, NothingRecorded DEF Start, outputs, TrainInv

LEMMA VerifyDataKeepsInv == ASSUME TrainInv, NEW p \in Process, VerifyData(p) PROVE TrainInv'
  <1>1. DOMAIN procs' = Process /\ \A q \in Process : TrainingInv(q)'
    <2>1. CASE \A part \in VerifiedParts : splits[part] = procs[p].manifest
      <3>1. splits.train = procs[p].manifest /\ splits.validation = procs[p].manifest
        BY <2>1 DEF VerifiedParts
      <3>2. /\ procs[p].at = "verify"
            /\ QuietData => procs[p].manifest = splits.manifest
        BY DEF VerifyData, TrainInv, TrainingInv, TakingInv, Taking
      <3> QED
        BY <2>1, <3>1, <3>2, GoingOn DEF VerifyData
    <2>2. CASE ~ \A part \in VerifiedParts : splits[part] = procs[p].manifest
      BY <2>2, Ending DEF VerifyData
    <2> QED
      BY <2>1, <2>2
  <1> QED
    BY <1>1, NothingRecorded DEF VerifyData, outputs, TrainInv

LEMMA LoadDataKeepsInv == ASSUME TrainInv, NEW p \in Process, LoadData(p) PROVE TrainInv'
  <1> DEFINE r == procs'[p]
  <1>1. procs' = [procs EXCEPT ![p] = r] /\ UNCHANGED data
    BY DEF LoadData, TrainInv
  <1>2. TrainingInv(p) /\ procs[p].at = "load"
    BY DEF LoadData, TrainInv
  <1>3. /\ DOMAIN r = Field /\ r.at = "claim" /\ r.train = splits.train
        /\ r.validation = splits.validation /\ r.kind = procs[p].kind
        /\ r.manifest = procs[p].manifest /\ r.named = procs[p].named
    BY <1>2, FieldIsField DEF LoadData, TrainInv, TrainingInv
  <1>4. TrainingInv(p)'
    BY <1>1, <1>2, <1>3 DEF TrainingInv, TakingInv, CarriedInv, Taking, Fitting, data
  <1>5. DOMAIN procs' = Process /\ \A q \in Process : TrainingInv(q)'
    BY <1>1, <1>4, OneTrainingMoves
  <1> QED
    BY <1>5, NothingRecorded DEF LoadData, outputs, TrainInv

LEMMA ClaimExperimentKeepsInv ==
    ASSUME TrainInv, NEW p \in Process, ClaimExperiment(p) PROVE TrainInv'
  <1>1. DOMAIN procs' = Process /\ \A q \in Process : TrainingInv(q)'
    <2>1. CASE End(p)
      BY <2>1, Ending DEF ClaimExperiment
    <2>2. CASE ~End(p)
      <3> DEFINE r == procs'[p]
      <3>1. procs' = [procs EXCEPT ![p] = r] /\ UNCHANGED data
        BY <2>2 DEF ClaimExperiment, TrainInv
      <3>2. TrainingInv(p) /\ procs[p].at = "claim"
        BY DEF ClaimExperiment, TrainInv
      <3>3. /\ DOMAIN r = Field /\ r.at = IF procs[p].kind = "baseline" THEN "fit" ELSE "track"
            /\ r.train = procs[p].train /\ r.validation = procs[p].validation
            /\ r.kind = procs[p].kind /\ r.manifest = procs[p].manifest
            /\ r.named = procs[p].named
        BY <2>2, <3>2, FieldIsField DEF ClaimExperiment, TrainInv, TrainingInv
      <3>4. TrainingInv(p)'
        BY <3>1, <3>2, <3>3 DEF TrainingInv, TakingInv, CarriedInv, Taking, Fitting, data
      <3> QED
        BY <3>1, <3>4, OneTrainingMoves
    <2> QED
      BY <2>1, <2>2
  <1> QED
    BY <1>1, NothingRecorded DEF ClaimExperiment, TrainInv

LEMMA ConfigureTrackingKeepsInv ==
    ASSUME TrainInv, NEW p \in Process, ConfigureTracking(p) PROVE TrainInv'
  <1>1. DOMAIN procs' = Process /\ \A q \in Process : TrainingInv(q)'
    <2>1. CASE End(p)
      BY <2>1, Ending DEF ConfigureTracking
    <2>2. CASE ~End(p)
      <3> DEFINE r == procs'[p]
      <3>1. procs' = [procs EXCEPT ![p] = r] /\ UNCHANGED data
        BY <2>2 DEF ConfigureTracking, TrainInv
      <3>2. TrainingInv(p) /\ procs[p].at = "track"
        BY DEF ConfigureTracking, TrainInv
      <3>3. /\ DOMAIN r = Field /\ r.at = "fit" /\ r.train = procs[p].train
            /\ r.validation = procs[p].validation /\ r.named = splits.manifest
        BY <2>2, <3>2, FieldIsField DEF ConfigureTracking, TrainInv, TrainingInv
      <3>4. TrainingInv(p)'
        BY <3>1, <3>2, <3>3 DEF TrainingInv, TakingInv, CarriedInv, Taking, Fitting, data
      <3> QED
        BY <3>1, <3>4, OneTrainingMoves
    <2> QED
      BY <2>1, <2>2
  <1> QED
    BY <1>1, NothingRecorded DEF ConfigureTracking, outputs, TrainInv

\* A training that fits and goes on with one more result, or one more tag, in hand.
LEMMA FittingGoesOn ==
    ASSUME TrainInv, NEW p \in Process, procs[p].at \in Fitting, UNCHANGED data,
           procs' = [procs EXCEPT ![p] = procs'[p]],
           DOMAIN procs'[p] = Field, procs'[p].at \in Fitting,
           \A f \in {"kind", "manifest", "train", "validation", "named"} :
               procs'[p][f] = procs[p][f]
    PROVE  DOMAIN procs' = Process /\ \A q \in Process : TrainingInv(q)'
  <1>1. TrainingInv(p)'
    BY DEF TrainInv, TrainingInv, TakingInv, CarriedInv, Taking, Fitting, data
  <1> QED
    BY <1>1, OneTrainingMoves

LEMMA FitModelKeepsInv == ASSUME TrainInv, NEW p \in Process, FitModel(p) PROVE TrainInv'
  <1>1. PICK ms \in Benchmark(procs[p].kind) :
            LET name == Models(procs[p].kind)[Len(procs[p].results) + 1]
            IN  IF MayMake(<<procs[p].id, name>>, DOMAIN artifacts)
                THEN /\ artifacts' = Extend(artifacts, <<procs[p].id, name>>, None)
                     /\ procs' = [procs EXCEPT ![p].at = "save", ![p].results = Append(@, ms)]
                ELSE End(p) /\ UNCHANGED artifacts
    BY DEF FitModel
  <1> DEFINE key == <<procs[p].id, Models(procs[p].kind)[Len(procs[p].results) + 1]>>
  <1>2. CASE MayMake(key, DOMAIN artifacts)
    <2>1. /\ artifacts' = Extend(artifacts, key, None)
          /\ procs' = [procs EXCEPT ![p].at = "save", ![p].results = Append(@, ms)]
      BY <1>1, <1>2
    <2>2. TrainingInv(p) /\ procs[p].at = "fit" /\ UNCHANGED data /\ UNCHANGED tracked
      BY DEF FitModel, TrainInv
    <2>3. /\ procs' = [procs EXCEPT ![p] = procs'[p]]
          /\ DOMAIN procs'[p] = Field /\ procs'[p].at = "save"
          /\ \A f \in {"kind", "manifest", "train", "validation", "named"} :
                procs'[p][f] = procs[p][f]
      BY <2>1, <2>2, FieldIsField DEF TrainInv, TrainingInv
    <2>4. DOMAIN procs' = Process /\ \A q \in Process : TrainingInv(q)'
      BY <2>2, <2>3, FittingGoesOn DEF Fitting
    <2>5. \A k \in DOMAIN artifacts' : artifacts'[k] # None =>
              k \in DOMAIN artifacts /\ artifacts'[k] = artifacts[k]
      BY <2>1 DEF Extend
    <2>6. RunShape' /\ (QuietData => TrainedOnRecordedData')
      BY <2>2, <2>5 DEF TrainInv, RunShape, TrainedOnRecordedData
    <2> QED
      BY <2>4, <2>6 DEF TrainInv
  <1>3. CASE ~MayMake(key, DOMAIN artifacts)
    <2>1. End(p) /\ UNCHANGED artifacts
      BY <1>1, <1>3
    <2>2. UNCHANGED data /\ UNCHANGED tracked
      BY DEF FitModel
    <2> QED
      BY <2>1, <2>2, Ending, NothingRecorded DEF TrainInv
  <1> QED
    BY <1>2, <1>3

LEMMA NextModelFits ==
    ASSUME NEW p, NEW after \in Fitting PROVE NextModel(p, after) \in Fitting
  BY DEF NextModel, Fitting

LEMMA SaveModelKeepsInv == ASSUME TrainInv, NEW p \in Process, SaveModel(p) PROVE TrainInv'
  <1>1. procs[p].at = "save" /\ UNCHANGED <<data, tracked>>
    BY DEF SaveModel
  <1>2. PICK at \in Fitting : Goto(p, at)
    BY NextModelFits DEF SaveModel, Fitting
  <1>3. DOMAIN procs' = Process /\ \A q \in Process : TrainingInv(q)'
    BY <1>1, <1>2, GoingOn DEF Fitting
  <1>4. QuietData => procs[p].train = procs[p].named /\ procs[p].validation = procs[p].named
    BY <1>1 DEF TrainInv, TrainingInv, CarriedInv, Fitting
  <1>5. QuietData => /\ ModelFiles(p).train = ModelFiles(p).named
                     /\ ModelFiles(p).validation = ModelFiles(p).named
    BY <1>4 DEF ModelFiles
  <1>6. /\ DOMAIN artifacts' = DOMAIN artifacts
        /\ \A k \in DOMAIN artifacts : artifacts'[k] \in {ModelFiles(p), artifacts[k]}
    BY DEF SaveModel
  <1>7. RunShape' /\ (QuietData => TrainedOnRecordedData')
    BY <1>1, <1>5, <1>6 DEF TrainInv, RunShape, TrainedOnRecordedData
  <1> QED
    BY <1>3, <1>7 DEF TrainInv

LEMMA LogRunKeepsInv == ASSUME TrainInv, NEW p \in Process, LogRun(p) PROVE TrainInv'
  <1>1. procs[p].at = "log" /\ UNCHANGED <<data, artifacts>>
    BY DEF LogRun
  <1>2. PICK finished, run, key, id, score :
            /\ finished \in BOOLEAN
            /\ run = [id |-> id, macro_f1 |-> score, train |-> procs[p].train,
                      named |-> procs[p].named, finished |-> finished, status |-> "none"]
            /\ tracked' = Extend(tracked, key, run)
            /\ IF finished THEN Goto(p, NextModel(p, "rank")) ELSE End(p)
    BY DEF LogRun
  <1>3. DOMAIN procs' = Process /\ \A q \in Process : TrainingInv(q)'
    <2>1. CASE finished
      BY <1>1, <1>2, <2>1, NextModelFits, GoingOn DEF Fitting
    <2>2. CASE ~finished
      BY <1>1, <1>2, <2>2, Ending
    <2> QED
      BY <2>1, <2>2
  <1>4. QuietData => procs[p].train = procs[p].named
    BY <1>1 DEF TrainInv, TrainingInv, CarriedInv, Fitting
  <1>5. /\ QuietData => run.train = run.named
        /\ DOMAIN run = {"id", "macro_f1", "train", "named", "finished", "status"}
    BY <1>2, <1>4
  <1>6. \A k \in DOMAIN tracked' : \/ tracked'[k] = run
                                   \/ k \in DOMAIN tracked /\ tracked'[k] = tracked[k]
    BY <1>2 DEF Extend
  <1>7. RunShape' /\ (QuietData => TrainedOnRecordedData')
    BY <1>1, <1>5, <1>6 DEF TrainInv, RunShape, TrainedOnRecordedData
  <1> QED
    BY <1>3, <1>7 DEF TrainInv

\* A tag changes nothing else of a run.
LEMMA TagRunKeepsInv == ASSUME TrainInv, NEW p \in Process, TagRun(p) PROVE TrainInv'
  <1>1. procs[p].at = "tag" /\ UNCHANGED <<data, artifacts>>
    BY DEF TagRun
  <1>2. TrainingInv(p)
    BY DEF TrainInv
  <1>3. /\ procs' = [procs EXCEPT ![p] = procs'[p]]
        /\ DOMAIN procs'[p] = Field /\ procs'[p].at \in {"report", "tag"}
        /\ \A f \in {"kind", "manifest", "train", "validation", "named"} :
              procs'[p][f] = procs[p][f]
    BY <1>2, FieldIsField DEF TagRun, TrainInv, TrainingInv
  <1>4. DOMAIN procs' = Process /\ \A q \in Process : TrainingInv(q)'
    BY <1>1, <1>3, FittingGoesOn DEF Fitting
  <1>5. PICK key, status : tracked' = [tracked EXCEPT ![key].status = status]
    BY DEF TagRun
  <1>6. /\ DOMAIN tracked' = DOMAIN tracked
        /\ \A k \in DOMAIN tracked : /\ DOMAIN tracked'[k] = DOMAIN tracked[k]
                                     /\ tracked'[k].train = tracked[k].train
                                     /\ tracked'[k].named = tracked[k].named
    BY <1>5 DEF TrainInv, RunShape
  <1>7. RunShape' /\ (QuietData => TrainedOnRecordedData')
    BY <1>1, <1>6 DEF TrainInv, RunShape, TrainedOnRecordedData
  <1> QED
    BY <1>4, <1>7 DEF TrainInv

\* The remaining steps of a training move it on or end it, and record no lineage.
LEMMA ReportingKeepsInv ==
    ASSUME TrainInv, NEW p \in Process,
           \/ RankCandidates(p) \/ WriteComparison(p) \/ PublishBaselines(p)
           \/ WriteRunManifest(p) \/ MergeLeaderboard(p) \/ Kill(p)
    PROVE  TrainInv'
  <1>1. UNCHANGED <<data, artifacts, tracked>>
    BY DEF RankCandidates, WriteComparison, PublishBaselines, WriteRunManifest,
           MergeLeaderboard, Kill, outputs
  <1>2. \/ End(p)
        \/ procs[p].at \in Fitting /\ \E at \in Fitting : Goto(p, at)
    BY DEF RankCandidates, WriteComparison, PublishBaselines, WriteRunManifest,
           MergeLeaderboard, Kill, Fitting
  <1>3. DOMAIN procs' = Process /\ \A q \in Process : TrainingInv(q)'
    BY <1>1, <1>2, Ending, GoingOn
  <1> QED
    BY <1>1, <1>3, NothingRecorded DEF TrainInv

LEMMA ReadLeaderboardKeepsInv ==
    ASSUME TrainInv, NEW p \in Process, ReadLeaderboard(p) PROVE TrainInv'
  <1>1. procs[p].at = "board" /\ UNCHANGED <<data, artifacts, tracked>>
    BY DEF ReadLeaderboard, outputs
  <1>2. TrainingInv(p)
    BY DEF TrainInv
  <1>3. /\ procs' = [procs EXCEPT ![p] = procs'[p]]
        /\ DOMAIN procs'[p] = Field /\ procs'[p].at = "merge"
        /\ \A f \in {"kind", "manifest", "train", "validation", "named"} :
              procs'[p][f] = procs[p][f]
    BY <1>2, FieldIsField DEF ReadLeaderboard, TrainInv, TrainingInv
  <1>4. DOMAIN procs' = Process /\ \A q \in Process : TrainingInv(q)'
    BY <1>1, <1>3, FittingGoesOn DEF Fitting
  <1> QED
    BY <1>1, <1>4, NothingRecorded DEF TrainInv

\* With QuietData nothing is replaced under a training that takes its data: none begins
\* while one does, and a training begins only when none runs.
LEMMA PreparationKeepsInv ==
    ASSUME TrainInv, ContinuePreparation \/ \E v \in Version : BeginPreparation(v)
    PROVE  TrainInv'
  <1>1. UNCHANGED procs /\ UNCHANGED <<artifacts, tracked>>
    BY DEF ContinuePreparation, BeginPreparation, outputs
  <1>2. QuietData => \A p \in Process : ~Taking(p)
    BY DEF ContinuePreparation, BeginPreparation, TrainInv, TrainingInv, TakingInv
  <1>3. DOMAIN procs' = Process /\ \A q \in Process : TrainingInv(q)'
    BY <1>1, <1>2, SameTraining DEF TrainInv
  <1> QED
    BY <1>1, <1>3, NothingRecorded DEF TrainInv

LEMMA NextTrainInv == TrainInv /\ [Next]_vars => TrainInv'
  <1> SUFFICES ASSUME TrainInv, [Next]_vars PROVE TrainInv'
    OBVIOUS
  <1>1. CASE UNCHANGED vars \/ Tick
    <2>1. UNCHANGED <<data, procs, artifacts, tracked>>
      BY <1>1 DEF vars, Tick, outputs
    <2>2. DOMAIN procs' = Process /\ \A q \in Process : TrainingInv(q)'
      BY <2>1, SameTraining DEF TrainInv
    <2> QED
      BY <2>1, <2>2, NothingRecorded DEF TrainInv
  <1>2. CASE ContinuePreparation \/ \E v \in Version : BeginPreparation(v)
    BY <1>2, PreparationKeepsInv
  <1>3. CASE \E p \in Process : Train(p)
    <2>1. PICK p \in Process : Train(p)
      BY <1>3
    <2>2. CASE \E kind \in Kind, w \in Workflow \cup {None} : Start(p, kind, w)
      BY <2>2, StartKeepsInv
    <2>3. CASE VerifyData(p) \/ LoadData(p) \/ ClaimExperiment(p) \/ ConfigureTracking(p)
      BY <2>3, VerifyDataKeepsInv, LoadDataKeepsInv, ClaimExperimentKeepsInv,
         ConfigureTrackingKeepsInv
    <2>4. CASE FitModel(p) \/ SaveModel(p) \/ LogRun(p) \/ TagRun(p)
      BY <2>4, FitModelKeepsInv, SaveModelKeepsInv, LogRunKeepsInv, TagRunKeepsInv
    <2>5. CASE \/ RankCandidates(p) \/ WriteComparison(p) \/ PublishBaselines(p)
               \/ WriteRunManifest(p) \/ MergeLeaderboard(p) \/ Kill(p)
      BY <2>5, ReportingKeepsInv
    <2>6. CASE ReadLeaderboard(p)
      BY <2>6, ReadLeaderboardKeepsInv
    <2> QED
      BY <2>1, <2>2, <2>3, <2>4, <2>5, <2>6 DEF Train
  <1> QED
    BY <1>1, <1>2, <1>3 DEF Next

\* If nobody prepares data while a training takes it, a model is fitted and validated on
\* the two splits of the manifest that its artifacts and its MLflow run name, whatever
\* preparation was cut short before its training and whatever replaced the splits after
\* it had taken them (train_candidates.py:110-139, train_baseline.py:68-80).
THEOREM ModelsNameTheirData == ASSUME QuietData PROVE Spec => []TrainedOnRecordedData
  <1>1. TrainInv => TrainedOnRecordedData
    BY DEF TrainInv
  <1> QED
    BY <1>1, InitTrainInv, NextTrainInv, PTL DEF Spec

-----------------------------------------------------------------------------
\* Selection.

Distinct(models) == \A a, b \in models : a.name = b.name => a = b

Above(models) == {w \in models \X models : Outranks(w[1], w[2])}

LEMMA OutranksOrders ==
    ASSUME NEW models \in SUBSET ModelEvidence, Distinct(models)
    PROVE  Orders(Above(models), models)
  <1>1. \A a, b \in models : <<a, b>> \in Above(models) <=> Outranks(a, b)
    BY DEF Above
  <1>2. \A a \in models : /\ a.macro_f1 \in Int /\ a.weighted_f1 \in Int
                          /\ a.name \in ModelName /\ NameRank[a.name] \in Nat
    BY ExperimentsAssumption DEF ModelEvidence
  <1>3. \A a \in models : ~Outranks(a, a)
    BY <1>2 DEF Outranks
  <1>4. \A a, b, c \in models : Outranks(a, b) /\ Outranks(b, c) => Outranks(a, c)
    BY <1>2 DEF Outranks
  <1>5. \A a, b \in models : a = b \/ Outranks(a, b) \/ Outranks(b, a)
    <2>1. \A a, b \in models : NameRank[a.name] = NameRank[b.name] => a = b
      BY <1>2, ExperimentsAssumption DEF Distinct
    <2> QED
      BY <1>2, <2>1 DEF Outranks
  <1> QED
    BY <1>1, <1>3, <1>4, <1>5 DEF Orders

LEMMA OrderedIsSorted ==
    ASSUME NEW models \in SUBSET ModelEvidence, IsFiniteSet(models), Distinct(models)
    PROVE  SortedBy(Ordered(models), models, Above(models))
  <1>1. \A x \in models :
            UpTo(x, models, Above(models)) = {y \in models : y = x \/ Outranks(y, x)}
    BY DEF UpTo, Above
  <1>2. Ordered(models) = [k \in 1..Cardinality(models) |-> Ordered(models)[k]]
    <2> DEFINE kth(k) == CHOOSE x \in models :
                            Cardinality({y \in models : y = x \/ Outranks(y, x)}) = k
    <2>1. Ordered(models) = [k \in 1..Cardinality(models) |-> kth(k)]
      BY DEF Ordered, Ranked
    <2> HIDE DEF kth
    <2> QED
      BY <2>1
  <1>3. ASSUME NEW k \in 1..Cardinality(models),
               \E x \in models : Cardinality(UpTo(x, models, Above(models))) = k
        PROVE  /\ Ordered(models)[k] \in models
               /\ Cardinality(UpTo(Ordered(models)[k], models, Above(models))) = k
    <2>1. Ordered(models)[k] = CHOOSE x \in models :
              Cardinality({y \in models : y = x \/ Outranks(y, x)}) = k
      BY DEF Ordered, Ranked
    <2> QED
      BY <1>1, <1>3, <2>1
  <1> QED
    BY <1>2, <1>3, RankingSorts, OutranksOrders

\* The selection: no eligible candidate, or one that no eligible candidate outscores.
LEMMA SelectionIsBest ==
    ASSUME NEW models \in SUBSET ModelEvidence, IsFiniteSet(models), Distinct(models),
           Selection(models) # {}
    PROVE  \E c \in models : /\ Selection(models) = {c.name} /\ Eligible(c)
                             /\ \A d \in models : Eligible(d) => d.macro_f1 <= c.macro_f1
  <1> DEFINE able == {c \in models : Eligible(c)}
             order == Ordered(able)
  <1>1. /\ able \in SUBSET ModelEvidence /\ Distinct(able)
        /\ IsFiniteSet(able)
    BY FS_Subset DEF Distinct
  <1>2. SortedBy(order, able, Above(able))
    BY <1>1, OrderedIsSorted
  <1>3. order # <<>> /\ Selection(models) = {Head(order).name}
    BY DEF Selection
  <1> HIDE DEF able, order
  <1>4. Cardinality(able) \in Nat /\ order \in [1..Cardinality(able) -> able]
    BY <1>2 DEF SortedBy
  <1>5. Cardinality(able) # 0
    BY <1>3, <1>4
  <1>6. 1 \in 1..Cardinality(able) /\ order[1] \in able /\ Head(order) = order[1]
    BY <1>3, <1>4, <1>5
  <1>7. ASSUME NEW d \in able PROVE d.macro_f1 <= order[1].macro_f1
    <2>1. PICK k \in 1..Cardinality(able) : order[k] = d
      BY <1>2 DEF SortedBy
    <2>2. /\ d.macro_f1 \in Int /\ order[1].macro_f1 \in Int
      BY <1>1, <1>6 DEF ModelEvidence
    <2>3. CASE k = 1
      BY <2>1, <2>2, <2>3
    <2>4. CASE k # 1
      <3>1. <<order[1], order[k]>> \in Above(able)
        BY <1>2, <1>4, <1>6, <2>4 DEF SortedBy
      <3>2. Outranks(order[1], d)
        BY <2>1, <3>1 DEF Above
      <3> QED
        BY <2>2, <3>2 DEF Outranks
    <2> QED
      BY <2>3, <2>4
  <1>8. order[1] \in models /\ Eligible(order[1])
    BY <1>6 DEF able
  <1> QED
    BY <1>3, <1>6, <1>7, <1>8 DEF able

\* The rows of a leaderboard file.
IdOfExperiment == ({"baseline", "candidate"} \X Nat) \cup ({"workflow"} \X Workflow)
Row ==
    [rank : Nat, stage : {"", "stage5_baseline", "stage6_candidate"}, id : IdOfExperiment,
     name : ModelName, macro_f1 : Int, eligible : BOOLEAN \cup {None}, attempt : Nat,
     named : Version]

HigherRows(rows) ==
    {w \in (DOMAIN rows) \X (DOMAIN rows) : AboveInFile(rows, w[1], w[2])}

LEMMA HigherRowsPairs ==
    ASSUME NEW rows
    PROVE  \A i, j \in DOMAIN rows : <<i, j>> \in HigherRows(rows) <=> AboveInFile(rows, i, j)
  BY DEF HigherRows

LEMMA FileOrderOrders ==
    ASSUME NEW rows \in Seq(Row)
    PROVE  Orders(HigherRows(rows), DOMAIN rows) /\ IsFiniteSet(DOMAIN rows)
           /\ Cardinality(DOMAIN rows) = Len(rows)
  <1>1. Len(rows) \in Nat /\ DOMAIN rows = 1..Len(rows) /\ \A i \in 1..Len(rows) : rows[i] \in Row
    OBVIOUS
  <1>2. \A i, j \in DOMAIN rows : <<i, j>> \in HigherRows(rows) <=> AboveInFile(rows, i, j)
    BY HigherRowsPairs
  <1>3. ASSUME NEW i \in DOMAIN rows
        PROVE  /\ i \in Int /\ rows[i].macro_f1 \in Int
               /\ NameRank[rows[i].name] \in Nat /\ rows[i].name \in ModelName
    <2>1. rows[i] \in Row /\ i \in Int
      BY <1>1
    <2>2. rows[i].macro_f1 \in Int /\ rows[i].name \in ModelName
      BY <2>1 DEF Row
    <2> QED
      BY <2>1, <2>2, ExperimentsAssumption
  <1>4. \A i \in DOMAIN rows : ~AboveInFile(rows, i, i)
    BY <1>3 DEF AboveInFile
  <1>5. \A i, j, k \in DOMAIN rows :
            AboveInFile(rows, i, j) /\ AboveInFile(rows, j, k) => AboveInFile(rows, i, k)
    BY <1>3 DEF AboveInFile
  <1>6. \A i, j \in DOMAIN rows : i = j \/ AboveInFile(rows, i, j) \/ AboveInFile(rows, j, i)
    <2>1. \A i, j \in DOMAIN rows :
              NameRank[rows[i].name] = NameRank[rows[j].name] => rows[i].name = rows[j].name
      BY <1>3, ExperimentsAssumption
    <2> QED
      BY <1>3, <2>1 DEF AboveInFile
  <1> QED
    <2>1. Orders(HigherRows(rows), DOMAIN rows)
      BY <1>2, <1>4, <1>5, <1>6 DEF Orders
    <2>2. IsFiniteSet(1..Len(rows)) /\ Cardinality(1..Len(rows)) = Len(rows)
      <3>1. \A n \in Nat : IsFiniteSet(1..n) /\ Cardinality(1..n) = n
        BY FS_Interval
      <3> QED
        BY <1>1, <3>1
    <2> QED
      BY <1>1, <2>1, <2>2

LEMMA InFileOrderIsSorted ==
    ASSUME NEW rows \in Seq(Row)
    PROVE  SortedBy(InFileOrder(rows), DOMAIN rows, HigherRows(rows))
  <1> DEFINE S == DOMAIN rows
             order == InFileOrder(rows)
  <1>1. \A x \in S :
            UpTo(x, S, HigherRows(rows)) = {y \in S : y = x \/ AboveInFile(rows, y, x)}
    BY HigherRowsPairs DEF UpTo
  <1>2. order = [k \in 1..Cardinality(S) |-> order[k]]
    <2> DEFINE kth(k) == CHOOSE x \in S :
                            Cardinality({y \in S : y = x \/ AboveInFile(rows, y, x)}) = k
    <2>1. order = [k \in 1..Cardinality(S) |-> kth(k)]
      BY DEF InFileOrder, Ranked
    <2> HIDE DEF kth
    <2> QED
      BY <2>1
  <1>3. ASSUME NEW k \in 1..Cardinality(S),
               \E x \in S : Cardinality(UpTo(x, S, HigherRows(rows))) = k
        PROVE  /\ order[k] \in S
               /\ Cardinality(UpTo(order[k], S, HigherRows(rows))) = k
    <2>1. order[k] = CHOOSE x \in S :
              Cardinality({y \in S : y = x \/ AboveInFile(rows, y, x)}) = k
      BY DEF InFileOrder, Ranked
    <2> QED
      BY <1>1, <1>3, <2>1
  <1> QED
    BY <1>2, <1>3, RankingSorts, FileOrderOrders

\* The rows of one file are rows of another, each from a place of its own.
Copies(after, rows, place) ==
    /\ place \in [DOMAIN after -> DOMAIN rows]
    /\ \A i, j \in DOMAIN after : place[i] = place[j] => i = j
    /\ \A i \in DOMAIN after :
          /\ \A f \in {"id", "name", "macro_f1", "eligible", "attempt", "named"} :
                after[i][f] = rows[place[i]][f]
          /\ after[i].stage = "stage6_candidate" => rows[place[i]].stage = "stage6_candidate"

RankedFile(after) ==
    \A i, j \in DOMAIN after : /\ after[i].rank = i
                               /\ i < j => after[i].macro_f1 >= after[j].macro_f1

\* Sorting and ranking the file anew keeps its rows, each once, and puts the greater
\* macro F1 first.
LEMMA RerankedRows ==
    ASSUME NEW rows \in Seq(Row)
    PROVE  /\ Reranked(rows) \in Seq(Row) /\ RankedFile(Reranked(rows))
           /\ \E place : Copies(Reranked(rows), rows, place)
  <1> SUFFICES ASSUME NEW new, new = Reranked(rows)
               PROVE  new \in Seq(Row) /\ RankedFile(new) /\ \E place : Copies(new, rows, place)
    OBVIOUS
  <1> DEFINE n == Len(rows)
             order == InFileOrder(rows)
  <1>1. n \in Nat /\ DOMAIN rows = 1..n /\ Cardinality(DOMAIN rows) = n
        /\ \A i \in 1..n : rows[i] \in Row
    BY FileOrderOrders
  <1>2. SortedBy(order, 1..n, HigherRows(rows)) /\ Orders(HigherRows(rows), 1..n)
        /\ Cardinality(1..n) = n
    BY <1>1, InFileOrderIsSorted, FileOrderOrders
  <1>3. order \in [1..n -> 1..n]
    BY <1>2 DEF SortedBy
  <1>4. \A i, j \in 1..n : order[i] = order[j] => i = j
    BY <1>2, SortedIsInjective
  <1>5. /\ new = [i \in 1..n |-> [rows[order[i]] EXCEPT
            !.rank = i, !.stage = IF @ = "" THEN "stage5_baseline" ELSE @]]
    BY <1>1 DEF Reranked
  <1>9. \A i, j \in 1..n : i < j => AboveInFile(rows, order[i], order[j])
    BY <1>2 DEF SortedBy, HigherRows
  <1> HIDE DEF order
  <1>6. \A i \in 1..n :
            /\ new[i] \in Row /\ new[i].rank = i
            /\ \A f \in {"id", "name", "macro_f1", "eligible", "attempt", "named"} :
                    new[i][f] = rows[order[i]][f]
            /\ new[i].stage = "stage6_candidate" => rows[order[i]].stage = "stage6_candidate"
    <2> SUFFICES ASSUME NEW i \in 1..n
                 PROVE  /\ new[i] \in Row /\ new[i].rank = i
                        /\ \A f \in {"id", "name", "macro_f1", "eligible", "attempt", "named"} :
                                new[i][f] = rows[order[i]][f]
                        /\ new[i].stage = "stage6_candidate" =>
                                rows[order[i]].stage = "stage6_candidate"
      OBVIOUS
    <2>1. PICK row \in Row : row = rows[order[i]]
      BY <1>1, <1>3
    <2>2. new[i] = [row EXCEPT !.rank = i, !.stage = IF @ = "" THEN "stage5_baseline" ELSE @]
      BY <1>5, <2>1
    <2>3. /\ new[i].rank = i
          /\ new[i].stage = IF row.stage = "" THEN "stage5_baseline" ELSE row.stage
          /\ \A f \in {"id", "name", "macro_f1", "eligible", "attempt", "named"} : new[i][f] = row[f]
      BY <2>2 DEF Row
    <2>4. new[i].rank \in Nat /\ new[i].stage \in {"", "stage5_baseline", "stage6_candidate"}
      <3>1. row.stage \in {"", "stage5_baseline", "stage6_candidate"}
        BY DEF Row
      <3>2. i \in Nat
        BY <1>1
      <3> QED
        BY <2>3, <3>1, <3>2
    <2>5. new[i] \in Row
      BY <2>2, <2>3, <2>4 DEF Row
    <2> QED
      BY <2>1, <2>3, <2>5
  <1>7. DOMAIN new = 1..n /\ new \in Seq(Row)
    <2>1. new \in [1..n -> Row]
      BY <1>5, <1>6
    <2> QED
      BY <1>1, <2>1, SeqDef
  <1>8. ASSUME NEW i \in 1..n, NEW j \in 1..n, i < j
        PROVE  new[i].macro_f1 >= new[j].macro_f1
    <2>1. AboveInFile(rows, order[i], order[j])
      BY <1>9, <1>8
    <2>2. rows[order[i]].macro_f1 \in Int /\ rows[order[j]].macro_f1 \in Int
      BY <1>1, <1>3 DEF Row
    <2>3. rows[order[i]].macro_f1 >= rows[order[j]].macro_f1
      BY <2>1, <2>2 DEF AboveInFile
    <2>4. new[i].macro_f1 = rows[order[i]].macro_f1 /\ new[j].macro_f1 = rows[order[j]].macro_f1
      BY <1>6
    <2> QED
      BY <2>3, <2>4
  <1> QED
    <2>1. order \in [DOMAIN new -> DOMAIN rows]
      BY <1>1, <1>3, <1>7
    <2>2. Copies(new, rows, order)
      BY <1>4, <1>6, <1>7, <2>1 DEF Copies
    <2>3. RankedFile(new)
      BY <1>6, <1>7, <1>8 DEF RankedFile
    <2> QED
      BY <1>7, <2>2, <2>3

\* The rows kept are rows of the file, each from a place of its own, and none has one of
\* the new keys.
Others(kept, rows, keys, place) ==
    /\ place \in [DOMAIN kept -> DOMAIN rows]
    /\ \A i, j \in DOMAIN kept : place[i] = place[j] => i = j
    /\ \A i \in DOMAIN kept : /\ kept[i] = rows[place[i]]
                              /\ <<rows[place[i]].id, rows[place[i]].name>> \notin keys

LEMMA RetainedAreOthers ==
    ASSUME NEW rows \in Seq(Row), NEW keys
    PROVE  /\ RetainedRows(rows, keys) \in Seq(Row)
           /\ \E place : Others(RetainedRows(rows, keys), rows, keys, place)
  <1> DEFINE S == {i \in DOMAIN rows : <<rows[i].id, rows[i].name>> \notin keys}
             R == {w \in S \X S : w[1] < w[2]}
             order == Ranked(S, LAMBDA i, j : i < j)
             new == RetainedRows(rows, keys)
  <1>1. S \in SUBSET (1..Len(rows)) /\ Len(rows) \in Nat /\ \A i \in S : rows[i] \in Row
    OBVIOUS
  <1>2. IsFiniteSet(S)
    <2>1. IsFiniteSet(1..Len(rows))
      BY <1>1, FS_Interval
    <2> HIDE DEF S
    <2> QED
      BY <1>1, <2>1, FS_Subset
  <1>3. Orders(R, S)
    <2>1. \A x \in S : x \in Int
      BY <1>1
    <2>2. \A x, y \in S : <<x, y>> \in R <=> x < y
      OBVIOUS
    <2> HIDE DEF R, S
    <2> QED
      BY <2>1, <2>2 DEF Orders
  <1>4. \A x \in S : UpTo(x, S, R) = {y \in S : y = x \/ y < x}
    BY DEF UpTo
  <1>5. order = [k \in 1..Cardinality(S) |-> order[k]]
    <2> DEFINE kth(k) == CHOOSE x \in S : Cardinality({y \in S : y = x \/ y < x}) = k
    <2>1. order = [k \in 1..Cardinality(S) |-> kth(k)]
      BY DEF Ranked
    <2> HIDE DEF kth, S, order
    <2> QED
      BY <2>1
  <1>6. ASSUME NEW k \in 1..Cardinality(S), \E x \in S : Cardinality(UpTo(x, S, R)) = k
        PROVE  order[k] \in S /\ Cardinality(UpTo(order[k], S, R)) = k
    <2>1. order[k] = CHOOSE x \in S : Cardinality({y \in S : y = x \/ y < x}) = k
      BY DEF Ranked
    <2> HIDE DEF S, R, order
    <2> QED
      BY <1>4, <1>6, <2>1
  <1>7. SortedBy(order, S, R)
    <2> HIDE DEF S, R, order
    <2> QED
      BY <1>2, <1>3, <1>5, <1>6, RankingSorts
  <1>8. new = [k \in DOMAIN order |-> rows[order[k]]]
    BY DEF RetainedRows
  <1>9. /\ Cardinality(S) \in Nat /\ order \in [1..Cardinality(S) -> S]
        /\ \A i, j \in 1..Cardinality(S) : order[i] = order[j] => i = j
    <2> HIDE DEF S, R, order
    <2> QED
      BY <1>3, <1>7, SortedIsInjective DEF SortedBy
  <1> HIDE DEF order, new
  <1>10. \A i \in 1..Cardinality(S) : /\ order[i] \in DOMAIN rows /\ rows[order[i]] \in Row
                                     /\ <<rows[order[i]].id, rows[order[i]].name>> \notin keys
    BY <1>1, <1>9
  <1>11. new \in [1..Cardinality(S) -> Row]
    BY <1>8, <1>9, <1>10
  <1>12. new \in Seq(Row)
    BY <1>9, <1>11, SeqDef
  <1>13. DOMAIN new = 1..Cardinality(S) /\ order \in [DOMAIN new -> DOMAIN rows]
    BY <1>9, <1>10, <1>11
  <1> QED
    <2>1. \A i, j \in DOMAIN new : order[i] = order[j] => i = j
      BY <1>9, <1>13
    <2>2. \A i \in DOMAIN new : /\ new[i] = rows[order[i]]
                                /\ <<rows[order[i]].id, rows[order[i]].name>> \notin keys
      BY <1>8, <1>9, <1>10, <1>13
    <2>3. Others(new, rows, keys, order)
      BY <1>13, <2>1, <2>2 DEF Others
    <2> QED
      BY <1>12, <2>3 DEF new

-----------------------------------------------------------------------------
\* Places: what a training holds, by the place where it is.

\* Where a training has claimed its experiment, ...
Claimed == Fitting \cup {"track"}

\* ... has fitted every model, and what only candidates, or only baselines, come to.
Complete == {"rank", "tag", "report", "publish", "manifest", "board", "merge"}
CandidateOnly == {"track", "log", "rank", "tag", "report", "board", "merge"}
BaselineOnly == {"publish", "manifest"}

\* What a training holds, by the place where it is.
HandInv(p) ==
    LET n == Len(procs[p].results)
        all == Len(Models(procs[p].kind))
    IN  /\ procs[p].at = "ended" => procs[p] = Idle
        /\ procs[p].at # "ended" => procs[p].kind \in Kind /\ procs[p].attempt \in 1..attempts
        /\ procs[p].results \in Seq(Nat)
        /\ procs[p].at \notin Fitting => procs[p].results = <<>>
        /\ procs[p].at \in {"claim"} \cup Claimed =>
               procs[p].train \in Version /\ procs[p].validation \in Version
        /\ procs[p].at \in Fitting => procs[p].named \in Version
        /\ procs[p].at # "ended" /\ procs[p].kind = "baseline" => procs[p].named \in Version
        /\ procs[p].at # "ended" /\ procs[p].kind = "workflow" =>
               procs[p].id \in {"workflow"} \X Workflow
        /\ procs[p].at \in Claimed => procs[p].id \in IdOfExperiment /\ procs[p].id \in runs
        /\ procs[p].at \in CandidateOnly => procs[p].kind # "baseline"
        /\ procs[p].at \in BaselineOnly => procs[p].kind = "baseline"
        /\ procs[p].at = "fit" => n < all
        /\ procs[p].at \in {"save", "log"} => n \in 1..all
        /\ procs[p].at \in Complete => n = all
        /\ procs[p].at \notin {"tag", "report", "board", "merge"} => procs[p].tagged = 0
        /\ procs[p].at = "tag" => procs[p].tagged \in Nat /\ procs[p].tagged < Len(Candidate)
        /\ procs[p].at \in {"report", "board", "merge"} => procs[p].tagged = Len(Candidate)

\* Trainings under way have attempts and experiments of their own.
Apart(p, q) ==
    /\ procs[p].at # "ended" /\ procs[q].at # "ended" => procs[p].attempt # procs[q].attempt
    /\ procs[p].at \in Claimed /\ procs[q].at \in Claimed => procs[p].id # procs[q].id

KeyInv ==
    /\ now \in 0..MaxSeconds /\ attempts \in 0..MaxAttempts
    /\ splits \in [{"train", "validation", "manifest"} -> Version]
    /\ preparing \in Version \cup {None}
    /\ \A key \in DOMAIN artifacts : key[1] \in runs /\ key[2] \in ModelName
    /\ \A key \in DOMAIN tracked : key[1] \in 1..attempts
    /\ manifests \cup DOMAIN comparisons \subseteq runs

PlaceInv ==
    /\ \A p \in Process : HandInv(p)
    /\ \A p, q \in Process : p # q => Apart(p, q)
    /\ KeyInv

-----------------------------------------------------------------------------
\* Places.

LEMMA ModelsAreModels ==
    /\ Len(Candidate) \in Nat /\ Len(Candidate) # 0
    /\ \A kind : /\ Models(kind) \in Seq(ModelName)
                 /\ Len(Models(kind)) \in Nat /\ Len(Models(kind)) # 0
                 /\ kind # "baseline" => Models(kind) = Candidate
  BY ExperimentsAssumption DEF Models

LEMMA NothingInHand == <<>> \in Seq(Nat) /\ Len(<<>>) = 0
  OBVIOUS

LEMMA IdleIsInPlace == ASSUME NEW p, procs[p] = Idle PROVE HandInv(p)
  <1>1. /\ procs[p].at = "ended" /\ procs[p].results = <<>> /\ procs[p].tagged = 0
    BY DEF Idle
  <1>2. procs[p].at \notin {"claim"} \cup Claimed \cup Complete \cup CandidateOnly \cup BaselineOnly
    BY <1>1 DEF Claimed, Fitting, Complete, CandidateOnly, BaselineOnly
  <1> QED
    BY <1>1, <1>2, NothingInHand DEF HandInv, Fitting

LEMMA InitPlaceInv == Init => PlaceInv
  <1> SUFFICES ASSUME Init PROVE PlaceInv
    OBVIOUS
  <1>1. \A p \in Process : procs[p] = Idle
    BY DEF Init
  <1>2. \A p \in Process : HandInv(p)
    BY <1>1, IdleIsInPlace
  <1>3. \A p, q \in Process : Apart(p, q)
    BY <1>1 DEF Apart, Idle, Claimed, Fitting
  <1>4. KeyInv
    BY ExperimentsAssumption DEF Init, KeyInv
  <1> QED
    BY <1>2, <1>3, <1>4 DEF PlaceInv

\* What is said of a training speaks of it, of the trainings started and of the
\* experiments there are.
LEMMA SameHand ==
    ASSUME NEW p, HandInv(p), procs'[p] = procs[p], attempts \in Nat, attempts' \in Nat,
           attempts <= attempts', runs \subseteq runs'
    PROVE  HandInv(p)'
  BY DEF HandInv

LEMMA OthersKeepTheirPlaces ==
    ASSUME TrainInv, PlaceInv, NEW p \in Process, procs' = [procs EXCEPT ![p] = procs'[p]],
           attempts <= attempts', runs \subseteq runs', HandInv(p)', KeyInv',
           \A q \in Process \ {p} : Apart(p, q)'
    PROVE  PlaceInv'
  <1>1. \A q \in Process \ {p} : procs'[q] = procs[q]
    BY DEF TrainInv
  <1>2. attempts \in Nat /\ attempts' \in Nat
    BY DEF PlaceInv, KeyInv
  <1>3. \A q \in Process : HandInv(q)'
    BY <1>1, <1>2, SameHand DEF PlaceInv
  <1>4. \A q, r \in Process : q # r => Apart(q, r)'
    BY <1>1 DEF PlaceInv, Apart
  <1> QED
    BY <1>3, <1>4 DEF PlaceInv

\* A training that ends leaves its place.
LEMMA EndKeepsPlaces ==
    ASSUME TrainInv, PlaceInv, NEW p \in Process, End(p), UNCHANGED <<attempts, runs>>, KeyInv'
    PROVE  PlaceInv'
  <1>1. procs'[p] = Idle /\ procs' = [procs EXCEPT ![p] = procs'[p]]
    BY DEF End, TrainInv
  <1>2. HandInv(p)'
    BY <1>1 DEF HandInv, Idle, Fitting, Claimed, Complete, CandidateOnly, BaselineOnly
  <1>3. \A q \in Process \ {p} : Apart(p, q)'
    BY <1>1 DEF Apart, Idle, Claimed, Fitting
  <1>4. attempts <= attempts'
    BY DEF PlaceInv, KeyInv
  <1> QED
    BY <1>1, <1>2, <1>3, <1>4, OthersKeepTheirPlaces

\* A training that goes on keeps its attempt and the experiment it has claimed.
LEMMA GoingOnKeepsPlaces ==
    ASSUME TrainInv, PlaceInv, NEW p \in Process, procs[p].at # "ended",
           procs' = [procs EXCEPT ![p] = procs'[p]], procs'[p].attempt = procs[p].attempt,
           procs'[p].at \in Claimed => procs[p].at \in Claimed /\ procs'[p].id = procs[p].id,
           UNCHANGED <<attempts, runs>>, HandInv(p)', KeyInv'
    PROVE  PlaceInv'
  <1>1. \A q \in Process \ {p} : procs'[q] = procs[q]
    BY DEF TrainInv
  <1>2. \A q \in Process \ {p} : Apart(p, q)'
    BY <1>1 DEF PlaceInv, Apart
  <1>3. attempts <= attempts'
    BY DEF PlaceInv, KeyInv
  <1> QED
    BY <1>2, <1>3, OthersKeepTheirPlaces

\* Goto changes the place and nothing else of a training.
LEMMA GotoMoves ==
    ASSUME TrainInv, NEW p \in Process, NEW at, Goto(p, at)
    PROVE  /\ procs' = [procs EXCEPT ![p] = procs'[p]]
           /\ DOMAIN procs'[p] = Field /\ DOMAIN procs[p] = Field /\ procs'[p].at = at
           /\ \A f \in Field \ {"at"} : procs'[p][f] = procs[p][f]
  <1>1. procs'[p] = [procs[p] EXCEPT !.at = at]
    BY DEF Goto, TrainInv
  <1>2. procs' = [procs EXCEPT ![p] = procs'[p]]
    BY <1>1 DEF Goto, TrainInv
  <1>3. DOMAIN procs[p] = Field /\ "at" \in Field
    BY FieldIsField DEF TrainInv, TrainingInv
  <1> QED
    BY <1>1, <1>2, <1>3

\* Steps that touch no records keep what is said of their keys.
LEMMA SameKeys ==
    ASSUME KeyInv, UNCHANGED <<now, data, attempts, outputs>> PROVE KeyInv'
  BY DEF KeyInv, data, outputs

LEMMA StartKeepsPlaces ==
    ASSUME TrainInv, PlaceInv, NEW p \in Process, NEW kind \in Kind,
           NEW w \in Workflow \cup {None}, Start(p, kind, w)
    PROVE  PlaceInv'
  <1>1. /\ attempts' = attempts + 1 /\ attempts < MaxAttempts /\ UNCHANGED <<now, data, outputs>>
        /\ (kind = "workflow") = (w # None) /\ procs[p].at = "ended"
    BY DEF Start
  <1>2. /\ procs' = [procs EXCEPT ![p] = procs'[p]]
        /\ procs'[p] = [Idle EXCEPT
                    !.at = "verify", !.kind = kind, !.attempt = attempts + 1,
                    !.id = IF kind = "workflow" THEN <<kind, w>> ELSE None,
                    !.manifest = splits.manifest,
                    !.named = IF kind = "baseline" THEN splits.manifest ELSE 0]
    BY DEF Start, TrainInv
  <1>3. /\ procs'[p].at = "verify" /\ procs'[p].kind = kind /\ procs'[p].attempt = attempts + 1
        /\ procs'[p].results = <<>> /\ procs'[p].tagged = 0
        /\ kind = "workflow" => procs'[p].id = <<kind, w>>
        /\ kind = "baseline" => procs'[p].named = splits.manifest
    BY <1>2 DEF Idle
  <1>4. attempts \in Nat /\ MaxAttempts \in Nat /\ attempts <= MaxAttempts
    BY ExperimentsAssumption DEF PlaceInv, KeyInv
  <1>5. HandInv(p)'
    <2>1. kind = "workflow" => procs'[p].id \in {"workflow"} \X Workflow
      <3>1. kind = "workflow" => w \in Workflow
        BY <1>1
      <3>2. w \in Workflow => <<"workflow", w>> \in {"workflow"} \X Workflow
        OBVIOUS
      <3> QED
        BY <1>3, <3>1, <3>2
    <2>2. attempts' \in Nat /\ procs'[p].attempt \in 1..attempts'
      BY <1>1, <1>3, <1>4
    <2>3. procs'[p].at \notin {"claim"} \cup Claimed \cup Complete \cup CandidateOnly \cup BaselineOnly
      BY <1>3 DEF Claimed, Fitting, Complete, CandidateOnly, BaselineOnly
    <2>4. procs'[p].at \notin Fitting /\ kind \in Kind
      BY <1>3 DEF Fitting
    <2>5. kind = "baseline" => procs'[p].named \in Version
      BY <1>3 DEF PlaceInv, KeyInv
    <2> QED
      BY <1>3, <2>1, <2>2, <2>3, <2>4, <2>5, NothingInHand DEF HandInv
  <1>6. \A q \in Process \ {p} : Apart(p, q)'
    <2>1. \A q \in Process \ {p} : procs'[q] = procs[q]
      BY <1>2 DEF TrainInv
    <2>2. \A q \in Process : procs[q].at # "ended" => procs[q].attempt \in 1..attempts
      BY DEF PlaceInv, HandInv
    <2> QED
      BY <1>3, <1>4, <2>1, <2>2 DEF Apart, Claimed, Fitting
  <1>7. KeyInv'
    BY <1>1, <1>4 DEF PlaceInv, KeyInv, data, outputs
  <1> QED
    BY <1>1, <1>2, <1>4, <1>5, <1>6, <1>7, OthersKeepTheirPlaces DEF outputs

LEMMA VerifyDataKeepsPlaces ==
    ASSUME TrainInv, PlaceInv, NEW p \in Process, VerifyData(p) PROVE PlaceInv'
  <1>1. procs[p].at = "verify" /\ UNCHANGED <<now, data, attempts, outputs>> /\ UNCHANGED runs
    BY DEF VerifyData, outputs
  <1>2. KeyInv'
    BY <1>1, SameKeys DEF PlaceInv
  <1>3. CASE End(p)
    BY <1>1, <1>2, <1>3, EndKeepsPlaces
  <1>4. CASE Goto(p, "load")
    <2>1. /\ procs' = [procs EXCEPT ![p] = procs'[p]] /\ procs'[p].at = "load"
          /\ \A f \in Field \ {"at"} : procs'[p][f] = procs[p][f]
      BY <1>4, GotoMoves
    <2>2. HandInv(p)'
      BY <1>1, <2>1, FieldIsField
         DEF PlaceInv, HandInv, Fitting, Claimed, Complete, CandidateOnly, BaselineOnly
    <2> QED
      BY <1>1, <1>2, <2>1, <2>2, FieldIsField, GoingOnKeepsPlaces DEF Claimed, Fitting
  <1> QED
    BY <1>3, <1>4 DEF VerifyData

LEMMA LoadDataKeepsPlaces ==
    ASSUME TrainInv, PlaceInv, NEW p \in Process, LoadData(p) PROVE PlaceInv'
  <1>1. procs[p].at = "load" /\ UNCHANGED <<now, data, attempts, outputs>> /\ UNCHANGED runs
    BY DEF LoadData, outputs
  <1>2. KeyInv'
    BY <1>1, SameKeys DEF PlaceInv
  <1>3. DOMAIN procs[p] = Field
    BY DEF TrainInv, TrainingInv
  <1>4. /\ procs' = [procs EXCEPT ![p] = procs'[p]]
        /\ procs'[p] = [procs[p] EXCEPT !.at = "claim", !.train = splits.train,
                                        !.validation = splits.validation]
    BY DEF LoadData, TrainInv
  <1>5. /\ procs'[p].at = "claim" /\ procs'[p].train = splits.train
        /\ procs'[p].validation = splits.validation
        /\ \A f \in Field \ {"at", "train", "validation"} : procs'[p][f] = procs[p][f]
    BY <1>3, <1>4, FieldIsField
  <1>6. splits.train \in Version /\ splits.validation \in Version
    BY DEF PlaceInv, KeyInv
  <1>7. HandInv(p)'
    BY <1>1, <1>5, <1>6, FieldIsField
       DEF PlaceInv, HandInv, Fitting, Claimed, Complete, CandidateOnly, BaselineOnly
  <1> QED
    BY <1>1, <1>2, <1>4, <1>5, <1>7, FieldIsField, GoingOnKeepsPlaces DEF Claimed, Fitting

LEMMA ClaimExperimentKeepsPlaces ==
    ASSUME TrainInv, PlaceInv, NEW p \in Process, ClaimExperiment(p) PROVE PlaceInv'
  <1> DEFINE id == ExperimentId(p)
  <1>1. /\ procs[p].at = "claim" /\ UNCHANGED <<now, data, attempts>>
        /\ UNCHANGED <<artifacts, tracked, comparisons, manifests>>
    BY DEF ClaimExperiment
  <1>2. HandInv(p) /\ DOMAIN procs[p] = Field
    BY DEF PlaceInv, TrainInv, TrainingInv
  <1>3. id \in IdOfExperiment
    <2>1. procs[p].kind \in Kind /\ procs[p].attempt \in Nat /\ now \in Nat
      BY <1>1, <1>2, ExperimentsAssumption DEF HandInv, PlaceInv, KeyInv
    <2>2. procs[p].kind = "workflow" => procs[p].id \in {"workflow"} \X Workflow
      BY <1>1, <1>2 DEF HandInv
    <2> QED
      BY <2>1, <2>2 DEF ExperimentId, IdOfExperiment, Kind
  <1>4. CASE MayMake(id, runs)
    <2>1. /\ runs' = runs \cup {id}
          /\ procs' = [procs EXCEPT ![p].id = id,
                           ![p].at = IF procs[p].kind = "baseline" THEN "fit" ELSE "track"]
      BY <1>4 DEF ClaimExperiment
    <2>2. /\ procs' = [procs EXCEPT ![p] = procs'[p]]
          /\ procs'[p].id = id
          /\ procs'[p].at = IF procs[p].kind = "baseline" THEN "fit" ELSE "track"
          /\ \A f \in Field \ {"at", "id"} : procs'[p][f] = procs[p][f]
      BY <1>2, <2>1, FieldIsField DEF TrainInv
    <2>3. KeyInv'
      BY <1>1, <2>1 DEF PlaceInv, KeyInv, data
    <2>4. HandInv(p)'
      <3>1. procs[p].results = <<>> /\ procs[p].tagged = 0
        BY <1>1, <1>2 DEF HandInv, Fitting
      <3>2. procs'[p].at \in {"fit", "track"}
        BY <2>2
      <3>3. procs'[p].kind = "workflow" => procs'[p].id \in {"workflow"} \X Workflow
        BY <1>1, <1>2, <2>2, FieldIsField DEF HandInv, ExperimentId
      <3>4. /\ procs'[p].results = <<>> /\ procs'[p].tagged = 0 /\ procs'[p].id = id
            /\ procs'[p].kind = procs[p].kind /\ procs'[p].attempt = procs[p].attempt
            /\ procs'[p].train = procs[p].train /\ procs'[p].validation = procs[p].validation
            /\ procs'[p].named = procs[p].named
        BY <2>2, <3>1, FieldIsField
      <3>5. /\ procs[p].kind = "baseline" => procs[p].named \in Version
            /\ procs[p].kind \in Kind /\ procs[p].attempt \in 1..attempts'
            /\ procs[p].train \in Version /\ procs[p].validation \in Version
            /\ id \in runs'
        BY <1>1, <1>2, <2>1 DEF HandInv
      <3>6. 0 < Len(Models(procs'[p].kind))
        BY ModelsAreModels
      <3>7. procs'[p].at = "track" <=> procs'[p].kind # "baseline"
        BY <2>2, <3>4
      <3> QED
        BY <1>3, <3>2, <3>3, <3>4, <3>5, <3>6, <3>7, NothingInHand
           DEF HandInv, Fitting, Claimed, Complete, CandidateOnly, BaselineOnly
    <2>5. \A q \in Process \ {p} : Apart(p, q)'
      <3>1. \A q \in Process \ {p} : procs'[q] = procs[q]
        BY <2>2 DEF TrainInv
      <3>2. \A q \in Process : procs[q].at \in Claimed => procs[q].id \in runs
        BY DEF PlaceInv, HandInv
      <3>3. id \notin runs
        BY <1>4 DEF MayMake
      <3> QED
        BY <1>1, <2>2, <3>1, <3>2, <3>3, FieldIsField DEF PlaceInv, Apart
    <2>6. attempts <= attempts' /\ runs \subseteq runs'
      BY <1>1, <2>1 DEF PlaceInv, KeyInv
    <2> QED
      BY <2>2, <2>3, <2>4, <2>5, <2>6, OthersKeepTheirPlaces
  <1>5. CASE ~MayMake(id, runs)
    <2>1. End(p) /\ UNCHANGED runs
      BY <1>5 DEF ClaimExperiment
    <2>2. KeyInv'
      BY <1>1, <2>1 DEF PlaceInv, KeyInv, data
    <2> QED
      BY <1>1, <2>1, <2>2, EndKeepsPlaces
  <1> QED
    BY <1>4, <1>5

LEMMA ConfigureTrackingKeepsPlaces ==
    ASSUME TrainInv, PlaceInv, NEW p \in Process, ConfigureTracking(p) PROVE PlaceInv'
  <1>1. procs[p].at = "track" /\ UNCHANGED <<now, data, attempts, outputs>> /\ UNCHANGED runs
    BY DEF ConfigureTracking, outputs
  <1>2. KeyInv'
    BY <1>1, SameKeys DEF PlaceInv
  <1>3. CASE End(p)
    BY <1>1, <1>2, <1>3, EndKeepsPlaces
  <1>4. CASE ~End(p)
    <2>1. procs' = [procs EXCEPT ![p].at = "fit", ![p].named = splits.manifest]
      BY <1>4 DEF ConfigureTracking
    <2>2. DOMAIN procs[p] = Field
      BY DEF TrainInv, TrainingInv
    <2>3. /\ procs' = [procs EXCEPT ![p] = procs'[p]] /\ procs'[p].at = "fit"
          /\ procs'[p].named = splits.manifest
          /\ \A f \in Field \ {"at", "named"} : procs'[p][f] = procs[p][f]
      BY <2>1, <2>2, FieldIsField DEF TrainInv
    <2>4. HandInv(p)'
      <3>1. procs[p].results = <<>> /\ procs[p].tagged = 0
        BY <1>1 DEF PlaceInv, HandInv, Fitting
      <3>2. procs'[p].named \in Version
        BY <2>3 DEF PlaceInv, KeyInv
      <3> QED
        BY <1>1, <2>3, <3>1, <3>2, FieldIsField, NothingInHand, ModelsAreModels
           DEF PlaceInv, HandInv, Fitting, Claimed, Complete, CandidateOnly, BaselineOnly
    <2> QED
      BY <1>1, <1>2, <2>3, <2>4, FieldIsField, GoingOnKeepsPlaces DEF Claimed, Fitting
  <1> QED
    BY <1>3, <1>4

\* A training that fits goes to another place with what it has.
LEMMA GotoKeepsPlaces ==
    ASSUME TrainInv, PlaceInv, NEW p \in Process, NEW at \in Fitting, procs[p].at \in Fitting,
           Goto(p, at), UNCHANGED <<attempts, runs>>, KeyInv',
           at = "fit" => Len(procs[p].results) < Len(Models(procs[p].kind)),
           at \in {"save", "log"} => Len(procs[p].results) \in 1..Len(Models(procs[p].kind)),
           at \in Complete => Len(procs[p].results) = Len(Models(procs[p].kind)),
           at \in CandidateOnly => procs[p].kind # "baseline",
           at \in BaselineOnly => procs[p].kind = "baseline",
           at \notin {"tag", "report", "board", "merge"} => procs[p].tagged = 0,
           at = "tag" => procs[p].tagged \in Nat /\ procs[p].tagged < Len(Candidate),
           at \in {"report", "board", "merge"} => procs[p].tagged = Len(Candidate)
    PROVE  PlaceInv'
  <1>1. /\ procs' = [procs EXCEPT ![p] = procs'[p]] /\ procs'[p].at = at
        /\ \A f \in Field \ {"at"} : procs'[p][f] = procs[p][f]
    BY GotoMoves
  <1>2. /\ procs'[p].kind = procs[p].kind /\ procs'[p].attempt = procs[p].attempt
        /\ procs'[p].id = procs[p].id /\ procs'[p].train = procs[p].train
        /\ procs'[p].validation = procs[p].validation /\ procs'[p].named = procs[p].named
        /\ procs'[p].results = procs[p].results /\ procs'[p].tagged = procs[p].tagged
    BY <1>1, FieldIsField
  <1>3. /\ procs[p].at \in Claimed /\ at \in Claimed /\ at \in Fitting /\ at # "ended"
        /\ procs[p].at # "ended"
    BY DEF Claimed, Fitting
  <1>4. HandInv(p)'
    BY <1>1, <1>2, <1>3 DEF PlaceInv, HandInv, Models
  <1> QED
    BY <1>1, <1>2, <1>3, <1>4, GoingOnKeepsPlaces

\* What a benchmark measures is a number.
LEMMA BenchmarkIsNat == \A kind \in Kind : Benchmark(kind) \subseteq Nat
  <1>1. Latency \subseteq Nat
    BY ExperimentsAssumption
  <1> QED
    BY <1>1, SMTT(30) DEF Benchmark

LEMMA FitModelKeepsPlaces ==
    ASSUME TrainInv, PlaceInv, NEW p \in Process, FitModel(p) PROVE PlaceInv'
  <1> DEFINE n == Len(procs[p].results)
             name == Models(procs[p].kind)[n + 1]
  <1>1. PICK ms \in Benchmark(procs[p].kind) :
            IF MayMake(<<procs[p].id, name>>, DOMAIN artifacts)
            THEN /\ artifacts' = Extend(artifacts, <<procs[p].id, name>>, None)
                 /\ procs' = [procs EXCEPT ![p].at = "save", ![p].results = Append(@, ms)]
            ELSE End(p) /\ UNCHANGED artifacts
    BY DEF FitModel
  <1>2. /\ procs[p].at = "fit" /\ UNCHANGED <<now, data, attempts>>
        /\ UNCHANGED <<runs, tracked, comparisons, manifests>>
    BY DEF FitModel
  <1>3. HandInv(p) /\ DOMAIN procs[p] = Field /\ KeyInv
    BY DEF PlaceInv, TrainInv, TrainingInv
  <1>4. /\ procs[p].results \in Seq(Nat) /\ n < Len(Models(procs[p].kind))
        /\ procs[p].id \in runs /\ procs[p].kind \in Kind
    BY <1>2, <1>3 DEF HandInv, Claimed, Fitting
  <1>5. n \in Nat /\ n + 1 \in 1..Len(Models(procs[p].kind)) /\ name \in ModelName
    BY <1>4, ModelsAreModels
  <1>6. CASE MayMake(<<procs[p].id, name>>, DOMAIN artifacts)
    <2>1. /\ artifacts' = Extend(artifacts, <<procs[p].id, name>>, None)
          /\ procs' = [procs EXCEPT ![p].at = "save", ![p].results = Append(@, ms)]
      BY <1>1, <1>6
    <2>2. /\ procs' = [procs EXCEPT ![p] = procs'[p]] /\ procs'[p].at = "save"
          /\ procs'[p].results = Append(procs[p].results, ms)
          /\ \A f \in Field \ {"at", "results"} : procs'[p][f] = procs[p][f]
      BY <1>3, <2>1, FieldIsField DEF TrainInv
    <2>3. KeyInv'
      <3>1. \A key \in DOMAIN artifacts' : key \in DOMAIN artifacts \/ key = <<procs[p].id, name>>
        BY <2>1 DEF Extend
      <3>2. \A key \in DOMAIN artifacts' : key[1] \in runs' /\ key[2] \in ModelName
        BY <1>2, <1>3, <1>4, <1>5, <3>1 DEF KeyInv
      <3> QED
        BY <1>2, <1>3, <3>2 DEF KeyInv, data
    <2>4. ms \in Nat
      BY <1>4, BenchmarkIsNat
    <2>5. procs'[p].results \in Seq(Nat) /\ Len(procs'[p].results) = n + 1
      BY <1>4, <2>2, <2>4
    <2>6. /\ procs'[p].kind = procs[p].kind /\ procs'[p].attempt = procs[p].attempt
          /\ procs'[p].id = procs[p].id /\ procs'[p].train = procs[p].train
          /\ procs'[p].validation = procs[p].validation /\ procs'[p].tagged = procs[p].tagged
          /\ procs'[p].named = procs[p].named
      BY <2>2, FieldIsField
    <2>7. HandInv(p)'
      <3>1. procs'[p].at \in Fitting /\ procs'[p].at \in Claimed /\ procs[p].at \in Claimed
        BY <1>2, <2>2 DEF Claimed, Fitting
      <3>2. procs'[p].at \notin Complete \cup CandidateOnly \cup BaselineOnly
        BY <2>2 DEF Complete, CandidateOnly, BaselineOnly
      <3>3. Len(procs'[p].results) \in 1..Len(Models(procs'[p].kind))
        BY <1>5, <2>5, <2>6
      <3>4. procs'[p].named \in Version
        BY <1>2, <1>3, <2>6 DEF HandInv, Fitting
      <3> QED
        BY <1>2, <1>3, <2>2, <2>5, <2>6, <3>1, <3>2, <3>3, <3>4 DEF HandInv
    <2> QED
      BY <1>2, <2>2, <2>3, <2>6, <2>7, GoingOnKeepsPlaces DEF Claimed, Fitting
  <1>7. CASE ~MayMake(<<procs[p].id, name>>, DOMAIN artifacts)
    <2>1. End(p) /\ UNCHANGED artifacts
      BY <1>1, <1>7
    <2>2. KeyInv'
      BY <1>2, <1>3, <2>1 DEF KeyInv, data
    <2> QED
      BY <1>2, <2>1, <2>2, EndKeepsPlaces
  <1> QED
    BY <1>6, <1>7

LEMMA SaveModelKeepsPlaces ==
    ASSUME TrainInv, PlaceInv, NEW p \in Process, SaveModel(p) PROVE PlaceInv'
  <1>1. /\ procs[p].at = "save" /\ UNCHANGED <<now, data, attempts>>
        /\ UNCHANGED <<runs, tracked, comparisons, manifests>>
        /\ DOMAIN artifacts' = DOMAIN artifacts
    BY DEF SaveModel
  <1>2. KeyInv'
    BY <1>1 DEF PlaceInv, KeyInv, data
  <1>3. /\ Len(procs[p].results) \in 1..Len(Models(procs[p].kind)) /\ procs[p].tagged = 0
        /\ procs[p].at \in Fitting
    BY <1>1 DEF PlaceInv, HandInv, Fitting
  <1>4. Len(Models(procs[p].kind)) \in Nat
    BY ModelsAreModels
  <1>5. CASE procs[p].kind = "baseline"
    <2>1. CASE Len(procs[p].results) < Len(Models(procs[p].kind))
      <3>1. Goto(p, "fit")
        BY <1>5, <2>1 DEF SaveModel, NextModel
      <3> QED
        BY <1>1, <1>2, <1>3, <2>1, <3>1, GotoKeepsPlaces
           DEF Fitting, Complete, CandidateOnly, BaselineOnly
    <2>2. CASE ~(Len(procs[p].results) < Len(Models(procs[p].kind)))
      <3>1. Goto(p, "publish")
        BY <1>5, <2>2 DEF SaveModel, NextModel
      <3>2. Len(procs[p].results) = Len(Models(procs[p].kind))
        BY <1>3, <1>4, <2>2
      <3> QED
        BY <1>1, <1>2, <1>3, <1>5, <3>1, <3>2, GotoKeepsPlaces
           DEF Fitting, Complete, CandidateOnly, BaselineOnly
    <2> QED
      BY <2>1, <2>2
  <1>6. CASE procs[p].kind # "baseline"
    <2>1. Goto(p, "log")
      BY <1>6 DEF SaveModel
    <2> QED
      BY <1>1, <1>2, <1>3, <1>6, <2>1, GotoKeepsPlaces
         DEF Fitting, Complete, CandidateOnly, BaselineOnly
  <1> QED
    BY <1>5, <1>6

LEMMA LogRunKeepsPlaces ==
    ASSUME TrainInv, PlaceInv, NEW p \in Process, LogRun(p) PROVE PlaceInv'
  <1> DEFINE key == TrackingRun(p, Len(procs[p].results))
  <1>1. PICK finished, run :
            /\ finished \in BOOLEAN
            /\ tracked' = Extend(tracked, key, run)
            /\ IF finished THEN Goto(p, NextModel(p, "rank")) ELSE End(p)
    BY DEF LogRun
  <1>2. /\ procs[p].at = "log" /\ UNCHANGED <<now, data, attempts>>
        /\ UNCHANGED <<runs, artifacts, comparisons, manifests>>
    BY DEF LogRun
  <1>3. /\ Len(procs[p].results) \in 1..Len(Models(procs[p].kind)) /\ procs[p].tagged = 0
        /\ procs[p].at \in Fitting /\ procs[p].kind # "baseline"
        /\ procs[p].attempt \in 1..attempts
    BY <1>2 DEF PlaceInv, HandInv, Fitting, CandidateOnly
  <1>4. KeyInv'
    <2>1. \A k \in DOMAIN tracked' : k \in DOMAIN tracked \/ k = key
      BY <1>1 DEF Extend
    <2>2. key[1] = procs[p].attempt
      BY DEF TrackingRun
    <2>3. \A k \in DOMAIN tracked' : k[1] \in 1..attempts'
      BY <1>2, <1>3, <2>1, <2>2 DEF PlaceInv, KeyInv
    <2> QED
      BY <1>2, <2>3 DEF PlaceInv, KeyInv, data
  <1>5. CASE ~finished
    BY <1>1, <1>2, <1>4, <1>5, EndKeepsPlaces
  <1>6. CASE finished
    <2>1. CASE Len(procs[p].results) < Len(Models(procs[p].kind))
      <3>1. Goto(p, "fit")
        BY <1>1, <1>6, <2>1 DEF NextModel
      <3> QED
        BY <1>2, <1>3, <1>4, <2>1, <3>1, GotoKeepsPlaces
           DEF Fitting, Complete, CandidateOnly, BaselineOnly
    <2>2. CASE ~(Len(procs[p].results) < Len(Models(procs[p].kind)))
      <3>1. Goto(p, "rank")
        BY <1>1, <1>6, <2>2 DEF NextModel
      <3>2. Len(procs[p].results) = Len(Models(procs[p].kind))
        BY <1>3, <2>2, ModelsAreModels
      <3> QED
        BY <1>2, <1>3, <1>4, <3>1, <3>2, GotoKeepsPlaces
           DEF Fitting, Complete, CandidateOnly, BaselineOnly
    <2> QED
      BY <2>1, <2>2
  <1> QED
    BY <1>5, <1>6

LEMMA RankCandidatesKeepsPlaces ==
    ASSUME TrainInv, PlaceInv, NEW p \in Process, RankCandidates(p) PROVE PlaceInv'
  <1>1. procs[p].at = "rank" /\ UNCHANGED <<now, data, attempts, outputs>> /\ UNCHANGED runs
    BY DEF RankCandidates, outputs
  <1>2. KeyInv'
    BY <1>1, SameKeys DEF PlaceInv
  <1>3. CASE End(p)
    BY <1>1, <1>2, <1>3, EndKeepsPlaces
  <1>4. CASE Goto(p, "tag")
    <2>1. /\ Len(procs[p].results) = Len(Models(procs[p].kind)) /\ procs[p].kind # "baseline"
          /\ procs[p].tagged = 0
      BY <1>1 DEF PlaceInv, HandInv, Complete, CandidateOnly
    <2> QED
      BY <1>1, <1>2, <1>4, <2>1, ModelsAreModels, GotoKeepsPlaces
         DEF Fitting, BaselineOnly
  <1> QED
    BY <1>3, <1>4 DEF RankCandidates

LEMMA TagRunKeepsPlaces ==
    ASSUME TrainInv, PlaceInv, NEW p \in Process, TagRun(p) PROVE PlaceInv'
  <1> DEFINE i == procs[p].tagged + 1
  <1>1. /\ procs[p].at = "tag" /\ UNCHANGED <<now, data, attempts>>
        /\ UNCHANGED <<runs, artifacts, comparisons, manifests>>
        /\ DOMAIN tracked' = DOMAIN tracked
    BY DEF TagRun
  <1>2. HandInv(p) /\ DOMAIN procs[p] = Field /\ KeyInv
    BY DEF PlaceInv, TrainInv, TrainingInv
  <1>3. KeyInv'
    BY <1>1, <1>2 DEF KeyInv, data
  <1>4. /\ procs' = [procs EXCEPT ![p] = procs'[p]] /\ procs'[p].tagged = i
        /\ procs'[p].at = IF i = Len(Candidate) THEN "report" ELSE "tag"
        /\ \A f \in Field \ {"at", "tagged"} : procs'[p][f] = procs[p][f]
    BY <1>2, FieldIsField DEF TagRun, TrainInv
  <1>5. /\ procs'[p].kind = procs[p].kind /\ procs'[p].attempt = procs[p].attempt
        /\ procs'[p].id = procs[p].id /\ procs'[p].train = procs[p].train
        /\ procs'[p].validation = procs[p].validation /\ procs'[p].results = procs[p].results
        /\ procs'[p].named = procs[p].named
    BY <1>4, FieldIsField
  <1>6. HandInv(p)'
    <2>1. /\ Len(procs[p].results) = Len(Models(procs[p].kind)) /\ procs[p].kind # "baseline"
          /\ procs[p].tagged \in Nat /\ procs[p].tagged < Len(Candidate)
      BY <1>1, <1>2 DEF HandInv, Complete, CandidateOnly
    <2>2. i \in Nat /\ (i = Len(Candidate) \/ i < Len(Candidate))
      BY <2>1, ModelsAreModels
    <2>3. procs'[p].at \in {"report", "tag"}
      BY <1>4
    <2>4. /\ procs'[p].at \in Fitting /\ procs'[p].at \in Claimed /\ procs[p].at \in Claimed
          /\ procs'[p].at \in Complete /\ procs'[p].at \in CandidateOnly
          /\ procs'[p].at \notin BaselineOnly
      BY <1>1, <2>3 DEF Claimed, Fitting, Complete, CandidateOnly, BaselineOnly
    <2>5. procs'[p].named \in Version
      BY <1>1, <1>2, <1>5 DEF HandInv, Fitting
    <2> QED
      BY <1>1, <1>2, <1>4, <1>5, <2>1, <2>2, <2>3, <2>4, <2>5 DEF HandInv
  <1> QED
    BY <1>1, <1>3, <1>4, <1>5, <1>6, GoingOnKeepsPlaces DEF Claimed, Fitting

LEMMA WriteComparisonKeepsPlaces ==
    ASSUME TrainInv, PlaceInv, NEW p \in Process, WriteComparison(p) PROVE PlaceInv'
  <1>1. /\ procs[p].at = "report" /\ UNCHANGED <<now, data, attempts>> /\ Goto(p, "board")
        /\ UNCHANGED <<runs, artifacts, tracked, manifests>>
    BY DEF WriteComparison
  <1>2. DOMAIN comparisons' = DOMAIN comparisons \cup {procs[p].id}
    BY DEF WriteComparison, Extend
  <1>3. /\ Len(procs[p].results) = Len(Models(procs[p].kind)) /\ procs[p].kind # "baseline"
        /\ procs[p].tagged = Len(Candidate) /\ procs[p].id \in runs
    BY <1>1 DEF PlaceInv, HandInv, Complete, CandidateOnly, Claimed, Fitting
  <1>4. KeyInv'
    BY <1>1, <1>2, <1>3 DEF PlaceInv, KeyInv, data
  <1> QED
    BY <1>1, <1>3, <1>4, GotoKeepsPlaces DEF Fitting, Complete, CandidateOnly, BaselineOnly

LEMMA PublishBaselinesKeepsPlaces ==
    ASSUME TrainInv, PlaceInv, NEW p \in Process, PublishBaselines(p) PROVE PlaceInv'
  <1>1. /\ procs[p].at = "publish" /\ UNCHANGED <<now, data, attempts>> /\ Goto(p, "manifest")
        /\ UNCHANGED <<runs, artifacts, tracked, comparisons, manifests>>
    BY DEF PublishBaselines
  <1>2. /\ Len(procs[p].results) = Len(Models(procs[p].kind)) /\ procs[p].kind = "baseline"
        /\ procs[p].tagged = 0
    BY <1>1 DEF PlaceInv, HandInv, Complete, BaselineOnly
  <1>3. KeyInv'
    BY <1>1 DEF PlaceInv, KeyInv, data
  <1> QED
    BY <1>1, <1>2, <1>3, GotoKeepsPlaces DEF Fitting, Complete, CandidateOnly, BaselineOnly

LEMMA ReadLeaderboardKeepsPlaces ==
    ASSUME TrainInv, PlaceInv, NEW p \in Process, ReadLeaderboard(p) PROVE PlaceInv'
  <1>1. procs[p].at = "board" /\ UNCHANGED <<now, data, attempts, outputs>> /\ UNCHANGED runs
    BY DEF ReadLeaderboard, outputs
  <1>2. KeyInv'
    BY <1>1, SameKeys DEF PlaceInv
  <1>3. HandInv(p) /\ DOMAIN procs[p] = Field
    BY DEF PlaceInv, TrainInv, TrainingInv
  <1>4. /\ procs' = [procs EXCEPT ![p] = procs'[p]] /\ procs'[p].at = "merge"
        /\ \A f \in Field \ {"at", "read"} : procs'[p][f] = procs[p][f]
    BY <1>3, FieldIsField DEF ReadLeaderboard, TrainInv
  <1>5. /\ procs'[p].kind = procs[p].kind /\ procs'[p].attempt = procs[p].attempt
        /\ procs'[p].id = procs[p].id /\ procs'[p].train = procs[p].train
        /\ procs'[p].validation = procs[p].validation /\ procs'[p].results = procs[p].results
        /\ procs'[p].tagged = procs[p].tagged /\ procs'[p].named = procs[p].named
    BY <1>4, FieldIsField
  <1>6. HandInv(p)'
    BY <1>1, <1>3, <1>4, <1>5
       DEF HandInv, Fitting, Claimed, Complete, CandidateOnly, BaselineOnly
  <1> QED
    BY <1>1, <1>2, <1>4, <1>5, <1>6, GoingOnKeepsPlaces DEF Claimed, Fitting

\* The last step of a training, and a kill.
LEMMA LastStepKeepsPlaces ==
    ASSUME TrainInv, PlaceInv, NEW p \in Process,
           WriteRunManifest(p) \/ MergeLeaderboard(p) \/ Kill(p)
    PROVE  PlaceInv'
  <1>1. /\ End(p) /\ UNCHANGED <<now, data, attempts>>
        /\ UNCHANGED <<runs, artifacts, tracked, comparisons>>
    BY DEF WriteRunManifest, MergeLeaderboard, Kill, outputs
  <1>2. \/ UNCHANGED manifests
        \/ manifests' = manifests \cup {procs[p].id} /\ procs[p].id \in runs
    <2>1. procs[p].at = "manifest" => procs[p].id \in runs
      BY DEF PlaceInv, HandInv, Claimed, Fitting
    <2> QED
      BY <2>1 DEF WriteRunManifest, MergeLeaderboard, Kill, outputs
  <1>3. KeyInv'
    BY <1>1, <1>2 DEF PlaceInv, KeyInv, data
  <1> QED
    BY <1>1, <1>3, EndKeepsPlaces

\* The clock and a preparation.
LEMMA OutsideKeepsPlaces ==
    ASSUME TrainInv, PlaceInv, Tick \/ ContinuePreparation \/ \E v \in Version : BeginPreparation(v)
    PROVE  PlaceInv'
  <1>1. UNCHANGED <<procs, attempts, outputs>> /\ UNCHANGED runs
    BY DEF Tick, ContinuePreparation, BeginPreparation, outputs
  <1>2. KeyInv'
    <2>1. now' \in 0..MaxSeconds
      BY ExperimentsAssumption
         DEF Tick, ContinuePreparation, BeginPreparation, PlaceInv, KeyInv
    <2>2. splits' \in [{"train", "validation", "manifest"} -> Version]
      BY DEF Tick, ContinuePreparation, BeginPreparation, PlaceInv, KeyInv, data
    <2>3. preparing' \in Version \cup {None}
      BY DEF Tick, ContinuePreparation, BeginPreparation, PlaceInv, KeyInv, data
    <2> QED
      BY <1>1, <2>1, <2>2, <2>3 DEF PlaceInv, KeyInv, outputs
  <1>3. attempts \in Nat /\ attempts' \in Nat /\ attempts <= attempts'
    BY <1>1 DEF PlaceInv, KeyInv
  <1>4. \A q \in Process : HandInv(q)'
    BY <1>1, <1>3, SameHand DEF PlaceInv
  <1>5. \A q, r \in Process : q # r => Apart(q, r)'
    BY <1>1 DEF PlaceInv, Apart
  <1> QED
    BY <1>2, <1>4, <1>5 DEF PlaceInv

LEMMA StutterKeepsPlaces == ASSUME TrainInv, PlaceInv, UNCHANGED vars PROVE PlaceInv'
  <1>1. UNCHANGED <<procs, attempts, runs>>
    BY DEF vars, outputs
  <1>2. KeyInv'
    BY SameKeys DEF PlaceInv, vars
  <1>3. attempts \in Nat /\ attempts <= attempts'
    BY <1>1 DEF PlaceInv, KeyInv
  <1>4. \A q \in Process : HandInv(q)'
    BY <1>1, <1>3, SameHand DEF PlaceInv
  <1>5. \A q, r \in Process : q # r => Apart(q, r)'
    BY <1>1 DEF PlaceInv, Apart
  <1> QED
    BY <1>2, <1>4, <1>5 DEF PlaceInv

LEMMA NextPlaceInv == TrainInv /\ PlaceInv /\ [Next]_vars => PlaceInv'
  <1> SUFFICES ASSUME TrainInv, PlaceInv, [Next]_vars PROVE PlaceInv'
    OBVIOUS
  <1>1. CASE UNCHANGED vars
    BY <1>1, StutterKeepsPlaces
  <1>2. CASE Tick \/ ContinuePreparation \/ \E v \in Version : BeginPreparation(v)
    BY <1>2, OutsideKeepsPlaces
  <1>3. CASE \E p \in Process : Train(p)
    <2>1. PICK p \in Process : Train(p)
      BY <1>3
    <2>2. CASE \E kind \in Kind, w \in Workflow \cup {None} : Start(p, kind, w)
      BY <2>2, StartKeepsPlaces
    <2>3. CASE VerifyData(p) \/ LoadData(p) \/ ClaimExperiment(p) \/ ConfigureTracking(p)
      BY <2>3, VerifyDataKeepsPlaces, LoadDataKeepsPlaces, ClaimExperimentKeepsPlaces,
         ConfigureTrackingKeepsPlaces
    <2>4. CASE FitModel(p) \/ SaveModel(p) \/ LogRun(p) \/ RankCandidates(p) \/ TagRun(p)
      BY <2>4, FitModelKeepsPlaces, SaveModelKeepsPlaces, LogRunKeepsPlaces,
         RankCandidatesKeepsPlaces, TagRunKeepsPlaces
    <2>5. CASE WriteComparison(p) \/ PublishBaselines(p) \/ ReadLeaderboard(p)
      BY <2>5, WriteComparisonKeepsPlaces, PublishBaselinesKeepsPlaces,
         ReadLeaderboardKeepsPlaces
    <2>6. CASE WriteRunManifest(p) \/ MergeLeaderboard(p) \/ Kill(p)
      BY <2>6, LastStepKeepsPlaces
    <2> QED
      BY <2>1, <2>2, <2>3, <2>4, <2>5, <2>6 DEF Train
  <1> QED
    BY <1>1, <1>2, <1>3 DEF Next

-----------------------------------------------------------------------------
\* Records: what a training leaves in directories, in MLflow and in its comparison.

\* How many of its models a training has saved, and how many of its runs are closed.
SavedCount(p) == Len(procs[p].results) - IF procs[p].at = "save" THEN 1 ELSE 0
LoggedCount(p) == Len(procs[p].results) - IF procs[p].at \in {"save", "log"} THEN 1 ELSE 0

Files(p, i) ==
    [macro_f1 |-> Evidence(p, i).macro_f1, train |-> procs[p].train,
     validation |-> procs[p].validation, named |-> procs[p].named]

Own(p, i) == <<procs[p].id, Models(procs[p].kind)[i]>>

ClosedRun(p, i) ==
    [id |-> procs[p].id, macro_f1 |-> Evidence(p, i).macro_f1,
     train |-> procs[p].train, named |-> procs[p].named, finished |-> TRUE,
     status |-> IF i <= procs[p].tagged THEN Status(p, i) ELSE "none"]

Comparison(p) ==
    [attempt  |-> procs[p].attempt,
     selected |-> Selection(Fitted(p)),
     eligible |-> {c.name : c \in {f \in Fitted(p) : Eligible(f)}}]

\* The directories of a training.
FilesInv(p) ==
    procs[p].at \in Claimed =>
        /\ \A key \in DOMAIN artifacts :
              key[1] = procs[p].id => \E i \in DOMAIN procs[p].results : key = Own(p, i)
        /\ \A i, j \in DOMAIN procs[p].results : Own(p, i) = Own(p, j) => i = j
        /\ \A i \in DOMAIN procs[p].results :
              /\ Own(p, i) \in DOMAIN artifacts
              /\ artifacts[Own(p, i)] = IF i <= SavedCount(p) THEN Files(p, i) ELSE None

\* Its MLflow runs, from the time it is one of candidates.
RunsInv(p) ==
    /\ procs[p].at # "ended" /\ ~(procs[p].at \in Fitting /\ procs[p].kind # "baseline") =>
          \A key \in DOMAIN tracked : key[1] # procs[p].attempt
    /\ procs[p].at \in Claimed =>
          \A key \in DOMAIN tracked :
              tracked[key].id = procs[p].id => key[1] = procs[p].attempt
    /\ procs[p].at \in Fitting /\ procs[p].kind # "baseline" =>
          /\ \A key \in DOMAIN tracked :
                key[1] = procs[p].attempt => \E i \in 1..LoggedCount(p) : key = TrackingRun(p, i)
          /\ \A i \in 1..LoggedCount(p) :
                /\ TrackingRun(p, i) \in DOMAIN tracked
                /\ tracked[TrackingRun(p, i)] = ClosedRun(p, i)
    /\ procs[p].at \in {"tag", "report", "board", "merge"} => Selection(Fitted(p)) # {}

ComparisonInv(p) ==
    procs[p].at \in Claimed =>
        IF procs[p].at \in {"board", "merge"}
        THEN procs[p].id \in DOMAIN comparisons /\ comparisons[procs[p].id] = Comparison(p)
        ELSE procs[p].id \notin DOMAIN comparisons

OwnRecords(p) == FilesInv(p) /\ RunsInv(p) /\ ComparisonInv(p)

\* The MLflow runs an experiment has selected, and what OneSelectedPerExperiment says of
\* one experiment.
Chosen(id) == {key \in DOMAIN tracked : tracked[key].id = id /\ tracked[key].status = "selected"}

OneOf(id) ==
    /\ Cardinality(Chosen(id)) <= 1
    /\ \A key \in Chosen(id), c \in {Candidate[i] : i \in DOMAIN Candidate} :
          /\ <<key[1], c>> \in DOMAIN tracked /\ tracked[<<key[1], c>>].finished
          /\ tracked[<<key[1], c>>].status = "eligible_not_selected" =>
                tracked[<<key[1], c>>].macro_f1 <= tracked[key].macro_f1
    /\ id \in DOMAIN comparisons =>
          Chosen(id) = {<<comparisons[id].attempt, c>> : c \in comparisons[id].selected}

EntryInv ==
    /\ \A key \in DOMAIN artifacts : artifacts[key] \in ModelRecord \cup {None}
    /\ \A key \in DOMAIN tracked :
          /\ tracked[key].id \in runs
          /\ tracked[key].status \in {"none", "selected", "eligible_not_selected", "rejected"}
    /\ \A k, l \in DOMAIN tracked : tracked[k].id = tracked[l].id => k[1] = l[1]
    /\ \A id \in DOMAIN comparisons :
          \E c \in comparisons[id].eligible : comparisons[id].selected = {c}
    /\ \A id \in runs : OneOf(id)

RecordInv ==
    /\ \A p \in Process : OwnRecords(p)
    /\ EntryInv

-----------------------------------------------------------------------------
\* Records.

LEMMA OneSelectedIsOneOfEach == OneSelectedPerExperiment <=> \A id \in runs : OneOf(id)
  <1>1. \A id : Chosen(id) = {key \in DOMAIN tracked : /\ tracked[key].id = id
                                                      /\ tracked[key].status = "selected"}
    BY DEF Chosen
  <1> QED
    BY <1>1 DEF OneSelectedPerExperiment, OneOf

\* An experiment of which nothing is selected, and which has no comparison.
LEMMA NoneIsSelected ==
    ASSUME NEW id, Chosen(id) = {}, id \notin DOMAIN comparisons PROVE OneOf(id)
  BY FS_EmptySet DEF OneOf

LEMMA InitRecordInv == Init => RecordInv
  <1> SUFFICES ASSUME Init PROVE RecordInv
    OBVIOUS
  <1>1. \A p \in Process : procs[p].at = "ended"
    BY DEF Init, Idle
  <1>2. \A p \in Process : OwnRecords(p)
    BY <1>1 DEF OwnRecords, FilesInv, RunsInv, ComparisonInv, Claimed, Fitting
  <1>3. EntryInv
    BY DEF Init, EntryInv
  <1> QED
    BY <1>2, <1>3 DEF RecordInv

\* A training that has claimed its experiment has fitted models it knows.
LEMMA ResultsAreOfModels ==
    ASSUME NEW p, HandInv(p), procs[p].at \in Claimed
    PROVE  /\ Len(procs[p].results) \in Nat /\ procs[p].results \in Seq(Nat)
           /\ DOMAIN procs[p].results = 1..Len(procs[p].results)
           /\ Len(procs[p].results) <= Len(Models(procs[p].kind))
           /\ \A i \in DOMAIN procs[p].results :
                 i \in Nat /\ Models(procs[p].kind)[i] \in ModelName
  <1>1. procs[p].results \in Seq(Nat)
    BY DEF HandInv
  <1>2. Len(procs[p].results) \in Nat /\ DOMAIN procs[p].results = 1..Len(procs[p].results)
    BY <1>1
  <1>3. Len(Models(procs[p].kind)) \in Nat /\ Models(procs[p].kind) \in Seq(ModelName)
    BY ModelsAreModels
  <1>4. Len(procs[p].results) <= Len(Models(procs[p].kind))
    <2>1. CASE procs[p].at \in {"fit", "save", "log"}
      BY <1>2, <1>3, <2>1 DEF HandInv
    <2>2. CASE procs[p].at = "track"
      BY <1>3, <2>2, NothingInHand DEF HandInv, Fitting
    <2>3. CASE procs[p].at \in Complete
      BY <1>2, <1>3, <2>3 DEF HandInv
    <2> QED
      BY <2>1, <2>2, <2>3 DEF Claimed, Fitting, Complete
  <1>5. ASSUME NEW i \in DOMAIN procs[p].results
        PROVE  i \in Nat /\ Models(procs[p].kind)[i] \in ModelName
    <2>1. i \in 1..Len(Models(procs[p].kind))
      BY <1>2, <1>3, <1>4
    <2> QED
      BY <1>3, <2>1
  <1> QED
    BY <1>1, <1>2, <1>4, <1>5

LEMMA EvidenceIsOfItsModel ==
    ASSUME NEW p, HandInv(p), procs[p].at \in Claimed, NEW i \in DOMAIN procs[p].results
    PROVE  /\ Evidence(p, i) \in ModelEvidence
           /\ Evidence(p, i).name = Models(procs[p].kind)[i]
  <1> DEFINE name == Models(procs[p].kind)[i]
             m == Measured[<<name, procs[p].train, procs[p].validation>>]
  <1>1. name \in ModelName /\ procs[p].results[i] \in Int
    BY ResultsAreOfModels
  <1>2. procs[p].train \in Version /\ procs[p].validation \in Version
    BY DEF HandInv
  <1>3. <<name, procs[p].train, procs[p].validation>> \in ModelName \X Version \X Version
    BY <1>1, <1>2
  <1>4. m \in ModelEvidence /\ m.name = name
    BY <1>1, <1>2, <1>3, ExperimentsAssumption
  <1>5. Evidence(p, i) = [m EXCEPT !.milliseconds = procs[p].results[i]]
    BY DEF Evidence
  <1> HIDE DEF m, name
  <1> QED
    BY <1>1, <1>4, <1>5 DEF ModelEvidence, name

\* What the models of a training are compared by.
LEMMA FittedAreComparable ==
    ASSUME NEW p, HandInv(p), FilesInv(p), procs[p].at \in Claimed
    PROVE  /\ Fitted(p) \in SUBSET ModelEvidence /\ IsFiniteSet(Fitted(p))
           /\ Distinct(Fitted(p))
           /\ \A i \in DOMAIN procs[p].results : Evidence(p, i) \in Fitted(p)
           /\ \A c \in Fitted(p) : \E i \in DOMAIN procs[p].results :
                c = Evidence(p, i) /\ c.name = Models(procs[p].kind)[i]
  <1> DEFINE n == Len(procs[p].results)
             f == [i \in 1..n |-> Evidence(p, i)]
  <1>1. n \in Nat /\ DOMAIN procs[p].results = 1..n
    BY ResultsAreOfModels
  <1>2. \A i \in 1..n : /\ Evidence(p, i) \in ModelEvidence
                        /\ Evidence(p, i).name = Models(procs[p].kind)[i]
    BY <1>1, EvidenceIsOfItsModel
  <1>3. Fitted(p) = {Evidence(p, i) : i \in 1..n}
    BY <1>1 DEF Fitted
  <1>4. IsFiniteSet(Fitted(p))
    <2>1. f \in Surjection(1..n, Fitted(p))
      BY <1>3 DEF Surjection
    <2>2. IsFiniteSet(1..n)
      BY <1>1, FS_Interval
    <2> HIDE DEF f
    <2> QED
      BY <2>1, <2>2, FS_Surjection
  <1>5. ASSUME NEW a \in Fitted(p), NEW b \in Fitted(p), a.name = b.name PROVE a = b
    <2>1. PICK i \in 1..n, j \in 1..n : a = Evidence(p, i) /\ b = Evidence(p, j)
      BY <1>3
    <2>2. Own(p, i) = Own(p, j)
      BY <1>2, <1>5, <2>1 DEF Own
    <2> QED
      BY <1>1, <2>1, <2>2 DEF FilesInv
  <1> QED
    BY <1>1, <1>2, <1>3, <1>4, <1>5 DEF Distinct

\* What a training compares does not change with its place.
LEMMA SameEvidence ==
    ASSUME NEW p, procs'[p].kind = procs[p].kind, procs'[p].train = procs[p].train,
           procs'[p].validation = procs[p].validation, procs'[p].results = procs[p].results
    PROVE  /\ \A i : Evidence(p, i)' = Evidence(p, i)
           /\ Fitted(p)' = Fitted(p)
  <1>1. \A i : Evidence(p, i)' = Evidence(p, i)
    BY DEF Evidence, Models
  <1> QED
    BY <1>1 DEF Fitted

-----------------------------------------------------------------------------
\* The records of other trainings.

\* An entry of one of the tables is as before.
SameEntry(before, after, key) ==
    /\ key \in DOMAIN after <=> key \in DOMAIN before
    /\ key \in DOMAIN before => after[key] = before[key]

\* A step of a training changes only entries of its own experiment and attempt.
OnlyOwnRecords(p) ==
    /\ \A key : key[1] # procs[p].id => SameEntry(artifacts, artifacts', key)
    /\ \A key : key[1] # procs[p].attempt => SameEntry(tracked, tracked', key)
    /\ \A key \in DOMAIN tracked' : key[1] = procs[p].attempt => tracked'[key].id = procs[p].id
    /\ \A id : id # procs[p].id => SameEntry(comparisons, comparisons', id)

NoRecords == UNCHANGED <<artifacts, tracked, comparisons>>

\* What is said of the records of a training speaks of it and of these entries.
LEMMA OthersKeepTheirRecords ==
    ASSUME PlaceInv, NEW p \in Process, procs[p].at \in Claimed, OnlyOwnRecords(p),
           NEW q \in Process \ {p}, OwnRecords(q), procs'[q] = procs[q]
    PROVE  OwnRecords(q)'
  <1>1. /\ procs[q].at # "ended" => procs[p].attempt # procs[q].attempt
        /\ procs[q].at \in Claimed => procs[p].id # procs[q].id
    BY DEF PlaceInv, Apart, Claimed, Fitting
  <1>2. /\ \A i : Evidence(q, i)' = Evidence(q, i) /\ Own(q, i)' = Own(q, i)
        /\ \A i : Files(q, i)' = Files(q, i) /\ TrackingRun(q, i)' = TrackingRun(q, i)
        /\ \A i : ClosedRun(q, i)' = ClosedRun(q, i)
        /\ Fitted(q)' = Fitted(q) /\ Comparison(q)' = Comparison(q)
        /\ SavedCount(q)' = SavedCount(q) /\ LoggedCount(q)' = LoggedCount(q)
    BY DEF Evidence, Own, Files, TrackingRun, ClosedRun, Fitted, Comparison, SavedCount,
           LoggedCount, Status, Models
  <1>3. \A i : Own(q, i)[1] = procs[q].id /\ TrackingRun(q, i)[1] = procs[q].attempt
    BY DEF Own, TrackingRun
  <1>4. FilesInv(q)'
    <2> SUFFICES ASSUME procs[q].at \in Claimed PROVE FilesInv(q)'
      BY DEF FilesInv
    <2>1. \A key : key[1] = procs[q].id => SameEntry(artifacts, artifacts', key)
      BY <1>1 DEF OnlyOwnRecords
    <2>2. \A key \in DOMAIN artifacts' :
              key[1] = procs[q].id => \E i \in DOMAIN procs[q].results : key = Own(q, i)
      BY <2>1 DEF SameEntry, OwnRecords, FilesInv
    <2>3. \A i \in DOMAIN procs[q].results :
              /\ Own(q, i) \in DOMAIN artifacts'
              /\ artifacts'[Own(q, i)] = IF i <= SavedCount(q) THEN Files(q, i) ELSE None
      BY <1>3, <2>1 DEF SameEntry, OwnRecords, FilesInv
    <2>4. \A i, j \in DOMAIN procs[q].results : Own(q, i) = Own(q, j) => i = j
      BY DEF OwnRecords, FilesInv
    <2> QED
      BY <1>2, <2>2, <2>3, <2>4 DEF FilesInv
  <1>5. RunsInv(q)'
    <2>1. ASSUME procs[q].at # "ended", NEW key, key[1] = procs[q].attempt
          PROVE  SameEntry(tracked, tracked', key)
      BY <1>1, <2>1 DEF OnlyOwnRecords
    <2>2. ASSUME procs[q].at \in Claimed, NEW key \in DOMAIN tracked',
                 tracked'[key].id = procs[q].id
          PROVE  key[1] = procs[q].attempt
      <3>1. key[1] # procs[p].attempt
        BY <1>1, <2>2 DEF OnlyOwnRecords
      <3>2. key \in DOMAIN tracked /\ tracked[key].id = procs[q].id
        BY <2>2, <3>1 DEF OnlyOwnRecords, SameEntry
      <3> QED
        BY <2>2, <3>2 DEF OwnRecords, RunsInv
    <2>3. ASSUME procs[q].at # "ended", ~(procs[q].at \in Fitting /\ procs[q].kind # "baseline"),
                 NEW key \in DOMAIN tracked'
          PROVE  key[1] # procs[q].attempt
      BY <2>1, <2>3 DEF SameEntry, OwnRecords, RunsInv
    <2>4. ASSUME procs[q].at \in Fitting, procs[q].kind # "baseline"
          PROVE  /\ \A key \in DOMAIN tracked' :
                       key[1] = procs[q].attempt =>
                           \E i \in 1..LoggedCount(q) : key = TrackingRun(q, i)
                 /\ \A i \in 1..LoggedCount(q) :
                       /\ TrackingRun(q, i) \in DOMAIN tracked'
                       /\ tracked'[TrackingRun(q, i)] = ClosedRun(q, i)
      <3>1. procs[q].at # "ended"
        BY <2>4 DEF Fitting
      <3>2. \A key : key[1] = procs[q].attempt => SameEntry(tracked, tracked', key)
        BY <2>1, <3>1
      <3>3. /\ \A key \in DOMAIN tracked :
                  key[1] = procs[q].attempt =>
                      \E i \in 1..LoggedCount(q) : key = TrackingRun(q, i)
            /\ \A i \in 1..LoggedCount(q) :
                  /\ TrackingRun(q, i) \in DOMAIN tracked
                  /\ tracked[TrackingRun(q, i)] = ClosedRun(q, i)
        BY <2>4 DEF OwnRecords, RunsInv
      <3> QED
        BY <1>3, <3>2, <3>3 DEF SameEntry
    <2>5. procs[q].at \in {"tag", "report", "board", "merge"} => Selection(Fitted(q)) # {}
      BY DEF OwnRecords, RunsInv
    <2> QED
      BY <1>2, <2>2, <2>3, <2>4, <2>5 DEF RunsInv
  <1>6. ComparisonInv(q)'
    <2>1. procs[q].at \in Claimed => SameEntry(comparisons, comparisons', procs[q].id)
      BY <1>1 DEF OnlyOwnRecords
    <2> QED
      BY <1>2, <2>1 DEF SameEntry, OwnRecords, ComparisonInv
  <1> QED
    BY <1>4, <1>5, <1>6 DEF OwnRecords

LEMMA SameRecords ==
    ASSUME NEW q, OwnRecords(q), procs'[q] = procs[q], NoRecords PROVE OwnRecords(q)'
  <1>1. /\ \A i : Evidence(q, i)' = Evidence(q, i) /\ Own(q, i)' = Own(q, i)
        /\ \A i : Files(q, i)' = Files(q, i) /\ TrackingRun(q, i)' = TrackingRun(q, i)
        /\ \A i : ClosedRun(q, i)' = ClosedRun(q, i)
        /\ Fitted(q)' = Fitted(q) /\ Comparison(q)' = Comparison(q)
        /\ SavedCount(q)' = SavedCount(q) /\ LoggedCount(q)' = LoggedCount(q)
    BY DEF Evidence, Own, Files, TrackingRun, ClosedRun, Fitted, Comparison, SavedCount,
           LoggedCount, Status, Models
  <1>2. UNCHANGED <<artifacts, tracked, comparisons>>
    BY DEF NoRecords
  <1> QED
    BY <1>1, <1>2 DEF OwnRecords, FilesInv, RunsInv, ComparisonInv

LEMMA EndedHasNoRecords == ASSUME NEW p, procs[p].at = "ended" PROVE OwnRecords(p)
  BY DEF OwnRecords, FilesInv, RunsInv, ComparisonInv, Claimed, Fitting

\* What an experiment has selected speaks of its own entries.
LEMMA OthersKeepTheirSelection ==
    ASSUME NEW p, procs[p].at \in Fitting, RunsInv(p), OnlyOwnRecords(p),
           NEW id, id # procs[p].id, OneOf(id)
    PROVE  OneOf(id)'
  <1>1. \A key \in DOMAIN tracked : key[1] = procs[p].attempt => tracked[key].id = procs[p].id
    <2>1. \A i : ClosedRun(p, i).id = procs[p].id
      BY DEF ClosedRun
    <2> QED
      BY <2>1 DEF RunsInv, Fitting
  <1>2. \A key \in DOMAIN tracked : tracked[key].id = id =>
            \A c : SameEntry(tracked, tracked', <<key[1], c>>) /\ SameEntry(tracked, tracked', key)
    BY <1>1 DEF OnlyOwnRecords
  <1>3. \A key \in DOMAIN tracked' : tracked'[key].id = id => SameEntry(tracked, tracked', key)
    BY DEF OnlyOwnRecords
  <1>4. Chosen(id)' = Chosen(id)
    BY <1>2, <1>3 DEF Chosen, SameEntry
  <1>5. \A key \in Chosen(id) : key \in DOMAIN tracked /\ tracked[key].id = id
    BY DEF Chosen
  <1>6. SameEntry(comparisons, comparisons', id)
    BY DEF OnlyOwnRecords
  <1>7. \A key \in Chosen(id) : /\ SameEntry(tracked, tracked', key)
                              /\ \A c : SameEntry(tracked, tracked', <<key[1], c>>)
    BY <1>2, <1>5
  <1>8. \A key \in Chosen(id), c \in {Candidate[i] : i \in DOMAIN Candidate} :
            /\ <<key[1], c>> \in DOMAIN tracked' /\ tracked'[<<key[1], c>>].finished
            /\ tracked'[<<key[1], c>>].status = "eligible_not_selected" =>
                  tracked'[<<key[1], c>>].macro_f1 <= tracked'[key].macro_f1
    BY <1>5, <1>7 DEF OneOf, SameEntry
  <1>9. id \in DOMAIN comparisons' =>
            Chosen(id) = {<<comparisons'[id].attempt, c>> : c \in comparisons'[id].selected}
    BY <1>6 DEF OneOf, SameEntry
  <1> QED
    BY <1>4, <1>8, <1>9 DEF OneOf

\* A step that records nothing, and may make a new experiment.
LEMMA SameEntries ==
    ASSUME KeyInv, EntryInv, NoRecords, runs \subseteq runs' PROVE EntryInv'
  <1>1. UNCHANGED <<artifacts, tracked, comparisons>>
    BY DEF NoRecords
  <1>2. ASSUME NEW id \in runs' PROVE OneOf(id)'
    <2>1. CASE id \in runs
      BY <1>1, <2>1 DEF EntryInv, OneOf, Chosen
    <2>2. CASE id \notin runs
      <3>1. id \notin DOMAIN comparisons' /\ Chosen(id)' = {}
        BY <1>1, <2>2 DEF KeyInv, EntryInv, Chosen
      <3> QED
        BY <3>1, FS_EmptySet DEF OneOf
    <2> QED
      BY <2>1, <2>2
  <1> QED
    BY <1>1, <1>2 DEF EntryInv

\* A step of a training that records nothing.
LEMMA NothingRecordedOfRuns ==
    ASSUME TrainInv, PlaceInv, RecordInv, NEW p \in Process, NoRecords, runs \subseteq runs',
           procs' = [procs EXCEPT ![p] = procs'[p]], OwnRecords(p)'
    PROVE  RecordInv'
  <1>1. \A q \in Process \ {p} : procs'[q] = procs[q]
    BY DEF TrainInv
  <1>2. \A q \in Process : OwnRecords(q)'
    BY <1>1, SameRecords DEF RecordInv
  <1> QED
    BY <1>2, SameEntries DEF RecordInv, PlaceInv

LEMMA EndKeepsRecords ==
    ASSUME TrainInv, PlaceInv, RecordInv, NEW p \in Process, End(p), NoRecords, UNCHANGED runs
    PROVE  RecordInv'
  <1>1. procs' = [procs EXCEPT ![p] = procs'[p]] /\ procs'[p].at = "ended"
    BY DEF End, TrainInv, Idle
  <1>2. OwnRecords(p)'
    BY <1>1 DEF OwnRecords, FilesInv, RunsInv, ComparisonInv, Claimed, Fitting
  <1> QED
    BY <1>1, <1>2, NothingRecordedOfRuns

\* A training that goes to another place and records nothing keeps its records, when
\* this is how many it has saved and logged there.
LEMMA GotoKeepsRecords ==
    ASSUME TrainInv, PlaceInv, RecordInv, NEW p \in Process, NEW at, Goto(p, at),
           NoRecords, UNCHANGED runs,
           \/ procs[p].at \notin Claimed /\ at \notin Claimed \cup {"ended"} /\ procs[p].at # "ended"
           \/ /\ procs[p].at \in Fitting /\ at \in Fitting
              /\ procs[p].at \notin {"save", "log"} /\ at \notin {"save", "log"}
              /\ (procs[p].at \in {"board", "merge"}) = (at \in {"board", "merge"})
              /\ at \in {"tag", "report", "board", "merge"} => Selection(Fitted(p)) # {}
    PROVE  RecordInv'
  <1>1. /\ procs' = [procs EXCEPT ![p] = procs'[p]] /\ procs'[p].at = at
        /\ \A f \in Field \ {"at"} : procs'[p][f] = procs[p][f]
    BY GotoMoves
  <1>2. /\ procs'[p].kind = procs[p].kind /\ procs'[p].attempt = procs[p].attempt
        /\ procs'[p].id = procs[p].id /\ procs'[p].train = procs[p].train
        /\ procs'[p].validation = procs[p].validation /\ procs'[p].named = procs[p].named
        /\ procs'[p].results = procs[p].results /\ procs'[p].tagged = procs[p].tagged
    BY <1>1, FieldIsField
  <1>3. UNCHANGED <<artifacts, tracked, comparisons>> /\ OwnRecords(p)
    BY DEF NoRecords, RecordInv
  <1>4. OwnRecords(p)'
    <2>1. CASE procs[p].at \notin Claimed /\ at \notin Claimed \cup {"ended"} /\ procs[p].at # "ended"
      <3>1. \A key \in DOMAIN tracked : key[1] # procs[p].attempt
        BY <1>3, <2>1 DEF OwnRecords, RunsInv, Claimed
      <3> QED
        BY <1>1, <1>2, <1>3, <2>1, <3>1
           DEF OwnRecords, FilesInv, RunsInv, ComparisonInv, Claimed, Fitting
    <2>2. CASE ~(procs[p].at \notin Claimed /\ at \notin Claimed \cup {"ended"} /\ procs[p].at # "ended")
      <3>1. /\ \A i : Evidence(p, i)' = Evidence(p, i) /\ Fitted(p)' = Fitted(p)
        BY <1>2, SameEvidence
      <3>2. /\ \A i : Own(p, i)' = Own(p, i)
            /\ \A i : Files(p, i)' = Files(p, i) /\ TrackingRun(p, i)' = TrackingRun(p, i)
            /\ \A i : ClosedRun(p, i)' = ClosedRun(p, i)
            /\ Comparison(p)' = Comparison(p)
        BY <1>2, <3>1 DEF Own, Files, TrackingRun, ClosedRun, Comparison, Status, Models
      <3>3. SavedCount(p)' = SavedCount(p) /\ LoggedCount(p)' = LoggedCount(p)
        BY <1>1, <1>2, <2>2 DEF SavedCount, LoggedCount
      <3>4. procs[p].at \in Claimed /\ at \in Claimed /\ procs[p].at # "ended" /\ at # "ended"
        BY <2>2 DEF Claimed, Fitting
      <3>5. FilesInv(p)'
        BY <1>2, <1>3, <3>2, <3>3, <3>4 DEF OwnRecords, FilesInv
      <3>6. RunsInv(p)'
        BY <1>1, <1>2, <1>3, <2>2, <3>1, <3>2, <3>3, <3>4 DEF OwnRecords, RunsInv
      <3>7. ComparisonInv(p)'
        BY <1>1, <1>2, <1>3, <2>2, <3>2, <3>4 DEF OwnRecords, ComparisonInv
      <3> QED
        BY <3>5, <3>6, <3>7 DEF OwnRecords
    <2> QED
      BY <2>1, <2>2
  <1> QED
    BY <1>1, <1>4, NothingRecordedOfRuns

LEMMA StartKeepsRecords ==
    ASSUME TrainInv, PlaceInv, RecordInv, NEW p \in Process, NEW kind, NEW w, Start(p, kind, w)
    PROVE  RecordInv'
  <1>1. NoRecords /\ runs \subseteq runs' /\ procs' = [procs EXCEPT ![p] = procs'[p]]
    BY DEF Start, outputs, NoRecords, TrainInv
  <1>2. procs'[p].at = "verify" /\ procs'[p].attempt = attempts + 1
    BY DEF Start, Idle, TrainInv
  <1>3. \A key \in DOMAIN tracked' : key[1] # procs'[p].attempt
    BY <1>1, <1>2 DEF NoRecords, PlaceInv, KeyInv
  <1>4. OwnRecords(p)'
    BY <1>2, <1>3 DEF OwnRecords, FilesInv, RunsInv, ComparisonInv, Claimed, Fitting
  <1> QED
    BY <1>1, <1>4, NothingRecordedOfRuns

LEMMA VerifyDataKeepsRecords ==
    ASSUME TrainInv, PlaceInv, RecordInv, NEW p \in Process, VerifyData(p) PROVE RecordInv'
  <1>1. procs[p].at = "verify" /\ NoRecords /\ UNCHANGED runs
    BY DEF VerifyData, outputs, NoRecords
  <1>2. CASE End(p)
    BY <1>1, <1>2, EndKeepsRecords
  <1>3. CASE Goto(p, "load")
    BY <1>1, <1>3, GotoKeepsRecords DEF Claimed, Fitting
  <1> QED
    BY <1>2, <1>3 DEF VerifyData

LEMMA LoadDataKeepsRecords ==
    ASSUME TrainInv, PlaceInv, RecordInv, NEW p \in Process, LoadData(p) PROVE RecordInv'
  <1>1. /\ procs[p].at = "load" /\ NoRecords /\ UNCHANGED runs
        /\ procs' = [procs EXCEPT ![p] = procs'[p]]
    BY DEF LoadData, outputs, NoRecords, TrainInv
  <1>2. DOMAIN procs[p] = Field
    BY DEF TrainInv, TrainingInv
  <1>3. procs'[p].at = "claim" /\ procs'[p].attempt = procs[p].attempt
    BY <1>2, FieldIsField DEF LoadData, TrainInv
  <1>4. \A key \in DOMAIN tracked : key[1] # procs[p].attempt
    BY <1>1 DEF RecordInv, OwnRecords, RunsInv, Fitting
  <1>5. OwnRecords(p)'
    BY <1>1, <1>3, <1>4
       DEF OwnRecords, FilesInv, RunsInv, ComparisonInv, Claimed, Fitting, NoRecords
  <1> QED
    BY <1>1, <1>5, NothingRecordedOfRuns

LEMMA NoResultsYet ==
    ASSUME NEW p, procs[p].results = <<>>
    PROVE  /\ procs[p].at # "save" => SavedCount(p) = 0
           /\ procs[p].at \notin {"save", "log"} => LoggedCount(p) = 0
           /\ DOMAIN procs[p].results = {}
  BY DEF SavedCount, LoggedCount

\* The experiment that a training claims is new.
LEMMA ClaimExperimentKeepsRecords ==
    ASSUME TrainInv, PlaceInv, RecordInv, NEW p \in Process, ClaimExperiment(p) PROVE RecordInv'
  <1> DEFINE id == ExperimentId(p)
  <1>1. procs[p].at = "claim" /\ NoRecords
    BY DEF ClaimExperiment, NoRecords
  <1>2. CASE MayMake(id, runs)
    <2>1. /\ runs' = runs \cup {id}
          /\ procs' = [procs EXCEPT ![p].id = id,
                           ![p].at = IF procs[p].kind = "baseline" THEN "fit" ELSE "track"]
      BY <1>2 DEF ClaimExperiment
    <2>2. DOMAIN procs[p] = Field
      BY DEF TrainInv, TrainingInv
    <2>3. /\ procs' = [procs EXCEPT ![p] = procs'[p]]
          /\ procs'[p].id = id
          /\ procs'[p].at = IF procs[p].kind = "baseline" THEN "fit" ELSE "track"
          /\ \A f \in Field \ {"at", "id"} : procs'[p][f] = procs[p][f]
      BY <2>1, <2>2, FieldIsField DEF TrainInv
    <2>4. id \notin runs /\ procs[p].results = <<>>
      BY <1>1, <1>2 DEF MayMake, PlaceInv, HandInv, Fitting
    <2>5. procs'[p].results = <<>> /\ DOMAIN procs'[p].results = {}
      BY <2>3, <2>4, FieldIsField
    <2>6. FilesInv(p)'
      BY <1>1, <2>3, <2>4, <2>5 DEF FilesInv, NoRecords, PlaceInv, KeyInv
    <2>7. RunsInv(p)'
      <3>1. \A key \in DOMAIN tracked : tracked[key].id # id
        BY <2>4 DEF RecordInv, EntryInv
      <3>2. \A key \in DOMAIN tracked : key[1] # procs[p].attempt
        BY <1>1 DEF RecordInv, OwnRecords, RunsInv, Fitting
      <3>3. /\ procs'[p].kind = procs[p].kind /\ procs'[p].attempt = procs[p].attempt
        BY <2>3, FieldIsField
      <3>4. procs'[p].at \in {"fit", "track"}
        BY <2>3
      <3> QED
        BY <1>1, <2>3, <3>1, <3>2, <3>3, <3>4 DEF RunsInv, NoRecords, Claimed, Fitting
    <2>8. ComparisonInv(p)'
      BY <1>1, <2>3, <2>4 DEF ComparisonInv, NoRecords, PlaceInv, KeyInv
    <2> QED
      BY <1>1, <2>1, <2>3, <2>6, <2>7, <2>8, NothingRecordedOfRuns DEF OwnRecords
  <1>3. CASE ~MayMake(id, runs)
    BY <1>1, <1>3, EndKeepsRecords DEF ClaimExperiment
  <1> QED
    BY <1>2, <1>3

LEMMA ConfigureTrackingKeepsRecords ==
    ASSUME TrainInv, PlaceInv, RecordInv, NEW p \in Process, ConfigureTracking(p)
    PROVE  RecordInv'
  <1>1. procs[p].at = "track" /\ NoRecords /\ UNCHANGED runs
    BY DEF ConfigureTracking, outputs, NoRecords
  <1>2. CASE End(p)
    BY <1>1, <1>2, EndKeepsRecords
  <1>3. CASE ~End(p)
    <2>1. procs' = [procs EXCEPT ![p].at = "fit", ![p].named = splits.manifest]
      BY <1>3 DEF ConfigureTracking
    <2>2. DOMAIN procs[p] = Field
      BY DEF TrainInv, TrainingInv
    <2>3. /\ procs' = [procs EXCEPT ![p] = procs'[p]] /\ procs'[p].at = "fit"
          /\ \A f \in Field \ {"at", "named"} : procs'[p][f] = procs[p][f]
      BY <2>1, <2>2, FieldIsField DEF TrainInv
    <2>4. procs[p].results = <<>> /\ OwnRecords(p)
      BY <1>1 DEF PlaceInv, HandInv, Fitting, RecordInv
    <2>5. /\ procs'[p].results = <<>> /\ DOMAIN procs'[p].results = {}
          /\ procs'[p].id = procs[p].id /\ procs'[p].attempt = procs[p].attempt
          /\ procs'[p].kind = procs[p].kind
      BY <2>3, <2>4, FieldIsField
    <2>6. DOMAIN procs[p].results = {} /\ procs[p].at \in Claimed
      BY <1>1, <2>4 DEF Claimed, Fitting
    <2>7. FilesInv(p)'
      BY <1>1, <2>4, <2>5, <2>6 DEF FilesInv, OwnRecords, NoRecords
    <2>8. RunsInv(p)'
      <3>1. \A key \in DOMAIN tracked : key[1] # procs[p].attempt
        BY <1>1, <2>4 DEF OwnRecords, RunsInv, Fitting
      <3>2. LoggedCount(p)' = 0
        BY <2>3, <2>5 DEF LoggedCount
      <3>3. \A key \in DOMAIN tracked : tracked[key].id # procs[p].id
        BY <2>4, <2>6, <3>1 DEF OwnRecords, RunsInv
      <3> QED
        BY <1>1, <2>3, <2>5, <3>1, <3>2, <3>3 DEF RunsInv, NoRecords
    <2>9. ComparisonInv(p)'
      BY <1>1, <2>3, <2>4, <2>5, <2>6 DEF ComparisonInv, OwnRecords, NoRecords
    <2> QED
      BY <1>1, <2>3, <2>7, <2>8, <2>9, NothingRecordedOfRuns DEF OwnRecords
  <1> QED
    BY <1>2, <1>3

LEMMA RankCandidatesKeepsRecords ==
    ASSUME TrainInv, PlaceInv, RecordInv, NEW p \in Process, RankCandidates(p)
    PROVE  RecordInv'
  <1>1. procs[p].at = "rank" /\ NoRecords /\ UNCHANGED runs
    BY DEF RankCandidates, outputs, NoRecords
  <1>2. CASE MayTag(p)
    <2>1. Goto(p, "tag") /\ Selection(Fitted(p)) # {}
      BY <1>2 DEF RankCandidates, MayTag
    <2> QED
      BY <1>1, <2>1, GotoKeepsRecords DEF Fitting
  <1>3. CASE ~MayTag(p)
    BY <1>1, <1>3, EndKeepsRecords DEF RankCandidates
  <1> QED
    BY <1>2, <1>3

LEMMA PublishBaselinesKeepsRecords ==
    ASSUME TrainInv, PlaceInv, RecordInv, NEW p \in Process, PublishBaselines(p)
    PROVE  RecordInv'
  <1>1. procs[p].at = "publish" /\ NoRecords /\ UNCHANGED runs /\ Goto(p, "manifest")
    BY DEF PublishBaselines, NoRecords
  <1> QED
    BY <1>1, GotoKeepsRecords DEF Fitting

LEMMA ReadLeaderboardKeepsRecords ==
    ASSUME TrainInv, PlaceInv, RecordInv, NEW p \in Process, ReadLeaderboard(p)
    PROVE  RecordInv'
  <1>1. /\ procs[p].at = "board" /\ NoRecords /\ UNCHANGED runs
        /\ procs' = [procs EXCEPT ![p] = procs'[p]] /\ OwnRecords(p)
    BY DEF ReadLeaderboard, outputs, NoRecords, TrainInv, RecordInv
  <1>2. DOMAIN procs[p] = Field
    BY DEF TrainInv, TrainingInv
  <1>3. procs'[p].at = "merge" /\ \A f \in Field \ {"at", "read"} : procs'[p][f] = procs[p][f]
    BY <1>2, FieldIsField DEF ReadLeaderboard, TrainInv
  <1>4. /\ procs'[p].kind = procs[p].kind /\ procs'[p].attempt = procs[p].attempt
        /\ procs'[p].id = procs[p].id /\ procs'[p].train = procs[p].train
        /\ procs'[p].validation = procs[p].validation /\ procs'[p].named = procs[p].named
        /\ procs'[p].results = procs[p].results /\ procs'[p].tagged = procs[p].tagged
    BY <1>3, FieldIsField
  <1>5. /\ \A i : Evidence(p, i)' = Evidence(p, i) /\ Fitted(p)' = Fitted(p)
    BY <1>4, SameEvidence
  <1>6. /\ \A i : Own(p, i)' = Own(p, i)
        /\ \A i : Files(p, i)' = Files(p, i) /\ TrackingRun(p, i)' = TrackingRun(p, i)
        /\ \A i : ClosedRun(p, i)' = ClosedRun(p, i)
        /\ Comparison(p)' = Comparison(p)
        /\ SavedCount(p)' = SavedCount(p) /\ LoggedCount(p)' = LoggedCount(p)
    BY <1>1, <1>3, <1>4, <1>5
       DEF Own, Files, TrackingRun, ClosedRun, Comparison, Status, Models, SavedCount, LoggedCount
  <1>7. OwnRecords(p)'
    BY <1>1, <1>3, <1>4, <1>5, <1>6
       DEF OwnRecords, FilesInv, RunsInv, ComparisonInv, NoRecords, Claimed, Fitting
  <1> QED
    BY <1>1, <1>7, NothingRecordedOfRuns

LEMMA LastStepKeepsRecords ==
    ASSUME TrainInv, PlaceInv, RecordInv, NEW p \in Process,
           WriteRunManifest(p) \/ MergeLeaderboard(p) \/ Kill(p)
    PROVE  RecordInv'
  <1>1. End(p) /\ NoRecords /\ UNCHANGED runs
    BY DEF WriteRunManifest, MergeLeaderboard, Kill, outputs, NoRecords
  <1> QED
    BY <1>1, EndKeepsRecords

LEMMA OutsideKeepsRecords ==
    ASSUME TrainInv, PlaceInv, RecordInv, UNCHANGED <<procs, outputs>>
    PROVE  RecordInv'
  <1>1. UNCHANGED procs /\ NoRecords /\ runs \subseteq runs'
    BY DEF outputs, NoRecords
  <1> QED
    BY <1>1, SameRecords, SameEntries DEF RecordInv, PlaceInv

-----------------------------------------------------------------------------
\* Steps that record something.

\* The runs of an attempt are of its experiment.
LEMMA RunsOfAnAttempt ==
    ASSUME NEW p, procs[p].at \in Fitting, RunsInv(p), NEW key \in DOMAIN tracked,
           key[1] = procs[p].attempt
    PROVE  tracked[key].id = procs[p].id
  <1>1. \A i : ClosedRun(p, i).id = procs[p].id
    BY DEF ClosedRun
  <1> QED
    BY <1>1 DEF RunsInv, Fitting

LEMMA OwnRecordsChange ==
    ASSUME TrainInv, PlaceInv, RecordInv, NEW p \in Process, procs[p].at \in Fitting,
           UNCHANGED runs, procs' = [procs EXCEPT ![p] = procs'[p]], OnlyOwnRecords(p),
           OwnRecords(p)', NEW own, own = procs[p].id, OneOf(own)',
           \A key \in DOMAIN artifacts' :
               key[1] = procs[p].id => artifacts'[key] \in ModelRecord \cup {None},
           \A key \in DOMAIN tracked' :
               key[1] = procs[p].attempt =>
                   tracked'[key].status \in {"none", "selected", "eligible_not_selected", "rejected"},
           procs[p].id \in DOMAIN comparisons' =>
               \E c \in comparisons'[procs[p].id].eligible :
                   comparisons'[procs[p].id].selected = {c}
    PROVE  RecordInv'
  <1>1. \A q \in Process \ {p} : procs'[q] = procs[q]
    BY DEF TrainInv
  <1>2. /\ procs[p].at \in Claimed /\ procs[p].id \in runs /\ RunsInv(p)
    BY DEF PlaceInv, HandInv, Claimed, RecordInv, OwnRecords
  <1>3. \A q \in Process : OwnRecords(q)'
    BY <1>1, <1>2, OthersKeepTheirRecords DEF RecordInv
  <1>4. ASSUME NEW id \in runs' PROVE OneOf(id)'
    BY <1>2, <1>4, OthersKeepTheirSelection DEF RecordInv, EntryInv
  <1>5. \A key \in DOMAIN artifacts' : artifacts'[key] \in ModelRecord \cup {None}
    BY DEF OnlyOwnRecords, SameEntry, RecordInv, EntryInv
  <1>6. \A key \in DOMAIN tracked' :
            key[1] # procs[p].attempt => key \in DOMAIN tracked /\ tracked'[key] = tracked[key]
    BY DEF OnlyOwnRecords, SameEntry
  <1>7. \A key \in DOMAIN tracked' :
            /\ tracked'[key].id \in runs'
            /\ tracked'[key].status \in {"none", "selected", "eligible_not_selected", "rejected"}
    BY <1>2, <1>6 DEF OnlyOwnRecords, RecordInv, EntryInv
  <1>8. ASSUME NEW k \in DOMAIN tracked', NEW l \in DOMAIN tracked', tracked'[k].id = tracked'[l].id
        PROVE  k[1] = l[1]
    <2>1. \A key \in DOMAIN tracked' :
              tracked'[key].id = procs[p].id => key[1] = procs[p].attempt
      BY <1>2, <1>6 DEF RunsInv
    <2>2. CASE k[1] = procs[p].attempt \/ l[1] = procs[p].attempt
      BY <1>8, <2>1, <2>2 DEF OnlyOwnRecords
    <2>3. CASE k[1] # procs[p].attempt /\ l[1] # procs[p].attempt
      BY <1>6, <1>8, <2>3 DEF RecordInv, EntryInv
    <2> QED
      BY <2>2, <2>3
  <1>9. \A id \in DOMAIN comparisons' :
            \E c \in comparisons'[id].eligible : comparisons'[id].selected = {c}
    <2> SUFFICES ASSUME NEW id \in DOMAIN comparisons'
                 PROVE  \E c \in comparisons'[id].eligible : comparisons'[id].selected = {c}
      OBVIOUS
    <2>1. CASE id = procs[p].id
      BY <2>1
    <2>2. CASE id # procs[p].id
      BY <2>2 DEF OnlyOwnRecords, SameEntry, RecordInv, EntryInv
    <2> QED
      BY <2>1, <2>2
  <1> QED
    BY <1>3, <1>4, <1>5, <1>7, <1>8, <1>9 DEF RecordInv, EntryInv

LEMMA FitModelKeepsRecords ==
    ASSUME TrainInv, PlaceInv, RecordInv, NEW p \in Process, FitModel(p) PROVE RecordInv'
  <1> DEFINE n == Len(procs[p].results)
             key == Own(p, n + 1)
  <1>1. /\ procs[p].at = "fit" /\ UNCHANGED <<runs, tracked, comparisons>>
    BY DEF FitModel
  <1>2. PICK ms : IF MayMake(key, DOMAIN artifacts)
                  THEN /\ artifacts' = Extend(artifacts, key, None)
                       /\ procs' = [procs EXCEPT ![p].at = "save", ![p].results = Append(@, ms)]
                  ELSE End(p) /\ UNCHANGED artifacts
    BY DEF FitModel, Own
  <1>3. /\ OwnRecords(p) /\ HandInv(p) /\ DOMAIN procs[p] = Field
        /\ procs[p].at \in Fitting /\ procs[p].at \in Claimed
    BY <1>1 DEF RecordInv, PlaceInv, TrainInv, TrainingInv, Fitting, Claimed
  <1>4. CASE ~MayMake(key, DOMAIN artifacts)
    BY <1>1, <1>2, <1>4, EndKeepsRecords DEF NoRecords
  <1>5. CASE MayMake(key, DOMAIN artifacts)
    <2>1. /\ artifacts' = Extend(artifacts, key, None) /\ key \notin DOMAIN artifacts
          /\ procs' = [procs EXCEPT ![p].at = "save", ![p].results = Append(@, ms)]
      BY <1>2, <1>5 DEF MayMake
    <2>2. /\ procs' = [procs EXCEPT ![p] = procs'[p]] /\ procs'[p].at = "save"
          /\ procs'[p].results = Append(procs[p].results, ms)
          /\ \A f \in Field \ {"at", "results"} : procs'[p][f] = procs[p][f]
      BY <1>3, <2>1, FieldIsField DEF TrainInv
    <2>3. /\ procs'[p].kind = procs[p].kind /\ procs'[p].attempt = procs[p].attempt
          /\ procs'[p].id = procs[p].id /\ procs'[p].train = procs[p].train
          /\ procs'[p].validation = procs[p].validation /\ procs'[p].named = procs[p].named
          /\ procs'[p].tagged = procs[p].tagged
      BY <2>2, FieldIsField
    <2>4. /\ n \in Nat /\ DOMAIN procs[p].results = 1..n /\ procs[p].results \in Seq(Nat)
      BY <1>3, ResultsAreOfModels
    <2>5. /\ Len(procs'[p].results) = n + 1 /\ DOMAIN procs'[p].results = 1..(n + 1)
          /\ \A i \in 1..n : procs'[p].results[i] = procs[p].results[i]
      BY <2>2, <2>4
    <2>6. \A i \in 1..n : Evidence(p, i)' = Evidence(p, i)
      BY <2>3, <2>5 DEF Evidence, Models
    <2>7. /\ \A i : Own(p, i)' = Own(p, i) /\ TrackingRun(p, i)' = TrackingRun(p, i)
          /\ \A i \in 1..n : Files(p, i)' = Files(p, i)
      BY <2>3, <2>6 DEF Own, TrackingRun, Files, Models
    <2>8. /\ SavedCount(p) = n /\ SavedCount(p)' = n /\ LoggedCount(p) = n /\ LoggedCount(p)' = n
      BY <1>1, <2>2, <2>4, <2>5 DEF SavedCount, LoggedCount
    <2>9. procs[p].tagged = 0 /\ \A i \in 1..n : ClosedRun(p, i)' = ClosedRun(p, i)
      <3>1. procs[p].tagged = 0
        BY <1>1, <1>3 DEF HandInv
      <3>2. ASSUME NEW i \in 1..n PROVE ClosedRun(p, i)' = ClosedRun(p, i)
        <4>1. ~(i <= procs[p].tagged) /\ ~(i <= procs'[p].tagged)
          BY <2>3, <2>4, <3>1
        <4>2. Evidence(p, i)' = Evidence(p, i)
          BY <2>6
        <4> QED
          BY <2>3, <4>1, <4>2 DEF ClosedRun
      <3> QED
        BY <3>1, <3>2
    <2>10. OnlyOwnRecords(p)
      <3>1. \A k : k[1] # procs[p].id => SameEntry(artifacts, artifacts', k)
        BY <2>1 DEF Extend, SameEntry, Own
      <3>2. \A k \in DOMAIN tracked' : k[1] = procs[p].attempt => tracked'[k].id = procs[p].id
        BY <1>1, <1>3, RunsOfAnAttempt DEF OwnRecords
      <3> QED
        BY <1>1, <3>1, <3>2 DEF OnlyOwnRecords, SameEntry
    <2>11. FilesInv(p)'
      <3>1. \A k \in DOMAIN artifacts' :
                k[1] = procs[p].id => \E i \in 1..(n + 1) : k = Own(p, i)
        BY <1>3, <2>1, <2>4 DEF OwnRecords, FilesInv, Extend
      <3>2. \A i, j \in 1..(n + 1) : Own(p, i) = Own(p, j) => i = j
        <4>1. \A i \in 1..(n + 1) : i \in 1..n \/ i = n + 1
          BY <2>4
        <4>2. \A i \in 1..n : Own(p, i) # key
          BY <1>3, <2>1, <2>4 DEF OwnRecords, FilesInv
        <4> QED
          BY <1>3, <2>4, <4>1, <4>2 DEF OwnRecords, FilesInv
      <3>3. ASSUME NEW i \in 1..(n + 1)
            PROVE  /\ Own(p, i) \in DOMAIN artifacts'
                   /\ artifacts'[Own(p, i)] = IF i <= n THEN Files(p, i)' ELSE None
        <4>1. CASE i = n + 1
          BY <2>1, <2>4, <4>1 DEF Extend
        <4>2. CASE i \in 1..n
          <5>1. Own(p, i) \in DOMAIN artifacts /\ artifacts[Own(p, i)] = Files(p, i)
            BY <1>3, <2>4, <2>8, <4>2 DEF OwnRecords, FilesInv
          <5>2. i <= n /\ Own(p, i) # key
            BY <2>1, <2>4, <4>2, <5>1
          <5> QED
            BY <2>1, <2>7, <4>2, <5>1, <5>2 DEF Extend
        <4> QED
          BY <2>4, <4>1, <4>2
      <3> QED
        BY <2>3, <2>5, <2>7, <2>8, <3>1, <3>2, <3>3 DEF FilesInv
    <2>12. RunsInv(p)'
      BY <1>1, <1>3, <2>2, <2>3, <2>7, <2>8, <2>9
         DEF OwnRecords, RunsInv, Fitting, Claimed
    <2>13. ComparisonInv(p)'
      BY <1>1, <1>3, <2>2, <2>3 DEF OwnRecords, ComparisonInv
    <2>14. PICK own : own = procs[p].id
      OBVIOUS
    <2>15. OneOf(own)'
      <3>1. OneOf(own)
        BY <1>3, <2>14 DEF HandInv, RecordInv, EntryInv
      <3> QED
        BY <1>1, <3>1 DEF OneOf, Chosen
    <2>16. \A k \in DOMAIN artifacts' : artifacts'[k] \in ModelRecord \cup {None}
      BY <2>1 DEF Extend, RecordInv, EntryInv
    <2> QED
      BY <1>1, <1>3, <2>2, <2>10, <2>11, <2>12, <2>13, <2>14, <2>15, <2>16,
         OwnRecordsChange
         DEF OwnRecords, RecordInv, EntryInv
  <1> QED
    BY <1>4, <1>5

LEMMA SaveModelKeepsRecords ==
    ASSUME TrainInv, PlaceInv, RecordInv, NEW p \in Process, SaveModel(p) PROVE RecordInv'
  <1> DEFINE n == Len(procs[p].results)
  <1>1. /\ procs[p].at = "save" /\ UNCHANGED <<runs, tracked, comparisons>>
    BY DEF SaveModel
  <1>2. /\ OwnRecords(p) /\ HandInv(p) /\ DOMAIN procs[p] = Field
        /\ procs[p].at \in Fitting /\ procs[p].at \in Claimed
    BY <1>1 DEF RecordInv, PlaceInv, TrainInv, TrainingInv, Fitting, Claimed
  <1>3. artifacts' = [artifacts EXCEPT ![Own(p, n)] = Files(p, n)]
    BY DEF SaveModel, Directory, ModelFiles, Own, Files
  <1>4. PICK at \in {"fit", "publish", "log"} :
            Goto(p, at) /\ (at = "log" <=> procs[p].kind # "baseline")
    BY DEF SaveModel, NextModel
  <1>5. /\ procs' = [procs EXCEPT ![p] = procs'[p]] /\ procs'[p].at = at
        /\ \A f \in Field \ {"at"} : procs'[p][f] = procs[p][f]
    BY <1>4, GotoMoves
  <1>6. /\ procs'[p].kind = procs[p].kind /\ procs'[p].attempt = procs[p].attempt
        /\ procs'[p].id = procs[p].id /\ procs'[p].train = procs[p].train
        /\ procs'[p].validation = procs[p].validation /\ procs'[p].named = procs[p].named
        /\ procs'[p].results = procs[p].results /\ procs'[p].tagged = procs[p].tagged
    BY <1>5, FieldIsField
  <1>7. /\ \A i : Evidence(p, i)' = Evidence(p, i) /\ Fitted(p)' = Fitted(p)
    BY <1>6, SameEvidence
  <1>8. /\ \A i : Own(p, i)' = Own(p, i)
        /\ \A i : Files(p, i)' = Files(p, i) /\ TrackingRun(p, i)' = TrackingRun(p, i)
        /\ \A i : ClosedRun(p, i)' = ClosedRun(p, i)
    BY <1>6, <1>7 DEF Own, Files, TrackingRun, ClosedRun, Status, Models
  <1>9. n \in Nat /\ DOMAIN procs[p].results = 1..n /\ n \in 1..n
    <2>1. n \in 1..Len(Models(procs[p].kind))
      BY <1>1, <1>2 DEF HandInv
    <2> QED
      BY <1>2, <2>1, ResultsAreOfModels, ModelsAreModels
  <1>10. /\ SavedCount(p) = n - 1 /\ SavedCount(p)' = n /\ LoggedCount(p) = n - 1
         /\ at = "log" => LoggedCount(p)' = n - 1
    <2>1. /\ SavedCount(p) = n - 1 /\ LoggedCount(p) = n - 1
      BY <1>1, <1>9 DEF SavedCount, LoggedCount
    <2>2. SavedCount(p)' = n - 0
      BY <1>4, <1>5, <1>6 DEF SavedCount
    <2>3. at = "log" => LoggedCount(p)' = n - 1
      BY <1>5, <1>6 DEF LoggedCount
    <2>4. n - 0 = n
      BY <1>9
    <2> QED
      BY <2>1, <2>2, <2>3, <2>4
  <1>11. Own(p, n) \in DOMAIN artifacts /\ DOMAIN artifacts' = DOMAIN artifacts
    BY <1>2, <1>3, <1>9 DEF OwnRecords, FilesInv
  <1>12. OnlyOwnRecords(p)
    <2>1. \A k : k[1] # procs[p].id => SameEntry(artifacts, artifacts', k)
      BY <1>3 DEF SameEntry, Own
    <2>2. \A k \in DOMAIN tracked' : k[1] = procs[p].attempt => tracked'[k].id = procs[p].id
      BY <1>1, <1>2, RunsOfAnAttempt DEF OwnRecords
    <2> QED
      BY <1>1, <2>1, <2>2 DEF OnlyOwnRecords, SameEntry
  <1>13. FilesInv(p)'
    <2>1. ASSUME NEW i \in 1..n
          PROVE  /\ Own(p, i) \in DOMAIN artifacts'
                 /\ artifacts'[Own(p, i)] = IF i <= n THEN Files(p, i) ELSE None
      <3>1. CASE i = n
        BY <1>3, <1>11, <3>1
      <3>2. CASE i # n
        <4>1. i <= n - 1 /\ i <= n
          BY <1>9, <3>2
        <4>2. Own(p, i) \in DOMAIN artifacts /\ artifacts[Own(p, i)] = Files(p, i)
          BY <1>2, <1>9, <1>10, <4>1 DEF OwnRecords, FilesInv
        <4>3. Own(p, i) # Own(p, n)
          BY <1>2, <1>9, <3>2 DEF OwnRecords, FilesInv
        <4> QED
          BY <1>3, <1>11, <4>1, <4>2, <4>3
      <3> QED
        BY <3>1, <3>2
    <2> QED
      BY <1>2, <1>6, <1>8, <1>9, <1>10, <1>11, <2>1 DEF OwnRecords, FilesInv
  <1>14. RunsInv(p)'
    BY <1>1, <1>2, <1>4, <1>5, <1>6, <1>8, <1>10 DEF OwnRecords, RunsInv, Fitting, Claimed
  <1>15. ComparisonInv(p)'
    BY <1>1, <1>2, <1>5, <1>6 DEF OwnRecords, ComparisonInv
  <1>16. PICK own : own = procs[p].id
    OBVIOUS
  <1>17. OneOf(own)'
    <2>1. OneOf(own)
      BY <1>2, <1>16 DEF HandInv, RecordInv, EntryInv
    <2> QED
      BY <1>1, <2>1 DEF OneOf, Chosen
  <1>18. \A k \in DOMAIN artifacts' : artifacts'[k] \in ModelRecord \cup {None}
    <2>1. Evidence(p, n) \in ModelEvidence
      BY <1>2, <1>9, EvidenceIsOfItsModel
    <2>2. procs[p].train \in Version /\ procs[p].validation \in Version
      BY <1>2 DEF HandInv
    <2>3. procs[p].named \in Version
      BY <1>2 DEF HandInv
    <2>4. Files(p, n) \in ModelRecord
      BY <2>1, <2>2, <2>3 DEF Files, ModelRecord, ModelEvidence
    <2> QED
      BY <1>3, <1>11, <2>4 DEF RecordInv, EntryInv
  <1> QED
    BY <1>1, <1>2, <1>5, <1>12, <1>13, <1>14, <1>15, <1>16, <1>17, <1>18,
       OwnRecordsChange
       DEF OwnRecords, RecordInv, EntryInv

\* Until a training tags, nothing of its experiment is selected.
LEMMA NothingSelectedYet ==
    ASSUME NEW p, procs[p].at \in Fitting, procs[p].kind # "baseline", procs[p].tagged = 0,
           RunsInv(p), HandInv(p), NEW key \in DOMAIN tracked, tracked[key].id = procs[p].id
    PROVE  tracked[key].status = "none"
  <1>1. procs[p].at \in Claimed
    BY DEF Claimed
  <1>2. PICK i \in 1..LoggedCount(p) : key = TrackingRun(p, i) /\ tracked[key] = ClosedRun(p, i)
    BY <1>1 DEF RunsInv
  <1>3. ~(i <= procs[p].tagged)
    OBVIOUS
  <1> QED
    BY <1>2, <1>3 DEF ClosedRun

LEMMA LogRunKeepsRecords ==
    ASSUME TrainInv, PlaceInv, RecordInv, NEW p \in Process, LogRun(p) PROVE RecordInv'
  <1> DEFINE n == Len(procs[p].results)
             key == TrackingRun(p, n)
  <1>1. procs[p].at = "log" /\ UNCHANGED <<runs, artifacts, comparisons>>
    BY DEF LogRun
  <1>2. /\ OwnRecords(p) /\ HandInv(p) /\ DOMAIN procs[p] = Field /\ RunsInv(p)
        /\ procs[p].at \in Fitting /\ procs[p].at \in Claimed /\ procs[p].at \in CandidateOnly
    BY <1>1 DEF RecordInv, PlaceInv, TrainInv, TrainingInv, Fitting, Claimed, CandidateOnly,
                OwnRecords
  <1>3. PICK finished, run :
            /\ finished \in BOOLEAN
            /\ run = [id |-> procs[p].id, macro_f1 |-> Evidence(p, n).macro_f1,
                      train |-> procs[p].train, named |-> procs[p].named,
                      finished |-> finished, status |-> "none"]
            /\ tracked' = Extend(tracked, key, run)
            /\ IF finished THEN Goto(p, NextModel(p, "rank")) ELSE End(p)
    BY DEF LogRun
  <1>4. /\ procs[p].kind # "baseline" /\ procs[p].tagged = 0
    BY <1>1, <1>2 DEF HandInv
  <1>5. n \in Nat /\ DOMAIN procs[p].results = 1..n /\ n \in 1..n
    <2>1. n \in 1..Len(Models(procs[p].kind))
      BY <1>1, <1>2 DEF HandInv
    <2> QED
      BY <1>2, <2>1, ResultsAreOfModels, ModelsAreModels
  <1>6. key[1] = procs[p].attempt /\ run.id = procs[p].id /\ run.status = "none"
    BY <1>3 DEF TrackingRun
  <1>7. \A k : k # key => SameEntry(tracked, tracked', k)
    BY <1>3 DEF Extend, SameEntry
  <1>8. key \in DOMAIN tracked' /\ tracked'[key] = run
    BY <1>3 DEF Extend
  <1>9. OnlyOwnRecords(p)
    <2>1. \A k : k[1] # procs[p].attempt => SameEntry(tracked, tracked', k)
      BY <1>6, <1>7
    <2>2. \A k \in DOMAIN tracked' : k[1] = procs[p].attempt => tracked'[k].id = procs[p].id
      BY <1>2, <1>6, <1>7, <1>8, RunsOfAnAttempt DEF SameEntry
    <2> QED
      BY <1>1, <2>1, <2>2 DEF OnlyOwnRecords, SameEntry
  <1>10. PICK own : own = procs[p].id
    OBVIOUS
  <1>11. OneOf(own)'
    <2>1. \A k \in DOMAIN tracked' : tracked'[k].id = own => tracked'[k].status = "none"
      <3>1. \A k \in DOMAIN tracked : tracked[k].id = own => tracked[k].status = "none"
        BY <1>2, <1>4, <1>10, NothingSelectedYet
      <3> QED
        BY <1>6, <1>7, <1>8, <3>1 DEF SameEntry
    <2>2. Chosen(own)' = {}
      BY <2>1 DEF Chosen
    <2>3. own \notin DOMAIN comparisons'
      BY <1>1, <1>2, <1>10 DEF OwnRecords, ComparisonInv
    <2> QED
      BY <2>2, <2>3, FS_EmptySet DEF OneOf
  <1>12. OwnRecords(p)' /\ procs' = [procs EXCEPT ![p] = procs'[p]]
    <2>1. CASE ~finished
      <3>1. procs'[p].at = "ended" /\ procs' = [procs EXCEPT ![p] = procs'[p]]
        BY <1>3, <2>1 DEF End, TrainInv, Idle
      <3> QED
        BY <3>1 DEF OwnRecords, FilesInv, RunsInv, ComparisonInv, Claimed, Fitting
    <2>2. CASE finished
      <3>1. PICK at \in {"fit", "rank"} : Goto(p, at)
        BY <1>3, <2>2 DEF NextModel
      <3>2. /\ procs' = [procs EXCEPT ![p] = procs'[p]] /\ procs'[p].at = at
            /\ \A f \in Field \ {"at"} : procs'[p][f] = procs[p][f]
        BY <3>1, GotoMoves
      <3>3. /\ procs'[p].kind = procs[p].kind /\ procs'[p].attempt = procs[p].attempt
            /\ procs'[p].id = procs[p].id /\ procs'[p].train = procs[p].train
            /\ procs'[p].validation = procs[p].validation /\ procs'[p].named = procs[p].named
            /\ procs'[p].results = procs[p].results /\ procs'[p].tagged = procs[p].tagged
        BY <3>2, FieldIsField
      <3>4. /\ \A i : Evidence(p, i)' = Evidence(p, i) /\ Fitted(p)' = Fitted(p)
        BY <3>3, SameEvidence
      <3>5. /\ \A i : Own(p, i)' = Own(p, i)
            /\ \A i : Files(p, i)' = Files(p, i) /\ TrackingRun(p, i)' = TrackingRun(p, i)
            /\ \A i : ClosedRun(p, i)' = ClosedRun(p, i)
        BY <3>3, <3>4 DEF Own, Files, TrackingRun, ClosedRun, Status, Models
      <3>6. SavedCount(p)' = SavedCount(p)
        BY <1>1, <3>2, <3>3 DEF SavedCount
      <3>7. LoggedCount(p) = n - 1 /\ LoggedCount(p)' = n
        <4>1. LoggedCount(p) = n - 1
          BY <1>1 DEF LoggedCount
        <4>2. LoggedCount(p)' = n - 0
          BY <3>2, <3>3 DEF LoggedCount
        <4> QED
          BY <1>5, <4>1, <4>2
      <3>8. FilesInv(p)'
        BY <1>1, <1>2, <3>3, <3>5, <3>6 DEF OwnRecords, FilesInv
      <3>9. run = ClosedRun(p, n)
        <4>1. ~(n <= procs[p].tagged)
          BY <1>4, <1>5
        <4> QED
          BY <1>3, <2>2, <4>1 DEF ClosedRun
      <3>10. ASSUME NEW i \in 1..n
             PROVE  TrackingRun(p, i) \in DOMAIN tracked' /\ tracked'[TrackingRun(p, i)] = ClosedRun(p, i)
        <4>1. CASE i = n
          BY <1>8, <3>9, <4>1
        <4>2. CASE i # n
          <5>1. i \in 1..(n - 1)
            BY <1>5, <4>2
          <5>2. TrackingRun(p, i) \in DOMAIN tracked /\ tracked[TrackingRun(p, i)] = ClosedRun(p, i)
            BY <1>2, <1>4, <3>7, <5>1 DEF RunsInv
          <5>3. TrackingRun(p, i) # key
            <6>1. Own(p, i) # Own(p, n)
              BY <1>2, <1>5, <4>2 DEF OwnRecords, FilesInv
            <6> QED
              BY <1>4, <6>1, ModelsAreModels DEF Own, TrackingRun
          <5> QED
            BY <1>7, <5>2, <5>3 DEF SameEntry
        <4> QED
          BY <4>1, <4>2
      <3>11. \A k \in DOMAIN tracked' :
                 k[1] = procs[p].attempt => \E i \in 1..n : k = TrackingRun(p, i)
        <4>1. \A k \in DOMAIN tracked :
                 k[1] = procs[p].attempt => \E i \in 1..(n - 1) : k = TrackingRun(p, i)
          BY <1>2, <1>4, <3>7 DEF RunsInv
        <4> QED
          BY <1>5, <1>7, <4>1 DEF SameEntry
      <3>12. \A k \in DOMAIN tracked' : tracked'[k].id = procs[p].id => k[1] = procs[p].attempt
        BY <1>2, <1>6, <1>7 DEF RunsInv, SameEntry
      <3>13. RunsInv(p)'
        <4>1. procs'[p].at \in Fitting /\ procs'[p].kind # "baseline"
              /\ procs'[p].at \notin {"tag", "report", "board", "merge"}
          BY <1>4, <3>2, <3>3 DEF Fitting
        <4> QED
          BY <3>3, <3>5, <3>7, <3>10, <3>11, <3>12, <4>1 DEF RunsInv
      <3>14. ComparisonInv(p)'
        BY <1>1, <1>2, <3>2, <3>3 DEF OwnRecords, ComparisonInv
      <3> QED
        BY <3>2, <3>8, <3>13, <3>14 DEF OwnRecords
    <2> QED
      BY <2>1, <2>2
  <1>13. \A k \in DOMAIN tracked' : k[1] = procs[p].attempt =>
             tracked'[k].status \in {"none", "selected", "eligible_not_selected", "rejected"}
    BY <1>6, <1>7, <1>8 DEF SameEntry, RecordInv, EntryInv
  <1> QED
    BY <1>1, <1>2, <1>9, <1>10, <1>11, <1>12, <1>13, OwnRecordsChange DEF RecordInv, EntryInv

-----------------------------------------------------------------------------
\* The selection.

Tagging == {"tag", "report", "board", "merge"}

\* Whatever of its runs a training has tagged, it has selected at most the best.
SelectsTheBest(p) ==
    procs[p].at \in Tagging /\ HandInv(p) /\ OwnRecords(p) =>
        /\ Cardinality(Chosen(procs[p].id)) <= 1
        /\ \A key \in Chosen(procs[p].id), c \in {Candidate[i] : i \in DOMAIN Candidate} :
              /\ <<key[1], c>> \in DOMAIN tracked /\ tracked[<<key[1], c>>].finished
              /\ tracked[<<key[1], c>>].status = "eligible_not_selected" =>
                    tracked[<<key[1], c>>].macro_f1 <= tracked[key].macro_f1
        /\ procs[p].tagged = Len(Candidate) =>
              Chosen(procs[p].id) = {<<procs[p].attempt, c>> : c \in Selection(Fitted(p))}

LEMMA TrainingsSelectTheBest == \A p : SelectsTheBest(p)
  <1> SUFFICES ASSUME NEW p, procs[p].at \in Tagging, HandInv(p), OwnRecords(p)
               PROVE  SelectsTheBest(p)
    BY DEF SelectsTheBest
  <1> DEFINE n == Len(Candidate)
             id == procs[p].id
  <1>1. /\ procs[p].at \in Claimed /\ procs[p].at \in Fitting /\ procs[p].at \in Complete
        /\ procs[p].at \in CandidateOnly /\ procs[p].at \notin {"save", "log"}
    BY DEF Tagging, Claimed, Fitting, Complete, CandidateOnly
  <1>2. /\ procs[p].kind # "baseline" /\ Models(procs[p].kind) = Candidate
        /\ Len(procs[p].results) = n /\ n \in Nat
    BY <1>1, ModelsAreModels DEF HandInv
  <1>3. /\ DOMAIN procs[p].results = 1..n /\ DOMAIN Candidate = 1..n /\ LoggedCount(p) = n
    <2>1. DOMAIN procs[p].results = 1..n
      BY <1>1, <1>2, ResultsAreOfModels
    <2>2. DOMAIN Candidate = 1..n
      BY ExperimentsAssumption
    <2>3. LoggedCount(p) = n - 0
      BY <1>1, <1>2 DEF LoggedCount
    <2> QED
      BY <1>2, <2>1, <2>2, <2>3
  <1>4. /\ FilesInv(p) /\ RunsInv(p) /\ Selection(Fitted(p)) # {}
    BY DEF OwnRecords, RunsInv, Tagging
  <1>5. /\ \A key \in DOMAIN tracked :
              tracked[key].id = id => \E i \in 1..n : key = TrackingRun(p, i)
        /\ \A i \in 1..n : /\ TrackingRun(p, i) \in DOMAIN tracked
                           /\ tracked[TrackingRun(p, i)] = ClosedRun(p, i)
    BY <1>1, <1>2, <1>3, <1>4 DEF RunsInv
  <1>6. /\ Fitted(p) \in SUBSET ModelEvidence /\ IsFiniteSet(Fitted(p)) /\ Distinct(Fitted(p))
        /\ \A i \in 1..n : Evidence(p, i) \in Fitted(p)
        /\ \A c \in Fitted(p) : \E i \in 1..n : c = Evidence(p, i) /\ c.name = Candidate[i]
    BY <1>1, <1>2, <1>3, <1>4, FittedAreComparable
  <1>7. PICK best \in Fitted(p) :
            /\ Selection(Fitted(p)) = {best.name} /\ Eligible(best)
            /\ \A d \in Fitted(p) : Eligible(d) => d.macro_f1 <= best.macro_f1
    BY <1>4, <1>6, SelectionIsBest
  <1>8. PICK b \in 1..n : best = Evidence(p, b) /\ best.name = Candidate[b]
    BY <1>6
  <1>9. \A i, j \in 1..n : Candidate[i] = Candidate[j] => i = j
    BY <1>1, <1>2, <1>3, <1>4 DEF FilesInv, Own
  <1>10. \A i \in 1..n : /\ ClosedRun(p, i).id = id /\ ClosedRun(p, i).finished
                         /\ ClosedRun(p, i).macro_f1 = Evidence(p, i).macro_f1
                         /\ ClosedRun(p, i).status =
                               IF i <= procs[p].tagged THEN Status(p, i) ELSE "none"
    BY DEF ClosedRun
  <1>11. ASSUME NEW i \in 1..n
         PROVE  /\ Status(p, i) = "selected" <=> i = b
                /\ Status(p, i) = "eligible_not_selected" => Eligible(Evidence(p, i))
    BY <1>7, <1>8, <1>9 DEF Status
  <1>12. Chosen(id) \subseteq {TrackingRun(p, b)}
    <2> SUFFICES ASSUME NEW key \in Chosen(id) PROVE key = TrackingRun(p, b)
      OBVIOUS
    <2>1. key \in DOMAIN tracked /\ tracked[key].id = id /\ tracked[key].status = "selected"
      BY DEF Chosen
    <2>2. PICK i \in 1..n : key = TrackingRun(p, i)
      BY <1>5, <2>1
    <2>3. Status(p, i) = "selected"
      BY <1>5, <1>10, <2>1, <2>2
    <2> QED
      BY <1>11, <2>2, <2>3
  <1>13. Cardinality(Chosen(id)) <= 1
    <2>1. Chosen(id) \in SUBSET {TrackingRun(p, b)}
      BY <1>12
    <2>2. IsFiniteSet({TrackingRun(p, b)}) /\ Cardinality({TrackingRun(p, b)}) = 1
      BY FS_Singleton
    <2> QED
      BY <2>1, <2>2, FS_Subset
  <1>14. ASSUME NEW key \in Chosen(id), NEW i \in 1..n
         PROVE  /\ <<key[1], Candidate[i]>> \in DOMAIN tracked
                /\ tracked[<<key[1], Candidate[i]>>].finished
                /\ tracked[<<key[1], Candidate[i]>>].status = "eligible_not_selected" =>
                      tracked[<<key[1], Candidate[i]>>].macro_f1 <= tracked[key].macro_f1
    <2>1. key = TrackingRun(p, b) /\ <<key[1], Candidate[i]>> = TrackingRun(p, i)
      BY <1>12 DEF TrackingRun
    <2>2. tracked[key].macro_f1 = best.macro_f1
      BY <1>5, <1>8, <1>10, <2>1
    <2>3. /\ TrackingRun(p, i) \in DOMAIN tracked /\ tracked[TrackingRun(p, i)].finished
          /\ tracked[TrackingRun(p, i)].macro_f1 = Evidence(p, i).macro_f1
          /\ tracked[TrackingRun(p, i)].status = "eligible_not_selected" =>
                Status(p, i) = "eligible_not_selected"
      BY <1>5, <1>10
    <2>4. Status(p, i) = "eligible_not_selected" => Evidence(p, i).macro_f1 <= best.macro_f1
      BY <1>6, <1>7, <1>11
    <2> QED
      BY <2>1, <2>2, <2>3, <2>4
  <1>15. ASSUME procs[p].tagged = n
         PROVE  Chosen(id) = {<<procs[p].attempt, c>> : c \in Selection(Fitted(p))}
    <2>1. b <= procs[p].tagged
      BY <1>2, <1>15
    <2>2. tracked[TrackingRun(p, b)].status = "selected"
      BY <1>5, <1>10, <1>11, <2>1
    <2>3. TrackingRun(p, b) \in Chosen(id)
      BY <1>5, <1>10, <2>2 DEF Chosen
    <2>4. TrackingRun(p, b) = <<procs[p].attempt, best.name>>
      BY <1>8 DEF TrackingRun
    <2>5. Chosen(id) = {<<procs[p].attempt, best.name>>}
      BY <1>12, <2>3, <2>4
    <2> QED
      BY <1>7, <2>5
  <1>16. \A key \in Chosen(id), c \in {Candidate[i] : i \in DOMAIN Candidate} :
              /\ <<key[1], c>> \in DOMAIN tracked /\ tracked[<<key[1], c>>].finished
              /\ tracked[<<key[1], c>>].status = "eligible_not_selected" =>
                    tracked[<<key[1], c>>].macro_f1 <= tracked[key].macro_f1
    BY <1>3, <1>14
  <1> QED
    BY <1>13, <1>15, <1>16 DEF SelectsTheBest

LEMMA TrainingsSelectTheBestNext == (\A p : SelectsTheBest(p))'
  BY TrainingsSelectTheBest, PTL

\* A tag replaces the status of a run.
LEMMA RunWithItsTag ==
    ASSUME NEW id, NEW score, NEW train, NEW named, NEW finished, NEW before, NEW after, NEW run,
           run = [id |-> id, macro_f1 |-> score, train |-> train, named |-> named,
                  finished |-> finished, status |-> before]
    PROVE  [run EXCEPT !.status = after] =
               [id |-> id, macro_f1 |-> score, train |-> train, named |-> named,
                finished |-> finished, status |-> after]
  OBVIOUS

LEMMA TagRunKeepsRecords ==
    ASSUME TrainInv, PlaceInv, RecordInv, PlaceInv', NEW p \in Process, TagRun(p)
    PROVE  RecordInv'
  <1> DEFINE n == Len(Candidate)
             i == procs[p].tagged + 1
             key == TrackingRun(p, i)
  <1>1. /\ procs[p].at = "tag" /\ UNCHANGED <<runs, artifacts, comparisons>>
        /\ tracked' = [tracked EXCEPT ![key].status = Status(p, i)]
    BY DEF TagRun
  <1>2. /\ OwnRecords(p) /\ HandInv(p) /\ DOMAIN procs[p] = Field /\ RunsInv(p)
        /\ procs[p].at \in Fitting /\ procs[p].at \in Claimed /\ procs[p].at \in CandidateOnly
        /\ procs[p].at \in Complete
    BY <1>1 DEF RecordInv, PlaceInv, TrainInv, TrainingInv, Fitting, Claimed, CandidateOnly,
                OwnRecords, Complete
  <1>3. /\ procs[p].kind # "baseline" /\ Models(procs[p].kind) = Candidate
        /\ Len(procs[p].results) = n /\ n \in Nat /\ procs[p].tagged \in Nat /\ i \in 1..n
    BY <1>1, <1>2, ModelsAreModels DEF HandInv
  <1>4. DOMAIN procs[p].results = 1..n /\ LoggedCount(p) = n
    <2>1. DOMAIN procs[p].results = 1..n
      BY <1>2, <1>3, ResultsAreOfModels
    <2>2. LoggedCount(p) = n - 0
      BY <1>1, <1>3 DEF LoggedCount
    <2> QED
      BY <1>3, <2>1, <2>2
  <1>5. /\ procs' = [procs EXCEPT ![p] = procs'[p]] /\ procs'[p].tagged = i
        /\ procs'[p].at = IF i = n THEN "report" ELSE "tag"
        /\ \A f \in Field \ {"at", "tagged"} : procs'[p][f] = procs[p][f]
    BY <1>2, FieldIsField DEF TagRun, TrainInv
  <1>6. /\ procs'[p].kind = procs[p].kind /\ procs'[p].attempt = procs[p].attempt
        /\ procs'[p].id = procs[p].id /\ procs'[p].train = procs[p].train
        /\ procs'[p].validation = procs[p].validation /\ procs'[p].named = procs[p].named
        /\ procs'[p].results = procs[p].results
    BY <1>5, FieldIsField
  <1>7. procs'[p].at \in {"tag", "report"} /\ procs'[p].at \in Tagging
    BY <1>5 DEF Tagging
  <1>8. /\ \A j : Evidence(p, j)' = Evidence(p, j) /\ Fitted(p)' = Fitted(p)
    BY <1>6, SameEvidence
  <1>9. /\ \A j : Own(p, j)' = Own(p, j)
        /\ \A j : Files(p, j)' = Files(p, j) /\ TrackingRun(p, j)' = TrackingRun(p, j)
        /\ \A j : Status(p, j)' = Status(p, j)
    BY <1>6, <1>8 DEF Own, Files, TrackingRun, Status, Models
  <1>10. SavedCount(p)' = SavedCount(p) /\ LoggedCount(p)' = n
    <2>1. SavedCount(p)' = SavedCount(p)
      BY <1>1, <1>6, <1>7 DEF SavedCount
    <2>2. LoggedCount(p)' = LoggedCount(p)
      BY <1>1, <1>6, <1>7 DEF LoggedCount
    <2> QED
      BY <1>4, <2>1, <2>2
  <1>11. /\ \A j \in 1..n : /\ TrackingRun(p, j) \in DOMAIN tracked
                            /\ tracked[TrackingRun(p, j)] = ClosedRun(p, j)
         /\ \A k \in DOMAIN tracked :
               k[1] = procs[p].attempt => \E j \in 1..n : k = TrackingRun(p, j)
    BY <1>2, <1>3, <1>4 DEF RunsInv
  <1>12. /\ DOMAIN tracked' = DOMAIN tracked
         /\ \A k \in DOMAIN tracked : k # key => tracked'[k] = tracked[k]
         /\ tracked'[key] = [tracked[key] EXCEPT !.status = Status(p, i)]
    BY <1>1, <1>3, <1>11
  <1>13. ASSUME NEW j \in 1..n PROVE tracked'[TrackingRun(p, j)] = ClosedRun(p, j)'
    <2>1. CASE j = i
      <3>1. j <= procs'[p].tagged
        BY <1>3, <1>5, <2>1
      <3>2. tracked[key] = ClosedRun(p, i)
        BY <1>3, <1>11
      <3>3. PICK id, score, train, named, finished, before, after, run :
               /\ id = procs[p].id /\ score = Evidence(p, i).macro_f1
               /\ train = procs[p].train /\ named = procs[p].named
               /\ finished = TRUE /\ after = Status(p, i) /\ run = ClosedRun(p, i)
               /\ run = [id |-> id, macro_f1 |-> score, train |-> train, named |-> named,
                         finished |-> finished, status |-> before]
        BY DEF ClosedRun
      <3>4. [run EXCEPT !.status = after] =
                [id |-> id, macro_f1 |-> score, train |-> train, named |-> named,
                 finished |-> finished, status |-> after]
        <4>1. run = [id |-> id, macro_f1 |-> score, train |-> train, named |-> named,
                     finished |-> finished, status |-> before]
          BY <3>3
        <4> QED
          BY <4>1, RunWithItsTag
      <3>5. ClosedRun(p, j)' =
                [id |-> id, macro_f1 |-> score, train |-> train, named |-> named,
                 finished |-> finished, status |-> after]
        BY <1>6, <1>8, <1>9, <2>1, <3>1, <3>3 DEF ClosedRun
      <3> QED
        BY <1>12, <2>1, <3>2, <3>3, <3>4, <3>5
    <2>2. CASE j # i
      <3>1. (j <= procs'[p].tagged) <=> (j <= procs[p].tagged)
        BY <1>3, <1>5, <2>2
      <3>2. ClosedRun(p, j)' = ClosedRun(p, j)
        BY <1>6, <1>8, <1>9, <3>1 DEF ClosedRun
      <3>3. TrackingRun(p, j) # key
        <4>1. Own(p, i) # Own(p, j)
          BY <1>2, <1>3, <1>4, <2>2 DEF OwnRecords, FilesInv
        <4> QED
          BY <1>3, <4>1 DEF Own, TrackingRun
      <3> QED
        BY <1>11, <1>12, <3>2, <3>3
    <2> QED
      BY <2>1, <2>2
  <1>14. FilesInv(p)'
    BY <1>1, <1>2, <1>6, <1>9, <1>10 DEF OwnRecords, FilesInv
  <1>15. /\ key[1] = procs[p].attempt /\ tracked'[key].id = procs[p].id
         /\ tracked'[key].status = Status(p, i)
    <2>1. tracked[key] = ClosedRun(p, i)
      BY <1>3, <1>11
    <2> QED
      BY <1>12, <2>1 DEF TrackingRun, ClosedRun
  <1>16. RunsInv(p)'
    <2>1. \A k \in DOMAIN tracked' : tracked'[k].id = procs[p].id => k[1] = procs[p].attempt
      BY <1>2, <1>12, <1>15 DEF RunsInv
    <2>2. procs'[p].at \in Fitting /\ procs'[p].kind # "baseline"
      BY <1>3, <1>6, <1>7 DEF Fitting
    <2>3. Selection(Fitted(p)) # {}
      BY <1>1, <1>2 DEF RunsInv
    <2> QED
      BY <1>6, <1>8, <1>9, <1>10, <1>11, <1>12, <1>13, <2>1, <2>2, <2>3 DEF RunsInv
  <1>17. ComparisonInv(p)'
    BY <1>1, <1>2, <1>6, <1>7 DEF OwnRecords, ComparisonInv
  <1>18. OnlyOwnRecords(p)
    <2>1. \A k : k[1] # procs[p].attempt => SameEntry(tracked, tracked', k)
      BY <1>12, <1>15 DEF SameEntry
    <2>2. \A k \in DOMAIN tracked' : k[1] = procs[p].attempt => tracked'[k].id = procs[p].id
      BY <1>2, <1>12, <1>15, RunsOfAnAttempt
    <2> QED
      BY <1>1, <2>1, <2>2 DEF OnlyOwnRecords, SameEntry
  <1>19. PICK own : own = procs[p].id
    OBVIOUS
  <1>20. OneOf(own)'
    <2>1. HandInv(p)' /\ OwnRecords(p)'
      BY <1>14, <1>16, <1>17 DEF PlaceInv, OwnRecords
    <2>2. SelectsTheBest(p)'
      BY TrainingsSelectTheBestNext
    <2>3. procs'[p].id = own /\ own \notin DOMAIN comparisons'
      BY <1>1, <1>2, <1>6, <1>19 DEF OwnRecords, ComparisonInv
    <2> QED
      BY <1>7, <2>1, <2>2, <2>3 DEF SelectsTheBest, OneOf, Chosen
  <1>21. \A k \in DOMAIN tracked' :
             tracked'[k].status \in {"none", "selected", "eligible_not_selected", "rejected"}
    <2>1. Status(p, i) \in {"selected", "eligible_not_selected", "rejected"}
      BY DEF Status
    <2> QED
      BY <1>12, <1>15, <2>1 DEF RecordInv, EntryInv
  <1> QED
    BY <1>1, <1>2, <1>5, <1>14, <1>16, <1>17, <1>18, <1>19, <1>20, <1>21, OwnRecordsChange
       DEF OwnRecords, RecordInv, EntryInv

\* The comparison names the candidate that was selected.
LEMMA WriteComparisonKeepsRecords ==
    ASSUME TrainInv, PlaceInv, RecordInv, NEW p \in Process, WriteComparison(p)
    PROVE  RecordInv'
  <1>1. /\ procs[p].at = "report" /\ UNCHANGED <<runs, artifacts, tracked>> /\ Goto(p, "board")
        /\ comparisons' = Extend(comparisons, procs[p].id, Comparison(p))
    BY DEF WriteComparison, Comparison
  <1>2. /\ OwnRecords(p) /\ HandInv(p) /\ RunsInv(p) /\ FilesInv(p)
        /\ procs[p].at \in Fitting /\ procs[p].at \in Claimed
    BY <1>1 DEF RecordInv, PlaceInv, Fitting, Claimed, OwnRecords
  <1>3. /\ procs' = [procs EXCEPT ![p] = procs'[p]] /\ procs'[p].at = "board"
        /\ \A f \in Field \ {"at"} : procs'[p][f] = procs[p][f]
    BY <1>1, GotoMoves
  <1>4. /\ procs'[p].kind = procs[p].kind /\ procs'[p].attempt = procs[p].attempt
        /\ procs'[p].id = procs[p].id /\ procs'[p].train = procs[p].train
        /\ procs'[p].validation = procs[p].validation /\ procs'[p].named = procs[p].named
        /\ procs'[p].results = procs[p].results /\ procs'[p].tagged = procs[p].tagged
    BY <1>3, FieldIsField
  <1>5. /\ \A i : Evidence(p, i)' = Evidence(p, i) /\ Fitted(p)' = Fitted(p)
    BY <1>4, SameEvidence
  <1>6. /\ \A i : Own(p, i)' = Own(p, i)
        /\ \A i : Files(p, i)' = Files(p, i) /\ TrackingRun(p, i)' = TrackingRun(p, i)
        /\ \A i : ClosedRun(p, i)' = ClosedRun(p, i)
        /\ Comparison(p)' = Comparison(p)
        /\ SavedCount(p)' = SavedCount(p) /\ LoggedCount(p)' = LoggedCount(p)
    BY <1>1, <1>3, <1>4, <1>5
       DEF Own, Files, TrackingRun, ClosedRun, Comparison, Status, Models, SavedCount, LoggedCount
  <1>7. /\ procs[p].id \in DOMAIN comparisons' /\ comparisons'[procs[p].id] = Comparison(p)
        /\ \A id : id # procs[p].id => SameEntry(comparisons, comparisons', id)
    BY <1>1 DEF Extend, SameEntry
  <1>8. FilesInv(p)' /\ RunsInv(p)'
    BY <1>1, <1>2, <1>3, <1>4, <1>5, <1>6 DEF FilesInv, RunsInv, Fitting
  <1>9. ComparisonInv(p)'
    BY <1>3, <1>4, <1>6, <1>7 DEF ComparisonInv
  <1>10. OnlyOwnRecords(p)
    <2>1. \A k \in DOMAIN tracked : k[1] = procs[p].attempt => tracked[k].id = procs[p].id
      BY <1>2, RunsOfAnAttempt
    <2> QED
      BY <1>1, <1>7, <2>1 DEF OnlyOwnRecords, SameEntry
  <1>11. PICK own : own = procs[p].id
    OBVIOUS
  <1>12. OneOf(own)'
    <2>1. procs[p].at \in Tagging /\ procs[p].tagged = Len(Candidate)
      BY <1>1, <1>2 DEF HandInv, Tagging
    <2>2. SelectsTheBest(p)
      BY TrainingsSelectTheBest
    <2>3. Chosen(own)' = Chosen(own)
      BY <1>1 DEF Chosen
    <2>4. Chosen(own) = {<<procs[p].attempt, c>> : c \in Selection(Fitted(p))}
      BY <1>2, <1>11, <2>1, <2>2 DEF SelectsTheBest
    <2>5. /\ comparisons'[own].attempt = procs[p].attempt
          /\ comparisons'[own].selected = Selection(Fitted(p))
      BY <1>7, <1>11 DEF Comparison
    <2>6. Chosen(own) = {<<comparisons'[own].attempt, c>> : c \in comparisons'[own].selected}
      BY <2>4, <2>5
    <2>7. /\ Cardinality(Chosen(own)) <= 1
          /\ \A key \in Chosen(own), c \in {Candidate[i] : i \in DOMAIN Candidate} :
                /\ <<key[1], c>> \in DOMAIN tracked /\ tracked[<<key[1], c>>].finished
                /\ tracked[<<key[1], c>>].status = "eligible_not_selected" =>
                      tracked[<<key[1], c>>].macro_f1 <= tracked[key].macro_f1
      BY <1>2, <1>11, <2>1, <2>2 DEF SelectsTheBest
    <2> QED
      BY <1>1, <2>3, <2>6, <2>7 DEF OneOf
  <1>13. \E c \in comparisons'[procs[p].id].eligible : comparisons'[procs[p].id].selected = {c}
    <2>1. /\ Fitted(p) \in SUBSET ModelEvidence /\ IsFiniteSet(Fitted(p)) /\ Distinct(Fitted(p))
          /\ Selection(Fitted(p)) # {}
      BY <1>1, <1>2, FittedAreComparable DEF RunsInv
    <2>2. PICK best \in Fitted(p) : Selection(Fitted(p)) = {best.name} /\ Eligible(best)
      BY <2>1, SelectionIsBest
    <2> QED
      BY <1>7, <2>2 DEF Comparison
  <1> QED
    BY <1>1, <1>2, <1>3, <1>8, <1>9, <1>10, <1>11, <1>12, <1>13, OwnRecordsChange
       DEF OwnRecords, RecordInv, EntryInv

LEMMA NextRecordInv == TrainInv /\ PlaceInv /\ RecordInv /\ PlaceInv' /\ [Next]_vars => RecordInv'
  <1> SUFFICES ASSUME TrainInv, PlaceInv, RecordInv, PlaceInv', [Next]_vars PROVE RecordInv'
    OBVIOUS
  <1>1. CASE UNCHANGED vars \/ Tick \/ ContinuePreparation \/ \E v \in Version : BeginPreparation(v)
    <2>1. UNCHANGED <<procs, outputs>>
      BY <1>1 DEF vars, Tick, ContinuePreparation, BeginPreparation
    <2> QED
      BY <2>1, OutsideKeepsRecords
  <1>2. CASE \E p \in Process : Train(p)
    <2>1. PICK p \in Process : Train(p)
      BY <1>2
    <2>2. CASE \E kind \in Kind, w \in Workflow \cup {None} : Start(p, kind, w)
      BY <2>2, StartKeepsRecords
    <2>3. CASE VerifyData(p) \/ LoadData(p) \/ ClaimExperiment(p) \/ ConfigureTracking(p)
      BY <2>3, VerifyDataKeepsRecords, LoadDataKeepsRecords, ClaimExperimentKeepsRecords,
         ConfigureTrackingKeepsRecords
    <2>4. CASE FitModel(p) \/ SaveModel(p) \/ LogRun(p) \/ RankCandidates(p) \/ TagRun(p)
      BY <2>4, FitModelKeepsRecords, SaveModelKeepsRecords, LogRunKeepsRecords,
         RankCandidatesKeepsRecords, TagRunKeepsRecords
    <2>5. CASE WriteComparison(p) \/ PublishBaselines(p) \/ ReadLeaderboard(p)
      BY <2>5, WriteComparisonKeepsRecords, PublishBaselinesKeepsRecords,
         ReadLeaderboardKeepsRecords
    <2>6. CASE WriteRunManifest(p) \/ MergeLeaderboard(p) \/ Kill(p)
      BY <2>6, LastStepKeepsRecords
    <2> QED
      BY <2>1, <2>2, <2>3, <2>4, <2>5, <2>6 DEF Train
  <1> QED
    BY <1>1, <1>2 DEF Next

-----------------------------------------------------------------------------
\* The leaderboard.

Backed(row) ==
    LET own == <<row.id, row.name>>
        log == <<row.attempt, row.name>>
    IN  /\ own \in DOMAIN artifacts /\ artifacts[own] # None
        /\ artifacts[own].macro_f1 = row.macro_f1 /\ artifacts[own].named = row.named
        /\ row.stage = "stage6_candidate" =>
              /\ log \in DOMAIN tracked /\ tracked[log].finished
              /\ tracked[log].id = row.id /\ tracked[log].macro_f1 = row.macro_f1
              /\ tracked[log].status # "none"
              /\ row.eligible = (tracked[log].status # "rejected")
              /\ row.id \in DOMAIN comparisons
              /\ row.eligible = (row.name \in comparisons[row.id].eligible)

BackedFile(rows) ==
    /\ rows \in Seq(Row)
    /\ \A i \in DOMAIN rows : Backed(rows[i])
    /\ \A i, j \in DOMAIN rows :
          i # j => <<rows[i].id, rows[i].name>> # <<rows[j].id, rows[j].name>>

BoardInv ==
    /\ BackedFile(leaderboard) /\ RankedFile(leaderboard)
    /\ \A p \in Process : procs[p].at = "merge" => BackedFile(procs[p].read)


LEMMA BoardIsBacked == BoardInv => LeaderboardIsBacked
  <1> SUFFICES ASSUME BoardInv PROVE LeaderboardIsBacked
    OBVIOUS
  <1>1. /\ \A i \in DOMAIN leaderboard : Backed(leaderboard[i])
        /\ \A i, j \in DOMAIN leaderboard :
              i < j => <<leaderboard[i].id, leaderboard[i].name>> # <<leaderboard[j].id, leaderboard[j].name>>
        /\ leaderboard \in Seq(Row)
    <2>1. leaderboard \in Seq(Row)
      BY DEF BoardInv, BackedFile
    <2>2. \A i, j \in DOMAIN leaderboard : i < j => i # j
      BY <2>1
    <2> QED
      BY <2>1, <2>2 DEF BoardInv, BackedFile
  <1>2. \A i, j \in DOMAIN leaderboard :
            /\ leaderboard[i].rank = i
            /\ i < j => leaderboard[i].macro_f1 >= leaderboard[j].macro_f1
    BY DEF BoardInv, RankedFile
  <1> QED
    BY <1>1, <1>2 DEF LeaderboardIsBacked, Backed

\* What a row stands on is not changed any more.
RecordsPersist ==
    /\ \A key \in DOMAIN artifacts :
          artifacts[key] # None => key \in DOMAIN artifacts' /\ artifacts'[key] = artifacts[key]
    /\ \A key \in DOMAIN tracked :
          tracked[key].status # "none" => key \in DOMAIN tracked' /\ tracked'[key] = tracked[key]
    /\ \A id \in DOMAIN comparisons :
          id \in DOMAIN comparisons' /\ comparisons'[id] = comparisons[id]

LEMMA SameRecordsPersist == NoRecords => RecordsPersist
  BY DEF NoRecords, RecordsPersist

LEMMA FilePersists ==
    ASSUME NEW rows, BackedFile(rows), RecordsPersist PROVE BackedFile(rows)'
  <1>1. \A i \in DOMAIN rows : Backed(rows[i])'
    <2> SUFFICES ASSUME NEW row, Backed(row) PROVE Backed(row)'
      BY DEF BackedFile
    <2> QED
      BY DEF Backed, RecordsPersist
  <1> QED
    BY <1>1 DEF BackedFile

LEMMA RecordingPersists ==
    ASSUME PlaceInv, RecordInv, NEW p \in Process,
           FitModel(p) \/ SaveModel(p) \/ LogRun(p) \/ TagRun(p) \/ WriteComparison(p)
    PROVE  RecordsPersist
  <1>1. HandInv(p) /\ FilesInv(p) /\ RunsInv(p) /\ ComparisonInv(p)
    BY DEF PlaceInv, RecordInv, OwnRecords
  <1>2. CASE FitModel(p)
    <2>1. UNCHANGED <<tracked, comparisons>>
      BY <1>2 DEF FitModel
    <2>2. \/ UNCHANGED artifacts
          \/ \E key : key \notin DOMAIN artifacts /\ artifacts' = Extend(artifacts, key, None)
      BY <1>2 DEF FitModel, MayMake
    <2> QED
      BY <2>1, <2>2 DEF RecordsPersist, Extend
  <1>3. CASE SaveModel(p)
    <2> DEFINE n == Len(procs[p].results)
    <2>1. /\ procs[p].at = "save" /\ UNCHANGED <<tracked, comparisons>>
          /\ artifacts' = [artifacts EXCEPT ![Own(p, n)] = Files(p, n)]
      BY <1>3 DEF SaveModel, Directory, ModelFiles, Own, Files
    <2>2. procs[p].at \in Claimed /\ n \in DOMAIN procs[p].results /\ n \in Nat
      <3>1. procs[p].at \in Claimed /\ n \in 1..Len(Models(procs[p].kind))
        BY <1>1, <2>1 DEF HandInv, Claimed, Fitting
      <3> QED
        BY <1>1, <3>1, ResultsAreOfModels, ModelsAreModels
    <2>3. SavedCount(p) = n - 1 /\ ~(n <= n - 1)
      BY <2>1, <2>2 DEF SavedCount
    <2>4. artifacts[Own(p, n)] = None
      BY <1>1, <2>2, <2>3 DEF FilesInv
    <2> QED
      BY <2>1, <2>4 DEF RecordsPersist
  <1>4. CASE LogRun(p)
    <2> DEFINE key == TrackingRun(p, Len(procs[p].results))
    <2>1. /\ procs[p].at = "log" /\ UNCHANGED <<artifacts, comparisons>>
          /\ \E run : tracked' = Extend(tracked, key, run)
      BY <1>4 DEF LogRun
    <2>2. /\ procs[p].at \in Fitting /\ procs[p].kind # "baseline" /\ procs[p].tagged = 0
      BY <1>1, <2>1 DEF HandInv, Fitting, CandidateOnly
    <2>3. key \in DOMAIN tracked => tracked[key].status = "none"
      <3>1. key[1] = procs[p].attempt
        BY DEF TrackingRun
      <3> QED
        BY <1>1, <2>2, <3>1, RunsOfAnAttempt, NothingSelectedYet
    <2> QED
      BY <2>1, <2>3 DEF RecordsPersist, Extend
  <1>5. CASE TagRun(p)
    <2> DEFINE i == procs[p].tagged + 1
               key == TrackingRun(p, i)
    <2>1. /\ procs[p].at = "tag" /\ UNCHANGED <<artifacts, comparisons>>
          /\ tracked' = [tracked EXCEPT ![key].status = Status(p, i)]
      BY <1>5 DEF TagRun
    <2>2. /\ procs[p].at \in Fitting /\ procs[p].kind # "baseline"
          /\ procs[p].tagged \in Nat /\ i \in 1..Len(Candidate)
          /\ Len(procs[p].results) = Len(Candidate)
      BY <1>1, <2>1, ModelsAreModels DEF HandInv, Fitting, CandidateOnly, Complete
    <2>3. i \in 1..LoggedCount(p)
      <3>1. LoggedCount(p) = Len(Candidate) - 0
        BY <2>1, <2>2 DEF LoggedCount
      <3> QED
        BY <2>2, <3>1, ModelsAreModels
    <2>4. tracked[key] = ClosedRun(p, i) /\ ~(i <= procs[p].tagged)
      BY <1>1, <2>2, <2>3 DEF RunsInv
    <2>5. tracked[key].status = "none"
      BY <2>4 DEF ClosedRun
    <2> QED
      BY <2>1, <2>5 DEF RecordsPersist
  <1>6. CASE WriteComparison(p)
    <2>1. /\ procs[p].at = "report" /\ UNCHANGED <<artifacts, tracked>>
          /\ \E c : comparisons' = Extend(comparisons, procs[p].id, c)
      BY <1>6 DEF WriteComparison
    <2>2. procs[p].id \notin DOMAIN comparisons
      BY <1>1, <2>1 DEF ComparisonInv, Claimed, Fitting
    <2> QED
      BY <2>1, <2>2 DEF RecordsPersist, Extend
  <1> QED
    BY <1>2, <1>3, <1>4, <1>5, <1>6

\* A step that leaves the file.
LEMMA FileUnchanged ==
    ASSUME TrainInv, BoardInv, RecordsPersist, UNCHANGED leaderboard, NEW p \in Process,
           procs' = [procs EXCEPT ![p] = procs'[p]],
           procs'[p].at = "merge" => procs'[p].read = leaderboard
    PROVE  BoardInv'
  <1>1. PICK rows : rows = leaderboard
    OBVIOUS
  <1>2. BackedFile(rows)'
    BY <1>1, FilePersists DEF BoardInv
  <1>3. BackedFile(leaderboard)'
    BY <1>1, <1>2
  <1>4. RankedFile(leaderboard)'
    BY DEF BoardInv, RankedFile
  <1>5. ASSUME NEW q \in Process, procs'[q].at = "merge" PROVE BackedFile(procs[q].read)'
    <2>1. CASE q = p
      <3>1. procs'[q].read = rows
        BY <1>1, <1>5, <2>1
      <3> QED
        BY <1>2, <3>1
    <2>2. CASE q # p
      <3>1. procs'[q] = procs[q]
        BY <2>2 DEF TrainInv
      <3>2. PICK read : read = procs[q].read
        OBVIOUS
      <3>3. BackedFile(read)'
        BY <1>5, <3>1, <3>2, FilePersists DEF BoardInv
      <3> QED
        BY <3>1, <3>2, <3>3
    <2> QED
      BY <2>1, <2>2
  <1> QED
    BY <1>3, <1>4, <1>5 DEF BoardInv

\* What the directories of fitted models hold when all are saved.
LEMMA FilesAreRecords ==
    ASSUME NEW p, HandInv(p), procs[p].at \in Fitting,
           NEW i \in DOMAIN procs[p].results
    PROVE  /\ Files(p, i) \in ModelRecord /\ Files(p, i) # None /\ procs[p].named \in Version
           /\ Files(p, i).macro_f1 = Evidence(p, i).macro_f1
           /\ Files(p, i).named = procs[p].named
  <1>1. procs[p].at \in Claimed
    BY DEF Claimed
  <1>2. Evidence(p, i) \in ModelEvidence
    BY <1>1, EvidenceIsOfItsModel
  <1>3. procs[p].train \in Version /\ procs[p].validation \in Version /\ procs[p].named \in Version
    BY <1>1 DEF HandInv
  <1>4. Files(p, i) \in ModelRecord
    BY <1>2, <1>3 DEF Files, ModelRecord, ModelEvidence
  <1>5. Files(p, i).macro_f1 = Evidence(p, i).macro_f1 /\ Files(p, i).named = procs[p].named
    BY DEF Files
  <1> QED
    BY <1>3, <1>4, <1>5, ExperimentsAssumption

LEMMA RowsAreRecords ==
    \A rank, attempt \in Nat, stage \in {"", "stage5_baseline", "stage6_candidate"},
       id \in IdOfExperiment, name \in ModelName, score \in Int,
       able \in BOOLEAN \cup {None}, named \in Version :
          [rank |-> rank, stage |-> stage, id |-> id, name |-> name, macro_f1 |-> score,
           eligible |-> able, attempt |-> attempt, named |-> named] \in Row
  BY DEF Row

LEMMA BaselineRowsAreBacked ==
    ASSUME TrainInv, PlaceInv, RecordInv, NEW p \in Process, procs[p].at = "publish"
    PROVE  BackedFile(BaselineRows(p)) /\ \A i, j \in DOMAIN BaselineRows(p) :
               /\ BaselineRows(p)[i].rank = i
               /\ i < j => BaselineRows(p)[i].macro_f1 >= BaselineRows(p)[j].macro_f1
  <1> DEFINE models == Fitted(p)
             order == Ordered(models)
             m == Cardinality(models)
             n == Len(procs[p].results)
  <1>1. /\ HandInv(p) /\ FilesInv(p)
        /\ procs[p].at \in Claimed /\ procs[p].at \in Fitting
    BY DEF PlaceInv, RecordInv, OwnRecords, TrainInv, TrainingInv, Claimed, Fitting
  <1>2. /\ models \in SUBSET ModelEvidence /\ IsFiniteSet(models) /\ Distinct(models)
        /\ \A c \in models : \E i \in DOMAIN procs[p].results :
              c = Evidence(p, i) /\ c.name = Models(procs[p].kind)[i]
    BY <1>1, FittedAreComparable
  <1>3. SortedBy(order, models, Above(models)) /\ Orders(Above(models), models)
    BY <1>2, OrderedIsSorted, OutranksOrders
  <1> HIDE DEF order, models
  <1>4. /\ m \in Nat /\ order \in [1..m -> models]
        /\ \A i, j \in 1..m : order[i] = order[j] => i = j
        /\ \A i, j \in 1..m : i < j => Outranks(order[i], order[j])
    <2>1. \A i, j \in 1..m : order[i] = order[j] => i = j
      BY <1>3, SortedIsInjective
    <2> QED
      BY <1>3, <2>1 DEF SortedBy, Above
  <1>5. PICK rows : rows = BaselineRows(p)
    OBVIOUS
  <1>6. rows = [i \in 1..m |-> BaselineRow(p, order[i], i)]
    BY <1>4, <1>5 DEF BaselineRows, order, models
  <1>7. SavedCount(p) = n /\ DOMAIN procs[p].results = 1..n /\ n \in Nat
    <2>1. SavedCount(p) = n - 0
      BY DEF SavedCount
    <2> QED
      BY <1>1, <2>1, ResultsAreOfModels
  <1>8. ASSUME NEW i \in 1..m
        PROVE  /\ rows[i] \in Row /\ Backed(rows[i]) /\ rows[i].rank = i
               /\ rows[i].name = order[i].name /\ rows[i].macro_f1 = order[i].macro_f1
    <2>1. PICK c \in models : c = order[i]
      BY <1>4
    <2>2. PICK k \in 1..n : c = Evidence(p, k) /\ c.name = Models(procs[p].kind)[k]
      BY <1>2, <1>7, <2>1
    <2>3. /\ rows[i].rank = i /\ rows[i].stage = "" /\ rows[i].id = procs[p].id
          /\ rows[i].name = c.name /\ rows[i].macro_f1 = c.macro_f1
          /\ rows[i].named = procs[p].named
      BY <1>6, <2>1 DEF BaselineRow
    <2>4. rows[i] = [rank |-> i, stage |-> "", id |-> procs[p].id, name |-> c.name,
                     macro_f1 |-> c.macro_f1, eligible |-> None, attempt |-> 0,
                     named |-> procs[p].named]
      BY <1>6, <2>1 DEF BaselineRow
    <2>5. Files(p, k) # None /\ procs[p].named \in Version
          /\ Files(p, k).macro_f1 = c.macro_f1 /\ Files(p, k).named = procs[p].named
      BY <1>1, <1>7, <2>2, FilesAreRecords
    <2>6. Own(p, k) \in DOMAIN artifacts /\ artifacts[Own(p, k)] = Files(p, k)
      BY <1>1, <1>7 DEF FilesInv
    <2>7. Own(p, k) = <<rows[i].id, rows[i].name>>
      BY <2>2, <2>3 DEF Own
    <2>8. Backed(rows[i])
      BY <2>3, <2>5, <2>6, <2>7 DEF Backed
    <2>9. rows[i] \in Row
      <3>1. c.name \in ModelName /\ c.macro_f1 \in Int
        BY <1>2 DEF ModelEvidence
      <3>2. procs[p].id \in IdOfExperiment /\ i \in Nat
        BY <1>1, <1>4 DEF HandInv
      <3>3. PICK able \in BOOLEAN \cup {None}, stage \in {"", "stage5_baseline", "stage6_candidate"},
                 attempt \in Nat : able = None /\ stage = "" /\ attempt = 0
        OBVIOUS
      <3>4. rows[i] = [rank |-> i, stage |-> stage, id |-> procs[p].id, name |-> c.name,
                       macro_f1 |-> c.macro_f1, eligible |-> able, attempt |-> attempt,
                       named |-> procs[p].named]
        BY <2>4, <3>3
      <3>5. procs[p].named \in Version
        BY <2>5
      <3>6. PICK name \in ModelName, score \in Int, id \in IdOfExperiment, named \in Version,
                 rank \in Nat : /\ name = c.name /\ score = c.macro_f1 /\ id = procs[p].id
                               /\ named = procs[p].named /\ rank = i
        BY <3>1, <3>2, <3>5
      <3>7. [rank |-> rank, stage |-> stage, id |-> id, name |-> name, macro_f1 |-> score,
             eligible |-> able, attempt |-> attempt, named |-> named] \in Row
        BY RowsAreRecords
      <3> QED
        BY <3>4, <3>6, <3>7
    <2> QED
      BY <2>1, <2>3, <2>8, <2>9
  <1>9. DOMAIN rows = 1..m /\ rows \in Seq(Row)
    <2>1. rows \in [1..m -> Row]
      BY <1>6, <1>8
    <2> QED
      BY <1>4, <2>1, SeqDef
  <1>10. ASSUME NEW i \in 1..m, NEW j \in 1..m
         PROVE  /\ i # j => rows[i].name # rows[j].name
                /\ i < j => rows[i].macro_f1 >= rows[j].macro_f1
    <2>1. order[i] \in models /\ order[j] \in models
      BY <1>4
    <2>2. order[i].macro_f1 \in Int /\ order[j].macro_f1 \in Int
      BY <1>2, <2>1 DEF ModelEvidence
    <2>3. i < j => order[i].macro_f1 >= order[j].macro_f1
      BY <1>4, <2>2 DEF Outranks
    <2>4. i # j => order[i].name # order[j].name
      BY <1>2, <1>4, <2>1 DEF Distinct
    <2> QED
      BY <1>8, <2>3, <2>4
  <1>11. BackedFile(rows)
    BY <1>8, <1>9, <1>10 DEF BackedFile
  <1> QED
    BY <1>5, <1>8, <1>9, <1>10, <1>11

\* A row of a candidate that has been tagged and compared.
LEMMA CandidateRowIsBacked ==
    ASSUME TrainInv, PlaceInv, RecordInv, NEW p \in Process, procs[p].at = "merge",
           NEW i \in DOMAIN Candidate
    PROVE  /\ CandidateRow(p, Evidence(p, i)) \in Row
           /\ Backed(CandidateRow(p, Evidence(p, i)))
           /\ CandidateRow(p, Evidence(p, i)).id = procs[p].id
           /\ CandidateRow(p, Evidence(p, i)).name = Candidate[i]
  <1> DEFINE n == Len(Candidate)
             row == CandidateRow(p, Evidence(p, i))
             c == Evidence(p, i)
  <1>1. /\ HandInv(p) /\ FilesInv(p) /\ RunsInv(p) /\ ComparisonInv(p)
        /\ procs[p].at \in Claimed /\ procs[p].at \in Fitting
        /\ procs[p].at \in Complete /\ procs[p].at \in CandidateOnly
    BY DEF PlaceInv, RecordInv, OwnRecords, TrainInv, TrainingInv, Claimed, Fitting, Complete,
           CandidateOnly
  <1>2. /\ procs[p].kind # "baseline" /\ Models(procs[p].kind) = Candidate
        /\ Len(procs[p].results) = n /\ n \in Nat /\ procs[p].tagged = n
        /\ procs[p].attempt \in Nat
    BY <1>1, ModelsAreModels DEF HandInv
  <1>3. /\ i \in 1..n /\ DOMAIN procs[p].results = 1..n
        /\ SavedCount(p) = n /\ LoggedCount(p) = n
    <2>1. SavedCount(p) = n - 0 /\ LoggedCount(p) = n - 0
      BY <1>2 DEF SavedCount, LoggedCount
    <2>2. DOMAIN Candidate = 1..n
      BY ExperimentsAssumption
    <2> QED
      BY <1>1, <1>2, <2>1, <2>2, ResultsAreOfModels
  <1>4. /\ row.rank = 0 /\ row.stage = "stage6_candidate" /\ row.id = procs[p].id
        /\ row.name = c.name /\ row.macro_f1 = c.macro_f1 /\ row.attempt = procs[p].attempt
        /\ row.named = procs[p].named /\ row.eligible = Eligible(c)
    BY DEF CandidateRow
  <1>5. c \in ModelEvidence /\ c.name = Candidate[i]
    BY <1>1, <1>2, <1>3, EvidenceIsOfItsModel
  <1>6. /\ Files(p, i) # None /\ procs[p].named \in Version
        /\ Files(p, i).macro_f1 = c.macro_f1 /\ Files(p, i).named = procs[p].named
    BY <1>1, <1>3, FilesAreRecords
  <1>7. /\ Own(p, i) \in DOMAIN artifacts /\ artifacts[Own(p, i)] = Files(p, i)
        /\ Own(p, i) = <<row.id, row.name>>
    BY <1>1, <1>2, <1>3, <1>4, <1>5 DEF FilesInv, Own
  <1>8. /\ TrackingRun(p, i) \in DOMAIN tracked /\ tracked[TrackingRun(p, i)] = ClosedRun(p, i)
        /\ TrackingRun(p, i) = <<row.attempt, row.name>>
    BY <1>1, <1>2, <1>3, <1>4, <1>5 DEF RunsInv, TrackingRun
  <1>9. /\ ClosedRun(p, i).id = procs[p].id /\ ClosedRun(p, i).macro_f1 = c.macro_f1
        /\ ClosedRun(p, i).finished /\ ClosedRun(p, i).status = Status(p, i)
    BY <1>2, <1>3 DEF ClosedRun
  <1>10. /\ Fitted(p) \in SUBSET ModelEvidence /\ IsFiniteSet(Fitted(p)) /\ Distinct(Fitted(p))
         /\ c \in Fitted(p) /\ Selection(Fitted(p)) # {}
    BY <1>1, <1>3, FittedAreComparable DEF RunsInv
  <1>11. Status(p, i) # "none" /\ (Status(p, i) # "rejected" <=> Eligible(c))
    <2>1. PICK best \in Fitted(p) : Selection(Fitted(p)) = {best.name} /\ Eligible(best)
      BY <1>10, SelectionIsBest
    <2>2. Candidate[i] \in Selection(Fitted(p)) => Eligible(c)
      BY <1>5, <1>10, <2>1 DEF Distinct
    <2> QED
      BY <2>2 DEF Status
  <1>12. /\ procs[p].id \in DOMAIN comparisons
         /\ comparisons[procs[p].id].eligible = {d.name : d \in {f \in Fitted(p) : Eligible(f)}}
    BY <1>1 DEF ComparisonInv, Comparison
  <1>13. c.name \in comparisons[procs[p].id].eligible <=> Eligible(c)
    BY <1>10, <1>12 DEF Distinct
  <1>14. Eligible(c) \in BOOLEAN
    BY DEF Eligible
  <1>15. Backed(row)
    BY <1>4, <1>6, <1>7, <1>8, <1>9, <1>11, <1>12, <1>13, <1>14 DEF Backed
  <1>16. row \in Row
    <2>1. c.name \in ModelName /\ c.macro_f1 \in Int
      BY <1>5 DEF ModelEvidence
    <2>2. procs[p].id \in IdOfExperiment
      BY <1>1 DEF HandInv
    <2>3. PICK able \in BOOLEAN : able = Eligible(c)
      BY <1>14
    <2>4. row = [rank |-> 0, stage |-> "stage6_candidate", id |-> procs[p].id, name |-> c.name,
                 macro_f1 |-> c.macro_f1, eligible |-> able, attempt |-> procs[p].attempt,
                 named |-> procs[p].named]
      BY <2>3 DEF CandidateRow
    <2> QED
      BY <1>2, <1>6, <2>1, <2>2, <2>4 DEF Row
  <1> QED
    BY <1>4, <1>5, <1>15, <1>16

\* A file whose rows are rows of a backed one is backed.
LEMMA CopiesAreBacked ==
    ASSUME NEW rows, BackedFile(rows), NEW after \in Seq(Row), NEW place,
           Copies(after, rows, place)
    PROVE  BackedFile(after)
  <1>1. \A i \in DOMAIN after :
            /\ place[i] \in DOMAIN rows /\ Backed(rows[place[i]])
            /\ after[i].id = rows[place[i]].id /\ after[i].name = rows[place[i]].name
            /\ after[i].macro_f1 = rows[place[i]].macro_f1
            /\ after[i].eligible = rows[place[i]].eligible
            /\ after[i].attempt = rows[place[i]].attempt
            /\ after[i].named = rows[place[i]].named
            /\ after[i].stage = "stage6_candidate" => rows[place[i]].stage = "stage6_candidate"
    BY DEF Copies, BackedFile
  <1>2. ASSUME NEW i \in DOMAIN after PROVE Backed(after[i])
    <2>1. PICK row, old : row = after[i] /\ old = rows[place[i]]
      OBVIOUS
    <2>2. /\ Backed(old) /\ row.id = old.id /\ row.name = old.name
          /\ row.macro_f1 = old.macro_f1 /\ row.eligible = old.eligible
          /\ row.attempt = old.attempt /\ row.named = old.named
          /\ row.stage = "stage6_candidate" => old.stage = "stage6_candidate"
      BY <1>1, <2>1
    <2>3. Backed(row)
      BY <2>2 DEF Backed
    <2> QED
      BY <2>1, <2>3
  <1>3. \A i, j \in DOMAIN after :
            i # j => <<after[i].id, after[i].name>> # <<after[j].id, after[j].name>>
    BY <1>1 DEF Copies, BackedFile
  <1> QED
    BY <1>2, <1>3 DEF BackedFile

\* The rows that stay and those of the experiment.
LEMMA MergedRowsAreBacked ==
    ASSUME TrainInv, PlaceInv, RecordInv, BoardInv, NEW p \in Process, procs[p].at = "merge",
           NEW own, own = [i \in DOMAIN Candidate |-> CandidateRow(p, Evidence(p, i))],
           NEW keys, \A i \in DOMAIN own : <<own[i].id, own[i].name>> \in keys,
           NEW retained, retained = RetainedRows(procs[p].read, keys)
    PROVE  BackedFile(retained \o own)
  <1> DEFINE n == Len(Candidate)
             m == Len(retained)
             rows == retained \o own
  <1>1. /\ procs[p].read \in Seq(Row)
        /\ \A i \in DOMAIN procs[p].read : Backed(procs[p].read[i])
        /\ \A i, j \in DOMAIN procs[p].read :
              i # j => <<procs[p].read[i].id, procs[p].read[i].name>>
                          # <<procs[p].read[j].id, procs[p].read[j].name>>
    BY DEF BoardInv, BackedFile
  <1>2. /\ retained \in Seq(Row)
        /\ \E place : Others(retained, procs[p].read, keys, place)
    <2>1. \A before \in Seq(Row) :
              /\ RetainedRows(before, keys) \in Seq(Row)
              /\ \E place : Others(RetainedRows(before, keys), before, keys, place)
      BY RetainedAreOthers
    <2> QED
      BY <1>1, <2>1
  <1>3. PICK place : /\ place \in [DOMAIN retained -> DOMAIN procs[p].read]
                     /\ \A i, j \in DOMAIN retained : place[i] = place[j] => i = j
                     /\ \A i \in DOMAIN retained :
                           /\ retained[i] = procs[p].read[place[i]]
                           /\ <<procs[p].read[place[i]].id, procs[p].read[place[i]].name>> \notin keys
    BY <1>2 DEF Others
  <1>4. m \in Nat /\ DOMAIN retained = 1..m
    BY <1>2
  <1>5. /\ n \in Nat /\ DOMAIN Candidate = 1..n
        /\ \A i, j \in 1..n : Candidate[i] = Candidate[j] => i = j
    <2>1. n \in Nat /\ DOMAIN Candidate = 1..n
      BY ExperimentsAssumption
    <2>2. /\ FilesInv(p) /\ HandInv(p) /\ procs[p].at \in Claimed
          /\ procs[p].at \in Complete /\ procs[p].at \in CandidateOnly
      BY DEF RecordInv, OwnRecords, PlaceInv, Claimed, Fitting, Complete, CandidateOnly
    <2>3. Models(procs[p].kind) = Candidate /\ DOMAIN procs[p].results = 1..n
      BY <2>2, ModelsAreModels, ResultsAreOfModels DEF HandInv
    <2> QED
      BY <2>1, <2>2, <2>3 DEF FilesInv, Own
  <1>6. \A i \in 1..n : /\ own[i] \in Row /\ Backed(own[i]) /\ own[i].id = procs[p].id
                        /\ own[i].name = Candidate[i]
    BY <1>5, CandidateRowIsBacked
  <1>7. own \in Seq(Row) /\ Len(own) = n
    <2>1. own \in [1..n -> Row]
      BY <1>5, <1>6
    <2> QED
      BY <1>5, <2>1, SeqDef
  <1>8. /\ rows \in Seq(Row) /\ DOMAIN rows = 1..(m + n)
        /\ \A i \in 1..(m + n) : rows[i] = IF i <= m THEN retained[i] ELSE own[i - m]
    BY <1>2, <1>4, <1>7
  <1>9. \A i \in 1..(m + n) : IF i <= m THEN i \in 1..m ELSE i - m \in 1..n
    BY <1>4, <1>5
  <1> HIDE DEF rows
  <1>10. ASSUME NEW i \in 1..(m + n)
         PROVE  /\ Backed(rows[i])
                /\ i <= m => <<rows[i].id, rows[i].name>> \notin keys
                /\ ~(i <= m) => <<rows[i].id, rows[i].name>> \in keys
    <2>1. CASE i <= m
      <3>1. i \in DOMAIN retained /\ rows[i] = retained[i]
        BY <1>4, <1>8, <1>9, <2>1
      <3>2. place[i] \in DOMAIN procs[p].read /\ rows[i] = procs[p].read[place[i]]
        BY <1>3, <3>1
      <3>3. <<procs[p].read[place[i]].id, procs[p].read[place[i]].name>> \notin keys
        BY <1>3, <3>1
      <3> QED
        BY <1>1, <2>1, <3>2, <3>3
    <2>2. CASE ~(i <= m)
      <3>1. i - m \in 1..n /\ rows[i] = own[i - m]
        BY <1>8, <1>9, <2>2
      <3>2. Backed(own[i - m])
        BY <1>6, <3>1
      <3>3. <<own[i - m].id, own[i - m].name>> \in keys
        <4>1. i - m \in DOMAIN own
          BY <1>7, <3>1
        <4> QED
          BY <4>1
      <3> QED
        BY <2>2, <3>1, <3>2, <3>3
    <2> QED
      BY <2>1, <2>2
  <1>11. ASSUME NEW i \in 1..(m + n), NEW j \in 1..(m + n), i # j
         PROVE  <<rows[i].id, rows[i].name>> # <<rows[j].id, rows[j].name>>
    <2>1. CASE i <= m /\ j <= m
      <3>1. /\ i \in DOMAIN retained /\ rows[i] = retained[i]
            /\ j \in DOMAIN retained /\ rows[j] = retained[j]
        BY <1>4, <1>8, <1>9, <2>1
      <3>2. place[i] # place[j]
        BY <1>3, <1>11, <3>1
      <3>3. /\ place[i] \in DOMAIN procs[p].read /\ rows[i] = procs[p].read[place[i]]
            /\ place[j] \in DOMAIN procs[p].read /\ rows[j] = procs[p].read[place[j]]
        BY <1>3, <3>1
      <3> QED
        BY <1>1, <3>2, <3>3
    <2>2. CASE ~(i <= m) /\ ~(j <= m)
      <3>1. /\ i - m \in 1..n /\ rows[i] = own[i - m] /\ j - m \in 1..n /\ rows[j] = own[j - m]
        BY <1>8, <1>9, <2>2
      <3>2. i - m # j - m
        BY <1>4, <1>11
      <3> QED
        BY <1>5, <1>6, <3>1, <3>2
    <2>3. CASE i <= m /\ ~(j <= m)
      BY <1>10, <2>3
    <2>4. CASE ~(i <= m) /\ j <= m
      BY <1>10, <2>4
    <2> QED
      BY <2>1, <2>2, <2>3, <2>4
  <1>12. BackedFile(rows)
    BY <1>8, <1>10, <1>11 DEF BackedFile
  <1> QED
    BY <1>12 DEF rows

LEMMA MergeLeaderboardKeepsBoard ==
    ASSUME TrainInv, PlaceInv, RecordInv, BoardInv, NEW p \in Process, MergeLeaderboard(p)
    PROVE  BoardInv'
  <1>1. /\ procs[p].at = "merge" /\ NoRecords /\ End(p)
    BY DEF MergeLeaderboard, NoRecords
  <1>2. PICK retained, own, keys :
            /\ own = [i \in DOMAIN Candidate |-> CandidateRow(p, Evidence(p, i))]
            /\ keys = {<<own[i].id, own[i].name>> : i \in DOMAIN own}
            /\ retained = RetainedRows(procs[p].read, keys)
            /\ leaderboard' = Reranked(retained \o own)
    BY DEF MergeLeaderboard
  <1>3. PICK rows : rows = retained \o own
    OBVIOUS
  <1>4. BackedFile(rows)
    <2>1. \A i \in DOMAIN own : <<own[i].id, own[i].name>> \in keys
      BY <1>2
    <2> QED
      BY <1>1, <1>2, <1>3, <2>1, MergedRowsAreBacked
  <1>5. PICK after : after = Reranked(rows)
    OBVIOUS
  <1>6. /\ after \in Seq(Row) /\ RankedFile(after) /\ \E place : Copies(after, rows, place)
    BY <1>4, <1>5, RerankedRows DEF BackedFile
  <1>7. BackedFile(after)
    BY <1>4, <1>6, CopiesAreBacked
  <1>8. leaderboard' = after
    BY <1>2, <1>3, <1>5
  <1>9. BackedFile(after)'
    BY <1>1, <1>7, FilePersists, SameRecordsPersist
  <1>10. BackedFile(leaderboard)' /\ RankedFile(leaderboard)'
    BY <1>6, <1>8, <1>9 DEF RankedFile
  <1>11. ASSUME NEW q \in Process, procs'[q].at = "merge" PROVE BackedFile(procs[q].read)'
    <2>1. procs'[p].at = "ended"
      BY <1>1 DEF End, TrainInv, Idle
    <2>2. procs'[q] = procs[q]
      BY <1>1, <1>11, <2>1 DEF End, TrainInv
    <2>3. PICK read : read = procs[q].read
      OBVIOUS
    <2>4. BackedFile(read)'
      BY <1>1, <1>11, <2>2, <2>3, FilePersists, SameRecordsPersist DEF BoardInv
    <2> QED
      BY <2>2, <2>3, <2>4
  <1> QED
    BY <1>10, <1>11 DEF BoardInv

LEMMA PublishBaselinesKeepsBoard ==
    ASSUME TrainInv, PlaceInv, RecordInv, BoardInv, NEW p \in Process, PublishBaselines(p)
    PROVE  BoardInv'
  <1>1. /\ procs[p].at = "publish" /\ NoRecords /\ Goto(p, "manifest")
    BY DEF PublishBaselines, NoRecords
  <1>2. PICK after : after = BaselineRows(p) /\ leaderboard' = after
    BY DEF PublishBaselines
  <1>3. BackedFile(after) /\ RankedFile(after)
    BY <1>1, <1>2, BaselineRowsAreBacked DEF RankedFile
  <1>4. BackedFile(after)'
    BY <1>1, <1>3, FilePersists, SameRecordsPersist
  <1>5. BackedFile(leaderboard)' /\ RankedFile(leaderboard)'
    BY <1>2, <1>3, <1>4 DEF RankedFile
  <1>6. ASSUME NEW q \in Process, procs'[q].at = "merge" PROVE BackedFile(procs[q].read)'
    <2>1. procs'[p].at = "manifest" /\ procs' = [procs EXCEPT ![p] = procs'[p]]
      BY <1>1, GotoMoves
    <2>2. procs'[q] = procs[q]
      BY <1>6, <2>1 DEF TrainInv
    <2>3. PICK read : read = procs[q].read
      OBVIOUS
    <2>4. BackedFile(read)'
      BY <1>1, <1>6, <2>2, <2>3, FilePersists, SameRecordsPersist DEF BoardInv
    <2> QED
      BY <2>2, <2>3, <2>4
  <1> QED
    BY <1>5, <1>6 DEF BoardInv

LEMMA InitBoardInv == Init => BoardInv
  <1> SUFFICES ASSUME Init PROVE BoardInv
    OBVIOUS
  <1>1. leaderboard = <<>> /\ <<>> \in Seq(Row) /\ DOMAIN <<>> = {}
    BY DEF Init
  <1>2. \A p \in Process : procs[p].at # "merge"
    BY DEF Init, Idle
  <1> QED
    BY <1>1, <1>2 DEF BoardInv, BackedFile, RankedFile

\* A step that is not one of a training.
LEMMA OutsideKeepsBoard ==
    ASSUME BoardInv, UNCHANGED <<procs, outputs>> PROVE BoardInv'
  <1>1. UNCHANGED procs /\ UNCHANGED leaderboard /\ RecordsPersist
    BY SameRecordsPersist DEF outputs, NoRecords
  <1>2. ASSUME NEW rows, BackedFile(rows) PROVE BackedFile(rows)'
    BY <1>1, <1>2, FilePersists
  <1>3. BackedFile(leaderboard)'
    <2>1. PICK rows : rows = leaderboard
      OBVIOUS
    <2> QED
      BY <1>1, <1>2, <2>1 DEF BoardInv
  <1>4. ASSUME NEW q \in Process, procs'[q].at = "merge" PROVE BackedFile(procs[q].read)'
    <2>1. PICK rows : rows = procs[q].read
      OBVIOUS
    <2> QED
      BY <1>1, <1>2, <1>4, <2>1 DEF BoardInv
  <1> QED
    BY <1>1, <1>3, <1>4 DEF BoardInv, RankedFile

\* The steps of a training that leave the file, and what they leave a merge to read.
LEMMA TrainingKeepsBoard ==
    ASSUME TrainInv, PlaceInv, RecordInv, BoardInv, NEW p \in Process,
           \/ \E kind \in Kind, w \in Workflow \cup {None} : Start(p, kind, w)
           \/ VerifyData(p) \/ LoadData(p) \/ ClaimExperiment(p) \/ ConfigureTracking(p)
           \/ FitModel(p) \/ SaveModel(p) \/ LogRun(p) \/ RankCandidates(p) \/ TagRun(p)
           \/ WriteComparison(p) \/ ReadLeaderboard(p) \/ WriteRunManifest(p) \/ Kill(p)
    PROVE  BoardInv'
  <1>1. UNCHANGED leaderboard
    BY DEF Start, VerifyData, LoadData, ClaimExperiment, ConfigureTracking, FitModel, SaveModel,
           LogRun, RankCandidates, TagRun, WriteComparison, ReadLeaderboard, WriteRunManifest,
           Kill, outputs
  <1>2. RecordsPersist
    <2>1. CASE FitModel(p) \/ SaveModel(p) \/ LogRun(p) \/ TagRun(p) \/ WriteComparison(p)
      BY <2>1, RecordingPersists
    <2>2. CASE ~(FitModel(p) \/ SaveModel(p) \/ LogRun(p) \/ TagRun(p) \/ WriteComparison(p))
      BY <2>2, SameRecordsPersist
         DEF Start, VerifyData, LoadData, ClaimExperiment, ConfigureTracking, RankCandidates,
             ReadLeaderboard, WriteRunManifest, Kill, outputs, NoRecords
    <2> QED
      BY <2>1, <2>2
  <1>3. DOMAIN procs[p] = Field
    BY DEF TrainInv, TrainingInv
  <1>4. /\ procs' = [procs EXCEPT ![p] = procs'[p]]
        /\ procs'[p].at = "merge" => procs'[p].read = leaderboard
    <2>1. CASE \E kind \in Kind, w \in Workflow \cup {None} : Start(p, kind, w)
      <3>1. procs' = [procs EXCEPT ![p] = procs'[p]] /\ procs'[p].at = "verify"
        BY <2>1 DEF Start, TrainInv, Idle
      <3> QED
        BY <3>1
    <2>5. CASE LoadData(p)
      <3>1. procs' = [procs EXCEPT ![p] = procs'[p]] /\ procs'[p].at = "claim"
        BY <1>3, <2>5, FieldIsField DEF LoadData, TrainInv
      <3> QED
        BY <3>1
    <2>6. CASE TagRun(p)
      <3>1. procs' = [procs EXCEPT ![p] = procs'[p]] /\ procs'[p].at \in {"report", "tag"}
        BY <1>3, <2>6, FieldIsField DEF TagRun, TrainInv
      <3> QED
        BY <3>1
    <2>2. CASE ClaimExperiment(p) \/ ConfigureTracking(p) \/ FitModel(p)
      BY <1>3, <2>2, FieldIsField
         DEF ClaimExperiment, ConfigureTracking, FitModel, End, TrainInv, Idle
    <2>3. CASE ReadLeaderboard(p)
      BY <1>3, <2>3, FieldIsField DEF ReadLeaderboard, TrainInv
    <2>4. CASE \/ VerifyData(p) \/ SaveModel(p) \/ LogRun(p) \/ RankCandidates(p)
               \/ WriteComparison(p) \/ WriteRunManifest(p) \/ Kill(p)
      <3>1. End(p) \/ \E at : at # "merge" /\ Goto(p, at)
        BY <2>4 DEF VerifyData, SaveModel, LogRun, RankCandidates, WriteComparison,
                    WriteRunManifest, Kill, NextModel
      <3> QED
        BY <3>1, GotoMoves DEF End, TrainInv, Idle
    <2> QED
      BY <2>1, <2>2, <2>3, <2>4, <2>5, <2>6
  <1> QED
    BY <1>1, <1>2, <1>4, FileUnchanged

LEMMA NextBoardInv == TrainInv /\ PlaceInv /\ RecordInv /\ BoardInv /\ [Next]_vars => BoardInv'
  <1> SUFFICES ASSUME TrainInv, PlaceInv, RecordInv, BoardInv, [Next]_vars PROVE BoardInv'
    OBVIOUS
  <1>1. CASE UNCHANGED vars \/ Tick \/ ContinuePreparation \/ \E v \in Version : BeginPreparation(v)
    <2>1. UNCHANGED <<procs, outputs>>
      BY <1>1 DEF vars, Tick, ContinuePreparation, BeginPreparation
    <2> QED
      BY <2>1, OutsideKeepsBoard
  <1>2. CASE \E p \in Process : Train(p)
    <2>1. PICK p \in Process : Train(p)
      BY <1>2
    <2> QED
      BY <2>1, TrainingKeepsBoard, PublishBaselinesKeepsBoard, MergeLeaderboardKeepsBoard DEF Train
  <1> QED
    BY <1>1, <1>2 DEF Next

-----------------------------------------------------------------------------
\* The theorems.

ExperimentsInv == TrainInv /\ PlaceInv /\ RecordInv /\ BoardInv

LEMMA InvImpliesTypes == ExperimentsInv => ExperimentsTypeOK
  <1> SUFFICES ASSUME ExperimentsInv PROVE ExperimentsTypeOK
    OBVIOUS
  <1>1. TrainInv /\ PlaceInv /\ KeyInv /\ EntryInv /\ BackedFile(leaderboard)
    BY DEF ExperimentsInv, PlaceInv, RecordInv, BoardInv
  <1>2. ASSUME NEW p \in Process
        PROVE  /\ procs[p].at \in Fitting \cup {"ended", "verify", "load", "claim", "track"}
               /\ procs[p].kind \in Kind \cup {"none"}
               /\ procs[p].attempt \in 0..attempts
               /\ Len(procs[p].results) <= Len(Models(procs[p].kind))
               /\ procs[p].tagged \in 0..Len(Candidate)
    <2>1. /\ HandInv(p) /\ procs[p].at \in Fitting \cup {"ended", "verify", "load", "claim", "track"}
      BY <1>1 DEF PlaceInv, TrainInv, TrainingInv
    <2>2. attempts \in Nat
      BY <1>1 DEF KeyInv
    <2>3. procs[p].kind \in Kind \cup {"none"} /\ procs[p].attempt \in 0..attempts
      BY <2>1, <2>2 DEF HandInv, Idle
    <2>4. Len(procs[p].results) <= Len(Models(procs[p].kind))
      <3>1. CASE procs[p].at \in Fitting
        BY <2>1, <3>1, ResultsAreOfModels DEF Claimed
      <3>2. CASE procs[p].at \notin Fitting
        BY <2>1, <3>2, NothingInHand, ModelsAreModels DEF HandInv
      <3> QED
        BY <3>1, <3>2
    <2>5. procs[p].tagged \in 0..Len(Candidate)
      BY <2>1, ModelsAreModels DEF HandInv
    <2> QED
      BY <2>1, <2>3, <2>4, <2>5
  <1>3. \A i \in DOMAIN leaderboard : leaderboard[i].name \in ModelName
    <2>1. \A i \in DOMAIN leaderboard : leaderboard[i] \in Row
      BY <1>1 DEF BackedFile
    <2> QED
      BY <2>1 DEF Row
  <1> QED
    BY <1>1, <1>2, <1>3 DEF ExperimentsTypeOK, KeyInv, EntryInv, Fitting

LEMMA InvImpliesSelection == ExperimentsInv => OneSelectedPerExperiment
  BY OneSelectedIsOneOfEach DEF ExperimentsInv, RecordInv, EntryInv

\* The four layers are invariant: every training step keeps what the trainings carry, where
\* they are, what they recorded and what the leaderboard says.
THEOREM ExperimentsInvariant == Spec => []ExperimentsInv
  <1>1. Init => ExperimentsInv
    BY InitTrainInv, InitPlaceInv, InitRecordInv, InitBoardInv DEF ExperimentsInv
  <1>2. ExperimentsInv /\ [Next]_vars => ExperimentsInv'
    BY NextTrainInv, NextPlaceInv, NextRecordInv, NextBoardInv DEF ExperimentsInv
  <1> QED
    BY <1>1, <1>2, PTL DEF Spec

\* The files, MLflow runs and places of trainings have their types, whatever baselines,
\* candidates and flows run at a time (train_baseline.py, train_candidates.py).
THEOREM ExperimentsTypes == Spec => []ExperimentsTypeOK
  BY ExperimentsInvariant, InvImpliesTypes, PTL

\* An experiment never has two selected MLflow runs; the one it has is of a model its
\* comparison selects, and none of its eligible runs has a better macro F1
\* (select_candidate and the tags train_candidates.py sets afterwards).
THEOREM OneSelectedOfEachExperiment == Spec => []OneSelectedPerExperiment
  BY ExperimentsInvariant, InvImpliesSelection, PTL

\* A leaderboard row never outlives or precedes what it reports: the directory of its
\* model is complete and, for a candidate, its run is closed and tagged and its
\* comparison written (_write_leaderboard, merge_leaderboard).
THEOREM RowsAreBacked == Spec => []LeaderboardIsBacked
  <1>1. ExperimentsInv => LeaderboardIsBacked
    BY BoardIsBacked DEF ExperimentsInv
  <1> QED
    BY <1>1, ExperimentsInvariant, PTL

=============================================================================
