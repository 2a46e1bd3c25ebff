----------------------------- MODULE Experiments -----------------------------
\* Training of baselines and candidates (modeling/train_baseline.py and
\* train_candidates.py): processes that take the prepared splits, fit models, write
\* their artifacts, log and tag MLflow runs, and share one leaderboard file.  A
\* process is the baseline command, the candidate command or the candidate workflow,
\* which names its experiment itself and names it again when it is run again.
\* Processes overlap freely and can be killed between any two writes.
EXTENDS CandidateSelection

CONSTANTS None,
          Process,           \* places a training can run
          Workflow,          \* workflow run ids
          Candidate,         \* the candidate names in the order they are trained
          Baseline,          \* the baseline names likewise
          Version,           \* contents the prepared splits have had
          Measured,          \* [model, versions of train and validation -> its evidence]
          Latency,           \* what a benchmark may measure, in one unit
          FallbackAllowed,   \* values of allow_local_tracking_fallback
          QuietData,         \* whether nobody prepares data while a training takes it
          MaxAttempts,       \* bound on the trainings of one behaviour
          MaxSeconds         \* bound on the clock

ModelName == {Candidate[i] : i \in DOMAIN Candidate} \cup {Baseline[i] : i \in DOMAIN Baseline}

\* What a fitted model is judged by.
ModelEvidence ==
    [name : ModelName, macro_f1 : Int, weighted_f1 : Int, recall : [Class -> Int],
     support : [Class -> Int], cv_mean : Int, cv_deviation : Int, size : Int,
     milliseconds : Int]

\* What the files of a model record of it.
ModelRecord == [macro_f1 : Int, train : Version, validation : Version, named : Version]

ASSUME ExperimentsAssumption ==
    /\ Candidate \in Seq(ModelName) /\ Baseline \in Seq(ModelName)
    /\ Candidate # <<>> /\ Baseline # <<>>
    /\ NameRank \in [ModelName -> Nat]
    /\ \A m, n \in ModelName : NameRank[m] = NameRank[n] => m = n
    /\ Measured \in [ModelName \X Version \X Version -> ModelEvidence]
    /\ \A m \in ModelName, t, v \in Version : Measured[<<m, t, v>>].name = m
    /\ Version \subseteq Nat /\ 1 \in Version /\ None \notin ModelRecord
    /\ Latency \subseteq Nat /\ FallbackAllowed \subseteq BOOLEAN /\ QuietData \in BOOLEAN
    /\ MaxAttempts \in Nat /\ MaxSeconds \in Nat

VARIABLES
    now,          \* the clock, in the seconds a candidate id is made of
    splits,       \* the content of train, of validation, and what the manifest names
    preparing,    \* the preparation that replaces them, if one runs
    procs,        \* the trainings
    attempts,     \* how many were started
    runs,         \* experiment ids whose directories exist
    artifacts,    \* <<experiment, model>> -> what its directory holds
    tracked,      \* <<attempt, model>> -> its MLflow run
    comparisons,  \* experiment -> candidate_comparison.json
    manifests,    \* experiments with a run_manifest.json
    leaderboard   \* the rows of model_leaderboard.csv

data == <<splits, preparing>>
outputs == <<runs, artifacts, tracked, comparisons, manifests, leaderboard>>
vars == <<now, data, procs, attempts, outputs>>

Kind == {"baseline", "candidate", "workflow"}

Models(kind) == IF kind = "baseline" THEN Baseline ELSE Candidate

Idle == [at |-> "ended", kind |-> "none", attempt |-> 0, id |-> None, manifest |-> 0,
         train |-> 0, validation |-> 0, named |-> 0, results |-> <<>>, tagged |-> 0,
         read |-> <<>>]

Extend(f, key, value) == [k \in DOMAIN f \cup {key} |-> IF k = key THEN value ELSE f[k]]

Goto(p, at) == procs' = [procs EXCEPT ![p].at = at]

End(p) == procs' = [procs EXCEPT ![p] = Idle]

Init ==
    /\ now = 0
    /\ splits = [train |-> 1, validation |-> 1, manifest |-> 1]
    /\ preparing = None
    /\ procs = [p \in Process |-> Idle]
    /\ attempts = 0
    /\ runs = {}
    /\ artifacts = <<>>
    /\ tracked = <<>>
    /\ comparisons = <<>>
    /\ manifests = {}
    /\ leaderboard = <<>>

-----------------------------------------------------------------------------
\* Around the trainings.

\* A training that has looked at the splits and does not yet have all it takes from
\* them: it reads the manifest, hashes both files, loads them and hashes the manifest,
\* each from the disk.  Nothing in the code keeps a preparation from replacing them in
\* between; that none does is the assumption QuietData.
Taking(p) == procs[p].at \in {"verify", "load", "claim", "track"}

Tick == now < MaxSeconds /\ now' = now + 1 /\ UNCHANGED <<data, procs, attempts, outputs>>

\* prepare_dataset replaces its outputs one by one and the manifest last; it can end
\* after any of them, and the next preparation begins anew.
BeginPreparation(v) ==
    /\ preparing = None
    /\ QuietData => \A p \in Process : ~Taking(p)
    /\ preparing' = v
    /\ splits' = [splits EXCEPT !.train = v]
    /\ UNCHANGED <<now, procs, attempts, outputs>>

ContinuePreparation ==
    /\ preparing # None
    /\ \/ /\ splits.validation # preparing
          /\ splits' = [splits EXCEPT !.validation = preparing]
          /\ UNCHANGED preparing
       \/ /\ splits.validation = preparing
          /\ splits' = [splits EXCEPT !.manifest = preparing]
          /\ preparing' = None
       \/ preparing' = None /\ UNCHANGED splits
    /\ UNCHANGED <<now, procs, attempts, outputs>>

-----------------------------------------------------------------------------
\* One training.

\* SplitManifest.read; only the baseline command also hashes the file here.
Start(p, kind, workflow) ==
    /\ procs[p].at = "ended"
    /\ QuietData => preparing = None
    /\ attempts < MaxAttempts
    /\ (kind = "workflow") = (workflow # None)
    /\ attempts' = attempts + 1
    /\ procs' = [procs EXCEPT ![p] = [Idle EXCEPT
                    !.at = "verify", !.kind = kind, !.attempt = attempts + 1,
                    !.id = IF kind = "workflow" THEN <<kind, workflow>> ELSE None,
                    !.manifest = splits.manifest,
                    !.named = IF kind = "baseline" THEN splits.manifest ELSE 0]]
    /\ UNCHANGED <<now, data, outputs>>

VerifiedParts_TrainOnly == {"train"}

VerifiedParts == {"train", "validation"}

\* _validate_data_lineage
VerifyData(p) ==
    /\ procs[p].at = "verify"
    /\ IF \A part \in VerifiedParts : splits[part] = procs[p].manifest
       THEN Goto(p, "load") ELSE End(p)
    /\ UNCHANGED <<now, data, attempts, outputs>>

\* load_training_split, twice, whatever the files hold by now.  A split that still is
\* the verified one holds every label of its manifest, so _validate_datasets has nothing
\* to refuse; where it refuses another, the training ends as by Kill.
LoadData(p) ==
    /\ procs[p].at = "load"
    /\ procs' = [procs EXCEPT ![p].at = "claim", ![p].train = splits.train,
                              ![p].validation = splits.validation]
    /\ UNCHANGED <<now, data, attempts, outputs>>

\* Time in microseconds tells baselines apart; candidates have only seconds.
ExperimentId(p) ==
    IF procs[p].kind = "baseline" THEN <<"baseline", procs[p].attempt>>
    ELSE IF procs[p].kind = "candidate" THEN <<"candidate", now>>
    ELSE procs[p].id

MayMake_ExistOk(directory, made) == TRUE

\* mkdir(exist_ok=False)
MayMake(directory, made) == directory \notin made

ClaimExperiment(p) ==
    /\ procs[p].at = "claim"
    /\ LET id == ExperimentId(p)
       IN  IF MayMake(id, runs)
           THEN /\ runs' = runs \cup {id}
                /\ procs' = [procs EXCEPT ![p].id = id,
                               ![p].at = IF procs[p].kind = "baseline" THEN "fit" ELSE "track"]
           ELSE End(p) /\ UNCHANGED runs
    /\ UNCHANGED <<now, data, attempts, artifacts, tracked, comparisons, manifests, leaderboard>>

\* configure_experiment_tracking, then the manifest is hashed.
ConfigureTracking(p) ==
    /\ procs[p].at = "track"
    /\ \E reachable \in BOOLEAN, allowed \in FallbackAllowed :
          IF reachable \/ allowed
          THEN procs' = [procs EXCEPT ![p].at = "fit", ![p].named = splits.manifest]
          ELSE End(p)
    /\ UNCHANGED <<now, data, attempts, outputs>>

\* The metrics of the i-th model a training has fitted.
Evidence(p, i) ==
    [Measured[<<Models(procs[p].kind)[i], procs[p].train, procs[p].validation>>]
        EXCEPT !.milliseconds = procs[p].results[i]]

Fitted(p) == {Evidence(p, i) : i \in DOMAIN procs[p].results}

Directory(p) == <<procs[p].id, Models(procs[p].kind)[Len(procs[p].results)]>>

TrackingRun(p, i) == <<procs[p].attempt, Candidate[i]>>

\* What the benchmark of a fitted model measures.  Nothing reads that of a baseline.
Benchmark(kind) == IF kind = "baseline" THEN {0} ELSE Latency

\* Fitting, evaluation, the benchmark, and the directory of the model.
FitModel(p) ==
    /\ procs[p].at = "fit"
    /\ \E ms \in Benchmark(procs[p].kind) :
          LET name == Models(procs[p].kind)[Len(procs[p].results) + 1]
          IN  IF MayMake(<<procs[p].id, name>>, DOMAIN artifacts)
              THEN /\ artifacts' = Extend(artifacts, <<procs[p].id, name>>, None)
                   /\ procs' = [procs EXCEPT ![p].at = "save", ![p].results = Append(@, ms)]
              ELSE End(p) /\ UNCHANGED artifacts
    /\ UNCHANGED <<now, data, attempts, runs, tracked, comparisons, manifests, leaderboard>>

\* Whether another model is left to fit.
NextModel(p, after) ==
    IF Len(procs[p].results) < Len(Models(procs[p].kind)) THEN "fit" ELSE after

\* The metrics and the lineage among the files of write_model_artifacts.
ModelFiles(p) ==
    [macro_f1   |-> Evidence(p, Len(procs[p].results)).macro_f1,
     train      |-> procs[p].train,
     validation |-> procs[p].validation,
     named      |-> procs[p].named]

SaveModel(p) ==
    /\ procs[p].at = "save"
    /\ artifacts' = [artifacts EXCEPT ![Directory(p)] = ModelFiles(p)]
    /\ Goto(p, IF procs[p].kind = "baseline" THEN NextModel(p, "publish") ELSE "log")
    /\ UNCHANGED <<now, data, attempts, runs, tracked, comparisons, manifests, leaderboard>>

\* log_candidate_to_mlflow.  Cut short by an exception, the MLflow run is closed as
\* failed; by a kill, it stays open: either way it never finishes.
LogRun(p) ==
    LET i == Len(procs[p].results)
    IN  /\ procs[p].at = "log"
        /\ \E finished \in BOOLEAN :
              /\ tracked' = Extend(tracked, TrackingRun(p, i),
                               [id |-> procs[p].id, macro_f1 |-> Evidence(p, i).macro_f1,
                                train |-> procs[p].train, named |-> procs[p].named,
                                finished |-> finished, status |-> "none"])
              /\ IF finished THEN Goto(p, NextModel(p, "rank")) ELSE End(p)
        /\ UNCHANGED <<now, data, attempts, runs, artifacts, comparisons, manifests, leaderboard>>

MayTag_Always(p) == TRUE

\* rank_candidates raises when no candidate is eligible.
MayTag(p) == Selection(Fitted(p)) # {}

RankCandidates(p) ==
    /\ procs[p].at = "rank"
    /\ IF MayTag(p) THEN Goto(p, "tag") ELSE End(p)
    /\ UNCHANGED <<now, data, attempts, outputs>>

\* The selection_status of the i-th candidate.
Status(p, i) ==
    IF Candidate[i] \in Selection(Fitted(p)) THEN "selected"
    ELSE IF Eligible(Evidence(p, i)) THEN "eligible_not_selected" ELSE "rejected"

\* The tags are set run by run, in the order of training.
TagRun(p) ==
    LET i == procs[p].tagged + 1
    IN  /\ procs[p].at = "tag"
        /\ tracked' = [tracked EXCEPT ![TrackingRun(p, i)].status = Status(p, i)]
        /\ procs' = [procs EXCEPT ![p].tagged = i,
                                  ![p].at = IF i = Len(Candidate) THEN "report" ELSE "tag"]
        /\ UNCHANGED <<now, data, attempts, runs, artifacts, comparisons, manifests, leaderboard>>

\* _write_experiment_reports: of its files, the comparison.
WriteComparison(p) ==
    /\ procs[p].at = "report"
    /\ comparisons' = Extend(comparisons, procs[p].id,
           [attempt  |-> procs[p].attempt,
            selected |-> Selection(Fitted(p)),
            eligible |-> {c.name : c \in {f \in Fitted(p) : Eligible(f)}}])
    /\ Goto(p, "board")
    /\ UNCHANGED <<now, data, attempts, runs, artifacts, tracked, manifests, leaderboard>>

\* _write_leaderboard of the baselines: a file of their rows and no others.
BaselineRow(p, c, rank) ==
    [rank |-> rank, stage |-> "", id |-> procs[p].id, name |-> c.name, macro_f1 |-> c.macro_f1,
     eligible |-> None, attempt |-> 0, named |-> procs[p].named]

BaselineRows(p) ==
    LET ordered == Ordered(Fitted(p))
    IN  [i \in DOMAIN ordered |-> BaselineRow(p, ordered[i], i)]

PublishBaselines(p) ==
    /\ procs[p].at = "publish"
    /\ leaderboard' = BaselineRows(p)
    /\ Goto(p, "manifest")
    /\ UNCHANGED <<now, data, attempts, runs, artifacts, tracked, comparisons, manifests>>

WriteRunManifest(p) ==
    /\ procs[p].at = "manifest"
    /\ manifests' = manifests \cup {procs[p].id}
    /\ End(p)
    /\ UNCHANGED <<now, data, attempts, runs, artifacts, tracked, comparisons, leaderboard>>

CandidateRow(p, c) ==
    [rank |-> 0, stage |-> "stage6_candidate", id |-> procs[p].id, name |-> c.name, macro_f1 |-> c.macro_f1,
     eligible |-> Eligible(c), attempt |-> procs[p].attempt, named |-> procs[p].named]

\* update_model_leaderboard: the rows of the file, kept ...
ReadLeaderboard(p) ==
    /\ procs[p].at = "board"
    /\ procs' = [procs EXCEPT ![p].at = "merge", ![p].read = leaderboard]
    /\ UNCHANGED <<now, data, attempts, outputs>>

\* Higher macro F1, then the name, then the earlier row: the sort is stable.
AboveInFile(rows, i, j) ==
    \/ rows[i].macro_f1 > rows[j].macro_f1
    \/ /\ rows[i].macro_f1 = rows[j].macro_f1
       /\ \/ NameRank[rows[i].name] < NameRank[rows[j].name]
          \/ rows[i].name = rows[j].name /\ i < j

InFileOrder(rows) == Ranked(DOMAIN rows, LAMBDA i, j : AboveInFile(rows, i, j))

Reranked_NewRows(rows) ==
    [i \in DOMAIN rows |-> [rows[InFileOrder(rows)[i]] EXCEPT
        !.rank = IF @ = 0 THEN i ELSE @, !.stage = IF @ = "" THEN "stage5_baseline" ELSE @]]

\* Rows in a stable order of macro F1 and name, all ranked anew; rows without a stage
\* are those of baselines.
Reranked(rows) ==
    [i \in DOMAIN rows |-> [rows[InFileOrder(rows)[i]] EXCEPT
        !.rank = i, !.stage = IF @ = "" THEN "stage5_baseline" ELSE @]]

\* ... unless new rows have their keys, ...
RetainedRows(rows, new_keys) ==
    LET others == Ranked({i \in DOMAIN rows : <<rows[i].id, rows[i].name>> \notin new_keys},
                         LAMBDA i, j : i < j)
    IN  [k \in DOMAIN others |-> rows[others[k]]]

\* ... and written back with its rows.
MergeLeaderboard(p) ==
    LET own      == [i \in DOMAIN Candidate |-> CandidateRow(p, Evidence(p, i))]
        retained == RetainedRows(procs[p].read, {<<own[i].id, own[i].name>> : i \in DOMAIN own})
    IN  /\ procs[p].at = "merge"
        /\ leaderboard' = Reranked(retained \o own)
        /\ End(p)
        /\ UNCHANGED <<now, data, attempts, runs, artifacts, tracked, comparisons, manifests>>

Kill(p) ==
    /\ procs[p].at # "ended"
    /\ End(p)
    /\ UNCHANGED <<now, data, attempts, outputs>>

Train(p) ==
    \/ \E kind \in Kind, w \in Workflow \cup {None} : Start(p, kind, w)
    \/ VerifyData(p) \/ LoadData(p) \/ ClaimExperiment(p) \/ ConfigureTracking(p)
    \/ FitModel(p) \/ SaveModel(p) \/ LogRun(p) \/ RankCandidates(p) \/ TagRun(p)
    \/ WriteComparison(p) \/ PublishBaselines(p) \/ WriteRunManifest(p)
    \/ ReadLeaderboard(p) \/ MergeLeaderboard(p) \/ Kill(p)

Next ==
    \/ Tick
    \/ \E v \in Version : BeginPreparation(v)
    \/ ContinuePreparation
    \/ \E p \in Process : Train(p)

Spec == Init /\ [][Next]_vars

-----------------------------------------------------------------------------
\* Properties.

\* The values of the variables, and a comparison that selects one of its eligible
\* candidates (rank_candidates raises otherwise).
ExperimentsTypeOK ==
    /\ now \in 0..MaxSeconds /\ attempts \in 0..MaxAttempts
    /\ splits \in [{"train", "validation", "manifest"} -> Version]
    /\ preparing \in Version \cup {None}
    /\ \A p \in Process :
          /\ procs[p].at \in {"ended", "verify", "load", "claim", "track", "fit", "save", "log",
                              "rank", "tag", "report", "publish", "manifest", "board", "merge"}
          /\ procs[p].kind \in Kind \cup {"none"}
          /\ procs[p].attempt \in 0..attempts
          /\ Len(procs[p].results) <= Len(Models(procs[p].kind))
          /\ procs[p].tagged \in 0..Len(Candidate)
    /\ \A key \in DOMAIN artifacts : key[1] \in runs /\ key[2] \in ModelName
    /\ \A key \in DOMAIN tracked :
          /\ key[1] \in 1..attempts
          /\ tracked[key].status \in {"none", "selected", "eligible_not_selected", "rejected"}
    /\ \A id \in DOMAIN comparisons :
          \E c \in comparisons[id].eligible : comparisons[id].selected = {c}
    /\ manifests \cup DOMAIN comparisons \subseteq runs
    /\ \A i \in DOMAIN leaderboard : leaderboard[i].name \in ModelName

\* However trainings overlap, fail and are killed, every row of the leaderboard stands
\* for a model that is there: one row per model of an experiment, ranked by macro F1,
\* with complete artifacts of that score and data; and a candidate's row for a closed
\* MLflow run of that score, whose selection status and whose comparison agree with it.
LeaderboardIsBacked ==
    /\ \A i, j \in DOMAIN leaderboard :
          /\ leaderboard[i].rank = i
          /\ i < j => /\ leaderboard[i].macro_f1 >= leaderboard[j].macro_f1
                      /\ <<leaderboard[i].id, leaderboard[i].name>>
                            # <<leaderboard[j].id, leaderboard[j].name>>
    /\ \A i \in DOMAIN leaderboard :
          LET row == leaderboard[i]
              own == <<row.id, row.name>>
              log == <<row.attempt, row.name>>
          IN  /\ own \in DOMAIN artifacts /\ artifacts[own] # None
              /\ artifacts[own].macro_f1 = row.macro_f1 /\ artifacts[own].named = row.named
              /\ row.stage = "stage6_candidate" =>
                    /\ log \in DOMAIN tracked /\ tracked[log].finished
                    /\ tracked[log].id = row.id /\ tracked[log].macro_f1 = row.macro_f1
                    /\ tracked[log].status # "none"
                    /\ row.eligible = (tracked[log].status # "rejected")
                    /\ row.id \in DOMAIN comparisons
                    /\ row.eligible = (row.name \in comparisons[row.id].eligible)

\* An experiment selects at most one of its MLflow runs, whatever process died where
\* and whichever two began in one second: one that no eligible run of it beats, after
\* every candidate was logged, and the one its comparison names.
OneSelectedPerExperiment ==
    \A id \in runs :
        LET chosen == {key \in DOMAIN tracked : /\ tracked[key].id = id
                                                /\ tracked[key].status = "selected"}
        IN  /\ Cardinality(chosen) <= 1
            /\ \A key \in chosen, c \in {Candidate[i] : i \in DOMAIN Candidate} :
                  LET other == <<key[1], c>>
                  IN  /\ other \in DOMAIN tracked /\ tracked[other].finished
                      /\ tracked[other].status = "eligible_not_selected" =>
                            tracked[other].macro_f1 <= tracked[key].macro_f1
            /\ id \in DOMAIN comparisons =>
                  chosen = {<<comparisons[id].attempt, c>> : c \in comparisons[id].selected}

\* A model was fitted and validated on the two splits that go with the manifest its
\* artifacts and its MLflow run name, whatever preparations were cut short before its
\* training and whatever replaced the splits after it had taken them.  It rests on
\* QuietData: a preparation beside the first steps of a training breaks it, because the
\* lineage is checked on files that are read again afterwards (_validate_data_lineage,
\* load_candidate_datasets and sha256_file, each on the path).
TrainedOnRecordedData ==
    /\ \A key \in DOMAIN artifacts :
          artifacts[key] # None => /\ artifacts[key].train = artifacts[key].named
                                   /\ artifacts[key].validation = artifacts[key].named
    /\ \A key \in DOMAIN tracked : tracked[key].train = tracked[key].named

=============================================================================
