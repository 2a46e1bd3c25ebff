# Verification of the ticket router

TLA+ models of `ticket-router`, a support-ticket classifier with the machinery
around it: a data pipeline, model training, a sealed test split, an MLflow model registry with a human-approved
promotion, a FastAPI service, drift monitoring and conditional retraining.
Paths below are relative to `src/ticket_router/` unless they say otherwise.

## 1. Inventory

| Component | State it keeps | Operations | Who shares its state |
|---|---|---|---|
| Promotion gates (`registry/gates.py`) | none | `evaluate_promotion_gates` | pure; called by evaluation, recovery, candidate workflow, promotion |
| Registry service (`registry/service.py`) | MLflow: numbered versions with tags, aliases `candidate` and `champion` | `register_candidate`, `find_version_by_run_id`, `assign_alias`, `resolve_alias`, `promote_candidate`, tags | every command below, and the API's model loader |
| Final evaluation (`registry/evaluate_final.py`) | `test_access_audit.json`, evidence files, an MLflow run | `run_final_evaluation` | audit shared with recovery and bootstrap |
| Recovery (`registry/recover_final.py`) | none of its own | `recover_final_registration` | audit, evidence, registry |
| Promotion (`registry/promote.py`) | promotion audit files | `promote_candidate --approve` | registry |
| Candidate workflow (`orchestration/candidate.py`, `flows.py`, `tasks.py`) | a summary file for each run | `register_and_gate_candidate`, retried by Prefect | registry |
| Bootstrap (`orchestration/bootstrap.py`) | none | `execute_bootstrap`: runs the others as child processes | reads aliases and audit |
| Release attestation (`registry/attest_release.py`) | an attestation file | `attest_release` | reads audit, registry, manifests |
| Persistence (`db/`) | predictions, feedback, monitoring and retraining runs | repositories over PostgreSQL, or in memory | API, monitoring, retraining |
| API (`api/`) | the loaded champion, readiness flags | predict, feedback, health, operations | repositories, registry |
| Monitoring (`monitoring/`) | reference profile, reports, `monitoring_runs` rows | `execute_monitoring_run` | repositories; read by retraining |
| Conditional retraining (`orchestration/flows.py`, `retraining.py`) | `retraining_runs` rows, dataset snapshots | `conditional_retraining_flow`, `prepare_retraining_dataset` | monitoring runs, approved data, candidate workflow |
| Data pipeline (`data/`, `ingest_data_flow`) | raw, normalized, processed files, each with a manifest of hashes | download, normalize, analyze, prepare, or all in a row with task retries | its splits are read by training, evaluation and retraining |
| Training (`modeling/`) | experiment directories, model artifacts, MLflow runs and their tags, one leaderboard file | train baselines, train candidates, rank and select | split files, MLflow, the leaderboard; the candidate workflow trains too |
| Benchmarking, dashboard, scripts | reports | load test, pages, operational validation | HTTP API |

What is hard here is that nothing holds a lock. A command is a sequence of file
writes and remote registry calls; the only thing that excludes another one is a
file or an alias that it looked at some time ago. Commands are killed and
started again, Prefect repeats whole tasks, and a registry that fails to answer
reads as one that is empty.

## 2. Modules

### Data pipeline

| Module | Models | State |
|---|---|---|
| `TicketRows` | which upstream rows normalisation keeps; texts in several rows, texts with several labels | none |
| `Ranking` | `sorted()` with a key that tells its arguments apart (`Ranked`); `CandidateSelection` and `Experiments` rank by it too | none |
| `ClassSelection` | `select_target_classes`: the largest queues with enough rows for every split | none |
| `GroupSplit` | exclusion of contradictory texts, the greedy split that keeps equal texts together, `validate_prepared_splits` | none |
| `DataPipeline` | the files and the jobs that make them: every `os.replace`, manifest, reuse and refusal of the four commands and of `ingest_data_flow` | `files`, `job`, `jobs`, `faults` |

The first four are the algorithms, checked over a small fixed dataset; `DataPipeline`
tabulates them over the revisions, languages and configurations its jobs can
meet. A file is what it holds, and a hash is the content itself, so a manifest
carries the contents it names. Manifests also carry a time, which a small stamp
stands for: a manifest written again is another manifest. A job has a place in
its stage (`at`); it can be killed or raise at every place, and what it wrote
stays. `SetAsideSnapshot`, `MoveSnapshotIn`, `WriteRawManifest` and the two
rollback actions are the lines of `_replace_raw_snapshot`; `ReplaceOutput` is one
turn of the loop in `_write_parquet_outputs`. A host is a `Platform`: the same
selection report has other bytes on another one, which is what
`_selection_semantically_matches_manifest` is for. Settings are the versioned
configuration and the seed of the environment (`override`, for `GLOBAL_RANDOM_SEED`):
rows are split with `RandomSeed`, which the override decides, while the caches
compare `ConfigurationHash`, which leaves it out, as `configuration_hash` does. The
rollback's own steps can fail too: `RollbackRemove` may leave files behind
(`ignore_errors=True`), and `RestoreFails` is the second rename raising.

### Training

| Module | Models | State |
|---|---|---|
| `CandidateSelection` | the guardrails of `selection.py` and both rankings | none |
| `Experiments` | `train_baselines` and `run_candidate_experiments` as processes, the preparation of data around them, and all that they write | `splits`, `preparing`, `procs`, `runs`, `artifacts`, `tracked`, `comparisons`, `manifests`, `leaderboard`, `now`, `attempts` |

A process is the baseline command, the candidate command or a candidate workflow,
which names its experiment itself. Its actions are the steps between which
another process, or an observer, sees a difference: the two reads of the splits,
the `mkdir` that claims an experiment, one artifact directory, one MLflow run, one
tag, the comparison, and the leaderboard in its two halves, reading
(`ReadLeaderboard`) and writing back (`MergeLeaderboard`). Fitting is the table
`Measured`, from a model and the contents of the two splits to its evidence;
latency is measured anew each time and is chosen. The clock counts the seconds
that candidate ids are made of. `QuietData` says that nobody prepares data while a
training takes it (`Taking`); the code does not see to it (section 3).

### Release lifecycle

| Module | Models | State |
|---|---|---|
| `PromotionGates` | `evaluate_promotion_gates` as the set of gates that fail | none |
| `ModelRegistry` | the MLflow registry and `ModelRegistryService`; `register_candidate` as a sub-procedure (`RegisterFind`, `RegisterCreate`, `RegisterAlias`) | `versions`, `alias`; per command `pc`, `run`, `ver`, `seen`; `stops` |
| `SealedTest` | abstract: the test split is opened by one evaluation, recorded first, completed by itself | `phase`, `authorized`, `opened` |
| `FinalEvaluation` | `run_final_evaluation` and `recover_final_registration`, one action for each persistent effect or remote read | adds `audit`, `opened`, `saved`, `logged` |
| `CandidateRegistration` | `register_and_gate_candidate` under its retried task | adds `attempts`, `summary` |
| `Promotion` | `promote_candidate` with its four looks at the candidate alias | adds `live`, `target`, `promoted`, `promotions` |
| `ReleaseLifecycle` | composes evaluation, recovery, candidate workflows and promotions over one registry | all of the above |
| `Bootstrap` | composes evaluation, recovery and promotion under `execute_bootstrap` | adds `boot`, `child` |

A command is a client of the registry with a program counter: a step ends where
another process could see a difference, at a file write or a remote call. `Stop`
ends a command anywhere, which stands for an exception nobody catches and for a
killed process alike: in this code both leave what was written and undo nothing.
A version's metric and lineage tags are functions of the run it was made from,
so a version keeps its run and only the tag `promotion_gates_passed`, which
later commands compute again. The numbers a model is measured with are the
constant `Evidence`; the gates compare integers.

Two constants choose the environment. `Serial` says that one command runs at a
time, as one operator or the bootstrap container does it; with `Serial = FALSE`
they interleave freely. `Flaky` says that `search_model_versions` and
`get_model_version_by_alias` may raise `MlflowException`, which the service
turns into "nothing there".

### Monitoring and retraining

| Module | Models | State |
|---|---|---|
| `MonitoringPolicy` | `evaluate_alert_policy`, the minimum sample of `calculate_delayed_quality`, and `evaluate_retraining_conditions`, as operators over the measured values of a window | none |
| `RetrainingSnapshot` | `prepare_retraining_dataset`: which reviewed rows become training rows (`Additions`), and one step for each file that is read or written | `inbox`, `input`, `period`, `snap` |
| `RetrainingFlow` | `monitoring_flow` and `conditional_retraining_flow`, their tasks and retries, the tables `monitoring_runs` and `retraining_runs`, and the query behind the status page | adds `windows`, `rows`, `recent`, `trained`, ... |

A flow run has a program counter too. `RetrainStarts` may be taken again for the
same id, because ids are chosen by the caller and everything stored is keyed by
them. `DatabaseFaults` is an exception in a task that uses the database; the
task is retried until its retries are used up, and a fault may come before or
after the commit. `FlowDies` kills the process, after which no handler runs.
The numbers behind the four signals are chosen from `Observations`, so drift
statistics are inputs. A file is the sequence of its rows, and its hash is
itself. A clock counts the timestamps taken, since only their order matters.

### Serving

| Module | Models | State |
|---|---|---|
| `FeedbackStore` | abstract: predictions and feedback are created once; a store that is not durable may forget everything at once | `predictions`, `feedback`, `durable` |
| `PredictionServing` | the lifespan of `api/app.py`, `PredictionService`, `load_champion`, and both prediction/feedback repositories, one action for each database statement | adds `api`, `dbReady`, `loaded`, `pc`, `served`, `found`, ... |

Calls run in threads of one process. `InsertsFeedback` is the insertion with its
commit: the unique constraint on `request_id` decides, and the acknowledgement
may be lost (503 although the row is there). `SavesPredictions` answers the
caller whether the rows were written or not, as the `except` in `predict_many`
does. The in-memory store works under a lock, so its `save_feedback` is one
action, and it begins empty whenever the process does. Request ids are UUIDs made
by the server, so the ids of different calls differ (`ServingAssumption`).

`MC...` modules give the constants their values for TLC; `..._proofs` modules
hold the theorems.

### Abstract specifications

`SealedTest` is what README.md promises of the evaluation protocol. It is
implemented by `FinalEvaluation` with `phase` read off the audit's status and
`authorized` its run (`SealedTestProtocol`), provided commands are serial.
`FeedbackStore` is the create-once policy of docs/database.md; its variables are
the tables themselves (`CreateOnceStore`).

## 3. What the runs check

| Run | Question | Properties |
|---|---|---|
| `DataPipeline` | Whatever jobs were run, killed and repeated under which configurations: what do splits that verify consist of, and is an ingestion what one from nothing would be? | `PipelineTypeOK`, `VerifiedSplitsAreOneSplit`, `IngestionIsReproducible`, `ForcedIngestionRecovers`, `FailedDownloadKeepsSnapshot`, `NoSilentReplacement` |
| `Experiments` | Trainings overlap, die and share a leaderboard while data is prepared around them: what do the records stand for? | `ExperimentsTypeOK`, `LeaderboardIsBacked`, `OneSelectedPerExperiment`, `TrainedOnRecordedData` |
| `FinalEvaluation_concurrent` | What do the audit and the registry still say of each other when evaluations overlap and registry reads fail? | `TypeOK`, `OpenedOnlyUnderAudit`, `CompletedAuditNamesGatedVersion`, `RegisteredWasEvaluated` |
| `ReleaseLifecycle_serial` | All registry commands, one at a time, dying anywhere: is the test split read once, is an interrupted evaluation registered exactly once in the end, and what is a champion? | `LifecycleTypeOK`, `SealedTestOpenedOnce`, `OneVersionPerRun`, `AuditMovesForward`, `SealedTestProtocol`, `RecoveryCompletes`, `ChampionWasTestEvaluated`, `ChampionPassedGates` |
| `ReleaseLifecycle_concurrent` | The same commands interleaved: what can the records be trusted for? | `AuditedCandidatePassed`, `ChampionMoveIsAudited`, `CandidateRegisteredOnce`, `SummaryMatchesRegistry` |
| `Bootstrap_restart` | Does repeating a killed bootstrap lead to a champion, without a second look at the test split? | `BootstrapNeverAmbiguous`, `BootstrapOpensTestOnce`, `BootstrapReachesChampion` |
| `Retraining` | Does a sustained critical state rest on windows of different runs, and was a candidate trained on what its manifests say, through deaths, faults, repeated ids and exchanged files? | `RetrainTypeOK`, `CandidateLineage`, `SustainedEvidence`, `SnapshotIsImmutable` |
| `PredictionServing` | Do racing calls, outages and restarts respect the create-once store, and is everybody answered truthfully? | `ServingTypeOK`, `AcceptedFeedbackIsStored`, `DuplicateMeansStored`, `FeedbackNamesAnsweringModel`, `CreateOnceStore`, `CallsAreAnswered` |

Four further runs expect a violation; each checks one statement of the
repository's own words.

| Run | The statement | What the code does |
|---|---|---|
| `ReleaseLifecycle_race_finding` | "aliases move only when every result passes" (`registry/gates.py`) | `promote` resolves the candidate alias again after the gates; a version registered meanwhile is promoted unseen |
| `DataPipeline_seed_finding` | regeneration is stable for the same data, configuration, seed and code (docs/adr/0001) | the seed of the environment is in no hash: an ingestion under another one reuses the old splits and ends well |
| `Experiments_data_finding` | each run records the split-manifest and input hashes, its data lineage (docs/baseline-modeling.md, docs/candidate-experimentation.md) | the splits are verified, loaded and hashed in three readings: data prepared in between gives a model the hashes of splits it never saw |
| `Retraining_shown_finding` | the dashboard shows the latest retraining run; an interrupted run records a failure (docs/retraining.md) | a killed run keeps `completed_at` null, which PostgreSQL sorts first: it is shown from then on |

### Environment and bounds

`Serial` is TRUE where the code relies on one command at a time: one operator, or
the bootstrap container, which runs its children one after the other. Nothing in
the code enforces it, which is why the statements that need it say so and why
the concurrent runs exist. The audit is looked for before the training fit and
written after it, so two evaluations that overlap both read the split:
`SealedTestOpenedOnce`, and README.md's "prevents repeated test evaluation", hold
of serial commands only. `Flaky` lets registry reads raise; it is TRUE in
`FinalEvaluation_concurrent`. With it a repeated registration can create a
second version (`OneVersionPerRun` fails), and a failed champion lookup skips the
regression gate (`ChampionPassedGates` fails), so those two are claimed without
it.

| Bound | Meaning | Why it is enough |
|---|---|---|
| `FinalRuns`, `Recoverers`, `Promoters`, `TrainRuns` | executions of each command | two of the racing kind suffice for every race, as the violations show; a resource is contended by pairs |
| `MaxVersions` | registered versions | one for each run plus the prior release, so nothing is cut off where a run gets one version; more in the run with registry faults |
| `MaxStops` | deaths of commands | three let an evaluation, its recovery and the next recovery each die; `Bootstrap_restart` has one more `FinalRuns` than stops, so an attempt is always left |
| `MaxFaults`, `MaxDeaths`, `MaxExecutions`, `Retries` | database faults, killed flow runs, starts of a run id, task retries | a fault on the last retry, a death inside the snapshot and a second execution over its remains all occur |
| `RequiredWindows = 2` | critical windows in a row | the configured value |
| `MaxJobs = 4`, `MaxFaults = 2`, two `Platform`s | jobs of the data pipeline, their kills and exceptions, hosts | a job, a second one under another configuration that is cut short, a third that builds on the remains, and a forced repair; a kill inside the rollback of an exception |
| 28 rows, two revisions, four settings | the dataset of `MCDataPipeline` | every reason to drop a row, texts shared by rows and by labels, a class with too few texts, a tie of class sizes; one configuration cannot be split and is refused, and two settings differ only in the seed of the environment |
| `MaxAttempts = 2`, two `Process`es, `MaxSeconds = 1` | trainings | two overlapping or consecutive ones of any kind, in one second or in two; two models each, so that one is ranked below, rejected or missing |
| `Version = {1, 2}`, `Latency = {1, 2}` | contents of the splits, measured latencies | the ranking changes with the content, a guardrail breaks on one of them, and the greater latency rejects |
| `MaxRestarts = 2` | starts of the API process | one restart between a prediction and its feedback, with another champion |

`RequiredWindows` matters: a monitoring flow of its own gives each task attempt a
new id, so a lost acknowledgement leaves two rows for one window. With two windows
required, `recent[1:]` keeps this harmless for the run's own window, and
`SustainedEvidence` holds; with three, which `orchestration/config.py:57` allows, TLC
finds a duplicated row of another run that stands for two of them. So
docs/implementation-plan.md:652, "Monitoring is idempotent by model/window/config",
holds only of runs that pass a `run_id`.

`InboxMayChange = FALSE` says that nobody replaces the reviewed file while a run
reads it. The code reads the file once and hashes it twice later
(`retraining.py:156`, `216`, `234`); when it is exchanged in between, the manifests
name a file the rows did not come from, and `CandidateLineage` fails.

`QuietData = TRUE` is the same kind of assumption for `Experiments`: nobody prepares
data while a training is between its check of the splits and the hash of the
manifest. The code reads the manifest and the splits, the splits again and the
manifest again (`train_candidates.py:111-113`, `133`), and nothing keeps a preparation
from replacing them in between. `Experiments_data_finding` drops the assumption and
shows a model recorded with data it never saw. With it, preparations cut short
before a training, and those that overwrite the splits later in it, are in the run.
Only `TrainedOnRecordedData` needs it.

`Retraining`, `DataPipeline` and `Experiments` turn deadlock checking off:
all flow runs, jobs or trainings the bounds allow may have ended. In the other
models something can always start. `Experiments` uses the symmetry of its
processes, which only differ in name; it checks no liveness.

### Fairness

- `LifecycleFairSpec` of `ReleaseLifecycle`: a command that runs goes on (weak),
  and recovery is started again and again while it has something to recover. The
  latter is strong fairness, since other commands run in between; the operator of
  the repository's runbook comes back to it. Nothing is assumed of commands that
  have not begun.
- `BootstrapFairSpec`: the container is started again after every end, and the
  bootstrap and its child go on.
- `FairSpec` of `PredictionServing`: the thread that serves a call goes on. The
  database may stay down for ever, the process need never come back.

## 4. What is proved

All theorems hold for every value of the constants that the named assumptions
allow: any number of commands, runs, calls, deaths and restarts.

| Theorem | Says | Needs |
|---|---|---|
| `FinalEvaluation_proofs!TypeCorrect` | `TypeOK` | - |
| `ReadingIsRecorded` | `OpenedOnlyUnderAudit` | - |
| `CompletionIsGated` | `CompletedAuditNamesGatedVersion` | - |
| `RegistrationNeedsEvidence` | `RegisteredWasEvaluated` | - |
| `SealedTestIsOpenedOnce` | `SealedTestOpenedOnce` | `Serial` |
| `ImplementsSealedTest` | `SealedTestProtocol` | `Serial` |
| `AuditOnlyMovesForward` | `AuditMovesForward` | `Serial` |
| `RetrainingFlow_proofs!SnapshotInvariant` | the invariant below | - |
| `SnapshotsAreImmutable` | `SnapshotIsImmutable` | - |
| `CandidatesHaveLineage` | `CandidateLineage` | `InboxMayChange = FALSE` |
| `RetrainTypeCorrect` | `RetrainTypeOK` | - |
| `EvidenceIsSustained` | `SustainedEvidence` | `RequiredWindows = 2` |
| `PredictionServing_proofs!ServingInvariant` | the invariant below | - |
| `AcceptedIsStored`, `DuplicatesAreStored`, `FeedbackNamesItsModel` | the three invariants of the run | - |
| `ImplementsStore`, `ServingTypeCorrect` | `CreateOnceStore`, `ServingTypeOK` | - |
| `DataPipeline_proofs!PipelineInvariant` | the invariant below | - |
| `PipelineTypeCorrect` | `PipelineTypeOK` | - |
| `VerifiedSplitsAreSplits` | `VerifiedSplitsAreOneSplit` | - |
| `IngestionsAreReproducible` | `IngestionIsReproducible`, of the seed the split manifest records | - |
| `ForcedIngestionsRecover` | `ForcedIngestionRecovers` | - |
| `FailedDownloadsRollBack` | `FailedDownloadKeepsSnapshot` | - |
| `NothingIsReplacedSilently` | `NoSilentReplacement` | - |
| `LargestClassesAreSelected` | none a run checks: what `select_target_classes` picks | `IsFiniteSet(RowsIn[n])` |
| `PartsShareNoText`, `EveryPartHasEveryClass` | none a run checks: the parts of `create_prepared_splits` | `IsFiniteSet(RowsIn[n])` |
| `PartsAreNearTheirShare`, `OnlyTolerancesRefuse` | none a run checks: their sizes, and when they are refused | `IsFiniteSet(RowsIn[n])` |
| `Experiments_proofs!ExperimentsInvariant` | the invariant below | - |
| `ModelsNameTheirData` | `TrainedOnRecordedData` | `QuietData` |
| `ExperimentsTypes` | `ExperimentsTypeOK` | - |
| `OneSelectedOfEachExperiment` | `OneSelectedPerExperiment` | - |
| `RowsAreBacked` | `LeaderboardIsBacked` | - |
| `ReleaseLifecycle_proofs!LifecycleInvariant` | the invariant below | - |
| `LifecycleTypeCorrect` | `LifecycleTypeOK` | - |
| `AuditsAreTrue` | `AuditedCandidatePassed` | - |
| `ChampionMovesAreAudited` | `ChampionMoveIsAudited` | - |
| `SummariesMatchRegistry` | `SummaryMatchesRegistry` | - |
| `CandidatesRegisteredOnce` | `CandidateRegisteredOnce` | `Flaky = FALSE` |
| `RunsRegisteredOnce` | `OneVersionPerRun` | `Serial`, `Flaky = FALSE` |
| `ChampionsWereTested` | `ChampionWasTestEvaluated` | `Serial` |
| `ChampionsPassGates` | `ChampionPassedGates` | `Serial`, `Flaky = FALSE` |
| `Bootstrap_proofs!BootstrapInvariant` | the invariant below | - |
| `BootstrapOpensTheTestOnce` | `BootstrapOpensTestOnce` | - |
| `BootstrapAuditMovesForward` | `AuditMovesForward` | - |
| `BootstrapImplementsSealedTest` | `SealedTestProtocol` | - |
| `BootstrapIsNeverAmbiguous` | `BootstrapNeverAmbiguous` | `Flaky = FALSE` |

**Final evaluation.** None of the invariants is inductive alone: whether a
version may be tagged depends on what its command has seen. `EvaluationInv` adds,
for each command, what its place implies (`CommandInv`): an evaluator past
"authorized" has opened the split, one past "saved" has its evidence, a command
past "register" handles a version of its run. `FinalEvaluation_proofs` begins with
the facts about the registry's calls, which the other proofs about it use too. Under `Serial`, `SerialInv` adds that at most
one command is active and that it holds the audit record from the moment it was
written (`OwnerInv`); this is what makes reading the split a second time
impossible and gives the refinement of `SealedTest`, step by step.

**Retraining.** `SnapshotInv` says which files the directory of a run holds at
each place of its flow (`PlaceInv`), and that a registered candidate was trained on
the complete snapshot (`DirectoryInv`). Immutability follows, because every
action that writes to a directory is at a place where the manifest is missing.
`LineageInv` adds what the written rows came from; it needs the file to stay the
same between reading and hashing, hence the assumption. `MonitoringInv` is about the
tables: no two windows completed at one time, a retraining run has at most one row
and has stored it before it reads. Of two critical windows in a row one is then
another flow run's: if the run's own window is the latest it is dropped, and if it is
not, the latest is another's. This uses `RequiredWindows = 2`; a repeated monitoring
task stores a second row for its window, so two prior ones may be a single one.

**Serving.** `ServingInv` ties the tables to the calls: a recorded prediction is
that of an answered call, a feedback call that passed the lookup holds the version
of a recorded prediction, and a running call has a process with a model. From it
every step of the service is a step of `FeedbackStore` or none.

**Data pipeline.** A job trusts what it finds, so the invariant (`PipelineInv`) must
say what every file is true of, whichever job left it. Manifests are honest
(`FilesInv`): a normalisation manifest names the rows that go with its two inputs
(`HonestNormalization`), a split manifest the splits of its data, selection and
configuration (`HonestSplits`). The files beside them need not match, which is why
outputs are verified and why splits that verify are one split. For the job that
runs it says where the snapshot that verified is (`DownloadInv`), what the frames in
its hands were made from (`NormalizeInv`, `PrepareInv`), which files were there when
it began and stay (`KeptInv`), and, for an ingestion, what each stage has left to the
next (`IngestInv`); from the last, reuse or not, an ingestion ends with the splits that
one from nothing would make under settings of the same hash, with the seed the split
manifest records. That it is the seed of the ingestion itself follows only for a
forced one; for the others `DataPipeline_seed_finding` refutes it. For all this `PreparedSplits` is never computed: the proofs
use that whatever is written passed `validate_prepared_splits` and that the parts hold
the usable rows. The dataset enters by `RowsAssumption`, the configurations by
`PipelineAssumption`.

**Class selection and splits.** The algorithms themselves, for every finite dataset.
Queues and groups are `Ranked` sets whose keys order them (`QueuesAreSorted`,
`GroupsAreSorted`), hence the largest classes are selected. `Placing` abstracts the
greedy loop: groups of some sizes, each put where least is of what the weights give.
`ClassIsPlaced` shows that the loop is one; the recursive function behind
`Allocation` is shown to exist by induction (`AllocationIsStepwise`). Of every
placing it is proved that no part gets a second group before every part has one
(`EveryPartIsGiven`) and, as sizes only fall, that a part is overfull by at most any of
its groups (`NoPartIsOverfull`). A text belongs to one class, contradictory ones being
excluded, and a group goes to one part: so of the checks that follow in
`validate_prepared_splits` only the tolerances can fail (`OnlyTolerancesRefuse`).
Induction is by the set of numbers it holds of (`SetInduction`), since the library's
theorem takes an operator.

**Release lifecycle.** `LifecycleInv` covers all commands of the registry at once,
concurrent or not. For each it says which version it holds, that this is a version
of its run (`HoldInv`), what a workflow has written (`WorkflowInv`) and what a
promotion has seen (`PromoterInv`). The step of one command leaves this of another
alone, since versions keep their run, and only commands of a run write its gate tag
(`LifecycleGrows`, `OthersStay`). That a promotion's audit is true needs no more: it names what
was looked at, not what the alias says now. One version per run needs `CreationInv`: a
command about to create a version is the only creator of its run, which has none yet.
A workflow is the only command of its run; a final evaluation is not (it may be
recovered), which is why `OneVersionPerRun` needs `Serial`. `LifecycleSerialInv` adds that the
aliases stay, from the first look of a promotion to the move, what it saw
(`UndisturbedInv`); without `Serial` this fails, as `ReleaseLifecycle_race_finding`
shows.

**Bootstrap.** Run by operators, evaluation and recovery need `Serial` to open the
test split once. Under the bootstrap they do not: it waits for the command it started
before it looks at the registry again, so it is the bootstrap that runs its commands
one at a time (`AloneInv`). `BootInv` adds what the command it waits for relies on
(`ChildInv`: past "authorized" the split was opened under the audit record of its own
run) and what the audit says of split, evidence and candidate alias (`AuditInv`: the
alias is set before an audit is completed). From it every step of a bootstrap, of a
command or of a death is a step of `SealedTest` or none. That a completed audit never
comes without a candidate alias needs reliable lookups (`UnambiguousInv`): a lookup
that fails looks like an alias that is not there.

**Training.** `ExperimentsInv` has four layers. `TrainInv` says what a training
carries: under `QuietData` the manifest it read first stays that of the data until
everything is taken from it, and what was loaded and named since is one version. The
other layers, and every other theorem, hold whoever prepares data and when. `PlaceInv` says
what a training holds at each place and that trainings under way differ in their
attempts and in the experiments they claimed; the second is what `mkdir` without
`exist_ok` gives. `RecordInv` says that the directories, MLflow runs and comparison of
an experiment are those its training has in hand and nobody else's, so its
tags select the model it ranked first, once. `BoardInv` says that every row of the
leaderboard, and of the copy a merge has read, stands on files and runs that no later
step changes (`RecordsPersist`); hence a merge may overwrite another's rows and
still tell the truth. It needs the keys of the rows to differ as well, which is why a
merge first drops those of its own. Selection, the order of the file and the rows a
merge keeps are all `Ranked` sets: `RankingSorts` proves that ranking a finite set by a
strict total order gives each element its place, by counting the elements up to it
(`Ranking_proofs`).
`ExperimentsAssumption` asks that model names have an order, as strings do, and that
the evidence of a model bears its name.

Only model-checked: the liveness properties (`RecoveryCompletes`,
`BootstrapReachesChampion`, `CallsAreAnswered`), which are out of the
prover's reach.

## 5. What is not claimed

- A crash between the audit record and the last evidence file leaves an
  authorized audit that recovery cannot complete and evaluation refuses to
  replace. This is the price of the sealed test, and the code offers no way out.
- The minimum number of new labels is counted in the feedback of the monitored
  window, while training uses the approved rows of the reviewed file, of which
  one is enough (`retraining.py:72`, `:179`). No property relates the two.
- Readiness (`database_ready`) is decided once, at startup.
- Without `DATABASE_URL`, acknowledged feedback does not survive a restart.
- The first rename of `_replace_raw_snapshot` may itself raise. The except branch
  then removes the untouched snapshot; and when the rename that gives the files back
  raises, they stay in the backup directory, where nothing looks for them
  (`download.py:292-302`). `FailedDownloadKeepsSnapshot` excepts these two renames.
- Two evaluations at once may both pass the check of the audit file; a registry that
  fails to answer reads as empty; and a promotion killed between alias and audit
  leaves a champion without a record (`evaluate_final.py:102`, `registry/service.py:92`,
  `:113`, `promote.py:124`). The properties about them assume `Serial`, `Flaky = FALSE`,
  or except the command that died; PROJECT.json lists these hazards without a property.
- `promote` requires `test_macro_f1` (`promote.py:146`), which candidates of the
  retraining workflow never carry, although docs/retraining.md:79-84 gives
  `promote --approve` as their next step: it always refuses them.
- A run whose failure cannot be stored, because the database is what failed, keeps
  its last status (`flows.py:273`), and so does a run that was killed.
- A task retry after rows were replaced but before their manifest finds incomplete
  output and refuses it (`normalize.py:136`), so the retry cannot succeed; a forced
  ingestion can (`ForcedIngestionRecovers`).
- A class selection that only another host spelled differently is refused whenever
  rows with contradictory labels were excluded, because counts from before and
  after the exclusion are compared (`prepare.py:304`). docs/final-audit.md tells of
  such a refusal.
- Rows of the leaderboard may be lost: two overlapping updates keep those of the
  second, and a baseline training replaces the file. `LeaderboardIsBacked` says
  that the rows that are there are true, not that all are.
- A workflow executed again under its id finds its experiment directory and is
  refused (`train_candidates.py:125`), also when its first execution was cut short.

Not modelled: numerical fitting and metrics, drift statistics, text handling,
dashboards, benchmarks, the release attestation (it reads, writes one report and
adds tags nobody reads), containers, migrations and the configuration files. What
the models need of them appears as constants or as choices of the environment.
Near duplicates and template families are only reported by the data pipeline and
are left out.
The HTTP validation of requests and the read-only endpoints are left out of
`PredictionServing`.

## 6. Plan

1. Monitoring queries: which predictions and feedback rows a window sees, over
   the tables of `PredictionServing`.
2. The other side of `PartsAreNearTheirShare`: by how much a part may fall short of
   its share of a class, and what follows for the tolerances.
