------------------------- MODULE DataPipeline_proofs -------------------------
\* Theorems about the data pipeline, for every dataset, every set of configurations
\* and hosts, and any number of jobs, kills and exceptions.
EXTENDS DataPipeline, Ranking_proofs, SequenceTheorems

-----------------------------------------------------------------------------
\* What the tabulated algorithms give.

\* A group goes to one of the three parts (splitting.py:241).
LEMMA SomePartIsBehind ==
    ASSUME NEW allocated, NEW ratios
    PROVE  FurthestBehind(allocated, ratios) \in Part
  BY DEF FurthestBehind, Part

LEMMA AssignmentIsToParts ==
    ASSUME NEW rows, NEW q, NEW config, NEW r \in rows
    PROVE  GroupAssignment(rows, q, config)[r] \in Part
  <1>1. Attr[r].text \in TextsOf(rows)
    BY DEF TextsOf
  <1> QED
    BY <1>1, SomePartIsBehind DEF GroupAssignment

\* Every usable row goes to a part, and nothing else does (splitting.py:67).
LEMMA PartsHoldUsableRows ==
    ASSUME NEW rows, NEW classes, NEW config
    PROVE  /\ \A p \in Part : PreparedSplits(rows, classes, config)[p] \subseteq UsableRows(rows, classes)
           /\ UNION {PreparedSplits(rows, classes, config)[p] : p \in Part} = UsableRows(rows, classes)
  <1> DEFINE usable == UsableRows(rows, classes)
             split  == PreparedSplits(rows, classes, config)
  <1>1. \A p \in Part : split[p] \subseteq usable
    BY DEF PreparedSplits
  <1>2. ASSUME NEW r \in usable PROVE \E p \in Part : r \in split[p]
    <2> DEFINE q == Attr[r].queue
               p == GroupAssignment(RowsOfQueue(usable, q), q, config)[r]
    <2>1. q \in ClassSet(classes)
      BY DEF UsableRows, SelectedRows
    <2>2. p \in Part
      BY AssignmentIsToParts DEF RowsOfQueue
    <2>3. r \in split[p]
      BY <2>1, <2>2 DEF PreparedSplits
    <2> QED
      BY <2>2, <2>3
  <1> QED
    BY <1>1, <1>2

\* What holds of the splits of some data, selection and configuration, if there are any.
LEMMA SplitsAreSplits ==
    ASSUME NEW n \in NormalizedData, NEW k \in Selections, NEW c \in Config,
           NEW split, split = SplitsOf[n][k][c], split # None
    PROVE  /\ split = [p \in Part |-> split[p]]
           /\ \A p, o \in Part : p # o => TextsOf(split[p]) \cap TextsOf(split[o]) = {}
           /\ \A p \in Part : /\ split[p] \subseteq Row
                              /\ TextsOf(split[p]) \cap ContradictoryIn[n][k] = {}
                              /\ \A q \in ClassSet(k) : RowsOfQueue(split[p], q) # {}
           /\ \A r : r \in UsableIn[n][k] <=> \E p \in Part : r \in split[p]
  <1> DEFINE rows == RowsIn[n]
  <1>1. PreparationFeasible(rows, k, c) /\ split = PreparedSplits(rows, k, c)
    BY DEF SplitsOf
  <1>2. SplitsValid(split, k, c)
    BY <1>1 DEF PreparationFeasible
  <1>3. split = [p \in Part |-> split[p]]
    BY <1>1 DEF PreparedSplits
  <1>4. \A p, o \in Part : p # o => TextsOf(split[p]) \cap TextsOf(split[o]) = {}
    BY <1>2 DEF SplitsValid
  <1>5. \A p \in Part, q \in ClassSet(k) : RowsOfQueue(split[p], q) # {}
    BY <1>2 DEF SplitsValid
  <1>6. /\ \A p \in Part : split[p] \subseteq UsableRows(rows, k)
        /\ UNION {split[p] : p \in Part} = UsableRows(rows, k)
    BY <1>1, PartsHoldUsableRows
  <1>7. UsableIn[n][k] = UsableRows(rows, k)
    BY DEF UsableIn
  <1>8. ContradictoryIn[n][k] = Contradictory(SelectedRows(rows, k))
    BY DEF ContradictoryIn
  <1>9. rows \subseteq Row
    <2>1. rows = NormalizedRows(n.revision, n.language) /\ n.revision \in Revision
      BY DEF RowsIn, NormalizedData
    <2> QED
      BY <2>1, RowsAssumption DEF NormalizedRows
  <1>10. UsableRows(rows, k) \subseteq Row
    BY <1>9 DEF UsableRows, SelectedRows
  <1>11. ASSUME NEW p \in Part PROVE TextsOf(split[p]) \cap ContradictoryIn[n][k] = {}
    BY <1>6, <1>8 DEF UsableRows, TextsOf
  <1>12. \A r : r \in UsableRows(rows, k) <=> \E p \in Part : r \in split[p]
    BY <1>6
  <1> QED
    BY <1>3, <1>4, <1>5, <1>6, <1>7, <1>10, <1>11, <1>12

\* Whatever is selected from some data under some configuration is a selection.
LEMMA SelectionIsOne ==
    ASSUME NEW n \in NormalizedData, NEW c \in Configuration, SelectionOf[n][c] # None
    PROVE  SelectionOf[n][c] \in Selections
  BY DEF Selections

\* What the hash of some settings says of them.
LEMMA HashOfSettings ==
    ASSUME NEW c \in Config
    PROVE  /\ ConfigurationHash(c) \in Configuration
           /\ ConfigurationHash(c).revision = c.revision
           /\ ConfigurationHash(c).language = c.language
           /\ c.revision \in Revision /\ c.language \in STRING
  BY PipelineAssumption DEF ConfigurationHash, Configuration

LEMMA SeedOfSettings ==
    ASSUME NEW c \in Config
    PROVE  RandomSeed(c) \in Seed
  BY PipelineAssumption DEF RandomSeed

LEMMA RevisionsOfConfigurations ==
    ASSUME NEW k \in Configuration
    PROVE  /\ k.revision \in Revision
           /\ \E c \in Config : k = ConfigurationHash(c)
  BY HashOfSettings DEF Configuration

\* The data a configuration asks for.
DataOf(c) == [revision |-> c.revision, language |-> c.language]

LEMMA DataOfIsData ==
    ASSUME NEW c \in Config
    PROVE  DataOf(c) \in NormalizedData
  BY PipelineAssumption DEF DataOf, NormalizedData

LEMMA FromScratchIsTheSplit ==
    ASSUME NEW c \in Config
    PROVE  LET classes == SelectionOf[DataOf(c)][ConfigurationHash(c)]
           IN  FromScratch[c] = IF classes = None THEN None ELSE SplitsOf[DataOf(c)][classes][c]
  BY DEF FromScratch, DataOf

\* Settings of one hash ask for the same data.
LEMMA OneHashOneDataset ==
    ASSUME NEW c \in Config, NEW d \in Config, ConfigurationHash(c) = ConfigurationHash(d)
    PROVE  DataOf(c) = DataOf(d)
  BY HashOfSettings DEF DataOf

-----------------------------------------------------------------------------
\* The inductive invariant.

Field == {"at", "command", "stage", "force", "config", "tries", "held", "backup", "existed",
          "verified", "blocked", "outcome"}

IsJob(j) == j = [field \in Field |-> j[field]]

PlacesOf ==
    [download  |-> {"begin", "fetched", "aside", "copying", "placed", "rollback", "restore"},
     normalize |-> {"begin", "written"},
     analyze   |-> {"begin", "reports"},
     prepare   |-> {"begin", "manifest", "reports"} \cup Output]

\* A job that runs is at a place of its stage.
JobInv ==
    /\ IsJob(job)
    /\ job.outcome \in {"none", "running", "ok", "failed", "refused", "killed"}
    /\ job.at = "ended" <=> job.outcome # "running"
    /\ job.at # "ended" => /\ job.stage \in Stage /\ job.at \in PlacesOf[job.stage]
                           /\ job.config \in Config
    /\ job.tries \in 0..Retries
    /\ jobs \in 0..MaxJobs /\ faults \in 0..MaxFaults

SnapshotType == [revision : Revision, whole : BOOLEAN]

\* A normalisation manifest names the rows that go with its two inputs, ...
HonestNormalization(m) ==
    /\ m.configuration \in Configuration
    /\ m.output = [revision |-> m.raw_manifest.configuration.revision,
                   language |-> m.configuration.language]

\* ... and a split manifest the splits of its data and selection under settings of its
\* configuration and seed.
MadeUnder(m, c) ==
    LET split == SplitsOf[m.sources.normalized][m.classes][c]
    IN  /\ m.configuration = ConfigurationHash(c) /\ m.random_seed = RandomSeed(c)
        /\ split # None
        /\ m.outputs = OutputFrames(split)

HonestSplits(m) ==
    /\ m.sources.normalized \in NormalizedData /\ m.classes \in Selections
    /\ m.sources.selected_classes.classes = m.classes
    /\ \E c \in Config : MadeUnder(m, c)

FilesInv ==
    /\ DOMAIN files \subseteq FileName
    /\ Present("source") => files["source"] \in SnapshotType
    /\ Present("raw_manifest") =>
          /\ files["raw_manifest"].configuration \in Configuration
          /\ files["raw_manifest"].content = Snapshot(files["raw_manifest"].configuration.revision)
    /\ Present("normalized") => files["normalized"] \in NormalizedData
    /\ Present("normalization_manifest") => HonestNormalization(files["normalization_manifest"])
    /\ Present("selected_classes") => files["selected_classes"].classes \in Selections
    /\ Present("split_manifest") => HonestSplits(files["split_manifest"])
    /\ \A o \in Output : Present(o) => files[o] \subseteq Row

\* What a download has in its hands, and where the snapshot that verified when it began is.
DownloadInv ==
    job.at # "ended" /\ job.stage = "download" =>
        /\ job.at \in {"fetched", "aside", "copying", "placed"} =>
              job.held = Snapshot(job.config.revision)
        /\ job.at = "placed" => Holds("source", job.held)
        /\ job.backup \subseteq SnapshotType
        /\ job.verified /\ ~job.blocked =>
              IF job.at \in {"begin", "fetched"} THEN SnapshotVerifies
              ELSE Present("raw_manifest") /\ job.backup = {files["raw_manifest"].content}

NormalizeInv ==
    job.at = "written" =>
        /\ Present("raw_manifest")
        /\ Holds("normalized", job.held)
        /\ job.held = [revision |-> files["raw_manifest"].configuration.revision,
                       language |-> job.config.language]

\* The outputs that are in place before a job replaces this one.
PlacedBefore ==
    [train |-> {}, validation |-> {"train"}, test |-> {"train", "validation"},
     training_reference |-> {"train", "validation", "test"}, manifest |-> Output]

PrepareInv ==
    job.at \in Output \cup {"manifest"} =>
        /\ Present("normalized") /\ Present("selected_classes")
        /\ PreparableSplits # None
        /\ job.held = OutputFrames(PreparableSplits)
        /\ \A o \in PlacedBefore[job.at] : Holds(o, job.held[o])

\* What a job that runs without --force found is there, and is not what it replaces.
KeptInv ==
    job.at # "ended" /\ ~job.force =>
        /\ job.existed \subseteq DOMAIN files
        /\ job.stage = "download" /\ job.at # "begin" =>
              job.existed \cap {"source", "raw_manifest"} = {}
        /\ job.at = "written" => job.existed \cap {"normalized", "normalization_manifest"} = {}
        /\ job.at \in Output \cup {"manifest"} =>
              job.existed \cap (Output \cup {"split_manifest"}) = {}

\* What each stage of an ingestion under c leaves to the next.
SnapshotHere(c) ==
    SnapshotVerifies /\ files["raw_manifest"].configuration = ConfigurationHash(c)

RowsHere(c) ==
    /\ NormalizedVerifies
    /\ files["normalization_manifest"].raw_manifest = files["raw_manifest"]
    /\ files["normalized"] = DataOf(c)

SelectionHere(c) ==
    /\ Present("selected_classes")
    /\ SelectionOf[DataOf(c)][ConfigurationHash(c)] # None
    /\ files["selected_classes"].classes = SelectionOf[DataOf(c)][ConfigurationHash(c)]
    /\ files["selected_classes"].input = files["normalized"]
    /\ files["selected_classes"].requested = c.classes
    /\ files["selected_classes"].minimum = c.minimum

\* (a preparation that may not reuse anything makes the splits of its own seed)
SplitsHere(c, force) ==
    /\ Present("split_manifest") /\ OutputsVerify(files["split_manifest"])
    /\ \E made \in Config :
          /\ ConfigurationHash(made) = ConfigurationHash(c)
          /\ RandomSeed(made) = files["split_manifest"].random_seed
          /\ force => RandomSeed(made) = RandomSeed(c)
          /\ [p \in Part |-> files[p]] = FromScratch[made]

Reached(stage, c, force) ==
    /\ SnapshotHere(c)
    /\ stage # "download" => RowsHere(c)
    /\ stage \in {"analyze", "prepare"} => SelectionHere(c)
    /\ stage = "prepare" => SplitsHere(c, force)

IngestInv ==
    job.at # "ended" /\ job.command = "ingest" =>
        /\ job.stage = "normalize" => Reached("download", job.config, job.force)
        /\ job.stage = "analyze" => Reached("normalize", job.config, job.force)
        /\ job.stage = "prepare" => Reached("analyze", job.config, job.force)
        /\ job.at = "reports" => Reached(job.stage, job.config, job.force)

PipelineInv ==
    /\ JobInv /\ FilesInv
    /\ DownloadInv /\ NormalizeInv /\ PrepareInv /\ KeptInv /\ IngestInv
    /\ IngestionIsReproducible /\ ForcedIngestionRecovers /\ FailedDownloadKeepsSnapshot

-----------------------------------------------------------------------------
\* Jobs that begin and end.

LEMMA NoJobIsAJob == IsJob(NoJob) /\ NoJob.tries = 0 /\ NoJob.outcome = "none" /\ NoJob.at = "ended"
  BY DEF IsJob, Field, NoJob

\* What is remembered of a job that has ended.
LEMMA EndedJob ==
    ASSUME NEW outcome
    PROVE  LET j == Ended(outcome)
           IN  /\ IsJob(j)
               /\ j.at = "ended" /\ j.outcome = outcome /\ j.tries = 0
               /\ j.command = "ingest" =>
                     /\ job.command = "ingest" /\ outcome \in {"ok", "refused"}
                     /\ j.config = job.config /\ j.force = job.force
               /\ j.command = "download" =>
                     /\ outcome = "failed" /\ job.stage = "download"
                     /\ j.verified = job.verified /\ j.blocked = job.blocked
  <1>1. CASE outcome \in {"ok", "refused"} /\ job.command = "ingest" /\ (job.force \/ outcome = "ok")
    BY <1>1 DEF Ended, IsJob, Field, NoJob
  <1>2. CASE outcome = "failed" /\ job.stage = "download"
    BY <1>2 DEF Ended, IsJob, Field, NoJob
  <1>3. CASE /\ ~(outcome \in {"ok", "refused"} /\ job.command = "ingest" /\ (job.force \/ outcome = "ok"))
             /\ ~(outcome = "failed" /\ job.stage = "download")
    <2>1. Ended(outcome) = [NoJob EXCEPT !.outcome = outcome]
      BY <1>3 DEF Ended
    <2> QED
      BY <2>1 DEF IsJob, Field, NoJob
  <1> QED
    BY <1>1, <1>2, <1>3

\* A job may end in any way that the results it leaves allow.
LEMMA EndingKeepsInv ==
    ASSUME PipelineInv, job.at # "ended", FilesInv',
           NEW outcome \in {"ok", "failed", "refused", "killed"}, job' = Ended(outcome),
           jobs' = jobs, faults' \in 0..MaxFaults,
           NEW c, c = job.config, NEW force, force = job.force,
           outcome = "ok" /\ job.command = "ingest" => Reached("prepare", c, force)',
           outcome = "refused" /\ job.command = "ingest" /\ job.force => FromScratch[c] = None,
           outcome = "failed" /\ job.stage = "download" /\ job.verified /\ ~job.blocked => SnapshotVerifies'
    PROVE  PipelineInv'
  <1>1. /\ IsJob(job')
        /\ job'.at = "ended" /\ job'.outcome = outcome /\ job'.tries = 0
        /\ job'.command = "ingest" =>
              /\ job.command = "ingest" /\ outcome \in {"ok", "refused"}
              /\ job'.config = job.config /\ job'.force = job.force
        /\ job'.command = "download" =>
              /\ outcome = "failed" /\ job.stage = "download"
              /\ job'.verified = job.verified /\ job'.blocked = job.blocked
    BY EndedJob
  <1>2. JobInv'
    BY <1>1, PipelineAssumption DEF PipelineInv, JobInv
  <1>3. (DownloadInv /\ NormalizeInv /\ PrepareInv /\ KeptInv /\ IngestInv)'
    BY <1>1 DEF DownloadInv, NormalizeInv, PrepareInv, KeptInv, IngestInv, Output
  <1>4. IngestionIsReproducible'
    <2>1. SUFFICES ASSUME outcome = "ok", job.command = "ingest", job'.config = c
                   PROVE  SnapshotVerifies' /\ NormalizedVerifies' /\ SplitsHere(c, force)'
      BY <1>1 DEF IngestionIsReproducible, SplitsHere
    <2> QED
      BY <2>1 DEF Reached, SnapshotHere, RowsHere
  <1>5. ForcedIngestionRecovers'
    BY <1>1 DEF ForcedIngestionRecovers
  <1>6. FailedDownloadKeepsSnapshot'
    BY <1>1 DEF FailedDownloadKeepsSnapshot
  <1> QED
    BY <1>2, <1>3, <1>4, <1>5, <1>6 DEF PipelineInv

\* A stage that is done ends the job or hands over to the next one.
LEMMA StageDoneKeepsInv ==
    ASSUME PipelineInv, job.at # "ended", FilesInv', StageDone,
           NEW c, c = job.config, NEW force, force = job.force, NEW stage, stage = job.stage,
           ~job.force => job.existed \subseteq DOMAIN files',
           job.command = "ingest" => Reached(stage, c, force)'
    PROVE  PipelineInv'
  <1>0. jobs' = jobs /\ faults' = faults /\ faults \in 0..MaxFaults
    BY DEF StageDone, Advance, PipelineInv, JobInv
  <1>1. CASE job.command # "ingest" \/ job.stage = "prepare"
    <2>1. job' = Ended("ok")
      BY <1>1 DEF StageDone, Advance
    <2> QED
      BY <1>0, <1>1, <2>1, EndingKeepsInv
  <1>2. CASE ~(job.command # "ingest" \/ job.stage = "prepare")
    <2>1. job' = [job EXCEPT !.at = "begin", !.stage = Following[stage], !.tries = 0,
                             !.held = None, !.backup = {}, !.verified = FALSE, !.blocked = FALSE]
      BY <1>2 DEF StageDone, Advance
    <2>2. IsJob(job) /\ stage \in {"download", "normalize", "analyze"}
          /\ job.config \in Config /\ job.outcome = "running"
      BY <1>2 DEF PipelineInv, JobInv, Stage
    <2>3. /\ IsJob(job') /\ job'.at = "begin" /\ job'.stage = Following[stage] /\ job'.tries = 0
          /\ job'.verified = FALSE /\ job'.backup = {} /\ job'.command = job.command
          /\ job'.config = c /\ job'.force = job.force /\ job'.existed = job.existed
          /\ job'.outcome = job.outcome
      BY <2>1, <2>2 DEF IsJob, Field
    <2>4. Following[stage] \in {"normalize", "analyze", "prepare"}
      BY <2>2 DEF Following
    <2>5. JobInv'
      BY <1>0, <2>2, <2>3, <2>4, PipelineAssumption DEF PipelineInv, JobInv, PlacesOf, Stage
    <2>6. (DownloadInv /\ NormalizeInv /\ PrepareInv)'
      BY <2>3, <2>4 DEF DownloadInv, NormalizeInv, PrepareInv, Output
    <2>7. KeptInv'
      BY <2>3, <2>4 DEF KeptInv, Output
    <2>8. IngestInv'
      <3>1. Reached(stage, c, force)'
        BY <1>2
      <3> QED
        BY <2>2, <2>3, <3>1 DEF IngestInv, Following
    <2>9. (IngestionIsReproducible /\ ForcedIngestionRecovers /\ FailedDownloadKeepsSnapshot)'
      BY <2>2, <2>3 DEF IngestionIsReproducible, ForcedIngestionRecovers, FailedDownloadKeepsSnapshot
    <2> QED
      BY <2>5, <2>6, <2>7, <2>8, <2>9 DEF PipelineInv
  <1> QED
    BY <1>1, <1>2

\* An exception ends the job or begins its task again.
LEMMA ExceptionKeepsInv ==
    ASSUME PipelineInv, job.at # "ended", FilesInv', job' = AfterException,
           jobs' = jobs, faults' \in 0..MaxFaults,
           NEW c, c = job.config, NEW force, force = job.force,
           job.stage = "download" /\ job.verified /\ ~job.blocked => SnapshotVerifies',
           ~job.force => job.existed \subseteq DOMAIN files',
           job.command = "ingest" /\ job.stage = "normalize" => Reached("download", c, force)'
    PROVE  PipelineInv'
  <1>1. CASE ~MayRetry
    <2>1. job' = Ended("failed")
      BY <1>1 DEF AfterException
    <2> QED
      BY <2>1, EndingKeepsInv
  <1>2. CASE MayRetry
    <2>1. job' = [job EXCEPT !.at = "begin", !.tries = @ + 1, !.held = None, !.backup = {}]
      BY <1>2 DEF AfterException
    <2>2. /\ IsJob(job) /\ job.stage \in {"download", "normalize"} /\ job.config \in Config
          /\ job.outcome = "running" /\ job.tries \in 0..Retries /\ job.tries < Retries
          /\ jobs \in 0..MaxJobs
      BY <1>2 DEF PipelineInv, JobInv, MayRetry
    <2>3. /\ IsJob(job') /\ job'.at = "begin" /\ job'.stage = job.stage
          /\ job'.tries = job.tries + 1 /\ job'.backup = {} /\ job'.verified = job.verified
          /\ job'.blocked = job.blocked /\ job'.command = job.command /\ job'.config = c
          /\ job'.force = job.force /\ job'.existed = job.existed /\ job'.outcome = job.outcome
      BY <2>1, <2>2 DEF IsJob, Field
    <2>4. JobInv'
      BY <2>2, <2>3, PipelineAssumption DEF JobInv, PlacesOf, Stage
    <2>5. (DownloadInv /\ NormalizeInv /\ PrepareInv)'
      BY <2>2, <2>3 DEF DownloadInv, NormalizeInv, PrepareInv, Output
    <2>6. KeptInv'
      BY <2>2, <2>3 DEF KeptInv, Output
    <2>7. IngestInv'
      BY <1>2, <2>2, <2>3 DEF IngestInv
    <2>8. (IngestionIsReproducible /\ ForcedIngestionRecovers /\ FailedDownloadKeepsSnapshot)'
      BY <2>2, <2>3 DEF IngestionIsReproducible, ForcedIngestionRecovers, FailedDownloadKeepsSnapshot
    <2> QED
      BY <2>4, <2>5, <2>6, <2>7, <2>8 DEF PipelineInv
  <1> QED
    BY <1>1, <1>2

\* So does one that loses the snapshot, of which nothing is promised any more.
LEMMA LosingKeepsInv ==
    ASSUME PipelineInv, job.at = "restore", job.stage = "download", FilesInv',
           job' = [AfterException EXCEPT !.blocked = TRUE],
           jobs' = jobs, faults' \in 0..MaxFaults,
           ~job.force => job.existed \subseteq DOMAIN files'
    PROVE  PipelineInv'
  <1>1. /\ IsJob(job) /\ job.config \in Config /\ job.outcome = "running"
        /\ job.tries \in 0..Retries /\ jobs \in 0..MaxJobs
    BY DEF PipelineInv, JobInv
  <1>2. CASE ~MayRetry
    <2>1. /\ IsJob(Ended("failed")) /\ Ended("failed").at = "ended"
          /\ Ended("failed").outcome = "failed" /\ Ended("failed").tries = 0
          /\ Ended("failed").command # "ingest"
      BY EndedJob
    <2>2. job' = [Ended("failed") EXCEPT !.blocked = TRUE]
      BY <1>2 DEF AfterException
    <2>3. /\ IsJob(job') /\ job'.at = "ended" /\ job'.outcome = "failed" /\ job'.tries = 0
          /\ job'.command # "ingest" /\ job'.blocked = TRUE
      BY <2>1, <2>2 DEF IsJob, Field
    <2>4. JobInv'
      BY <1>1, <2>3, PipelineAssumption DEF JobInv
    <2>5. (DownloadInv /\ NormalizeInv /\ PrepareInv /\ KeptInv /\ IngestInv)'
      BY <2>3 DEF DownloadInv, NormalizeInv, PrepareInv, KeptInv, IngestInv, Output
    <2>6. (IngestionIsReproducible /\ ForcedIngestionRecovers /\ FailedDownloadKeepsSnapshot)'
      BY <2>3 DEF IngestionIsReproducible, ForcedIngestionRecovers, FailedDownloadKeepsSnapshot
    <2> QED
      BY <2>4, <2>5, <2>6 DEF PipelineInv
  <1>3. CASE MayRetry
    <2>1. job' = [job EXCEPT !.at = "begin", !.tries = @ + 1, !.held = None, !.backup = {},
                             !.blocked = TRUE]
      BY <1>1, <1>3 DEF AfterException, IsJob, Field
    <2>2. /\ IsJob(job') /\ job'.at = "begin" /\ job'.stage = "download"
          /\ job'.tries = job.tries + 1 /\ job'.backup = {} /\ job'.blocked = TRUE
          /\ job'.config = job.config /\ job'.force = job.force
          /\ job'.existed = job.existed /\ job'.outcome = "running"
      BY <1>1, <2>1 DEF IsJob, Field
    <2>3. JobInv'
      BY <1>1, <1>3, <2>2, PipelineAssumption DEF MayRetry, JobInv, PlacesOf, Stage
    <2>4. (DownloadInv /\ NormalizeInv /\ PrepareInv /\ IngestInv)'
      BY <2>2 DEF DownloadInv, NormalizeInv, PrepareInv, IngestInv, Output
    <2>5. KeptInv'
      BY <2>2 DEF KeptInv, Output
    <2>6. (IngestionIsReproducible /\ ForcedIngestionRecovers /\ FailedDownloadKeepsSnapshot)'
      BY <2>2 DEF IngestionIsReproducible, ForcedIngestionRecovers, FailedDownloadKeepsSnapshot
    <2> QED
      BY <2>3, <2>4, <2>5, <2>6 DEF PipelineInv
  <1> QED
    BY <1>2, <1>3

\* What is said of the files alone stays true while they stay.
LEMMA SameFiles ==
    ASSUME UNCHANGED files
    PROVE  /\ FilesInv => FilesInv'
           /\ SnapshotVerifies => SnapshotVerifies'
           /\ \A stage, c, force : Reached(stage, c, force) => Reached(stage, c, force)'
  BY DEF FilesInv, SnapshotVerifies, Reached, SnapshotHere, RowsHere, SelectionHere, SplitsHere,
         NormalizedVerifies, OutputsVerify, Present, Holds, HonestNormalization, HonestSplits, MadeUnder

\* An exception that changes no file, at a place from which a task is begun again.
LEMMA RaisingKeepsInv ==
    ASSUME PipelineInv, job.at # "ended", Raises, job.stage = "download" => job.at = "begin"
    PROVE  PipelineInv'
  <1>1. /\ job' = AfterException /\ jobs' = jobs /\ UNCHANGED files
        /\ faults < MaxFaults /\ faults' = faults + 1 /\ faults \in 0..MaxFaults
    BY DEF Raises, Break, PipelineInv, JobInv
  <1>2. faults' \in 0..MaxFaults
    BY <1>1, PipelineAssumption
  <1>3. FilesInv' /\ (SnapshotVerifies => SnapshotVerifies')
        /\ \A stage, c, force : Reached(stage, c, force) => Reached(stage, c, force)'
    BY <1>1, SameFiles DEF PipelineInv
  <1>4. job.stage = "download" /\ job.verified /\ ~job.blocked => SnapshotVerifies
    BY DEF PipelineInv, DownloadInv
  <1>5. ~job.force => job.existed \subseteq DOMAIN files'
    BY <1>1 DEF PipelineInv, KeptInv
  <1>6. ASSUME NEW c, c = job.config, NEW force, force = job.force,
               job.command = "ingest", job.stage = "normalize"
        PROVE  Reached("download", c, force)'
    BY <1>3, <1>6 DEF PipelineInv, IngestInv
  <1> QED
    BY <1>1, <1>2, <1>3, <1>4, <1>5, <1>6, ExceptionKeepsInv

\* A check that says no is allowed to, if a forced ingestion meets none that the data
\* itself does not explain.
LEMMA RefusalKeepsInv ==
    ASSUME PipelineInv, job.at # "ended", Refuse,
           job.command = "ingest" /\ job.force => FromScratch[job.config] = None
    PROVE  PipelineInv'
  <1>1. job' = Ended("refused") /\ jobs' = jobs /\ faults' = faults /\ UNCHANGED files
    BY DEF Refuse, Advance
  <1>2. FilesInv' /\ faults \in 0..MaxFaults
    BY <1>1, SameFiles DEF PipelineInv, JobInv
  <1> QED
    BY <1>1, <1>2, EndingKeepsInv

\* A job that goes on in its stage, with the fields a download changes.
LEMMA GoingOn ==
    ASSUME IsJob(job), NEW at, NEW held, NEW backup, NEW blocked,
           job' = [job EXCEPT !.at = at, !.held = held, !.backup = backup, !.blocked = blocked]
    PROVE  /\ IsJob(job') /\ job'.at = at /\ job'.held = held /\ job'.backup = backup
           /\ job'.blocked = blocked /\ job'.stage = job.stage /\ job'.tries = job.tries
           /\ job'.verified = job.verified /\ job'.command = job.command
           /\ job'.config = job.config /\ job'.force = job.force
           /\ job'.existed = job.existed /\ job'.outcome = job.outcome
  BY DEF IsJob, Field

LEMMA GoingTo ==
    ASSUME IsJob(job), NEW at, job' = [job EXCEPT !.at = at]
    PROVE  job' = [job EXCEPT !.at = at, !.held = job.held, !.backup = job.backup,
                              !.blocked = job.blocked]
  BY DEF IsJob, Field

\* The parts of the invariant that a job leaves alone that goes on in its stage.
LEMMA GoingOnKeepsInv ==
    ASSUME PipelineInv, job.at # "ended", FilesInv',
           NEW at, NEW held, NEW backup, NEW blocked,
           job' = [job EXCEPT !.at = at, !.held = held, !.backup = backup, !.blocked = blocked],
           at \in PlacesOf[job.stage], jobs' = jobs, faults' \in 0..MaxFaults,
           DownloadInv', NormalizeInv', PrepareInv', KeptInv', IngestInv'
    PROVE  PipelineInv'
  <1>1. IsJob(job) /\ job.stage \in Stage /\ job.config \in Config /\ job.outcome = "running"
    BY DEF PipelineInv, JobInv
  <1>2. /\ IsJob(job') /\ job'.at = at /\ job'.stage = job.stage /\ job'.tries = job.tries
        /\ job'.config = job.config /\ job'.outcome = job.outcome
    BY <1>1, GoingOn
  <1>3. at # "ended"
    BY <1>1 DEF PlacesOf, Stage, Output
  <1>4. JobInv'
    BY <1>1, <1>2, <1>3 DEF PipelineInv, JobInv
  <1>5. (IngestionIsReproducible /\ ForcedIngestionRecovers /\ FailedDownloadKeepsSnapshot)'
    BY <1>1, <1>2 DEF IngestionIsReproducible, ForcedIngestionRecovers, FailedDownloadKeepsSnapshot
  <1> QED
    BY <1>4, <1>5 DEF PipelineInv

-----------------------------------------------------------------------------
\* Downloads.

\* The rest of the invariant says nothing of a download that has begun.
LEMMA DownloadGoesOn ==
    ASSUME PipelineInv, job.at # "ended", job.stage = "download", FilesInv',
           NEW at, NEW held, NEW backup, NEW blocked,
           job' = [job EXCEPT !.at = at, !.held = held, !.backup = backup, !.blocked = blocked],
           at \in PlacesOf["download"], jobs' = jobs, faults' \in 0..MaxFaults, DownloadInv',
           ~job.force => /\ job.existed \subseteq DOMAIN files'
                         /\ at # "begin" => job.existed \cap {"source", "raw_manifest"} = {}
    PROVE  PipelineInv'
  <1>1. IsJob(job)
    BY DEF PipelineInv, JobInv
  <1>2. /\ job'.at = at /\ job'.stage = "download" /\ job'.command = job.command
        /\ job'.force = job.force /\ job'.existed = job.existed
    BY <1>1, GoingOn
  <1>3. at \notin {"written", "manifest", "reports"} \cup Output
    BY DEF PlacesOf, Output
  <1>4. (NormalizeInv /\ PrepareInv /\ KeptInv /\ IngestInv)'
    BY <1>2, <1>3 DEF NormalizeInv, PrepareInv, KeptInv, IngestInv
  <1> QED
    BY <1>4, GoingOnKeepsInv

LEMMA ReuseSnapshotKeepsInv == ASSUME PipelineInv, ReuseSnapshot PROVE PipelineInv'
  <1>1. job.at # "ended" /\ job.stage = "download" /\ RawCacheValid /\ StageDone /\ UNCHANGED files
    BY DEF ReuseSnapshot, InStage
  <1>2. FilesInv' /\ \A stage, c, force : Reached(stage, c, force) => Reached(stage, c, force)'
    BY <1>1, SameFiles DEF PipelineInv
  <1>3. Reached("download", job.config, job.force)
    BY <1>1 DEF Reached, SnapshotHere, RawCacheValid
  <1>4. ~job.force => job.existed \subseteq DOMAIN files'
    BY <1>1 DEF PipelineInv, KeptInv
  <1> QED
    BY <1>1, <1>2, <1>3, <1>4, StageDoneKeepsInv

LEMMA RefuseDownloadKeepsInv == ASSUME PipelineInv, RefuseDownload PROVE PipelineInv'
  BY RefusalKeepsInv DEF RefuseDownload, InStage

\* What a download without --force fetches was not there when it began.
LEMMA FetchedIsNew ==
    ASSUME PipelineInv, InStage("download", "begin"), MayFetch, ~job.force
    PROVE  job.existed \subseteq DOMAIN files /\ job.existed \cap {"source", "raw_manifest"} = {}
  BY DEF PipelineInv, KeptInv, InStage, MayFetch, Present

LEMMA FetchSnapshotKeepsInv == ASSUME PipelineInv, FetchSnapshot PROVE PipelineInv'
  <1>1. CASE Raises
    BY <1>1, RaisingKeepsInv DEF FetchSnapshot, InStage
  <1>2. CASE /\ Advance([job EXCEPT !.at = "fetched", !.held = Snapshot(job.config.revision)])
             /\ UNCHANGED files
    <2> DEFINE new == Snapshot(job.config.revision)
    <2>1. /\ job.at = "begin" /\ job.stage = "download" /\ UNCHANGED <<files, jobs, faults>>
          /\ IsJob(job) /\ faults \in 0..MaxFaults /\ FilesInv /\ job.config \in Config
      BY <1>2 DEF FetchSnapshot, InStage, Advance, PipelineInv, JobInv
    <2>2. job' = [job EXCEPT !.at = "fetched", !.held = new, !.backup = job.backup,
                             !.blocked = job.blocked]
      BY <1>2, <2>1 DEF Advance, IsJob, Field
    <2>3. FilesInv' /\ (SnapshotVerifies => SnapshotVerifies')
      BY <2>1, SameFiles
    <2>4. /\ job'.at = "fetched" /\ job'.held = new /\ job'.backup = job.backup
          /\ job'.blocked = job.blocked /\ job'.verified = job.verified /\ job'.config = job.config
      BY <2>1, <2>2 DEF IsJob, Field
    <2>5. DownloadInv'
      <3>1. /\ job.backup \subseteq SnapshotType
            /\ job.verified /\ ~job.blocked => SnapshotVerifies
        BY <2>1 DEF PipelineInv, DownloadInv
      <3> QED
        BY <2>1, <2>3, <2>4, <3>1 DEF DownloadInv
    <2> QED
      BY <2>1, <2>2, <2>3, <2>5, FetchedIsNew, DownloadGoesOn DEF FetchSnapshot, PlacesOf, InStage
  <1> QED
    BY <1>1, <1>2 DEF FetchSnapshot

\* What a write and a removal change.
LEMMA PutFile ==
    ASSUME NEW f, NEW value, Put(f, value)
    PROVE  /\ DOMAIN files' = DOMAIN files \cup {f} /\ files'[f] = value
           /\ \A g \in DOMAIN files : g # f => files'[g] = files[g]
  BY DEF Put

LEMMA RemoveFile ==
    ASSUME NEW f, Remove(f)
    PROVE  /\ DOMAIN files' = DOMAIN files \ {f}
           /\ \A g \in DOMAIN files' : files'[g] = files[g]
  BY DEF Remove

\* While a snapshot is replaced nothing but the source changes.
LEMMA SourceChanges ==
    ASSUME FilesInv, Remove("source") \/ \E value \in SnapshotType : Put("source", value)
    PROVE  /\ FilesInv'
           /\ DOMAIN files \ {"source"} \subseteq DOMAIN files'
           /\ Present("raw_manifest") =>
                 Present("raw_manifest")' /\ files'["raw_manifest"] = files["raw_manifest"]
  <1>1. /\ DOMAIN files \ {"source"} = DOMAIN files' \ {"source"}
        /\ \A g \in DOMAIN files : g # "source" => files'[g] = files[g]
        /\ "source" \in DOMAIN files' => files'["source"] \in SnapshotType
    <2>1. CASE Remove("source")
      BY <2>1, RemoveFile
    <2>2. CASE \E value \in SnapshotType : Put("source", value)
      BY <2>2, PutFile
    <2> QED
      BY <2>1, <2>2
  <1>2. FilesInv'
    BY <1>1 DEF FilesInv, Present, FileName, Output, HonestNormalization, HonestSplits, MadeUnder
  <1> QED
    BY <1>1, <1>2 DEF Present

\* The files that a running download without --force does not touch.
LEMMA UntouchedByDownload ==
    ASSUME PipelineInv, job.at # "ended", job.stage = "download", job.at # "begin", ~job.force,
           DOMAIN files \ {"source"} \subseteq DOMAIN files'
    PROVE  job.existed \subseteq DOMAIN files' /\ job.existed \cap {"source", "raw_manifest"} = {}
  BY DEF PipelineInv, KeptInv

LEMMA DownloadFacts ==
    ASSUME PipelineInv, job.at # "ended", job.stage = "download"
    PROVE  /\ IsJob(job) /\ FilesInv /\ job.config \in Config /\ faults \in 0..MaxFaults
           /\ job.backup \subseteq SnapshotType
           /\ Snapshot(job.config.revision) \in SnapshotType
           /\ BrokenSnapshot(job.config.revision) \in SnapshotType
  BY PipelineAssumption DEF PipelineInv, JobInv, DownloadInv, Snapshot, BrokenSnapshot, SnapshotType

LEMMA SetAsideSnapshotKeepsInv == ASSUME PipelineInv, SetAsideSnapshot PROVE PipelineInv'
  <1> DEFINE old == {files[f] : f \in DOMAIN files \cap {"source"}}
  <1>1. /\ job.at = "fetched" /\ job.stage = "download" /\ Remove("source")
        /\ jobs' = jobs /\ faults' = faults
        /\ job' = [job EXCEPT !.at = "aside", !.backup = old]
    BY DEF SetAsideSnapshot, InStage, Advance
  <1>2. IsJob(job) /\ FilesInv /\ faults \in 0..MaxFaults
    BY <1>1, DownloadFacts
  <1>3. job' = [job EXCEPT !.at = "aside", !.held = job.held, !.backup = old, !.blocked = job.blocked]
    BY <1>1, <1>2 DEF IsJob, Field
  <1>4. /\ FilesInv' /\ DOMAIN files \ {"source"} \subseteq DOMAIN files'
        /\ Present("raw_manifest") =>
              Present("raw_manifest")' /\ files'["raw_manifest"] = files["raw_manifest"]
    BY <1>1, <1>2, SourceChanges
  <1>5. /\ job'.at = "aside" /\ job'.held = job.held /\ job'.backup = old
        /\ job'.blocked = job.blocked /\ job'.verified = job.verified /\ job'.config = job.config
    BY <1>1, <1>2 DEF IsJob, Field
  <1>6. DownloadInv'
    <2>1. old \subseteq SnapshotType
      BY <1>2 DEF FilesInv, Present
    <2>2. SnapshotVerifies => Present("raw_manifest") /\ old = {files["raw_manifest"].content}
      BY DEF SnapshotVerifies, Holds, Present
    <2>3. /\ job.held = Snapshot(job.config.revision)
          /\ job.verified /\ ~job.blocked => SnapshotVerifies
      BY <1>1 DEF PipelineInv, DownloadInv
    <2> QED
      BY <1>4, <1>5, <2>1, <2>2, <2>3 DEF DownloadInv
  <1>7. ~job.force => /\ job.existed \subseteq DOMAIN files'
                      /\ job.existed \cap {"source", "raw_manifest"} = {}
    BY <1>1, <1>4, UntouchedByDownload
  <1>8. "aside" \in PlacesOf["download"] /\ faults' \in 0..MaxFaults /\ job.at # "ended"
    BY <1>1, <1>2 DEF PlacesOf
  <1>9. FilesInv' /\ job.stage = "download" /\ jobs' = jobs
    BY <1>1, <1>4
  <1> QED
    BY <1>3, <1>6, <1>7, <1>8, <1>9, DownloadGoesOn

\* Once the old files are aside, the manifest and the backup stay until they are back.
LEMMA AsideGoesOn ==
    ASSUME PipelineInv, job.stage = "download",
           job.at \in {"aside", "copying", "placed", "rollback", "restore"},
           NEW at \in {"copying", "placed", "rollback", "restore"},
           job' = [job EXCEPT !.at = at],
           UNCHANGED files \/ Remove("source") \/ \E value \in SnapshotType : Put("source", value),
           at \in {"copying", "placed"} => job.at \in {"aside", "copying"},
           at = "placed" => Put("source", job.held),
           jobs' = jobs, faults' \in 0..MaxFaults
    PROVE  PipelineInv'
  <1>1. IsJob(job) /\ FilesInv /\ job.backup \subseteq SnapshotType /\ job.at # "ended"
    BY DownloadFacts
  <1>2. /\ FilesInv' /\ DOMAIN files \ {"source"} \subseteq DOMAIN files'
        /\ Present("raw_manifest") =>
              Present("raw_manifest")' /\ files'["raw_manifest"] = files["raw_manifest"]
    <2>1. CASE UNCHANGED files
      BY <1>1, <2>1, SameFiles DEF Present
    <2>2. CASE Remove("source") \/ \E value \in SnapshotType : Put("source", value)
      BY <1>1, <2>2, SourceChanges
    <2> QED
      BY <2>1, <2>2
  <1>3. job' = [job EXCEPT !.at = at, !.held = job.held, !.backup = job.backup, !.blocked = job.blocked]
    BY <1>1, GoingTo
  <1>4. /\ job'.at = at /\ job'.held = job.held /\ job'.backup = job.backup
        /\ job'.blocked = job.blocked /\ job'.verified = job.verified /\ job'.config = job.config
    BY <1>1 DEF IsJob, Field
  <1>5. DownloadInv'
    <2>1. /\ job.at \in {"aside", "copying"} => job.held = Snapshot(job.config.revision)
          /\ job.verified /\ ~job.blocked =>
                Present("raw_manifest") /\ job.backup = {files["raw_manifest"].content}
      BY <1>1 DEF PipelineInv, DownloadInv
    <2>2. at = "placed" => Holds("source", job.held)'
      <3>1. ASSUME Put("source", job.held) PROVE "source" \in DOMAIN files' /\ files'["source"] = job.held
        BY <3>1, PutFile
      <3> QED
        BY <1>4, <3>1 DEF Holds, Present
    <2> QED
      BY <1>1, <1>2, <1>4, <2>1, <2>2 DEF DownloadInv
  <1>6. at \in PlacesOf["download"]
    BY DEF PlacesOf
  <1>7. ~job.force => /\ job.existed \subseteq DOMAIN files'
                      /\ job.existed \cap {"source", "raw_manifest"} = {}
    BY <1>1, <1>2, UntouchedByDownload
  <1>8. /\ FilesInv' /\ job.at # "ended" /\ job.stage = "download" /\ PipelineInv
        /\ jobs' = jobs /\ faults' \in 0..MaxFaults
    BY <1>1, <1>2
  <1> QED
    BY ONLY <1>3, <1>5, <1>6, <1>7, <1>8, DownloadGoesOn

\* An exception inside the replacement goes to its except branch.
LEMMA RollsBackKeepsInv ==
    ASSUME PipelineInv, job.stage = "download", job.at \in {"aside", "copying", "placed"}, RollsBack
    PROVE  PipelineInv'
  <1>1. /\ job' = [job EXCEPT !.at = "rollback"] /\ UNCHANGED files /\ jobs' = jobs
        /\ faults < MaxFaults /\ faults' = faults + 1 /\ faults \in 0..MaxFaults
    BY DEF RollsBack, Break, PipelineInv, JobInv
  <1>2. faults' \in 0..MaxFaults
    BY <1>1, PipelineAssumption
  <1> QED
    BY <1>1, <1>2, AsideGoesOn

LEMMA MoveSnapshotInKeepsInv == ASSUME PipelineInv, MoveSnapshotIn PROVE PipelineInv'
  <1>1. job.at = "aside" /\ job.stage = "download" /\ job.at # "ended"
    BY DEF MoveSnapshotIn, InStage
  <1>2. /\ job.held = Snapshot(job.config.revision) /\ faults \in 0..MaxFaults
        /\ job.held \in SnapshotType
        /\ BrokenSnapshot(job.held.revision) \in SnapshotType
    <2>1. job.held = Snapshot(job.config.revision)
      BY <1>1 DEF PipelineInv, DownloadInv
    <2>2. job.config.revision = job.held.revision
      BY <2>1 DEF Snapshot
    <2> QED
      BY <1>1, <2>1, <2>2, DownloadFacts
  <1>3. CASE GoTo("placed") /\ Put("source", job.held)
    BY <1>1, <1>2, <1>3, AsideGoesOn DEF GoTo, Advance
  <1>4. CASE GoTo("copying") /\ Put("source", BrokenSnapshot(job.held.revision))
    BY <1>1, <1>2, <1>4, AsideGoesOn DEF GoTo, Advance
  <1>5. CASE RollsBack
    BY <1>1, <1>5, RollsBackKeepsInv
  <1> QED
    BY <1>3, <1>4, <1>5 DEF MoveSnapshotIn

LEMMA FinishCopyKeepsInv == ASSUME PipelineInv, FinishCopy PROVE PipelineInv'
  <1>1. job.at = "copying" /\ job.stage = "download" /\ job.at # "ended"
    BY DEF FinishCopy, InStage
  <1>2. job.held \in SnapshotType /\ faults \in 0..MaxFaults
    BY <1>1, DownloadFacts DEF PipelineInv, DownloadInv
  <1>3. CASE GoTo("placed") /\ Put("source", job.held)
    BY <1>1, <1>2, <1>3, AsideGoesOn DEF GoTo, Advance
  <1>4. CASE RollsBack
    BY <1>1, <1>4, RollsBackKeepsInv
  <1> QED
    BY <1>3, <1>4 DEF FinishCopy

LEMMA RollbackRemoveKeepsInv == ASSUME PipelineInv, RollbackRemove PROVE PipelineInv'
  <1>1. job.at = "rollback" /\ job.stage = "download" /\ job.at # "ended"
    BY DEF RollbackRemove, InStage
  <1>2. FilesInv /\ faults \in 0..MaxFaults
    BY <1>1, DownloadFacts
  <1>3. CASE GoTo("restore") /\ Remove("source")
    BY <1>1, <1>2, <1>3, AsideGoesOn DEF GoTo, Advance
  <1>4. CASE /\ Present("source")
             /\ Break([job EXCEPT !.at = "restore"])
             /\ \E left \in {files["source"], BrokenSnapshot(files["source"].revision)} :
                   Put("source", left)
    <2>1. /\ job' = [job EXCEPT !.at = "restore"] /\ jobs' = jobs
          /\ faults < MaxFaults /\ faults' = faults + 1
      BY <1>4 DEF Break
    <2>2. faults' \in 0..MaxFaults
      BY <1>2, <2>1, PipelineAssumption
    <2>3. {files["source"], BrokenSnapshot(files["source"].revision)} \subseteq SnapshotType
      BY <1>2, <1>4 DEF FilesInv, BrokenSnapshot, SnapshotType
    <2>4. \E value \in SnapshotType : Put("source", value)
      BY <1>4, <2>3
    <2> QED
      BY <1>1, <2>1, <2>2, <2>4, AsideGoesOn
  <1> QED
    BY <1>3, <1>4 DEF RollbackRemove

\* The first rename of the replacement raises.
LEMMA SetAsideFailsKeepsInv == ASSUME PipelineInv, SetAsideFails PROVE PipelineInv'
  <1>1. /\ job.at = "fetched" /\ job.stage = "download" /\ job.at # "ended"
        /\ job' = [job EXCEPT !.at = "rollback", !.blocked = TRUE]
        /\ jobs' = jobs /\ UNCHANGED files
        /\ faults < MaxFaults /\ faults' = faults + 1
    BY DEF SetAsideFails, InStage, Break
  <1>2. IsJob(job) /\ FilesInv /\ faults \in 0..MaxFaults /\ job.backup \subseteq SnapshotType
    BY <1>1, DownloadFacts
  <1>3. job' = [job EXCEPT !.at = "rollback", !.held = job.held, !.backup = job.backup, !.blocked = TRUE]
    BY <1>1, <1>2 DEF IsJob, Field
  <1>4. job'.at = "rollback" /\ job'.backup = job.backup /\ job'.blocked = TRUE
    BY <1>1, <1>2 DEF IsJob, Field
  <1>5. DownloadInv'
    BY <1>2, <1>4 DEF DownloadInv
  <1>6. ~job.force => /\ job.existed \subseteq DOMAIN files'
                      /\ job.existed \cap {"source", "raw_manifest"} = {}
    BY <1>1, UntouchedByDownload
  <1>7. "rollback" \in PlacesOf["download"] /\ faults' \in 0..MaxFaults
    BY <1>1, <1>2, PipelineAssumption DEF PlacesOf
  <1>8. FilesInv' /\ job.at # "ended" /\ job.stage = "download" /\ jobs' = jobs
    BY <1>1, <1>2, SameFiles
  <1> QED
    BY <1>3, <1>5, <1>6, <1>7, <1>8, DownloadGoesOn

LEMMA RollbackRestoreKeepsInv == ASSUME PipelineInv, RollbackRestore PROVE PipelineInv'
  <1>1. /\ job.at = "restore" /\ job.stage = "download" /\ job.at # "ended"
        /\ job' = AfterException /\ jobs' = jobs /\ faults' = faults
    BY DEF RollbackRestore, InStage, Advance
  <1>2. /\ FilesInv /\ faults \in 0..MaxFaults /\ job.backup \subseteq SnapshotType
        /\ job.verified /\ ~job.blocked =>
              Present("raw_manifest") /\ job.backup = {files["raw_manifest"].content}
    BY <1>1, DownloadFacts DEF PipelineInv, DownloadInv
  <1>3. /\ FilesInv' /\ DOMAIN files \ {"source"} \subseteq DOMAIN files'
        /\ job.verified /\ ~job.blocked => SnapshotVerifies'
    <2>1. CASE job.backup = {}
      <3>1. UNCHANGED files
        BY <2>1 DEF RollbackRestore
      <3> QED
        BY <1>2, <2>1, <3>1, SameFiles
    <2>2. CASE job.backup # {}
      <3>1. PICK snapshot \in job.backup : Put("source", snapshot)
        BY <2>2 DEF RollbackRestore
      <3>2. "source" \in DOMAIN files' /\ files'["source"] = snapshot
        BY <3>1 DEF Put
      <3>3. /\ FilesInv' /\ DOMAIN files \ {"source"} \subseteq DOMAIN files'
            /\ Present("raw_manifest") =>
                  Present("raw_manifest")' /\ files'["raw_manifest"] = files["raw_manifest"]
        <4>1. \E value \in SnapshotType : Put("source", value)
          BY <1>2, <3>1
        <4> QED
          BY <1>2, <4>1, SourceChanges
      <3> QED
        BY <1>2, <3>2, <3>3 DEF SnapshotVerifies, Holds, Present
    <2> QED
      BY <2>1, <2>2
  <1>4. ~job.force => job.existed \subseteq DOMAIN files'
    BY <1>1, <1>3, UntouchedByDownload
  <1> QED
    BY <1>1, <1>2, <1>3, <1>4, ExceptionKeepsInv

\* Files that cannot be given back count as lost.
LEMMA RestoreFailsKeepsInv == ASSUME PipelineInv, RestoreFails PROVE PipelineInv'
  <1>1. /\ job.at = "restore" /\ job.stage = "download" /\ job.at # "ended"
        /\ job' = [AfterException EXCEPT !.blocked = TRUE]
        /\ jobs' = jobs /\ UNCHANGED files
    BY DEF RestoreFails, InStage, Advance, Break
  <1>2. faults' \in 0..MaxFaults
    BY PipelineAssumption DEF RestoreFails, Advance, Break, PipelineInv, JobInv
  <1>3. FilesInv' /\ IsJob(job)
    BY <1>1, SameFiles DEF PipelineInv, JobInv
  <1>4. ~job.force => job.existed \subseteq DOMAIN files'
    BY <1>1 DEF PipelineInv, KeptInv
  <1> QED
    BY <1>1, <1>2, <1>3, <1>4, LosingKeepsInv

LEMMA WriteRawManifestKeepsInv == ASSUME PipelineInv, WriteRawManifest PROVE PipelineInv'
  <1>1. job.at = "placed" /\ job.stage = "download" /\ job.at # "ended"
    BY DEF WriteRawManifest, InStage
  <1>2. CASE RollsBack
    BY <1>1, <1>2, RollsBackKeepsInv
  <1>3. CASE Put("raw_manifest", RawManifest(job.config, job.held)) /\ StageDone
    <2> DEFINE new == RawManifest(job.config, job.held)
    <2>1. FilesInv /\ job.config \in Config
      BY <1>1, DownloadFacts
    <2>2. job.held = Snapshot(job.config.revision) /\ Holds("source", job.held)
      BY <1>1 DEF PipelineInv, DownloadInv
    <2>3. new.configuration = ConfigurationHash(job.config) /\ new.content = job.held
      BY DEF RawManifest
    <2>4. /\ DOMAIN files' = DOMAIN files \cup {"raw_manifest"} /\ files'["raw_manifest"] = new
          /\ \A g \in DOMAIN files : g # "raw_manifest" => files'[g] = files[g]
      BY <1>3, PutFile
    <2> HIDE DEF new
    <2>5. FilesInv'
      BY <2>1, <2>2, <2>3, <2>4, HashOfSettings
      DEF FilesInv, Present, FileName, Output, HonestNormalization, HonestSplits, MadeUnder
    <2>6. ASSUME NEW c, c = job.config, NEW force, force = job.force PROVE Reached("download", c, force)'
      BY <2>2, <2>3, <2>4, <2>6 DEF Reached, SnapshotHere, SnapshotVerifies, Holds, Present
    <2>7. ~job.force => job.existed \subseteq DOMAIN files'
      BY <1>1, <2>4 DEF PipelineInv, KeptInv
    <2> QED
      BY <1>1, <1>3, <2>5, <2>6, <2>7, StageDoneKeepsInv
  <1> QED
    BY <1>2, <1>3 DEF WriteRawManifest

LEMMA DownloadKeepsInv == ASSUME PipelineInv, Download PROVE PipelineInv'
  BY ReuseSnapshotKeepsInv, RefuseDownloadKeepsInv, FetchSnapshotKeepsInv, SetAsideSnapshotKeepsInv,
     SetAsideFailsKeepsInv, MoveSnapshotInKeepsInv, FinishCopyKeepsInv, WriteRawManifestKeepsInv,
     RollbackRemoveKeepsInv, RollbackRestoreKeepsInv, RestoreFailsKeepsInv DEF Download

-----------------------------------------------------------------------------
\* Normalisations.

LEMMA NormalizeFacts ==
    ASSUME PipelineInv, job.at # "ended", job.stage = "normalize"
    PROVE  /\ IsJob(job) /\ FilesInv /\ job.config \in Config /\ faults \in 0..MaxFaults
           /\ job.command = "ingest" => Reached("download", job.config, job.force)
           /\ ~job.force => job.existed \subseteq DOMAIN files
  BY DEF PipelineInv, JobInv, IngestInv, KeptInv

LEMMA ReuseNormalizedKeepsInv == ASSUME PipelineInv, ReuseNormalized PROVE PipelineInv'
  <1>1. /\ job.at # "ended" /\ job.stage = "normalize" /\ StageDone /\ UNCHANGED files
        /\ BothNormalized /\ NormalizationCacheValid
    BY DEF ReuseNormalized, InStage
  <1>2. FilesInv' /\ \A stage, c, force : Reached(stage, c, force) => Reached(stage, c, force)'
    BY <1>1, SameFiles DEF PipelineInv
  <1>3. ASSUME job.command = "ingest" PROVE Reached("normalize", job.config, job.force)
    <2>1. SnapshotHere(job.config)
      BY <1>1, <1>3, NormalizeFacts DEF Reached
    <2>2. HonestNormalization(files["normalization_manifest"])
      BY <1>1 DEF PipelineInv, FilesInv, BothNormalized
    <2>3. RowsHere(job.config)
      BY <1>1, <2>1, <2>2, HashOfSettings, NormalizeFacts
      DEF RowsHere, SnapshotHere, HonestNormalization, NormalizationCacheValid, BothNormalized,
          NormalizedVerifies, Holds, DataOf
    <2> QED
      BY <2>1, <2>3 DEF Reached
  <1>4. ~job.force => job.existed \subseteq DOMAIN files'
    BY <1>1, NormalizeFacts
  <1> QED
    BY <1>1, <1>2, <1>3, <1>4, StageDoneKeepsInv

LEMMA RefuseNormalizeKeepsInv == ASSUME PipelineInv, RefuseNormalize PROVE PipelineInv'
  <1>1. job.at # "ended" /\ job.stage = "normalize" /\ Refuse /\ ~MayNormalize
    BY DEF RefuseNormalize, InStage
  <1>2. job.command = "ingest" => SnapshotVerifies
    BY <1>1, NormalizeFacts DEF Reached, SnapshotHere
  <1>3. ~(job.command = "ingest" /\ job.force)
    BY <1>1, <1>2 DEF MayNormalize
  <1> QED
    BY <1>1, <1>3, RefusalKeepsInv

\* The source that is normalised is the snapshot its manifest names.
LEMMA NormalizedIsData ==
    ASSUME FilesInv, SnapshotVerifies, NEW c \in Config
    PROVE  LET output == Normalized(files["source"], c.language)
           IN  /\ Present("raw_manifest")
               /\ output = [revision |-> files["raw_manifest"].configuration.revision, language |-> c.language]
               /\ output \in NormalizedData
  <1>1. /\ Present("raw_manifest") /\ files["raw_manifest"].configuration \in Configuration
        /\ files["source"] = Snapshot(files["raw_manifest"].configuration.revision)
    BY DEF FilesInv, SnapshotVerifies, Holds
  <1>2. files["source"].revision = files["raw_manifest"].configuration.revision
    BY <1>1 DEF Snapshot
  <1> QED
    BY <1>1, <1>2, RevisionsOfConfigurations DEF Normalized, NormalizedData

LEMMA WriteNormalizedKeepsInv == ASSUME PipelineInv, WriteNormalized PROVE PipelineInv'
  <1> DEFINE output == Normalized(files["source"], job.config.language)
  <1>1. /\ job.at = "begin" /\ job.at # "ended" /\ job.stage = "normalize" /\ MayNormalize
    BY DEF WriteNormalized, InStage
  <1>2. CASE Raises
    BY <1>1, <1>2, RaisingKeepsInv
  <1>3. CASE Advance([job EXCEPT !.at = "written", !.held = output]) /\ Put("normalized", output)
    <2>1. /\ IsJob(job) /\ FilesInv /\ job.config \in Config /\ faults \in 0..MaxFaults
          /\ job.command = "ingest" => Reached("download", job.config, job.force)
          /\ ~job.force => job.existed \subseteq DOMAIN files
      BY <1>1, NormalizeFacts
    <2>2. /\ Present("raw_manifest") /\ output \in NormalizedData
          /\ output = [revision |-> files["raw_manifest"].configuration.revision,
                       language |-> job.config.language]
      BY <1>1, <2>1, NormalizedIsData DEF MayNormalize
    <2>3. ~job.force => NothingNormalized
      BY <1>1 DEF MayNormalize
    <2> HIDE DEF output
    <2>4. /\ job' = [job EXCEPT !.at = "written", !.held = output]
          /\ jobs' = jobs /\ faults' = faults
          /\ DOMAIN files' = DOMAIN files \cup {"normalized"} /\ files'["normalized"] = output
          /\ \A g \in DOMAIN files : g # "normalized" => files'[g] = files[g]
      BY <1>3, PutFile DEF Advance
    <2>5. /\ job' = [job EXCEPT !.at = "written", !.held = output, !.backup = job.backup,
                                !.blocked = job.blocked]
          /\ job'.at = "written" /\ job'.held = output /\ job'.stage = "normalize"
          /\ job'.config = job.config /\ job'.command = job.command
          /\ job'.force = job.force /\ job'.existed = job.existed
      BY <1>1, <2>1, <2>4 DEF IsJob, Field
    <2>6. FilesInv'
      BY <2>1, <2>2, <2>4
      DEF FilesInv, Present, FileName, Output, HonestNormalization, HonestSplits, MadeUnder
    <2>7. DownloadInv' /\ PrepareInv'
      BY <2>5 DEF DownloadInv, PrepareInv, Output
    <2>8. NormalizeInv'
      BY <2>2, <2>4, <2>5 DEF NormalizeInv, Present, Holds
    <2>9. KeptInv'
      BY <2>1, <2>3, <2>4, <2>5 DEF KeptInv, NothingNormalized, Present, Output
    <2>10. IngestInv'
      <3>1. Reached("download", job.config, job.force) =>
               SnapshotHere(job.config) /\ files'["raw_manifest"] = files["raw_manifest"]
               /\ files'["source"] = files["source"]
        BY <2>4 DEF Reached, SnapshotHere, SnapshotVerifies, Holds, Present
      <3>2. ASSUME NEW c, c = job.config, NEW force, force = job.force, job.command = "ingest"
            PROVE  Reached("download", c, force)'
        BY <2>1, <2>4, <3>1, <3>2 DEF Reached, SnapshotHere, SnapshotVerifies, Holds, Present
      <3> QED
        BY <2>5, <3>2 DEF IngestInv
    <2>11. /\ "written" \in PlacesOf[job.stage] /\ PipelineInv /\ job.at # "ended"
           /\ jobs' = jobs /\ faults' \in 0..MaxFaults
      BY <1>1, <2>1, <2>4 DEF PlacesOf
    <2> QED
      BY ONLY <2>5, <2>6, <2>7, <2>8, <2>9, <2>10, <2>11, GoingOnKeepsInv
  <1> QED
    BY <1>2, <1>3 DEF WriteNormalized

LEMMA WriteNormalizationManifestKeepsInv ==
    ASSUME PipelineInv, WriteNormalizationManifest
    PROVE  PipelineInv'
  <1>1. job.at = "written" /\ job.at # "ended" /\ job.stage = "normalize"
    BY DEF WriteNormalizationManifest, InStage
  <1>2. CASE Raises
    BY <1>1, <1>2, RaisingKeepsInv
  <1>3. CASE Put("normalization_manifest", NormalizationManifest(job.config, job.held)) /\ StageDone
    <2> DEFINE new == NormalizationManifest(job.config, job.held)
    <2>1. /\ FilesInv /\ job.config \in Config
          /\ job.command = "ingest" => Reached("download", job.config, job.force)
          /\ ~job.force => job.existed \subseteq DOMAIN files
      BY <1>1, NormalizeFacts
    <2>2. /\ Present("raw_manifest") /\ Holds("normalized", job.held)
          /\ job.held = [revision |-> files["raw_manifest"].configuration.revision,
                         language |-> job.config.language]
      BY <1>1 DEF PipelineInv, NormalizeInv
    <2>3. /\ new.configuration = ConfigurationHash(job.config) /\ new.output = job.held
          /\ new.raw_manifest = files["raw_manifest"]
      BY DEF NormalizationManifest
    <2> HIDE DEF new
    <2>4. /\ DOMAIN files' = DOMAIN files \cup {"normalization_manifest"}
          /\ files'["normalization_manifest"] = new
          /\ \A g \in DOMAIN files : g # "normalization_manifest" => files'[g] = files[g]
      BY <1>3, PutFile DEF new
    <2>5. FilesInv'
      BY <2>1, <2>2, <2>3, <2>4, HashOfSettings
      DEF FilesInv, Present, FileName, Output, HonestNormalization, HonestSplits, MadeUnder
    <2>6. ASSUME NEW c, c = job.config, NEW force, force = job.force, job.command = "ingest"
          PROVE  Reached("normalize", c, force)'
      BY <2>1, <2>2, <2>3, <2>4, <2>6, HashOfSettings
      DEF Reached, SnapshotHere, SnapshotVerifies, RowsHere, NormalizedVerifies, DataOf, Holds, Present
    <2>7. ~job.force => job.existed \subseteq DOMAIN files'
      BY <2>1, <2>4
    <2> QED
      BY <1>1, <1>3, <2>5, <2>6, <2>7, StageDoneKeepsInv
  <1> QED
    BY <1>2, <1>3 DEF WriteNormalizationManifest

LEMMA NormalizeKeepsInv == ASSUME PipelineInv, Normalize PROVE PipelineInv'
  BY ReuseNormalizedKeepsInv, RefuseNormalizeKeepsInv, WriteNormalizedKeepsInv,
     WriteNormalizationManifestKeepsInv DEF Normalize

-----------------------------------------------------------------------------
\* Analyses.

LEMMA AnalyzeFacts ==
    ASSUME PipelineInv, InStage("analyze", "begin")
    PROVE  /\ IsJob(job) /\ FilesInv /\ job.config \in Config /\ faults \in 0..MaxFaults
           /\ job.at = "begin" /\ job.at # "ended" /\ job.stage = "analyze"
           /\ job.command = "ingest" => Reached("normalize", job.config, job.force)
           /\ ~job.force => job.existed \subseteq DOMAIN files
  BY DEF PipelineInv, JobInv, IngestInv, KeptInv, InStage

LEMMA RefuseAnalyzeKeepsInv == ASSUME PipelineInv, RefuseAnalyze PROVE PipelineInv'
  <1>1. /\ job.at # "ended" /\ job.config \in Config /\ Refuse /\ ~MayAnalyze
        /\ job.command = "ingest" => Reached("normalize", job.config, job.force)
    BY AnalyzeFacts DEF RefuseAnalyze
  <1>2. ASSUME job.command = "ingest" PROVE FromScratch[job.config] = None
    <2>1. SnapshotHere(job.config) /\ RowsHere(job.config)
      BY <1>1, <1>2 DEF Reached
    <2>2. files["normalized"] = DataOf(job.config)
      BY <2>1 DEF RowsHere
    <2>3. SelectionOf[DataOf(job.config)][ConfigurationHash(job.config)] = None
      BY <1>1, <2>1, <2>2
      DEF SnapshotHere, SnapshotVerifies, RowsHere, NormalizedVerifies, MayAnalyze, LanguageAccepted,
          Holds, DataOf
    <2> QED
      BY <1>1, <2>3, FromScratchIsTheSplit
  <1> QED
    BY <1>1, <1>2, RefusalKeepsInv

LEMMA WriteSelectionKeepsInv == ASSUME PipelineInv, WriteSelection PROVE PipelineInv'
  <1>1. /\ IsJob(job) /\ FilesInv /\ job.config \in Config /\ faults \in 0..MaxFaults
        /\ job.at = "begin" /\ job.at # "ended" /\ job.stage = "analyze" /\ MayAnalyze
        /\ job.command = "ingest" => Reached("normalize", job.config, job.force)
        /\ ~job.force => job.existed \subseteq DOMAIN files
    BY AnalyzeFacts DEF WriteSelection
  <1>2. CASE Raises
    BY <1>1, <1>2, RaisingKeepsInv
  <1>3. ASSUME NEW platform \in Platform,
               Put("selected_classes", SelectionReport(files["normalized"], job.config, platform)),
               GoTo("reports")
        PROVE  PipelineInv'
    <2> DEFINE new == SelectionReport(files["normalized"], job.config, platform)
    <2>1. /\ Present("normalized") /\ files["normalized"] \in NormalizedData
          /\ SelectionOf[files["normalized"]][ConfigurationHash(job.config)] # None
      BY <1>1 DEF MayAnalyze, NormalizedVerifies, Holds, FilesInv
    <2>2. /\ new.classes = SelectionOf[files["normalized"]][ConfigurationHash(job.config)]
          /\ new.input = files["normalized"] /\ new.requested = job.config.classes
          /\ new.minimum = job.config.minimum
      BY DEF SelectionReport
    <2>3. new.classes \in Selections
      BY <1>1, <2>1, <2>2, SelectionIsOne, HashOfSettings
    <2> HIDE DEF new
    <2>4. /\ job' = [job EXCEPT !.at = "reports"] /\ jobs' = jobs /\ faults' = faults
          /\ DOMAIN files' = DOMAIN files \cup {"selected_classes"}
          /\ files'["selected_classes"] = new
          /\ \A g \in DOMAIN files : g # "selected_classes" => files'[g] = files[g]
      BY <1>3, PutFile DEF GoTo, Advance, new
    <2>5. /\ job' = [job EXCEPT !.at = "reports", !.held = job.held, !.backup = job.backup,
                                !.blocked = job.blocked]
          /\ job'.at = "reports" /\ job'.stage = "analyze" /\ job'.config = job.config
          /\ job'.command = job.command /\ job'.force = job.force /\ job'.existed = job.existed
      BY <1>1, <2>4 DEF IsJob, Field
    <2>6. FilesInv'
      BY <1>1, <2>3, <2>4
      DEF FilesInv, Present, FileName, Output, HonestNormalization, HonestSplits, MadeUnder
    <2>7. DownloadInv' /\ NormalizeInv' /\ PrepareInv'
      BY <2>5 DEF DownloadInv, NormalizeInv, PrepareInv, Output
    <2>8. KeptInv'
      BY <1>1, <2>4, <2>5 DEF KeptInv, Output
    <2>9. IngestInv'
      <3>1. ASSUME NEW c, c = job.config, NEW force, force = job.force, job.command = "ingest"
            PROVE  Reached("normalize", c, force)' /\ SelectionHere(c)'
        BY <1>1, <2>1, <2>2, <2>4, <3>1
        DEF Reached, SnapshotHere, SnapshotVerifies, RowsHere, NormalizedVerifies, SelectionHere,
            Holds, Present
      <3>2. ASSUME NEW c, c = job.config, NEW force, force = job.force, job.command = "ingest"
            PROVE  Reached("analyze", c, force)'
        BY <3>1, <3>2 DEF Reached
      <3> QED
        BY <2>5, <3>1, <3>2 DEF IngestInv
    <2>10. /\ "reports" \in PlacesOf[job.stage] /\ PipelineInv /\ job.at # "ended"
           /\ jobs' = jobs /\ faults' \in 0..MaxFaults
      BY <1>1, <2>4 DEF PlacesOf
    <2> QED
      BY ONLY <2>5, <2>6, <2>7, <2>8, <2>9, <2>10, GoingOnKeepsInv
  <1> QED
    BY <1>1, <1>2, <1>3 DEF WriteSelection

LEMMA WriteReportsKeepsInv == ASSUME PipelineInv, WriteReports PROVE PipelineInv'
  <1>1. /\ job.at = "reports" /\ job.at # "ended" /\ job.stage # "download"
        /\ job.command = "ingest" => Reached(job.stage, job.config, job.force)
        /\ ~job.force => job.existed \subseteq DOMAIN files
    BY DEF WriteReports, PipelineInv, JobInv, PlacesOf, IngestInv, KeptInv
  <1>2. CASE Raises
    BY <1>1, <1>2, RaisingKeepsInv
  <1>3. CASE StageDone /\ UNCHANGED files
    <2>1. FilesInv' /\ \A stage, c, force : Reached(stage, c, force) => Reached(stage, c, force)'
      BY <1>3, SameFiles DEF PipelineInv
    <2> QED
      BY <1>1, <1>3, <2>1, StageDoneKeepsInv
  <1> QED
    BY <1>2, <1>3 DEF WriteReports

-----------------------------------------------------------------------------
\* Preparations.

LEMMA PrepareFacts ==
    ASSUME PipelineInv, job.at # "ended", job.stage = "prepare"
    PROVE  /\ IsJob(job) /\ FilesInv /\ job.config \in Config /\ faults \in 0..MaxFaults
           /\ job.command = "ingest" => Reached("analyze", job.config, job.force)
           /\ ~job.force => job.existed \subseteq DOMAIN files
  BY DEF PipelineInv, JobInv, IngestInv, KeptInv

\* After an analysis the lineage of an ingestion is valid, and what it can prepare is
\* what it would prepare from scratch.
LEMMA LineageOfIngestion ==
    ASSUME FilesInv, job.config \in Config, Reached("analyze", job.config, job.force)
    PROVE  /\ LineageValid /\ LanguageAccepted(job.config)
           /\ PreparableSplits = FromScratch[job.config]
  <1>1. SnapshotHere(job.config) /\ RowsHere(job.config) /\ SelectionHere(job.config)
    BY DEF Reached
  <1>2. LineageValid
    BY <1>1 DEF RowsHere, SelectionHere, LineageValid
  <1>3. LanguageAccepted(job.config)
    BY <1>1 DEF RowsHere, DataOf, LanguageAccepted
  <1>4. PreparableSplits = FromScratch[job.config]
    BY <1>1, FromScratchIsTheSplit DEF RowsHere, SelectionHere, PreparableSplits
  <1> QED
    BY <1>2, <1>3, <1>4

LEMMA RefusePrepareKeepsInv == ASSUME PipelineInv, RefusePrepare PROVE PipelineInv'
  <1>1. job.at # "ended" /\ job.stage = "prepare" /\ Refuse
    BY DEF RefusePrepare, InStage
  <1>2. /\ FilesInv /\ job.config \in Config
        /\ job.command = "ingest" => Reached("analyze", job.config, job.force)
    BY <1>1, PrepareFacts
  <1>3. ASSUME job.command = "ingest", job.force PROVE FromScratch[job.config] = None
    <2>1. /\ LineageValid /\ LanguageAccepted(job.config)
          /\ PreparableSplits = FromScratch[job.config]
      BY <1>2, <1>3, LineageOfIngestion
    <2>2. ~FrameAccepted
      BY <1>3, <2>1 DEF RefusePrepare, MayReplaceSplits
    <2> QED
      BY <2>1, <2>2 DEF FrameAccepted
  <1> QED
    BY <1>1, <1>3, RefusalKeepsInv

\* Outputs that verify against a manifest hold its splits.
LEMMA VerifiedOutputs ==
    ASSUME NEW m, HonestSplits(m), OutputsVerify(m), NEW c \in Config, MadeUnder(m, c)
    PROVE  LET split == SplitsOf[m.sources.normalized][m.classes][c]
           IN  /\ [p \in Part |-> files[p]] = split
               /\ files["training_reference"] = split["train"]
  <1> DEFINE split == SplitsOf[m.sources.normalized][m.classes][c]
  <1>1. split = [p \in Part |-> split[p]]
    <2>1. m.sources.normalized \in NormalizedData /\ m.classes \in Selections /\ split # None
      BY DEF HonestSplits, MadeUnder
    <2> QED
      BY <2>1, SplitsAreSplits
  <1>2. \A o \in Output : files[o] = OutputFrames(split)[o]
    BY DEF MadeUnder, OutputsVerify, Holds
  <1> HIDE DEF split
  <1>3. \A p \in Part : files[p] = split[p]
    BY <1>2 DEF OutputFrames, Output, Part
  <1>4. files["training_reference"] = split["train"]
    BY <1>2 DEF OutputFrames, Output
  <1>5. [p \in Part |-> files[p]] = split
    BY <1>1, <1>3
  <1> QED
    BY <1>4, <1>5 DEF split

\* A preparation that only reports what it found.
LEMMA ReportingKeepsInv ==
    ASSUME PipelineInv, job.at # "ended", job.stage = "prepare", FilesInv',
           job' = [job EXCEPT !.at = "reports"], jobs' = jobs, faults' = faults,
           ~job.force => job.existed \subseteq DOMAIN files',
           NEW c, c = job.config, NEW force, force = job.force,
           job.command = "ingest" => Reached("analyze", c, force)' /\ SplitsHere(c, force)'
    PROVE  PipelineInv'
  <1>1. IsJob(job) /\ faults \in 0..MaxFaults
    BY PrepareFacts
  <1>2. /\ job' = [job EXCEPT !.at = "reports", !.held = job.held, !.backup = job.backup,
                              !.blocked = job.blocked]
        /\ job'.at = "reports" /\ job'.stage = "prepare" /\ job'.config = c
        /\ job'.command = job.command /\ job'.force = job.force /\ job'.existed = job.existed
    BY <1>1 DEF IsJob, Field
  <1>3. DownloadInv' /\ NormalizeInv' /\ PrepareInv' /\ KeptInv'
    BY <1>2 DEF DownloadInv, NormalizeInv, PrepareInv, KeptInv, Output
  <1>4. IngestInv'
    <2>1. job.command = "ingest" => Reached("prepare", c, force)'
      BY DEF Reached
    <2> QED
      BY <1>2, <2>1 DEF IngestInv
  <1>5. /\ "reports" \in PlacesOf[job.stage] /\ PipelineInv /\ job.at # "ended"
        /\ jobs' = jobs /\ faults' \in 0..MaxFaults /\ FilesInv'
    BY <1>1 DEF PlacesOf
  <1> QED
    BY ONLY <1>2, <1>3, <1>4, <1>5, GoingOnKeepsInv

LEMMA ReuseSplitsKeepsInv == ASSUME PipelineInv, ReuseSplits PROVE PipelineInv'
  <1> DEFINE m == files["split_manifest"]
  <1>1. /\ job.at # "ended" /\ job.stage = "prepare" /\ UNCHANGED files
        /\ job' = [job EXCEPT !.at = "reports"] /\ jobs' = jobs /\ faults' = faults
        /\ Present("split_manifest") /\ SplitCacheValid(m)
    BY DEF ReuseSplits, InStage, GoTo, Advance
  <1>2. /\ FilesInv /\ job.config \in Config
        /\ job.command = "ingest" => Reached("analyze", job.config, job.force)
        /\ ~job.force => job.existed \subseteq DOMAIN files
    BY <1>1, PrepareFacts
  <1>3. FilesInv' /\ \A stage, c, force : Reached(stage, c, force) => Reached(stage, c, force)'
    BY <1>1, <1>2, SameFiles
  <1>4. ASSUME job.command = "ingest" PROVE SplitsHere(job.config, job.force)
    <2>1. HonestSplits(m) /\ OutputsVerify(m) /\ m.configuration = ConfigurationHash(job.config)
      BY <1>1, <1>2 DEF FilesInv, SplitCacheValid
    <2>2. PICK made \in Config : MadeUnder(m, made)
      BY <2>1 DEF HonestSplits
    <2>3. /\ ConfigurationHash(made) = ConfigurationHash(job.config)
          /\ RandomSeed(made) = m.random_seed
      BY <2>1, <2>2 DEF MadeUnder
    <2>4. m.sources.normalized = files["normalized"] /\ m.classes = files["selected_classes"].classes
      BY <1>1, <2>1 DEF SplitCacheValid, SelectionMatches, HonestSplits
    <2>5. DataOf(made) = DataOf(job.config)
      BY <1>2, <2>3, OneHashOneDataset
    <2>6. /\ files["normalized"] = DataOf(made)
          /\ files["selected_classes"].classes = SelectionOf[DataOf(made)][ConfigurationHash(made)]
          /\ SelectionOf[DataOf(made)][ConfigurationHash(made)] # None
      BY <1>2, <1>4, <2>3, <2>5 DEF Reached, RowsHere, SelectionHere
    <2>7. [p \in Part |-> files[p]] = SplitsOf[m.sources.normalized][m.classes][made]
      BY <2>1, <2>2, VerifiedOutputs
    <2>8. [p \in Part |-> files[p]] = FromScratch[made]
      BY <2>4, <2>6, <2>7, FromScratchIsTheSplit
    <2> QED
      BY <1>1, <2>1, <2>3, <2>8 DEF SplitsHere, ReuseSplits
  <1>5. ASSUME NEW c, c = job.config, NEW force, force = job.force, job.command = "ingest"
        PROVE  Reached("analyze", c, force)' /\ SplitsHere(c, force)'
    <2>1. Reached("prepare", c, force)
      BY <1>2, <1>4, <1>5 DEF Reached
    <2>2. Reached("prepare", c, force)' /\ Reached("analyze", c, force)'
      BY <1>2, <1>3, <1>5, <2>1
    <2> QED
      BY <2>2 DEF Reached
  <1> QED
    BY <1>1, <1>2, <1>3, <1>5, ReportingKeepsInv

LEMMA MakeFramesKeepsInv == ASSUME PipelineInv, MakeFrames PROVE PipelineInv'
  <1> DEFINE frames == OutputFrames(PreparableSplits)
  <1>1. /\ job.at = "begin" /\ job.at # "ended" /\ job.stage = "prepare"
        /\ LineageValid /\ MayReplaceSplits /\ FrameAccepted
    BY DEF MakeFrames, InStage
  <1>2. CASE Raises
    BY <1>1, <1>2, RaisingKeepsInv
  <1>3. CASE Advance([job EXCEPT !.at = "train", !.held = frames]) /\ UNCHANGED files
    <2>1. /\ IsJob(job) /\ FilesInv /\ faults \in 0..MaxFaults
          /\ job.command = "ingest" => Reached("analyze", job.config, job.force)
          /\ ~job.force => job.existed \subseteq DOMAIN files
      BY <1>1, PrepareFacts
    <2>2. /\ job' = [job EXCEPT !.at = "train", !.held = frames, !.backup = job.backup,
                                !.blocked = job.blocked]
          /\ job'.at = "train" /\ job'.held = frames /\ job'.stage = "prepare"
          /\ job'.config = job.config /\ job'.command = job.command
          /\ job'.force = job.force /\ job'.existed = job.existed
          /\ jobs' = jobs /\ faults' = faults /\ UNCHANGED files
      BY <1>1, <1>3, <2>1 DEF Advance, IsJob, Field
    <2>3. FilesInv' /\ \A stage, c, force : Reached(stage, c, force) => Reached(stage, c, force)'
      BY <2>1, <2>2, SameFiles
    <2>4. DownloadInv' /\ NormalizeInv'
      BY <2>2 DEF DownloadInv, NormalizeInv
    <2>5. PrepareInv'
      <3>1. /\ Present("normalized") /\ Present("selected_classes") /\ PreparableSplits # None
        BY <1>1 DEF LineageValid, NormalizedVerifies, Holds, FrameAccepted
      <3>2. PreparableSplits' = PreparableSplits
        BY <2>2 DEF PreparableSplits
      <3> HIDE DEF frames
      <3>3. job'.held = OutputFrames(PreparableSplits')
        BY <2>2, <3>2 DEF frames
      <3> QED
        BY <2>2, <3>1, <3>2, <3>3 DEF PrepareInv, PlacedBefore, Present
    <2>6. KeptInv'
      BY <1>1, <2>1, <2>2 DEF KeptInv, MayReplaceSplits, Present, Output
    <2>7. IngestInv'
      <3>1. ASSUME NEW c, c = job.config, NEW force, force = job.force, job.command = "ingest"
            PROVE  Reached("analyze", c, force)'
        BY <2>1, <2>3, <3>1
      <3> QED
        BY <2>2, <3>1 DEF IngestInv
    <2>8. /\ "train" \in PlacesOf[job.stage] /\ PipelineInv /\ job.at # "ended"
          /\ jobs' = jobs /\ faults' \in 0..MaxFaults
      BY <1>1, <2>1, <2>2 DEF PlacesOf, Output
    <2> HIDE DEF frames
    <2> QED
      BY ONLY <2>2, <2>3, <2>4, <2>5, <2>6, <2>7, <2>8, GoingOnKeepsInv
  <1> QED
    BY <1>2, <1>3 DEF MakeFrames

\* What a preparation splits the rows into.
LEMMA PreparableAreSplits ==
    ASSUME files["normalized"] \in NormalizedData, job.config \in Config,
           files["selected_classes"].classes \in Selections, PreparableSplits # None
    PROVE  /\ PreparableSplits = [p \in Part |-> PreparableSplits[p]]
           /\ \A p \in Part : PreparableSplits[p] \subseteq Row
  <1> DEFINE split == SplitsOf[files["normalized"]][files["selected_classes"].classes][job.config]
  <1>1. split # None
    BY DEF PreparableSplits
  <1>2. split = [p \in Part |-> split[p]] /\ \A p \in Part : split[p] \subseteq Row
    BY <1>1, SplitsAreSplits
  <1> QED
    BY <1>2 DEF PreparableSplits

\* A job that replaces the outputs has the frames of splits in its hands.
LEMMA FramesInHand ==
    ASSUME PipelineInv, job.at \in Output \cup {"manifest"}
    PROVE  /\ job.at # "ended" /\ job.stage = "prepare"
           /\ Present("normalized") /\ files["normalized"] \in NormalizedData
           /\ Present("selected_classes") /\ files["selected_classes"].classes \in Selections
           /\ PreparableSplits # None /\ job.held = OutputFrames(PreparableSplits)
           /\ \A o \in PlacedBefore[job.at] : Holds(o, job.held[o])
           /\ \A o \in Output : job.held[o] \subseteq Row
  <1>1. job.at # "ended" /\ job.stage = "prepare" /\ job.config \in Config
    BY DEF PipelineInv, JobInv, PlacesOf, Stage, Output
  <1>2. /\ Present("normalized") /\ files["normalized"] \in NormalizedData
        /\ Present("selected_classes") /\ files["selected_classes"].classes \in Selections
        /\ PreparableSplits # None /\ job.held = OutputFrames(PreparableSplits)
        /\ \A o \in PlacedBefore[job.at] : Holds(o, job.held[o])
    BY DEF PipelineInv, PrepareInv, FilesInv
  <1>3. \A p \in Part : PreparableSplits[p] \subseteq Row
    BY <1>1, <1>2, PreparableAreSplits
  <1>4. \A o \in Output : job.held[o] \subseteq Row
    BY <1>2, <1>3 DEF OutputFrames, Output, Part
  <1> QED
    BY <1>1, <1>2, <1>4

LEMMA ReplaceOutputKeepsInv == ASSUME PipelineInv, ReplaceOutput PROVE PipelineInv'
  <1> DEFINE next == NextOutput[job.at]
  <1>1. /\ job.at \in Output /\ job.at # "ended" /\ job.stage = "prepare"
        /\ Present("normalized") /\ Present("selected_classes")
        /\ PreparableSplits # None /\ job.held = OutputFrames(PreparableSplits)
        /\ \A o \in PlacedBefore[job.at] : Holds(o, job.held[o])
        /\ \A o \in Output : job.held[o] \subseteq Row
    BY FramesInHand DEF ReplaceOutput
  <1>2. CASE Raises
    BY <1>1, <1>2, RaisingKeepsInv
  <1>3. CASE Put(job.at, job.held[job.at]) /\ GoTo(next)
    <2>1. /\ IsJob(job) /\ FilesInv /\ faults \in 0..MaxFaults
          /\ job.command = "ingest" => Reached("analyze", job.config, job.force)
          /\ ~job.force => job.existed \subseteq DOMAIN files
      BY <1>1, PrepareFacts
    <2>2. /\ DOMAIN files' = DOMAIN files \cup {job.at} /\ files'[job.at] = job.held[job.at]
          /\ \A g \in DOMAIN files : g # job.at => files'[g] = files[g]
          /\ job' = [job EXCEPT !.at = next] /\ jobs' = jobs /\ faults' = faults
      BY <1>3, PutFile DEF GoTo, Advance
    <2>3. /\ next \in Output \cup {"manifest"}
          /\ PlacedBefore[next] = PlacedBefore[job.at] \cup {job.at}
          /\ PlacedBefore[job.at] \subseteq Output \ {job.at}
      BY <1>1 DEF NextOutput, PlacedBefore, Output
    <2> HIDE DEF next
    <2>4. /\ job' = [job EXCEPT !.at = next, !.held = job.held, !.backup = job.backup,
                                !.blocked = job.blocked]
          /\ job'.at = next /\ job'.held = job.held /\ job'.stage = "prepare"
          /\ job'.config = job.config /\ job'.command = job.command
          /\ job'.force = job.force /\ job'.existed = job.existed
      BY <1>1, <2>1, <2>2 DEF IsJob, Field
    <2>5. FilesInv'
      BY <1>1, <2>1, <2>2 DEF FilesInv, Present, FileName, Output
    <2>6. DownloadInv' /\ NormalizeInv'
      BY <2>3, <2>4 DEF DownloadInv, NormalizeInv, Output
    <2>7. PrepareInv'
      <3>1. PreparableSplits' = PreparableSplits
        BY <1>1, <2>2, <2>4 DEF PreparableSplits, Present, Output
      <3>2. job'.held = OutputFrames(PreparableSplits)'
        <4>1. OutputFrames(PreparableSplits)' = OutputFrames(PreparableSplits)
          BY <3>1 DEF OutputFrames
        <4> QED
          BY <1>1, <2>4, <4>1
      <3>3. \A o \in PlacedBefore[next] : o \in DOMAIN files' /\ files'[o] = job.held[o]
        BY <1>1, <2>2, <2>3 DEF Holds, Present
      <3> QED
        BY <1>1, <2>2, <2>4, <3>1, <3>2, <3>3 DEF PrepareInv, Holds, Present
    <2>8. KeptInv'
      <3>1. ~job.force => job.existed \cap (Output \cup {"split_manifest"}) = {}
        BY <1>1 DEF PipelineInv, KeptInv
      <3> QED
        BY <2>1, <2>2, <2>3, <2>4, <3>1 DEF KeptInv, Output
    <2>9. IngestInv'
      <3>1. ASSUME NEW c, c = job.config, NEW force, force = job.force, job.command = "ingest"
            PROVE  Reached("analyze", c, force)'
        BY <1>1, <2>1, <2>2, <3>1
        DEF Reached, SnapshotHere, SnapshotVerifies, RowsHere, NormalizedVerifies, SelectionHere,
            Holds, Present, Output
      <3> QED
        BY <2>3, <2>4, <3>1 DEF IngestInv, Output
    <2>10. /\ next \in PlacesOf[job.stage] /\ PipelineInv /\ job.at # "ended"
           /\ jobs' = jobs /\ faults' \in 0..MaxFaults
      BY <1>1, <2>1, <2>2, <2>3 DEF PlacesOf
    <2> QED
      BY ONLY <2>4, <2>5, <2>6, <2>7, <2>8, <2>9, <2>10, GoingOnKeepsInv
  <1> QED
    BY <1>2, <1>3 DEF ReplaceOutput

LEMMA WriteSplitManifestKeepsInv == ASSUME PipelineInv, WriteSplitManifest PROVE PipelineInv'
  <1> DEFINE outputs == [o \in Output |-> files[o]]
             new     == SplitManifest(job.config, outputs)
  <1>1. /\ job.at = "manifest" /\ job.at # "ended" /\ job.stage = "prepare"
        /\ files["normalized"] \in NormalizedData /\ Present("normalized")
        /\ files["selected_classes"].classes \in Selections /\ Present("selected_classes")
        /\ PreparableSplits # None /\ job.held = OutputFrames(PreparableSplits)
        /\ \A o \in PlacedBefore[job.at] : Holds(o, job.held[o])
    BY FramesInHand DEF WriteSplitManifest
  <1>2. CASE Raises
    BY <1>1, <1>2, RaisingKeepsInv
  <1>3. CASE Put("split_manifest", new) /\ GoTo("reports")
    <2>1. /\ FilesInv /\ job.config \in Config
          /\ job.command = "ingest" => Reached("analyze", job.config, job.force)
          /\ ~job.force => job.existed \subseteq DOMAIN files
      BY <1>1, PrepareFacts
    <2>2. \A o \in Output : o \in DOMAIN files /\ files[o] = job.held[o]
      BY <1>1 DEF PlacedBefore, Holds, Present
    <2>3. outputs = OutputFrames(PreparableSplits)
      BY <1>1, <2>2 DEF OutputFrames
    <2>4. /\ new.sources.normalized = files["normalized"]
          /\ new.configuration = ConfigurationHash(job.config)
          /\ new.random_seed = RandomSeed(job.config)
          /\ new.classes = files["selected_classes"].classes /\ new.outputs = outputs
          /\ new.sources.selected_classes = files["selected_classes"]
      BY DEF SplitManifest
    <2>5. HonestSplits(new)
      <3>1. MadeUnder(new, job.config)
        BY <1>1, <2>3, <2>4 DEF MadeUnder, PreparableSplits
      <3> QED
        BY <1>1, <2>1, <2>4, <3>1 DEF HonestSplits
    <2>6. \A o \in Output : new.outputs[o] = files[o]
      BY <2>4
    <2> HIDE DEF new, outputs
    <2>7. /\ job' = [job EXCEPT !.at = "reports"] /\ jobs' = jobs /\ faults' = faults
          /\ DOMAIN files' = DOMAIN files \cup {"split_manifest"} /\ files'["split_manifest"] = new
          /\ \A g \in DOMAIN files : g # "split_manifest" => files'[g] = files[g]
      BY <1>3, PutFile DEF GoTo, Advance
    <2>8. FilesInv'
      <3>1. HonestSplits(files["split_manifest"])'
        BY <2>5, <2>7 DEF HonestSplits, MadeUnder
      <3> QED
        BY <2>1, <2>7, <3>1 DEF FilesInv, Present, FileName, Output, HonestNormalization
    <2>9. OutputsVerify(files["split_manifest"])' /\ \A o \in Output : files'[o] = files[o]
      BY <2>2, <2>6, <2>7 DEF OutputsVerify, Holds, Present, Output
    <2>10. ASSUME NEW c, c = job.config, NEW force, force = job.force, job.command = "ingest"
           PROVE  Reached("analyze", c, force)' /\ SplitsHere(c, force)'
      <3>1. Reached("analyze", c, force)'
        BY <2>1, <2>7, <2>10
        DEF Reached, SnapshotHere, SnapshotVerifies, RowsHere, NormalizedVerifies, SelectionHere,
            Holds, Present
      <3>2. PreparableSplits = FromScratch[c]
        BY <2>1, <2>10, LineageOfIngestion
      <3>3. PreparableSplits = [p \in Part |-> PreparableSplits[p]]
        BY <1>1, <2>1, PreparableAreSplits
      <3>4. \A p \in Part : files'[p] = PreparableSplits[p]
        BY <1>1, <2>2, <2>9 DEF OutputFrames, Output, Part
      <3>5. [p \in Part |-> files'[p]] = FromScratch[c]
        BY <3>2, <3>3, <3>4
      <3> QED
        BY <2>1, <2>4, <2>7, <2>9, <2>10, <3>1, <3>5 DEF SplitsHere, Present
    <2>11. ~job.force => job.existed \subseteq DOMAIN files'
      BY <2>1, <2>7
    <2> QED
      BY <1>1, <2>7, <2>8, <2>10, <2>11, ReportingKeepsInv
  <1> QED
    BY <1>2, <1>3 DEF WriteSplitManifest

LEMMA PrepareKeepsInv == ASSUME PipelineInv, Prepare PROVE PipelineInv'
  BY ReuseSplitsKeepsInv, RefusePrepareKeepsInv, MakeFramesKeepsInv, ReplaceOutputKeepsInv,
     WriteSplitManifestKeepsInv DEF Prepare

-----------------------------------------------------------------------------
\* Jobs start and are killed, and the invariant follows.

LEMMA StartKeepsInv ==
    ASSUME PipelineInv, NEW command \in Command, NEW config \in Config, NEW force \in BOOLEAN,
           Start(command, config, force)
    PROVE  PipelineInv'
  <1> DEFINE new == [NoJob EXCEPT !.at = "begin", !.command = command,
                         !.stage = FirstStage(command), !.force = force, !.config = config,
                         !.existed = IF force THEN {} ELSE DOMAIN files,
                         !.verified = FirstStage(command) = "download" /\ SnapshotVerifies,
                         !.outcome = "running"]
  <1>1. /\ job' = new /\ jobs < MaxJobs /\ jobs' = jobs + 1 /\ UNCHANGED <<files, faults>>
        /\ FilesInv /\ jobs \in 0..MaxJobs /\ faults \in 0..MaxFaults
    BY DEF Start, PipelineInv, JobInv
  <1>2. FirstStage(command) \in Stage /\ (command = "ingest" => FirstStage(command) = "download")
    BY DEF FirstStage, Command, Stage
  <1>3. /\ IsJob(new) /\ new.at = "begin" /\ new.command = command
        /\ new.stage = FirstStage(command) /\ new.force = force /\ new.config = config
        /\ new.existed = (IF force THEN {} ELSE DOMAIN files) /\ new.tries = 0
        /\ new.backup = {} /\ new.blocked = FALSE /\ new.outcome = "running"
        /\ new.verified = (FirstStage(command) = "download" /\ SnapshotVerifies)
    BY DEF NoJob, IsJob, Field
  <1> HIDE DEF new
  <1>4. FilesInv' /\ (SnapshotVerifies => SnapshotVerifies')
    BY <1>1, SameFiles
  <1>5. JobInv'
    BY <1>1, <1>2, <1>3, PipelineAssumption DEF JobInv, PlacesOf, Stage
  <1>6. DownloadInv' /\ NormalizeInv' /\ PrepareInv'
    BY <1>1, <1>2, <1>3, <1>4 DEF DownloadInv, NormalizeInv, PrepareInv, Output
  <1>7. KeptInv' /\ IngestInv'
    BY <1>1, <1>2, <1>3 DEF KeptInv, IngestInv, Output
  <1>8. (IngestionIsReproducible /\ ForcedIngestionRecovers /\ FailedDownloadKeepsSnapshot)'
    BY <1>1, <1>3 DEF IngestionIsReproducible, ForcedIngestionRecovers, FailedDownloadKeepsSnapshot
  <1> QED
    BY <1>4, <1>5, <1>6, <1>7, <1>8 DEF PipelineInv

LEMMA KillKeepsInv == ASSUME PipelineInv, Kill PROVE PipelineInv'
  <1>1. /\ job.at # "ended" /\ job' = Ended("killed") /\ jobs' = jobs /\ UNCHANGED files
        /\ faults < MaxFaults /\ faults' = faults + 1 /\ faults \in 0..MaxFaults
    BY DEF Kill, Break, PipelineInv, JobInv
  <1>2. FilesInv' /\ faults' \in 0..MaxFaults
    BY <1>1, SameFiles, PipelineAssumption DEF PipelineInv
  <1> QED
    BY <1>1, <1>2, EndingKeepsInv

LEMMA NothingKeepsInv == ASSUME PipelineInv, UNCHANGED vars PROVE PipelineInv'
  <1>1. UNCHANGED <<files, job, jobs, faults>>
    BY DEF vars
  <1>2. FilesInv' /\ (SnapshotVerifies => SnapshotVerifies')
        /\ \A stage, c, force : Reached(stage, c, force) => Reached(stage, c, force)'
    BY <1>1, SameFiles DEF PipelineInv
  <1>3. JobInv' /\ DownloadInv' /\ NormalizeInv' /\ KeptInv'
    BY <1>1, <1>2
    DEF PipelineInv, JobInv, DownloadInv, NormalizeInv, KeptInv, Holds, Present
  <1>4. PrepareInv'
    BY <1>1 DEF PipelineInv, PrepareInv, PreparableSplits, OutputFrames, Holds, Present
  <1>5. IngestInv'
    BY <1>1, <1>2 DEF PipelineInv, IngestInv
  <1>6. (IngestionIsReproducible /\ ForcedIngestionRecovers /\ FailedDownloadKeepsSnapshot)'
    BY <1>1, <1>2
    DEF PipelineInv, IngestionIsReproducible, ForcedIngestionRecovers, FailedDownloadKeepsSnapshot,
        NormalizedVerifies, OutputsVerify, Holds, Present
  <1> QED
    BY <1>2, <1>3, <1>4, <1>5, <1>6 DEF PipelineInv

LEMMA InitialInv == Init => PipelineInv
  <1> SUFFICES ASSUME Init PROVE PipelineInv
    OBVIOUS
  <1>1. DOMAIN files = {} /\ job = NoJob /\ jobs = 0 /\ faults = 0
    BY DEF Init
  <1>2. JobInv
    BY <1>1, NoJobIsAJob, PipelineAssumption DEF JobInv
  <1>3. FilesInv
    BY <1>1 DEF FilesInv, Present
  <1>4. DownloadInv /\ NormalizeInv /\ PrepareInv /\ KeptInv /\ IngestInv
    BY <1>1, NoJobIsAJob
    DEF DownloadInv, NormalizeInv, PrepareInv, KeptInv, IngestInv, Output
  <1>5. IngestionIsReproducible /\ ForcedIngestionRecovers /\ FailedDownloadKeepsSnapshot
    BY <1>1, NoJobIsAJob
    DEF IngestionIsReproducible, ForcedIngestionRecovers, FailedDownloadKeepsSnapshot
  <1> QED
    BY <1>2, <1>3, <1>4, <1>5 DEF PipelineInv

\* The invariant holds of every behaviour.
THEOREM PipelineInvariant == Spec => []PipelineInv
  <1>1. PipelineInv /\ [Next]_vars => PipelineInv'
    <2> SUFFICES ASSUME PipelineInv, [Next]_vars PROVE PipelineInv'
      OBVIOUS
    <2> QED
      BY StartKeepsInv, DownloadKeepsInv, NormalizeKeepsInv, RefuseAnalyzeKeepsInv,
         WriteSelectionKeepsInv, WriteReportsKeepsInv, PrepareKeepsInv, KillKeepsInv,
         NothingKeepsInv DEF Next
  <1> QED
    BY InitialInv, <1>1, PTL DEF Spec

-----------------------------------------------------------------------------
\* Results.

\* Files and jobs are of their kinds, for any number of jobs, kills and exceptions.
THEOREM PipelineTypeCorrect == Spec => []PipelineTypeOK
  <1>1. PipelineInv => PipelineTypeOK
    <2> SUFFICES ASSUME PipelineInv PROVE PipelineTypeOK
      OBVIOUS
    <2>1. JobInv /\ FilesInv
      BY DEF PipelineInv
    <2>2. NormalizedData \subseteq [revision : Revision, language : STRING]
      BY PipelineAssumption DEF NormalizedData
    <2>3. HonestNormalization(files["normalization_manifest"]) =>
             files["normalization_manifest"].configuration \in Configuration
      BY DEF HonestNormalization
    <2> QED
      BY <2>1, <2>2, <2>3 DEF JobInv, FilesInv, SnapshotType, PipelineTypeOK
  <1> QED
    BY PipelineInvariant, <1>1, PTL

\* Splits that verify are one split of one dataset, whatever kills and failures came
\* between the writes of whichever jobs (prepare.py:112-162).
THEOREM VerifiedSplitsAreSplits == Spec => []VerifiedSplitsAreOneSplit
  <1>1. PipelineInv => VerifiedSplitsAreOneSplit
    <2> DEFINE m == files["split_manifest"]
    <2> SUFFICES ASSUME PipelineInv, Present("split_manifest"), OutputsVerify(m)
                 PROVE  /\ \A p, o \in Part : p # o => PartTexts(p) \cap PartTexts(o) = {}
                        /\ \A p \in Part :
                              PartTexts(p) \cap ContradictoryIn[m.sources.normalized][m.classes] = {}
                        /\ \A p \in Part, q \in ClassSet(m.classes) : RowsOfQueue(files[p], q) # {}
                        /\ UNION {files[p] : p \in Part} = UsableIn[m.sources.normalized][m.classes]
                        /\ files["training_reference"] = files["train"]
      BY DEF VerifiedSplitsAreOneSplit
    <2>1. HonestSplits(m)
      BY DEF PipelineInv, FilesInv
    <2> PICK c \in Config : MadeUnder(m, c)
      BY <2>1 DEF HonestSplits
    <2> DEFINE split == SplitsOf[m.sources.normalized][m.classes][c]
    <2>2. [p \in Part |-> files[p]] = split /\ files["training_reference"] = split["train"]
      BY <2>1, VerifiedOutputs
    <2>3. \A p \in Part : files[p] = split[p]
      BY <2>2
    <2>4. m.sources.normalized \in NormalizedData /\ m.classes \in Selections /\ split # None
      BY <2>1 DEF HonestSplits, MadeUnder
    <2>5. PICK n \in NormalizedData, k \in Selections : n = m.sources.normalized /\ k = m.classes
      BY <2>4
    <2>6. PICK s : s = split
      OBVIOUS
    <2>7. s = SplitsOf[n][k][c] /\ s # None
      BY <2>4, <2>5, <2>6
    <2> HIDE DEF split
    <2>8. \A p, o \in Part : p # o => TextsOf(s[p]) \cap TextsOf(s[o]) = {}
      BY ONLY <2>7, n \in NormalizedData, k \in Selections, c \in Config, SplitsAreSplits
    <2>9. \A p \in Part : /\ TextsOf(s[p]) \cap ContradictoryIn[n][k] = {}
                           /\ \A q \in ClassSet(k) : RowsOfQueue(s[p], q) # {}
      BY ONLY <2>7, n \in NormalizedData, k \in Selections, c \in Config, SplitsAreSplits
    <2>10. \A r : r \in UsableIn[n][k] <=> \E p \in Part : r \in s[p]
      BY ONLY <2>7, n \in NormalizedData, k \in Selections, c \in Config, SplitsAreSplits
    <2>11. \A p \in Part : files[p] = s[p]
      BY <2>3, <2>6
    <2>12. UNION {files[p] : p \in Part} = UsableIn[n][k]
      BY <2>10, <2>11
    <2>13. files["training_reference"] = files["train"]
      BY <2>2, <2>3 DEF Part
    <2> QED
      BY <2>5, <2>8, <2>9, <2>11, <2>12, <2>13 DEF PartTexts
  <1> QED
    BY PipelineInvariant, <1>1, PTL

\* An ingestion that ends well leaves what it would leave from nothing with the seed its
\* split manifest records, which of a forced one is its own (flows.py:60-72, prepare.py:145).
THEOREM IngestionsAreReproducible == Spec => []IngestionIsReproducible
  <1>1. PipelineInv => IngestionIsReproducible
    BY DEF PipelineInv
  <1> QED
    BY PipelineInvariant, <1>1, PTL

\* Only the data itself can make a forced ingestion say no (normalize.py:136, prepare.py:100).
THEOREM ForcedIngestionsRecover == Spec => []ForcedIngestionRecovers
  <1>1. PipelineInv => ForcedIngestionRecovers
    BY DEF PipelineInv
  <1> QED
    BY PipelineInvariant, <1>1, PTL

\* A download that raises gives the verified snapshot back (download.py:292-302).
THEOREM FailedDownloadsRollBack == Spec => []FailedDownloadKeepsSnapshot
  <1>1. PipelineInv => FailedDownloadKeepsSnapshot
    BY DEF PipelineInv
  <1> QED
    BY PipelineInvariant, <1>1, PTL

\* Every file but this one stays.
OthersStay(f) ==
    \A g \in DOMAIN files \ {f} : g \in DOMAIN files' /\ files'[g] = files[g]

LEMMA PutOthersStay == ASSUME NEW f, NEW value, Put(f, value) PROVE OthersStay(f)
  BY DEF Put, OthersStay

LEMMA RemoveOthersStay == ASSUME NEW f, Remove(f) PROVE OthersStay(f)
  BY DEF Remove, OthersStay

\* A step of a job that runs without --force changes at most one file, and none that
\* was there when the job began, the class selection apart.
LEMMA ChangesWhatIsNew ==
    ASSUME PipelineInv, Next, job.outcome = "running", ~job.force
    PROVE  UNCHANGED files \/ \E f : OthersStay(f) /\ f \notin job.existed \ {"selected_classes"}
  <1>1. job.at # "ended" /\ job.existed \subseteq DOMAIN files
    BY DEF PipelineInv, JobInv, KeptInv
  <1>2. ASSUME Download PROVE UNCHANGED files \/ \E f : OthersStay(f) /\ f \notin job.existed
    <2>1. CASE ReuseSnapshot \/ RefuseDownload \/ FetchSnapshot \/ SetAsideFails \/ RestoreFails
      BY <2>1
      DEF ReuseSnapshot, RefuseDownload, FetchSnapshot, SetAsideFails, RestoreFails, Refuse, Raises
    <2>2. CASE \/ SetAsideSnapshot \/ MoveSnapshotIn \/ FinishCopy \/ WriteRawManifest
               \/ RollbackRemove \/ RollbackRestore
      <3>1. job.stage = "download" /\ job.at # "begin"
        BY <2>2 DEF SetAsideSnapshot, MoveSnapshotIn, FinishCopy, WriteRawManifest, RollbackRemove,
                    RollbackRestore, InStage
      <3>2. "source" \notin job.existed /\ "raw_manifest" \notin job.existed
        BY <1>1, <3>1 DEF PipelineInv, KeptInv
      <3>3. UNCHANGED files \/ OthersStay("source") \/ OthersStay("raw_manifest")
        BY <2>2, PutOthersStay, RemoveOthersStay
        DEF SetAsideSnapshot, MoveSnapshotIn, FinishCopy, WriteRawManifest, RollbackRemove,
            RollbackRestore, RollsBack
      <3> QED
        BY <3>2, <3>3
    <2> QED
      BY <1>2, <2>1, <2>2 DEF Download
  <1>3. ASSUME Normalize PROVE UNCHANGED files \/ \E f : OthersStay(f) /\ f \notin job.existed
    <2>1. CASE ReuseNormalized \/ RefuseNormalize
      BY <2>1 DEF ReuseNormalized, RefuseNormalize, Refuse
    <2>2. CASE WriteNormalized
      <3>1. "normalized" \notin job.existed
        BY <1>1, <2>2 DEF WriteNormalized, MayNormalize, NothingNormalized, Present
      <3> QED
        BY <2>2, <3>1, PutOthersStay DEF WriteNormalized, Raises
    <2>3. CASE WriteNormalizationManifest
      <3>1. "normalization_manifest" \notin job.existed
        BY <1>1, <2>3 DEF WriteNormalizationManifest, InStage, PipelineInv, KeptInv
      <3> QED
        BY <2>3, <3>1, PutOthersStay DEF WriteNormalizationManifest, Raises
    <2> QED
      BY <1>3, <2>1, <2>2, <2>3 DEF Normalize
  <1>4. ASSUME Prepare PROVE UNCHANGED files \/ \E f : OthersStay(f) /\ f \notin job.existed
    <2>1. CASE ReuseSplits \/ RefusePrepare \/ MakeFrames
      BY <2>1 DEF ReuseSplits, RefusePrepare, MakeFrames, Refuse, Raises
    <2>2. CASE ReplaceOutput
      <3>1. job.at \notin job.existed
        BY <1>1, <2>2 DEF ReplaceOutput, PipelineInv, KeptInv
      <3> QED
        BY <2>2, <3>1, PutOthersStay DEF ReplaceOutput, Raises
    <2>3. CASE WriteSplitManifest
      <3>1. "split_manifest" \notin job.existed
        BY <1>1, <2>3 DEF WriteSplitManifest, PipelineInv, KeptInv
      <3> QED
        BY <2>3, <3>1, PutOthersStay DEF WriteSplitManifest, Raises
    <2> QED
      BY <1>4, <2>1, <2>2, <2>3 DEF Prepare
  <1>5. CASE RefuseAnalyze \/ WriteReports \/ Kill
    BY <1>5 DEF RefuseAnalyze, WriteReports, Kill, Refuse, Raises
  <1>6. CASE WriteSelection
    BY <1>6, PutOthersStay DEF WriteSelection, Raises
  <1>7. CASE \E command \in Command, config \in Config, force \in BOOLEAN : Start(command, config, force)
    BY <1>1, <1>7 DEF Start
  <1> QED
    BY <1>2, <1>3, <1>4, <1>5, <1>6, <1>7 DEF Next

\* Without --force nothing that was there is changed (download.py:122, normalize.py:136,
\* prepare.py:100).
THEOREM NothingIsReplacedSilently == Spec => NoSilentReplacement
  <1> DEFINE Kept == job.outcome = "running" /\ ~job.force =>
                        \A f \in job.existed \ {"selected_classes"} :
                            f \in DOMAIN files' /\ files'[f] = files[f]
  <1>1. ASSUME PipelineInv, [Next]_vars PROVE [Kept]_vars
    <2> SUFFICES ASSUME Next, job.outcome = "running", ~job.force,
                        NEW f \in job.existed \ {"selected_classes"}
                 PROVE  f \in DOMAIN files' /\ files'[f] = files[f]
      BY <1>1
    <2>1. f \in DOMAIN files
      BY <1>1 DEF PipelineInv, JobInv, KeptInv
    <2>2. UNCHANGED files \/ \E g : OthersStay(g) /\ g \notin job.existed \ {"selected_classes"}
      BY <1>1, ChangesWhatIsNew
    <2> QED
      BY <2>1, <2>2 DEF OthersStay
  <1> QED
    BY PipelineInvariant, <1>1, PTL DEF Spec, NoSilentReplacement

-----------------------------------------------------------------------------
\* The classes that are selected.

\* The order of the classes, as a set of pairs.
EligiblePairs(rows, config) ==
    {w \in EligibleQueues(rows, config) \X EligibleQueues(rows, config) :
        RanksBefore(rows, w[1], w[2])}

QueueRanking(rows, config) ==
    Ranked(EligibleQueues(rows, config), LAMBDA p, q : RanksBefore(rows, p, q))

\* Parts of finite data are finite.
LEMMA CountsAreNumbers ==
    ASSUME NEW rows, IsFiniteSet(rows)
    PROVE  \A q : /\ QueueCount(rows, q) \in Nat
                  /\ IsFiniteSet(RowsOfQueue(rows, q)) /\ IsFiniteSet(RowsOfText(rows, q))
                  /\ GroupSize(rows, q) \in Nat
  <1> SUFFICES ASSUME NEW q
               PROVE  /\ QueueCount(rows, q) \in Nat
                      /\ IsFiniteSet(RowsOfQueue(rows, q)) /\ IsFiniteSet(RowsOfText(rows, q))
                      /\ GroupSize(rows, q) \in Nat
    OBVIOUS
  <1>1. RowsOfQueue(rows, q) \in SUBSET rows /\ RowsOfText(rows, q) \in SUBSET rows
    BY DEF RowsOfQueue, RowsOfText
  <1>2. IsFiniteSet(RowsOfQueue(rows, q)) /\ IsFiniteSet(RowsOfText(rows, q))
    BY <1>1, FS_Subset
  <1> QED
    BY <1>2, FS_CardinalityType DEF QueueCount, GroupSize

\* The sort key of the queues orders them, and no two share it (class_selection.py:87).
LEMMA QueuesAreOrdered ==
    ASSUME NEW rows, IsFiniteSet(rows), \A r \in rows : Attr[r].queue \in Queue, NEW config
    PROVE  /\ IsFiniteSet(EligibleQueues(rows, config))
           /\ Orders(EligiblePairs(rows, config), EligibleQueues(rows, config))
  <1> DEFINE S == EligibleQueues(rows, config)
             R == EligiblePairs(rows, config)
             all == {Attr[r].queue : r \in rows}
  <1>1. IsFiniteSet(all)
    <2> DEFINE f == [r \in rows |-> Attr[r].queue]
    <2>1. f \in Surjection(rows, all)
      BY DEF Surjection
    <2> HIDE DEF f, all
    <2> QED
      BY <2>1, FS_Surjection
  <1>2. S \in SUBSET all /\ S \subseteq Queue
    BY DEF EligibleQueues
  <1>3. IsFiniteSet(S)
    <2> HIDE DEF S, all
    <2> QED
      BY <1>1, <1>2, FS_Subset
  <1>4. \A p, q \in S : <<p, q>> \in R <=> RanksBefore(rows, p, q)
    BY DEF EligiblePairs
  <1> HIDE DEF S, R
  <1>5. \A q \in S : QueueCount(rows, q) \in Nat /\ LabelRank[q] \in Nat
    BY <1>2, CountsAreNumbers, LabelAssumption
  <1>6. \A p, q \in S : LabelRank[p] = LabelRank[q] => p = q
    BY <1>2, LabelAssumption
  <1>7. /\ \A p \in S : ~RanksBefore(rows, p, p)
        /\ \A p, q, s \in S : RanksBefore(rows, p, q) /\ RanksBefore(rows, q, s) => RanksBefore(rows, p, s)
        /\ \A p, q \in S : p = q \/ RanksBefore(rows, p, q) \/ RanksBefore(rows, q, p)
    BY <1>5, <1>6 DEF RanksBefore
  <1>8. Orders(R, S)
    BY <1>4, <1>7 DEF Orders
  <1> QED
    BY <1>3, <1>8 DEF S, R

\* The eligible queues in their order, each once.
LEMMA QueuesAreSorted ==
    ASSUME NEW rows, IsFiniteSet(rows), \A r \in rows : Attr[r].queue \in Queue, NEW config
    PROVE  SortedBy(QueueRanking(rows, config), EligibleQueues(rows, config),
                    EligiblePairs(rows, config))
  <1> DEFINE S == EligibleQueues(rows, config)
             R == EligiblePairs(rows, config)
             order == QueueRanking(rows, config)
             kth(k) == CHOOSE x \in S : Cardinality({y \in S : y = x \/ RanksBefore(rows, y, x)}) = k
  <1>1. \A x \in S : UpTo(x, S, R) = {y \in S : y = x \/ RanksBefore(rows, y, x)}
    BY DEF UpTo, EligiblePairs
  <1>2. order = [k \in 1..Cardinality(S) |-> kth(k)]
    BY DEF QueueRanking, Ranked
  <1>3. ASSUME NEW k \in 1..Cardinality(S), \E x \in S : Cardinality(UpTo(x, S, R)) = k
        PROVE  order[k] \in S /\ Cardinality(UpTo(order[k], S, R)) = k
    <2>1. order[k] = kth(k)
      BY <1>2
    <2> HIDE DEF S, R, order
    <2> QED
      BY <1>1, <1>3, <2>1
  <1>4. order = [k \in 1..Cardinality(S) |-> order[k]]
    <2> HIDE DEF kth, order
    <2> QED
      BY <1>2
  <1> QED
    BY <1>3, <1>4, QueuesAreOrdered, RankingSorts

\* The first queues of the ranking of a finite dataset are selected: as many as are
\* wanted, each once and eligible, and none that is left out is larger, or as large and
\* earlier in the alphabet (class_selection.py:87, 94).
THEOREM LargestClassesAreSelected ==
    ASSUME NEW n \in NormalizedData, NEW c \in Configuration, IsFiniteSet(RowsIn[n]),
           SelectionFeasible(RowsIn[n], c)
    PROVE  LET rows     == RowsIn[n]
               eligible == EligibleQueues(rows, c)
               k        == SelectionOf[n][c]
           IN  /\ k \in Seq(eligible) /\ Len(k) = c.classes
               /\ \A i, j \in 1..c.classes : i < j => RanksBefore(rows, k[i], k[j])
               /\ \A i \in 1..c.classes, q \in eligible \ ClassSet(k) : RanksBefore(rows, k[i], q)
  <1> DEFINE rows == RowsIn[n]
             S == EligibleQueues(rows, c)
             R == EligiblePairs(rows, c)
             order == QueueRanking(rows, c)
             k == SelectionOf[n][c]
             m == c.classes
  <1>1. m \in Nat \ {0} /\ m <= Cardinality(S)
    <2>1. m \in Nat \ {0}
      BY PipelineAssumption DEF Configuration, ConfigurationHash
    <2> QED
      BY <2>1 DEF SelectionFeasible
  <1>2. k = SubSeq(order, 1, m)
    BY DEF SelectionOf, SelectedClasses, QueueRanking
  <1>3. \A r \in rows : Attr[r].queue \in Queue
    <2>1. rows = NormalizedRows(n.revision, n.language) /\ n.revision \in Revision
      BY DEF RowsIn, NormalizedData
    <2>2. \A r \in rows : r \in Row /\ Attr[r].queue # None
      BY <2>1, RowsAssumption DEF NormalizedRows
    <2> QED
      BY <2>2, RowsAssumption
  <1>4. SortedBy(order, S, R) /\ Orders(R, S)
    BY <1>3, QueuesAreSorted, QueuesAreOrdered
  <1>5. \A p, q : <<p, q>> \in R => RanksBefore(rows, p, q)
    BY DEF EligiblePairs
  <1> HIDE DEF rows, S, R, order, k
  <1>6. /\ Cardinality(S) \in Nat /\ order \in [1..Cardinality(S) -> S]
        /\ \A x \in S : \E i \in 1..Cardinality(S) : order[i] = x
        /\ \A i, j \in 1..Cardinality(S) : i < j => <<order[i], order[j]>> \in R
    BY <1>4 DEF SortedBy
  <1>7. \A i \in 1..m : i \in 1..Cardinality(S) /\ order[i] \in S
    BY <1>1, <1>6
  <1>8. k \in Seq(S) /\ Len(k) = m /\ \A i \in 1..m : k[i] = order[i]
    BY <1>1, <1>2, <1>7, SubSeqProperties
  <1>9. \A i, j \in 1..m : i < j => RanksBefore(rows, k[i], k[j])
    BY <1>5, <1>6, <1>7, <1>8
  <1>10. ASSUME NEW i \in 1..m, NEW q \in S \ ClassSet(k) PROVE RanksBefore(rows, k[i], q)
    <2>1. PICK j \in 1..Cardinality(S) : order[j] = q
      BY <1>6
    <2>2. \A l \in 1..m : k[l] \in ClassSet(k)
      BY <1>8 DEF ClassSet
    <2>3. j \notin 1..m
      BY <1>8, <1>10, <2>1, <2>2
    <2>4. i < j
      BY <1>1, <2>1, <2>3
    <2> QED
      BY <1>5, <1>6, <1>7, <1>8, <2>1, <2>4
  <1> QED
    BY <1>8, <1>9, <1>10 DEF rows, S, k

-----------------------------------------------------------------------------
\* How the groups of a class are placed.

\* The rows of a class, their groups in order, what each part holds before each group, and
\* where each group goes.
Sizes(rows, groups) == [i \in 1..Len(groups) |-> GroupSize(rows, groups[i])]
Destination(allocated, groups, ratios) ==
    [i \in 1..Len(groups) |-> FurthestBehind(allocated[i - 1], ratios)]

\* n groups of these sizes are placed one by one, each in the part that has the least of
\* what its weight gives it.
Placing(n, size, weight, has, goes) ==
    /\ n \in Nat /\ size \in [1..n -> Nat \ {0}] /\ \A p \in Part : weight[p] \in Nat \ {0}
    /\ goes \in [1..n -> Part] /\ has \in [0..n -> [Part -> Nat]]
    /\ \A p \in Part : has[0][p] = 0
    /\ \A i \in 1..n, p \in Part :
          /\ has[i][p] = IF p = goes[i] THEN has[i - 1][p] + size[i] ELSE has[i - 1][p]
          /\ has[i - 1][goes[i]] * weight[p] <= has[i - 1][p] * weight[goes[i]]

\* Comparing fractions is transitive.
LEMMA FractionsCompare ==
    ASSUME NEW a \in Nat, NEW b \in Nat, NEW c \in Nat,
           NEW u \in Nat \ {0}, NEW v \in Nat \ {0}, NEW w \in Nat \ {0},
           a * v <= b * u, b * w <= c * v
    PROVE  a * w <= c * u
  <1>1. (a * v) * w <= (b * u) * w /\ (b * w) * u <= (c * v) * u
    <2>1. \A x, y, z \in Nat : x <= y => x * z <= y * z
      OBVIOUS
    <2>2. a * v \in Nat /\ b * u \in Nat /\ b * w \in Nat /\ c * v \in Nat
      OBVIOUS
    <2> QED
      BY <2>1, <2>2
  <1>2. (a * w) * v <= (c * u) * v
    BY <1>1
  <1>3. \A x, y \in Nat, z \in Nat \ {0} : x * z <= y * z => x <= y
    OBVIOUS
  <1> QED
    BY <1>2, <1>3

\* The part that is chosen has the least of what its weight gives it (splitting.py:244).
LEMMA FurthestBehindIsLeast ==
    ASSUME NEW allocated \in [Part -> Nat], NEW ratios, \A p \in Part : ratios[p] \in Nat \ {0}
    PROVE  LET b == FurthestBehind(allocated, ratios)
           IN  b \in Part /\ \A p \in Part : allocated[b] * ratios[p] <= allocated[p] * ratios[b]
  <1> DEFINE Behind(p, o) == allocated[p] * ratios[o] < allocated[o] * ratios[p]
             Least(p, o) == allocated[p] * ratios[o] <= allocated[o] * ratios[p]
             first == IF Behind("validation", "train") THEN "validation" ELSE "train"
             b == FurthestBehind(allocated, ratios)
  <1>1. \A p, o, s \in Part : Least(p, o) /\ Least(o, s) => Least(p, s)
    BY FractionsCompare
  <1>2. \A p, o \in Part : Behind(p, o) => Least(p, o)
    OBVIOUS
  <1>3. \A p, o \in Part : ~Behind(p, o) => Least(o, p)
    OBVIOUS
  <1>4. \A p \in Part : Least(p, p)
    OBVIOUS
  <1>5. b = IF Behind("test", first) THEN "test" ELSE first
    BY DEF FurthestBehind
  <1> HIDE DEF Behind, Least, b
  <1>6. Part = {"train", "validation", "test"}
    BY DEF Part
  <1>7. first \in Part /\ Least(first, "train") /\ Least(first, "validation")
    BY <1>2, <1>3, <1>4, <1>6
  <1> HIDE DEF first
  <1>8. b \in Part /\ \A p \in Part : Least(b, p)
    BY <1>1, <1>2, <1>3, <1>4, <1>5, <1>6, <1>7
  <1> QED
    BY <1>8 DEF b, Least

\* The recursive function of Allocation exists, and so is what it says.
LEMMA AllocationIsStepwise ==
    ASSUME NEW rows, NEW groups, Len(groups) \in Nat, NEW ratios
    PROVE  LET has == Allocation(rows, groups, ratios)
           IN  /\ has = [i \in 0..Len(groups) |-> has[i]] /\ has[0] = [p \in Part |-> 0]
               /\ \A i \in 1..Len(groups) :
                     has[i] = [has[i - 1] EXCEPT ![FurthestBehind(has[i - 1], ratios)]
                                                    = @ + GroupSize(rows, groups[i])]
  <1> DEFINE Step(x, i) == [x EXCEPT ![FurthestBehind(x, ratios)] = @ + GroupSize(rows, groups[i])]
             Def(n, f) == [i \in 0..n |-> IF i = 0 THEN [p \in Part |-> 0] ELSE Step(f[i - 1], i)]
             Good == {n \in Nat : \E f : f = Def(n, f)}
             has == Allocation(rows, groups, ratios)
  <1>1. has = CHOOSE f : f = Def(Len(groups), f)
    BY DEF Allocation
  <1> HIDE DEF Step
  <1>2. 0 \in Good
    <2>1. [i \in 0..0 |-> [p \in Part |-> 0]] = Def(0, [i \in 0..0 |-> [p \in Part |-> 0]])
      OBVIOUS
    <2> QED
      BY <2>1
  <1>3. ASSUME NEW n \in Nat, n \in Good PROVE n + 1 \in Good
    <2>1. PICK f : f = Def(n, f)
      BY <1>3
    <2> DEFINE g == [i \in 0..(n + 1) |-> IF i = n + 1 THEN Step(f[n], n + 1) ELSE f[i]]
    <2>2. \A i \in 0..n : f[i] = IF i = 0 THEN [p \in Part |-> 0] ELSE Step(f[i - 1], i)
      BY <2>1
    <2>3. \A i \in 0..(n + 1) : g[i] = IF i = 0 THEN [p \in Part |-> 0] ELSE Step(g[i - 1], i)
      <3>1. \A i \in 0..n : g[i] = f[i]
        OBVIOUS
      <3>2. \A i \in 1..(n + 1) : i - 1 \in 0..n
        OBVIOUS
      <3>3. g[n + 1] = Step(f[n], n + 1)
        OBVIOUS
      <3> HIDE DEF g
      <3> QED
        BY <2>2, <3>1, <3>2, <3>3
    <2>4. g = Def(n + 1, g)
      <3>1. g = [i \in 0..(n + 1) |-> g[i]]
        OBVIOUS
      <3> HIDE DEF g
      <3> QED
        BY <2>3, <3>1
    <2>5. \E h : h = Def(n + 1, h)
      BY <2>4
    <2> HIDE DEF Def
    <2> QED
      BY <2>5
  <1>4. Len(groups) \in Good
    <2> HIDE DEF Good
    <2> QED
      BY <1>2, <1>3, SetInduction
  <1>5. has = Def(Len(groups), has)
    <2>1. \E f : f = Def(Len(groups), f)
      BY <1>4
    <2> HIDE DEF Def, has
    <2> QED
      BY <1>1, <2>1
  <1> HIDE DEF has
  <1>6. /\ has = [i \in 0..Len(groups) |-> has[i]] /\ has[0] = [p \in Part |-> 0]
        /\ \A i \in 1..Len(groups) : has[i] = Step(has[i - 1], i)
    BY <1>5
  <1> QED
    BY <1>6 DEF has, Step

-----------------------------------------------------------------------------
\* What follows for any groups that are placed like that.

\* What the three parts have together.
Together(x) == x["train"] + x["validation"] + x["test"]

\* What a placing consists of.
LEMMA PlacingTypes ==
    ASSUME NEW n, NEW size, NEW weight, NEW has, NEW goes, Placing(n, size, weight, has, goes)
    PROVE  /\ n \in Nat /\ \A p \in Part : weight[p] \in Nat \ {0}
           /\ \A i \in 0..n : has[i] \in [Part -> Nat] /\ \A p \in Part : has[i][p] \in Nat
           /\ \A i \in 1..n : size[i] \in Nat \ {0} /\ goes[i] \in Part /\ i - 1 \in 0..n /\ i \in 0..n
           /\ \A p \in Part : has[0][p] = 0
  <1>1. n \in Nat /\ size \in [1..n -> Nat \ {0}] /\ goes \in [1..n -> Part]
    BY DEF Placing
  <1>2. has \in [0..n -> [Part -> Nat]]
    BY DEF Placing
  <1>3. \A i \in 0..n : has[i] \in [Part -> Nat]
    BY <1>2
  <1>4. \A p \in Part : has[0][p] = 0 /\ weight[p] \in Nat \ {0}
    BY DEF Placing
  <1> QED
    BY <1>1, <1>3, <1>4

\* What one group changes.
LEMMA PlacingSteps ==
    ASSUME NEW n, NEW size, NEW weight, NEW has, NEW goes, Placing(n, size, weight, has, goes),
           NEW j \in Nat, j + 1 \in 1..n
    PROVE  \A p \in Part :
              /\ has[j + 1][p] = IF p = goes[j + 1] THEN has[j][p] + size[j + 1] ELSE has[j][p]
              /\ has[j][goes[j + 1]] * weight[p] <= has[j][p] * weight[goes[j + 1]]
  <1>1. \A i \in 1..n : \A p \in Part :
          /\ has[i][p] = IF p = goes[i] THEN has[i - 1][p] + size[i] ELSE has[i - 1][p]
          /\ has[i - 1][goes[i]] * weight[p] <= has[i - 1][p] * weight[goes[i]]
    BY DEF Placing
  <1>2. (j + 1) - 1 = j
    OBVIOUS
  <1> DEFINE m == j + 1
  <1>3. \A p \in Part :
          /\ has[m][p] = IF p = goes[m] THEN has[m - 1][p] + size[m] ELSE has[m - 1][p]
          /\ has[m - 1][goes[m]] * weight[p] <= has[m - 1][p] * weight[goes[m]]
    <2>1. m \in 1..n
      OBVIOUS
    <2> HIDE DEF m
    <2> QED
      BY <1>1, <2>1
  <1> QED
    BY <1>2, <1>3

\* Every part is given a group before any is given a second one, if there are three.
LEMMA EveryPartIsGiven ==
    ASSUME NEW n, NEW size, NEW weight, NEW has, NEW goes, Placing(n, size, weight, has, goes),
           n >= 3
    PROVE  \A p \in Part : \E i \in 1..n : goes[i] = p
  <1> DEFINE g1 == goes[1]
             g2 == goes[2]
             g3 == goes[3]
  <1>1. /\ 1 \in 1..n /\ 2 \in 1..n /\ 3 \in 1..n
        /\ 0 \in 0..n /\ 1 \in 0..n /\ 2 \in 0..n
    BY PlacingTypes
  <1>2. /\ g1 \in Part /\ g2 \in Part /\ g3 \in Part
        /\ size[1] \in Nat \ {0} /\ size[2] \in Nat \ {0}
        /\ \A p \in Part : /\ weight[p] \in Nat \ {0}
                           /\ has[0][p] = 0 /\ has[1][p] \in Nat /\ has[2][p] \in Nat
    BY <1>1, PlacingTypes
  <1>0. \A p \in Part :
          /\ has[1][p] = IF p = goes[1] THEN has[0][p] + size[1] ELSE has[0][p]
          /\ has[2][p] = IF p = goes[2] THEN has[1][p] + size[2] ELSE has[1][p]
          /\ has[1][goes[2]] * weight[p] <= has[1][p] * weight[goes[2]]
          /\ has[2][goes[3]] * weight[p] <= has[2][p] * weight[goes[3]]
    <2>1. 0 + 1 = 1 /\ 1 + 1 = 2 /\ 2 + 1 = 3
      OBVIOUS
    <2>2. \A j \in {0, 1, 2} : j + 1 \in 1..n /\ j \in Nat
      BY <1>1, <2>1
    <2>3. \A j \in {0, 1, 2} : \A p \in Part :
              /\ has[j + 1][p] = IF p = goes[j + 1] THEN has[j][p] + size[j + 1] ELSE has[j][p]
              /\ has[j][goes[j + 1]] * weight[p] <= has[j][p] * weight[goes[j + 1]]
      BY <2>2, PlacingSteps
    <2> HIDE DEF g1, g2, g3
    <2>4. \A p \in Part :
              /\ has[0 + 1][p] = IF p = goes[0 + 1] THEN has[0][p] + size[0 + 1] ELSE has[0][p]
              /\ has[1 + 1][p] = IF p = goes[1 + 1] THEN has[1][p] + size[1 + 1] ELSE has[1][p]
              /\ has[1][goes[1 + 1]] * weight[p] <= has[1][p] * weight[goes[1 + 1]]
              /\ has[2][goes[2 + 1]] * weight[p] <= has[2][p] * weight[goes[2 + 1]]
      BY <2>3
    <2> QED
      BY <2>1, <2>4
  <1>3. \A p \in Part : /\ has[1][p] = IF p = g1 THEN has[0][p] + size[1] ELSE has[0][p]
                        /\ has[2][p] = IF p = g2 THEN has[1][p] + size[2] ELSE has[1][p]
    BY <1>0
  <1>4. \A p \in Part : /\ has[1][g2] * weight[p] <= has[1][p] * weight[g2]
                        /\ has[2][g3] * weight[p] <= has[2][p] * weight[g3]
    BY <1>0
  <1> HIDE DEF g1, g2, g3
  <1>5. \A x \in Nat, u, v \in Nat \ {0} : x * u <= 0 * v => x = 0
    OBVIOUS
  <1>6. g2 # g1
    <2>1. PICK p \in Part : p # g1
      BY DEF Part
    <2>2. has[1][p] = 0
      BY <1>2, <1>3, <2>1
    <2>3. has[1][g2] = 0
      BY <1>2, <1>4, <1>5, <2>1, <2>2
    <2> QED
      BY <1>2, <1>3, <2>3
  <1>7. g3 # g1 /\ g3 # g2
    <2>1. PICK p \in Part : p # g1 /\ p # g2
      BY DEF Part
    <2>2. has[2][p] = 0
      BY <1>2, <1>3, <2>1
    <2>3. has[2][g3] = 0
      BY <1>2, <1>4, <1>5, <2>1, <2>2
    <2>4. has[2][g1] # 0 /\ has[2][g2] # 0
      BY <1>2, <1>3, <1>6
    <2> QED
      BY <2>3, <2>4
  <1>8. Part = {g1, g2, g3}
    BY <1>2, <1>6, <1>7 DEF Part
  <1> QED
    BY <1>1, <1>8 DEF g1, g2, g3

\* A part that has the least of what its weight gives it has no more than that.
LEMMA LeastIsAtMostItsShare ==
    ASSUME NEW x \in [Part -> Nat], NEW weight, \A p \in Part : weight[p] \in Nat \ {0},
           NEW b \in Part, \A p \in Part : x[b] * weight[p] <= x[p] * weight[b]
    PROVE  x[b] * Together(weight) <= weight[b] * Together(x)
  <1> DEFINE a == x[b]
             w == weight[b]
             xt == x["train"]
             xv == x["validation"]
             xe == x["test"]
             wt == weight["train"]
             wv == weight["validation"]
             we == weight["test"]
  <1>1. /\ a \in Nat /\ w \in Nat /\ xt \in Nat /\ xv \in Nat /\ xe \in Nat
        /\ wt \in Nat /\ wv \in Nat /\ we \in Nat
    BY DEF Part
  <1>2. a * wt <= xt * w /\ a * wv <= xv * w /\ a * we <= xe * w
    BY DEF Part
  <1>3. Together(weight) = wt + wv + we /\ Together(x) = xt + xv + xe
    BY DEF Together
  <1> HIDE DEF a, w, xt, xv, xe, wt, wv, we
  <1>4. a * (wt + wv + we) = a * wt + a * wv + a * we
    BY <1>1
  <1>5. w * (xt + xv + xe) = xt * w + xv * w + xe * w
    BY <1>1
  <1>6. /\ a * wt \in Nat /\ a * wv \in Nat /\ a * we \in Nat
        /\ xt * w \in Nat /\ xv * w \in Nat /\ xe * w \in Nat
    BY <1>1
  <1>7. a * (wt + wv + we) <= w * (xt + xv + xe)
    BY <1>2, <1>4, <1>5, <1>6
  <1> QED
    BY <1>3, <1>7 DEF a, w

\* Placed the largest first, no part has more than its share by as much as any of its groups.
LEMMA NoPartIsOverfull ==
    ASSUME NEW n, NEW size, NEW weight, NEW has, NEW goes, Placing(n, size, weight, has, goes),
           \A i, j \in 1..n : i < j => size[i] >= size[j]
    PROVE  \A i \in 0..n, k \in 1..n :
               k <= i => (has[i][goes[k]] - size[k]) * Together(weight) <= weight[goes[k]] * Together(has[i])
  <1> DEFINE Fair(i) == \A k \in 1..n :
                 k <= i => (has[i][goes[k]] - size[k]) * Together(weight) <= weight[goes[k]] * Together(has[i])
             Good == {i \in Nat : i <= n => Fair(i)}
  <1>1. /\ n \in Nat /\ \A p \in Part : weight[p] \in Nat \ {0}
        /\ \A i \in 0..n : has[i] \in [Part -> Nat]
        /\ \A i \in 1..n : size[i] \in Nat \ {0} /\ goes[i] \in Part /\ i - 1 \in 0..n /\ i \in 0..n
    BY PlacingTypes
  <1>2. 0 \in Good
    BY <1>1
  <1>3. ASSUME NEW i \in Nat, i \in Good PROVE i + 1 \in Good
    <2> SUFFICES ASSUME i + 1 <= n, NEW k \in 1..n, k <= i + 1
                 PROVE  (has[i + 1][goes[k]] - size[k]) * Together(weight)
                            <= weight[goes[k]] * Together(has[i + 1])
      OBVIOUS
    <2> DEFINE s == size[i + 1]
               b == goes[i + 1]
               p == goes[k]
               W == Together(weight)
               old == has[i][p]
               new == has[i + 1][p]
    <2>1. i + 1 \in 1..n /\ (i + 1) - 1 = i /\ i \in 0..n /\ i + 1 \in 0..n
      BY <1>1
    <2>2. /\ s \in Nat \ {0} /\ b \in Part /\ p \in Part /\ size[k] \in Nat \ {0}
          /\ has[i] \in [Part -> Nat] /\ has[i + 1] \in [Part -> Nat]
          /\ weight[p] \in Nat \ {0}
      BY <1>1, <2>1
    <2>3. \A o \in Part : /\ has[i + 1][o] = IF o = b THEN has[i][o] + s ELSE has[i][o]
                          /\ has[i][b] * weight[o] <= has[i][o] * weight[b]
      BY <2>1, PlacingSteps
    <2>4. old \in Nat /\ new = IF p = b THEN old + s ELSE old
      BY <2>2, <2>3
    <2>5. Together(has[i + 1]) = Together(has[i]) + s /\ Together(has[i]) \in Nat /\ W \in Nat
      <3>1. /\ has[i]["train"] \in Nat /\ has[i]["validation"] \in Nat /\ has[i]["test"] \in Nat
            /\ weight["train"] \in Nat /\ weight["validation"] \in Nat /\ weight["test"] \in Nat
        BY <1>1, <2>2 DEF Part
      <3>2. /\ has[i + 1]["train"] = IF b = "train" THEN has[i]["train"] + s ELSE has[i]["train"]
            /\ has[i + 1]["validation"] = IF b = "validation" THEN has[i]["validation"] + s
                                          ELSE has[i]["validation"]
            /\ has[i + 1]["test"] = IF b = "test" THEN has[i]["test"] + s ELSE has[i]["test"]
        BY <2>3 DEF Part
      <3>3. b \in {"train", "validation", "test"}
        BY <2>2 DEF Part
      <3> QED
        BY <2>2, <3>1, <3>2, <3>3 DEF Together
    <2>6. has[i][b] * W <= weight[b] * Together(has[i])
      BY <1>1, <2>2, <2>3, LeastIsAtMostItsShare
    <2>7. (new - size[k]) * W <= weight[p] * Together(has[i])
      <3>1. CASE p = b
        <4>1. s <= size[k]
          BY <1>1, <2>1, <2>2
        <4>2. new - size[k] <= old /\ new - size[k] \in Int
          BY <2>2, <2>4, <3>1, <4>1
        <4>3. \A x \in Int, y, z \in Nat : x <= y => x * z <= y * z
          OBVIOUS
        <4>4. (new - size[k]) * W <= old * W
          BY <2>4, <2>5, <4>2, <4>3
        <4> QED
          BY <2>2, <2>4, <2>5, <2>6, <3>1, <4>2, <4>4
      <3>2. CASE p # b
        <4>1. k <= i
          BY <2>1, <3>2
        <4> QED
          BY <1>3, <2>1, <2>4, <3>2, <4>1
      <3> QED
        BY <3>1, <3>2
    <2>8. weight[p] * Together(has[i]) <= weight[p] * Together(has[i + 1])
      <3>1. \A x, y, z \in Nat : x <= y => z * x <= z * y
        OBVIOUS
      <3>2. Together(has[i]) \in Nat /\ Together(has[i + 1]) \in Nat /\ Together(has[i]) <= Together(has[i + 1])
        BY <2>2, <2>5
      <3> QED
        BY <2>2, <3>1, <3>2
    <2>9. /\ (new - size[k]) * W \in Int /\ weight[p] * Together(has[i]) \in Int
          /\ weight[p] * Together(has[i + 1]) \in Int
      BY <2>2, <2>4, <2>5
    <2> QED
      BY <2>7, <2>8, <2>9
  <1>4. Nat \subseteq Good
    <2> HIDE DEF Good
    <2> QED
      BY <1>2, <1>3, SetInduction
  <1>5. ASSUME NEW i \in 0..n PROVE Fair(i)
    <2>1. i \in Nat /\ i <= n
      BY <1>1
    <2> QED
      BY <1>4, <2>1
  <1> QED
    BY <1>5

-----------------------------------------------------------------------------
\* That the groups of a class are placed like that.

\* The order of the groups of one class, as a set of pairs.
GroupPairs(rows, q, seed) ==
    {w \in TextsOf(rows) \X TextsOf(rows) : GoesFirst(rows, q, seed, w[1], w[2])}

\* Rows that carry one label.
OneClass(rows, q) ==
    /\ IsFiniteSet(rows) /\ rows \subseteq Row
    /\ \A r \in rows : Attr[r].queue = q /\ Attr[r].queue # None /\ Attr[r].text # None

\* A text that rows have is that of some.
LEMMA GroupSizesArePositive ==
    ASSUME NEW rows, IsFiniteSet(rows)
    PROVE  /\ IsFiniteSet(TextsOf(rows))
           /\ \A t \in TextsOf(rows) : GroupSize(rows, t) \in Nat \ {0}
  <1>1. IsFiniteSet(TextsOf(rows))
    <2> DEFINE f == [r \in rows |-> Attr[r].text]
    <2>1. f \in Surjection(rows, TextsOf(rows))
      BY DEF Surjection, TextsOf
    <2> HIDE DEF f
    <2> QED
      BY <2>1, FS_Surjection
  <1>2. ASSUME NEW t \in TextsOf(rows) PROVE GroupSize(rows, t) \in Nat \ {0}
    <2>1. RowsOfText(rows, t) # {}
      BY DEF TextsOf, RowsOfText
    <2>2. IsFiniteSet(RowsOfText(rows, t)) /\ GroupSize(rows, t) \in Nat
      BY CountsAreNumbers
    <2> QED
      BY <2>1, <2>2, FS_EmptySet DEF GroupSize
  <1> QED
    BY <1>1, <1>2

\* The sort key of the groups orders them, and they come in that order (splitting.py:233).
LEMMA GroupsAreSorted ==
    ASSUME NEW rows, NEW q, OneClass(rows, q), NEW seed \in Seed
    PROVE  LET S == TextsOf(rows)
               R == GroupPairs(rows, q, seed)
           IN  Orders(R, S) /\ SortedBy(OrderedGroups(rows, q, seed), S, R)
  <1> DEFINE S == TextsOf(rows)
             R == GroupPairs(rows, q, seed)
             order == OrderedGroups(rows, q, seed)
             kth(k) == CHOOSE x \in S : Cardinality({y \in S : y = x \/ GoesFirst(rows, q, seed, y, x)}) = k
  <1>1. /\ IsFiniteSet(S)
        /\ \A t \in S : q \in Queue /\ t \in Text /\ GroupSize(rows, t) \in Nat
    <2>1. ASSUME NEW t \in S PROVE q \in Queue /\ t \in Text
      <3>1. PICK r \in rows : Attr[r].text = t
        BY DEF TextsOf
      <3>2. r \in Row /\ Attr[r].queue = q /\ q # None /\ t # None
        BY <3>1 DEF OneClass
      <3> QED
        BY <3>1, <3>2, RowsAssumption
    <2>2. IsFiniteSet(S) /\ \A t \in S : GroupSize(rows, t) \in Nat
      BY GroupSizesArePositive DEF OneClass
    <2> QED
      BY <2>1, <2>2
  <1>2. \A s, t \in S : <<s, t>> \in R <=> GoesFirst(rows, q, seed, s, t)
    BY DEF GroupPairs
  <1>3. \A x \in S : UpTo(x, S, R) = {y \in S : y = x \/ GoesFirst(rows, q, seed, y, x)}
    BY <1>2 DEF UpTo
  <1>4. order = [k \in 1..Cardinality(S) |-> kth(k)]
    BY DEF OrderedGroups, Ranked
  <1>5. ASSUME NEW k \in 1..Cardinality(S), \E x \in S : Cardinality(UpTo(x, S, R)) = k
        PROVE  order[k] \in S /\ Cardinality(UpTo(order[k], S, R)) = k
    <2>1. order[k] = kth(k)
      BY <1>4
    <2> HIDE DEF S, R, order
    <2> QED
      BY <1>3, <1>5, <2>1
  <1>6. order = [k \in 1..Cardinality(S) |-> order[k]]
    <2> HIDE DEF kth, order
    <2> QED
      BY <1>4
  <1> HIDE DEF S, R, order, kth
  <1>7. \A s, t \in S : /\ SeededRank[seed][q][t] \in Nat
                        /\ SeededRank[seed][q][s] = SeededRank[seed][q][t] => s = t
    <2> SUFFICES ASSUME NEW s \in S, NEW t \in S
                 PROVE  /\ SeededRank[seed][q][t] \in Nat
                        /\ SeededRank[seed][q][s] = SeededRank[seed][q][t] => s = t
      OBVIOUS
    <2>1. q \in Queue /\ s \in Text /\ t \in Text
      BY <1>1
    <2> QED
      BY <2>1, SeedAssumption
  <1>8. \A s, t \in S : <<s, t>> \in R <=>
            \/ GroupSize(rows, s) > GroupSize(rows, t)
            \/ GroupSize(rows, s) = GroupSize(rows, t) /\ SeededRank[seed][q][s] < SeededRank[seed][q][t]
    BY <1>2 DEF GoesFirst
  <1>9. Orders(R, S)
    BY <1>1, <1>7, <1>8 DEF Orders
  <1> QED
    BY <1>1, <1>5, <1>6, <1>9, RankingSorts DEF S, R, order

\* The groups of one class are placed one by one, the larger ones first.
LEMMA ClassIsPlaced ==
    ASSUME NEW rows, NEW q, OneClass(rows, q), NEW c \in Config
    PROVE  LET groups == OrderedGroups(rows, q, RandomSeed(c))
               n      == Cardinality(TextsOf(rows))
               size   == Sizes(rows, groups)
               has    == Allocation(rows, groups, c.ratios)
               goes   == Destination(has, groups, c.ratios)
           IN  /\ n \in Nat /\ Len(groups) = n
               /\ groups \in [1..n -> TextsOf(rows)]
               /\ \A t \in TextsOf(rows) : \E i \in 1..n : groups[i] = t
               /\ \A i, j \in 1..n : groups[i] = groups[j] => i = j
               /\ Placing(n, size, c.ratios, has, goes)
               /\ \A i, j \in 1..n : i < j => size[i] >= size[j]
               /\ \A i \in 1..n, r \in rows :
                     Attr[r].text = groups[i] => GroupAssignment(rows, q, c)[r] = goes[i]
  <1> DEFINE S == TextsOf(rows)
             R == GroupPairs(rows, q, RandomSeed(c))
             groups == OrderedGroups(rows, q, RandomSeed(c))
             n    == Cardinality(S)
             size == Sizes(rows, groups)
             weight == c.ratios
             has  == Allocation(rows, groups, weight)
             goes == Destination(has, groups, weight)
  <1>1. Orders(R, S) /\ SortedBy(groups, S, R)
    BY SeedOfSettings, GroupsAreSorted
  <1>2. \A t \in S : GroupSize(rows, t) \in Nat \ {0}
    BY GroupSizesArePositive DEF OneClass
  <1>3. \A p \in Part : weight[p] \in Nat \ {0}
    BY PipelineAssumption
  <1>4. /\ n \in Nat /\ groups \in [1..n -> S]
        /\ \A t \in S : \E i \in 1..n : groups[i] = t
        /\ \A i, j \in 1..n : i < j => <<groups[i], groups[j]>> \in R
    BY <1>1 DEF SortedBy
  <1>5. \A i, j \in 1..n : groups[i] = groups[j] => i = j
    BY <1>1, SortedIsInjective
  <1>6. \A s, t \in S : <<s, t>> \in R => GroupSize(rows, s) >= GroupSize(rows, t)
    <2>1. \A s, t \in S : <<s, t>> \in R => GoesFirst(rows, q, RandomSeed(c), s, t)
      BY DEF GroupPairs
    <2>2. \A s, t \in S : GoesFirst(rows, q, RandomSeed(c), s, t) => GroupSize(rows, s) >= GroupSize(rows, t)
      BY <1>2 DEF GoesFirst
    <2> QED
      BY <2>1, <2>2
  <1>7. /\ size = [i \in 1..Len(groups) |-> GroupSize(rows, groups[i])]
        /\ goes = [i \in 1..Len(groups) |-> FurthestBehind(has[i - 1], weight)]
    BY DEF Sizes, Destination
  <1>8. \A r \in rows : GroupAssignment(rows, q, c)[r] =
            FurthestBehind(has[(CHOOSE i \in 1..Len(groups) : groups[i] = Attr[r].text) - 1], weight)
    BY DEF GroupAssignment, TextsOf
  <1> HIDE DEF S, R, groups, size, has, goes, weight
  <1>9. groups \in Seq(S) /\ Len(groups) = n
    <2> HIDE DEF n
    <2> QED
      BY <1>4
  <1>10. /\ has = [i \in 0..n |-> has[i]] /\ has[0] = [p \in Part |-> 0]
         /\ \A i \in 1..n : has[i] = [has[i - 1] EXCEPT ![FurthestBehind(has[i - 1], weight)]
                                                            = @ + GroupSize(rows, groups[i])]
    <2>1. Len(groups) \in Nat
      BY <1>4, <1>9
    <2>2. LET h == Allocation(rows, groups, weight)
          IN  /\ h = [i \in 0..Len(groups) |-> h[i]] /\ h[0] = [p \in Part |-> 0]
              /\ \A i \in 1..Len(groups) :
                    h[i] = [h[i - 1] EXCEPT ![FurthestBehind(h[i - 1], weight)]
                                                = @ + GroupSize(rows, groups[i])]
      BY <2>1, AllocationIsStepwise
    <2> QED
      BY <1>9, <2>2 DEF has
  <1> HIDE DEF n
  <1>11. /\ size \in [1..n -> Nat \ {0}]
         /\ \A i \in 1..n : size[i] = GroupSize(rows, groups[i])
         /\ \A i \in 1..n : goes[i] = FurthestBehind(has[i - 1], weight)
         /\ goes = [i \in 1..n |-> goes[i]]
    BY <1>2, <1>4, <1>7, <1>9
  <1>12. \A i \in 0..n : has[i] \in [Part -> Nat]
    <2> DEFINE Good == {i \in Nat : i <= n => has[i] \in [Part -> Nat]}
    <2>1. 0 \in Good
      BY <1>10
    <2>2. ASSUME NEW i \in Nat, i \in Good PROVE i + 1 \in Good
      <3> SUFFICES ASSUME i + 1 <= n PROVE has[i + 1] \in [Part -> Nat]
        OBVIOUS
      <3>1. has[i] \in [Part -> Nat] /\ i + 1 \in 1..n /\ (i + 1) - 1 = i
        BY <1>4, <2>2
      <3> DEFINE x == has[i]
                 s == GroupSize(rows, groups[i + 1])
      <3>2. s \in Nat
        BY <1>11, <3>1
      <3>3. has[i + 1] = [x EXCEPT ![FurthestBehind(x, weight)] = @ + s]
        BY <1>10, <3>1
      <3> HIDE DEF x, s
      <3>4. x \in [Part -> Nat]
        BY <3>1 DEF x
      <3> DEFINE b == FurthestBehind(x, weight)
      <3>5. b \in Part
        BY DEF FurthestBehind, Part
      <3> HIDE DEF b
      <3>6. [x EXCEPT ![b] = @ + s] \in [Part -> Nat]
        BY <3>2, <3>4, <3>5
      <3> QED
        BY <3>3, <3>6 DEF b
    <2>3. Nat \subseteq Good
      <3> HIDE DEF Good
      <3> QED
        BY <2>1, <2>2, SetInduction
    <2> QED
      BY <1>4, <2>3
  <1>13. \A i \in 1..n : i - 1 \in 0..n /\ i \in 0..n
    BY <1>4
  <1>14. \A i \in 1..n : /\ goes[i] \in Part
                         /\ \A p \in Part : has[i - 1][goes[i]] * weight[p] <= has[i - 1][p] * weight[goes[i]]
    <2> SUFFICES ASSUME NEW i \in 1..n
                 PROVE  /\ goes[i] \in Part
                        /\ \A p \in Part : has[i - 1][goes[i]] * weight[p] <= has[i - 1][p] * weight[goes[i]]
      OBVIOUS
    <2> DEFINE x == has[i - 1]
    <2>1. x \in [Part -> Nat] /\ goes[i] = FurthestBehind(x, weight)
      BY <1>11, <1>12, <1>13
    <2> HIDE DEF x
    <2>2. LET b == FurthestBehind(x, weight)
          IN  b \in Part /\ \A p \in Part : x[b] * weight[p] <= x[p] * weight[b]
      BY <1>3, <2>1, FurthestBehindIsLeast
    <2> QED
      BY <2>1, <2>2 DEF x
  <1>15. ASSUME NEW i \in 1..n, NEW p \in Part
         PROVE  has[i][p] = IF p = goes[i] THEN has[i - 1][p] + size[i] ELSE has[i - 1][p]
    <2> DEFINE x == has[i - 1]
               s == GroupSize(rows, groups[i])
               b == FurthestBehind(x, weight)
    <2>1. has[i] = [x EXCEPT ![b] = @ + s]
      BY <1>10
    <2>2. x \in [Part -> Nat] /\ goes[i] = b /\ size[i] = s
      BY <1>11, <1>12, <1>13
    <2> HIDE DEF x, s, b
    <2>3. has[i][p] = IF p = b THEN x[p] + s ELSE x[p]
      BY <2>1, <2>2
    <2> QED
      BY <2>2, <2>3 DEF x
  <1>16. Placing(n, size, weight, has, goes)
    <2>1. goes \in [1..n -> Part]
      BY <1>11, <1>14
    <2>2. has \in [0..n -> [Part -> Nat]]
      <3>1. has = [i \in 0..n |-> has[i]]
        BY <1>10
      <3> QED
        BY <1>12, <3>1
    <2>3. \A p \in Part : has[0][p] = 0
      BY <1>10
    <2> QED
      BY <1>3, <1>4, <1>11, <1>14, <1>15, <2>1, <2>2, <2>3 DEF Placing
  <1>17. \A i, j \in 1..n : i < j => size[i] >= size[j]
    <2> SUFFICES ASSUME NEW i \in 1..n, NEW j \in 1..n, i < j PROVE size[i] >= size[j]
      OBVIOUS
    <2>1. groups[i] \in S /\ groups[j] \in S /\ <<groups[i], groups[j]>> \in R
      BY <1>4
    <2>2. GroupSize(rows, groups[i]) >= GroupSize(rows, groups[j])
      BY <1>6, <2>1
    <2> QED
      BY <1>11, <2>2
  <1>18. ASSUME NEW i \in 1..n, NEW r \in rows, Attr[r].text = groups[i]
         PROVE  GroupAssignment(rows, q, c)[r] = goes[i]
    <2>1. (CHOOSE j \in 1..Len(groups) : groups[j] = Attr[r].text) = i
      BY <1>5, <1>9, <1>18
    <2> QED
      BY <1>8, <1>11, <2>1
  <1> QED
    BY <1>4, <1>5, <1>9, <1>16, <1>17, <1>18 DEF S, groups, n, size, has, goes, weight

-----------------------------------------------------------------------------
\* What the parts of a class hold in the end, and what the splits therefore hold.

\* The rows of the first i groups that go to a part.
PlacedIn(rows, groups, goes, i, p) ==
    {r \in rows : \E j \in 1..i : groups[j] = Attr[r].text /\ goes[j] = p}

\* The size of two sets that share nothing.
LEMMA DisjointUnion ==
    ASSUME NEW S, IsFiniteSet(S), NEW T, IsFiniteSet(T), S \cap T = {}
    PROVE  IsFiniteSet(S \cup T) /\ Cardinality(S \cup T) = Cardinality(S) + Cardinality(T)
  <1>1. Cardinality(S \cap T) = 0
    BY FS_EmptySet
  <1>2. /\ IsFiniteSet(S \cup T) /\ Cardinality(S) \in Nat /\ Cardinality(T) \in Nat
        /\ Cardinality(S \cup T) = Cardinality(S) + Cardinality(T) - Cardinality(S \cap T)
    BY FS_Union, FS_CardinalityType
  <1> QED
    BY <1>1, <1>2

\* A part has as many rows as it is counted to have.
LEMMA AllocationCounts ==
    ASSUME NEW rows, IsFiniteSet(rows), NEW groups, NEW n, NEW weight, NEW has, NEW goes,
           Placing(n, [i \in 1..n |-> GroupSize(rows, groups[i])], weight, has, goes),
           \A i, j \in 1..n : groups[i] = groups[j] => i = j
    PROVE  \A i \in 0..n, p \in Part :
               has[i][p] = Cardinality(PlacedIn(rows, groups, goes, i, p))
  <1> DEFINE In(i, p) == PlacedIn(rows, groups, goes, i, p)
             size == [i \in 1..n |-> GroupSize(rows, groups[i])]
             Good == {i \in Nat : i <= n => \A p \in Part : has[i][p] = Cardinality(In(i, p))}
  <1>1. /\ n \in Nat
        /\ \A i \in 0..n : \A p \in Part : has[i][p] \in Nat
        /\ \A p \in Part : has[0][p] = 0
    BY PlacingTypes
  <1>2. \A i \in 1..n : size[i] = Cardinality(RowsOfText(rows, groups[i]))
    BY DEF GroupSize
  <1>3. Placing(n, size, weight, has, goes)
    OBVIOUS
  <1>4. \A i, p : In(i, p) = {r \in rows : \E j \in 1..i : groups[j] = Attr[r].text /\ goes[j] = p}
    BY DEF PlacedIn
  <1> HIDE DEF In, size
  <1>5. \A i, p : IsFiniteSet(In(i, p)) /\ Cardinality(In(i, p)) \in Nat
    <2> SUFFICES ASSUME NEW i, NEW p PROVE IsFiniteSet(In(i, p)) /\ Cardinality(In(i, p)) \in Nat
      OBVIOUS
    <2>1. In(i, p) \in SUBSET rows
      BY <1>4
    <2>2. IsFiniteSet(In(i, p))
      BY <2>1, FS_Subset
    <2> QED
      BY <2>2, FS_CardinalityType
  <1>6. 0 \in Good
    <2>1. \A p : In(0, p) = {}
      BY <1>4
    <2> QED
      BY <1>1, <2>1, FS_EmptySet
  <1>7. ASSUME NEW i \in Nat, i \in Good PROVE i + 1 \in Good
    <2> SUFFICES ASSUME i + 1 <= n, NEW p \in Part
                 PROVE  has[i + 1][p] = Cardinality(In(i + 1, p))
      OBVIOUS
    <2> DEFINE g == groups[i + 1]
               new == RowsOfText(rows, g)
    <2>1. i + 1 \in 1..n /\ i \in 0..n /\ has[i][p] = Cardinality(In(i, p))
      BY <1>1, <1>7
    <2>2. has[i + 1][p] = IF p = goes[i + 1] THEN has[i][p] + size[i + 1] ELSE has[i][p]
      BY <1>3, <2>1, PlacingSteps
    <2>3. 1..(i + 1) = 1..i \cup {i + 1}
      OBVIOUS
    <2>4. \A r : r \in new <=> r \in rows /\ Attr[r].text = g
      BY DEF RowsOfText
    <2> HIDE DEF new
    <2>5. CASE p = goes[i + 1]
      <3>1. In(i + 1, p) = In(i, p) \cup new
        BY <1>4, <2>3, <2>4, <2>5
      <3>2. In(i, p) \cap new = {}
        <4>1. \A j \in 1..i : groups[j] # g
          <5>1. \A j \in 1..i : j \in 1..n /\ j # i + 1
            BY <1>1, <2>1
          <5> QED
            BY <2>1, <5>1
        <4> QED
          BY <1>4, <2>4, <4>1
      <3>3. IsFiniteSet(new) /\ Cardinality(new) \in Nat
        BY CountsAreNumbers, FS_CardinalityType DEF new
      <3>5. Cardinality(In(i + 1, p)) = Cardinality(In(i, p)) + Cardinality(new)
        BY <1>5, <3>1, <3>2, <3>3, DisjointUnion
      <3>6. size[i + 1] = Cardinality(new)
        BY <1>2, <2>1 DEF new
      <3> QED
        BY <1>5, <2>1, <2>2, <2>5, <3>3, <3>5, <3>6
    <2>6. CASE p # goes[i + 1]
      <3>1. In(i + 1, p) = In(i, p)
        BY <1>4, <2>3, <2>6
      <3> QED
        BY <2>1, <2>2, <2>6, <3>1
    <2> QED
      BY <2>5, <2>6
  <1>8. Nat \subseteq Good
    <2> HIDE DEF Good
    <2> QED
      BY <1>6, <1>7, SetInduction
  <1>9. ASSUME NEW i \in 0..n, NEW p \in Part PROVE has[i][p] = Cardinality(In(i, p))
    BY <1>1, <1>8, <1>9
  <1> QED
    BY <1>9 DEF In

\* What a part is given of the rows of one class.
GivenTo(p, rows, q, c) == {r \in rows : GroupAssignment(rows, q, c)[r] = p}

\* How the rows of one class are divided among the parts.
LEMMA ClassIsDivided ==
    ASSUME NEW rows, NEW q, OneClass(rows, q), NEW c \in Config
    PROVE  LET part(p) == GivenTo(p, rows, q, c)
           IN  /\ \A r, s \in rows : Attr[r].text = Attr[s].text =>
                     GroupAssignment(rows, q, c)[r] = GroupAssignment(rows, q, c)[s]
               /\ Cardinality(TextsOf(rows)) >= 3 => \A p \in Part : part(p) # {}
               /\ \A p \in Part : \A r \in part(p) :
                     (Cardinality(part(p)) - GroupSize(rows, Attr[r].text)) * RatioTotal(c.ratios)
                         <= c.ratios[p] * Cardinality(rows)
  <1> DEFINE groups == OrderedGroups(rows, q, RandomSeed(c))
             n    == Cardinality(TextsOf(rows))
             size == Sizes(rows, groups)
             weight == c.ratios
             has  == Allocation(rows, groups, weight)
             goes == Destination(has, groups, weight)
             assigned == GroupAssignment(rows, q, c)
             part(p) == {r \in rows : assigned[r] = p}
             texts == TextsOf(rows)
  <1>1. /\ n \in Nat /\ Len(groups) = n
        /\ groups \in [1..n -> texts]
        /\ \A t \in texts : \E i \in 1..n : groups[i] = t
        /\ \A i, j \in 1..n : groups[i] = groups[j] => i = j
        /\ Placing(n, size, weight, has, goes)
        /\ \A i, j \in 1..n : i < j => size[i] >= size[j]
        /\ \A i \in 1..n, r \in rows : Attr[r].text = groups[i] => assigned[r] = goes[i]
    BY ClassIsPlaced
  <1>2. size = [i \in 1..n |-> GroupSize(rows, groups[i])]
    BY <1>1 DEF Sizes
  <1>3. IsFiniteSet(rows) /\ \A r \in rows : Attr[r].text \in texts
    BY DEF OneClass, TextsOf
  <1>4. \A t \in texts : \E r \in rows : Attr[r].text = t
    BY DEF TextsOf
  <1> HIDE DEF groups, n, size, weight, has, goes, assigned, texts
  <1>5. \A r \in rows : \E i \in 1..n : groups[i] = Attr[r].text /\ assigned[r] = goes[i]
    BY <1>1, <1>3
  <1>6. \A r, s \in rows : Attr[r].text = Attr[s].text => assigned[r] = assigned[s]
    BY <1>1, <1>5
  <1>7. ASSUME n >= 3, NEW p \in Part PROVE part(p) # {}
    <2>1. PICK i \in 1..n : goes[i] = p
      BY <1>1, <1>7, EveryPartIsGiven
    <2>2. PICK r \in rows : Attr[r].text = groups[i]
      BY <1>1, <1>4
    <2> QED
      BY <1>1, <2>1, <2>2
  <1>8. \A p : part(p) = PlacedIn(rows, groups, goes, n, p)
    BY <1>1, <1>5 DEF PlacedIn
  <1>9. /\ n \in 0..n
        /\ \A p \in Part : has[n][p] = Cardinality(part(p))
    <2>1. Placing(n, [i \in 1..n |-> GroupSize(rows, groups[i])], weight, has, goes)
      BY <1>1, <1>2
    <2>2. n \in 0..n
      BY <1>1
    <2>3. \A p \in Part : has[n][p] = Cardinality(PlacedIn(rows, groups, goes, n, p))
      BY <1>1, <1>3, <2>1, <2>2, AllocationCounts
    <2> QED
      BY <1>8, <2>2, <2>3
  <1>10. \A i \in 1..n : goes[i] \in Part
    BY <1>1, PlacingTypes
  <1>11. Cardinality(rows) = Together(has[n])
    <2> HIDE DEF part
    <2>1. rows = (part("train") \cup part("validation")) \cup part("test")
      BY <1>5, <1>10 DEF Part, part
    <2>2. /\ part("train") \cap part("validation") = {}
          /\ (part("train") \cup part("validation")) \cap part("test") = {}
      BY DEF part
    <2>3. \A p : IsFiniteSet(part(p)) /\ Cardinality(part(p)) \in Nat
      <3> SUFFICES ASSUME NEW p PROVE IsFiniteSet(part(p)) /\ Cardinality(part(p)) \in Nat
        OBVIOUS
      <3>1. part(p) \in SUBSET rows
        BY DEF part
      <3>2. IsFiniteSet(part(p))
        BY <1>3, <3>1, FS_Subset
      <3> QED
        BY <3>2, FS_CardinalityType
    <2>4. /\ IsFiniteSet(part("train") \cup part("validation"))
          /\ Cardinality(part("train") \cup part("validation"))
                = Cardinality(part("train")) + Cardinality(part("validation"))
      BY <2>2, <2>3, DisjointUnion
    <2>5. Cardinality(rows) = Cardinality(part("train") \cup part("validation")) + Cardinality(part("test"))
      BY <2>1, <2>2, <2>3, <2>4, DisjointUnion
    <2> QED
      BY <1>9, <2>3, <2>4, <2>5 DEF Together, Part
  <1>12. Together(weight) = RatioTotal(weight)
    BY DEF Together, RatioTotal
  <1>13. ASSUME NEW p \in Part, NEW r \in part(p)
         PROVE  (Cardinality(part(p)) - GroupSize(rows, Attr[r].text)) * RatioTotal(weight)
                    <= weight[p] * Cardinality(rows)
    <2>1. PICK i \in 1..n : groups[i] = Attr[r].text /\ goes[i] = p
      BY <1>5
    <2>2. i <= n
      BY <1>1
    <2>3. (has[n][goes[i]] - size[i]) * Together(weight) <= weight[goes[i]] * Together(has[n])
      BY <1>1, <1>9, <2>2, NoPartIsOverfull
    <2>4. size[i] = GroupSize(rows, Attr[r].text)
      BY <1>2, <2>1
    <2> QED
      BY <1>9, <1>11, <1>12, <2>1, <2>3, <2>4
  <1> QED
    BY <1>6, <1>7, <1>13 DEF n, assigned, weight, GivenTo

\* The rows of one class among those that are usable, and where they go.
LEMMA ClassesOfSplits ==
    ASSUME NEW n \in NormalizedData, IsFiniteSet(RowsIn[n]), NEW k, NEW c \in Config
    PROVE  LET usable == UsableRows(RowsIn[n], k)
               split  == PreparedSplits(RowsIn[n], k, c)
               class(q) == RowsOfQueue(usable, q)
           IN  /\ IsFiniteSet(usable)
               /\ \A q : OneClass(class(q), q)
               /\ \A p \in Part : split[p] \subseteq usable
               /\ \A r \in usable : Attr[r].queue \in ClassSet(k)
               /\ \A p \in Part, q \in ClassSet(k) :
                     RowsOfQueue(split[p], q) = GivenTo(p, class(q), q, c)
               /\ \A r, s \in usable : Attr[r].text = Attr[s].text => Attr[r].queue = Attr[s].queue
  <1> DEFINE rows   == RowsIn[n]
             usable == UsableRows(rows, k)
             split  == PreparedSplits(rows, k, c)
             class(q) == RowsOfQueue(usable, q)
             chosen == SelectedRows(rows, k)
  <1>1. \A r \in rows : r \in Row /\ Attr[r].queue # None /\ Attr[r].text # None
    <2>1. rows = NormalizedRows(n.revision, n.language) /\ n.revision \in Revision
      BY DEF RowsIn, NormalizedData
    <2> QED
      BY <2>1, RowsAssumption DEF NormalizedRows
  <1>2. usable = {r \in chosen : Attr[r].text \notin Contradictory(chosen)}
    BY DEF UsableRows
  <1>3. chosen = {r \in rows : Attr[r].queue \in ClassSet(k)}
    BY DEF SelectedRows
  <1>4. split = [p \in Part |-> {r \in usable :
                    [q \in ClassSet(k) |-> GroupAssignment(class(q), q, c)][Attr[r].queue][r] = p}]
    BY DEF PreparedSplits
  <1>5. \A q : class(q) = {r \in usable : Attr[r].queue = q}
    BY DEF RowsOfQueue
  <1>6. \A r, s \in chosen : Attr[r].text = Attr[s].text /\ Attr[r].queue # Attr[s].queue =>
            Attr[r].text \in Contradictory(chosen)
    BY DEF Contradictory, TextsOf, RowsOfText
  <1> HIDE DEF rows, usable, split, class, chosen
  <1>7. usable \in SUBSET rows /\ IsFiniteSet(usable)
    <2>1. usable \in SUBSET rows
      BY <1>2, <1>3
    <2> QED
      BY <2>1, FS_Subset DEF rows
  <1>8. ASSUME NEW q PROVE OneClass(class(q), q)
    <2>1. class(q) \in SUBSET usable /\ class(q) \subseteq rows
      BY <1>5, <1>7
    <2>2. IsFiniteSet(class(q))
      BY <1>7, <2>1, FS_Subset
    <2> QED
      BY <1>1, <1>5, <2>1, <2>2 DEF OneClass
  <1>9. \A p \in Part : split[p] = {r \in usable : GroupAssignment(class(Attr[r].queue), Attr[r].queue, c)[r] = p}
    BY <1>2, <1>3, <1>4
  <1>10. ASSUME NEW p \in Part, NEW q \in ClassSet(k)
         PROVE  RowsOfQueue(split[p], q) = GivenTo(p, class(q), q, c)
    BY <1>5, <1>9 DEF RowsOfQueue, GivenTo
  <1>11. \A r, s \in usable : Attr[r].text = Attr[s].text => Attr[r].queue = Attr[s].queue
    BY <1>2, <1>6
  <1>12. \A r \in usable : Attr[r].queue \in ClassSet(k)
    BY <1>2, <1>3
  <1>13. \A p \in Part : split[p] \subseteq usable
    BY <1>9
  <1> QED
    BY <1>7, <1>8, <1>10, <1>11, <1>12, <1>13 DEF rows, usable, split, class

\* No text is in two parts of the splits that are made, whatever classes were selected:
\* the checks after the assignment find no text in two parts (splitting.py:60, 241).
THEOREM PartsShareNoText ==
    ASSUME NEW n \in NormalizedData, IsFiniteSet(RowsIn[n]), NEW k, NEW c \in Config,
           NEW one \in Part, NEW other \in Part, one # other
    PROVE  LET split == PreparedSplits(RowsIn[n], k, c)
           IN  /\ split[one] \cap split[other] = {}
               /\ TextsOf(split[one]) \cap TextsOf(split[other]) = {}
  <1> DEFINE usable == UsableRows(RowsIn[n], k)
             split  == PreparedSplits(RowsIn[n], k, c)
             class(q) == RowsOfQueue(usable, q)
             goes(q) == GroupAssignment(class(q), q, c)
  <1>1. /\ \A q : OneClass(class(q), q)
        /\ \A p \in Part : split[p] \subseteq usable
        /\ \A r \in usable : Attr[r].queue \in ClassSet(k)
        /\ \A p \in Part, q \in ClassSet(k) :
              RowsOfQueue(split[p], q) = GivenTo(p, class(q), q, c)
        /\ \A r, s \in usable : Attr[r].text = Attr[s].text => Attr[r].queue = Attr[s].queue
    BY ClassesOfSplits
  <1>2. \A q : \A x, y \in class(q) : Attr[x].text = Attr[y].text => goes(q)[x] = goes(q)[y]
    BY <1>1, ClassIsDivided
  <1>3. \A p \in Part, q \in ClassSet(k) :
            RowsOfQueue(split[p], q) = {r \in class(q) : goes(q)[r] = p}
    BY <1>1 DEF GivenTo
  <1> HIDE DEF usable, split, class, goes
  <1>4. ASSUME NEW r \in split[one], NEW s \in split[other], Attr[r].text = Attr[s].text PROVE FALSE
    <2> DEFINE q == Attr[r].queue
    <2>1. q \in ClassSet(k) /\ Attr[s].queue = q
      BY <1>1, <1>4
    <2>2. r \in RowsOfQueue(split[one], q) /\ s \in RowsOfQueue(split[other], q)
      BY <2>1 DEF RowsOfQueue
    <2> HIDE DEF q
    <2>3. r \in class(q) /\ s \in class(q) /\ goes(q)[r] = one /\ goes(q)[s] = other
      BY <1>3, <2>1, <2>2
    <2> QED
      BY <1>2, <1>4, <2>3
  <1> QED
    BY <1>4 DEF TextsOf, split

\* A class with three texts has rows in every part (splitting.py:226, 241).
THEOREM EveryPartHasEveryClass ==
    ASSUME NEW n \in NormalizedData, IsFiniteSet(RowsIn[n]), NEW k, NEW c \in Config,
           EnoughGroups(RowsIn[n], k), NEW p \in Part, NEW q \in ClassSet(k)
    PROVE  RowsOfQueue(PreparedSplits(RowsIn[n], k, c)[p], q) # {}
  <1> DEFINE usable == UsableRows(RowsIn[n], k)
             class  == RowsOfQueue(usable, q)
  <1>1. Cardinality(Part) = 3
    <2>1. Part = ({"train"} \cup {"validation"}) \cup {"test"}
      BY DEF Part
    <2>2. /\ IsFiniteSet({"train"}) /\ IsFiniteSet({"validation"}) /\ IsFiniteSet({"test"})
          /\ Cardinality({"train"}) = 1 /\ Cardinality({"validation"}) = 1 /\ Cardinality({"test"}) = 1
      BY FS_Singleton
    <2>3. {"train"} \cap {"validation"} = {} /\ ({"train"} \cup {"validation"}) \cap {"test"} = {}
      OBVIOUS
    <2>4. /\ IsFiniteSet({"train"} \cup {"validation"})
          /\ Cardinality({"train"} \cup {"validation"}) = 1 + 1
      BY <2>2, <2>3, DisjointUnion
    <2> QED
      BY <2>1, <2>2, <2>3, <2>4, DisjointUnion
  <1>2. Cardinality(TextsOf(class)) >= 3
    BY <1>1 DEF EnoughGroups
  <1>3. /\ OneClass(class, q)
        /\ RowsOfQueue(PreparedSplits(RowsIn[n], k, c)[p], q) = GivenTo(p, class, q, c)
    BY ClassesOfSplits
  <1> HIDE DEF class
  <1>4. GivenTo(p, class, q, c) # {}
    BY <1>2, <1>3, ClassIsDivided
  <1> QED
    BY <1>3, <1>4

\* What a part is given of a class exceeds its share of the class by no more than the rows
\* of any one text among it: a part is overfull by at most its smallest group
\* (splitting.py:233, 241).
THEOREM PartsAreNearTheirShare ==
    ASSUME NEW n \in NormalizedData, IsFiniteSet(RowsIn[n]), NEW k, NEW c \in Config,
           NEW p \in Part, NEW q \in ClassSet(k)
    PROVE  LET class == RowsOfQueue(UsableRows(RowsIn[n], k), q)
               given == RowsOfQueue(PreparedSplits(RowsIn[n], k, c)[p], q)
           IN  \A t \in TextsOf(given) :
                   (Cardinality(given) - GroupSize(class, t)) * RatioTotal(c.ratios)
                       <= c.ratios[p] * Cardinality(class)
  <1> DEFINE class == RowsOfQueue(UsableRows(RowsIn[n], k), q)
             given == RowsOfQueue(PreparedSplits(RowsIn[n], k, c)[p], q)
             part  == GivenTo(p, class, q, c)
  <1>1. OneClass(class, q) /\ given = part
    BY ClassesOfSplits
  <1>2. \A r \in part : (Cardinality(part) - GroupSize(class, Attr[r].text)) * RatioTotal(c.ratios)
                            <= c.ratios[p] * Cardinality(class)
    <2> HIDE DEF class
    <2> QED
      BY <1>1, ClassIsDivided
  <1> HIDE DEF class, given, part
  <1>3. \A t \in TextsOf(given) : \E r \in part : Attr[r].text = t
    BY <1>1 DEF TextsOf
  <1> QED
    BY <1>1, <1>2, <1>3 DEF class, given

\* When every selected class has enough texts, the splits that are made can be refused for
\* their tolerances alone (splitting.py:80, 130).
THEOREM OnlyTolerancesRefuse ==
    ASSUME NEW n \in NormalizedData, IsFiniteSet(RowsIn[n]), NEW k, ClassSet(k) # {},
           NEW c \in Config, EnoughGroups(RowsIn[n], k)
    PROVE  LET split == PreparedSplits(RowsIn[n], k, c)
           IN  SplitsValid(split, k, c) <=> SharesWithinTolerance(split, k, c)
  <1> DEFINE split == PreparedSplits(RowsIn[n], k, c)
  <1>1. \A p, o \in Part : p # o => /\ split[p] \cap split[o] = {}
                                    /\ TextsOf(split[p]) \cap TextsOf(split[o]) = {}
    BY PartsShareNoText
  <1>2. \A p \in Part, q \in ClassSet(k) : RowsOfQueue(split[p], q) # {}
    BY EveryPartHasEveryClass
  <1> HIDE DEF split
  <1>3. UNION {split[p] : p \in Part} # {}
    <2>1. "train" \in Part
      BY DEF Part
    <2>2. PICK q \in ClassSet(k) : TRUE
      OBVIOUS
    <2>3. split["train"] # {}
      BY <1>2, <2>1, <2>2 DEF RowsOfQueue
    <2> QED
      BY <2>1, <2>3
  <1> QED
    BY <1>1, <1>2, <1>3 DEF SplitsValid, split

=============================================================================
