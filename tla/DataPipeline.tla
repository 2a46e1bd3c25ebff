---------------------------- MODULE DataPipeline ----------------------------
\* The files of the data pipeline and the jobs that make them: download, normalize,
\* analyze and prepare (data/download.py, normalize.py, analyze.py, prepare.py), run
\* one by one from the command line or in a row by ingest_data_flow.  One operator
\* runs one job at a time.  A job is cut at every change of a file that another job
\* can read; it can be killed or raise at each of them.  Temporary files, and the
\* reports that nothing reads back, are left out.
EXTENDS GroupSplit

CONSTANTS Config,          \* settings an operator may run under: configuration and environment
          Platform,        \* hosts that spell the same JSON with other bytes
          Retries,         \* temporary_failure_retries of the flow's first two tasks
          MaxJobs,         \* bound on the jobs of one behaviour
          MaxFaults        \* bound on its kills and exceptions

ASSUME PipelineAssumption ==
    /\ \A c \in Config : /\ c.revision \in Revision /\ c.language \in STRING
                         /\ c.seed \in Seed /\ c.override \in Seed \cup {None}
                         /\ c.classes \in Nat \ {0} /\ c.minimum \in Nat \ {0}
                         /\ \A p \in Part : c.ratios[p] \in Nat \ {0}
    /\ Retries \in Nat
    /\ MaxJobs \in Nat /\ MaxFaults \in Nat

\* configuration_hash covers the versioned configuration, never the environment: the
\* seed of GLOBAL_RANDOM_SEED, which splits the rows, is no part of it.
ConfigurationHash(config) ==
    [revision |-> config.revision, language |-> config.language, classes |-> config.classes,
     minimum  |-> config.minimum, ratios |-> config.ratios, seed |-> config.seed]

Configuration == {ConfigurationHash(c) : c \in Config}

\* Normalised data is named by what determines it.
NormalizedData == [revision : Revision, language : {c.language : c \in Config}]

\* The algorithms of the other modules tabulated over everything a job can give them.
RowsIn == [n \in NormalizedData |-> NormalizedRows(n.revision, n.language)]

SelectionOf ==
    [n \in NormalizedData |-> [c \in Configuration |->
        IF SelectionFeasible(RowsIn[n], c) THEN SelectedClasses(RowsIn[n], c) ELSE None]]

Selections == {SelectionOf[n][c] : n \in NormalizedData, c \in Configuration} \ {None}

UsableIn == [n \in NormalizedData |-> [k \in Selections |-> UsableRows(RowsIn[n], k)]]

ContradictoryIn ==
    [n \in NormalizedData |-> [k \in Selections |-> Contradictory(SelectedRows(RowsIn[n], k))]]

SplitsOf ==
    [n \in NormalizedData |-> [k \in Selections |-> [c \in Config |->
        IF PreparationFeasible(RowsIn[n], k, c) THEN PreparedSplits(RowsIn[n], k, c) ELSE None]]]

\* What each configuration gives when nothing is there yet.
FromScratch ==
    [c \in Config |->
        LET n       == [revision |-> c.revision, language |-> c.language]
            classes == SelectionOf[n][ConfigurationHash(c)]
        IN  IF classes = None THEN None ELSE SplitsOf[n][classes][c]]

VARIABLES files,    \* what each file holds that exists: a function on their names
          job,      \* the job that runs, or the last one that ended
          jobs,     \* how many jobs have been started
          faults    \* how many kills and exceptions there have been

vars == <<files, job, jobs, faults>>

Output == {"train", "validation", "test", "training_reference"}

FileName == {"source", "raw_manifest", "normalized", "normalization_manifest",
             "selected_classes", "split_manifest"} \cup Output

Stage == {"download", "normalize", "analyze", "prepare"}

Command == Stage \cup {"ingest"}

FirstStage(command) == IF command = "ingest" THEN "download" ELSE command

Following == [download |-> "normalize", normalize |-> "analyze", analyze |-> "prepare"]

Present(f) == f \in DOMAIN files

Holds(f, value) == Present(f) /\ files[f] = value

Put(f, value) ==
    files' = [g \in DOMAIN files \cup {f} |-> IF g = f THEN value ELSE files[g]]

Remove(f) == files' = [g \in DOMAIN files \ {f} |-> files[g]]

-----------------------------------------------------------------------------
\* Contents of files.  Two files have one hash when they have one content.

Snapshot(revision) == [revision |-> revision, whole |-> TRUE]
BrokenSnapshot(revision) == [revision |-> revision, whole |-> FALSE]

\* Manifests carry the time they were written; a stamp stands for it.  It is the
\* smallest that tells the manifest from the like ones other files still point at.
FreshStamp(others) ==
    LET free == (1..3) \ {m.stamp : m \in others}
    IN  CHOOSE s \in free : \A t \in free : s <= t

SourcesOfSplits ==
    IF Present("split_manifest") THEN {files["split_manifest"].sources.normalization_manifest} ELSE {}

RawManifestsInUse ==
    {m.raw_manifest : m \in SourcesOfSplits \cup
        (IF Present("normalization_manifest") THEN {files["normalization_manifest"]} ELSE {})}

RawManifest(config, content) ==
    LET configuration == ConfigurationHash(config)
    IN  [configuration |-> configuration, content |-> content,
         stamp |-> FreshStamp({m \in RawManifestsInUse :
                       m.configuration = configuration /\ m.content = content})]

NormalizationManifest(config, output) ==
    LET configuration == ConfigurationHash(config)
    IN  [configuration |-> configuration, raw_manifest |-> files["raw_manifest"], output |-> output,
         stamp |-> FreshStamp({m \in SourcesOfSplits :
                       /\ m.configuration = configuration /\ m.output = output
                       /\ m.raw_manifest = files["raw_manifest"]})]

Normalized(snapshot, language) == [revision |-> snapshot.revision, language |-> language]

\* The report of the class selection.  Hosts end its lines differently.
SelectionReport(normalized, config, platform) ==
    LET classes == SelectionOf[normalized][ConfigurationHash(config)]
    IN  [input |-> normalized, configuration |-> ConfigurationHash(config),
         requested |-> config.classes, minimum |-> config.minimum, classes |-> classes,
         counts |-> ClassCounts(RowsIn[normalized], classes), spelling |-> platform]

\* The reference is a row-by-row summary of the train part.
OutputFrames(splits) ==
    [o \in Output |-> IF o = "training_reference" THEN splits["train"] ELSE splits[o]]

\* The manifest records the seed of the splits, and the hash that leaves it out.
SplitManifest(config, outputs) ==
    LET selection == files["selected_classes"]
    IN  [sources |-> [normalized |-> files["normalized"],
                      normalization_manifest |-> files["normalization_manifest"],
                      selected_classes |-> selection],
         configuration |-> ConfigurationHash(config),
         random_seed   |-> RandomSeed(config),
         classes |-> selection.classes,
         counts  |-> [q \in ClassSet(selection.classes) |->
                         QueueCount(UNION {outputs[p] : p \in Part}, q)],
         outputs |-> outputs]

-----------------------------------------------------------------------------
\* Jobs.

NoJob == [at |-> "ended", command |-> "none", stage |-> "none", force |-> FALSE,
          config |-> None, tries |-> 0, held |-> None, backup |-> {}, existed |-> {},
          verified |-> FALSE, blocked |-> FALSE, outcome |-> "none"]

\* The files in place are those of the raw manifest.
SnapshotVerifies ==
    Present("raw_manifest") /\ Holds("source", files["raw_manifest"].content)

Advance(j) == job' = j /\ UNCHANGED <<jobs, faults>>

Break(j) == faults < MaxFaults /\ faults' = faults + 1 /\ job' = j /\ UNCHANGED jobs

Start(command, config, force) ==
    /\ job.at = "ended"
    /\ force => command # "analyze"
    /\ jobs < MaxJobs /\ jobs' = jobs + 1
    /\ job' = [NoJob EXCEPT !.at = "begin", !.command = command, !.stage = FirstStage(command),
                            !.force = force, !.config = config,
                            !.existed = IF force THEN {} ELSE DOMAIN files,
                            !.verified = FirstStage(command) = "download" /\ SnapshotVerifies,
                            !.outcome = "running"]
    /\ UNCHANGED <<files, faults>>

InStage(stage, at) == job.at = at /\ job.stage = stage

\* Of a job that has ended only what is said of it later is kept.
Ended(outcome) ==
    CASE outcome \in {"ok", "refused"} /\ job.command = "ingest" /\ (job.force \/ outcome = "ok") ->
            [NoJob EXCEPT !.command = "ingest", !.force = job.force, !.config = job.config,
                          !.outcome = outcome]
      [] outcome = "failed" /\ job.stage = "download" ->
            [NoJob EXCEPT !.command = "download", !.verified = job.verified,
                          !.blocked = job.blocked, !.outcome = outcome]
      [] OTHER -> [NoJob EXCEPT !.outcome = outcome]

StageDone ==
    Advance(IF job.command # "ingest" \/ job.stage = "prepare" THEN Ended("ok")
            ELSE [job EXCEPT !.at = "begin", !.stage = Following[job.stage], !.tries = 0,
                             !.held = None, !.backup = {}, !.verified = FALSE, !.blocked = FALSE])

\* A task that is run again without counting.
MayRetry_Uncounted ==
    /\ job.command = "ingest"
    /\ job.stage \in {"download", "normalize"}

MayRetry ==
    /\ job.command = "ingest"
    /\ job.stage \in {"download", "normalize"}
    /\ job.tries < Retries

\* An exception ends the job, or the flow runs the task again.
AfterException ==
    IF MayRetry
    THEN [job EXCEPT !.at = "begin", !.tries = @ + 1, !.held = None, !.backup = {}]
    ELSE Ended("failed")

Raises == Break(AfterException) /\ UNCHANGED files

\* A check that says no says no again when the task is retried.
Refuse == Advance(Ended("refused")) /\ UNCHANGED files

GoTo(at) == Advance([job EXCEPT !.at = at])

\* An exception inside _replace_raw_snapshot is caught by its own except branch.
RollsBack == Break([job EXCEPT !.at = "rollback"]) /\ UNCHANGED files

-----------------------------------------------------------------------------
\* download_dataset.

\* _validate_cached_manifest: made for these settings, and every file has its hash.
RawCacheValid ==
    SnapshotVerifies /\ files["raw_manifest"].configuration = ConfigurationHash(job.config)

ReuseSnapshot ==
    /\ InStage("download", "begin")
    /\ ~job.force /\ RawCacheValid
    /\ StageDone
    /\ UNCHANGED files

RefuseDownload ==
    /\ InStage("download", "begin")
    /\ ~job.force
    /\ IF Present("raw_manifest") THEN ~RawCacheValid ELSE Present("source")
    /\ Refuse

MayFetch == job.force \/ (~Present("raw_manifest") /\ ~Present("source"))

\* Resolving, downloading and describing a revision touches only the work directory.
FetchSnapshot ==
    /\ InStage("download", "begin")
    /\ MayFetch
    /\ \/ /\ Advance([job EXCEPT !.at = "fetched", !.held = Snapshot(job.config.revision)])
          /\ UNCHANGED files
       \/ Raises

\* _replace_raw_snapshot sets the old files aside, ...
SetAsideSnapshot ==
    /\ InStage("download", "fetched")
    /\ Advance([job EXCEPT !.at = "aside",
                           !.backup = {files[f] : f \in DOMAIN files \cap {"source"}}])
    /\ Remove("source")

\* ... (and when that raises, the except branch takes the files for a half-made copy)
SetAsideFails ==
    /\ InStage("download", "fetched")
    /\ Present("source")
    /\ Break([job EXCEPT !.at = "rollback", !.blocked = TRUE])
    /\ UNCHANGED files

\* ... moves the new ones in, which between two file systems is a copy that can stop half-way, ...
MoveSnapshotIn ==
    /\ InStage("download", "aside")
    /\ \/ GoTo("placed") /\ Put("source", job.held)
       \/ GoTo("copying") /\ Put("source", BrokenSnapshot(job.held.revision))
       \/ RollsBack

FinishCopy ==
    /\ InStage("download", "copying")
    /\ \/ GoTo("placed") /\ Put("source", job.held)
       \/ RollsBack

\* ... and writes the manifest last.
WriteRawManifest ==
    /\ InStage("download", "placed")
    /\ \/ Put("raw_manifest", RawManifest(job.config, job.held)) /\ StageDone
       \/ RollsBack

\* rmtree(ignore_errors=True): what cannot be removed is left there, whole or in part.
RollbackRemove ==
    /\ InStage("download", "rollback")
    /\ \/ GoTo("restore") /\ Remove("source")
       \/ /\ Present("source")
          /\ Break([job EXCEPT !.at = "restore"])
          /\ \E left \in {files["source"], BrokenSnapshot(files["source"].revision)} :
                Put("source", left)

\* A rollback that forgets the files set aside.
RollbackRestore_Forgets ==
    /\ InStage("download", "restore")
    /\ job.backup # {} => ~Present("source")
    /\ Advance(AfterException)
    /\ UNCHANGED files

RollbackRestore ==
    /\ InStage("download", "restore")
    /\ job.backup # {} => ~Present("source")
    /\ Advance(AfterException)
    /\ IF job.backup = {} THEN UNCHANGED files
       ELSE \E snapshot \in job.backup : Put("source", snapshot)

\* The rename that gives the files back raises in its turn, always when files are still
\* in its way: they stay where nothing looks for them.
RestoreFails ==
    /\ InStage("download", "restore")
    /\ job.backup # {}
    /\ LET lost == [AfterException EXCEPT !.blocked = TRUE]
       IN  IF Present("source") THEN Advance(lost) ELSE Break(lost)
    /\ UNCHANGED files

-----------------------------------------------------------------------------
\* normalize_dataset.

BothNormalized == Present("normalized") /\ Present("normalization_manifest")
NothingNormalized == ~Present("normalized") /\ ~Present("normalization_manifest")

NormalizationCacheValid ==
    LET manifest == files["normalization_manifest"]
    IN  /\ Holds("raw_manifest", manifest.raw_manifest)
        /\ manifest.configuration = ConfigurationHash(job.config)
        /\ Holds("normalized", manifest.output)

ReuseNormalized ==
    /\ InStage("normalize", "begin")
    /\ ~job.force /\ BothNormalized /\ NormalizationCacheValid
    /\ StageDone
    /\ UNCHANGED files

\* Half-made output stops every normalisation, forced ones too.
MayNormalize_NeedsCleanStart ==
    /\ SnapshotVerifies
    /\ NothingNormalized \/ (job.force /\ BothNormalized)

MayNormalize ==
    /\ SnapshotVerifies
    /\ job.force \/ NothingNormalized

RefuseNormalize ==
    /\ InStage("normalize", "begin")
    /\ ~MayNormalize
    /\ ~(~job.force /\ BothNormalized /\ NormalizationCacheValid)
    /\ Refuse

\* The rows reach their place in one os.replace; the manifest follows.
WriteNormalized ==
    /\ InStage("normalize", "begin")
    /\ MayNormalize
    /\ LET output == Normalized(files["source"], job.config.language)
       IN  \/ /\ Advance([job EXCEPT !.at = "written", !.held = output])
              /\ Put("normalized", output)
           \/ Raises

WriteNormalizationManifest ==
    /\ InStage("normalize", "written")
    /\ \/ Put("normalization_manifest", NormalizationManifest(job.config, job.held)) /\ StageDone
       \/ Raises

-----------------------------------------------------------------------------
\* run_analysis; the flow's separate validation task repeats its checks.

\* validate_normalized_frame: rows carry the language they were kept for.
LanguageAccepted(config) == files["normalized"].language = config.language

NormalizedVerifies ==
    /\ Present("normalization_manifest")
    /\ Holds("normalized", files["normalization_manifest"].output)

MayAnalyze ==
    /\ NormalizedVerifies
    /\ Holds("raw_manifest", files["normalization_manifest"].raw_manifest)
    /\ LanguageAccepted(job.config)
    /\ SelectionOf[files["normalized"]][ConfigurationHash(job.config)] # None

RefuseAnalyze == InStage("analyze", "begin") /\ ~MayAnalyze /\ Refuse

\* The selection is replaced by every analysis, forced or not.
WriteSelection ==
    /\ InStage("analyze", "begin")
    /\ MayAnalyze
    /\ \/ /\ \E platform \in Platform :
                Put("selected_classes", SelectionReport(files["normalized"], job.config, platform))
          /\ GoTo("reports")
       \/ Raises

\* Reports that nothing reads come last, in analyze and in prepare.
WriteReports ==
    /\ job.at = "reports"
    /\ \/ StageDone /\ UNCHANGED files
       \/ Raises

-----------------------------------------------------------------------------
\* prepare_dataset.

\* _validate_input_lineage: the configuration itself is not compared.
LineageValid ==
    /\ NormalizedVerifies
    /\ Present("selected_classes")
    /\ files["selected_classes"].input = files["normalized"]
    /\ files["selected_classes"].requested = job.config.classes
    /\ files["selected_classes"].minimum = job.config.minimum

\* _selection_semantically_matches_manifest.
SelectionMatches(selection, manifest) ==
    /\ selection.configuration = manifest.configuration
    /\ selection.input = manifest.sources.normalized
    /\ selection.classes = manifest.classes
    /\ selection.counts = manifest.counts

OutputsVerify(manifest) == \A o \in Output : Holds(o, manifest.outputs[o])

\* A cache that is taken whatever the configuration it was made under.
SplitCacheValid_AnyConfig(manifest) ==
    /\ manifest.sources.normalized = files["normalized"]
    /\ manifest.sources.normalization_manifest = files["normalization_manifest"]
    /\ \/ manifest.sources.selected_classes = files["selected_classes"]
       \/ SelectionMatches(files["selected_classes"], manifest)
    /\ OutputsVerify(manifest)

\* _validate_cached_manifest: the recorded seed is not looked at.
SplitCacheValid(manifest) ==
    /\ manifest.sources.normalized = files["normalized"]
    /\ manifest.sources.normalization_manifest = files["normalization_manifest"]
    /\ \/ manifest.sources.selected_classes = files["selected_classes"]
       \/ SelectionMatches(files["selected_classes"], manifest)
    /\ manifest.configuration = ConfigurationHash(job.config)
    /\ OutputsVerify(manifest)

ReuseSplits ==
    /\ InStage("prepare", "begin")
    /\ LineageValid
    /\ ~job.force /\ Present("split_manifest") /\ SplitCacheValid(files["split_manifest"])
    /\ GoTo("reports")
    /\ UNCHANGED files

\* Prepared files without a manifest are written over.
MayReplaceSplits_IgnoresOutputs == job.force \/ ~Present("split_manifest")

MayReplaceSplits ==
    job.force \/ (~Present("split_manifest") /\ \A o \in Output : ~Present(o))

PreparableSplits == SplitsOf[files["normalized"]][files["selected_classes"].classes][job.config]

FrameAccepted ==
    /\ LanguageAccepted(job.config)
    /\ PreparableSplits # None

RefusePrepare ==
    /\ InStage("prepare", "begin")
    /\ IF ~LineageValid THEN TRUE
       ELSE IF ~job.force /\ Present("split_manifest")
            THEN ~SplitCacheValid(files["split_manifest"])
            ELSE ~MayReplaceSplits \/ ~FrameAccepted
    /\ Refuse

\* All frames are made, checked and written to temporary files first, ...
MakeFrames ==
    /\ InStage("prepare", "begin")
    /\ LineageValid /\ MayReplaceSplits /\ FrameAccepted
    /\ \/ /\ Advance([job EXCEPT !.at = "train", !.held = OutputFrames(PreparableSplits)])
          /\ UNCHANGED files
       \/ Raises

NextOutput == [train |-> "validation", validation |-> "test", test |-> "training_reference",
               training_reference |-> "manifest"]

\* A preparation that takes an output that is there for one it has already written.
ReplaceOutput_KeepsPresent ==
    /\ job.at \in Output
    /\ \/ /\ IF Present(job.at) THEN UNCHANGED files ELSE Put(job.at, job.held[job.at])
          /\ GoTo(NextOutput[job.at])
       \/ Raises

\* ... then each replaces its file, one after the other ...
ReplaceOutput ==
    /\ job.at \in Output
    /\ \/ Put(job.at, job.held[job.at]) /\ GoTo(NextOutput[job.at])
       \/ Raises

\* ... and the manifest records the hashes of what is then in place.
WriteSplitManifest ==
    /\ job.at = "manifest"
    /\ \/ /\ Put("split_manifest", SplitManifest(job.config, [o \in Output |-> files[o]]))
          /\ GoTo("reports")
       \/ Raises

-----------------------------------------------------------------------------
\* The process is killed: what it had written stays, what it had set aside is not
\* looked for again.
Kill == job.at # "ended" /\ Break(Ended("killed")) /\ UNCHANGED files

Download == \/ ReuseSnapshot \/ RefuseDownload \/ FetchSnapshot \/ SetAsideSnapshot
            \/ SetAsideFails \/ MoveSnapshotIn \/ FinishCopy \/ WriteRawManifest
            \/ RollbackRemove \/ RollbackRestore \/ RestoreFails

Normalize == \/ ReuseNormalized \/ RefuseNormalize \/ WriteNormalized
             \/ WriteNormalizationManifest

Prepare == \/ ReuseSplits \/ RefusePrepare \/ MakeFrames \/ ReplaceOutput
           \/ WriteSplitManifest

Init == files = [f \in {} |-> None] /\ job = NoJob /\ jobs = 0 /\ faults = 0

Next ==
    \/ \E command \in Command, config \in Config, force \in BOOLEAN :
          Start(command, config, force)
    \/ Download
    \/ Normalize
    \/ RefuseAnalyze \/ WriteSelection \/ WriteReports
    \/ Prepare
    \/ Kill

Spec == Init /\ [][Next]_vars

-----------------------------------------------------------------------------
\* What the pipeline promises.

\* Every file is absent or of its kind, and a job is somewhere in its own stages.
PipelineTypeOK ==
    /\ DOMAIN files \subseteq FileName
    /\ Present("source") => files["source"] \in [revision : Revision, whole : BOOLEAN]
    /\ Present("raw_manifest") =>
          /\ files["raw_manifest"].configuration \in Configuration
          /\ files["raw_manifest"].content = Snapshot(files["raw_manifest"].configuration.revision)
    /\ Present("normalized") => files["normalized"] \in [revision : Revision, language : STRING]
    /\ Present("normalization_manifest") =>
          files["normalization_manifest"].configuration \in Configuration
    /\ \A o \in Output : Present(o) => files[o] \subseteq Row
    /\ job.outcome \in {"none", "running", "ok", "failed", "refused", "killed"}
    /\ job.at = "ended" <=> job.outcome # "running"
    /\ job.at # "ended" => job.stage \in Stage /\ job.config \in Config
    /\ job.tries \in 0..Retries
    /\ jobs \in 0..MaxJobs /\ faults \in 0..MaxFaults

\* Texts of a part.
PartTexts(p) == TextsOf(files[p])

\* Splits whose manifest verifies (what every training run checks of the two parts it
\* reads) are one split of one dataset: no text in two parts, none that carries two
\* labels among the selected rows, every selected class in every part, no usable row
\* lost, and the reference made from the train part in place (prepare.py:112-162,
\* splitting.py:67-205), whatever kills and failures came between the writes.
VerifiedSplitsAreOneSplit ==
    LET manifest == files["split_manifest"]
        data     == manifest.sources.normalized
    IN  Present("split_manifest") /\ OutputsVerify(manifest) =>
          /\ \A p, o \in Part : p # o => PartTexts(p) \cap PartTexts(o) = {}
          /\ \A p \in Part : PartTexts(p) \cap ContradictoryIn[data][manifest.classes] = {}
          /\ \A p \in Part, q \in ClassSet(manifest.classes) : RowsOfQueue(files[p], q) # {}
          /\ UNION {files[p] : p \in Part} = UsableIn[data][manifest.classes]
          /\ files["training_reference"] = files["train"]

\* An ingestion that ends well leaves exactly the splits a run from nothing would make
\* of its configuration and the seed the split manifest records, whatever it took from
\* earlier, interrupted or differently configured jobs; a forced one made them itself,
\* with its own seed (flows.py:60-72, download.py:307, normalize.py:309, prepare.py:254).
IngestionIsReproducible ==
    job.outcome = "ok" /\ job.command = "ingest" =>
        /\ SnapshotVerifies /\ NormalizedVerifies
        /\ Present("split_manifest") /\ OutputsVerify(files["split_manifest"])
        /\ \E made \in Config :
              /\ ConfigurationHash(made) = ConfigurationHash(job.config)
              /\ RandomSeed(made) = files["split_manifest"].random_seed
              /\ job.force => RandomSeed(made) = RandomSeed(job.config)
              /\ [p \in Part |-> files[p]] = FromScratch[made]

\* An ingestion that ends well leaves the splits of its own seed (what
\* docs/adr/0001-grouped-stratified-splitting.md:32 says of data, configuration, seed and
\* code).  The cache check of prepare.py:270 does not look at the seed, so this fails.
IngestionUsesItsSeed ==
    job.outcome = "ok" /\ job.command = "ingest" =>
        [p \in Part |-> files[p]] = FromScratch[job.config]

\* Nothing an earlier job left behind can make a forced ingestion say no: it is
\* refused only when the data itself cannot be split (download.py:111, normalize.py:136,
\* prepare.py:82, 100).
ForcedIngestionRecovers ==
    job.outcome = "refused" /\ job.command = "ingest" /\ job.force =>
        FromScratch[job.config] = None

\* A download that raises gives back the snapshot that verified when it began, at
\* whichever step of the replacement it raised, unless the rename that sets the snapshot
\* aside or the one that gives it back was refused (download.py:292-302).
FailedDownloadKeepsSnapshot ==
    job.outcome = "failed" /\ job.command = "download" /\ job.verified /\ ~job.blocked =>
        SnapshotVerifies

\* Without --force no job changes data that was there when it began (download.py:122,
\* normalize.py:136, prepare.py:100; README.md:300).
NoSilentReplacement ==
    [][job.outcome = "running" /\ ~job.force =>
          \A f \in job.existed \ {"selected_classes"} :
              f \in DOMAIN files' /\ files'[f] = files[f]]_vars

=============================================================================
