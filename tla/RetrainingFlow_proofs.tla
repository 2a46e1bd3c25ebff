----------------------- MODULE RetrainingFlow_proofs -----------------------
(***************************************************************************)
(* A complete snapshot is immutable, and a registered candidate was        *)
(* trained on the rows its manifest describes: for any number of runs,     *)
(* executions, deaths, database faults, files and observations.            *)
(*                                                                         *)
(* A sustained critical state rests on windows of different flow runs,     *)
(* where two critical windows in a row are required.                       *)
(*                                                                         *)
(* The first inductive invariant says how far the directory of a run has   *)
(* come at each place of its flow, the second whose the stored windows are *)
(* and what a run has stored before it reads them.                         *)
(***************************************************************************)
EXTENDS RetrainingFlow, FiniteSetTheorems, SequenceTheorems, WellFoundedInduction, TLAPS

Labels ==
    {"idle", "monitoring", "saving_window", "reading_recent", "deciding", "storing_started",
     "preparing", "reading_inbox", "writing_splits", "writing_split_manifest",
     "writing_manifest", "training", "fitting", "storing_registered", "raised",
     "reporting", "done", "failed", "stopped"}

\* The rows that reviewed files can contribute.
AnyRows == UNION {{Record(file[i]) : i \in DOMAIN file} : file \in InboxFiles}

MaybeFile == {NoFile} \cup InboxFiles

SnapshotType ==
    /\ inbox \in MaybeFile
    /\ input \in [RetrainRuns -> MaybeFile]
    /\ period \in [RetrainRuns -> [from : Int, to : Int]]
    /\ snap \in [RetrainRuns ->
           [used : BOOLEAN, train : SUBSET AnyRows, split : MaybeFile,
            manifest : MaybeFile, from : Int, to : Int]]
    /\ trained \in [RetrainRuns ->
           [begun : BOOLEAN, on : SUBSET AnyRows, registered : BOOLEAN]]
    /\ fpc \in [FlowRuns -> Labels]
    /\ clock \in Nat

\* The place of the flow and the files that are there.
PlaceInv(f) ==
    /\ fpc[f] \in {"reading_inbox", "writing_splits"} => ~snap[f].used
    /\ fpc[f] = "writing_splits" => input[f] \in InboxFiles
    /\ fpc[f] \in {"writing_split_manifest", "writing_manifest"} =>
           snap[f].used /\ snap[f].manifest = NoFile
    /\ fpc[f] = "writing_manifest" => snap[f].split # NoFile
    /\ fpc[f] \in {"training", "fitting"} => Complete(f)

\* The files of a directory and the candidate that was trained on them.
DirectoryInv(f) ==
    /\ ~snap[f].used => snap[f].split = NoFile
    /\ snap[f].manifest # NoFile => Complete(f) /\ snap[f].used
    /\ trained[f].registered => Complete(f) /\ trained[f].on = snap[f].train

SnapshotInv == SnapshotType /\ \A f \in RetrainRuns : PlaceInv(f) /\ DirectoryInv(f)

\* The places at which PlaceInv says something.
Guarded ==
    {"reading_inbox", "writing_splits", "writing_split_manifest", "writing_manifest",
     "training", "fitting"}

\* What a file contributes is made of rows of that file.
LEMMA AdditionsAreRows ==
    ASSUME NEW file \in InboxFiles, NEW p
    PROVE  Additions(file, p) \in SUBSET AnyRows
<1>1. ASSUME NEW x \in Additions(file, p) PROVE x \in AnyRows
  <2>1. PICK i \in FirstOfRequest(file, p) : x = Record(file[i])
    BY <1>1 DEF Additions
  <2>2. i \in DOMAIN file
    BY <2>1 DEF FirstOfRequest, InPeriod
  <2> QED
    BY <2>1, <2>2 DEF AnyRows
<1> QED
  BY <1>1

\* Initially every directory is empty and nothing was trained.
LEMMA InitSnapshotInv == Init => SnapshotInv
BY FlowAssumption, SnapshotAssumption
   DEF Init, SnapshotInit, SnapshotInv, SnapshotType, PlaceInv, DirectoryInv, Complete,
       NoSnapshot, MaybeFile, FlowRuns, Labels

\* A step that touches no directory and no candidate, and sends no run to a
\* guarded place, keeps the invariant.
LEMMA OtherStepsKeepSnapshotInv ==
    ASSUME SnapshotInv, snap' = snap, input' = input, trained' = trained, SnapshotType',
           \A g \in RetrainRuns : fpc'[g] = fpc[g] \/ fpc'[g] \notin Guarded
    PROVE  SnapshotInv'
<1> SUFFICES ASSUME NEW g \in RetrainRuns PROVE PlaceInv(g)' /\ DirectoryInv(g)'
  BY DEF SnapshotInv
<1>1. PlaceInv(g) /\ DirectoryInv(g)
  BY DEF SnapshotInv
<1>2. PlaceInv(g)'
  BY <1>1 DEF PlaceInv, Guarded, Complete
<1>3. DirectoryInv(g)'
  BY <1>1 DEF DirectoryInv, Complete
<1> QED
  BY <1>2, <1>3

\* A snapshot step keeps the invariant.
LEMMA SnapshotStepKeepsInv ==
    ASSUME SnapshotInv, NEW f \in RetrainRuns, SnapshotStep(f),
           trained' = trained, clock' = clock
    PROVE  SnapshotInv'
<1> USE DEF SnapshotInv
<1>0. /\ f \in FlowRuns /\ SnapshotType /\ PlaceInv(f) /\ DirectoryInv(f)
      /\ \A g \in RetrainRuns : g \in FlowRuns
  BY DEF FlowRuns
<1>1. CASE SnapshotStarts(f)
  <2>1. SnapshotType'
    BY <1>0, <1>1 DEF SnapshotStarts, Reusable, FlowGoto, snapshotVars, SnapshotType, Labels
  <2> SUFFICES ASSUME NEW g \in RetrainRuns PROVE PlaceInv(g)' /\ DirectoryInv(g)'
    BY <2>1
  <2>2. DirectoryInv(g)'
    BY <1>1 DEF SnapshotStarts, Reusable, snapshotVars, DirectoryInv, Complete
  <2>3. ASSUME g # f PROVE fpc'[g] = fpc[g]
    BY <1>0, <1>1, <2>3 DEF SnapshotStarts, Reusable, FlowGoto, SnapshotType
  <2>4. fpc'[f] \in {"training", "raised", "reading_inbox"}
    BY <1>0, <1>1 DEF SnapshotStarts, Reusable, FlowGoto, SnapshotType
  <2>5. fpc'[f] = "training" => Complete(f)
    BY <1>0, <1>1 DEF SnapshotStarts, Reusable, FlowGoto, SnapshotType
  <2>6. fpc'[f] = "reading_inbox" => ~snap[f].used
    BY <1>0, <1>1 DEF SnapshotStarts, Reusable, FlowGoto, SnapshotType, DirectoryInv, Complete
  <2>7. PlaceInv(g)'
    BY <1>0, <1>1, <2>3, <2>4, <2>5, <2>6
       DEF SnapshotStarts, Reusable, snapshotVars, PlaceInv, Complete
  <2> QED
    BY <2>2, <2>7
<1>2. CASE SnapshotReadsInbox(f)
  <2>1. SnapshotType'
    BY <1>0, <1>2 DEF SnapshotReadsInbox, FlowGoto, SnapshotType, Labels
  <2> SUFFICES ASSUME NEW g \in RetrainRuns PROVE PlaceInv(g)' /\ DirectoryInv(g)'
    BY <2>1
  <2>2. DirectoryInv(g)'
    BY <1>2 DEF SnapshotReadsInbox, DirectoryInv, Complete
  <2>3. PlaceInv(g)'
    BY <1>0, <1>2 DEF SnapshotReadsInbox, FlowGoto, SnapshotType, MaybeFile, PlaceInv, Complete
  <2> QED
    BY <2>2, <2>3
<1>3. CASE SnapshotWritesSplits(f)
  <2>0. fpc[f] = "writing_splits"
    BY <1>3 DEF SnapshotWritesSplits
  <2>1. Additions(input[f], period[f]) \in SUBSET AnyRows
    BY <1>0, <2>0, AdditionsAreRows DEF PlaceInv
  <2>7. snap' \in [RetrainRuns ->
            [used : BOOLEAN, train : SUBSET AnyRows, split : MaybeFile,
             manifest : MaybeFile, from : Int, to : Int]]
    BY <1>0, <1>3, <2>1 DEF SnapshotWritesSplits, SnapshotType
  <2>2. SnapshotType'
    BY <1>0, <1>3, <2>7 DEF SnapshotWritesSplits, FlowGoto, SnapshotType, Labels
  <2> SUFFICES ASSUME NEW g \in RetrainRuns PROVE PlaceInv(g)' /\ DirectoryInv(g)'
    BY <2>2
  <2>3. ~snap[f].used
    BY <1>0, <2>0 DEF PlaceInv
  <2>4. snap[f].manifest = NoFile /\ ~trained[f].registered
    BY <1>0, <2>3 DEF DirectoryInv, Complete
  <2>5. DirectoryInv(g)'
    BY <1>0, <1>3, <2>4 DEF SnapshotWritesSplits, SnapshotType, DirectoryInv, Complete
  <2>6. PlaceInv(g)'
    BY <1>0, <1>3, <2>4 DEF SnapshotWritesSplits, FlowGoto, SnapshotType, PlaceInv, Complete
  <2> QED
    BY <2>5, <2>6
<1>4. CASE SnapshotWritesSplitManifest(f)
  <2>1. SnapshotType'
    BY <1>0, <1>4 DEF SnapshotWritesSplitManifest, FlowGoto, SnapshotType, Labels, MaybeFile
  <2> SUFFICES ASSUME NEW g \in RetrainRuns PROVE PlaceInv(g)' /\ DirectoryInv(g)'
    BY <2>1
  <2>2. DirectoryInv(g)'
    BY <1>0, <1>4 DEF SnapshotWritesSplitManifest, SnapshotType, PlaceInv, DirectoryInv, Complete
  <2>3. PlaceInv(g)'
    BY <1>0, <1>4
       DEF SnapshotWritesSplitManifest, FlowGoto, SnapshotType, PlaceInv, Complete
  <2> QED
    BY <2>2, <2>3
<1>5. CASE SnapshotWritesManifest(f)
  <2>0. /\ fpc[f] = "writing_manifest" /\ snap[f].manifest = NoFile
        /\ snap[f].split # NoFile /\ snap[f].used
    BY <1>0, <1>5 DEF SnapshotWritesManifest, PlaceInv
  <2>5. /\ snap'[f].manifest \in MaybeFile /\ snap'[f].split = snap[f].split
        /\ snap'[f].used = snap[f].used /\ snap'[f].train = snap[f].train
        /\ snap'[f].manifest = inbox \/ snap' = snap
        /\ \A g \in RetrainRuns \ {f} : snap'[g] = snap[g]
    BY <1>0, <1>5 DEF SnapshotWritesManifest, SnapshotType
  <2>6. snap' \in [RetrainRuns ->
            [used : BOOLEAN, train : SUBSET AnyRows, split : MaybeFile,
             manifest : MaybeFile, from : Int, to : Int]]
    <3> DEFINE Directory ==
                 [used : BOOLEAN, train : SUBSET AnyRows, split : MaybeFile,
                  manifest : MaybeFile, from : Int, to : Int]
               filled == [snap[f] EXCEPT !.manifest = inbox, !.from = period[f].from,
                                         !.to = period[f].to]
    <3>1. snap[f] \in Directory /\ inbox \in MaybeFile
          /\ period[f].from \in Int /\ period[f].to \in Int
      BY <1>0 DEF SnapshotType
    <3>2. filled \in Directory
      BY <3>1
    <3>3. snap' = [snap EXCEPT ![f] = filled] \/ snap' = snap
      BY <1>0, <1>5 DEF SnapshotWritesManifest, SnapshotType
    <3>4. snap \in [RetrainRuns -> Directory]
      BY <1>0 DEF SnapshotType
    <3> HIDE DEF filled, Directory
    <3>5. snap' \in [RetrainRuns -> Directory]
      BY <3>2, <3>3, <3>4
    <3> QED
      BY <3>5 DEF Directory
  <2>1. SnapshotType'
    BY <1>0, <1>5, <2>6 DEF SnapshotWritesManifest, FlowGoto, SnapshotType, Labels
  <2> SUFFICES ASSUME NEW g \in RetrainRuns PROVE PlaceInv(g)' /\ DirectoryInv(g)'
    BY <2>1
  <2>2. ~trained[f].registered
    BY <1>0, <2>0 DEF DirectoryInv, Complete
  <2>3. DirectoryInv(g)'
    BY <1>0, <2>0, <2>2, <2>5 DEF DirectoryInv, Complete
  <2>4. PlaceInv(g)'
    BY <1>0, <1>5, <2>0
       DEF SnapshotWritesManifest, FlowGoto, SnapshotType, PlaceInv, Complete
  <2> QED
    BY <2>3, <2>4
<1> QED
  BY <1>1, <1>2, <1>3, <1>4, <1>5 DEF SnapshotStep

\* Every step keeps the invariant: those of the flow that are no snapshot steps
\* touch at most what is recorded of a training.
LEMMA NextSnapshotInv == SnapshotInv /\ [Next]_vars => SnapshotInv'
<1> SUFFICES ASSUME SnapshotInv, [Next]_vars PROVE SnapshotInv'
  OBVIOUS
<1>0. SnapshotType /\ (\A g \in RetrainRuns : g \in FlowRuns /\ PlaceInv(g) /\ DirectoryInv(g))
      /\ MonitorRuns \cap RetrainRuns = {}
  BY FlowAssumption DEF SnapshotInv, FlowRuns
<1> DEFINE Quiet == UNCHANGED <<snap, input, trained>>
           Moves(f) ==
               \A g \in RetrainRuns : fpc'[g] = fpc[g] \/ (g = f /\ fpc'[g] \notin Guarded)
<1>1. ASSUME Quiet, SnapshotType', NEW f, Moves(f) PROVE SnapshotInv'
  BY <1>1, OtherStepsKeepSnapshotInv
<1>2. CASE UNCHANGED vars
  <2>1. SnapshotType'
    BY <1>0, <1>2 DEF vars, snapshotVars, localVars, tableVars, artifactVars, boundVars, SnapshotType
  <2> QED
    BY <1>2, <2>1, OtherStepsKeepSnapshotInv DEF vars, snapshotVars, artifactVars
<1>3. ASSUME NEW m \in MonitorRuns, MonitorStarts(m) PROVE SnapshotInv'
  <2>1. SnapshotType' /\ Quiet /\ Moves(m)
    BY <1>0, <1>3 DEF MonitorStarts, FlowGoto, FlowRuns, snapshotVars, artifactVars, boundVars,
                      SnapshotType, Labels, Guarded
  <2> QED
    BY <1>1, <2>1
<1>4. ASSUME NEW f \in FlowRuns, MonitorEvaluates(f) PROVE SnapshotInv'
  <2>1. SnapshotType' /\ Quiet /\ Moves(f)
    BY <1>0, <1>4 DEF MonitorEvaluates, FlowGoto, snapshotVars, artifactVars,
                      SnapshotType, Labels, Guarded
  <2> QED
    BY <1>1, <2>1
<1>5. ASSUME NEW f \in FlowRuns, MonitorSaves(f) PROVE SnapshotInv'
  <2>1. SnapshotType' /\ Quiet /\ Moves(f)
    BY <1>0, <1>5 DEF MonitorSaves, NextTask, FlowGoto, snapshotVars, artifactVars, boundVars,
                      SnapshotType, Labels, Guarded
  <2> QED
    BY <1>1, <2>1
<1>6. ASSUME NEW f \in FlowRuns, MonitorFaults(f) PROVE SnapshotInv'
  <2>1. SnapshotType' /\ Quiet /\ Moves(f)
    BY <1>0, <1>6 DEF MonitorFaults, FlowGoto, snapshotVars, artifactVars,
                      SnapshotType, Labels, Guarded
  <2> QED
    BY <1>1, <2>1
<1>7. ASSUME NEW f \in FlowRuns, FlowDies(f) PROVE SnapshotInv'
  <2>1. SnapshotType' /\ Quiet /\ Moves(f)
    BY <1>0, <1>7 DEF FlowDies, FlowGoto, snapshotVars, artifactVars,
                      SnapshotType, Labels, Guarded
  <2> QED
    BY <1>1, <2>1
<1>8. ASSUME NEW f \in RetrainRuns, RetrainStarts(f) PROVE SnapshotInv'
  <2>1. SnapshotType' /\ Quiet /\ Moves(f)
    BY <1>0, <1>8, SnapshotAssumption
       DEF RetrainStarts, NextTask, FlowGoto, snapshotVars, artifactVars, SnapshotType, Labels, Guarded
  <2> QED
    BY <1>1, <2>1
<1>9. ASSUME NEW f \in RetrainRuns, DatabaseFaults(f) PROVE SnapshotInv'
  <2>1. SnapshotType' /\ Quiet /\ Moves(f)
    BY <1>0, <1>9 DEF DatabaseFaults, FlowGoto, snapshotVars, artifactVars,
                      SnapshotType, Labels, Guarded
  <2> QED
    BY <1>1, <2>1
<1>10. ASSUME NEW f \in RetrainRuns,
              ReadsRecent(f) \/ Decides(f) \/ StoresStarted(f) \/ Reports(f)
              \/ StoresRegistered(f) \/ StoresFailed(f)
       PROVE  SnapshotInv'
  <2>1. SnapshotType' /\ Quiet /\ Moves(f)
    <3>1. CASE ReadsRecent(f)
      BY <1>0, <3>1 DEF ReadsRecent, NextTask, FlowGoto, snapshotVars, artifactVars, boundVars,
                        SnapshotType, Labels, Guarded
    <3>2. CASE Decides(f)
      BY <1>0, <3>2 DEF Decides, FlowGoto, snapshotVars, boundVars, SnapshotType, Labels, Guarded
    <3>3. CASE StoresStarted(f)
      BY <1>0, <3>3 DEF StoresStarted, NextTask, FlowGoto, snapshotVars, artifactVars,
                        SnapshotType, Labels, Guarded
    <3>4. CASE Reports(f)
      BY <1>0, <3>4 DEF Reports, FlowGoto, snapshotVars, boundVars, SnapshotType, Labels, Guarded
    <3>5. CASE StoresRegistered(f) \/ StoresFailed(f)
      BY <1>0, <3>5 DEF StoresRegistered, StoresFailed, StoresOutcome, NextTask, FlowGoto,
                        snapshotVars, artifactVars, SnapshotType, Labels, Guarded
    <3> QED
      BY <1>10, <3>1, <3>2, <3>3, <3>4, <3>5
  <2> QED
    BY <1>1, <2>1
<1>11. ASSUME NEW f \in RetrainRuns, TrainStarts(f) \/ TrainEnds(f) PROVE SnapshotInv'
  <2>1. fpc[f] \in {"training", "fitting"} /\ Complete(f) /\ UNCHANGED <<snapshotVars, clock>>
    BY <1>0, <1>11 DEF TrainStarts, TrainEnds, PlaceInv, boundVars
  <2> DEFINE Experiment == [begun : BOOLEAN, on : SUBSET AnyRows, registered : BOOLEAN]
             started == [trained[f] EXCEPT !.begun = TRUE]
             ended == [trained[f] EXCEPT !.registered = TRUE, !.on = snap[f].train]
  <2>7. /\ trained \in [RetrainRuns -> Experiment] /\ started \in Experiment /\ ended \in Experiment
        /\ started.registered = trained[f].registered /\ started.on = trained[f].on
        /\ ended.on = snap[f].train
    BY <1>0 DEF SnapshotType
  <2>8. \/ trained' = trained
        \/ trained' = [trained EXCEPT ![f] = started]
        \/ trained' = [trained EXCEPT ![f] = ended]
    BY <1>0, <1>11 DEF TrainStarts, TrainEnds, SnapshotType
  <2> HIDE DEF Experiment, started, ended
  <2>9. /\ trained'[f] \in {trained[f], started, ended}
        /\ \A g \in RetrainRuns \ {f} : trained'[g] = trained[g]
        /\ trained' \in [RetrainRuns -> Experiment]
    BY <2>7, <2>8
  <2>2. /\ trained'[f].registered => \/ trained'[f].on = snap[f].train
                                     \/ trained[f].registered /\ trained'[f].on = trained[f].on
        /\ \A g \in RetrainRuns \ {f} : trained'[g] = trained[g]
        /\ trained' \in [RetrainRuns -> [begun : BOOLEAN, on : SUBSET AnyRows, registered : BOOLEAN]]
    BY <2>7, <2>9 DEF Experiment
  <2>3. /\ fpc'[f] \in {"storing_registered", "raised", "fitting"}
        /\ \A g \in RetrainRuns \ {f} : fpc'[g] = fpc[g]
        /\ fpc' \in [FlowRuns -> Labels]
    BY <1>0, <1>11 DEF TrainStarts, TrainEnds, FlowGoto, SnapshotType, Labels
  <2>4. SnapshotType'
    BY <1>0, <2>1, <2>2, <2>3 DEF snapshotVars, SnapshotType
  <2> SUFFICES ASSUME NEW g \in RetrainRuns PROVE PlaceInv(g)' /\ DirectoryInv(g)'
    BY <2>4 DEF SnapshotInv
  <2>5. PlaceInv(g)'
    BY <1>0, <2>1, <2>3 DEF snapshotVars, PlaceInv, Complete
  <2>6. DirectoryInv(g)'
    BY <1>0, <2>1, <2>2 DEF snapshotVars, DirectoryInv, Complete
  <2> QED
    BY <2>5, <2>6
<1>12. ASSUME NEW f \in RetrainRuns, SnapshotStep(f), UNCHANGED <<artifactVars, boundVars>>
       PROVE  SnapshotInv'
  BY <1>12, SnapshotStepKeepsInv DEF artifactVars, boundVars
<1>13. ASSUME InboxReplaced, UNCHANGED <<artifactVars, boundVars>> PROVE SnapshotInv'
  <2>1. SnapshotType'
    BY <1>0, <1>13 DEF InboxReplaced, artifactVars, boundVars, SnapshotType, MaybeFile
  <2> QED
    BY <1>13, <2>1, OtherStepsKeepSnapshotInv DEF InboxReplaced, artifactVars
<1>14. \A f \in RetrainRuns : RetrainStep(f) => SnapshotInv'
  BY <1>0, <1>4, <1>5, <1>10, <1>11, <1>12 DEF RetrainStep, MonitorStep
<1>15. \A m \in MonitorRuns : MonitorStep(m) => SnapshotInv'
  BY <1>4, <1>5 DEF MonitorStep, FlowRuns
<1> QED
  BY <1>2, <1>3, <1>6, <1>7, <1>8, <1>9, <1>13, <1>14, <1>15 DEF Next

\* What a candidate's directory says of the files it came from.  It needs an
\* inbox that is left alone while a run reads it.
LineageInv(f) ==
    /\ fpc[f] \in {"writing_splits", "writing_split_manifest", "writing_manifest"} =>
           input[f] = inbox
    /\ fpc[f] \in {"writing_split_manifest", "writing_manifest"} =>
           snap[f].train = Additions(input[f], period[f])
    /\ snap[f].manifest # NoFile =>
           snap[f].train =
               Additions(snap[f].manifest, [from |-> snap[f].from, to |-> snap[f].to])

\* SnapshotInv holds in every reachable state (prepare_retraining_dataset and
\* the steps of conditional_retraining_flow around it).
THEOREM SnapshotInvariant == Spec => []SnapshotInv
BY InitSnapshotInv, NextSnapshotInv, PTL DEF Spec

\* Only a run that is preparing writes to its directory, so a directory with
\* all its files is not written to.
LEMMA CompleteIsUntouched ==
    ASSUME SnapshotInv, [Next]_vars, NEW f \in RetrainRuns, Complete(f)
    PROVE  snap'[f] = snap[f]
<1>0. SnapshotType /\ f \in FlowRuns /\ PlaceInv(f) /\ DirectoryInv(f)
  BY DEF SnapshotInv, FlowRuns
<1>1. fpc[f] \notin {"writing_splits", "writing_split_manifest", "writing_manifest"}
  BY <1>0 DEF PlaceInv, DirectoryInv, Complete
<1>2. ASSUME NEW g \in RetrainRuns, SnapshotStep(g) PROVE snap'[f] = snap[f]
  <2>1. CASE g = f
    BY <1>1, <1>2, <2>1
       DEF SnapshotStep, SnapshotStarts, Reusable, SnapshotReadsInbox, SnapshotWritesSplits,
           SnapshotWritesSplitManifest, SnapshotWritesManifest, snapshotVars
  <2>2. CASE g # f
    BY <1>0, <1>2, <2>2
       DEF SnapshotStep, SnapshotStarts, Reusable, SnapshotReadsInbox, SnapshotWritesSplits,
           SnapshotWritesSplitManifest, SnapshotWritesManifest, snapshotVars, SnapshotType
  <2> QED
    BY <2>1, <2>2
<1>3. snap' = snap \/ \E g \in RetrainRuns : SnapshotStep(g)
  BY DEF Next, vars, MonitorStarts, MonitorStep, MonitorEvaluates, MonitorSaves, MonitorFaults,
         RetrainStarts, RetrainStep, ReadsRecent, Decides, StoresStarted, TrainStarts, TrainEnds,
         StoresRegistered, StoresFailed, StoresOutcome, Reports, DatabaseFaults, FlowDies,
         InboxReplaced, snapshotVars
<1> QED
  BY <1>2, <1>3

\* A complete retraining snapshot is never written again (the reuse and the
\* refusal at the start of prepare_retraining_dataset).
THEOREM SnapshotsAreImmutable == Spec => SnapshotIsImmutable
<1>1. SnapshotInv /\ [Next]_vars =>
          [\A f \in RetrainRuns : Complete(f) => snap'[f] = snap[f]]_vars
  BY CompleteIsUntouched
<1> QED
  BY <1>1, SnapshotInvariant, PTL DEF Spec, SnapshotIsImmutable

\* A step that is no snapshot step leaves a run that prepares its snapshot
\* where it is, with its period and, if nobody replaces it meanwhile, its inbox.
OtherStep(g) ==
    \/ fpc'[g] \notin Guarded
    \/ fpc'[g] \in {"training", "fitting"}
    \/ /\ fpc'[g] = fpc[g] /\ period'[g] = period[g]
       /\ inbox' = inbox \/ ~Preparing(g)

LEMMA StepShape ==
    ASSUME SnapshotInv, InboxMayChange = FALSE, [Next]_vars
    PROVE  \/ \E f \in RetrainRuns : SnapshotStep(f)
           \/ UNCHANGED <<snap, input>> /\ \A g \in RetrainRuns : OtherStep(g)
<1>0. /\ fpc \in [FlowRuns -> Labels] /\ period \in [RetrainRuns -> [from : Int, to : Int]]
      /\ \A g \in RetrainRuns : g \in FlowRuns
  BY DEF SnapshotInv, SnapshotType, FlowRuns
<1> DEFINE Shape == UNCHANGED <<snap, input>> /\ \A g \in RetrainRuns : OtherStep(g)
<1>1. ASSUME UNCHANGED vars PROVE Shape
  BY <1>1 DEF vars, snapshotVars, OtherStep
<1>2. ASSUME NEW f \in FlowRuns,
             \/ f \in MonitorRuns /\ MonitorStarts(f)
             \/ MonitorEvaluates(f) \/ MonitorSaves(f) \/ MonitorFaults(f) \/ FlowDies(f)
      PROVE  Shape
  BY <1>0, <1>2 DEF MonitorStarts, MonitorEvaluates, MonitorSaves, MonitorFaults, FlowDies,
         NextTask, FlowGoto, snapshotVars, OtherStep, Guarded
<1>3. ASSUME NEW f \in RetrainRuns,
             RetrainStarts(f) \/ DatabaseFaults(f) \/ ReadsRecent(f) \/ Decides(f)
             \/ StoresStarted(f)
      PROVE  Shape
  BY <1>0, <1>3 DEF RetrainStarts, DatabaseFaults, ReadsRecent, Decides, StoresStarted,
         NextTask, FlowGoto, snapshotVars, OtherStep, Guarded
<1>4. ASSUME NEW f \in RetrainRuns,
             TrainStarts(f) \/ TrainEnds(f) \/ StoresRegistered(f) \/ StoresFailed(f) \/ Reports(f)
      PROVE  Shape
  BY <1>0, <1>4 DEF TrainStarts, TrainEnds, StoresRegistered, StoresFailed, StoresOutcome,
         Reports, NextTask, FlowGoto, snapshotVars, OtherStep, Guarded
<1>5. ASSUME InboxReplaced PROVE Shape
  BY <1>5 DEF InboxReplaced, OtherStep
<1>6. \A f \in RetrainRuns : RetrainStep(f) => SnapshotStep(f) \/ Shape
  BY <1>0, <1>2, <1>3, <1>4 DEF RetrainStep, MonitorStep
<1>7. \A m \in MonitorRuns : MonitorStep(m) => Shape
  BY <1>2 DEF MonitorStep, FlowRuns
<1> HIDE DEF Shape
<1>8. (\E f \in RetrainRuns : SnapshotStep(f)) \/ Shape
  <2>1. CASE \E m \in MonitorRuns : MonitorStarts(m) \/ MonitorStep(m)
    BY <1>2, <1>7, <2>1 DEF FlowRuns
  <2>2. CASE \E f \in RetrainRuns : RetrainStarts(f) \/ RetrainStep(f) \/ DatabaseFaults(f)
    BY <1>3, <1>6, <2>2
  <2>3. CASE \E f \in FlowRuns : MonitorFaults(f) \/ FlowDies(f)
    BY <1>2, <2>3
  <2>4. CASE InboxReplaced
    BY <1>5, <2>4
  <2> QED
    BY <1>1, <2>1, <2>2, <2>3, <2>4 DEF Next
<1> QED
  BY <1>8 DEF Shape

\* A snapshot step of a run keeps what the directories say.
LEMMA SnapshotStepKeepsLineage ==
    ASSUME SnapshotInv, SnapshotInv', \A g \in RetrainRuns : LineageInv(g),
           NEW f \in RetrainRuns, SnapshotStep(f)
    PROVE  \A g \in RetrainRuns : LineageInv(g)'
<1> SUFFICES ASSUME NEW g \in RetrainRuns PROVE LineageInv(g)'
  OBVIOUS
<1>0. SnapshotType /\ f \in FlowRuns /\ g \in FlowRuns /\ PlaceInv(f) /\ DirectoryInv(f)
      /\ LineageInv(f) /\ LineageInv(g)
  BY DEF SnapshotInv, FlowRuns
<1>1. UNCHANGED <<inbox, period>>
  BY DEF SnapshotStep, SnapshotStarts, Reusable, SnapshotReadsInbox, SnapshotWritesSplits,
         SnapshotWritesSplitManifest, SnapshotWritesManifest, snapshotVars
<1>2. CASE g # f
  <2>1. fpc'[g] = fpc[g] /\ snap'[g] = snap[g] /\ input'[g] = input[g]
    BY <1>0, <1>2 DEF SnapshotStep, SnapshotStarts, Reusable, SnapshotReadsInbox, SnapshotWritesSplits,
           SnapshotWritesSplitManifest, SnapshotWritesManifest, FlowGoto, snapshotVars, SnapshotType
  <2> QED
    BY <1>0, <1>1, <2>1 DEF LineageInv
<1>3. CASE g = f
  <2>1. CASE SnapshotStarts(f)
    BY <1>0, <1>3, <2>1 DEF SnapshotStarts, Reusable, FlowGoto, snapshotVars, SnapshotType, LineageInv
  <2>2. CASE SnapshotReadsInbox(f)
    BY <1>0, <1>3, <2>2 DEF SnapshotReadsInbox, FlowGoto, SnapshotType, LineageInv
  <2>3. CASE SnapshotWritesSplits(f)
    <3>1. snap[f].manifest = NoFile
      BY <1>0, <2>3 DEF SnapshotWritesSplits, PlaceInv, DirectoryInv, Complete
    <3>2. /\ fpc'[f] = "writing_split_manifest" /\ input' = input
          /\ snap'[f].manifest = snap[f].manifest
          /\ snap'[f].train = Additions(input[f], period[f])
      BY <1>0, <2>3 DEF SnapshotWritesSplits, FlowGoto, SnapshotType
    <3> QED
      BY <1>0, <1>1, <1>3, <2>3, <3>1, <3>2 DEF SnapshotWritesSplits, LineageInv
  <2>4. CASE SnapshotWritesSplitManifest(f)
    <3>1. /\ input' = input /\ snap'[f].manifest = snap[f].manifest
          /\ snap'[f].train = snap[f].train
      BY <1>0, <2>4 DEF SnapshotWritesSplitManifest, SnapshotType
    <3>2. snap[f].manifest = NoFile /\ input[f] = inbox
          /\ snap[f].train = Additions(input[f], period[f])
      BY <1>0, <2>4 DEF SnapshotWritesSplitManifest, PlaceInv, LineageInv
    <3> QED
      BY <1>1, <1>3, <3>1, <3>2 DEF LineageInv
  <2>5. CASE SnapshotWritesManifest(f)
    <3>1. snap[f].manifest = NoFile /\ input[f] = inbox
          /\ snap[f].train = Additions(input[f], period[f])
      BY <1>0, <2>5 DEF SnapshotWritesManifest, PlaceInv, LineageInv
    <3>2. fpc'[f] \in {"training", "raised"} /\ snap'[f].train = snap[f].train
      BY <1>0, <2>5 DEF SnapshotWritesManifest, FlowGoto, SnapshotType
    <3>3. \/ snap'[f].manifest = NoFile
          \/ /\ snap'[f].manifest = inbox
             /\ snap'[f].from = period[f].from /\ snap'[f].to = period[f].to
      BY <1>0, <2>5, <3>1 DEF SnapshotWritesManifest, SnapshotType
    <3>4. period[f] = [from |-> period[f].from, to |-> period[f].to]
      BY <1>0 DEF SnapshotType
    <3> QED
      BY <1>3, <3>1, <3>2, <3>3, <3>4 DEF LineageInv
  <2> QED
    BY <2>1, <2>2, <2>3, <2>4, <2>5 DEF SnapshotStep
<1> QED
  BY <1>2, <1>3

\* A registered candidate was trained on the rows that the file and the period
\* of its retraining manifest contribute, when nobody replaces the reviewed
\* file while prepare_retraining_dataset runs.
THEOREM CandidatesHaveLineage ==
    ASSUME InboxMayChange = FALSE
    PROVE  Spec => []CandidateLineage
<1> DEFINE Lineage == \A g \in RetrainRuns : LineageInv(g)
<1>1. Init => Lineage
  BY DEF Init, SnapshotInit, NoSnapshot, LineageInv, FlowRuns
<1>2. SnapshotInv /\ SnapshotInv' /\ Lineage /\ [Next]_vars => Lineage'
  <2> SUFFICES ASSUME SnapshotInv, SnapshotInv', Lineage, [Next]_vars PROVE Lineage'
    OBVIOUS
  <2>1. CASE \E f \in RetrainRuns : SnapshotStep(f)
    BY <2>1, SnapshotStepKeepsLineage
  <2>2. ASSUME UNCHANGED <<snap, input>>, NEW g \in RetrainRuns, OtherStep(g)
        PROVE  LineageInv(g)'
    BY <2>2 DEF OtherStep, Guarded, Preparing, LineageInv
  <2> QED
    BY <2>1, <2>2, StepShape
<1>3. SnapshotInv /\ Lineage => CandidateLineage
  BY DEF SnapshotInv, DirectoryInv, LineageInv, CandidateLineage, Complete
<1> QED
  BY <1>1, <1>2, <1>3, SnapshotInvariant, PTL DEF Spec

-----------------------------------------------------------------------------
(* The tables, and what a run reads in them.                               *)

WindowRow == [id : FlowRuns \X (0..Retries), by : FlowRuns, status : Statuses,
              completed : Nat \ {0}]

\* A window has its time for itself, and a retraining run has one window.
WindowsInv ==
    /\ windows \subseteq WindowRow /\ IsFiniteSet(windows)
    /\ \A w \in windows : /\ w.completed < clock
                          /\ w.id[1] = w.by /\ (w.by \in RetrainRuns => w.id[2] = 0)
    /\ \A v, w \in windows : v.completed = w.completed \/ v.id = w.id => v = w

\* A window about to be stored is later than all that are there; a run that reads the
\* recent ones has stored its own.
SavingInv ==
    /\ \A f \in FlowRuns : fpc[f] = "saving_window" =>
          /\ finished[f] > 0
          /\ \A w \in windows : w.completed # finished[f]
          /\ \A g \in FlowRuns : fpc[g] = "saving_window" /\ finished[g] = finished[f] => g = f
    /\ \A f \in RetrainRuns : fpc[f] = "reading_recent" =>
          \E w \in windows : w.by = f /\ w.status = AlertStatus(obs[f])

MonitoringInv ==
    /\ clock > 0
    /\ obs \in [FlowRuns -> {QuietWindow} \cup Observations]
    /\ finished \in [FlowRuns -> Nat] /\ \A f \in FlowRuns : finished[f] < clock
    /\ tries \in [FlowRuns -> 0..Retries]
    /\ WindowsInv
    /\ SavingInv

\* Places a step may reach without saying anything of the windows.
Elsewhere == Labels \ {"saving_window", "reading_recent"}

\* A step that stores and observes no window.
QuietStep ==
    /\ UNCHANGED <<obs, finished, windows>>
    /\ clock' \in {clock, clock + 1}
    /\ tries' \in [FlowRuns -> 0..Retries]
    /\ \A g \in FlowRuns : fpc'[g] = fpc[g] \/ fpc'[g] \in Elsewhere

\* A step that stores one.
StoreStep(f) ==
    /\ fpc[f] = "saving_window" /\ windows' = WithWindow(f)
    /\ UNCHANGED <<obs, finished, clock>>
    /\ tries' \in [FlowRuns -> 0..Retries]
    /\ \A g \in FlowRuns \ {f} : fpc'[g] = fpc[g]
    /\ fpc'[f] \in Elsewhere \cup {"reading_recent"}

LEMMA MonitoringTyped ==
    ASSUME SnapshotInv, MonitoringInv
    PROVE  /\ fpc \in [FlowRuns -> Labels] /\ clock \in Nat \ {0}
           /\ obs \in [FlowRuns -> {QuietWindow} \cup Observations]
           /\ finished \in [FlowRuns -> Nat] /\ tries \in [FlowRuns -> 0..Retries]
           /\ RetrainRuns \subseteq FlowRuns /\ MonitorRuns \subseteq FlowRuns
           /\ Retries \in Nat
BY FlowAssumption DEF MonitoringInv, SnapshotInv, SnapshotType, FlowRuns

LEMMA EvaluationKeepsMonitoring ==
    ASSUME SnapshotInv, MonitoringInv, NEW f \in FlowRuns, MonitorEvaluates(f)
    PROVE  MonitoringInv'
<1>1. /\ clock' = clock + 1 /\ UNCHANGED <<windows, tries>>
      /\ \A g \in FlowRuns \ {f} : fpc'[g] = fpc[g] /\ obs'[g] = obs[g] /\ finished'[g] = finished[g]
      /\ fpc'[f] = "saving_window" /\ finished'[f] = clock
      /\ obs' \in [FlowRuns -> {QuietWindow} \cup Observations]
      /\ finished' \in [FlowRuns -> Nat]
  <2>1. PICK o \in Observations : obs' = [obs EXCEPT ![f] = o]
    BY DEF MonitorEvaluates
  <2>2. obs' \in [FlowRuns -> {QuietWindow} \cup Observations]
        /\ \A g \in FlowRuns \ {f} : obs'[g] = obs[g]
    BY <2>1, MonitoringTyped
  <2>3. finished' = [finished EXCEPT ![f] = clock] /\ fpc' = [fpc EXCEPT ![f] = "saving_window"]
        /\ clock' = clock + 1 /\ UNCHANGED <<windows, tries>>
    BY DEF MonitorEvaluates, FlowGoto, tableVars
  <2> QED
    BY <2>2, <2>3, MonitoringTyped
<1>2. clock \in Nat \ {0} /\ finished \in [FlowRuns -> Nat] /\ RetrainRuns \subseteq FlowRuns
  BY MonitoringTyped
<1>3. WindowsInv'
  <2>1. \A w \in windows : w.completed \in Nat
    BY DEF MonitoringInv, WindowsInv, WindowRow
  <2> QED
    BY <1>1, <1>2, <2>1 DEF MonitoringInv, WindowsInv
<1>4. SavingInv'
  <2>1. \A w \in windows : w.completed \in Nat /\ w.completed < clock
    BY DEF MonitoringInv, WindowsInv, WindowRow
  <2>2. ASSUME NEW g \in FlowRuns, fpc'[g] = "saving_window"
        PROVE  /\ finished'[g] > 0
               /\ \A w \in windows' : w.completed # finished'[g]
               /\ \A h \in FlowRuns : fpc'[h] = "saving_window" /\ finished'[h] = finished'[g] => h = g
    BY <1>1, <1>2, <2>1, <2>2 DEF MonitoringInv, SavingInv
  <2>3. ASSUME NEW g \in RetrainRuns, fpc'[g] = "reading_recent"
        PROVE  \E w \in windows' : w.by = g /\ w.status = AlertStatus(obs'[g])
    BY <1>1, <1>2, <2>3 DEF MonitoringInv, SavingInv
  <2> QED
    BY <2>2, <2>3 DEF SavingInv, AlertStatus, Critical, Raised, Measured, Observed
<1>5. \A g \in FlowRuns : finished'[g] < clock'
  BY <1>1, <1>2 DEF MonitoringInv
<1> QED
  BY <1>1, <1>2, <1>3, <1>4, <1>5, MonitoringTyped DEF MonitoringInv

LEMMA StoreKeepsMonitoring ==
    ASSUME SnapshotInv, MonitoringInv, NEW f \in FlowRuns, StoreStep(f)
    PROVE  MonitoringInv'
<1> DEFINE new == [id |-> WindowId(f), by |-> f, status |-> AlertStatus(obs[f]),
                   completed |-> finished[f]]
           kept == {w \in windows : w.id # WindowId(f)}
<1>1. windows' = kept \cup {new} /\ kept \subseteq windows /\ \A w \in kept : w.id # new.id
  BY DEF StoreStep, WithWindow
<1>2. /\ finished[f] \in Nat \ {0} /\ finished[f] < clock
      /\ \A w \in windows : w.completed # finished[f]
      /\ \A g \in FlowRuns : fpc[g] = "saving_window" /\ finished[g] = finished[f] => g = f
  BY MonitoringTyped DEF StoreStep, MonitoringInv, SavingInv
<1>3. new \in WindowRow /\ new.by = f /\ new.completed = finished[f] /\ new.status = AlertStatus(obs[f])
      /\ new.id[1] = f /\ (f \in RetrainRuns => new.id[2] = 0) /\ new.id = WindowId(f)
  <2>1. AlertStatus(obs[f]) \in Statuses
    BY DEF AlertStatus, Statuses
  <2>2. WindowId(f) \in FlowRuns \X (0..Retries)
    BY MonitoringTyped DEF WindowId
  <2> QED
    BY <1>2, <2>1, <2>2 DEF WindowRow, WindowId
<1>4. /\ windows \subseteq WindowRow /\ IsFiniteSet(windows)
      /\ \A w \in windows : /\ w.completed < clock
                            /\ w.id[1] = w.by /\ (w.by \in RetrainRuns => w.id[2] = 0)
      /\ \A v, w \in windows : v.completed = w.completed \/ v.id = w.id => v = w
  BY DEF MonitoringInv, WindowsInv
<1>5. IsFiniteSet(windows')
  BY <1>1, <1>4, FS_Subset, FS_AddElement
<1> HIDE DEF new, kept
<1>6. WindowsInv'
  BY <1>1, <1>2, <1>3, <1>4, <1>5 DEF WindowsInv, StoreStep
<1>7. SavingInv'
  <2>1. UNCHANGED <<obs, finished>> /\ \A g \in FlowRuns \ {f} : fpc'[g] = fpc[g]
    BY DEF StoreStep
  <2>2. ASSUME NEW g \in FlowRuns, fpc'[g] = "saving_window"
        PROVE  /\ finished[g] > 0
               /\ \A w \in windows' : w.completed # finished[g]
               /\ \A h \in FlowRuns : fpc'[h] = "saving_window" /\ finished[h] = finished[g] => h = g
    <3>1. g # f /\ fpc[g] = "saving_window"
      BY <2>1, <2>2 DEF StoreStep, Elsewhere
    <3>2. \A h \in FlowRuns : fpc'[h] = "saving_window" => fpc[h] = "saving_window"
      BY <2>1 DEF StoreStep, Elsewhere
    <3>3. /\ finished[g] > 0
          /\ \A w \in windows : w.completed # finished[g]
          /\ \A h \in FlowRuns : fpc[h] = "saving_window" /\ finished[h] = finished[g] => h = g
      BY <3>1 DEF MonitoringInv, SavingInv
    <3> QED
      BY <1>1, <1>2, <1>3, <3>1, <3>2, <3>3
  <2>3. ASSUME NEW g \in RetrainRuns, fpc'[g] = "reading_recent"
        PROVE  \E w \in windows' : w.by = g /\ w.status = AlertStatus(obs[g])
    <3>1. CASE g = f
      BY <1>1, <1>3, <3>1
    <3>2. CASE g # f
      <4>1. PICK w \in windows : w.by = g /\ w.status = AlertStatus(obs[g])
        BY <2>1, <2>3, <3>2, MonitoringTyped DEF MonitoringInv, SavingInv
      <4>2. w.id # WindowId(f)
        BY <1>3, <1>4, <3>2, <4>1
      <4> QED
        BY <1>1, <4>1, <4>2 DEF kept
    <3> QED
      BY <3>1, <3>2
  <2> QED
    BY <2>1, <2>2, <2>3 DEF SavingInv
<1> QED
  BY <1>6, <1>7, MonitoringTyped DEF MonitoringInv, StoreStep

LEMMA QuietKeepsMonitoring ==
    ASSUME SnapshotInv, MonitoringInv, QuietStep
    PROVE  MonitoringInv'
<1>1. clock \in Nat \ {0} /\ clock' \in {clock, clock + 1} /\ UNCHANGED <<obs, finished, windows>>
      /\ finished \in [FlowRuns -> Nat] /\ RetrainRuns \subseteq FlowRuns
  BY MonitoringTyped DEF QuietStep
<1>2. WindowsInv'
  <2>1. \A w \in windows : w.completed \in Nat
    BY DEF MonitoringInv, WindowsInv, WindowRow
  <2> QED
    BY <1>1, <2>1 DEF MonitoringInv, WindowsInv
<1>3. \A g \in FlowRuns : fpc'[g] \in {"saving_window", "reading_recent"} => fpc'[g] = fpc[g]
  BY DEF QuietStep, Elsewhere
<1>4. SavingInv'
  BY <1>1, <1>3 DEF MonitoringInv, SavingInv, AlertStatus, Critical, Raised, Measured, Observed
<1> QED
  BY <1>1, <1>2, <1>4, MonitoringTyped DEF MonitoringInv, QuietStep

\* A step that takes one flow run on, and observes and stores nothing.
LEMMA GoingOnIsQuiet ==
    ASSUME SnapshotInv, MonitoringInv, NEW f \in FlowRuns, NEW label, FlowGoto(f, label),
           UNCHANGED <<obs, finished, windows>>, clock' \in {clock, clock + 1},
           tries' = tries \/ (\E n \in 0..Retries : tries' = [tries EXCEPT ![f] = n]),
           label \in Elsewhere
    PROVE  QuietStep
<1>1. \A g \in FlowRuns : fpc'[g] = fpc[g] \/ fpc'[g] = label
  BY MonitoringTyped DEF FlowGoto
<1>2. tries' \in [FlowRuns -> 0..Retries]
  BY MonitoringTyped
<1> QED
  BY <1>1, <1>2 DEF QuietStep

LEMMA MonitorStepsKeep ==
    ASSUME SnapshotInv, MonitoringInv, NEW f \in FlowRuns,
           MonitorStep(f) \/ MonitorFaults(f) \/ FlowDies(f) \/ MonitorStarts(f)
    PROVE  MonitoringInv'
<1> USE MonitoringTyped
<1>1. CASE MonitorEvaluates(f)
  BY <1>1, EvaluationKeepsMonitoring
<1>2. CASE MonitorSaves(f)
  <2>1. StoreStep(f)
    BY <1>2 DEF MonitorSaves, StoreStep, NextTask, FlowGoto, boundVars, Elsewhere, Labels
  <2> QED
    BY <2>1, StoreKeepsMonitoring
<1>3. CASE MonitorFaults(f)
  <2>1. PICK label \in {"monitoring", "stopped"} :
            /\ FlowGoto(f, label) /\ UNCHANGED <<obs, finished, clock>>
            /\ tries' = tries \/ (tries[f] < Retries /\ tries' = [tries EXCEPT ![f] = @ + 1])
            /\ windows' = windows \/ (fpc[f] = "saving_window" /\ windows' = WithWindow(f))
    BY <1>3 DEF MonitorFaults
  <2>2. tries' = tries \/ (\E n \in 0..Retries : tries' = [tries EXCEPT ![f] = n])
    BY <2>1
  <2>3. tries' \in [FlowRuns -> 0..Retries]
    BY <2>2
  <2>4. CASE windows' = windows
    BY <2>1, <2>2, <2>4, GoingOnIsQuiet, QuietKeepsMonitoring DEF Elsewhere, Labels
  <2>5. CASE fpc[f] = "saving_window" /\ windows' = WithWindow(f)
    <3>1. StoreStep(f)
      BY <2>1, <2>3, <2>5 DEF StoreStep, FlowGoto, Elsewhere, Labels
    <3> QED
      BY <3>1, StoreKeepsMonitoring
  <2> QED
    BY <2>1, <2>4, <2>5
<1>4. CASE FlowDies(f) \/ MonitorStarts(f)
  <2>1. PICK label \in {"stopped", "monitoring"} :
            /\ FlowGoto(f, label) /\ UNCHANGED <<obs, finished, windows, clock, tries>>
    BY <1>4 DEF FlowDies, MonitorStarts, localVars, tableVars, boundVars
  <2> QED
    BY <2>1, GoingOnIsQuiet, QuietKeepsMonitoring DEF Elsewhere, Labels
<1> QED
  BY <1>1, <1>2, <1>3, <1>4 DEF MonitorStep

LEMMA RetrainStepsKeep ==
    ASSUME SnapshotInv, MonitoringInv, NEW f \in RetrainRuns,
           RetrainStarts(f) \/ RetrainStep(f) \/ DatabaseFaults(f)
    PROVE  MonitoringInv'
<1> USE MonitoringTyped
<1>0. f \in FlowRuns /\ 0 \in 0..Retries
  OBVIOUS
<1>1. CASE MonitorStep(f)
  BY <1>0, <1>1, MonitorStepsKeep
<1>2. CASE DatabaseFaults(f)
  <2>1. /\ UNCHANGED <<obs, finished, windows, clock>>
        /\ \/ tries[f] < Retries /\ tries' = [tries EXCEPT ![f] = @ + 1] /\ UNCHANGED fpc
           \/ FlowGoto(f, "stopped") /\ UNCHANGED tries
    BY <1>2 DEF DatabaseFaults
  <2>2. CASE UNCHANGED fpc
    <3>1. tries' \in [FlowRuns -> 0..Retries]
      BY <1>0, <2>1
    <3> QED
      BY <2>1, <2>2, <3>1, QuietKeepsMonitoring DEF QuietStep
  <2>3. CASE FlowGoto(f, "stopped") /\ UNCHANGED tries
    BY <1>0, <2>1, <2>3, GoingOnIsQuiet, QuietKeepsMonitoring DEF Elsewhere, Labels
  <2> QED
    BY <2>1, <2>2, <2>3
<1>3. CASE ~MonitorStep(f) /\ ~DatabaseFaults(f)
  <2>1. PICK label \in Elsewhere :
            /\ FlowGoto(f, label)
            /\ UNCHANGED <<obs, finished, windows>> /\ clock' \in {clock, clock + 1}
            /\ tries' = tries \/ tries' = [tries EXCEPT ![f] = 0]
    <3>1. CASE RetrainStarts(f) \/ ReadsRecent(f) \/ Decides(f) \/ StoresStarted(f)
      BY <3>1 DEF RetrainStarts, ReadsRecent, Decides, StoresStarted, NextTask, localVars, tableVars,
         boundVars, Elsewhere, Labels
    <3>2. CASE SnapshotStep(f) /\ UNCHANGED <<localVars, tableVars, artifactVars, boundVars>>
      BY <3>2 DEF SnapshotStep, SnapshotStarts, Reusable, SnapshotReadsInbox, SnapshotWritesSplits,
         SnapshotWritesSplitManifest, SnapshotWritesManifest, localVars, tableVars, boundVars,
         Elsewhere, Labels
    <3>3. CASE TrainStarts(f) \/ TrainEnds(f) \/ StoresRegistered(f) \/ StoresFailed(f) \/ Reports(f)
      BY <3>3 DEF TrainStarts, TrainEnds, StoresRegistered, StoresFailed, StoresOutcome, Reports,
         NextTask, localVars, tableVars, boundVars, Elsewhere, Labels
    <3> QED
      BY <1>3, <3>1, <3>2, <3>3 DEF RetrainStep
  <2> QED
    BY <1>0, <2>1, GoingOnIsQuiet, QuietKeepsMonitoring
<1> QED
  BY <1>1, <1>2, <1>3

LEMMA NextMonitoringInv == SnapshotInv /\ MonitoringInv /\ [Next]_vars => MonitoringInv'
<1> SUFFICES ASSUME SnapshotInv, MonitoringInv, [Next]_vars PROVE MonitoringInv'
  OBVIOUS
<1>1. CASE \E m \in MonitorRuns : MonitorStarts(m) \/ MonitorStep(m)
  BY <1>1, MonitoringTyped, MonitorStepsKeep
<1>2. CASE \E f \in RetrainRuns : RetrainStarts(f) \/ RetrainStep(f) \/ DatabaseFaults(f)
  BY <1>2, RetrainStepsKeep
<1>3. CASE \E f \in FlowRuns : MonitorFaults(f) \/ FlowDies(f)
  BY <1>3, MonitorStepsKeep
<1>4. CASE InboxReplaced /\ UNCHANGED <<localVars, tableVars, artifactVars, boundVars>>
  BY <1>4, MonitoringTyped, QuietKeepsMonitoring
     DEF InboxReplaced, QuietStep, localVars, tableVars, boundVars
<1>5. CASE UNCHANGED vars
  BY <1>5, MonitoringTyped, QuietKeepsMonitoring
     DEF QuietStep, vars, localVars, tableVars, boundVars
<1> QED
  BY <1>1, <1>2, <1>3, <1>4, <1>5 DEF Next

LEMMA InitMonitoringInv == Init => MonitoringInv
<1> SUFFICES ASSUME Init PROVE MonitoringInv
  OBVIOUS
<1>1. WindowsInv
  BY FS_EmptySet DEF Init, WindowsInv
<1>2. SavingInv
  BY DEF Init, SavingInv, FlowRuns
<1> QED
  BY <1>1, <1>2, FlowAssumption DEF Init, MonitoringInv, Null

LEMMA MonitoringInvariant == Spec => [](SnapshotInv /\ MonitoringInv)
BY SnapshotInvariant, InitMonitoringInv, NextMonitoringInv, PTL DEF Spec

\* Of some windows one is completed last.
LEMMA LastOf ==
    ASSUME SnapshotInv, MonitoringInv, NEW S, S \subseteq windows, S # {}
    PROVE  \E w \in S : \A v \in S : v # w => v.completed < w.completed
<1> DEFINE Age == {clock - w.completed : w \in S}
<1>1. clock \in Nat /\ \A w \in windows : w.completed \in Nat /\ w.completed < clock
  BY MonitoringTyped DEF MonitoringInv, WindowsInv, WindowRow
<1>2. Age \subseteq Nat /\ Age # {}
  BY <1>1
<1>3. PICK a \in Age : \A b \in Age : <<b, a>> \notin OpToRel(<, Nat)
  <2> HIDE DEF Age
  <2> QED
    BY <1>2, NatLessThanWellFounded, WFMin
<1>4. \A b \in Age : a <= b
  <2>1. \A b \in Age : b \in Nat /\ a \in Nat /\ ~(b < a)
    BY <1>2, <1>3 DEF OpToRel
  <2> QED
    BY <2>1
<1>5. PICK w \in S : a = clock - w.completed
  OBVIOUS
<1>6. ASSUME NEW v \in S PROVE v.completed <= w.completed
  <2>1. clock - v.completed \in Age
    OBVIOUS
  <2>2. clock - w.completed <= clock - v.completed
    BY <1>4, <1>5, <2>1
  <2>3. clock \in Nat /\ v.completed \in Nat /\ w.completed \in Nat
    BY <1>1
  <2> QED
    BY ONLY <2>2, <2>3
<1>7. \A v \in S : v.completed = w.completed => v = w
  BY DEF MonitoringInv, WindowsInv
<1> QED
  BY <1>1, <1>6, <1>7

\* Of two windows there are a first and a second.
LEMMA TwoLast ==
    ASSUME SnapshotInv, MonitoringInv, Cardinality(windows) >= 2
    PROVE  /\ \E w \in windows : Rank(w) = 1
           /\ \E w \in windows : Rank(w) = 2
<1>1. /\ IsFiniteSet(windows) /\ clock \in Nat
      /\ \A w \in windows : w.completed \in Nat
  BY MonitoringTyped DEF MonitoringInv, WindowsInv, WindowRow
<1>2. windows # {}
  BY FS_EmptySet
<1>3. PICK v \in windows : \A u \in windows : u # v => u.completed < v.completed
  BY <1>2, LastOf
<1>4. windows \ {v} # {}
  <2>1. windows \ {v} = {} => windows = {v}
    OBVIOUS
  <2>2. Cardinality({v}) = 1
    BY FS_Singleton
  <2> QED
    BY <2>1, <2>2
<1>5. PICK w \in windows \ {v} : \A u \in windows \ {v} : u # w => u.completed < w.completed
  BY <1>4, LastOf
<1>6. {u \in windows : u.completed >= v.completed} = {v}
  BY <1>1, <1>3
<1>7. {u \in windows : u.completed >= w.completed} = {v} \cup {w}
  BY <1>1, <1>3, <1>5
<1>8. Cardinality({v}) = 1 /\ Cardinality({v} \cup {w}) = 2
  <2>1. IsFiniteSet({v}) /\ Cardinality({v}) = 1
    BY FS_Singleton
  <2>2. Cardinality({v} \cup {w}) = IF w \in {v} THEN Cardinality({v}) ELSE Cardinality({v}) + 1
    BY ONLY <2>1, FS_AddElement
  <2> QED
    BY <2>1, <2>2
<1> QED
  BY <1>5, <1>6, <1>7, <1>8 DEF Rank

\* The latest statuses are a sequence, no longer than asked for.
LEMMA RecentIsSequence ==
    ASSUME SnapshotInv, MonitoringInv, NEW limit \in Nat
    PROVE  /\ \E S : RecentStatuses(limit) \in Seq(S \cup Statuses)
           /\ Len(RecentStatuses(limit)) \in Nat
           /\ Len(RecentStatuses(limit)) <= limit
           /\ Len(RecentStatuses(limit)) <= Cardinality(windows)
           /\ \A i \in 1..Len(RecentStatuses(limit)) :
                 RecentStatuses(limit)[i] = (CHOOSE w \in windows : Rank(w) = i).status
<1> DEFINE n == IF Cardinality(windows) < limit THEN Cardinality(windows) ELSE limit
           Item(i) == (CHOOSE w \in windows : Rank(w) = i).status
           S == {Item(i) : i \in 1..n}
<1>1. Cardinality(windows) \in Nat
  BY FS_CardinalityType DEF MonitoringInv, WindowsInv
<1>2. n \in Nat /\ n <= limit /\ n <= Cardinality(windows)
  BY <1>1
<1>3. RecentStatuses(limit) = [i \in 1..n |-> Item(i)]
  BY DEF RecentStatuses
<1> HIDE DEF n, Item
<1>4. RecentStatuses(limit) \in Seq(S \cup Statuses)
  BY <1>2, <1>3
<1>5. DOMAIN RecentStatuses(limit) = 1..n
  BY <1>3
<1>6. Len(RecentStatuses(limit)) = n
  BY <1>2, <1>4, <1>5, LenProperties
<1>7. \A i \in 1..n : RecentStatuses(limit)[i] = Item(i)
  BY <1>3
<1> QED
  BY <1>2, <1>4, <1>6, <1>7 DEF Item

\* A critical window is the second of two in a row: the first prior one is critical too.
LEMMA PriorIsCritical ==
    ASSUME RequiredWindows = 2, NEW o, NEW S, NEW prior \in Seq(S \cup Statuses), Sustained(o, prior)
    PROVE  AlertStatus(o) = "critical" /\ Len(prior) >= 1 /\ prior[1] = "critical"
<1> DEFINE s == <<AlertStatus(o)>> \o prior
           K == {i \in DOMAIN s : \A j \in 1..i : s[j] = "critical"}
<1>1. AlertStatus(o) = "critical" /\ Cardinality(K) >= 2
  BY DEF Sustained, ConsecutiveCritical
<1>2. <<AlertStatus(o)>> \in Seq(S \cup Statuses) /\ Len(<<AlertStatus(o)>>) = 1
  <2>1. AlertStatus(o) \in S \cup Statuses
    BY <1>1 DEF Statuses
  <2> QED
    BY <2>1
<1>3. /\ s \in Seq(S \cup Statuses) /\ Len(s) = 1 + Len(prior) /\ Len(prior) \in Nat
      /\ \A i \in 1..(1 + Len(prior)) : i > 1 => s[i] = prior[i - 1]
  BY <1>2, ConcatProperties, LenProperties
<1>4. DOMAIN s = 1..(1 + Len(prior))
  BY <1>3, LenProperties
<1> HIDE DEF s
<1>5. ASSUME ~(Len(prior) >= 1 /\ prior[1] = "critical") PROVE K \subseteq {1}
  <2> SUFFICES ASSUME NEW i \in K, i # 1 PROVE FALSE
    OBVIOUS
  <2>1. i \in 1..(1 + Len(prior)) /\ \A j \in 1..i : s[j] = "critical"
    BY <1>4
  <2>2. i >= 2 /\ Len(prior) >= 1 /\ 2 \in 1..i
    BY <1>3, <2>1
  <2>3. s[2] = "critical" /\ s[2] = prior[1]
    BY <1>3, <2>1, <2>2
  <2> QED
    BY <1>5, <2>2, <2>3
<1>6. K \subseteq {1} => Cardinality(K) <= 1
  <2> HIDE DEF K
  <2>1. IsFiniteSet({1}) /\ Cardinality({1}) = 1
    BY FS_Singleton
  <2> QED
    BY ONLY <2>1, FS_Subset
<1>7. K \subseteq {1} => FALSE
  <2> HIDE DEF K
  <2>1. K \subseteq {1} => Cardinality(K) \in Nat
    BY FS_Singleton, FS_Subset, FS_CardinalityType
  <2> QED
    BY <1>1, <1>6, <2>1
<1> QED
  BY <1>1, <1>5, <1>7

\* A run leaves the place where it reads the recent windows by reading them.
LEMMA DecidesAfterReading ==
    ASSUME SnapshotInv, MonitoringInv, [Next]_vars, NEW f \in RetrainRuns,
           fpc[f] = "reading_recent", fpc'[f] = "deciding"
    PROVE  ReadsRecent(f)
<1> USE MonitoringTyped
<1> DEFINE Else == fpc'[f] = fpc[f] \/ fpc'[f] # "deciding"
<1>0. ~Else
  OBVIOUS
<1>1. ASSUME NEW g \in FlowRuns, NEW label, FlowGoto(g, label), g # f \/ label # "deciding"
      PROVE  Else
  BY <1>1 DEF FlowGoto
<1> HIDE DEF Else
<1>2. ASSUME NEW g \in FlowRuns, MonitorStarts(g) \/ MonitorStep(g) \/ MonitorFaults(g) \/ FlowDies(g)
      PROVE  Else
  <2>1. PICK label \in {"monitoring", "saving_window", "reading_recent", "done", "stopped"} :
            FlowGoto(g, label)
    BY <1>2 DEF MonitorStarts, MonitorStep, MonitorEvaluates, MonitorSaves, MonitorFaults, FlowDies,
       NextTask
  <2> QED
    BY <1>1, <2>1
<1>3. ASSUME NEW g \in RetrainRuns, RetrainStarts(g) \/ RetrainStep(g) \/ DatabaseFaults(g)
      PROVE  Else \/ ReadsRecent(f)
  <2>1. CASE MonitorStep(g)
    BY <1>2, <2>1
  <2>2. CASE DatabaseFaults(g)
    <3>1. UNCHANGED fpc \/ FlowGoto(g, "stopped")
      BY <2>2 DEF DatabaseFaults
    <3> QED
      BY <1>1, <3>1 DEF Else
  <2>3. CASE ReadsRecent(g)
    <3>1. CASE g = f
      BY <2>3, <3>1
    <3>2. CASE g # f
      BY <1>1, <2>3, <3>2 DEF ReadsRecent, NextTask
    <3> QED
      BY <3>1, <3>2
  <2>4. CASE ~MonitorStep(g) /\ ~DatabaseFaults(g) /\ ~ReadsRecent(g)
    <3>1. PICK label \in Labels \ {"deciding"} : FlowGoto(g, label)
      <4>1. CASE RetrainStarts(g) \/ Decides(g) \/ StoresStarted(g)
        BY <4>1 DEF RetrainStarts, Decides, StoresStarted, NextTask, Labels
      <4>2. CASE SnapshotStep(g)
        BY <4>2 DEF SnapshotStep, SnapshotStarts, Reusable, SnapshotReadsInbox, SnapshotWritesSplits,
           SnapshotWritesSplitManifest, SnapshotWritesManifest, Labels
      <4>3. CASE TrainStarts(g) \/ TrainEnds(g) \/ StoresRegistered(g) \/ StoresFailed(g) \/ Reports(g)
        BY <4>3 DEF TrainStarts, TrainEnds, StoresRegistered, StoresFailed, StoresOutcome, Reports,
           NextTask, Labels
      <4> QED
        BY <1>3, <2>4, <4>1, <4>2, <4>3 DEF RetrainStep
    <3> QED
      BY <1>1, <3>1
  <2> QED
    BY <2>1, <2>2, <2>3, <2>4
<1>4. CASE InboxReplaced \/ UNCHANGED vars
  BY <1>0, <1>4 DEF InboxReplaced, vars, Else
<1> QED
  BY <1>0, <1>2, <1>3, <1>4 DEF Next

\* Two critical windows that a run reads in a row are of two flow runs, with its own.
LEMMA TwoFlowsAreCritical ==
    ASSUME RequiredWindows = 2, SnapshotInv, MonitoringInv, NEW f \in RetrainRuns, ReadsRecent(f),
           Sustained(obs[f], recent'[f]), f \in DOMAIN recent
    PROVE  Cardinality({w.by : w \in {v \in windows : v.status = "critical"}}) >= 2
<1> DEFINE st == RecentStatuses(2)
           C(i) == CHOOSE w \in windows : Rank(w) = i
<1>1. PICK S : st \in Seq(S \cup Statuses)
  BY RecentIsSequence
<1>2. /\ Len(st) \in Nat /\ Len(st) <= Cardinality(windows)
      /\ \A i \in 1..Len(st) : st[i] = C(i).status
  BY RecentIsSequence
<1>3. recent'[f] = PriorStatuses(f, st)
  BY DEF ReadsRecent
<1> HIDE DEF st
<1>4. PriorStatuses(f, st) \in Seq(S \cup Statuses)
  BY <1>1, HeadTailProperties DEF PriorStatuses
<1>5. /\ AlertStatus(obs[f]) = "critical"
      /\ Len(PriorStatuses(f, st)) >= 1 /\ PriorStatuses(f, st)[1] = "critical"
  BY <1>3, <1>4, PriorIsCritical
<1>6. Len(st) >= 2 /\ st[1] = "critical" /\ st[2] = "critical"
  <2>1. CASE st # <<>> /\ st[1] = "critical"
    <3>1. PriorStatuses(f, st) = Tail(st)
      BY <1>5, <2>1 DEF PriorStatuses
    <3>2. Len(Tail(st)) = Len(st) - 1 /\ \A i \in 1..Len(Tail(st)) : Tail(st)[i] = st[i + 1]
      BY <1>1, <2>1, HeadTailProperties
    <3>3. Tail(st)[1] = st[1 + 1]
      BY <1>2, <1>5, <3>1, <3>2
    <3> QED
      BY <1>2, <1>5, <2>1, <3>1, <3>2, <3>3
  <2>2. CASE ~(st # <<>> /\ st[1] = "critical")
    <3>1. PriorStatuses(f, st) = st
      BY <1>5, <2>2 DEF PriorStatuses
    <3>2. st = <<>>
      BY <1>5, <2>2, <3>1
    <3> QED
      BY <1>5, <3>1, <3>2, EmptySeq
  <2> QED
    BY <2>1, <2>2
<1>7. Cardinality(windows) >= 2
  <2>1. Cardinality(windows) \in Nat
    BY FS_CardinalityType DEF MonitoringInv, WindowsInv
  <2> QED
    BY <1>2, <1>6, <2>1
<1>8. /\ C(1) \in windows /\ C(2) \in windows /\ Rank(C(1)) = 1 /\ Rank(C(2)) = 2
  BY <1>7, TwoLast
<1>9. C(1).status = "critical" /\ C(2).status = "critical" /\ C(1) # C(2)
  BY <1>2, <1>6, <1>8
<1> HIDE DEF C
<1>10. PICK own \in windows : own.by = f /\ own.status = "critical"
  <2>1. fpc[f] = "reading_recent"
    BY DEF ReadsRecent
  <2>2. \E w \in windows : w.by = f /\ w.status = AlertStatus(obs[f])
    BY ONLY <2>1, MonitoringInv, f \in RetrainRuns DEF MonitoringInv, SavingInv
  <2> QED
    BY <1>5, <2>2
<1>11. PICK other \in {C(1), C(2)} : other # own
  BY <1>9
<1>12. other \in windows /\ other.status = "critical"
  BY <1>8, <1>9, <1>11
<1>13. other.by # f
  <2>1. \A w \in windows : w.by = f => w.id = <<f, 0>>
    BY DEF MonitoringInv, WindowsInv, WindowRow
  <2> QED
    BY <1>10, <1>11, <1>12, <2>1 DEF MonitoringInv, WindowsInv
<1> DEFINE R == {v \in windows : v.status = "critical"}
           B == {w.by : w \in R}
           by == [w \in R |-> w.by]
<1>14. IsFiniteSet(R)
  BY FS_Subset DEF MonitoringInv, WindowsInv
<1>15. by \in Surjection(R, B)
  BY DEF Surjection
<1>16. IsFiniteSet(B)
  <2> HIDE DEF R, B, by
  <2> QED
    BY <1>14, <1>15, FS_Surjection
<1>17. {f} \cup {other.by} \subseteq B
  BY <1>10, <1>12
<1>18. Cardinality({f} \cup {other.by}) = 2
  <2>1. IsFiniteSet({f}) /\ Cardinality({f}) = 1
    BY FS_Singleton
  <2>2. Cardinality({f} \cup {other.by}) =
            IF other.by \in {f} THEN Cardinality({f}) ELSE Cardinality({f}) + 1
    BY ONLY <2>1, FS_AddElement
  <2> QED
    BY <1>13, <2>1, <2>2
<1>19. Cardinality(B) \in Nat /\ Cardinality({f} \cup {other.by}) <= Cardinality(B)
  <2> HIDE DEF B
  <2> QED
    BY <1>16, <1>17, FS_Subset, FS_CardinalityType
<1> QED
  BY <1>18, <1>19

\* What a run remembers of the recent windows, and the rows of the runs.
RowStatuses == {"none", "preparing_data", "failed", "candidate_registered"}
RowType == [status : RowStatuses, started : Nat, completed : Nat]

RowsInv ==
    /\ DOMAIN recent = RetrainRuns
    /\ \A f \in RetrainRuns : Len(recent[f]) <= RequiredWindows
    /\ rows \in [RetrainRuns -> RowType]
    /\ \A f \in RetrainRuns : rows[f].started <= clock /\ rows[f].completed <= clock

\* A merged row is a row of now.
LEMMA WithRowIsRow ==
    ASSUME SnapshotInv, MonitoringInv, RowsInv, NEW f \in RetrainRuns
    PROVE  /\ WithRow(f) \in [RetrainRuns -> RowType]
           /\ \A g \in RetrainRuns : WithRow(f)[g].started <= clock /\ WithRow(f)[g].completed <= clock
<1>0. clock \in Nat /\ Null \in Nat /\ Null <= clock
  BY MonitoringTyped DEF Null
<1>1. PICK r \in RowType : WithRow(f) = [rows EXCEPT ![f] = r]
                              /\ r.started <= clock /\ r.completed <= clock
  <2> DEFINE Merged(r) == WithRow(f) = [rows EXCEPT ![f] = r]
                              /\ r.started <= clock /\ r.completed <= clock
  <2>0. rows[f] \in RowType /\ rows[f].started <= clock /\ rows[f].completed <= clock
        /\ rows \in [RetrainRuns -> RowType]
    BY DEF RowsInv
  <2> DEFINE Closed(s) == [rows[f] EXCEPT !.status = s, !.completed = clock]
  <2>5. \A s \in RowStatuses : /\ Closed(s) \in RowType
                              /\ Closed(s).started <= clock /\ Closed(s).completed <= clock
    <3> SUFFICES ASSUME NEW s \in RowStatuses
                 PROVE  /\ Closed(s) \in RowType
                        /\ Closed(s).started <= clock /\ Closed(s).completed <= clock
      OBVIOUS
    <3> DEFINE old == rows[f]
    <3>1. old \in RowType /\ old.started <= clock /\ clock \in Nat
      BY <1>0, <2>0
    <3> HIDE DEF old
    <3>2. [old EXCEPT !.status = s, !.completed = clock] \in RowType
      BY ONLY <3>1, s \in RowStatuses DEF RowType
    <3>3. [old EXCEPT !.status = s, !.completed = clock].started = old.started
          /\ [old EXCEPT !.status = s, !.completed = clock].completed = clock
      BY ONLY <3>1 DEF RowType
    <3> QED
      BY <3>1, <3>2, <3>3 DEF old
  <2>1. CASE fpc[f] = "storing_started"
    <3>1. Merged([status |-> "preparing_data", started |-> clock, completed |-> Null])
      BY <1>0, <2>1 DEF WithRow
    <3> QED
      BY <1>0, <3>1 DEF RowType, RowStatuses
  <2>2. CASE fpc[f] = "storing_registered"
    <3>1. WithRow(f) = [rows EXCEPT ![f] = Closed("candidate_registered")]
      BY <2>0, <2>2 DEF WithRow
    <3> QED
      BY <2>5, <3>1 DEF RowStatuses
  <2>3. CASE fpc[f] = "raised"
    <3>1. WithRow(f) = [rows EXCEPT ![f] = Closed("failed")]
      BY <2>0, <2>3 DEF WithRow
    <3> QED
      BY <2>5, <3>1 DEF RowStatuses
  <2>4. CASE fpc[f] \notin {"storing_started", "storing_registered", "raised"}
    BY <2>0, <2>4 DEF WithRow
  <2> QED
    BY <2>1, <2>2, <2>3, <2>4
<1> QED
  BY <1>1 DEF RowsInv

LEMMA PriorIsShort ==
    ASSUME SnapshotInv, MonitoringInv, NEW f
    PROVE  Len(PriorStatuses(f, RecentStatuses(RequiredWindows))) <= RequiredWindows
<1> DEFINE st == RecentStatuses(RequiredWindows)
<1>1. RequiredWindows \in Nat
  BY PolicyAssumption
<1>2. PICK S : st \in Seq(S \cup Statuses)
  BY <1>1, RecentIsSequence
<1>3. Len(st) \in Nat /\ Len(st) <= RequiredWindows
  BY <1>1, RecentIsSequence
<1> HIDE DEF st
<1>4. st # <<>> => Len(Tail(st)) = Len(st) - 1
  BY <1>2, HeadTailProperties
<1>5. Len(PriorStatuses(f, st)) <= RequiredWindows
  BY <1>1, <1>3, <1>4 DEF PriorStatuses
<1> QED
  BY <1>5 DEF st

\* What a step does to them.
RowStep ==
    /\ clock' \in {clock, clock + 1}
    /\ \/ recent' = recent
       \/ \E f \in RetrainRuns :
             recent' = [recent EXCEPT ![f] = PriorStatuses(f, RecentStatuses(RequiredWindows))]
    /\ rows' = rows \/ \E f \in RetrainRuns : rows' = WithRow(f)

LEMMA RowStepKeeps ==
    ASSUME SnapshotInv, MonitoringInv, RowsInv, RowStep
    PROVE  RowsInv'
<1>1. clock \in Nat /\ clock' \in Nat /\ clock <= clock'
  BY MonitoringTyped DEF RowStep
<1>2. /\ rows' \in [RetrainRuns -> RowType]
      /\ \A g \in RetrainRuns : rows'[g].started <= clock /\ rows'[g].completed <= clock
  BY WithRowIsRow DEF RowStep, RowsInv
<1>3. \A g \in RetrainRuns : rows'[g].started <= clock' /\ rows'[g].completed <= clock'
  BY <1>1, <1>2 DEF RowType
<1>4. DOMAIN recent' = RetrainRuns /\ \A f \in RetrainRuns : Len(recent'[f]) <= RequiredWindows
  BY PriorIsShort DEF RowStep, RowsInv
<1> QED
  BY <1>2, <1>3, <1>4 DEF RowsInv

LEMMA EveryStepIsRowStep ==
    ASSUME SnapshotInv, MonitoringInv, [Next]_vars
    PROVE  RowStep
<1>1. ASSUME NEW f \in FlowRuns, MonitorStarts(f) \/ MonitorStep(f) \/ MonitorFaults(f) \/ FlowDies(f)
      PROVE  RowStep
  BY <1>1 DEF MonitorStarts, MonitorStep, MonitorEvaluates, MonitorSaves, MonitorFaults, FlowDies,
     RowStep, localVars, tableVars, boundVars
<1>2. ASSUME NEW f \in RetrainRuns, RetrainStarts(f) \/ RetrainStep(f) \/ DatabaseFaults(f)
      PROVE  RowStep
  <2>1. CASE MonitorStep(f)
    BY <1>1, <2>1, MonitoringTyped
  <2>2. CASE RetrainStarts(f) \/ DatabaseFaults(f) \/ ReadsRecent(f) \/ Decides(f)
    BY <2>2 DEF RetrainStarts, DatabaseFaults, ReadsRecent, Decides, RowStep, localVars, tableVars,
       boundVars
  <2>3. CASE SnapshotStep(f) /\ UNCHANGED <<localVars, tableVars, artifactVars, boundVars>>
    BY <2>3 DEF RowStep, localVars, tableVars, boundVars
  <2>4. CASE TrainStarts(f) \/ TrainEnds(f) \/ StoresStarted(f) \/ StoresRegistered(f)
             \/ StoresFailed(f) \/ Reports(f)
    BY <2>4 DEF TrainStarts, TrainEnds, StoresStarted, StoresRegistered, StoresFailed, StoresOutcome,
       Reports, RowStep, localVars, tableVars, boundVars
  <2> QED
    BY <1>2, <2>1, <2>2, <2>3, <2>4 DEF RetrainStep
<1>3. CASE InboxReplaced /\ UNCHANGED <<localVars, tableVars, artifactVars, boundVars>>
  BY <1>3 DEF RowStep, localVars, tableVars, boundVars
<1>4. CASE UNCHANGED vars
  BY <1>4 DEF RowStep, vars, localVars, tableVars, boundVars
<1> QED
  BY <1>1, <1>2, <1>3, <1>4, MonitoringTyped DEF Next

LEMMA InitRowsInv == Init => RowsInv
<1> SUFFICES ASSUME Init PROVE RowsInv
  OBVIOUS
<1>1. Len(<<>>) = 0 /\ RequiredWindows \in Nat
  BY EmptySeq, PolicyAssumption
<1>2. NoRow \in RowType /\ NoRow.started = 0 /\ NoRow.completed = 0
  BY DEF NoRow, RowType, RowStatuses
<1> QED
  BY <1>1, <1>2 DEF Init, RowsInv

LEMMA TablesInvariant == Spec => [](SnapshotInv /\ MonitoringInv /\ RowsInv)
<1>1. SnapshotInv /\ MonitoringInv /\ RowsInv /\ [Next]_vars => RowsInv'
  BY EveryStepIsRowStep, RowStepKeeps
<1> QED
  BY <1>1, MonitoringInvariant, InitRowsInv, PTL DEF Spec

(* The tables, the snapshot files and what the flow runs remember keep     *)
(* their types, with every fault, retry and execution.                     *)
THEOREM RetrainTypeCorrect == Spec => []RetrainTypeOK
<1>1. SnapshotInv /\ MonitoringInv /\ RowsInv => RetrainTypeOK
  <2> SUFFICES ASSUME SnapshotInv, MonitoringInv, RowsInv PROVE RetrainTypeOK
    OBVIOUS
  <2>1. /\ inbox \in {NoFile} \cup InboxFiles
        /\ input \in [RetrainRuns -> {NoFile} \cup InboxFiles]
        /\ period \in [RetrainRuns -> [from : Int, to : Int]]
        /\ \A f \in RetrainRuns :
              /\ DOMAIN snap[f] = DOMAIN NoSnapshot
              /\ {snap[f].split, snap[f].manifest} \subseteq {NoFile} \cup InboxFiles
              /\ DOMAIN trained[f] = {"begun", "on", "registered"}
    BY DEF SnapshotInv, SnapshotType, MaybeFile, NoSnapshot
  <2>2. finished \in [FlowRuns -> 0..clock]
    BY MonitoringTyped DEF MonitoringInv
  <2>3. windows \subseteq [id : FlowRuns \X (0..Retries), by : FlowRuns,
                         status : Statuses, completed : 1..clock]
    BY MonitoringTyped DEF MonitoringInv, WindowsInv, WindowRow
  <2>4. rows \in [RetrainRuns ->
               [status : {"none", "preparing_data", "failed", "candidate_registered"},
                started : 0..clock, completed : 0..clock]]
    BY MonitoringTyped DEF RowsInv, RowType, RowStatuses
  <2> QED
    BY <2>1, <2>2, <2>3, <2>4 DEF RetrainTypeOK, MonitoringInv, RowsInv
<1> QED
  BY <1>1, TablesInvariant, PTL

(* With two windows required (configs/orchestration.yaml), a run that      *)
(* finds its critical window sustained has read the critical windows of    *)
(* two flow runs (flows.py:204-212, retraining.py:334), however often      *)
(* monitoring tasks were retried and whatever was stored meanwhile.        *)
THEOREM EvidenceIsSustained == ASSUME RequiredWindows = 2 PROVE Spec => SustainedEvidence
<1> DEFINE Evident == \A f \in RetrainRuns :
        fpc[f] = "reading_recent" /\ fpc'[f] = "deciding" /\ Sustained(obs[f], recent'[f]) =>
            Cardinality({w.by : w \in {v \in windows : v.status = "critical"}})
                >= RequiredWindows
<1>1. SnapshotInv /\ MonitoringInv /\ RowsInv /\ [Next]_vars => [Evident]_vars
  <2> SUFFICES ASSUME SnapshotInv, MonitoringInv, RowsInv, [Next]_vars, NEW f \in RetrainRuns,
                      fpc[f] = "reading_recent", fpc'[f] = "deciding", Sustained(obs[f], recent'[f])
               PROVE  Cardinality({w.by : w \in {v \in windows : v.status = "critical"}})
                          >= RequiredWindows
    OBVIOUS
  <2>1. ReadsRecent(f) /\ f \in DOMAIN recent
    BY DecidesAfterReading DEF RowsInv
  <2> QED
    BY <2>1, TwoFlowsAreCritical
<1> HIDE DEF Evident
<1>2. Spec => [][Evident]_vars
  BY <1>1, TablesInvariant, PTL DEF Spec
<1> QED
  BY <1>2 DEF SustainedEvidence, Evident

=============================================================================
