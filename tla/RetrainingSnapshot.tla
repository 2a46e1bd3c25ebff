------------------------- MODULE RetrainingSnapshot -------------------------
(***************************************************************************)
(* prepare_retraining_dataset of orchestration/retraining.py: reviewed     *)
(* rows from the inbox file are appended to the training split, in a       *)
(* directory of the run that is built once and reused or refused later.    *)
(*                                                                         *)
(* The parent splits do not change.  A file's hash is the file itself, so  *)
(* a manifest records the inbox file that was there when it was hashed.    *)
(***************************************************************************)
EXTENDS Integers, Sequences, FiniteSets

CONSTANTS
    RetrainRuns,    \* ids of conditional retraining runs
    InboxFiles,     \* the reviewed files a person may place in the inbox
    NoFile,         \* a file that does not exist
    KnownLabels,    \* labels of the parent manifest
    Holdout,        \* text groups of the parent's validation and test splits
    ParentRecords,  \* records of the parent's training split
    NoText,         \* neither subject nor body
    Lookback,       \* current_window.default_lookback_days
    InboxMayChange  \* TRUE: the file may be replaced while a run reads it

\* A row of a reviewed file; request 0 is a blank request id.
ReviewedRow(row) ==
    /\ row.request \in Nat /\ row.approved \in BOOLEAN /\ row.created \in Int

ASSUME SnapshotAssumption ==
    /\ \A file \in InboxFiles : \A i \in DOMAIN file : ReviewedRow(file[i])
    /\ NoFile \notin InboxFiles
    /\ Lookback \in Nat \ {0}
    /\ InboxMayChange \in BOOLEAN

VARIABLES
    inbox,   \* approved_labeled_tickets.parquet
    input,   \* run -> the inbox file it has read
    period,  \* run -> its source period
    snap,    \* run -> the files of its snapshot directory
    fpc      \* where each flow run is

snapshotVars == <<inbox, input, period, snap>>

\* An empty directory, and the files as they appear in it.
NoSnapshot == [used |-> FALSE, train |-> {}, split |-> NoFile, manifest |-> NoFile,
               from |-> 0, to |-> 0]

SnapshotInit ==
    /\ inbox \in {NoFile} \cup InboxFiles
    /\ input = [f \in RetrainRuns |-> NoFile]
    /\ period = [f \in RetrainRuns |-> [from |-> 0, to |-> 0]]
    /\ snap = [f \in RetrainRuns |-> NoSnapshot]

FlowGoto(f, label) == fpc' = [fpc EXCEPT ![f] = label]

Record(row) == <<row.request, row.text, row.label>>

-----------------------------------------------------------------------------
(* _approved_rows: the rows of a reviewed file that become training rows.  *)

InPeriod(file, p) ==
    {i \in DOMAIN file : file[i].approved /\ p.from <= file[i].created /\ file[i].created < p.to}

\* Of the approved rows of a request only the first is looked at further,
\* whatever becomes of it.
FirstOfRequest(file, p) ==
    {i \in InPeriod(file, p) :
        /\ file[i].request # 0
        /\ \A j \in InPeriod(file, p) : file[j].request = file[i].request => i <= j}

Additions(file, p) ==
    {Record(file[i]) : i \in
        {k \in FirstOfRequest(file, p) :
            /\ file[k].label \in KnownLabels
            /\ file[k].text # NoText
            /\ file[k].text \notin Holdout
            /\ Record(file[k]) \notin ParentRecords}}

-----------------------------------------------------------------------------
(* prepare_retraining_dataset *)

Complete(f) == snap[f].split # NoFile /\ snap[f].manifest # NoFile

\* The hash of the inbox file in the manifest is that of the file there now.
Reusable(f) == Complete(f) /\ snap[f].manifest = inbox

\* Existing files are ignored and the snapshot is built again.
SnapshotStarts_Rebuilds(f) ==
    /\ fpc[f] = "preparing"
    /\ FlowGoto(f, IF inbox # NoFile THEN "reading_inbox" ELSE "raised")
    /\ UNCHANGED snapshotVars

\* A snapshot that lacks only its last manifest is finished by a later start.
SnapshotStarts_Resumes(f) ==
    /\ fpc[f] = "preparing"
    /\ FlowGoto(f,
         CASE Reusable(f) -> "training"
           [] Complete(f) /\ ~Reusable(f) -> "raised"
           [] ~Complete(f) /\ snap[f].split # NoFile        -> "writing_manifest"
           [] ~Complete(f) /\ snap[f].split = NoFile
                /\ (snap[f].used \/ inbox = NoFile)         -> "raised"
           [] OTHER -> "reading_inbox")
    /\ UNCHANGED snapshotVars

\* A complete snapshot is reused when the inbox file is still the one it was
\* made from; an incomplete one is never continued.
SnapshotStarts(f) ==
    /\ fpc[f] = "preparing"
    /\ FlowGoto(f,
         CASE Reusable(f) -> "training"
           [] Complete(f) /\ ~Reusable(f) -> "raised"
           [] ~Complete(f) /\ (snap[f].used \/ inbox = NoFile) -> "raised"
           [] OTHER -> "reading_inbox")
    /\ UNCHANGED snapshotVars

SnapshotReadsInbox(f) ==
    /\ fpc[f] = "reading_inbox"
    /\ input' = [input EXCEPT ![f] = inbox]
    /\ FlowGoto(f, IF inbox # NoFile /\ Additions(inbox, period[f]) # {}
                   THEN "writing_splits" ELSE "raised")
    /\ UNCHANGED <<inbox, period, snap>>

\* The directory, train.parquet and validation.parquet.
SnapshotWritesSplits(f) ==
    /\ fpc[f] = "writing_splits"
    /\ snap' = [snap EXCEPT ![f].used = TRUE,
                            ![f].train = Additions(input[f], period[f])]
    /\ FlowGoto(f, "writing_split_manifest")
    /\ UNCHANGED <<inbox, input, period>>

\* split_manifest.json: the inbox file is hashed now.
SnapshotWritesSplitManifest(f) ==
    /\ fpc[f] = "writing_split_manifest"
    /\ snap' = [snap EXCEPT ![f].split = inbox]
    /\ FlowGoto(f, IF inbox # NoFile THEN "writing_manifest" ELSE "raised")
    /\ UNCHANGED <<inbox, input, period>>

\* retraining_manifest.json: the inbox file is hashed once more.
SnapshotWritesManifest(f) ==
    /\ fpc[f] = "writing_manifest"
    /\ \/ /\ inbox # NoFile
          /\ snap' = [snap EXCEPT ![f].manifest = inbox,
                                  ![f].from = period[f].from, ![f].to = period[f].to]
          /\ FlowGoto(f, "training")
       \/ /\ inbox = NoFile
          /\ FlowGoto(f, "raised")
          /\ UNCHANGED snap
    /\ UNCHANGED <<inbox, input, period>>

SnapshotStep(f) ==
    \/ SnapshotStarts(f) \/ SnapshotReadsInbox(f) \/ SnapshotWritesSplits(f)
    \/ SnapshotWritesSplitManifest(f) \/ SnapshotWritesManifest(f)

Preparing(f) ==
    fpc[f] \in {"reading_inbox", "writing_splits", "writing_split_manifest", "writing_manifest"}

\* A person places another reviewed file, or takes it away.
InboxReplaced ==
    /\ InboxMayChange \/ \A f \in RetrainRuns : ~Preparing(f)
    /\ inbox' \in ({NoFile} \cup InboxFiles) \ {inbox}
    /\ UNCHANGED <<input, period, snap, fpc>>

=============================================================================
