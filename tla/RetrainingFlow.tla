--------------------------- MODULE RetrainingFlow ---------------------------
(***************************************************************************)
(* monitoring_flow and conditional_retraining_flow of orchestration/       *)
(* flows.py with the tables they write, monitoring_runs and                *)
(* retraining_runs, and the status page that reads them.                   *)
(*                                                                         *)
(* A retraining run has an id; it monitors a window, looks at the latest   *)
(* windows of everybody, and decides.  Everything it stores is keyed by    *)
(* the id, so a run that ended or died may be executed again.  Tasks that  *)
(* use the database are retried; a task that is out of retries raises.     *)
(***************************************************************************)
EXTENDS MonitoringPolicy, RetrainingSnapshot

CONSTANTS
    MonitorRuns,   \* executions of monitoring_flow on its own
    Observations,  \* what a window may show
    Retries,       \* runtime.temporary_failure_retries
    MaxFaults,     \* bound on database faults
    MaxDeaths,     \* bound on killed flow runs
    MaxExecutions  \* bound on starts of retraining runs

ASSUME FlowAssumption ==
    /\ Observations \subseteq Observation
    /\ MonitorRuns \cap RetrainRuns = {}
    /\ {Retries, MaxFaults, MaxDeaths, MaxExecutions} \subseteq Nat

VARIABLES
    obs,        \* flow run -> what its monitoring window showed
    finished,   \* flow run -> completed_at of its monitoring
    recent,     \* retraining run -> the prior statuses it decides with
    manual,     \* retraining run -> started with manual_trigger
    tries,      \* flow run -> retries its current task has used
    windows,    \* the table monitoring_runs
    rows,       \* the table retraining_runs, by run id
    report,     \* retraining run -> its summary file
    trained,    \* retraining run -> its experiment directory and summary
    executions, \* how often a retraining run was started
    clock,      \* the order of the timestamps that are taken
    faults, deaths

tableVars == <<windows, rows>>
localVars == <<obs, finished, recent, manual, tries>>
artifactVars == <<report, trained>>
boundVars == <<executions, clock, faults, deaths>>
vars == <<snapshotVars, fpc, localVars, tableVars, artifactVars, boundVars>>

FlowRuns == MonitorRuns \cup RetrainRuns
FlowEnded == {"idle", "done", "failed", "stopped"}
FlowActive(f) == fpc[f] \notin FlowEnded

NoRow == [status |-> "none", started |-> 0, completed |-> 0]
Null == 0
QuietWindow == [events |-> 0, labels |-> 0, value |-> [s \in Signals |-> 0]]

Init ==
    /\ SnapshotInit
    /\ fpc = [f \in FlowRuns |-> "idle"]
    /\ obs = [f \in FlowRuns |-> QuietWindow]
    /\ finished = [f \in FlowRuns |-> Null]
    /\ recent = [f \in RetrainRuns |-> <<>>]
    /\ manual = [f \in RetrainRuns |-> FALSE]
    /\ tries = [f \in FlowRuns |-> 0]
    /\ windows = {}
    /\ rows = [f \in RetrainRuns |-> NoRow]
    /\ report = [f \in RetrainRuns |-> "none"]
    /\ trained = [f \in RetrainRuns |-> [begun |-> FALSE, on |-> {}, registered |-> FALSE]]
    /\ executions = 0
    /\ clock = 1 /\ faults = 0 /\ deaths = 0

\* The next task begins, with all its retries.
NextTask(f, label) == FlowGoto(f, label) /\ tries' = [tries EXCEPT ![f] = 0]

-----------------------------------------------------------------------------
(* execute_monitoring_run under its task, of either flow. *)

MonitorStarts(m) ==
    /\ fpc[m] = "idle"
    /\ FlowGoto(m, "monitoring")
    /\ UNCHANGED <<snapshotVars, localVars, tableVars, artifactVars, boundVars>>

\* The window ends now and reaches back Lookback.
RetrainStarts(f) ==
    /\ fpc[f] \in FlowEnded
    /\ executions < MaxExecutions
    /\ executions' = executions + 1
    /\ period' = [period EXCEPT ![f] = [from |-> clock - Lookback, to |-> clock]]
    /\ \E trigger \in BOOLEAN : manual' = [manual EXCEPT ![f] = trigger]
    /\ NextTask(f, "monitoring")
    /\ UNCHANGED <<inbox, input, snap, obs, finished, recent, tableVars, artifactVars,
                   clock, faults, deaths>>

MonitorEvaluates(f) ==
    /\ fpc[f] = "monitoring"
    /\ \E o \in Observations : obs' = [obs EXCEPT ![f] = o]
    /\ finished' = [finished EXCEPT ![f] = clock]
    /\ clock' = clock + 1
    /\ FlowGoto(f, "saving_window")
    /\ UNCHANGED <<snapshotVars, recent, manual, tries, tableVars, artifactVars,
                   executions, faults, deaths>>

\* A monitoring flow of its own passes no run_id: each attempt makes a new one.
WindowId(f) == IF f \in RetrainRuns THEN <<f, 0>> ELSE <<f, tries[f]>>

\* session.merge: one row for each id.
WithWindow(f) ==
    {w \in windows : w.id # WindowId(f)} \cup
        {[id |-> WindowId(f), by |-> f, status |-> AlertStatus(obs[f]),
          completed |-> finished[f]]}

MonitorSaves(f) ==
    /\ fpc[f] = "saving_window"
    /\ windows' = WithWindow(f)
    /\ NextTask(f, IF f \in RetrainRuns THEN "reading_recent" ELSE "done")
    /\ UNCHANGED <<snapshotVars, obs, finished, recent, manual, rows, artifactVars, boundVars>>

\* The task raises, before or after the row was committed, and starts over.
MonitorFaults(f) ==
    /\ fpc[f] \in {"monitoring", "saving_window"}
    /\ faults < MaxFaults
    /\ faults' = faults + 1
    /\ windows' \in {windows} \cup IF fpc[f] = "saving_window" THEN {WithWindow(f)} ELSE {}
    /\ \/ /\ tries[f] < Retries
          /\ tries' = [tries EXCEPT ![f] = @ + 1]
          /\ FlowGoto(f, "monitoring")
       \/ /\ tries[f] = Retries
          /\ FlowGoto(f, "stopped")
          /\ UNCHANGED tries
    /\ UNCHANGED <<snapshotVars, obs, finished, recent, manual, rows, artifactVars,
                   executions, clock, deaths>>

-----------------------------------------------------------------------------
(* conditional_retraining_flow: the decision. *)

\* list_recent(limit): rank 1 is the window completed last.
Rank(w) == Cardinality({v \in windows : v.completed >= w.completed})
RecentStatuses_NoLimit(limit) ==
    [i \in 1..Cardinality(windows) |-> (CHOOSE w \in windows : Rank(w) = i).status]
RecentStatuses(limit) ==
    [i \in 1..(IF Cardinality(windows) < limit THEN Cardinality(windows) ELSE limit) |->
        (CHOOSE w \in windows : Rank(w) = i).status]

\* The run's own window is normally the latest: it is recognised by its status.
PriorStatuses_KeepsOwn(f, statuses) == statuses
PriorStatuses(f, statuses) ==
    IF statuses # <<>> /\ statuses[1] = AlertStatus(obs[f]) THEN Tail(statuses) ELSE statuses

ReadsRecent(f) ==
    /\ fpc[f] = "reading_recent"
    /\ recent' = [recent EXCEPT ![f] = PriorStatuses(f, RecentStatuses(RequiredWindows))]
    /\ NextTask(f, "deciding")
    /\ UNCHANGED <<snapshotVars, obs, finished, manual, tableVars, artifactVars, boundVars>>

Decides(f) ==
    /\ fpc[f] = "deciding"
    /\ \/ /\ ShouldRetrain(obs[f], recent[f], manual[f])
          /\ FlowGoto(f, "storing_started")
          /\ UNCHANGED report
       \/ /\ ~ShouldRetrain(obs[f], recent[f], manual[f])
          /\ report' = [report EXCEPT ![f] =
                 IF EnoughLabels(obs[f]) THEN "not_triggered" ELSE "insufficient_feedback"]
          /\ FlowGoto(f, "done")
    /\ UNCHANGED <<snapshotVars, localVars, tableVars, trained, boundVars>>

-----------------------------------------------------------------------------
(* conditional_retraining_flow: the run that was decided. *)

\* session.merge of the row that is stored at this point of the flow.
WithRow(f) ==
    CASE fpc[f] = "storing_started" ->
             [rows EXCEPT ![f] =
                 [status |-> "preparing_data", started |-> clock, completed |-> Null]]
      [] fpc[f] = "storing_registered" ->
             [rows EXCEPT ![f].status = "candidate_registered", ![f].completed = clock]
      [] fpc[f] = "raised" ->
             [rows EXCEPT ![f].status = "failed", ![f].completed = clock]
      [] OTHER -> rows

StoresStarted(f) ==
    /\ fpc[f] = "storing_started"
    /\ rows' = WithRow(f)
    /\ clock' = clock + 1
    /\ NextTask(f, "preparing")
    /\ UNCHANGED <<snapshotVars, obs, finished, recent, manual, windows, artifactVars,
                   executions, faults, deaths>>

\* train_candidate_flow: a summary of the same data is reused; otherwise a new
\* experiment directory is made, and must not exist.
TrainStarts(f) ==
    /\ fpc[f] = "training"
    /\ \/ /\ trained[f].registered
          /\ FlowGoto(f, IF trained[f].on = snap[f].train THEN "storing_registered" ELSE "raised")
          /\ UNCHANGED trained
       \/ /\ ~trained[f].registered /\ trained[f].begun
          /\ FlowGoto(f, "raised")
          /\ UNCHANGED trained
       \/ /\ ~trained[f].registered /\ ~trained[f].begun
          /\ trained' = [trained EXCEPT ![f].begun = TRUE]
          /\ FlowGoto(f, "fitting")
    /\ UNCHANGED <<snapshotVars, localVars, tableVars, report, boundVars>>

TrainEnds(f) ==
    /\ fpc[f] = "fitting"
    /\ \/ /\ trained' = [trained EXCEPT ![f].registered = TRUE, ![f].on = snap[f].train]
          /\ FlowGoto(f, "storing_registered")
       \/ /\ FlowGoto(f, "raised")
          /\ UNCHANGED trained
    /\ UNCHANGED <<snapshotVars, localVars, tableVars, report, boundVars>>

\* The state is stored, then the summary file is written.
StoresOutcome(f) ==
    /\ rows' = WithRow(f)
    /\ clock' = clock + 1
    /\ NextTask(f, "reporting")
    /\ UNCHANGED <<snapshotVars, obs, finished, recent, manual, windows, artifactVars,
                   executions, faults, deaths>>

StoresRegistered(f) == fpc[f] = "storing_registered" /\ StoresOutcome(f)

StoresFailed(f) == fpc[f] = "raised" /\ StoresOutcome(f)

Reports(f) ==
    /\ fpc[f] = "reporting"
    /\ report' = [report EXCEPT ![f] = rows[f].status]
    /\ FlowGoto(f, IF rows[f].status = "failed" THEN "failed" ELSE "done")
    /\ UNCHANGED <<snapshotVars, localVars, tableVars, trained, boundVars>>

\* A database task raises, before or after its row was committed; out of retries
\* it ends the flow run, also in the handler that was to store the failure.
DatabaseFaults(f) ==
    /\ fpc[f] \in {"reading_recent", "storing_started", "storing_registered", "raised"}
    /\ faults < MaxFaults
    /\ faults' = faults + 1
    /\ rows' \in {rows, WithRow(f)}
    /\ \/ /\ tries[f] < Retries
          /\ tries' = [tries EXCEPT ![f] = @ + 1]
          /\ UNCHANGED fpc
       \/ /\ tries[f] = Retries
          /\ FlowGoto(f, "stopped")
          /\ UNCHANGED tries
    /\ UNCHANGED <<snapshotVars, obs, finished, recent, manual, windows, artifactVars,
                   executions, clock, deaths>>

FlowDies(f) ==
    /\ FlowActive(f)
    /\ deaths < MaxDeaths
    /\ deaths' = deaths + 1
    /\ FlowGoto(f, "stopped")
    /\ UNCHANGED <<snapshotVars, localVars, tableVars, artifactVars, executions, clock, faults>>

-----------------------------------------------------------------------------
MonitorStep(f) == MonitorEvaluates(f) \/ MonitorSaves(f)

RetrainStep(f) ==
    \/ MonitorStep(f)
    \/ ReadsRecent(f) \/ Decides(f) \/ StoresStarted(f)
    \/ SnapshotStep(f) /\ UNCHANGED <<localVars, tableVars, artifactVars, boundVars>>
    \/ TrainStarts(f) \/ TrainEnds(f)
    \/ StoresRegistered(f) \/ StoresFailed(f) \/ Reports(f)

Next ==
    \/ \E m \in MonitorRuns : MonitorStarts(m) \/ MonitorStep(m)
    \/ \E f \in RetrainRuns : RetrainStarts(f) \/ RetrainStep(f) \/ DatabaseFaults(f)
    \/ \E f \in FlowRuns : MonitorFaults(f) \/ FlowDies(f)
    \/ InboxReplaced /\ UNCHANGED <<localVars, tableVars, artifactVars, boundVars>>

Spec == Init /\ [][Next]_vars

-----------------------------------------------------------------------------
(* latest_retraining_status of api/operations.py, shown by the dashboard.  *)

\* list_recent(1) sorts by completed_at and then by started_at, both
\* descending; in PostgreSQL a row without a completion comes before the others.
Newer(r, q) ==
    \/ r.completed = Null /\ q.completed # Null
    \/ r.completed = Null /\ q.completed = Null /\ r.started >= q.started
    \/ r.completed # Null /\ q.completed # Null /\ r.completed >= q.completed

StoredRuns == {f \in RetrainRuns : rows[f] # NoRow}
ShownRun == CHOOSE f \in StoredRuns : \A g \in StoredRuns : Newer(rows[f], rows[g])

-----------------------------------------------------------------------------
(* Properties *)

\* Every variable has its type.
RetrainTypeOK ==
    /\ inbox \in {NoFile} \cup InboxFiles
    /\ input \in [RetrainRuns -> {NoFile} \cup InboxFiles]
    /\ period \in [RetrainRuns -> [from : Int, to : Int]]
    /\ \A f \in RetrainRuns :
        /\ DOMAIN snap[f] = DOMAIN NoSnapshot
        /\ {snap[f].split, snap[f].manifest} \subseteq {NoFile} \cup InboxFiles
        /\ DOMAIN trained[f] = {"begun", "on", "registered"}
        /\ Len(recent[f]) <= RequiredWindows
    /\ obs \in [FlowRuns -> {QuietWindow} \cup Observations]
    /\ finished \in [FlowRuns -> 0..clock]
    /\ tries \in [FlowRuns -> 0..Retries]
    /\ windows \subseteq [id : FlowRuns \X (0..Retries), by : FlowRuns,
                          status : Statuses, completed : 1..clock]
    /\ rows \in [RetrainRuns ->
           [status : {"none", "preparing_data", "failed", "candidate_registered"},
            started : 0..clock, completed : 0..clock]]

\* When a run reads windows that make its own critical window a sustained one,
\* critical windows of as many different flow runs as the policy requires are
\* stored: its own window is never counted a second time as a prior one,
\* whatever others store between its window and its reading (flows.py, the
\* slice of the recent statuses).
SustainedEvidence ==
    [][\A f \in RetrainRuns :
        fpc[f] = "reading_recent" /\ fpc'[f] = "deciding" /\ Sustained(obs[f], recent'[f]) =>
            Cardinality({w.by : w \in {v \in windows : v.status = "critical"}})
                >= RequiredWindows]_vars

\* A complete snapshot is never written again: not by a later execution of the
\* run, with its other period, and not when the inbox holds another file.
SnapshotIsImmutable ==
    [][\A f \in RetrainRuns : Complete(f) => snap'[f] = snap[f]]_vars

\* A candidate was trained on the rows that its retraining manifest describes:
\* those that the recorded file contributes in the recorded period, whichever
\* executions of the run prepared, trained and registered.
CandidateLineage ==
    \A f \in RetrainRuns : trained[f].registered =>
        /\ Complete(f)
        /\ trained[f].on =
               Additions(snap[f].manifest, [from |-> snap[f].from, to |-> snap[f].to])

\* The dashboard's latest retraining run is one that was started last.
LatestRunIsShown ==
    StoredRuns # {} =>
        \A f \in StoredRuns : rows[f].started <= rows[ShownRun].started

=============================================================================
