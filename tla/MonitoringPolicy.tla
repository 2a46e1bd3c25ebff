-------------------------- MODULE MonitoringPolicy --------------------------
(***************************************************************************)
(* monitoring/policy.py and the trigger of orchestration/retraining.py:    *)
(* what one monitoring window says, and when retraining is proposed.       *)
(* Scores and rates are scaled integers; they are only compared.           *)
(***************************************************************************)
EXTENDS Integers, Sequences, FiniteSets

CONSTANTS
    MinimumEvents,           \* current_window.minimum_event_count
    MinimumFeedback,         \* quality.minimum_feedback_count
    WarningLevel,            \* signal -> alerts.warning_*
    CriticalLevel,           \* signal -> alerts.critical_*
    MinimumWarningSignals, MinimumCriticalSignals,
    MinimumNewLabels,        \* retraining.minimum_new_feedback_labels
    RequiredWindows,         \* retraining.required_consecutive_critical_windows
    DeclineTolerance,        \* retraining.macro_f1_decline_tolerance
    ConfidenceTolerance      \* retraining.sustained_low_confidence_rate_increase

Signals == {"features", "prediction", "confidence", "decline"}

\* What is measured in a window: counts, and the value behind each signal.
Observation == [events : Nat, labels : Nat, value : [Signals -> Int]]

ASSUME PolicyAssumption ==
    /\ {MinimumEvents, MinimumFeedback, MinimumNewLabels} \subseteq Nat \ {0}
    /\ {WarningLevel, CriticalLevel} \subseteq [Signals -> Nat]
    /\ \A s \in Signals : WarningLevel[s] <= CriticalLevel[s]
    /\ {MinimumWarningSignals, MinimumCriticalSignals} \subseteq Nat \ {0, 1}
    /\ RequiredWindows \in Nat \ {0, 1}
    /\ {DeclineTolerance, ConfidenceTolerance} \subseteq Nat \ {0}

\* max(change, 0.0): an improvement is no signal of its own.
Observed(o, s) == IF o.value[s] > 0 THEN o.value[s] ELSE 0

\* The decline counts only when enough delayed labels have arrived.
Measured(o) == {s \in Signals : s = "decline" => o.labels >= MinimumFeedback}
Raised(o) == {s \in Measured(o) : Observed(o, s) >= WarningLevel[s]}
Critical(o) == {s \in Raised(o) : Observed(o, s) >= CriticalLevel[s]}

AlertStatus(o) ==
    CASE o.events < MinimumEvents ->
             "insufficient_data"
      [] o.events >= MinimumEvents /\ Cardinality(Critical(o)) >= MinimumCriticalSignals ->
             "critical"
      [] /\ o.events >= MinimumEvents /\ Cardinality(Critical(o)) < MinimumCriticalSignals
         /\ Cardinality(Raised(o)) >= MinimumWarningSignals ->
             "warning"
      [] OTHER -> "healthy"

Statuses == {"insufficient_data", "healthy", "warning", "critical"}

\* The retraining trigger reads a signal from the alert decision: one that was
\* not raised, or any signal of a window with too little data, reads as 0.
SignalInSummary(o, s) ==
    IF s \in Raised(o) /\ o.events >= MinimumEvents THEN Observed(o, s) ELSE 0

\* How many of the statuses, from the first one on, are critical.
ConsecutiveCritical(statuses) ==
    Cardinality({i \in DOMAIN statuses : \A j \in 1..i : statuses[j] = "critical"})

EnoughLabels(o) == o.labels >= MinimumNewLabels

Sustained(o, recent) ==
    AlertStatus(o) = "critical"
        /\ ConsecutiveCritical(<<AlertStatus(o)>> \o recent) >= RequiredWindows

\* evaluate_retraining_conditions: a manual trigger still needs the labels.
ShouldRetrain(o, recent, manual) ==
    /\ EnoughLabels(o)
    /\ manual \/ /\ Sustained(o, recent)
                 /\ \/ SignalInSummary(o, "decline") >= DeclineTolerance
                    \/ SignalInSummary(o, "confidence") >= ConfidenceTolerance

=============================================================================
