--------------------------- MODULE FinalEvaluation ---------------------------
(***************************************************************************)
(* registry/evaluate_final.py and registry/recover_final.py: the one-time  *)
(* evaluation on the sealed test split, and the recovery that finishes the *)
(* registration of an interrupted one from its saved evidence.             *)
(*                                                                         *)
(* The audit file test_access_audit.json is the protocol's only lock.  It  *)
(* is tested at the start of an evaluation and written, by an atomic       *)
(* replace, just before the split is read: a whole training fit lies       *)
(* between the two.                                                        *)
(***************************************************************************)
EXTENDS ModelRegistry

CONSTANTS Recoverers  \* executions of recover_final

ASSUME RecoverersAssumption ==
    /\ Recoverers \subseteq Clients
    /\ Recoverers \cap (FinalRuns \cup TrainRuns) = {}

VARIABLES
    audit,   \* test_access_audit.json
    opened,  \* the evaluations that have read the test split
    saved,   \* the evaluations whose evidence files are complete on disk
    logged   \* the MLflow run of each evaluation

evaluationVars == <<audit, opened, saved, logged>>

Completed == {"completed", "completed_after_post_evaluation_recovery"}
AuditStatus == {"absent", "authorized_and_opened"} \cup Completed

EvaluationInit ==
    /\ audit = [status |-> "absent", run |-> NoRun, version |-> 0]
    /\ opened = {}
    /\ saved = {}
    /\ logged = [e \in FinalRuns |-> "absent"]

-----------------------------------------------------------------------------
(* run_final_evaluation *)

AuditExists_NeverChecked == FALSE
AuditExists == audit.status # "absent"

EvaluateStart(e) ==
    /\ pc[e] = "idle"
    /\ MayStart(e)
    /\ Goto(e, IF AuditExists THEN "refused" ELSE "fitting")
    /\ UNCHANGED <<versions, alias, run, ver, seen, stops, evaluationVars>>

\* The record is written before the split is read, over whatever is there.
AuthorizeTest_NotRecorded(e) ==
    /\ pc[e] = "fitting"
    /\ Goto(e, "authorized")
    /\ UNCHANGED <<versions, alias, run, ver, seen, stops, evaluationVars>>

AuthorizeTest(e) ==
    /\ pc[e] = "fitting"
    /\ audit' = [status |-> "authorized_and_opened", run |-> e, version |-> 0]
    /\ Goto(e, "authorized")
    /\ UNCHANGED <<versions, alias, run, ver, seen, stops, opened, saved, logged>>

OpenTest(e) ==
    /\ pc[e] = "authorized"
    /\ opened' = opened \cup {e}
    /\ Goto(e, "evaluated")
    /\ UNCHANGED <<versions, alias, run, ver, seen, stops, audit, saved, logged>>

\* write_model_artifacts, then latency_distribution.json.
SaveEvidence(e) ==
    /\ pc[e] = "evaluated"
    /\ saved' = saved \cup {e}
    /\ Goto(e, "saved")
    /\ UNCHANGED <<versions, alias, run, ver, seen, stops, audit, opened, logged>>

\* log_final_model_to_mlflow: the run exists before its model is ready.
StartRun(e) ==
    /\ pc[e] = "saved"
    /\ logged' = [logged EXCEPT ![e] = "started"]
    /\ Goto(e, "logging")
    /\ UNCHANGED <<versions, alias, run, ver, seen, stops, audit, opened, saved>>

LogModel(e) ==
    /\ pc[e] = "logging"
    /\ logged' = [logged EXCEPT ![e] = "ready"]
    /\ Goto(e, "logged")
    /\ UNCHANGED <<versions, alias, run, ver, seen, stops, audit, opened, saved>>

EvaluateResolvesChampion(e) ==
    /\ pc[e] = "logged"
    /\ ResolveChampion(e, "comparing")
    /\ UNCHANGED <<versions, alias, run, ver, stops, evaluationVars>>

\* A champion without the test_macro_f1 tag ends the evaluation.
EvaluateReadsChampion(e) ==
    /\ pc[e] = "comparing"
    /\ Goto(e, IF seen[e] = 0 \/ HasTestMetric(seen[e])
               THEN "register_find" ELSE "stopped")
    /\ UNCHANGED <<versions, alias, run, ver, seen, stops, evaluationVars>>

EvaluateTagsGates_NeverTags(e) ==
    /\ pc[e] = "registered"
    /\ Goto(e, "gated")
    /\ UNCHANGED <<versions, alias, run, ver, seen, stops, evaluationVars>>

EvaluateTagsGates(e) ==
    /\ pc[e] = "registered"
    /\ TagGates(e)
    /\ Goto(e, "gated")
    /\ UNCHANGED <<alias, run, ver, seen, stops, evaluationVars>>

EvaluateCompletes(e) ==
    /\ pc[e] = "gated"
    /\ audit' = [status |-> "completed", run |-> e, version |-> ver[e]]
    /\ Goto(e, "done")
    /\ UNCHANGED <<versions, alias, run, ver, seen, stops, opened, saved, logged>>

\* The steps between the start and the registration.
EvaluateStep(e) ==
    \/ AuthorizeTest(e) \/ OpenTest(e) \/ SaveEvidence(e) \/ StartRun(e) \/ LogModel(e)
    \/ EvaluateResolvesChampion(e) \/ EvaluateReadsChampion(e)
    \/ RegisterCandidate(e) /\ UNCHANGED evaluationVars
    \/ EvaluateTagsGates(e) \/ EvaluateCompletes(e)

-----------------------------------------------------------------------------
(* recover_final_registration *)

Recoverable_OnlyCompleted == audit.status = "completed"
Recoverable == audit.status = "authorized_and_opened"

\* The command copies the audit: its run is the one it will register.
RecoverStart(c) ==
    /\ pc[c] \in Ended
    /\ MayStart(c)
    /\ IF Recoverable
       THEN Goto(c, "recovering") /\ run' = [run EXCEPT ![c] = audit.run]
       ELSE Goto(c, "refused") /\ UNCHANGED run
    /\ ver' = [ver EXCEPT ![c] = 0]
    /\ seen' = [seen EXCEPT ![c] = 0]
    /\ UNCHANGED <<versions, alias, stops, evaluationVars>>

\* Missing evidence files, and a run without exactly one ready model, end it.
EvidenceOnDisk(r) == r \in saved /\ logged[r] = "ready"
EvidenceComplete_AuditIsEnough(r) == TRUE
EvidenceComplete(r) == EvidenceOnDisk(r)

RecoverReadsEvidence(c) ==
    /\ pc[c] = "recovering"
    /\ Goto(c, IF EvidenceComplete(run[c]) THEN "recovered" ELSE "stopped")
    /\ UNCHANGED <<versions, alias, run, ver, seen, stops, evaluationVars>>

RecoverResolvesChampion(c) ==
    /\ pc[c] = "recovered"
    /\ ResolveChampion(c, "comparing")
    /\ UNCHANGED <<versions, alias, run, ver, stops, evaluationVars>>

RecoverReadsChampion(c) ==
    /\ pc[c] = "comparing"
    /\ Goto(c, IF seen[c] = 0 \/ HasTestMetric(seen[c])
               THEN "register_find" ELSE "stopped")
    /\ UNCHANGED <<versions, alias, run, ver, seen, stops, evaluationVars>>

RecoverTagsGates(c) ==
    /\ pc[c] = "registered"
    /\ TagGates(c)
    /\ Goto(c, "gated")
    /\ UNCHANGED <<alias, run, ver, seen, stops, evaluationVars>>

\* The completed record is the copy read at the start, with a new status.
RecoverCompletes(c) ==
    /\ pc[c] = "gated"
    /\ audit' = [status |-> "completed_after_post_evaluation_recovery",
                 run |-> run[c], version |-> ver[c]]
    /\ Goto(c, "done")
    /\ UNCHANGED <<versions, alias, run, ver, seen, stops, opened, saved, logged>>

RecoverStep(c) ==
    \/ RecoverReadsEvidence(c)
    \/ RecoverResolvesChampion(c) \/ RecoverReadsChampion(c)
    \/ RegisterCandidate(c) /\ UNCHANGED evaluationVars
    \/ RecoverTagsGates(c) \/ RecoverCompletes(c)

-----------------------------------------------------------------------------
(* The component on its own: nothing else moves an alias or adds a version *)

vars == <<registryVars, evaluationVars>>

Init == RegistryInit /\ EvaluationInit

Next ==
    \/ \E e \in FinalRuns : EvaluateStart(e) \/ EvaluateStep(e)
    \/ \E c \in Recoverers : RecoverStart(c) \/ RecoverStep(c)
    \/ \E c \in FinalRuns \cup Recoverers : Stop(c) /\ UNCHANGED evaluationVars

Spec == Init /\ [][Next]_vars

-----------------------------------------------------------------------------
(* Properties *)

PcLabel ==
    Ended \cup {"fitting", "authorized", "evaluated", "saved", "logging", "logged",
               "recovering", "recovered", "comparing", "register_find",
               "register_create", "register_alias", "registered", "gated"}

\* The shape of the state, and that every stored version number exists.
TypeOK ==
    /\ RegistryTypeOK
    /\ pc \in [Clients -> PcLabel]
    /\ audit \in [status : AuditStatus, run : FinalRuns \cup {NoRun},
                  version : 0..Len(versions)]
    /\ opened \subseteq FinalRuns
    /\ saved \subseteq FinalRuns
    /\ logged \in [FinalRuns -> {"absent", "started", "ready"}]

(* The held-out split is read by one evaluation, whatever crashed, was     *)
(* started again or recovered in between (needs Serial: run_final_         *)
(* evaluation tests for the audit file long before it writes it).          *)
SealedTestOpenedOnce == \A e, f \in opened : e = f

(* Nothing reads the split before the access is on record: a crash between *)
(* the two leaves a record without a reading, never the other way round.   *)
OpenedOnlyUnderAudit == opened # {} => audit.status # "absent"

(* A completed audit names a version that exists, was created from the     *)
(* audited run, and has had its promotion gates evaluated and recorded.    *)
CompletedAuditNamesGatedVersion ==
    audit.status \in Completed =>
        /\ audit.version \in DOMAIN versions
        /\ versions[audit.version].run = audit.run
        /\ versions[audit.version].gates # "unset"

(* A version of a final-evaluation run exists only when its evaluation     *)
(* read the test split, its evidence files are on disk and its MLflow      *)
(* model is ready, also when a recovery registered it.                     *)
RegisteredWasEvaluated ==
    \A v \in DOMAIN versions :
        versions[v].run \in FinalRuns =>
            /\ versions[v].run \in opened
            /\ EvidenceOnDisk(versions[v].run)

(* The audit only moves forward: an authorization is never replaced by     *)
(* another one, and a completed record is never touched again (needs       *)
(* Serial, like SealedTestOpenedOnce).                                     *)
AuditMovesForward ==
    [][audit' # audit =>
        \/ audit.status = "absent" /\ audit'.status = "authorized_and_opened"
        \/ /\ audit.status = "authorized_and_opened" /\ audit'.status \in Completed
           /\ audit'.run = audit.run]_vars

(* An interrupted evaluation whose evidence is complete does get           *)
(* registered: recovery can be repeated until it comes to its end (under   *)
(* the fairness of the commands together, in ReleaseLifecycle).            *)
RecoveryCompletes ==
    (audit.status = "authorized_and_opened" /\ EvidenceOnDisk(audit.run))
        ~> (audit.status \in Completed)

\* The protocol as the sealed-test specification sees it.
Phase ==
    CASE audit.status = "absent" -> "sealed"
      [] audit.status = "authorized_and_opened" -> "authorized"
      [] audit.status \in Completed -> "completed"

Sealed == INSTANCE SealedTest WITH phase <- Phase, authorized <- audit.run

(* One operator at a time, evaluation and recovery together implement the  *)
(* sealed-test protocol, crashes included.                                 *)
SealedTestProtocol == Sealed!Spec

=============================================================================
