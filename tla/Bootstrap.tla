------------------------------ MODULE Bootstrap ------------------------------
(***************************************************************************)
(* orchestration/bootstrap.py: a fresh machine is brought to a served      *)
(* champion by running the other commands as child processes, each to its  *)
(* end.  What to run is decided from what earlier attempts left behind:    *)
(* the champion alias, then the candidate alias, then the test audit.      *)
(* One container runs it; it dies together with its child and may be run   *)
(* again any number of times.                                              *)
(***************************************************************************)
EXTENDS FinalEvaluation, Promotion

CONSTANTS PromoteChampion  \* the --promote-champion flag

ASSUME PromoteChampionAssumption == PromoteChampion \in BOOLEAN

VARIABLES
    boot,   \* where the bootstrap is
    child   \* the command it started last, NoRun for none

bootVars == <<boot, child>>
bootstrapVars == <<registryVars, evaluationVars, promotionVars, bootVars>>

BootEnded == {"idle", "already_ready", "completed", "recovered", "candidate_promoted",
              "refused", "failed"}

BootstrapInit ==
    /\ RegistryInit /\ EvaluationInit /\ PromotionInit
    /\ boot = "idle" /\ child = NoRun

\* resolve_alias: a swallowed exception reads as an alias that is not there.
Resolved(name) == {alias[name]} \cup IF Flaky THEN {0} ELSE {}

BootGoto(label) ==
    /\ boot' = label
    /\ UNCHANGED <<registryVars, evaluationVars, promotionVars, child>>

BootStart == boot \in BootEnded /\ BootGoto("resolving_champion")

BootResolvesChampion ==
    /\ boot = "resolving_champion"
    /\ \E v \in Resolved("champion") :
           BootGoto(IF v # 0 THEN "already_ready" ELSE "resolving_candidate")

BootResolvesCandidate ==
    /\ boot = "resolving_candidate"
    /\ \E v \in Resolved("candidate") :
           BootGoto(CASE v # 0 /\ PromoteChampion  -> "promote_existing"
                      [] v # 0 /\ ~PromoteChampion -> "completed"
                      [] v = 0                     -> "reading_audit")

AuditDecision_Ignored == "preparing"

\* A completed audit without an alias is ambiguous: BootstrapError.
AuditDecision ==
    CASE audit.status = "absent"                -> "preparing"
      [] audit.status = "authorized_and_opened" -> "recover"
      [] audit.status \in Completed             -> "refused"

BootReadsAudit == boot = "reading_audit" /\ BootGoto(AuditDecision)

\* Download, normalize, analyze, prepare and train: none touches the registry.
BootPreparesData == boot = "preparing" /\ BootGoto("evaluate")

BootEvaluates(e) ==
    /\ boot = "evaluate"
    /\ EvaluateStart(e)
    /\ boot' = "evaluating" /\ child' = e
    /\ UNCHANGED promotionVars

BootRecovers(c) ==
    /\ boot = "recover"
    /\ RecoverStart(c)
    /\ boot' = "recovering" /\ child' = c
    /\ UNCHANGED promotionVars

\* The promotion is run with --approve.
BootPromotes(c) ==
    /\ boot \in {"promote_existing", "promote_evaluated", "promote_recovered"}
    /\ PromoteStart(c) /\ pc'[c] = "promoting"
    /\ boot' = CASE boot = "promote_existing"  -> "promoting_existing"
                 [] boot = "promote_evaluated" -> "promoting_evaluated"
                 [] boot = "promote_recovered" -> "promoting_recovered"
    /\ child' = c
    /\ UNCHANGED evaluationVars

ChildLabels == {"evaluating", "recovering", "promoting_existing", "promoting_evaluated",
                "promoting_recovered"}

AfterChild ==
    CASE boot = "evaluating" -> IF PromoteChampion THEN "promote_evaluated" ELSE "completed"
      [] boot = "recovering" -> IF PromoteChampion THEN "promote_recovered" ELSE "recovered"
      [] boot = "promoting_existing"  -> "candidate_promoted"
      [] boot = "promoting_evaluated" -> "completed"
      [] boot = "promoting_recovered" -> "recovered"

\* subprocess.run(check=True): any other exit ends the bootstrap.
BootSeesChildEnd ==
    /\ boot \in ChildLabels
    /\ ~Active(child)
    /\ BootGoto(IF pc[child] = "done" THEN AfterChild ELSE "failed")

BootDies ==
    /\ boot \notin BootEnded \cup ChildLabels
    /\ stops < MaxStops
    /\ stops' = stops + 1
    /\ boot' = "failed"
    /\ UNCHANGED <<versions, alias, pc, run, ver, seen, evaluationVars, promotionVars, child>>

ChildStep ==
    /\ \/ /\ \E e \in FinalRuns : EvaluateStep(e)
          /\ UNCHANGED promotionVars
       \/ /\ \E c \in Recoverers : RecoverStep(c)
          /\ UNCHANGED promotionVars
       \/ /\ \E c \in Promoters : PromoteStep(c)
          /\ UNCHANGED evaluationVars
    /\ UNCHANGED bootVars

ChildDies ==
    /\ \E c \in Clients : Stop(c)
    /\ UNCHANGED <<evaluationVars, promotionVars, bootVars>>

BootStep ==
    \/ BootResolvesChampion \/ BootResolvesCandidate \/ BootReadsAudit \/ BootPreparesData
    \/ \E e \in FinalRuns : BootEvaluates(e)
    \/ \E c \in Recoverers : BootRecovers(c)
    \/ \E c \in Promoters : BootPromotes(c)
    \/ BootSeesChildEnd

BootstrapNext == BootStart \/ BootStep \/ ChildStep \/ BootDies \/ ChildDies

BootstrapSpec == BootstrapInit /\ [][BootstrapNext]_bootstrapVars

\* The operator runs it again after every end; what has begun goes on.
BootstrapFairSpec ==
    /\ BootstrapSpec
    /\ WF_bootstrapVars(BootStart)
    /\ WF_bootstrapVars(BootStep)
    /\ WF_bootstrapVars(ChildStep)

-----------------------------------------------------------------------------
(* Properties *)

(* Bootstrap attempts never read the test split a second time, whatever    *)
(* step of the bootstrap or of one of its commands they died at.           *)
BootstrapOpensTestOnce == SealedTestOpenedOnce

(* Without registry faults the aliases and the audit never contradict each *)
(* other: a bootstrap is never refused for a completed audit without an    *)
(* alias, so repeating it is always a way forward.                         *)
BootstrapNeverAmbiguous == boot # "refused"

(* Once the evidence of an evaluation that passes the gates is on disk,    *)
(* repeating the bootstrap leads to a champion, wherever it was killed.    *)
BootstrapReachesChampion ==
    (/\ audit.status # "absent"
     /\ EvidenceOnDisk(audit.run)
     /\ PromoteChampion
     /\ Allowed(Evidence[audit.run], NoMetric)) ~> (alias.champion # 0)

=============================================================================
