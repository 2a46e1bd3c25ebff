-------------------------- MODULE ReleaseLifecycle --------------------------
(***************************************************************************)
(* The commands that write the model registry, together: final evaluation  *)
(* and recovery, the candidate workflow, and promotion.  The aliases are   *)
(* the only thing they share, and no command holds them while it works.    *)
(***************************************************************************)
EXTENDS FinalEvaluation, CandidateRegistration, Promotion

lifecycleVars == <<registryVars, evaluationVars, candidateVars, promotionVars>>

LifecycleInit == RegistryInit /\ EvaluationInit /\ CandidateInit /\ PromotionInit

EvaluationMoves ==
    /\ \/ \E e \in FinalRuns : EvaluateStart(e) \/ EvaluateStep(e)
       \/ \E c \in Recoverers : RecoverStart(c) \/ RecoverStep(c)
    /\ UNCHANGED <<candidateVars, promotionVars>>

CandidateMoves ==
    /\ \E t \in TrainRuns : TrainStart(t) \/ CandidateStep(t) \/ CandidateRetries(t)
    /\ UNCHANGED <<evaluationVars, promotionVars>>

PromotionMoves ==
    /\ \E c \in Promoters : PromoteStart(c) \/ PromoteStep(c)
    /\ UNCHANGED <<evaluationVars, candidateVars>>

CommandDies ==
    /\ \E c \in Clients : Stop(c)
    /\ UNCHANGED <<evaluationVars, candidateVars, promotionVars>>

LifecycleNext == EvaluationMoves \/ CandidateMoves \/ PromotionMoves \/ CommandDies

LifecycleSpec == LifecycleInit /\ [][LifecycleNext]_lifecycleVars

(* A command that has begun runs on unless it dies, and the operator comes *)
(* back to the recovery however often other commands are started between.  *)
LifecycleFairSpec ==
    /\ LifecycleSpec
    /\ \A e \in FinalRuns : WF_vars(EvaluateStep(e))
    /\ \A c \in Recoverers : SF_vars(RecoverStart(c)) /\ WF_vars(RecoverStep(c))
    /\ \A t \in TrainRuns :
          WF_lifecycleVars((CandidateStep(t) \/ CandidateRetries(t))
                              /\ UNCHANGED <<evaluationVars, promotionVars>>)
    /\ \A c \in Promoters :
          WF_lifecycleVars(PromoteStep(c) /\ UNCHANGED <<evaluationVars, candidateVars>>)

-----------------------------------------------------------------------------
(* Properties *)

\* The shape of the whole state.
LifecycleTypeOK ==
    /\ RegistryTypeOK
    /\ attempts \in [TrainRuns -> 0..Retries]
    /\ summary \in [TrainRuns -> [version : 0..Len(versions), gates : GateTag]]
    /\ live \in [Promoters -> [model : 0..Len(versions), signature : 0..Len(versions)]]
    /\ target \in [Promoters -> 0..Len(versions)]
    /\ promoted \subseteq DOMAIN versions
    /\ promotions \subseteq [candidate : 1..Len(versions), before : 0..Len(versions),
                             after : 0..Len(versions)]

MacroOf(v) == IF v = 0 THEN NoMetric ELSE EvidenceOf(v).macro

(* Whenever the champion alias moves, the version it moves to passes every *)
(* gate against the champion it replaces (needs Serial and no swallowed    *)
(* exception: promote resolves both aliases long before it moves one).     *)
ChampionPassedGates ==
    [][alias'.champion # alias.champion =>
        Allowed(EvidenceOf(alias'.champion), MacroOf(alias.champion))]_lifecycleVars

(* The champion was evaluated on the held-out split; a champion that was   *)
(* not blocks every later promotion, whose regression gate needs its       *)
(* test_macro_f1 (needs Serial).                                           *)
ChampionWasTestEvaluated == alias.champion # 0 => HasTestMetric(alias.champion)

(* An audit of a promotion names a candidate that carries test evidence    *)
(* and passes every measured gate against the champion the audit names,    *)
(* even when another command moved the aliases meanwhile.                  *)
AuditedCandidatePassed ==
    \A a \in promotions : a.after # 0 =>
        /\ HasTestMetric(a.candidate)
        /\ FailedGates(EvidenceOf(a.candidate), MacroOf(a.before))
               \subseteq {"model_load", "prediction_contract", "model_signature"}

(* A champion move is on record, as an audit file or as the tag that       *)
(* precedes it, unless a command died or is about to write it.             *)
ChampionMoveIsAudited ==
    \/ stops > 0
    \/ alias.champion = 0
    \/ versions[alias.champion].run \in PriorRuns
    \/ \E a \in promotions : a.after = alias.champion
    \/ \E c \in Promoters : pc[c] \in {"moved", "tagged"} /\ target[c] = alias.champion

(* The summary of a candidate workflow, which later runs return unread,    *)
(* names a version of the workflow's run whose gate tag is the decision in *)
(* the summary, through every retry of the task.                           *)
SummaryMatchesRegistry ==
    \A t \in TrainRuns : summary[t] # NoSummary =>
        /\ summary[t].version \in DOMAIN versions
        /\ versions[summary[t].version] = [run |-> t, gates |-> summary[t].gates]

(* Retries and crashes of the registration task create one version.        *)
CandidateRegisteredOnce ==
    \A v, w \in DOMAIN versions :
        versions[v].run = versions[w].run /\ versions[v].run \in TrainRuns => v = w

=============================================================================
