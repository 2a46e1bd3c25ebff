------------------------------ MODULE Promotion ------------------------------
(***************************************************************************)
(* registry/promote.py: the explicit, human-triggered command that checks  *)
(* the live candidate and moves the champion alias.                        *)
(*                                                                         *)
(* The command looks at the candidate alias four times: it resolves it to  *)
(* a version whose tags it reads, loads the model and then the signature   *)
(* through the alias, and ModelRegistryService.promote_candidate resolves  *)
(* it once more to move champion to it.                                    *)
(***************************************************************************)
EXTENDS ModelRegistry

CONSTANTS Promoters  \* operators running promote --approve

ASSUME PromotersAssumption ==
    Promoters \subseteq Clients /\ Promoters \cap (FinalRuns \cup TrainRuns) = {}

VARIABLES
    live,        \* the versions a promotion loaded through the alias
    target,      \* the version promote_candidate resolved
    promoted,    \* versions tagged champion_promoted_at_utc
    promotions   \* the promotion audit files

promotionVars == <<live, target, promoted, promotions>>

PromotionAudit(candidate, before, after) ==
    [candidate |-> candidate, before |-> before, after |-> after]

PromotionInit ==
    /\ live = [c \in Promoters |-> [model |-> 0, signature |-> 0]]
    /\ target = [c \in Promoters |-> 0]
    /\ promoted = {alias.champion} \ {0}
    /\ promotions = {}

\* A promotion without --approve ends before it looks at anything.
PromoteStart(c) ==
    /\ pc[c] \in Ended
    /\ MayStart(c)
    /\ \E approved \in BOOLEAN : Goto(c, IF approved THEN "promoting" ELSE "refused")
    /\ ver' = [ver EXCEPT ![c] = 0]
    /\ seen' = [seen EXCEPT ![c] = 0]
    /\ live' = [live EXCEPT ![c] = [model |-> 0, signature |-> 0]]
    /\ target' = [target EXCEPT ![c] = 0]
    /\ UNCHANGED <<versions, alias, run, stops, promoted, promotions>>

\* resolve_alias("candidate"); a swallowed exception reads as no candidate.
ResolvedCandidate == {alias.candidate} \cup IF Flaky THEN {0} ELSE {}

PromoteResolvesCandidate(c) ==
    /\ pc[c] = "promoting"
    /\ \E v \in ResolvedCandidate :
        /\ ver' = [ver EXCEPT ![c] = v]
        /\ Goto(c, IF v = 0 THEN "refused" ELSE "candidate_resolved")
    /\ UNCHANGED <<versions, alias, run, seen, stops, promotionVars>>

PromoteResolvesChampion(c) ==
    /\ pc[c] = "candidate_resolved"
    /\ ResolveChampion(c, "champion_resolved")
    /\ UNCHANGED <<versions, alias, run, ver, stops, promotionVars>>

PromoteLoadsModel(c) ==
    /\ pc[c] = "champion_resolved"
    /\ live' = [live EXCEPT ![c].model = alias.candidate]
    /\ Goto(c, "model_loaded")
    /\ UNCHANGED <<versions, alias, run, ver, seen, stops, target, promoted, promotions>>

PromoteReadsSignature(c) ==
    /\ pc[c] = "model_loaded"
    /\ live' = [live EXCEPT ![c].signature = alias.candidate]
    /\ Goto(c, "checked")
    /\ UNCHANGED <<versions, alias, run, ver, seen, stops, target, promoted, promotions>>

EvidenceOf(v) == Evidence[versions[v].run]

\* Metrics from the resolved version's tags, the rest from what was loaded.
LiveEvidence(c) ==
    [macro |-> EvidenceOf(ver[c]).macro,
     recall |-> EvidenceOf(ver[c]).recall,
     latency |-> EvidenceOf(ver[c]).latency,
     loads |-> EvidenceOf(live[c].model).loads,
     contract |-> EvidenceOf(live[c].model).loads /\ EvidenceOf(live[c].model).contract,
     signature |-> EvidenceOf(live[c].signature).signature]

\* Both versions must carry the test_macro_f1 tag of a final evaluation.
LineageComplete_NeverChecked(c) == TRUE
LineageComplete(c) == \A v \in {ver[c], seen[c]} \ {0} : HasTestMetric(v)

PromoteDecides_AlwaysAllowed(c) ==
    /\ pc[c] = "checked"
    /\ Goto(c, IF LineageComplete(c) THEN "allowed" ELSE "lineage_missing")
    /\ UNCHANGED <<versions, alias, run, ver, seen, stops, promotionVars>>

PromoteDecides(c) ==
    /\ pc[c] = "checked"
    /\ \/ /\ ~LineageComplete(c)
          /\ Goto(c, "lineage_missing")
          /\ UNCHANGED promotions
       \/ /\ LineageComplete(c)
          /\ Allowed(LiveEvidence(c), ChampionMacro(c))
          /\ Goto(c, "allowed")
          /\ UNCHANGED promotions
       \/ /\ LineageComplete(c)
          /\ ~Allowed(LiveEvidence(c), ChampionMacro(c))
          /\ promotions' = promotions \cup {PromotionAudit(ver[c], seen[c], 0)}
          /\ Goto(c, "refused")
    /\ UNCHANGED <<versions, alias, run, ver, seen, stops, live, target, promoted>>

PromoteResolvesAgain(c) ==
    /\ pc[c] = "allowed"
    /\ \E v \in ResolvedCandidate :
        /\ target' = [target EXCEPT ![c] = v]
        /\ Goto(c, IF v = 0 THEN "refused" ELSE "moving")
    /\ UNCHANGED <<versions, alias, run, ver, seen, stops, live, promoted, promotions>>

PromoteMovesChampion(c) ==
    /\ pc[c] = "moving"
    /\ SetAlias("champion", target[c])
    /\ Goto(c, "moved")
    /\ UNCHANGED <<versions, run, ver, seen, stops, promotionVars>>

PromoteTagsChampion(c) ==
    /\ pc[c] = "moved"
    /\ promoted' = promoted \cup {target[c]}
    /\ Goto(c, "tagged")
    /\ UNCHANGED <<versions, alias, run, ver, seen, stops, live, target, promotions>>

PromoteWritesAudit_OnlyRefusals(c) ==
    /\ pc[c] = "tagged"
    /\ Goto(c, "done")
    /\ UNCHANGED <<versions, alias, run, ver, seen, stops, promotionVars>>

PromoteWritesAudit(c) ==
    /\ pc[c] = "tagged"
    /\ promotions' = promotions \cup {PromotionAudit(ver[c], seen[c], target[c])}
    /\ Goto(c, "done")
    /\ UNCHANGED <<versions, alias, run, ver, seen, stops, live, target, promoted>>

PromoteStep(c) ==
    \/ PromoteResolvesCandidate(c) \/ PromoteResolvesChampion(c)
    \/ PromoteLoadsModel(c) \/ PromoteReadsSignature(c) \/ PromoteDecides(c)
    \/ PromoteResolvesAgain(c) \/ PromoteMovesChampion(c)
    \/ PromoteTagsChampion(c) \/ PromoteWritesAudit(c)

=============================================================================
