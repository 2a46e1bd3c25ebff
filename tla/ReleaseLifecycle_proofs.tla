----------------------- MODULE ReleaseLifecycle_proofs -----------------------
(***************************************************************************)
(* The commands that write the registry, together: for every set of runs,  *)
(* recoverers, promoters, evidence and bounds.                             *)
(*                                                                         *)
(* LifecycleInv is inductive whatever runs concurrently.  It says, for     *)
(* each command, which version it holds and what it already knows of it    *)
(* (LifecycleCommandInv), and that audits and the champion alias are accounted for. *)
(* The step of one command leaves that of another alone, because versions  *)
(* keep their run and only commands of its run write a version's gate tag. *)
(* The two properties of serial use and the registration of one version    *)
(* per run need more, which two smaller invariants add (CreationInv,       *)
(* LifecycleSerialInv).                                                             *)
(***************************************************************************)
EXTENDS ReleaseLifecycle, FinalEvaluation_proofs

Number == 0..Len(versions)

\* Where a command works on the run of a final evaluation, ...
EvaluationPlace ==
    {"recovering", "recovered", "comparing", "register_find", "register_create",
     "register_alias", "registered", "gated"}

\* ... holds a version of its run, ...
Holding == {"reusing", "register_alias", "registered", "loaded", "gated"}

\* ... and where a promotion has resolved its candidate, has let it pass, and has
\* resolved the version it moves the alias to.
PastResolve == {"candidate_resolved", "champion_resolved", "model_loaded", "checked"}
PastMoving == {"moving", "moved", "tagged"}
PastDecision == {"allowed"} \cup PastMoving

\* What a command holds.
HoldInv(c) ==
    /\ c \in FinalRuns \cup TrainRuns => run[c] = c
    /\ c \notin TrainRuns => /\ run[c] \in FinalRuns \cup {NoRun}
                             /\ pc[c] \in EvaluationPlace => run[c] \in FinalRuns
    /\ pc[c] \in Holding \/ (c \in TrainRuns /\ pc[c] = "comparing") =>
           ver[c] \in 1..Len(versions) /\ versions[ver[c]].run = run[c]

GateDecision(c) == IF Allowed(Evidence[run[c]], ChampionMacro(c)) THEN "true" ELSE "false"

\* What a workflow has written: the tag is the decision its summary will hold.
WorkflowInv(t) ==
    /\ pc[t] = "gated" => versions[ver[t]].gates = GateDecision(t)
    /\ summary[t] # NoSummary =>
           /\ pc[t] = "done"
           /\ summary[t].version \in 1..Len(versions)
           /\ versions[summary[t].version] = [run |-> t, gates |-> summary[t].gates]

\* The candidate v passed every measured gate against the champion w.
Passed(v, w) ==
    /\ HasTestMetric(v)
    /\ FailedGates(EvidenceOf(v), MacroOf(w))
           \subseteq {"model_load", "prediction_contract", "model_signature"}

\* What a promotion has seen.
PromoterInv(c) ==
    /\ pc[c] \in PastResolve \cup PastDecision => ver[c] \in 1..Len(versions)
    /\ pc[c] \in PastDecision => Passed(ver[c], seen[c])
    /\ pc[c] \in PastMoving => target[c] \in 1..Len(versions)

LifecycleCommandInv(c) ==
    /\ HoldInv(c)
    /\ c \in TrainRuns => WorkflowInv(c)
    /\ c \in Promoters => PromoterInv(c)

AuditInv ==
    /\ audit.run \in FinalRuns \cup {NoRun}
    /\ audit.status = "authorized_and_opened" => audit.run \in FinalRuns

LifecycleInv ==
    /\ LifecycleTypeOK
    /\ DOMAIN pc = Clients
    /\ AuditInv
    /\ \A c \in Clients : LifecycleCommandInv(c)
    /\ AuditedCandidatePassed
    /\ ChampionMoveIsAudited

-----------------------------------------------------------------------------
(* What the step of one command leaves to the others.                      *)

\* Versions are never lost and keep their run, and those of other runs all they have.
LifecycleGrows(c) ==
    /\ Len(versions) <= Len(versions')
    /\ \A v \in 1..Len(versions) :
          /\ versions'[v].run = versions[v].run
          /\ versions[v].run # run[c] => versions'[v] = versions[v]

OthersStay(c) ==
    /\ \A d \in Clients \ {c} : /\ pc'[d] = pc[d] /\ run'[d] = run[d]
                                /\ ver'[d] = ver[d] /\ seen'[d] = seen[d]
    /\ \A t \in TrainRuns \ {c} : summary'[t] = summary[t]
    /\ \A p \in Promoters \ {c} : target'[p] = target[p]

LEMMA LengthIsNat == ASSUME LifecycleInv PROVE Len(versions) \in Nat /\ DOMAIN versions = 1..Len(versions)
BY LenProperties DEF LifecycleInv, LifecycleTypeOK, RegistryTypeOK

LEMMA KindsDiffer ==
    /\ TrainRuns \cap FinalRuns = {} /\ TrainRuns \cap (FinalRuns \cup {NoRun}) = {}
    /\ TrainRuns \cap Promoters = {} /\ FinalRuns \cap Promoters = {}
    /\ TrainRuns \cap Recoverers = {} /\ FinalRuns \cap Recoverers = {}
    /\ FinalRuns \cup TrainRuns \cup Recoverers \cup Promoters \subseteq Clients
    /\ FinalRuns \cup TrainRuns \subseteq Runs
BY RegistryAssumption, RecoverersAssumption, PromotersAssumption DEF Runs

\* What a version is measured by does not change.
LEMMA EvidenceStays ==
    ASSUME LifecycleInv, NEW c, LifecycleGrows(c), NEW v \in 1..Len(versions)
    PROVE  EvidenceOf(v)' = EvidenceOf(v) /\ HasTestMetric(v)' = HasTestMetric(v)
BY DEF LifecycleGrows, EvidenceOf, HasTestMetric

LEMMA PassedStays ==
    ASSUME LifecycleInv, NEW c, LifecycleGrows(c), NEW v \in 1..Len(versions), NEW w \in Number, Passed(v, w)
    PROVE  Passed(v, w)'
<1>1. w = 0 \/ w \in 1..Len(versions)
  BY LengthIsNat DEF Number
<1>2. MacroOf(w)' = MacroOf(w)
  BY <1>1, EvidenceStays DEF MacroOf
<1>3. EvidenceOf(v)' = EvidenceOf(v) /\ HasTestMetric(v)' = HasTestMetric(v)
  BY EvidenceStays
<1> QED
  BY <1>2, <1>3 DEF Passed

LEMMA GateDecisionStays ==
    ASSUME LifecycleInv, NEW c, LifecycleGrows(c), NEW d \in Clients, seen'[d] = seen[d], run'[d] = run[d]
    PROVE  GateDecision(d)' = GateDecision(d)
<1>1. seen[d] = 0 \/ seen[d] \in 1..Len(versions)
  BY LengthIsNat DEF LifecycleInv, LifecycleTypeOK, RegistryTypeOK
<1>2. ChampionMacro(d)' = ChampionMacro(d)
  BY <1>1 DEF ChampionMacro, LifecycleGrows
<1> QED
  BY <1>2 DEF GateDecision

LEMMA OthersKeepInv ==
    ASSUME LifecycleInv, NEW c \in Clients, LifecycleGrows(c), OthersStay(c), NEW d \in Clients \ {c},
           Len(versions') \in Nat
    PROVE  LifecycleCommandInv(d)'
<1>1. LifecycleCommandInv(d) /\ Len(versions) \in Nat
  BY LengthIsNat DEF LifecycleInv
<1>2. 1..Len(versions) \subseteq 1..Len(versions')
  BY <1>1 DEF LifecycleGrows
<1>3. HoldInv(d)'
  BY <1>1, <1>2 DEF LifecycleCommandInv, HoldInv, LifecycleGrows, OthersStay
<1>4. ASSUME d \in TrainRuns PROVE WorkflowInv(d)'
  <2>1. run[c] # d
    <3>1. HoldInv(c)
      BY DEF LifecycleInv, LifecycleCommandInv
    <3> QED
      BY <1>4, <3>1, KindsDiffer DEF HoldInv
  <2>2. GateDecision(d)' = GateDecision(d)
    BY GateDecisionStays DEF OthersStay
  <2>3. run[d] = d
    BY <1>1, <1>4 DEF LifecycleCommandInv, HoldInv
  <2>4. ASSUME pc'[d] = "gated" PROVE versions'[ver'[d]].gates = GateDecision(d)'
    <3>1. pc[d] = "gated" /\ ver'[d] = ver[d]
      BY <2>4 DEF OthersStay
    <3>2. ver[d] \in 1..Len(versions) /\ versions[ver[d]].run = d
      BY <1>1, <2>3, <3>1 DEF LifecycleCommandInv, HoldInv, Holding
    <3>3. versions'[ver[d]] = versions[ver[d]]
      BY <2>1, <3>2 DEF LifecycleGrows
    <3> QED
      BY <1>1, <1>4, <2>2, <3>1, <3>3 DEF LifecycleCommandInv, WorkflowInv
  <2>5. ASSUME summary'[d] # NoSummary
        PROVE  /\ pc'[d] = "done"
               /\ summary'[d].version \in 1..Len(versions')
               /\ versions'[summary'[d].version] = [run |-> d, gates |-> summary'[d].gates]
    <3>1. summary'[d] = summary[d] /\ pc'[d] = pc[d]
      BY <1>4 DEF OthersStay
    <3>2. /\ pc[d] = "done" /\ summary[d].version \in 1..Len(versions)
          /\ versions[summary[d].version] = [run |-> d, gates |-> summary[d].gates]
      BY <1>1, <1>4, <2>5, <3>1 DEF LifecycleCommandInv, WorkflowInv
    <3>3. versions'[summary[d].version] = versions[summary[d].version]
      BY <2>1, <3>2 DEF LifecycleGrows
    <3> QED
      BY <1>2, <3>1, <3>2, <3>3
  <2> QED
    BY <2>4, <2>5 DEF WorkflowInv, NoSummary
<1>5. ASSUME d \in Promoters PROVE PromoterInv(d)'
  <2>1. PromoterInv(d) /\ seen[d] \in Number
    BY <1>1, <1>5 DEF LifecycleCommandInv, LifecycleInv, LifecycleTypeOK, RegistryTypeOK, Number
  <2>2. pc'[d] = pc[d] /\ ver'[d] = ver[d] /\ seen'[d] = seen[d] /\ target'[d] = target[d]
    BY <1>5 DEF OthersStay
  <2>3. ASSUME pc'[d] \in PastDecision PROVE Passed(ver[d], seen[d])'
    BY <2>1, <2>2, <2>3, PassedStays DEF PromoterInv, Passed, HasTestMetric, EvidenceOf, MacroOf
  <2> QED
    BY <1>2, <2>1, <2>2, <2>3 DEF PromoterInv, Passed, HasTestMetric, EvidenceOf, MacroOf
<1> QED
  BY <1>3, <1>4, <1>5 DEF LifecycleCommandInv

\* What past promotions saw stays true of the versions they name.
LEMMA PromotionsStay ==
    ASSUME LifecycleInv, NEW c, LifecycleGrows(c),
           \A a \in promotions' \ promotions : a.after = 0 \/ Passed(a.candidate, a.before)'
    PROVE  AuditedCandidatePassed'
<1> SUFFICES ASSUME NEW a \in promotions', a.after # 0 PROVE Passed(a.candidate, a.before)'
  BY DEF AuditedCandidatePassed, Passed, HasTestMetric, EvidenceOf, MacroOf
<1>1. CASE a \in promotions
  <2>1. a.candidate \in 1..Len(versions) /\ a.before \in Number
    BY <1>1 DEF LifecycleInv, LifecycleTypeOK, Number
  <2>2. Passed(a.candidate, a.before)
    BY <1>1 DEF LifecycleInv, AuditedCandidatePassed, Passed
  <2> QED
    BY <2>1, <2>2, PassedStays
<1>2. CASE a \notin promotions
  BY <1>2
<1> QED
  BY <1>1, <1>2

\* A champion that stays stays accounted for, if the step is not that of the promotion
\* that moved it.
LEMMA ChampionStays ==
    ASSUME LifecycleInv, NEW c \in Clients, LifecycleGrows(c), OthersStay(c),
           alias'.champion = alias.champion, promotions \subseteq promotions', UNCHANGED stops,
           c \in Promoters => pc[c] \notin {"moved", "tagged"}
    PROVE  ChampionMoveIsAudited'
<1>1. CASE stops > 0 \/ alias.champion = 0 \/ \E a \in promotions : a.after = alias.champion
  BY <1>1 DEF ChampionMoveIsAudited
<1>2. CASE alias.champion # 0 /\ versions[alias.champion].run \in PriorRuns
  <2>1. alias.champion \in 1..Len(versions)
    BY <1>2, LengthIsNat DEF LifecycleInv, LifecycleTypeOK, RegistryTypeOK
  <2> QED
    BY <1>2, <2>1 DEF ChampionMoveIsAudited, LifecycleGrows
<1>3. CASE \E p \in Promoters : pc[p] \in {"moved", "tagged"} /\ target[p] = alias.champion
  BY <1>3, KindsDiffer DEF ChampionMoveIsAudited, OthersStay
<1> QED
  BY <1>1, <1>2, <1>3 DEF LifecycleInv, ChampionMoveIsAudited

LEMMA LifecycleKeepsIsEnough ==
    ASSUME LifecycleInv, NEW c \in Clients, NEW label, Goto(c, label), LifecycleGrows(c), OthersStay(c),
           LifecycleCommandInv(c)', LifecycleTypeOK', AuditInv', AuditedCandidatePassed',
           ChampionMoveIsAudited'
    PROVE  LifecycleInv'
<1>1. DOMAIN pc' = Clients
  BY DEF Goto, LifecycleInv
<1>2. Len(versions') \in Nat
  BY LenProperties DEF LifecycleTypeOK, RegistryTypeOK
<1>3. \A d \in Clients \ {c} : LifecycleCommandInv(d)'
  BY <1>2, OthersKeepInv
<1> QED
  BY <1>1, <1>3 DEF LifecycleInv

-----------------------------------------------------------------------------
(* The steps that evaluation, recovery and the candidate workflow share.   *)

\* A step of c that is no promotion's.
RegistryStep(c, label) ==
    /\ Goto(c, label)
    /\ UNCHANGED <<stops, promotionVars>>
    /\ alias'.champion = alias.champion
    /\ RegistryTypeOK'
    /\ LifecycleGrows(c)
    /\ \A d \in Clients \ {c} : /\ pc'[d] = pc[d] /\ run'[d] = run[d]
                                /\ ver'[d] = ver[d] /\ seen'[d] = seen[d]

LEMMA RegistryStepKeeps ==
    ASSUME LifecycleInv, NEW c \in Clients, NEW label, RegistryStep(c, label),
           c \in Promoters => pc[c] \notin {"moved", "tagged"},
           attempts' \in [TrainRuns -> 0..Retries],
           summary' \in [TrainRuns -> [version : Number, gates : GateTag]],
           \A t \in TrainRuns \ {c} : summary'[t] = summary[t],
           LifecycleCommandInv(c)', AuditInv'
    PROVE  LifecycleInv'
<1>1. OthersStay(c) /\ LifecycleGrows(c) /\ UNCHANGED <<stops, promotionVars>>
  BY DEF RegistryStep, OthersStay, promotionVars
<1>2. AuditedCandidatePassed' /\ ChampionMoveIsAudited'
  BY <1>1, PromotionsStay, ChampionStays DEF RegistryStep, promotionVars
<1>3. LifecycleTypeOK'
  <2>1. Len(versions) \in Nat /\ Len(versions') \in Nat /\ Len(versions) <= Len(versions')
    BY <1>1, LengthIsNat, LenProperties DEF RegistryStep, RegistryTypeOK, LifecycleGrows
  <2>2. Number \subseteq 0..Len(versions') /\ 1..Len(versions) \subseteq 1..Len(versions')
    BY <2>1 DEF Number
  <2>3. DOMAIN versions = 1..Len(versions) /\ DOMAIN versions' = 1..Len(versions')
    BY LengthIsNat, LenProperties DEF RegistryStep, RegistryTypeOK
  <2>4. RegistryTypeOK'
    BY DEF RegistryStep
  <2>5. summary' \in [TrainRuns -> [version : 0..Len(versions'), gates : GateTag]]
    BY <2>2
  <2>6. /\ live' \in [Promoters -> [model : 0..Len(versions'), signature : 0..Len(versions')]]
        /\ target' \in [Promoters -> 0..Len(versions')]
    BY <1>1, <2>2 DEF LifecycleInv, LifecycleTypeOK, Number, promotionVars
  <2>7. promoted' \subseteq DOMAIN versions'
    BY <1>1, <2>2, <2>3 DEF LifecycleInv, LifecycleTypeOK, promotionVars
  <2>8. promotions' \subseteq [candidate : 1..Len(versions'), before : 0..Len(versions'),
                               after : 0..Len(versions')]
    BY <1>1, <2>2 DEF LifecycleInv, LifecycleTypeOK, Number, promotionVars
  <2> QED
    BY <2>4, <2>5, <2>6, <2>7, <2>8 DEF LifecycleTypeOK
<1> QED
  BY <1>1, <1>2, <1>3, LifecycleKeepsIsEnough DEF RegistryStep

\* A step that only goes on, or notes a version number.
LEMMA NotingIsStep ==
    ASSUME LifecycleInv, NEW c \in Clients, NEW label, Goto(c, label),
           UNCHANGED <<versions, alias, run, stops, promotionVars>>,
           ver' \in [Clients -> Number], seen' \in [Clients -> Number],
           \A d \in Clients \ {c} : ver'[d] = ver[d] /\ seen'[d] = seen[d]
    PROVE  RegistryStep(c, label)
<1>1. RegistryTypeOK'
  BY DEF LifecycleInv, LifecycleTypeOK, RegistryTypeOK, Number
<1>2. LifecycleGrows(c)
  BY LengthIsNat DEF LifecycleGrows
<1> QED
  BY <1>1, <1>2 DEF RegistryStep, Goto, LifecycleInv

LEMMA Typed ==
    ASSUME LifecycleInv
    PROVE  /\ ver \in [Clients -> Number] /\ seen \in [Clients -> Number]
           /\ attempts \in [TrainRuns -> 0..Retries]
           /\ summary \in [TrainRuns -> [version : Number, gates : GateTag]]
           /\ RegistryTypeOK /\ DOMAIN pc = Clients
BY DEF LifecycleInv, LifecycleTypeOK, RegistryTypeOK, Number

LEMMA SilentIsStep ==
    ASSUME LifecycleInv, NEW c \in Clients, NEW label, Goto(c, label),
           UNCHANGED <<versions, alias, run, ver, seen, stops, promotionVars>>
    PROVE  RegistryStep(c, label) /\ pc'[c] = label
BY NotingIsStep, Typed DEF Goto

LEMMA ResolvingIsStep ==
    ASSUME LifecycleInv, NEW c \in Clients, NEW label, ResolveChampion(c, label),
           UNCHANGED <<versions, alias, run, ver, stops, promotionVars>>
    PROVE  RegistryStep(c, label) /\ pc'[c] = label
<1>1. seen' \in [Clients -> Number]
  BY ResolveEffect, Typed DEF Number
<1>2. \A d \in Clients \ {c} : seen'[d] = seen[d]
  BY Typed DEF ResolveChampion
<1> QED
  BY <1>1, <1>2, NotingIsStep, Typed DEF ResolveChampion, Goto

LEMMA FindingIsStep ==
    ASSUME LifecycleInv, NEW c \in Clients, NEW found, NEW missing, FindVersion(c, found, missing),
           UNCHANGED <<versions, alias, run, seen, stops, promotionVars>>
    PROVE  \/ /\ RegistryStep(c, found) /\ pc'[c] = found
              /\ ver'[c] \in 1..Len(versions) /\ versions[ver'[c]].run = run[c]
           \/ RegistryStep(c, missing) /\ pc'[c] = missing
<1>1. /\ ver' \in [Clients -> Number]
      /\ \/ Goto(c, found) /\ ver'[c] \in 1..Len(versions) /\ versions[ver'[c]].run = run[c]
         \/ Goto(c, missing)
      /\ \A d \in Clients \ {c} : ver'[d] = ver[d]
  BY FindEffect, Typed DEF Number, Goto
<1> QED
  BY <1>1, NotingIsStep, Typed DEF Goto

LEMMA CreatingIsStep ==
    ASSUME LifecycleInv, NEW c \in Clients, RegisterCreate(c), run[c] \in Runs,
           UNCHANGED promotionVars
    PROVE  /\ RegistryStep(c, "register_alias") /\ pc'[c] = "register_alias"
           /\ ver'[c] \in 1..Len(versions') /\ versions'[ver'[c]].run = run[c]
           /\ Len(versions') = Len(versions) + 1
           /\ \A v \in 1..Len(versions) : versions'[v] = versions[v]
           /\ versions'[Len(versions')].run = run[c]
<1>1. Len(versions) \in Nat /\ RegistryTypeOK
  BY LengthIsNat, Typed
<1>2. /\ versions' \in Seq(Version)
      /\ Len(versions') = Len(versions) + 1
      /\ \A v \in 1..Len(versions) : versions'[v] = versions[v]
      /\ versions'[Len(versions) + 1] = [run |-> run[c], gates |-> "unset"]
  BY <1>1, CreateEffect DEF RegisterCreate, RegistryTypeOK
<1>3. ver' = [ver EXCEPT ![c] = Len(versions) + 1] /\ Goto(c, "register_alias")
      /\ UNCHANGED <<alias, run, seen, stops>>
  BY DEF RegisterCreate
<1>4. 0..Len(versions) \subseteq 0..Len(versions') /\ Len(versions) + 1 \in 1..Len(versions')
  BY <1>1, <1>2
<1>5. RegistryTypeOK'
  BY <1>1, <1>2, <1>3, <1>4 DEF RegistryTypeOK
<1>6. LifecycleGrows(c)
  BY <1>1, <1>2 DEF LifecycleGrows
<1>7. ver'[c] = Len(versions) + 1 /\ \A d \in Clients \ {c} : ver'[d] = ver[d]
  BY <1>1, <1>3 DEF RegistryTypeOK
<1>8. pc'[c] = "register_alias" /\ \A d \in Clients \ {c} : pc'[d] = pc[d]
  BY <1>3, Typed DEF Goto
<1> QED
  BY <1>2, <1>3, <1>4, <1>5, <1>6, <1>7, <1>8 DEF RegistryStep

LEMMA AliasingIsStep ==
    ASSUME LifecycleInv, NEW c \in Clients, SetAlias("candidate", ver[c]), Goto(c, "registered"),
           UNCHANGED <<versions, run, ver, seen, stops, promotionVars>>
    PROVE  RegistryStep(c, "registered") /\ pc'[c] = "registered"
<1>1. /\ alias' \in [candidate : 0..Len(versions), champion : 0..Len(versions)]
      /\ alias'.champion = alias.champion
  BY Typed DEF SetAlias, RegistryTypeOK
<1>2. RegistryTypeOK'
  BY <1>1, Typed DEF RegistryTypeOK
<1>3. LifecycleGrows(c)
  BY LengthIsNat DEF LifecycleGrows
<1> QED
  BY <1>1, <1>2, <1>3, Typed DEF RegistryStep, Goto

LEMMA TaggingIsStep ==
    ASSUME LifecycleInv, NEW c \in Clients, TagGates(c), Goto(c, "gated"),
           ver[c] \in 1..Len(versions), versions[ver[c]].run = run[c],
           UNCHANGED <<alias, run, ver, seen, stops, promotionVars>>
    PROVE  /\ RegistryStep(c, "gated") /\ pc'[c] = "gated"
           /\ Len(versions') = Len(versions)
           /\ versions'[ver[c]].run = run[c] /\ versions'[ver[c]].gates = GateDecision(c)
<1>1. /\ versions' \in Seq(Version)
      /\ Len(versions') = Len(versions)
      /\ \A v \in 1..Len(versions) : versions'[v].run = versions[v].run
      /\ \A v \in 1..Len(versions) : v # ver[c] => versions'[v] = versions[v]
  BY TagGatesEffect, Typed DEF RegistryTypeOK
<1>2. RegistryTypeOK'
  BY <1>1, Typed DEF RegistryTypeOK
<1>3. LifecycleGrows(c)
  BY <1>1, LengthIsNat DEF LifecycleGrows
<1>4. versions'[ver[c]].gates = GateDecision(c)
  <2>1. versions[ver[c]] \in Version /\ ver[c] \in DOMAIN versions
    BY ElementOfSeq, LengthIsNat, Typed DEF RegistryTypeOK
  <2>2. versions' = [versions EXCEPT ![ver[c]].gates = GateDecision(c)]
    BY DEF TagGates, GateDecision
  <2> HIDE DEF GateDecision
  <2> QED
    BY <2>1, <2>2 DEF Version
<1> QED
  BY <1>1, <1>2, <1>3, <1>4, Typed DEF RegistryStep, Goto

-----------------------------------------------------------------------------
(* Evaluation and recovery.                                                *)

LEMMA EvaluationStepKeeps ==
    ASSUME LifecycleInv, NEW c \in FinalRuns \cup Recoverers, NEW label,
           RegistryStep(c, label), pc'[c] = label, UNCHANGED candidateVars, AuditInv',
           pc[c] \notin {"moved", "tagged"}, label \notin PastResolve \cup PastDecision,
           c \in FinalRuns => run'[c] = c,
           run'[c] \in FinalRuns \cup {NoRun},
           label \in EvaluationPlace => run'[c] \in FinalRuns,
           label \in Holding => /\ ver'[c] \in 1..Len(versions')
                                /\ versions'[ver'[c]].run = run'[c]
    PROVE  LifecycleInv'
<1>1. c \in Clients /\ c \notin TrainRuns
  BY KindsDiffer
<1>2. LifecycleCommandInv(c)'
  BY <1>1 DEF LifecycleCommandInv, HoldInv, PromoterInv, PastDecision
<1> QED
  BY <1>1, <1>2, RegistryStepKeeps, Typed DEF candidateVars

\* At a place of its own a command works on the run of a final evaluation.
LEMMA EvaluationRun ==
    ASSUME LifecycleInv, NEW c \in FinalRuns \cup Recoverers
    PROVE  /\ c \in Clients
           /\ c \in FinalRuns => run[c] = c
           /\ run[c] \in FinalRuns \cup {NoRun}
           /\ pc[c] \in EvaluationPlace => run[c] \in FinalRuns
           /\ pc[c] \in Holding => ver[c] \in 1..Len(versions) /\ versions[ver[c]].run = run[c]
BY KindsDiffer DEF LifecycleInv, LifecycleCommandInv, HoldInv

LEMMA RegisterKeeps ==
    ASSUME LifecycleInv, NEW c \in FinalRuns \cup Recoverers, RegisterCandidate(c),
           UNCHANGED <<evaluationVars, candidateVars, promotionVars>>
    PROVE  LifecycleInv'
<1>1. AuditInv' /\ UNCHANGED <<candidateVars, promotionVars>>
  BY DEF LifecycleInv, AuditInv, evaluationVars
<1>2. CASE RegisterFind(c)
  <2>1. /\ pc[c] = "register_find" /\ run[c] \in FinalRuns /\ UNCHANGED <<run, versions>>
        /\ c \in FinalRuns => run[c] = c
    BY <1>2, EvaluationRun DEF RegisterFind, EvaluationPlace
  <2>2. \/ /\ RegistryStep(c, "register_alias") /\ pc'[c] = "register_alias"
           /\ ver'[c] \in 1..Len(versions) /\ versions[ver'[c]].run = run[c]
        \/ RegistryStep(c, "register_create") /\ pc'[c] = "register_create"
    BY <1>1, <1>2, FindingIsStep, EvaluationRun DEF RegisterFind
  <2> QED
    BY <1>1, <2>1, <2>2, EvaluationStepKeeps DEF PastResolve, PastDecision, PastMoving, Holding
<1>3. CASE RegisterCreate(c)
  <2>1. /\ pc[c] = "register_create" /\ run[c] \in FinalRuns /\ UNCHANGED run
        /\ c \in FinalRuns => run[c] = c
    BY <1>3, EvaluationRun DEF RegisterCreate, EvaluationPlace
  <2>2. /\ RegistryStep(c, "register_alias") /\ pc'[c] = "register_alias"
        /\ ver'[c] \in 1..Len(versions') /\ versions'[ver'[c]].run = run[c]
    BY <1>1, <1>3, <2>1, CreatingIsStep, EvaluationRun, KindsDiffer
  <2> QED
    BY <1>1, <2>1, <2>2, EvaluationStepKeeps DEF PastResolve, PastDecision, PastMoving
<1>4. CASE RegisterAlias(c)
  <2>1. /\ pc[c] = "register_alias" /\ run[c] \in FinalRuns /\ UNCHANGED <<run, ver, versions>>
        /\ c \in FinalRuns => run[c] = c
        /\ ver[c] \in 1..Len(versions) /\ versions[ver[c]].run = run[c]
    BY <1>4, EvaluationRun DEF RegisterAlias, EvaluationPlace, Holding
  <2>2. RegistryStep(c, "registered") /\ pc'[c] = "registered"
    BY <1>1, <1>4, AliasingIsStep, EvaluationRun DEF RegisterAlias
  <2> QED
    BY <1>1, <2>1, <2>2, EvaluationStepKeeps DEF PastResolve, PastDecision, PastMoving
<1> QED
  BY <1>2, <1>3, <1>4 DEF RegisterCandidate

LEMMA LifecycleTagGatesKeeps ==
    ASSUME LifecycleInv, NEW c \in FinalRuns \cup Recoverers,
           pc[c] = "registered", TagGates(c), Goto(c, "gated"),
           UNCHANGED <<alias, run, ver, seen, stops, evaluationVars, candidateVars, promotionVars>>
    PROVE  LifecycleInv'
<1>1. AuditInv' /\ UNCHANGED <<candidateVars, promotionVars, run, ver>>
  BY DEF LifecycleInv, AuditInv, evaluationVars
<1>2. /\ run[c] \in FinalRuns /\ c \in Clients
      /\ c \in FinalRuns => run[c] = c
      /\ ver[c] \in 1..Len(versions) /\ versions[ver[c]].run = run[c]
  BY EvaluationRun DEF EvaluationPlace, Holding
<1>3. /\ RegistryStep(c, "gated") /\ pc'[c] = "gated"
      /\ Len(versions') = Len(versions) /\ versions'[ver[c]].run = run[c]
  BY <1>1, <1>2, TaggingIsStep
<1> QED
  BY <1>1, <1>2, <1>3, EvaluationStepKeeps DEF PastResolve, PastDecision, PastMoving

\* A step that leaves the registry alone.
LEMMA EvaluationGoesOn ==
    ASSUME LifecycleInv, NEW c \in FinalRuns \cup Recoverers, NEW label, Goto(c, label),
           UNCHANGED <<versions, alias, run, stops, candidateVars, promotionVars>>,
           ver' = ver, AuditInv',
           UNCHANGED seen \/ ResolveChampion(c, label),
           pc[c] \notin {"moved", "tagged"},
           label \notin Holding \cup PastResolve \cup PastDecision,
           label \in EvaluationPlace => run[c] \in FinalRuns
    PROVE  LifecycleInv'
<1>1. /\ c \in Clients /\ run[c] \in FinalRuns \cup {NoRun}
      /\ c \in FinalRuns => run[c] = c
  BY EvaluationRun
<1>2. RegistryStep(c, label) /\ pc'[c] = label
  BY <1>1, SilentIsStep, ResolvingIsStep
<1> QED
  BY <1>1, <1>2, EvaluationStepKeeps

LEMMA EvaluateKeeps ==
    ASSUME LifecycleInv, NEW e \in FinalRuns, EvaluateStart(e) \/ EvaluateStep(e),
           UNCHANGED <<candidateVars, promotionVars>>
    PROVE  LifecycleInv'
<1>1. run[e] = e /\ e \in Clients
  BY EvaluationRun
<1>2. CASE RegisterCandidate(e) /\ UNCHANGED evaluationVars
  BY <1>2, RegisterKeeps
<1>3. CASE EvaluateTagsGates(e)
  BY <1>3, LifecycleTagGatesKeeps DEF EvaluateTagsGates
<1>4. CASE EvaluateResolvesChampion(e)
  <2>1. AuditInv'
    BY <1>4 DEF EvaluateResolvesChampion, LifecycleInv, AuditInv, evaluationVars
  <2> QED
    BY <1>1, <1>4, <2>1, EvaluationGoesOn
       DEF EvaluateResolvesChampion, ResolveChampion, Holding, PastResolve, PastDecision, PastMoving
<1>5. CASE \/ EvaluateStart(e) \/ AuthorizeTest(e) \/ OpenTest(e) \/ SaveEvidence(e) \/ StartRun(e)
           \/ LogModel(e) \/ EvaluateReadsChampion(e) \/ EvaluateCompletes(e)
  <2>1. AuditInv'
    BY <1>5 DEF EvaluateStart, AuthorizeTest, OpenTest, SaveEvidence, StartRun, LogModel,
                EvaluateReadsChampion, EvaluateCompletes, LifecycleInv, AuditInv, evaluationVars
  <2>2. PICK label \in {"refused", "fitting", "authorized", "evaluated", "saved", "logging", "logged",
                        "register_find", "stopped", "done"} :
            /\ Goto(e, label) /\ pc[e] \notin {"moved", "tagged"}
            /\ UNCHANGED <<versions, alias, run, ver, seen, stops>>
    BY <1>5 DEF EvaluateStart, AuthorizeTest, OpenTest, SaveEvidence, StartRun, LogModel,
                EvaluateReadsChampion, EvaluateCompletes
  <2> QED
    BY <1>1, <2>1, <2>2, EvaluationGoesOn DEF Holding, PastResolve, PastDecision, PastMoving
<1> QED
  BY <1>2, <1>3, <1>4, <1>5 DEF EvaluateStep

LEMMA LifecycleRecoverStartKeeps ==
    ASSUME LifecycleInv, NEW c \in Recoverers, RecoverStart(c),
           UNCHANGED <<candidateVars, promotionVars>>
    PROVE  LifecycleInv'
<1>1. c \in Clients /\ c \notin FinalRuns /\ run[c] \in FinalRuns \cup {NoRun}
  BY EvaluationRun, KindsDiffer
<1>2. AuditInv'
  BY DEF RecoverStart, LifecycleInv, AuditInv, evaluationVars
<1>3. PICK label \in {"recovering", "refused"} :
          /\ Goto(c, label)
          /\ run' = IF label = "recovering" THEN [run EXCEPT ![c] = audit.run] ELSE run
          /\ label = "recovering" => audit.run \in FinalRuns
  BY DEF RecoverStart, Recoverable, LifecycleInv, AuditInv
<1>4. /\ run' \in [Clients -> Runs \cup {NoRun}]
      /\ \A d \in Clients \ {c} : run'[d] = run[d]
      /\ run'[c] \in FinalRuns \cup {NoRun}
      /\ label = "recovering" => run'[c] \in FinalRuns
  BY <1>1, <1>3, Typed, KindsDiffer DEF RegistryTypeOK
<1>5. /\ ver' \in [Clients -> 0..Len(versions)] /\ seen' \in [Clients -> 0..Len(versions)]
      /\ \A d \in Clients \ {c} : ver'[d] = ver[d] /\ seen'[d] = seen[d]
  <2>1. 0 \in Number
    BY LengthIsNat DEF Number
  <2>2. ver' = [ver EXCEPT ![c] = 0] /\ seen' = [seen EXCEPT ![c] = 0]
    BY DEF RecoverStart
  <2> QED
    BY <2>1, <2>2, Typed DEF Number
<1>6. RegistryTypeOK'
  BY <1>4, <1>5, Typed DEF RecoverStart, RegistryTypeOK
<1>7. LifecycleGrows(c) /\ UNCHANGED <<alias, stops>>
  BY LengthIsNat DEF LifecycleGrows, RecoverStart
<1>8. RegistryStep(c, label) /\ pc'[c] = label
  BY <1>1, <1>3, <1>4, <1>5, <1>6, <1>7, Typed DEF RegistryStep, Goto
<1>9. pc[c] \notin {"moved", "tagged"}
  BY DEF RecoverStart, Ended
<1> QED
  BY <1>1, <1>2, <1>4, <1>8, <1>9, EvaluationStepKeeps
     DEF Holding, PastResolve, PastDecision, PastMoving, EvaluationPlace

LEMMA RecoverKeeps ==
    ASSUME LifecycleInv, NEW c \in Recoverers, RecoverStart(c) \/ RecoverStep(c),
           UNCHANGED <<candidateVars, promotionVars>>
    PROVE  LifecycleInv'
<1>1. CASE RecoverStart(c)
  BY <1>1, LifecycleRecoverStartKeeps
<1>2. CASE RegisterCandidate(c) /\ UNCHANGED evaluationVars
  BY <1>2, RegisterKeeps
<1>3. CASE RecoverTagsGates(c)
  BY <1>3, LifecycleTagGatesKeeps DEF RecoverTagsGates
<1>4. CASE RecoverResolvesChampion(c)
  <2>1. AuditInv' /\ run[c] \in FinalRuns
    BY <1>4, EvaluationRun
       DEF RecoverResolvesChampion, LifecycleInv, AuditInv, evaluationVars, EvaluationPlace
  <2> QED
    BY <1>4, <2>1, EvaluationGoesOn
       DEF RecoverResolvesChampion, ResolveChampion, Holding, PastResolve, PastDecision, PastMoving
<1>5. CASE RecoverReadsEvidence(c) \/ RecoverReadsChampion(c) \/ RecoverCompletes(c)
  <2>1. run[c] \in FinalRuns
    BY <1>5, EvaluationRun
       DEF RecoverReadsEvidence, RecoverReadsChampion, RecoverCompletes, EvaluationPlace
  <2>2. AuditInv'
    BY <1>5, <2>1 DEF RecoverReadsEvidence, RecoverReadsChampion, RecoverCompletes,
                LifecycleInv, AuditInv, evaluationVars
  <2>3. PICK label \in {"recovered", "stopped", "register_find", "done"} :
            /\ Goto(c, label) /\ pc[c] \notin {"moved", "tagged"}
            /\ UNCHANGED <<versions, alias, run, ver, seen, stops>>
    BY <1>5 DEF RecoverReadsEvidence, RecoverReadsChampion, RecoverCompletes
  <2> QED
    BY <2>1, <2>2, <2>3, EvaluationGoesOn DEF Holding, PastResolve, PastDecision, PastMoving
<1> QED
  BY <1>1, <1>2, <1>3, <1>4, <1>5 DEF RecoverStep

-----------------------------------------------------------------------------
(* The candidate workflow.                                                 *)

\* What is known of a workflow by its place.
LEMMA WorkflowFacts ==
    ASSUME LifecycleInv, NEW t \in TrainRuns
    PROVE  /\ t \in Clients /\ t \in Runs /\ run[t] = t
           /\ pc[t] # "done" => summary[t] = NoSummary
           /\ pc[t] \in Holding \cup {"comparing"} =>
                  ver[t] \in 1..Len(versions) /\ versions[ver[t]].run = t
           /\ WorkflowInv(t)
BY KindsDiffer DEF LifecycleInv, LifecycleCommandInv, HoldInv, WorkflowInv

LEMMA WorkflowStepKeeps ==
    ASSUME LifecycleInv, NEW t \in TrainRuns, NEW label,
           RegistryStep(t, label), pc'[t] = label, UNCHANGED <<run, evaluationVars>>,
           attempts' \in [TrainRuns -> 0..Retries],
           summary' \in [TrainRuns -> [version : Number, gates : GateTag]],
           \A u \in TrainRuns \ {t} : summary'[u] = summary[u],
           label \in Holding \cup {"comparing"} =>
               ver'[t] \in 1..Len(versions') /\ versions'[ver'[t]].run = t,
           WorkflowInv(t)'
    PROVE  LifecycleInv'
<1>1. t \in Clients /\ t \notin Promoters /\ run[t] = t
  BY WorkflowFacts, KindsDiffer
<1>2. HoldInv(t)'
  BY <1>1 DEF HoldInv
<1>3. LifecycleCommandInv(t)'
  BY <1>1, <1>2 DEF LifecycleCommandInv
<1>4. AuditInv'
  BY DEF LifecycleInv, AuditInv, evaluationVars
<1> QED
  BY <1>1, <1>3, <1>4, RegistryStepKeeps

\* A step that writes neither the gate tag nor the summary.
LEMMA WorkflowGoesOn ==
    ASSUME LifecycleInv, NEW t \in TrainRuns, NEW label,
           RegistryStep(t, label), pc'[t] = label, UNCHANGED <<run, evaluationVars, summary>>,
           summary[t] = NoSummary, label # "gated",
           attempts' \in [TrainRuns -> 0..Retries],
           label \in Holding \cup {"comparing"} =>
               ver'[t] \in 1..Len(versions') /\ versions'[ver'[t]].run = t
    PROVE  LifecycleInv'
<1>1. WorkflowInv(t)'
  BY DEF WorkflowInv, NoSummary
<1> QED
  BY <1>1, Typed, WorkflowStepKeeps

LEMMA TrainStartKeeps ==
    ASSUME LifecycleInv, NEW t \in TrainRuns, TrainStart(t),
           UNCHANGED <<evaluationVars, promotionVars>>
    PROVE  LifecycleInv'
<1> DEFINE label == IF summary[t] = NoSummary THEN "trained" ELSE "done"
<1>1. /\ Goto(t, label) /\ pc[t] \in {"idle", "done"}
      /\ UNCHANGED <<versions, alias, run, ver, seen, stops, candidateVars>>
  BY DEF TrainStart
<1>2. RegistryStep(t, label) /\ pc'[t] = label
  BY <1>1, SilentIsStep, WorkflowFacts
<1>3. CASE summary[t] = NoSummary
  BY <1>1, <1>2, <1>3, WorkflowGoesOn, Typed DEF candidateVars, Holding
<1>4. CASE summary[t] # NoSummary
  <2>1. WorkflowInv(t)'
    BY <1>1, <1>2, <1>4, WorkflowFacts DEF WorkflowInv, candidateVars, NoSummary
  <2> QED
    BY <1>1, <1>2, <1>4, <2>1, WorkflowStepKeeps, Typed DEF candidateVars, Holding
<1> QED
  BY <1>3, <1>4

LEMMA CandidateRegisterKeeps ==
    ASSUME LifecycleInv, NEW t \in TrainRuns,
           CandidateFinds(t) \/ CandidateReusesVersion(t)
               \/ (RegisterCandidate(t) /\ UNCHANGED candidateVars),
           UNCHANGED <<evaluationVars, promotionVars>>
    PROVE  LifecycleInv'
<1>1. /\ UNCHANGED <<candidateVars, run>>
      /\ pc[t] \in {"trained", "reusing", "register_find", "register_create", "register_alias"}
  BY DEF CandidateFinds, CandidateReusesVersion, RegisterCandidate, RegisterFind, RegisterCreate,
         RegisterAlias
<1>2. summary[t] = NoSummary /\ run[t] = t /\ t \in Clients /\ t \in Runs
  BY <1>1, WorkflowFacts
<1>3. CASE CandidateFinds(t) \/ RegisterFind(t)
  <2>1. PICK found \in {"reusing", "register_alias"}, missing \in {"register_find", "register_create"} :
            FindVersion(t, found, missing)
    BY <1>3 DEF CandidateFinds, RegisterFind
  <2>2. UNCHANGED <<versions, alias, run, seen, stops, promotionVars>>
    BY <1>3 DEF CandidateFinds, RegisterFind
  <2>3. \/ /\ RegistryStep(t, found) /\ pc'[t] = found
           /\ ver'[t] \in 1..Len(versions) /\ versions[ver'[t]].run = t
        \/ RegistryStep(t, missing) /\ pc'[t] = missing
    BY <1>2, <2>1, <2>2, FindingIsStep
  <2> QED
    BY <1>1, <1>2, <2>2, <2>3, WorkflowGoesOn, Typed DEF candidateVars, Holding
<1>4. CASE RegisterCreate(t)
  <2>1. /\ RegistryStep(t, "register_alias") /\ pc'[t] = "register_alias"
        /\ ver'[t] \in 1..Len(versions') /\ versions'[ver'[t]].run = t
    BY <1>2, <1>4, CreatingIsStep
  <2> QED
    BY <1>1, <1>2, <2>1, WorkflowGoesOn, Typed DEF candidateVars, Holding
<1>5. CASE CandidateReusesVersion(t) \/ RegisterAlias(t)
  <2>1. /\ SetAlias("candidate", ver[t]) /\ Goto(t, "registered")
        /\ UNCHANGED <<versions, run, ver, seen, stops, promotionVars>>
        /\ pc[t] \in Holding
    BY <1>5 DEF CandidateReusesVersion, RegisterAlias, Holding
  <2>2. RegistryStep(t, "registered") /\ pc'[t] = "registered"
    BY <1>2, <2>1, AliasingIsStep
  <2>3. ver[t] \in 1..Len(versions) /\ versions[ver[t]].run = t
    BY <2>1, WorkflowFacts
  <2> QED
    BY <1>1, <1>2, <2>1, <2>2, <2>3, WorkflowGoesOn, Typed DEF candidateVars
<1> QED
  BY <1>3, <1>4, <1>5 DEF RegisterCandidate

LEMMA CandidateDecidesKeeps ==
    ASSUME LifecycleInv, NEW t \in TrainRuns,
           CandidateTagsGates(t) \/ CandidateWritesSummary(t),
           UNCHANGED <<evaluationVars, promotionVars>>
    PROVE  LifecycleInv'
<1>1. /\ run[t] = t /\ t \in Clients /\ summary[t] = NoSummary
      /\ ver[t] \in 1..Len(versions) /\ versions[ver[t]].run = t
      /\ UNCHANGED <<run, ver, seen>>
  BY WorkflowFacts DEF CandidateTagsGates, CandidateWritesSummary, Holding
<1>2. CASE CandidateTagsGates(t)
  <2>1. /\ RegistryStep(t, "gated") /\ pc'[t] = "gated"
        /\ Len(versions') = Len(versions)
        /\ versions'[ver[t]].run = t /\ versions'[ver[t]].gates = GateDecision(t)
    BY <1>1, <1>2, TaggingIsStep DEF CandidateTagsGates
  <2>2. GateDecision(t)' = GateDecision(t)
    BY <1>1, <2>1, GateDecisionStays DEF RegistryStep
  <2>3. WorkflowInv(t)'
    BY <1>1, <1>2, <2>1, <2>2 DEF WorkflowInv, CandidateTagsGates, candidateVars
  <2> QED
    BY <1>1, <1>2, <2>1, <2>3, WorkflowStepKeeps, Typed DEF CandidateTagsGates, candidateVars
<1>3. CASE CandidateWritesSummary(t)
  <2> DEFINE result == [version |-> ver[t], gates |-> GateDecision(t)]
  <2>1. /\ summary' = [summary EXCEPT ![t] = result] /\ Goto(t, "done") /\ pc[t] = "gated"
        /\ UNCHANGED <<versions, alias, run, ver, seen, stops, attempts>>
    BY <1>3 DEF CandidateWritesSummary, GateDecision
  <2>2. RegistryStep(t, "done") /\ pc'[t] = "done"
    BY <1>1, <2>1, SilentIsStep
  <2>3. result \in [version : Number, gates : GateTag]
    BY <1>1, LengthIsNat DEF Number, GateTag, GateDecision
  <2>4. /\ summary' \in [TrainRuns -> [version : Number, gates : GateTag]]
        /\ summary'[t] = result /\ \A u \in TrainRuns \ {t} : summary'[u] = summary[u]
    <3> HIDE DEF result
    <3> QED
      BY <2>1, <2>3, Typed
  <2>5. versions[ver[t]] = [run |-> t, gates |-> GateDecision(t)]
    <3>1. versions[ver[t]] \in Version
      BY <1>1, Typed, ElementOfSeq DEF RegistryTypeOK
    <3>2. versions[ver[t]].gates = GateDecision(t)
      BY <2>1, WorkflowFacts DEF WorkflowInv
    <3> HIDE DEF GateDecision
    <3> QED
      BY <1>1, <3>1, <3>2 DEF Version
  <2>6. WorkflowInv(t)'
    BY <1>1, <2>1, <2>2, <2>4, <2>5 DEF WorkflowInv
  <2> QED
    BY <1>1, <2>1, <2>2, <2>4, <2>6, WorkflowStepKeeps, Typed DEF Holding
<1> QED
  BY <1>2, <1>3

LEMMA WorkflowKeeps ==
    ASSUME LifecycleInv, NEW t \in TrainRuns, TrainStart(t) \/ CandidateStep(t) \/ CandidateRetries(t),
           UNCHANGED <<evaluationVars, promotionVars>>
    PROVE  LifecycleInv'
<1>0. run[t] = t /\ t \in Clients
  BY WorkflowFacts
<1>1. CASE CandidateLoads(t) \/ CandidateResolvesChampion(t)
  <2>1. PICK label \in {"loaded", "comparing"} :
            /\ Goto(t, label)
            /\ UNCHANGED seen \/ ResolveChampion(t, label)
            /\ UNCHANGED <<versions, alias, run, ver, stops, candidateVars>>
            /\ pc[t] \in Holding /\ pc[t] \in {"registered", "loaded"}
    BY <1>1 DEF CandidateLoads, CandidateResolvesChampion, ResolveChampion, Holding
  <2>2. RegistryStep(t, label) /\ pc'[t] = label
    BY <1>0, <2>1, SilentIsStep, ResolvingIsStep
  <2>3. ver[t] \in 1..Len(versions) /\ versions[ver[t]].run = t /\ summary[t] = NoSummary
    BY <2>1, WorkflowFacts
  <2> QED
    BY <2>1, <2>2, <2>3, WorkflowGoesOn, Typed DEF candidateVars
<1>2. CASE CandidateCannotLoad(t) \/ CandidateRetries(t)
  <2>1. PICK label \in {"trained", "stopped"} :
            /\ Goto(t, label)
            /\ UNCHANGED <<versions, alias, run, ver, seen, stops, summary>>
            /\ pc[t] # "done"
            /\ \/ UNCHANGED attempts
               \/ attempts[t] < Retries /\ attempts' = [attempts EXCEPT ![t] = @ + 1]
    BY <1>2 DEF CandidateCannotLoad, CandidateRetries, Active, Ended
  <2>2. RegistryStep(t, label) /\ pc'[t] = label
    BY <1>0, <2>1, SilentIsStep
  <2>3. attempts' \in [TrainRuns -> 0..Retries]
    BY <2>1, Typed, RetriesAssumption
  <2>4. summary[t] = NoSummary
    BY <2>1, WorkflowFacts
  <2> QED
    BY <2>1, <2>2, <2>3, <2>4, WorkflowGoesOn DEF Holding
<1> QED
  BY <1>1, <1>2, TrainStartKeeps, CandidateRegisterKeeps, CandidateDecidesKeeps DEF CandidateStep

-----------------------------------------------------------------------------
(* Promotion, and commands that die.                                       *)

\* What the gates let pass at a promotion passed every measured gate: only what was
\* loaded through the alias may be that of another version.
LEMMA AllowedPasses ==
    ASSUME NEW c, ver[c] # 0, LineageComplete(c), Allowed(LiveEvidence(c), ChampionMacro(c))
    PROVE  Passed(ver[c], seen[c])
<1>1. HasTestMetric(ver[c])
  BY DEF LineageComplete
<1>2. ChampionMacro(c) = MacroOf(seen[c])
  BY DEF ChampionMacro, MacroOf, EvidenceOf
<1>3. /\ LiveEvidence(c).macro = EvidenceOf(ver[c]).macro
      /\ LiveEvidence(c).recall = EvidenceOf(ver[c]).recall
      /\ LiveEvidence(c).latency = EvidenceOf(ver[c]).latency
  BY DEF LiveEvidence
<1>4. FailedGates(EvidenceOf(ver[c]), MacroOf(seen[c]))
          \subseteq {"model_load", "prediction_contract", "model_signature"}
  BY <1>2, <1>3 DEF Allowed, FailedGates
<1> QED
  BY <1>1, <1>4 DEF Passed

LEMMA PromoterStepKeeps ==
    ASSUME LifecycleInv, NEW c \in Promoters, NEW label, Goto(c, label),
           UNCHANGED <<versions, run, stops, evaluationVars, candidateVars>>,
           label \notin EvaluationPlace \cup Holding,
           alias' \in [candidate : Number, champion : Number],
           ver' \in [Clients -> Number], seen' \in [Clients -> Number],
           \A d \in Clients \ {c} : ver'[d] = ver[d] /\ seen'[d] = seen[d],
           live' \in [Promoters -> [model : Number, signature : Number]],
           target' \in [Promoters -> Number], \A p \in Promoters \ {c} : target'[p] = target[p],
           promoted' \subseteq DOMAIN versions,
           promotions' \subseteq [candidate : 1..Len(versions), before : Number, after : Number],
           \A a \in promotions' \ promotions : a.after = 0 \/ Passed(a.candidate, a.before),
           ChampionMoveIsAudited', PromoterInv(c)'
    PROVE  LifecycleInv'
<1>1. c \in Clients /\ c \notin TrainRuns /\ c \notin FinalRuns
  BY KindsDiffer
<1>2. LifecycleGrows(c)
  BY LengthIsNat DEF LifecycleGrows
<1>3. OthersStay(c)
  BY Typed DEF OthersStay, Goto, candidateVars
<1>4. AuditedCandidatePassed'
  <2>1. \A a \in promotions' \ promotions : a.after = 0 \/ Passed(a.candidate, a.before)'
    BY DEF Passed, HasTestMetric, EvidenceOf, MacroOf
  <2> QED
    BY <1>2, <2>1, PromotionsStay
<1>5. AuditInv'
  BY DEF LifecycleInv, AuditInv, evaluationVars
<1>6. LifecycleTypeOK'
  BY Typed DEF LifecycleInv, LifecycleTypeOK, RegistryTypeOK, Number, candidateVars
<1>7. LifecycleCommandInv(c)'
  <2>1. pc'[c] = label /\ run'[c] \in FinalRuns \cup {NoRun}
    BY <1>1, Typed DEF Goto, LifecycleInv, LifecycleCommandInv, HoldInv
  <2>2. HoldInv(c)'
    BY <1>1, <2>1 DEF HoldInv
  <2> QED
    BY <1>1, <2>2 DEF LifecycleCommandInv
<1> QED
  BY <1>1, <1>2, <1>3, <1>4, <1>5, <1>6, <1>7, LifecycleKeepsIsEnough

LEMMA TypedPromotion ==
    ASSUME LifecycleInv
    PROVE  /\ alias \in [candidate : Number, champion : Number]
           /\ live \in [Promoters -> [model : Number, signature : Number]]
           /\ target \in [Promoters -> Number]
           /\ promoted \subseteq DOMAIN versions
           /\ promotions \subseteq [candidate : 1..Len(versions), before : Number, after : Number]
           /\ \A c \in Promoters : PromoterInv(c)
BY KindsDiffer DEF LifecycleInv, LifecycleTypeOK, RegistryTypeOK, LifecycleCommandInv, Number

LEMMA ChampionKept ==
    ASSUME LifecycleInv, NEW c \in Promoters, NEW label, Goto(c, label),
           UNCHANGED <<versions, alias, run, stops, candidateVars>>,
           \A d \in Clients \ {c} : ver'[d] = ver[d] /\ seen'[d] = seen[d],
           \A p \in Promoters \ {c} : target'[p] = target[p],
           promotions \subseteq promotions', pc[c] \notin {"moved", "tagged"}
    PROVE  ChampionMoveIsAudited'
<1>1. c \in Clients /\ LifecycleGrows(c) /\ OthersStay(c)
  BY LengthIsNat, KindsDiffer, Typed DEF LifecycleGrows, OthersStay, Goto, candidateVars
<1> QED
  BY <1>1, ChampionStays

LEMMA PromoteLooksKeeps ==
    ASSUME LifecycleInv, NEW c \in Promoters,
           \/ PromoteStart(c) \/ PromoteResolvesCandidate(c) \/ PromoteResolvesChampion(c)
           \/ PromoteLoadsModel(c) \/ PromoteReadsSignature(c),
           UNCHANGED <<evaluationVars, candidateVars>>
    PROVE  LifecycleInv'
<1>1. c \in Clients /\ 0 \in Number /\ alias.candidate \in Number /\ alias.champion \in Number
  BY KindsDiffer, LengthIsNat, TypedPromotion DEF Number
<1>2. PICK label \in {"promoting", "refused"} \cup PastResolve :
          /\ Goto(c, label)
          /\ UNCHANGED <<versions, alias, run, stops, promoted, promotions>>
          /\ pc[c] \notin {"moved", "tagged"}
          /\ \/ label \in {"promoting", "refused"}
             \/ pc[c] = "promoting" /\ label = "candidate_resolved" /\ ver'[c] # 0
             \/ pc[c] \in PastResolve /\ UNCHANGED ver
  BY Typed, <1>1 DEF PromoteStart, PromoteResolvesCandidate, PromoteResolvesChampion, ResolveChampion,
         PromoteLoadsModel, PromoteReadsSignature, PastResolve, Ended, promotionVars
<1>3. /\ ver' \in [Clients -> Number] /\ \A d \in Clients \ {c} : ver'[d] = ver[d]
  <2>1. UNCHANGED ver \/ \E v \in Number : ver' = [ver EXCEPT ![c] = v]
    BY <1>1 DEF PromoteStart, PromoteResolvesCandidate, PromoteResolvesChampion,
       PromoteLoadsModel, PromoteReadsSignature, ResolvedCandidate
  <2> QED
    BY <2>1, Typed
<1>4. /\ seen' \in [Clients -> Number] /\ \A d \in Clients \ {c} : seen'[d] = seen[d]
  <2>1. UNCHANGED seen \/ \E v \in Number : seen' = [seen EXCEPT ![c] = v]
    BY <1>1 DEF PromoteStart, PromoteResolvesCandidate, PromoteResolvesChampion, ResolveChampion,
       PromoteLoadsModel, PromoteReadsSignature
  <2> QED
    BY <2>1, Typed
<1>5. live' \in [Promoters -> [model : Number, signature : Number]]
  <2>1. CASE UNCHANGED live
    BY <2>1, TypedPromotion
  <2>2. CASE PromoteStart(c)
    BY <1>1, <2>2, TypedPromotion DEF PromoteStart
  <2>3. CASE PromoteLoadsModel(c) \/ PromoteReadsSignature(c)
    BY <1>1, <2>3, TypedPromotion DEF PromoteLoadsModel, PromoteReadsSignature
  <2> QED
    BY <2>1, <2>2, <2>3 DEF PromoteResolvesCandidate, PromoteResolvesChampion, promotionVars
<1>6. target' \in [Promoters -> Number] /\ \A p \in Promoters \ {c} : target'[p] = target[p]
  <2>1. UNCHANGED target \/ target' = [target EXCEPT ![c] = 0]
    BY DEF PromoteStart, PromoteResolvesCandidate, PromoteResolvesChampion,
       PromoteLoadsModel, PromoteReadsSignature, promotionVars
  <2> QED
    BY <1>1, <2>1, TypedPromotion
<1>7. ChampionMoveIsAudited'
  BY <1>2, <1>3, <1>4, <1>6, ChampionKept
<1>8. PromoterInv(c)'
  <2>1. pc'[c] = label /\ ver'[c] \in Number
    BY <1>1, <1>2, <1>3, Typed DEF Goto
  <2>2. label \notin PastDecision
    BY <1>2 DEF PastDecision, PastMoving, PastResolve
  <2>3. label \in PastResolve => ver'[c] \in 1..Len(versions)
    BY <1>2, <2>1, LengthIsNat, TypedPromotion DEF PromoterInv, Number, PastResolve
  <2> QED
    BY <1>2, <2>1, <2>2, <2>3 DEF PromoterInv, PastDecision
<1> QED
  BY <1>2, <1>3, <1>4, <1>5, <1>6, <1>7, <1>8, TypedPromotion, PromoterStepKeeps
     DEF EvaluationPlace, Holding, PastResolve

\* A promotion that holds a candidate decides on it and resolves the alias again.
LEMMA PromoteDecidesKeeps ==
    ASSUME LifecycleInv, NEW c \in Promoters, PromoteDecides(c) \/ PromoteResolvesAgain(c),
           UNCHANGED <<evaluationVars, candidateVars>>
    PROVE  LifecycleInv'
<1>1. /\ c \in Clients /\ 0 \in Number /\ alias.candidate \in Number
      /\ ver[c] \in 1..Len(versions) /\ ver[c] # 0 /\ seen[c] \in Number
      /\ pc[c] = "allowed" => Passed(ver[c], seen[c])
  BY KindsDiffer, LengthIsNat, TypedPromotion, Typed
     DEF Number, PromoterInv, PastResolve, PastDecision, PromoteDecides, PromoteResolvesAgain
<1>2. PICK label \in {"lineage_missing", "refused", "allowed", "moving"} :
          /\ Goto(c, label)
          /\ UNCHANGED <<versions, alias, run, ver, seen, stops, live, promoted>>
          /\ pc[c] \notin {"moved", "tagged"}
          /\ label = "allowed" => /\ LineageComplete(c)
                                  /\ Allowed(LiveEvidence(c), ChampionMacro(c))
          /\ label = "moving" => pc[c] = "allowed" /\ target'[c] # 0
          /\ promotions' \in {promotions, promotions \cup {PromotionAudit(ver[c], seen[c], 0)}}
  <2>1. CASE PromoteDecides(c)
    BY <2>1 DEF PromoteDecides
  <2>2. CASE PromoteResolvesAgain(c)
    BY <2>2, TypedPromotion DEF PromoteResolvesAgain
  <2> QED
    BY <2>1, <2>2
<1>3. target' \in [Promoters -> Number] /\ \A p \in Promoters \ {c} : target'[p] = target[p]
  <2>1. UNCHANGED target \/ \E v \in Number : target' = [target EXCEPT ![c] = v]
    BY <1>1 DEF PromoteDecides, PromoteResolvesAgain, ResolvedCandidate
  <2> QED
    BY <2>1, TypedPromotion
<1>4. /\ promotions' \subseteq [candidate : 1..Len(versions), before : Number, after : Number]
      /\ \A a \in promotions' \ promotions : a.after = 0
  BY <1>1, <1>2, TypedPromotion DEF PromotionAudit
<1>5. ChampionMoveIsAudited'
  BY <1>2, <1>3, ChampionKept
<1>6. PromoterInv(c)'
  <2>1. pc'[c] = label
    BY <1>1, <1>2, Typed DEF Goto
  <2>2. label \in PastDecision => Passed(ver[c], seen[c])
    BY <1>1, <1>2, AllowedPasses DEF PastDecision, PastMoving
  <2>3. Passed(ver[c], seen[c]) => Passed(ver[c], seen[c])'
    BY <1>2 DEF Passed, HasTestMetric, EvidenceOf, MacroOf
  <2>4. label \in PastMoving => target'[c] \in 1..Len(versions)
    BY <1>2, <1>3, LengthIsNat DEF Number, PastMoving
  <2> QED
    BY <1>1, <1>2, <2>1, <2>2, <2>3, <2>4 DEF PromoterInv
<1> QED
  BY <1>2, <1>3, <1>4, <1>5, <1>6, Typed, TypedPromotion, PromoterStepKeeps
     DEF EvaluationPlace, Holding

\* What follows once the version is resolved: the move, the tag, the audit.
LEMMA PromoteMovesKeeps ==
    ASSUME LifecycleInv, NEW c \in Promoters,
           PromoteMovesChampion(c) \/ PromoteTagsChampion(c) \/ PromoteWritesAudit(c),
           UNCHANGED <<evaluationVars, candidateVars>>
    PROVE  LifecycleInv'
<1>1. /\ c \in Clients /\ pc[c] \in PastMoving
      /\ ver[c] \in 1..Len(versions) /\ seen[c] \in Number
      /\ target[c] \in 1..Len(versions) /\ target[c] \in Number /\ Passed(ver[c], seen[c])
  BY KindsDiffer, LengthIsNat, TypedPromotion, Typed
     DEF Number, PromoterInv, PastMoving, PastDecision, PromoteMovesChampion, PromoteTagsChampion,
         PromoteWritesAudit
<1>2. PICK label \in {"moved", "tagged", "done"} :
          /\ Goto(c, label)
          /\ UNCHANGED <<versions, run, ver, seen, stops, live, target>>
          /\ promoted' \in {promoted, promoted \cup {target[c]}}
          /\ \/ /\ label = "moved" /\ alias' = [alias EXCEPT !["champion"] = target[c]]
                /\ UNCHANGED promotions
             \/ label = "tagged" /\ UNCHANGED <<alias, promotions>>
             \/ /\ label = "done" /\ UNCHANGED alias
                /\ promotions' = promotions \cup {PromotionAudit(ver[c], seen[c], target[c])}
  BY DEF PromoteMovesChampion, PromoteTagsChampion, PromoteWritesAudit, SetAlias, promotionVars
<1>3. pc'[c] = label /\ \A d \in Clients \ {c} : pc'[d] = pc[d]
  BY <1>1, <1>2, Typed DEF Goto
<1>4. alias' \in [candidate : Number, champion : Number]
  BY <1>1, <1>2, TypedPromotion
<1>5. /\ promotions' \subseteq [candidate : 1..Len(versions), before : Number, after : Number]
      /\ \A a \in promotions' \ promotions : Passed(a.candidate, a.before)
  BY <1>1, <1>2, TypedPromotion DEF PromotionAudit
<1>6. promoted' \subseteq DOMAIN versions
  BY <1>1, <1>2, LengthIsNat, TypedPromotion
<1>7. ChampionMoveIsAudited'
  <2>1. CASE label = "moved"
    <3>1. alias'.champion = target'[c]
      BY <1>2, <2>1, TypedPromotion
    <3> QED
      BY <1>3, <2>1, <3>1 DEF ChampionMoveIsAudited
  <2>2. CASE label = "tagged"
    <3>1. UNCHANGED <<alias, promotions, versions, stops, target>>
      BY <1>2, <2>2
    <3>2. \A p \in Promoters : pc[p] \in {"moved", "tagged"} => pc'[p] \in {"moved", "tagged"}
      BY <1>3, <2>2, KindsDiffer
    <3> QED
      BY <3>1, <3>2 DEF LifecycleInv, ChampionMoveIsAudited
  <2>3. CASE label = "done"
    <3>1. /\ UNCHANGED <<alias, versions, stops, target>> /\ promotions \subseteq promotions'
          /\ \E a \in promotions' : a.after = target[c]
      <4>1. PromotionAudit(ver[c], seen[c], target[c]).after = target[c]
        BY DEF PromotionAudit
      <4>2. PromotionAudit(ver[c], seen[c], target[c]) \in promotions'
        BY <1>2, <2>3
      <4> QED
        BY <1>2, <2>3, <4>1, <4>2
    <3>2. \A p \in Promoters \ {c} : pc'[p] = pc[p]
      BY <1>3, KindsDiffer
    <3> QED
      BY <3>1, <3>2 DEF LifecycleInv, ChampionMoveIsAudited
  <2> QED
    BY <2>1, <2>2, <2>3
<1>8. PromoterInv(c)'
  <2>1. Passed(ver[c], seen[c])'
    BY <1>1, <1>2 DEF Passed, HasTestMetric, EvidenceOf, MacroOf
  <2> QED
    BY <1>1, <1>2, <1>3, <2>1 DEF PromoterInv
<1> QED
  BY <1>2, <1>4, <1>5, <1>6, <1>7, <1>8, Typed, TypedPromotion, PromoterStepKeeps
     DEF EvaluationPlace, Holding

LEMMA LifecycleStopKeeps ==
    ASSUME LifecycleInv, NEW c \in Clients, Stop(c),
           UNCHANGED <<evaluationVars, candidateVars, promotionVars>>
    PROVE  LifecycleInv'
<1>1. /\ Goto(c, "stopped") /\ stops' = stops + 1 /\ stops < MaxStops
      /\ UNCHANGED <<versions, alias, run, ver, seen>> /\ pc[c] \notin Ended
  BY DEF Stop, Active
<1>2. LifecycleGrows(c) /\ OthersStay(c)
  BY <1>1, LengthIsNat, Typed DEF LifecycleGrows, OthersStay, Goto, candidateVars, promotionVars
<1>3. /\ LifecycleTypeOK' /\ stops' > 0
  BY <1>1, RegistryAssumption
     DEF LifecycleInv, LifecycleTypeOK, RegistryTypeOK, candidateVars, promotionVars
<1>4. AuditInv' /\ AuditedCandidatePassed' /\ ChampionMoveIsAudited'
  BY <1>2, <1>3, PromotionsStay
     DEF LifecycleInv, AuditInv, evaluationVars, promotionVars, ChampionMoveIsAudited
<1>5. LifecycleCommandInv(c)'
  <2>1. pc'[c] = "stopped" /\ LifecycleCommandInv(c)
    BY <1>1, Typed DEF Goto, LifecycleInv
  <2>2. HoldInv(c)'
    BY <1>1, <2>1 DEF LifecycleCommandInv, HoldInv, Holding, EvaluationPlace
  <2>3. c \in TrainRuns => WorkflowInv(c)'
    BY <1>1, <2>1 DEF LifecycleCommandInv, WorkflowInv, Ended, candidateVars, NoSummary
  <2>4. PromoterInv(c)'
    BY <2>1 DEF PromoterInv, PastResolve, PastDecision, PastMoving
  <2> QED
    BY <2>2, <2>3, <2>4 DEF LifecycleCommandInv
<1> QED
  BY <1>1, <1>2, <1>3, <1>4, <1>5, LifecycleKeepsIsEnough

-----------------------------------------------------------------------------
(* The invariant, and what follows from it.                                *)

LEMMA InitLifecycleInv == LifecycleInit => LifecycleInv
<1> SUFFICES ASSUME LifecycleInit PROVE LifecycleInv
  OBVIOUS
<1>1. PICK prior \in {<<>>} \cup {<<[run |-> r, gates |-> "true"]>> : r \in PriorRuns} :
          /\ versions = prior
          /\ alias = [candidate |-> Len(prior), champion |-> Len(prior)]
  BY DEF LifecycleInit, RegistryInit
<1>2. /\ versions \in Seq(Version) /\ Len(versions) \in Nat
      /\ \A v \in 1..Len(versions) : versions[v].run \in PriorRuns
  <2>1. CASE prior = <<>>
    BY <1>1, <2>1, EmptySeq
  <2>2. CASE prior # <<>>
    <3>1. PICK r \in PriorRuns : prior = <<[run |-> r, gates |-> "true"]>>
      BY <1>1, <2>2
    <3>2. [run |-> r, gates |-> "true"] \in Version
      BY DEF Version, Runs, GateTag
    <3> DEFINE first == [run |-> r, gates |-> "true"]
    <3>3. first.run = r
      OBVIOUS
    <3> HIDE DEF first
    <3>4. <<first>> \in Seq(Version) /\ Len(<<first>>) = 1 /\ <<first>>[1] = first
      BY <3>2 DEF first
    <3> QED
      BY <1>1, <3>1, <3>3, <3>4 DEF first
  <2> QED
    BY <2>1, <2>2
<1>3. /\ pc = [c \in Clients |-> "idle"]
      /\ run = [c \in Clients |-> IF c \in FinalRuns \cup TrainRuns THEN c ELSE NoRun]
      /\ ver = [c \in Clients |-> 0] /\ seen = [c \in Clients |-> 0] /\ stops = 0
  BY DEF LifecycleInit, RegistryInit
<1>4. RegistryTypeOK
  BY <1>1, <1>2, <1>3, KindsDiffer, RegistryAssumption DEF RegistryTypeOK
<1>5. DOMAIN versions = 1..Len(versions)
  BY <1>2, LenProperties
<1>6. /\ live = [c \in Promoters |-> [model |-> 0, signature |-> 0]]
      /\ target = [c \in Promoters |-> 0]
      /\ promoted = {alias.champion} \ {0} /\ promotions = {}
      /\ attempts = [t \in TrainRuns |-> 0] /\ summary = [t \in TrainRuns |-> NoSummary]
  BY DEF LifecycleInit, PromotionInit, CandidateInit
<1>7. alias.champion = 0 \/ alias.champion \in 1..Len(versions)
  BY <1>1, <1>2
<1>8. LifecycleTypeOK
  <2>1. attempts \in [TrainRuns -> 0..Retries]
    BY <1>6, RetriesAssumption
  <2>2. summary \in [TrainRuns -> [version : 0..Len(versions), gates : GateTag]]
    BY <1>2, <1>6 DEF NoSummary, GateTag
  <2>3. /\ live \in [Promoters -> [model : 0..Len(versions), signature : 0..Len(versions)]]
        /\ target \in [Promoters -> 0..Len(versions)]
    BY <1>2, <1>6
  <2> QED
    BY <1>4, <1>5, <1>6, <1>7, <2>1, <2>2, <2>3 DEF LifecycleTypeOK
<1>9. AuditInv
  BY DEF LifecycleInit, EvaluationInit, AuditInv
<1>10. ASSUME NEW c \in Clients PROVE LifecycleCommandInv(c)
  <2>1. HoldInv(c)
    BY <1>3, RegistryAssumption DEF HoldInv, Holding, EvaluationPlace
  <2>2. c \in TrainRuns => WorkflowInv(c)
    BY <1>3, <1>6 DEF WorkflowInv
  <2>3. PromoterInv(c)
    BY <1>3 DEF PromoterInv, PastResolve, PastDecision, PastMoving
  <2> QED
    BY <2>1, <2>2, <2>3 DEF LifecycleCommandInv
<1>11. AuditedCandidatePassed /\ ChampionMoveIsAudited
  BY <1>2, <1>6, <1>7 DEF AuditedCandidatePassed, ChampionMoveIsAudited
<1> QED
  BY <1>3, <1>8, <1>9, <1>10, <1>11 DEF LifecycleInv

LEMMA LifecycleStutterKeeps == ASSUME LifecycleInv, UNCHANGED lifecycleVars PROVE LifecycleInv'
<1>1. UNCHANGED <<versions, alias, pc, run, ver, seen, stops, attempts, summary, live, target,
                  promoted, promotions, audit>>
  BY DEF lifecycleVars, registryVars, evaluationVars, candidateVars, promotionVars
<1>2. LifecycleTypeOK' /\ DOMAIN pc' = Clients /\ AuditInv'
  BY <1>1 DEF LifecycleInv, LifecycleTypeOK, RegistryTypeOK, AuditInv
<1>3. AuditedCandidatePassed' /\ ChampionMoveIsAudited'
  BY <1>1 DEF LifecycleInv, AuditedCandidatePassed, ChampionMoveIsAudited, HasTestMetric, EvidenceOf,
              MacroOf
<1>4. ASSUME NEW c \in Clients PROVE LifecycleCommandInv(c)'
  <2>1. LifecycleCommandInv(c)
    BY DEF LifecycleInv
  <2>2. HoldInv(c)' /\ (c \in Promoters => PromoterInv(c)')
    BY <1>1, <2>1 DEF LifecycleCommandInv, HoldInv, PromoterInv, Passed, HasTestMetric, EvidenceOf, MacroOf
  <2>3. c \in TrainRuns => WorkflowInv(c)'
    BY <1>1, <2>1 DEF LifecycleCommandInv, WorkflowInv, GateDecision, ChampionMacro
  <2> QED
    BY <2>2, <2>3 DEF LifecycleCommandInv
<1> QED
  BY <1>2, <1>3, <1>4 DEF LifecycleInv

LEMMA NextLifecycleInv == LifecycleInv /\ [LifecycleNext]_lifecycleVars => LifecycleInv'
<1> SUFFICES ASSUME LifecycleInv, [LifecycleNext]_lifecycleVars PROVE LifecycleInv'
  OBVIOUS
<1>1. CASE UNCHANGED lifecycleVars
  BY <1>1, LifecycleStutterKeeps
<1>2. CASE EvaluationMoves
  BY <1>2, EvaluateKeeps, RecoverKeeps DEF EvaluationMoves
<1>3. CASE CandidateMoves
  BY <1>3, WorkflowKeeps DEF CandidateMoves
<1>4. CASE PromotionMoves
  <2>1. PICK c \in Promoters : PromoteStart(c) \/ PromoteStep(c)
    BY <1>4 DEF PromotionMoves
  <2>2. UNCHANGED <<evaluationVars, candidateVars>>
    BY <1>4 DEF PromotionMoves
  <2> QED
    BY <2>1, <2>2, PromoteLooksKeeps, PromoteDecidesKeeps, PromoteMovesKeeps DEF PromoteStep
<1>5. CASE CommandDies
  BY <1>5, LifecycleStopKeeps DEF CommandDies
<1> QED
  BY <1>1, <1>2, <1>3, <1>4, <1>5 DEF LifecycleNext

(* The invariant holds whatever commands run at once, die or are retried.  *)
THEOREM LifecycleInvariant == LifecycleSpec => []LifecycleInv
BY InitLifecycleInv, NextLifecycleInv, PTL DEF LifecycleSpec

(* Every version number that anything holds is that of a version.          *)
THEOREM LifecycleTypeCorrect == LifecycleSpec => []LifecycleTypeOK
<1>1. LifecycleInv => LifecycleTypeOK
  BY DEF LifecycleInv
<1> QED
  BY <1>1, LifecycleInvariant, PTL

(* The audit of a promotion (promote.py:93-135) names a candidate with     *)
(* test evidence that passes every measured gate, even if the aliases were *)
(* moved by other commands before the audit was written.                   *)
THEOREM AuditsAreTrue == LifecycleSpec => []AuditedCandidatePassed
<1>1. LifecycleInv => AuditedCandidatePassed
  BY DEF LifecycleInv
<1> QED
  BY <1>1, LifecycleInvariant, PTL

(* No champion appears unaudited, unless a command died or is about to     *)
(* write the audit (promote.py:120-135).                                   *)
THEOREM ChampionMovesAreAudited == LifecycleSpec => []ChampionMoveIsAudited
<1>1. LifecycleInv => ChampionMoveIsAudited
  BY DEF LifecycleInv
<1> QED
  BY <1>1, LifecycleInvariant, PTL

(* The summary that later executions of a workflow return says what the    *)
(* registry says (candidate.py).                                           *)
THEOREM SummariesMatchRegistry == LifecycleSpec => []SummaryMatchesRegistry
<1>1. LifecycleInv => SummaryMatchesRegistry
  BY LengthIsNat, KindsDiffer DEF LifecycleInv, LifecycleCommandInv, WorkflowInv, SummaryMatchesRegistry
<1> QED
  BY <1>1, LifecycleInvariant, PTL

-----------------------------------------------------------------------------
(* One version per run, and one operator at a time.                        *)

\* What every step has of one command: it was running or may begin, the others stay,
\* it creates a version or none, and moves the champion as a promotion or not at all.
Shape(c) ==
    /\ Active(c) \/ MayStart(c)
    /\ \A d \in Clients \ {c} : pc'[d] = pc[d] /\ run'[d] = run[d]
    /\ \/ RegisterCreate(c)
       \/ /\ Len(versions') = Len(versions)
          /\ \A v \in 1..Len(versions) : versions'[v].run = versions[v].run
          /\ pc'[c] = "register_create" =>
                run'[c] = run[c] /\ (Flaky \/ VersionsOf(run[c]) = {})
    /\ \/ c \in Promoters /\ (PromoteStart(c) \/ PromoteStep(c))
       \/ pc'[c] \notin PastResolve \cup PastDecision /\ alias'.champion = alias.champion

\* A step that creates no version.
LEMMA PlainShape ==
    ASSUME LifecycleInv, NEW c \in Clients, NEW label, Goto(c, label), Active(c) \/ MayStart(c),
           label # "register_create", UNCHANGED <<versions, alias>>,
           run' = run \/ (\E r : run' = [run EXCEPT ![c] = r]),
           label \notin PastResolve \cup PastDecision
    PROVE  Shape(c)
<1>1. pc'[c] = label /\ \A d \in Clients \ {c} : pc'[d] = pc[d]
  BY Typed DEF Goto
<1>2. \A d \in Clients \ {c} : run'[d] = run[d]
  BY Typed DEF RegistryTypeOK
<1> QED
  BY <1>1, <1>2 DEF Shape

LEMMA FindShape ==
    ASSUME LifecycleInv, NEW c \in Clients, NEW found, FindVersion(c, found, "register_create"),
           found \notin {"register_create"} \cup PastResolve \cup PastDecision,
           Active(c), UNCHANGED <<versions, alias, run>>
    PROVE  Shape(c)
<1>1. \/ Goto(c, found)
      \/ Goto(c, "register_create") /\ (Flaky \/ VersionsOf(run[c]) = {})
  BY DEF FindVersion
<1>2. CASE Goto(c, found)
  BY <1>2, PlainShape
<1>3. CASE Goto(c, "register_create") /\ (Flaky \/ VersionsOf(run[c]) = {})
  BY <1>3, Typed DEF Shape, Goto, PastResolve, PastDecision, PastMoving
<1> QED
  BY <1>1, <1>2, <1>3

LEMMA RegisterShape ==
    ASSUME LifecycleInv, NEW c \in Clients, RegisterCandidate(c)
    PROVE  Shape(c)
<1>1. Active(c)
  BY DEF RegisterCandidate, RegisterFind, RegisterCreate, RegisterAlias, Active, Ended
<1>2. CASE RegisterFind(c)
  BY <1>1, <1>2, FindShape DEF RegisterFind, PastResolve, PastDecision, PastMoving
<1>3. CASE RegisterCreate(c)
  BY <1>1, <1>3, Typed DEF Shape, RegisterCreate, Goto, PastResolve, PastDecision, PastMoving
<1>4. CASE RegisterAlias(c)
  <2>1. alias'.champion = alias.champion /\ UNCHANGED <<versions, run>> /\ Goto(c, "registered")
    BY <1>4, Typed DEF RegisterAlias, SetAlias, RegistryTypeOK
  <2> QED
    BY <1>1, <2>1, Typed DEF Shape, Goto, PastResolve, PastDecision, PastMoving
<1> QED
  BY <1>2, <1>3, <1>4 DEF RegisterCandidate

LEMMA TagShape ==
    ASSUME LifecycleInv, NEW c \in Clients, TagGates(c), Goto(c, "gated"),
           ver[c] \in 1..Len(versions), Active(c), UNCHANGED <<alias, run>>
    PROVE  Shape(c)
<1>1. Len(versions') = Len(versions) /\ \A v \in 1..Len(versions) : versions'[v].run = versions[v].run
  BY TagGatesEffect, Typed DEF RegistryTypeOK
<1> QED
  BY <1>1, Typed DEF Shape, Goto, PastResolve, PastDecision, PastMoving

LEMMA EvaluationShape ==
    ASSUME LifecycleInv, EvaluationMoves
    PROVE  \E c \in Clients : Shape(c)
<1>1. CASE \E e \in FinalRuns : EvaluateStart(e) \/ EvaluateStep(e)
  <2>1. PICK e \in FinalRuns : EvaluateStart(e) \/ EvaluateStep(e)
    BY <1>1
  <2>2. e \in Clients
    BY EvaluationRun
  <2>3. CASE RegisterCandidate(e)
    BY <2>2, <2>3, RegisterShape
  <2>4. CASE EvaluateTagsGates(e)
    BY <2>2, <2>4, TagShape, EvaluationRun DEF EvaluateTagsGates, Active, Ended, Holding
  <2>5. CASE ~RegisterCandidate(e) /\ ~EvaluateTagsGates(e)
    <3>1. PICK label \in {"refused", "fitting", "authorized", "evaluated", "saved", "logging", "logged",
                          "comparing", "register_find", "stopped", "done"} :
              /\ Goto(e, label) /\ (Active(e) \/ MayStart(e))
              /\ UNCHANGED <<versions, alias, run>>
      BY <2>1, <2>5 DEF EvaluateStep, EvaluateStart, AuthorizeTest, OpenTest, SaveEvidence, StartRun,
         LogModel, EvaluateReadsChampion, EvaluateCompletes, EvaluateResolvesChampion,
         ResolveChampion, Active, Ended
    <3> QED
      BY <2>2, <3>1, PlainShape DEF PastResolve, PastDecision, PastMoving
  <2> QED
    BY <2>2, <2>3, <2>4, <2>5
<1>2. CASE \E c \in Recoverers : RecoverStart(c) \/ RecoverStep(c)
  <2>1. PICK c \in Recoverers : RecoverStart(c) \/ RecoverStep(c)
    BY <1>2
  <2>2. c \in Clients
    BY EvaluationRun
  <2>3. CASE RegisterCandidate(c)
    BY <2>2, <2>3, RegisterShape
  <2>4. CASE RecoverTagsGates(c)
    BY <2>2, <2>4, TagShape, EvaluationRun DEF RecoverTagsGates, Active, Ended, Holding
  <2>5. CASE ~RegisterCandidate(c) /\ ~RecoverTagsGates(c)
    <3>1. PICK label \in {"refused", "recovering", "recovered", "comparing", "register_find", "stopped",
                          "done"} :
              /\ Goto(c, label) /\ (Active(c) \/ MayStart(c))
              /\ UNCHANGED <<versions, alias>>
              /\ run' = run \/ (\E r : run' = [run EXCEPT ![c] = r])
      BY <2>1, <2>5 DEF RecoverStep, RecoverStart, RecoverReadsEvidence, RecoverReadsChampion,
         RecoverCompletes, RecoverResolvesChampion, ResolveChampion, Active, Ended
    <3> QED
      BY <2>2, <3>1, PlainShape DEF PastResolve, PastDecision, PastMoving
  <2> QED
    BY <2>2, <2>3, <2>4, <2>5
<1> QED
  BY <1>1, <1>2 DEF EvaluationMoves

LEMMA CandidateShape ==
    ASSUME LifecycleInv, CandidateMoves
    PROVE  \E c \in Clients : Shape(c)
<1>1. PICK t \in TrainRuns : TrainStart(t) \/ CandidateStep(t) \/ CandidateRetries(t)
  BY DEF CandidateMoves
<1>2. t \in Clients
  BY WorkflowFacts
<1>3. CASE RegisterCandidate(t)
  BY <1>2, <1>3, RegisterShape
<1>4. CASE CandidateTagsGates(t)
  BY <1>2, <1>4, TagShape, WorkflowFacts DEF CandidateTagsGates, Active, Ended
<1>5. CASE CandidateReusesVersion(t)
  <2>1. alias'.champion = alias.champion /\ UNCHANGED <<versions, run>> /\ Goto(t, "registered")
        /\ Active(t)
    BY <1>5, Typed DEF CandidateReusesVersion, SetAlias, RegistryTypeOK, Active, Ended
  <2> QED
    BY <1>2, <2>1, Typed DEF Shape, Goto, PastResolve, PastDecision, PastMoving
<1>6. CASE ~RegisterCandidate(t) /\ ~CandidateTagsGates(t) /\ ~CandidateReusesVersion(t)
  <2>1. PICK label \in {"trained", "done", "reusing", "register_find", "loaded", "stopped", "comparing"} :
            /\ Goto(t, label) /\ (Active(t) \/ MayStart(t))
            /\ UNCHANGED <<versions, alias, run>>
    BY <1>1, <1>6 DEF CandidateStep, TrainStart, CandidateRetries, CandidateFinds, FindVersion,
       CandidateLoads, CandidateCannotLoad, CandidateResolvesChampion, CandidateWritesSummary,
       ResolveChampion, Active, Ended
  <2> QED
    BY <1>2, <2>1, PlainShape DEF PastResolve, PastDecision, PastMoving
<1> QED
  BY <1>2, <1>3, <1>4, <1>5, <1>6

LEMMA PromotionShape ==
    ASSUME LifecycleInv, PromotionMoves
    PROVE  \E c \in Clients : Shape(c)
<1>1. PICK c \in Promoters : PromoteStart(c) \/ PromoteStep(c)
  BY DEF PromotionMoves
<1>2. c \in Clients
  BY KindsDiffer
<1>3. PICK label : Goto(c, label) /\ label # "register_create"
  BY <1>1 DEF PromoteStep, PromoteStart, PromoteResolvesCandidate, PromoteResolvesChampion, ResolveChampion,
     PromoteLoadsModel, PromoteReadsSignature, PromoteDecides, PromoteResolvesAgain,
     PromoteMovesChampion, PromoteTagsChampion, PromoteWritesAudit
<1>4. UNCHANGED <<versions, run>> /\ (Active(c) \/ MayStart(c))
  BY <1>1 DEF PromoteStep, PromoteStart, PromoteResolvesCandidate, PromoteResolvesChampion,
     PromoteLoadsModel, PromoteReadsSignature, PromoteDecides, PromoteResolvesAgain,
     PromoteMovesChampion, PromoteTagsChampion, PromoteWritesAudit, Active, Ended
<1> QED
  BY <1>1, <1>2, <1>3, <1>4, Typed DEF Shape, Goto

LEMMA EveryStepHasShape ==
    ASSUME LifecycleInv, LifecycleNext
    PROVE  \E c \in Clients : Shape(c)
<1>1. CASE CommandDies
  <2>1. PICK c \in Clients : Stop(c)
    BY <1>1 DEF CommandDies
  <2> QED
    BY <2>1, PlainShape DEF Stop, PastResolve, PastDecision, PastMoving
<1> QED
  BY <1>1, EvaluationShape, CandidateShape, PromotionShape DEF LifecycleNext

\* A run has one creator at a time: its only workflow, or the only command there is.
Sole(r) == Serial \/ r \in TrainRuns

NoVersionOf(r) == \A v \in 1..Len(versions) : versions[v].run # r

LifecycleOneActive == Serial => \A c, d \in Clients : Active(c) /\ Active(d) => c = d

CreationInv ==
    /\ LifecycleOneActive
    /\ \A c \in Clients : pc[c] = "register_create" /\ Sole(run[c]) => NoVersionOf(run[c])
    /\ \A v, w \in 1..Len(versions) :
          versions[v].run = versions[w].run /\ Sole(versions[v].run) => v = w

LEMMA OneActiveStays ==
    ASSUME LifecycleOneActive, NEW c \in Clients, Shape(c)
    PROVE  LifecycleOneActive'
<1>1. \A d \in Clients \ {c} : Active(d)' = Active(d)
  BY DEF Shape, Active
<1> SUFFICES ASSUME Serial, NEW d \in Clients, NEW e \in Clients, Active(d)', Active(e)', d # e
             PROVE  FALSE
  BY DEF LifecycleOneActive
<1>2. CASE d # c /\ e # c
  BY <1>1, <1>2 DEF LifecycleOneActive
<1>3. CASE d = c \/ e = c
  <2>1. PICK o \in Clients \ {c} : Active(o)
    BY <1>1, <1>3
  <2>2. Active(c)
    BY <2>1 DEF Shape, MayStart
  <2> QED
    BY <2>1, <2>2 DEF LifecycleOneActive
<1> QED
  BY <1>2, <1>3

\* The run a command registers is its own, if it is that of a workflow.
LEMMA CreatorsRun ==
    ASSUME LifecycleInv, NEW c \in Clients
    PROVE  /\ run[c] \in TrainRuns => c = run[c]
           /\ pc[c] = "register_create" => run[c] \in Runs
<1>1. HoldInv(c)
  BY DEF LifecycleInv, LifecycleCommandInv
<1> QED
  BY <1>1, KindsDiffer DEF HoldInv, EvaluationPlace

LEMMA NextCreationInv ==
    ASSUME ~Flaky, LifecycleInv, CreationInv, NEW c \in Clients, Shape(c)
    PROVE  CreationInv'
<1>1. LifecycleOneActive'
  BY OneActiveStays DEF CreationInv
<1>2. Len(versions) \in Nat /\ DOMAIN versions = 1..Len(versions)
  BY LengthIsNat
<1>3. CASE RegisterCreate(c)
  <2>1. /\ pc[c] = "register_create" /\ run[c] \in Runs /\ UNCHANGED run
        /\ Sole(run[c]) => NoVersionOf(run[c])
    BY <1>3, CreatorsRun DEF RegisterCreate, CreationInv
  <2>2. /\ Len(versions') = Len(versions) + 1 /\ pc'[c] = "register_alias"
        /\ \A v \in 1..Len(versions) : versions'[v] = versions[v]
        /\ versions'[Len(versions')].run = run[c]
    BY <1>3, <2>1, CreateEffect, Typed DEF RegisterCreate, RegistryTypeOK, Goto
  <2>3. \A v \in 1..Len(versions') : v \in 1..Len(versions) \/ v = Len(versions')
    BY <1>2, <2>2
  <2>4. ASSUME NEW d \in Clients, pc'[d] = "register_create", Sole(run'[d])
        PROVE  \A v \in 1..Len(versions') : versions'[v].run # run'[d]
    <3>1. d # c /\ pc[d] = "register_create" /\ run'[d] = run[d]
      BY <2>1, <2>2, <2>4 DEF Shape
    <3>2. NoVersionOf(run[d])
      BY <2>4, <3>1 DEF CreationInv
    <3>3. run[c] # run[d]
      <4>1. CASE Serial
        BY <2>1, <3>1, <4>1 DEF CreationInv, LifecycleOneActive, Active, Ended
      <4>2. CASE run[d] \in TrainRuns
        BY <3>1, <4>2, CreatorsRun
      <4> QED
        BY <2>4, <3>1, <4>1, <4>2 DEF Sole
    <3> QED
      BY <2>2, <2>3, <3>1, <3>2, <3>3 DEF NoVersionOf
  <2>5. \A v, w \in 1..Len(versions') :
           versions'[v].run = versions'[w].run /\ Sole(versions'[v].run) => v = w
    BY <2>1, <2>2, <2>3 DEF CreationInv, NoVersionOf
  <2> QED
    BY <1>1, <2>4, <2>5 DEF CreationInv, Sole, NoVersionOf
<1>4. CASE ~RegisterCreate(c)
  <2>1. /\ Len(versions') = Len(versions)
        /\ \A v \in 1..Len(versions) : versions'[v].run = versions[v].run
        /\ pc'[c] = "register_create" => run'[c] = run[c] /\ NoVersionOf(run[c])
    BY <1>2, <1>4 DEF Shape, VersionsOf, NoVersionOf
  <2>2. ASSUME NEW d \in Clients, pc'[d] = "register_create", Sole(run'[d])
        PROVE  \A v \in 1..Len(versions') : versions'[v].run # run'[d]
    BY <2>1, <2>2 DEF Shape, CreationInv, NoVersionOf
  <2> QED
    BY <1>1, <2>1, <2>2 DEF CreationInv, Sole, NoVersionOf
<1> QED
  BY <1>3, <1>4

LEMMA InitCreationInv == ASSUME LifecycleInit, LifecycleInv PROVE CreationInv
<1>1. pc = [c \in Clients |-> "idle"]
  BY DEF LifecycleInit, RegistryInit
<1>2. \A v, w \in 1..Len(versions) : v = w
  <2>1. Len(versions) \in {0, 1}
    BY EmptySeq DEF LifecycleInit, RegistryInit
  <2>2. \A v \in 1..Len(versions) : v = 1
    <3>1. \A n \in {0, 1} : \A v \in 1..n : v = 1
      OBVIOUS
    <3> QED
      BY ONLY <2>1, <3>1
  <2> QED
    BY <2>2
<1> QED
  BY <1>1, <1>2 DEF CreationInv, LifecycleOneActive, Active, Ended

LEMMA CreationInvariant == ASSUME ~Flaky PROVE LifecycleSpec => [](LifecycleInv /\ CreationInv)
<1>1. LifecycleInit => LifecycleInv /\ CreationInv
  BY InitLifecycleInv, InitCreationInv
<1>2. (LifecycleInv /\ CreationInv) /\ [LifecycleNext]_lifecycleVars => (LifecycleInv /\ CreationInv)'
  <2> SUFFICES ASSUME LifecycleInv, CreationInv, [LifecycleNext]_lifecycleVars
               PROVE  LifecycleInv' /\ CreationInv'
    OBVIOUS
  <2>1. LifecycleInv'
    BY NextLifecycleInv
  <2>2. CASE LifecycleNext
    BY <2>1, <2>2, EveryStepHasShape, NextCreationInv
  <2>3. CASE UNCHANGED lifecycleVars
    <3>1. UNCHANGED <<versions, pc, run>>
      BY <2>3 DEF lifecycleVars, registryVars
    <3> QED
      BY <2>1, <3>1 DEF CreationInv, LifecycleOneActive, Active, Sole, NoVersionOf
  <2> QED
    BY <2>1, <2>2, <2>3
<1> QED
  BY <1>1, <1>2, PTL DEF LifecycleSpec

(* However the task that registers a candidate is interrupted and retried, *)
(* and whatever else runs, it creates one version (service.py              *)
(* find_version_by_run_id), if no search of the registry fails: a failed   *)
(* one reads as "no version".                                              *)
THEOREM CandidatesRegisteredOnce == ASSUME ~Flaky PROVE LifecycleSpec => []CandidateRegisteredOnce
<1>1. LifecycleInv /\ CreationInv => CandidateRegisteredOnce
  BY LengthIsNat DEF CreationInv, CandidateRegisteredOnce, Sole
<1> QED
  BY <1>1, CreationInvariant, PTL

(* One command at a time registers every run once, final evaluations and   *)
(* their recoveries included.                                              *)
THEOREM RunsRegisteredOnce == ASSUME ~Flaky, Serial PROVE LifecycleSpec => []OneVersionPerRun
<1>1. LifecycleInv /\ CreationInv => OneVersionPerRun
  BY LengthIsNat DEF CreationInv, OneVersionPerRun, Sole
<1> QED
  BY <1>1, CreationInvariant, PTL

-----------------------------------------------------------------------------
(* One operator at a time: nothing moves an alias between the first and    *)
(* the last look of a promotion.                                           *)

AfterResolve == PastResolve \cup {"allowed", "moving"}
AfterChampion == {"champion_resolved", "model_loaded", "checked", "allowed", "moving"}

\* What the aliases and the loaded models are at each step of a promotion.
UndisturbedInv(c) ==
    /\ pc[c] \in AfterResolve => ver[c] = alias.candidate
    /\ pc[c] \in {"model_loaded", "checked"} => live[c].model = ver[c]
    /\ pc[c] = "checked" => live[c].signature = ver[c]
    /\ pc[c] \in {"allowed", "moving"} => Allowed(EvidenceOf(ver[c]), MacroOf(seen[c]))
    /\ pc[c] = "moving" => target[c] = ver[c]
    /\ ~Flaky /\ pc[c] \in AfterChampion => seen[c] = alias.champion

LifecycleSerialInv ==
    /\ LifecycleOneActive
    /\ ChampionWasTestEvaluated
    /\ \A c \in Promoters : UndisturbedInv(c)

\* The gates of one model, read in two ways.
LEMMA LiveIsRegistered ==
    ASSUME NEW c, NEW m, live[c].model = ver[c], live[c].signature = ver[c],
           EvidenceOf(ver[c]) \in PromotionEvidence, Allowed(LiveEvidence(c), m)
    PROVE  Allowed(EvidenceOf(ver[c]), m)
<1> DEFINE e == EvidenceOf(ver[c])
           l == LiveEvidence(c)
<1>1. /\ l.macro = e.macro /\ l.recall = e.recall /\ l.latency = e.latency
      /\ l.loads = e.loads /\ l.signature = e.signature
      /\ l.contract = (e.loads /\ e.contract)
  BY DEF LiveEvidence
<1>2. e.loads \in BOOLEAN /\ e.contract \in BOOLEAN
  BY DEF PromotionEvidence
<1> HIDE DEF e, l
<1>3. FailedGates(e, m) \subseteq FailedGates(l, m)
  BY <1>1, <1>2 DEF FailedGates
<1> QED
  BY <1>3 DEF Allowed, e, l

\* Steps of one promotion, undisturbed.
LEMMA PromotionIsUndisturbed ==
    ASSUME LifecycleInv, NEW c \in Promoters, UndisturbedInv(c), PromoteStart(c) \/ PromoteStep(c)
    PROVE  UndisturbedInv(c)'
<1>1. /\ c \in Clients /\ DOMAIN pc = Clients /\ PromoterInv(c)
      /\ ver \in [Clients -> Number] /\ seen \in [Clients -> Number]
      /\ live \in [Promoters -> [model : Number, signature : Number]]
      /\ target \in [Promoters -> Number]
  BY KindsDiffer, Typed, TypedPromotion
<1> USE DEF Goto, AfterResolve, AfterChampion, PastResolve
<1>2. CASE PromoteStart(c)
  BY <1>1, <1>2 DEF PromoteStart, UndisturbedInv
<1>3. CASE PromoteResolvesCandidate(c)
  <2>1. PICK v \in ResolvedCandidate :
            /\ ver' = [ver EXCEPT ![c] = v]
            /\ Goto(c, IF v = 0 THEN "refused" ELSE "candidate_resolved")
    BY <1>3 DEF PromoteResolvesCandidate
  <2>2. v # 0 => v = alias.candidate
    BY DEF ResolvedCandidate
  <2> QED
    BY <1>1, <1>3, <2>1, <2>2 DEF PromoteResolvesCandidate, UndisturbedInv
<1>4. CASE PromoteResolvesChampion(c)
  BY <1>1, <1>4 DEF PromoteResolvesChampion, ResolveChampion, UndisturbedInv
<1>5. CASE PromoteLoadsModel(c)
  BY <1>1, <1>5 DEF PromoteLoadsModel, UndisturbedInv
<1>6. CASE PromoteReadsSignature(c)
  BY <1>1, <1>6 DEF PromoteReadsSignature, UndisturbedInv
<1>7. CASE PromoteDecides(c)
  <2>1. PICK label \in {"lineage_missing", "refused", "allowed"} :
            /\ pc' = [pc EXCEPT ![c] = label] /\ pc[c] = "checked"
            /\ UNCHANGED <<versions, alias, ver, seen, live, target>>
            /\ label = "allowed" => Allowed(LiveEvidence(c), ChampionMacro(c))
    BY <1>7 DEF PromoteDecides
  <2>2. EvidenceOf(ver[c]) \in PromotionEvidence
    <3>1. ver[c] \in 1..Len(versions) /\ versions \in Seq(Version)
      BY <1>1, <2>1, Typed DEF PromoterInv, RegistryTypeOK
    <3>2. versions[ver[c]] \in Version
      BY <3>1, ElementOfSeq
    <3>3. versions[ver[c]].run \in Runs
      BY <3>2 DEF Version
    <3> QED
      BY <3>3, RegistryAssumption DEF EvidenceOf
  <2>3. ChampionMacro(c) = MacroOf(seen[c])
    BY DEF ChampionMacro, MacroOf, EvidenceOf
  <2>4. label = "allowed" => Allowed(EvidenceOf(ver[c]), MacroOf(seen[c]))
    BY <2>1, <2>2, <2>3, LiveIsRegistered DEF UndisturbedInv
  <2>5. Allowed(EvidenceOf(ver[c]), MacroOf(seen[c])) => Allowed(EvidenceOf(ver[c]), MacroOf(seen[c]))'
    BY <2>1 DEF EvidenceOf, MacroOf
  <2> QED
    BY <1>1, <2>1, <2>4, <2>5 DEF UndisturbedInv
<1>8. CASE PromoteResolvesAgain(c)
  <2>1. PICK v \in ResolvedCandidate :
            /\ target' = [target EXCEPT ![c] = v]
            /\ Goto(c, IF v = 0 THEN "refused" ELSE "moving")
    BY <1>8 DEF PromoteResolvesAgain
  <2>2. v # 0 => v = alias.candidate
    BY DEF ResolvedCandidate
  <2>3. /\ pc[c] = "allowed" /\ UNCHANGED <<versions, alias, ver, seen, live>>
    BY <1>8 DEF PromoteResolvesAgain
  <2>4. Allowed(EvidenceOf(ver[c]), MacroOf(seen[c]))'
    BY <2>3 DEF UndisturbedInv, EvidenceOf, MacroOf
  <2> QED
    BY <1>1, <2>1, <2>2, <2>3, <2>4 DEF UndisturbedInv
<1>9. CASE PromoteMovesChampion(c) \/ PromoteTagsChampion(c) \/ PromoteWritesAudit(c)
  BY <1>1, <1>9 DEF PromoteMovesChampion, PromoteTagsChampion, PromoteWritesAudit, UndisturbedInv
<1> QED
  BY <1>2, <1>3, <1>4, <1>5, <1>6, <1>7, <1>8, <1>9 DEF PromoteStep

\* What one step does to the champion: nothing, or a promotion moves it to a version
\* that it resolved, that has test evidence and that passes every gate.
LEMMA ChampionMoves ==
    ASSUME LifecycleInv, LifecycleSerialInv, NEW c \in Clients, Shape(c)
    PROVE  \/ alias'.champion = alias.champion
           \/ /\ c \in Promoters /\ UNCHANGED versions
              /\ alias'.champion = ver[c] /\ HasTestMetric(ver[c])
              /\ Allowed(EvidenceOf(ver[c]), MacroOf(seen[c]))
              /\ ~Flaky => seen[c] = alias.champion
<1>1. CASE alias'.champion = alias.champion
  BY <1>1
<1>2. CASE alias'.champion # alias.champion
  <2>1. c \in Promoters /\ (PromoteStart(c) \/ PromoteStep(c))
    BY <1>2 DEF Shape
  <2>2. PromoteMovesChampion(c)
    BY <1>2, <2>1 DEF PromoteStep, PromoteStart, PromoteResolvesCandidate, PromoteResolvesChampion,
       PromoteLoadsModel, PromoteReadsSignature, PromoteDecides, PromoteResolvesAgain,
       PromoteTagsChampion, PromoteWritesAudit
  <2>3. /\ pc[c] = "moving" /\ UNCHANGED versions
        /\ alias'.champion = target[c]
    BY <2>2, TypedPromotion DEF PromoteMovesChampion, SetAlias
  <2>4. UndisturbedInv(c) /\ PromoterInv(c)
    BY <2>1, TypedPromotion DEF LifecycleSerialInv
  <2> QED
    BY <2>1, <2>3, <2>4 DEF UndisturbedInv, PromoterInv, Passed, PastDecision, PastMoving, AfterChampion
<1> QED
  BY <1>1, <1>2

LEMMA NextSerialInv ==
    ASSUME Serial, LifecycleInv, LifecycleSerialInv, NEW c \in Clients, Shape(c)
    PROVE  LifecycleSerialInv'
<1>1. LifecycleOneActive'
  BY OneActiveStays DEF LifecycleSerialInv
<1>2. ChampionWasTestEvaluated'
  <2>1. CASE alias'.champion = alias.champion
    <3>1. alias.champion # 0 => alias.champion \in 1..Len(versions) /\ HasTestMetric(alias.champion)
      BY LengthIsNat, Typed DEF LifecycleSerialInv, ChampionWasTestEvaluated, RegistryTypeOK
    <3>2. \A v \in 1..Len(versions) : versions'[v].run = versions[v].run
      <4>1. CASE RegisterCreate(c)
        <5>1. run[c] \in Runs
          BY <4>1, CreatorsRun DEF RegisterCreate
        <5> QED
          BY <4>1, <5>1, CreateEffect, Typed DEF RegisterCreate, RegistryTypeOK
      <4>2. CASE ~RegisterCreate(c)
        BY <4>2 DEF Shape
      <4> QED
        BY <4>1, <4>2
    <3> QED
      BY <2>1, <3>1, <3>2 DEF ChampionWasTestEvaluated, HasTestMetric
  <2>2. CASE alias'.champion # alias.champion
    BY <2>2, ChampionMoves DEF ChampionWasTestEvaluated, HasTestMetric
  <2> QED
    BY <2>1, <2>2
<1>3. ASSUME NEW d \in Promoters PROVE UndisturbedInv(d)'
  <2>1. CASE pc'[d] \notin AfterResolve
    BY <2>1 DEF UndisturbedInv, AfterResolve, AfterChampion, PastResolve
  <2>2. CASE pc'[d] \in AfterResolve /\ d # c
    <3>1. d \in Clients /\ pc[d] = pc'[d]
      BY <1>3, <2>2, KindsDiffer DEF Shape
    <3>2. Active(d)
      BY <2>2, <3>1 DEF AfterResolve, PastResolve, Active, Ended
    <3>3. Active(c)
      BY <3>1, <3>2 DEF Shape, MayStart
    <3> QED
      BY <2>2, <3>1, <3>2, <3>3 DEF LifecycleSerialInv, LifecycleOneActive
  <2>3. CASE pc'[d] \in AfterResolve /\ d = c
    <3>1. PromoteStart(c) \/ PromoteStep(c)
      BY <2>3 DEF Shape, AfterResolve, PastDecision, PastMoving
    <3> QED
      BY <1>3, <2>3, <3>1, PromotionIsUndisturbed DEF LifecycleSerialInv
  <2> QED
    BY <2>1, <2>2, <2>3
<1> QED
  BY <1>1, <1>2, <1>3 DEF LifecycleSerialInv

LEMMA InitSerialInv == ASSUME LifecycleInit, LifecycleInv PROVE LifecycleSerialInv
<1>1. pc = [c \in Clients |-> "idle"]
  BY DEF LifecycleInit, RegistryInit
<1>2. LifecycleOneActive
  BY <1>1 DEF LifecycleOneActive, Active, Ended
<1>3. \A c \in Promoters : UndisturbedInv(c)
  BY <1>1, KindsDiffer DEF UndisturbedInv, AfterResolve, AfterChampion, PastResolve
<1>4. ChampionWasTestEvaluated
  <2>1. PICK prior \in {<<>>} \cup {<<[run |-> r, gates |-> "true"]>> : r \in PriorRuns} :
            versions = prior /\ alias = [candidate |-> Len(prior), champion |-> Len(prior)]
    BY DEF LifecycleInit, RegistryInit
  <2>2. CASE prior = <<>>
    BY <2>1, <2>2, EmptySeq DEF ChampionWasTestEvaluated
  <2>3. CASE prior # <<>>
    <3>1. PICK r \in PriorRuns : prior = <<[run |-> r, gates |-> "true"]>>
      BY <2>1, <2>3
    <3>2. Len(prior) = 1 /\ prior[1].run = r
      BY <3>1
    <3> QED
      BY <2>1, <3>2 DEF ChampionWasTestEvaluated, HasTestMetric
  <2> QED
    BY <2>2, <2>3
<1> QED
  BY <1>2, <1>3, <1>4 DEF LifecycleSerialInv

LEMMA SerialStep ==
    ASSUME Serial
    PROVE  LifecycleInv /\ LifecycleSerialInv /\ [LifecycleNext]_lifecycleVars => LifecycleSerialInv'
<1> SUFFICES ASSUME LifecycleInv, LifecycleSerialInv, [LifecycleNext]_lifecycleVars PROVE LifecycleSerialInv'
  OBVIOUS
<1>1. CASE LifecycleNext
  BY <1>1, EveryStepHasShape, NextSerialInv
<1>2. CASE UNCHANGED lifecycleVars
  <2>1. UNCHANGED <<versions, alias, pc, ver, seen, live, target>>
    BY <1>2 DEF lifecycleVars, registryVars, promotionVars
  <2> QED
    BY <2>1 DEF LifecycleSerialInv, LifecycleOneActive, Active, ChampionWasTestEvaluated, HasTestMetric, UndisturbedInv,
       EvidenceOf, MacroOf
<1> QED
  BY <1>1, <1>2

LEMMA LifecycleSerialInvariant == ASSUME Serial PROVE LifecycleSpec => [](LifecycleInv /\ LifecycleSerialInv)
<1>1. LifecycleInit => LifecycleInv /\ LifecycleSerialInv
  BY InitLifecycleInv, InitSerialInv
<1>2. (LifecycleInv /\ LifecycleSerialInv) /\ [LifecycleNext]_lifecycleVars => (LifecycleInv /\ LifecycleSerialInv)'
  BY NextLifecycleInv, SerialStep
<1> QED
  BY <1>1, <1>2, PTL DEF LifecycleSpec

(* The champion was evaluated on the held-out split, if one command runs   *)
(* at a time: ModelRegistryService.promote_candidate moves the alias to    *)
(* what the candidate alias names by then, whatever promote.py checked.    *)
THEOREM ChampionsWereTested == ASSUME Serial PROVE LifecycleSpec => []ChampionWasTestEvaluated
<1>1. LifecycleSerialInv => ChampionWasTestEvaluated
  BY DEF LifecycleSerialInv
<1> QED
  BY <1>1, LifecycleSerialInvariant, PTL

(* A champion passes every gate against the one it replaces, if one        *)
(* command runs at a time and no alias lookup fails.                       *)
THEOREM ChampionsPassGates == ASSUME Serial, ~Flaky PROVE LifecycleSpec => ChampionPassedGates
<1> DEFINE Gated == alias'.champion # alias.champion =>
                        Allowed(EvidenceOf(alias'.champion), MacroOf(alias.champion))
<1>1. LifecycleInv /\ LifecycleSerialInv /\ [LifecycleNext]_lifecycleVars => [Gated]_lifecycleVars
  <2> SUFFICES ASSUME LifecycleInv, LifecycleSerialInv, LifecycleNext PROVE Gated
    OBVIOUS
  <2> QED
    BY EveryStepHasShape, ChampionMoves
<1> HIDE DEF Gated
<1>2. LifecycleSpec => [][Gated]_lifecycleVars
  BY <1>1, LifecycleSerialInvariant, PTL DEF LifecycleSpec
<1> QED
  BY <1>2 DEF ChampionPassedGates, Gated

=============================================================================
