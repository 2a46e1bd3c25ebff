-------------------------- MODULE Bootstrap_proofs --------------------------
(***************************************************************************)
(* The bootstrap, for every set of runs, recoverers, promoters, evidence   *)
(* and bounds.                                                             *)
(*                                                                         *)
(* Nothing here assumes Serial.  A bootstrap waits for the command it      *)
(* started before it looks at the registry again, so it is the bootstrap   *)
(* that runs its commands one at a time (AloneInv), and the protocol of    *)
(* the sealed test, which concurrent operators can break, holds under it.  *)
(***************************************************************************)
EXTENDS Bootstrap, FinalEvaluation_proofs

\* Where a command holds a version, has read the test split or read that it was
\* read, and works under an authorization that is its own.
HoldingPlace == {"register_alias", "registered", "gated"}
PastOpenPlace ==
    {"evaluated", "saved", "logging", "logged", "recovered", "comparing",
     "register_find", "register_create"} \cup HoldingPlace
WorkingPlace == {"authorized", "recovering"} \cup PastOpenPlace

\* What a command relies on.
ChildInv(c) ==
    /\ c \in FinalRuns => run[c] = c
    /\ pc[c] = "fitting" => audit.status = "absent"
    /\ pc[c] = "authorized" => opened = {}
    /\ pc[c] \in WorkingPlace => audit.status = "authorized_and_opened" /\ audit.run = run[c]
    /\ pc[c] \in PastOpenPlace => opened = {audit.run}
    /\ pc[c] \in HoldingPlace => ver[c] \in 1..Len(versions)
    /\ pc[c] \in {"registered", "gated"} => alias.candidate # 0

\* Only the command a bootstrap waits for is in the middle of something.
AloneInv == \A c \in Clients : Active(c) => boot \in ChildLabels /\ c = child

\* What the audit says of the split, of the evidence and of the registry.
AuditInv ==
    /\ audit.status \in AuditStatus
    /\ audit.status = "absent" => opened = {}
    /\ audit.status # "absent" => audit.run \in FinalRuns
    /\ opened \subseteq {audit.run}
    /\ saved \subseteq opened
    /\ audit.status \in Completed => alias.candidate # 0

Shapes ==
    /\ versions \in Seq(Version)
    /\ DOMAIN alias = {"candidate", "champion"}
    /\ DOMAIN pc = Clients /\ DOMAIN run = Clients /\ DOMAIN ver = Clients

BootInv ==
    /\ Shapes
    /\ AloneInv
    /\ AuditInv
    /\ \A c \in Clients : ChildInv(c)

\* Without registry faults an alias the bootstrap did not find is not there.
UnambiguousInv ==
    /\ boot = "reading_audit" => alias.candidate = 0
    /\ boot # "refused"

-----------------------------------------------------------------------------
(* What a step does to the rest.                                           *)

LEMMA BootstrapCommandsAreClients ==
    /\ FinalRuns \cup Recoverers \cup Promoters \subseteq Clients
    /\ FinalRuns \cap Recoverers = {} /\ FinalRuns \cap Promoters = {}
    /\ FinalRuns \subseteq Runs /\ NoRun \notin FinalRuns
BY RegistryAssumption, RecoverersAssumption, PromotersAssumption DEF Runs

LEMMA LengthIsNat == ASSUME Shapes PROVE Len(versions) \in Nat /\ DOMAIN versions = 1..Len(versions)
BY LenProperties DEF Shapes

\* The places of a command in the middle are no ends.
LEMMA WorkIsActive ==
    ASSUME NEW c, ~Active(c)
    PROVE  pc[c] \notin {"fitting"} \cup WorkingPlace
BY DEF Active, Ended, WorkingPlace, PastOpenPlace, HoldingPlace

(* A command c is the only one that moves, and the bootstrap waits for it: *)
(* what is left to show of a step is what it does to c and to the audit.   *)
Moves(c, label) ==
    /\ Goto(c, label)
    /\ \A d \in Clients \ {c} : run'[d] = run[d]
    /\ \A d \in Clients \ {c} : ~Active(d)
    /\ boot' \in ChildLabels /\ child' = c

LEMMA MovesKeeps ==
    ASSUME BootInv, NEW c \in Clients, NEW label, Moves(c, label),
           Shapes', AuditInv', ChildInv(c)'
    PROVE  BootInv'
<1>1. \A d \in Clients \ {c} : pc'[d] = pc[d] /\ ~Active(d)'
  BY DEF Moves, Goto, BootInv, Shapes, Active
<1>2. AloneInv'
  BY <1>1 DEF AloneInv, Moves
<1>3. ASSUME NEW d \in Clients \ {c} PROVE ChildInv(d)'
  <2>1. pc'[d] \notin {"fitting"} \cup WorkingPlace
    BY <1>1, <1>3, WorkIsActive DEF Moves
  <2>2. d \in FinalRuns => run'[d] = d
    BY <1>3 DEF BootInv, ChildInv, Moves
  <2> QED
    BY <2>1, <2>2 DEF ChildInv, WorkingPlace, PastOpenPlace, HoldingPlace
<1> QED
  BY <1>2, <1>3 DEF BootInv

\* A command that takes a step is the one the bootstrap waits for.
LEMMA StepOfChild ==
    ASSUME BootInv, NEW c \in Clients, Active(c)
    PROVE  /\ boot \in ChildLabels /\ c = child
           /\ \A d \in Clients \ {c} : ~Active(d)
BY DEF BootInv, AloneInv

\* Nothing is in the middle while the bootstrap itself decides.
LEMMA NoneActive ==
    ASSUME BootInv, boot \notin ChildLabels
    PROVE  \A d \in Clients : ~Active(d)
BY DEF BootInv, AloneInv

-----------------------------------------------------------------------------
(* The commands step by step.                                              *)

\* How the audit and the split may change.
AuditStep ==
    \/ UNCHANGED <<audit, opened>>
    \/ /\ audit.status = "absent" /\ opened = {}
       /\ audit'.status = "authorized_and_opened" /\ audit'.run \in FinalRuns
       /\ UNCHANGED opened
    \/ /\ audit.status = "authorized_and_opened" /\ opened = {}
       /\ opened' = {audit.run}
       /\ UNCHANGED audit
    \/ /\ audit.status = "authorized_and_opened" /\ opened = {audit.run}
       /\ audit'.status \in Completed /\ audit'.run = audit.run
       /\ UNCHANGED opened

LEMMA EvaluateKeeps ==
    ASSUME BootInv, NEW e \in FinalRuns, UNCHANGED bootVars,
           \/ AuthorizeTest(e) \/ OpenTest(e) \/ SaveEvidence(e) \/ StartRun(e) \/ LogModel(e)
           \/ EvaluateResolvesChampion(e) \/ EvaluateReadsChampion(e) \/ EvaluateCompletes(e)
    PROVE  BootInv' /\ AuditStep
<1> USE BootstrapCommandsAreClients
<1>1. Active(e)
  BY DEF Active, Ended, AuthorizeTest, OpenTest, SaveEvidence, StartRun, LogModel,
     EvaluateResolvesChampion, EvaluateReadsChampion, EvaluateCompletes
<1>2. boot' \in ChildLabels /\ child' = e /\ \A d \in Clients \ {e} : ~Active(d)
  BY <1>1, StepOfChild DEF bootVars
<1>3. ChildInv(e) /\ run[e] = e /\ AuditInv /\ Shapes
  BY DEF BootInv, ChildInv
<1> USE <1>3 DEF Shapes, AuditInv, ChildInv, AuditStep, Goto, Completed, AuditStatus, WorkingPlace,
        PastOpenPlace, HoldingPlace
<1>4. CASE AuthorizeTest(e)
  <2>1. Shapes' /\ AuditInv' /\ ChildInv(e)' /\ AuditStep
    BY <1>4 DEF AuthorizeTest
  <2>2. Moves(e, "authorized")
    BY <1>2, <1>4 DEF Moves, AuthorizeTest
  <2> QED
    BY <2>1, <2>2, MovesKeeps
<1>5. CASE OpenTest(e)
  <2>1. Shapes' /\ AuditInv' /\ ChildInv(e)' /\ AuditStep
    BY <1>5 DEF OpenTest
  <2>2. Moves(e, "evaluated")
    BY <1>2, <1>5 DEF Moves, OpenTest
  <2> QED
    BY <2>1, <2>2, MovesKeeps
<1>6. CASE SaveEvidence(e)
  <2>1. Shapes' /\ AuditInv' /\ ChildInv(e)' /\ AuditStep
    BY <1>6 DEF SaveEvidence
  <2>2. Moves(e, "saved")
    BY <1>2, <1>6 DEF Moves, SaveEvidence
  <2> QED
    BY <2>1, <2>2, MovesKeeps
<1>7. CASE StartRun(e)
  <2>1. Shapes' /\ AuditInv' /\ ChildInv(e)' /\ AuditStep
    BY <1>7 DEF StartRun
  <2>2. Moves(e, "logging")
    BY <1>2, <1>7 DEF Moves, StartRun
  <2> QED
    BY <2>1, <2>2, MovesKeeps
<1>8. CASE LogModel(e)
  <2>1. Shapes' /\ AuditInv' /\ ChildInv(e)' /\ AuditStep
    BY <1>8 DEF LogModel
  <2>2. Moves(e, "logged")
    BY <1>2, <1>8 DEF Moves, LogModel
  <2> QED
    BY <2>1, <2>2, MovesKeeps
<1>9. CASE EvaluateResolvesChampion(e)
  <2>1. Shapes' /\ AuditInv' /\ ChildInv(e)' /\ AuditStep
    BY <1>9 DEF EvaluateResolvesChampion, ResolveChampion, evaluationVars
  <2>2. Moves(e, "comparing")
    BY <1>2, <1>9 DEF Moves, EvaluateResolvesChampion, ResolveChampion
  <2> QED
    BY <2>1, <2>2, MovesKeeps
<1>10. CASE EvaluateReadsChampion(e)
  <2>1. PICK label \in {"register_find", "stopped"} : pc' = [pc EXCEPT ![e] = label]
    BY <1>10 DEF EvaluateReadsChampion
  <2>2. Shapes' /\ AuditInv' /\ ChildInv(e)' /\ AuditStep
    BY <1>10, <2>1 DEF EvaluateReadsChampion, evaluationVars
  <2>3. Moves(e, label)
    BY <1>2, <1>10, <2>1 DEF Moves, EvaluateReadsChampion
  <2> QED
    BY <2>2, <2>3, MovesKeeps
<1>11. CASE EvaluateCompletes(e)
  <2>1. Shapes' /\ AuditInv' /\ ChildInv(e)' /\ AuditStep
    BY <1>11 DEF EvaluateCompletes
  <2>2. Moves(e, "done")
    BY <1>2, <1>11 DEF Moves, EvaluateCompletes
  <2> QED
    BY <2>1, <2>2, MovesKeeps
<1> QED
  BY <1>4, <1>5, <1>6, <1>7, <1>8, <1>9, <1>10, <1>11

LEMMA RecoverKeeps ==
    ASSUME BootInv, NEW c \in Recoverers, UNCHANGED bootVars,
           \/ RecoverReadsEvidence(c) \/ RecoverResolvesChampion(c) \/ RecoverReadsChampion(c)
           \/ RecoverCompletes(c)
    PROVE  BootInv' /\ AuditStep
<1> USE BootstrapCommandsAreClients
<1>1. Active(c)
  BY DEF Active, Ended, RecoverReadsEvidence, RecoverResolvesChampion, RecoverReadsChampion,
     RecoverCompletes
<1>2. boot' \in ChildLabels /\ child' = c /\ \A d \in Clients \ {c} : ~Active(d)
  BY <1>1, StepOfChild DEF bootVars
<1>3. ChildInv(c) /\ AuditInv /\ Shapes
  BY DEF BootInv
<1> USE <1>3 DEF Shapes, AuditInv, ChildInv, AuditStep, Goto, Completed, AuditStatus, WorkingPlace,
        PastOpenPlace, HoldingPlace
<1>4. CASE RecoverReadsEvidence(c)
  <2>1. PICK label \in {"recovered", "stopped"} :
            /\ pc' = [pc EXCEPT ![c] = label]
            /\ label = "recovered" => run[c] \in saved
    BY <1>4 DEF RecoverReadsEvidence, EvidenceComplete, EvidenceOnDisk
  <2>2. Shapes' /\ AuditInv' /\ ChildInv(c)' /\ AuditStep
    BY <1>4, <2>1 DEF RecoverReadsEvidence, evaluationVars
  <2>3. Moves(c, label)
    BY <1>2, <1>4, <2>1 DEF Moves, RecoverReadsEvidence
  <2> QED
    BY <2>2, <2>3, MovesKeeps
<1>5. CASE RecoverResolvesChampion(c)
  <2>1. Shapes' /\ AuditInv' /\ ChildInv(c)' /\ AuditStep
    BY <1>5 DEF RecoverResolvesChampion, ResolveChampion, evaluationVars
  <2>2. Moves(c, "comparing")
    BY <1>2, <1>5 DEF Moves, RecoverResolvesChampion, ResolveChampion
  <2> QED
    BY <2>1, <2>2, MovesKeeps
<1>6. CASE RecoverReadsChampion(c)
  <2>1. PICK label \in {"register_find", "stopped"} : pc' = [pc EXCEPT ![c] = label]
    BY <1>6 DEF RecoverReadsChampion
  <2>2. Shapes' /\ AuditInv' /\ ChildInv(c)' /\ AuditStep
    BY <1>6, <2>1 DEF RecoverReadsChampion, evaluationVars
  <2>3. Moves(c, label)
    BY <1>2, <1>6, <2>1 DEF Moves, RecoverReadsChampion
  <2> QED
    BY <2>2, <2>3, MovesKeeps
<1>7. CASE RecoverCompletes(c)
  <2>1. Shapes' /\ AuditInv' /\ ChildInv(c)' /\ AuditStep
    BY <1>7 DEF RecoverCompletes
  <2>2. Moves(c, "done")
    BY <1>2, <1>7 DEF Moves, RecoverCompletes
  <2> QED
    BY <2>1, <2>2, MovesKeeps
<1> QED
  BY <1>4, <1>5, <1>6, <1>7

(* Registering and tagging, which evaluation and recovery share: the       *)
(* candidate alias is moved to a version that exists.                      *)
LEMMA RegisterKeeps ==
    ASSUME BootInv, NEW c \in FinalRuns \cup Recoverers, UNCHANGED <<bootVars, evaluationVars>>,
           RegisterCandidate(c) \/ EvaluateTagsGates(c) \/ RecoverTagsGates(c)
    PROVE  BootInv' /\ AuditStep
<1> USE BootstrapCommandsAreClients
<1>1. Active(c)
  BY DEF Active, Ended, RegisterCandidate, RegisterFind, RegisterCreate, RegisterAlias,
     EvaluateTagsGates, RecoverTagsGates
<1>2. boot' \in ChildLabels /\ child' = c /\ \A d \in Clients \ {c} : ~Active(d)
  BY <1>1, StepOfChild DEF bootVars
<1>3. ChildInv(c) /\ AuditInv /\ Shapes
  BY DEF BootInv
<1>4. UNCHANGED <<audit, opened, saved>> /\ AuditStep
  BY DEF evaluationVars, AuditStep
<1>5. Len(versions) \in Nat /\ DOMAIN versions = 1..Len(versions)
  BY <1>3, LengthIsNat
<1>6. CASE RegisterFind(c)
  <2>1. PICK label \in {"register_alias", "register_create"} :
            /\ Goto(c, label)
            /\ DOMAIN ver' = Clients
            /\ label = "register_alias" => ver'[c] \in 1..Len(versions)
    BY <1>3, <1>5, <1>6 DEF RegisterFind, FindVersion, VersionsOf, Shapes
  <2>2. Shapes' /\ AuditInv' /\ ChildInv(c)'
    BY <1>3, <1>4, <1>6, <2>1 DEF RegisterFind, Shapes, AuditInv, ChildInv, Goto, WorkingPlace,
       PastOpenPlace, HoldingPlace
  <2>3. Moves(c, label)
    BY <1>2, <1>6, <2>1 DEF Moves, RegisterFind
  <2> QED
    BY <1>4, <2>2, <2>3, MovesKeeps
<1>7. CASE RegisterCreate(c)
  <2>1. run[c] \in Runs
    BY <1>3, <1>7 DEF RegisterCreate, ChildInv, AuditInv, WorkingPlace, PastOpenPlace
  <2>2. versions' \in Seq(Version) /\ Len(versions') = Len(versions) + 1
    BY <1>3, <1>7, <2>1, CreateEffect DEF RegisterCreate, Shapes
  <2>3. ver'[c] \in 1..Len(versions') /\ DOMAIN ver' = Clients
    BY <1>3, <1>5, <1>7, <2>2 DEF RegisterCreate, Shapes
  <2>4. Shapes' /\ AuditInv' /\ ChildInv(c)'
    BY <1>3, <1>4, <1>7, <2>2, <2>3 DEF RegisterCreate, Shapes, AuditInv, ChildInv, Goto,
       WorkingPlace, PastOpenPlace, HoldingPlace
  <2>5. Moves(c, "register_alias")
    BY <1>2, <1>7 DEF Moves, RegisterCreate
  <2> QED
    BY <1>4, <2>4, <2>5, MovesKeeps
<1>8. CASE RegisterAlias(c)
  <2>1. alias'.candidate = ver[c] /\ DOMAIN alias' = {"candidate", "champion"} /\ ver[c] # 0
    BY <1>3, <1>5, <1>8 DEF RegisterAlias, SetAlias, Shapes, ChildInv, HoldingPlace
  <2>2. Shapes' /\ AuditInv' /\ ChildInv(c)'
    BY <1>3, <1>4, <1>8, <2>1 DEF RegisterAlias, Shapes, AuditInv, ChildInv, Goto,
       WorkingPlace, PastOpenPlace, HoldingPlace
  <2>3. Moves(c, "registered")
    BY <1>2, <1>8 DEF Moves, RegisterAlias
  <2> QED
    BY <1>4, <2>2, <2>3, MovesKeeps
<1>9. CASE EvaluateTagsGates(c) \/ RecoverTagsGates(c)
  <2>1. /\ pc[c] = "registered" /\ TagGates(c) /\ Goto(c, "gated")
        /\ UNCHANGED <<alias, run, ver, seen, stops>>
    BY <1>9 DEF EvaluateTagsGates, RecoverTagsGates
  <2>2. versions' \in Seq(Version) /\ Len(versions') = Len(versions)
    BY <1>3, <2>1, TagGatesEffect DEF Shapes, ChildInv, HoldingPlace
  <2>3. Shapes' /\ AuditInv' /\ ChildInv(c)'
    BY <1>3, <1>4, <2>1, <2>2 DEF Shapes, AuditInv, ChildInv, Goto,
       WorkingPlace, PastOpenPlace, HoldingPlace
  <2>4. Moves(c, "gated")
    BY <1>2, <2>1 DEF Moves
  <2> QED
    BY <1>4, <2>3, <2>4, MovesKeeps
<1> QED
  BY <1>6, <1>7, <1>8, <1>9 DEF RegisterCandidate

\* A promotion leaves the audit and the candidate alias alone.
LEMMA PromoteKeeps ==
    ASSUME BootInv, NEW c \in Promoters, UNCHANGED <<bootVars, evaluationVars>>, PromoteStep(c)
    PROVE  BootInv' /\ AuditStep
<1> USE BootstrapCommandsAreClients
<1> DEFINE places == {"refused", "candidate_resolved", "champion_resolved", "model_loaded",
                      "checked", "lineage_missing", "allowed", "moving", "moved", "tagged", "done"}
<1>1. Active(c)
  BY DEF Active, Ended, PromoteStep, PromoteResolvesCandidate, PromoteResolvesChampion,
     PromoteLoadsModel, PromoteReadsSignature, PromoteDecides, PromoteResolvesAgain,
     PromoteMovesChampion, PromoteTagsChampion, PromoteWritesAudit
<1>2. boot' \in ChildLabels /\ child' = c /\ \A d \in Clients \ {c} : ~Active(d)
  BY <1>1, StepOfChild DEF bootVars
<1>3. ChildInv(c) /\ AuditInv /\ Shapes
  BY DEF BootInv
<1>4. UNCHANGED <<audit, opened, saved>> /\ AuditStep
  BY DEF evaluationVars, AuditStep
<1>5. PICK label \in places : Goto(c, label)
  BY DEF PromoteStep, PromoteResolvesCandidate, PromoteResolvesChampion, ResolveChampion,
     PromoteLoadsModel, PromoteReadsSignature, PromoteDecides, PromoteResolvesAgain,
     PromoteMovesChampion, PromoteTagsChampion, PromoteWritesAudit
<1>6. UNCHANGED <<versions, run>>
  BY DEF PromoteStep, PromoteResolvesCandidate, PromoteResolvesChampion,
     PromoteLoadsModel, PromoteReadsSignature, PromoteDecides, PromoteResolvesAgain,
     PromoteMovesChampion, PromoteTagsChampion, PromoteWritesAudit
<1>7. DOMAIN ver' = Clients
  BY <1>3 DEF Shapes, PromoteStep, PromoteResolvesCandidate, PromoteResolvesChampion,
     PromoteLoadsModel, PromoteReadsSignature, PromoteDecides, PromoteResolvesAgain,
     PromoteMovesChampion, PromoteTagsChampion, PromoteWritesAudit
<1>8. alias'.candidate = alias.candidate /\ DOMAIN alias' = {"candidate", "champion"}
  BY <1>3 DEF Shapes, PromoteStep, PromoteResolvesCandidate, PromoteResolvesChampion,
     PromoteLoadsModel, PromoteReadsSignature, PromoteDecides, PromoteResolvesAgain,
     PromoteMovesChampion, SetAlias, PromoteTagsChampion, PromoteWritesAudit
<1>9. Shapes' /\ AuditInv' /\ ChildInv(c)'
  BY <1>3, <1>4, <1>5, <1>6, <1>7, <1>8 DEF Shapes, AuditInv, ChildInv, Goto,
     WorkingPlace, PastOpenPlace, HoldingPlace
<1>10. Moves(c, label)
  BY <1>2, <1>5, <1>6 DEF Moves
<1> QED
  BY <1>4, <1>9, <1>10, MovesKeeps

LEMMA BootstrapStopKeeps ==
    ASSUME BootInv, NEW c \in Clients, Stop(c), UNCHANGED <<bootVars, evaluationVars>>
    PROVE  BootInv' /\ AuditStep
<1>1. boot' \in ChildLabels /\ child' = c /\ \A d \in Clients \ {c} : ~Active(d)
  BY StepOfChild DEF Stop, bootVars
<1>2. Shapes' /\ AuditInv' /\ ChildInv(c)' /\ AuditStep
  BY DEF Stop, BootInv, Shapes, AuditInv, ChildInv, AuditStep, Goto, evaluationVars,
     WorkingPlace, PastOpenPlace, HoldingPlace
<1>3. Moves(c, "stopped")
  BY <1>1 DEF Moves, Stop
<1> QED
  BY <1>2, <1>3, MovesKeeps

-----------------------------------------------------------------------------
(* The bootstrap's own steps.                                              *)

\* A decision changes nothing but the bootstrap's own place.
LEMMA GotoKeeps ==
    ASSUME BootInv, NEW label, BootGoto(label), \A d \in Clients : ~Active(d)
    PROVE  BootInv' /\ AuditStep
<1>1. AloneInv'
  BY DEF AloneInv, BootGoto, Active, registryVars
<1> QED
  BY <1>1 DEF BootInv, BootGoto, Shapes, AuditInv, ChildInv, AuditStep, registryVars, evaluationVars

\* What a bootstrap starts becomes the command it waits for.
LEMMA StartsKeeps ==
    ASSUME BootInv, NEW c \in Clients,
           \/ c \in FinalRuns /\ BootEvaluates(c)
           \/ c \in Recoverers /\ BootRecovers(c)
           \/ c \in Promoters /\ BootPromotes(c)
    PROVE  BootInv' /\ AuditStep
<1> USE BootstrapCommandsAreClients
<1>1. ChildInv(c) /\ AuditInv /\ Shapes
  BY DEF BootInv
<1>2. /\ boot \notin ChildLabels /\ boot' \in ChildLabels /\ child' = c
      /\ UNCHANGED <<audit, opened, saved>>
  BY DEF BootEvaluates, EvaluateStart, BootRecovers, RecoverStart, BootPromotes, ChildLabels,
     evaluationVars
<1>3. \A d \in Clients : ~Active(d)
  BY <1>2, NoneActive
<1>4. AuditStep
  BY <1>2 DEF AuditStep
<1>5. CASE c \in FinalRuns /\ BootEvaluates(c)
  <2>1. PICK label \in {"refused", "fitting"} :
            Goto(c, label) /\ (label = "fitting" => audit.status = "absent")
    BY <1>5 DEF BootEvaluates, EvaluateStart, AuditExists
  <2>2. Shapes' /\ AuditInv' /\ ChildInv(c)'
    BY <1>1, <1>2, <1>5, <2>1 DEF BootEvaluates, EvaluateStart, Shapes, AuditInv, ChildInv, Goto,
       WorkingPlace, PastOpenPlace, HoldingPlace
  <2>3. Moves(c, label)
    BY <1>2, <1>3, <1>5, <2>1 DEF Moves, BootEvaluates, EvaluateStart
  <2> QED
    BY <1>4, <2>2, <2>3, MovesKeeps
<1>6. CASE c \in Recoverers /\ BootRecovers(c)
  <2>1. PICK label \in {"refused", "recovering"} :
            /\ Goto(c, label)
            /\ IF label = "recovering"
               THEN audit.status = "authorized_and_opened" /\ run' = [run EXCEPT ![c] = audit.run]
               ELSE UNCHANGED run
    BY <1>6 DEF BootRecovers, RecoverStart, Recoverable
  <2>2. Shapes' /\ AuditInv' /\ ChildInv(c)'
    BY <1>1, <1>2, <1>6, <2>1 DEF BootRecovers, RecoverStart, Shapes, AuditInv, ChildInv, Goto,
       WorkingPlace, PastOpenPlace, HoldingPlace
  <2>3. Moves(c, label)
    BY <1>1, <1>2, <1>3, <2>1 DEF Moves, Shapes
  <2> QED
    BY <1>4, <2>2, <2>3, MovesKeeps
<1>7. CASE c \in Promoters /\ BootPromotes(c)
  <2>1. PICK label \in {"refused", "promoting"} : Goto(c, label)
    BY <1>7 DEF BootPromotes, PromoteStart
  <2>2. Shapes' /\ AuditInv' /\ ChildInv(c)'
    BY <1>1, <1>2, <1>7, <2>1 DEF BootPromotes, PromoteStart, Shapes, AuditInv, ChildInv, Goto,
       WorkingPlace, PastOpenPlace, HoldingPlace
  <2>3. Moves(c, label)
    BY <1>2, <1>3, <1>7, <2>1 DEF Moves, BootPromotes, PromoteStart
  <2> QED
    BY <1>4, <2>2, <2>3, MovesKeeps
<1> QED
  BY <1>5, <1>6, <1>7

\* A command that ended leaves nothing in the middle, and the bootstrap decides again.
LEMMA DecidesKeeps ==
    ASSUME BootInv,
           \/ BootStart \/ BootResolvesChampion \/ BootResolvesCandidate \/ BootReadsAudit
           \/ BootPreparesData \/ BootSeesChildEnd
    PROVE  BootInv' /\ AuditStep
<1>1. \E label : BootGoto(label)
  BY DEF BootStart, BootResolvesChampion, BootResolvesCandidate, BootReadsAudit, BootPreparesData,
     BootSeesChildEnd
<1>2. CASE BootSeesChildEnd
  BY <1>1, <1>2, GotoKeeps DEF BootSeesChildEnd, BootInv, AloneInv
<1>3. CASE ~BootSeesChildEnd
  <2>1. boot \notin ChildLabels
    BY <1>3 DEF BootStart, BootResolvesChampion, BootResolvesCandidate, BootReadsAudit,
       BootPreparesData, BootEnded, ChildLabels
  <2> QED
    BY <1>1, <2>1, NoneActive, GotoKeeps
<1> QED
  BY <1>2, <1>3

LEMMA DiesKeeps == ASSUME BootInv, BootDies PROVE BootInv' /\ AuditStep
<1>1. AloneInv'
  BY NoneActive DEF BootDies, AloneInv, Active
<1> QED
  BY <1>1 DEF BootInv, BootDies, Shapes, AuditInv, ChildInv, AuditStep, evaluationVars

-----------------------------------------------------------------------------
(* The invariant and what it gives.                                        *)

LEMMA InitBootInv == BootstrapInit => BootInv
<1> SUFFICES ASSUME BootstrapInit PROVE BootInv
  OBVIOUS
<1>1. versions \in Seq(Version)
  <2>1. PICK prior \in {<<>>} \cup {<<[run |-> r, gates |-> "true"]>> : r \in PriorRuns} :
            versions = prior
    BY DEF BootstrapInit, RegistryInit
  <2>2. CASE prior = <<>>
    BY <2>1, <2>2, EmptySeq
  <2>3. ASSUME NEW r \in PriorRuns, prior = <<[run |-> r, gates |-> "true"]>>
        PROVE  versions \in Seq(Version)
    <3>1. [run |-> r, gates |-> "true"] \in Version
      BY DEF Version, Runs, GateTag
    <3> QED
      BY <2>1, <2>3, <3>1
  <2> QED
    BY <2>1, <2>2, <2>3
<1>2. Shapes
  BY <1>1 DEF BootstrapInit, RegistryInit, Shapes
<1>3. \A c \in Clients : pc[c] = "idle"
  BY DEF BootstrapInit, RegistryInit
<1>4. AloneInv
  BY <1>3 DEF AloneInv, Active, Ended
<1>5. AuditInv
  BY DEF BootstrapInit, EvaluationInit, AuditInv, AuditStatus, Completed
<1>6. \A c \in Clients : c \in FinalRuns => run[c] = c
  BY DEF BootstrapInit, RegistryInit
<1> QED
  BY <1>2, <1>3, <1>4, <1>5, <1>6
     DEF BootInv, ChildInv, WorkingPlace, PastOpenPlace, HoldingPlace

LEMMA NextBootInv ==
    ASSUME BootInv, [BootstrapNext]_bootstrapVars
    PROVE  BootInv' /\ AuditStep
<1> USE BootstrapCommandsAreClients
<1>1. CASE BootStart \/ BootStep
  <2>1. CASE \/ \E e \in FinalRuns : BootEvaluates(e)
             \/ \E c \in Recoverers : BootRecovers(c)
             \/ \E c \in Promoters : BootPromotes(c)
    BY <2>1, StartsKeeps
  <2> QED
    BY <1>1, <2>1, DecidesKeeps DEF BootStep
<1>2. ASSUME ChildStep PROVE BootInv' /\ AuditStep
  <2>1. UNCHANGED bootVars
    BY <1>2 DEF ChildStep
  <2>2. ASSUME NEW e \in FinalRuns, EvaluateStep(e) PROVE BootInv' /\ AuditStep
    <3>1. CASE RegisterCandidate(e) /\ UNCHANGED evaluationVars
      BY <2>1, <3>1, RegisterKeeps
    <3>2. CASE EvaluateTagsGates(e)
      BY <2>1, <3>2, RegisterKeeps DEF EvaluateTagsGates
    <3> QED
      BY <2>1, <2>2, <3>1, <3>2, EvaluateKeeps DEF EvaluateStep
  <2>3. ASSUME NEW c \in Recoverers, RecoverStep(c) PROVE BootInv' /\ AuditStep
    <3>1. CASE RegisterCandidate(c) /\ UNCHANGED evaluationVars
      BY <2>1, <3>1, RegisterKeeps
    <3>2. CASE RecoverTagsGates(c)
      BY <2>1, <3>2, RegisterKeeps DEF RecoverTagsGates
    <3> QED
      BY <2>1, <2>3, <3>1, <3>2, RecoverKeeps DEF RecoverStep
  <2>4. ASSUME NEW c \in Promoters, PromoteStep(c), UNCHANGED evaluationVars
        PROVE  BootInv' /\ AuditStep
    BY <2>1, <2>4, PromoteKeeps
  <2> QED
    BY <1>2, <2>2, <2>3, <2>4 DEF ChildStep
<1>3. CASE ChildDies
  BY <1>3, BootstrapStopKeeps DEF ChildDies
<1>4. CASE BootDies
  BY <1>4, DiesKeeps
<1>5. CASE UNCHANGED bootstrapVars
  BY <1>5 DEF bootstrapVars, registryVars, evaluationVars, bootVars, BootInv, Shapes, AloneInv,
     Active, AuditInv, ChildInv, AuditStep
<1> QED
  BY <1>1, <1>2, <1>3, <1>4, <1>5 DEF BootstrapNext

(* A bootstrap and its commands are never two at work: at any time at most *)
(* the command it waits for is in the middle of something.                 *)
THEOREM BootstrapInvariant == BootstrapSpec => []BootInv
BY InitBootInv, NextBootInv, PTL DEF BootstrapSpec

(* The test split is read by one evaluation, however often the bootstrap   *)
(* is killed and run again, with no assumption on how it is operated.      *)
THEOREM BootstrapOpensTheTestOnce == BootstrapSpec => []BootstrapOpensTestOnce
<1>1. BootInv => BootstrapOpensTestOnce
  BY DEF BootInv, AuditInv, BootstrapOpensTestOnce, SealedTestOpenedOnce
<1> QED
  BY <1>1, BootstrapInvariant, PTL

(* The audit moves forward only: no bootstrap authorizes a second          *)
(* evaluation or touches a completed record.                               *)
THEOREM BootstrapAuditMovesForward == BootstrapSpec => AuditMovesForward
<1>1. AuditStep => [audit' # audit =>
          \/ audit.status = "absent" /\ audit'.status = "authorized_and_opened"
          \/ /\ audit.status = "authorized_and_opened" /\ audit'.status \in Completed
             /\ audit'.run = audit.run]_vars
  BY DEF AuditStep
<1> QED
  BY <1>1, NextBootInv, BootstrapInvariant, PTL DEF BootstrapSpec, AuditMovesForward

-----------------------------------------------------------------------------
(* Refinement: under the bootstrap the commands implement the sealed test, *)
(* which on their own they do only for operators that take turns.          *)

LEMMA BootstrapRefinesInit == BootstrapInit => Sealed!Init
BY DEF BootstrapInit, EvaluationInit, Sealed!Init, Phase, Completed

LEMMA RefinesStep ==
    ASSUME BootInv, AuditStep
    PROVE  [Sealed!Next]_Sealed!vars
<1>1. CASE UNCHANGED <<audit, opened>>
  BY <1>1 DEF Sealed!vars, Phase
<1>2. CASE /\ audit.status = "absent"
           /\ audit'.status = "authorized_and_opened" /\ audit'.run \in FinalRuns
           /\ UNCHANGED opened
  BY <1>2 DEF Sealed!Next, Sealed!Authorize, Phase, Completed
<1>3. CASE /\ audit.status = "authorized_and_opened" /\ opened = {}
           /\ opened' = {audit.run}
           /\ UNCHANGED audit
  BY <1>3 DEF Sealed!Next, Sealed!Open, Phase, Completed
<1>4. CASE /\ audit.status = "authorized_and_opened" /\ opened = {audit.run}
           /\ audit'.status \in Completed /\ audit'.run = audit.run
           /\ UNCHANGED opened
  BY <1>4 DEF Sealed!Next, Sealed!Complete, Phase, Completed
<1> QED
  BY <1>1, <1>2, <1>3, <1>4 DEF AuditStep

(* The bootstrap implements the sealed-test protocol whatever it and its   *)
(* commands die of.                                                        *)
THEOREM BootstrapImplementsSealedTest == BootstrapSpec => SealedTestProtocol
<1>1. BootInv /\ [BootstrapNext]_bootstrapVars => [Sealed!Next]_Sealed!vars
  BY NextBootInv, RefinesStep
<1> QED
  BY <1>1, BootstrapRefinesInit, BootstrapInvariant, PTL DEF BootstrapSpec, SealedTestProtocol, Sealed!Spec

-----------------------------------------------------------------------------
(* The aliases and the audit.                                              *)

LEMMA NextUnambiguousInv ==
    ASSUME ~Flaky, BootInv, UnambiguousInv, [BootstrapNext]_bootstrapVars
    PROVE  UnambiguousInv'
<1>1. CASE BootResolvesCandidate
  <2>1. PICK v \in {alias.candidate} :
            BootGoto(CASE v # 0 /\ PromoteChampion  -> "promote_existing"
                       [] v # 0 /\ ~PromoteChampion -> "completed"
                       [] v = 0                     -> "reading_audit")
    BY <1>1 DEF BootResolvesCandidate, Resolved
  <2>2. UNCHANGED alias
    BY <2>1 DEF BootGoto, registryVars
  <2> QED
    BY <2>1, <2>2, PromoteChampionAssumption DEF UnambiguousInv, BootGoto
<1>2. CASE BootReadsAudit
  <2>1. audit.status \notin Completed
    BY <1>2 DEF BootReadsAudit, UnambiguousInv, BootInv, AuditInv
  <2>2. AuditDecision \in {"preparing", "recover"}
    BY <2>1 DEF AuditDecision, BootInv, AuditInv, AuditStatus, Completed
  <2> QED
    BY <1>2, <2>2 DEF BootReadsAudit, BootGoto, UnambiguousInv
<1>3. CASE BootSeesChildEnd
  <2>1. AfterChild \notin {"reading_audit", "refused"}
    BY <1>3 DEF BootSeesChildEnd, ChildLabels, AfterChild
  <2> QED
    BY <1>3, <2>1 DEF BootSeesChildEnd, BootGoto, UnambiguousInv
<1>4. CASE BootStart \/ BootResolvesChampion \/ BootPreparesData \/ BootDies
  <2>1. boot' \notin {"reading_audit", "refused"}
    BY <1>4 DEF BootStart, BootResolvesChampion, BootPreparesData, BootDies, BootGoto
  <2> QED
    BY <2>1 DEF UnambiguousInv
<1>5. CASE \/ \E e \in FinalRuns : BootEvaluates(e)
           \/ \E c \in Recoverers : BootRecovers(c)
           \/ \E c \in Promoters : BootPromotes(c)
  <2>1. boot' \notin {"reading_audit", "refused"}
    BY <1>5 DEF BootEvaluates, BootRecovers, BootPromotes
  <2> QED
    BY <2>1 DEF UnambiguousInv
<1>6. CASE ChildStep \/ ChildDies
  <2>1. \E c \in Clients : Active(c)
    BY <1>6, BootstrapCommandsAreClients DEF ChildStep, ChildDies, Stop, Active, Ended,
       EvaluateStep, AuthorizeTest, OpenTest, SaveEvidence, StartRun, LogModel,
       EvaluateResolvesChampion, EvaluateReadsChampion, EvaluateTagsGates, EvaluateCompletes,
       RecoverStep, RecoverReadsEvidence, RecoverResolvesChampion, RecoverReadsChampion,
       RecoverTagsGates, RecoverCompletes, RegisterCandidate, RegisterFind, RegisterCreate,
       RegisterAlias, PromoteStep, PromoteResolvesCandidate, PromoteResolvesChampion,
       PromoteLoadsModel, PromoteReadsSignature, PromoteDecides, PromoteResolvesAgain,
       PromoteMovesChampion, PromoteTagsChampion, PromoteWritesAudit
  <2>2. boot \in ChildLabels /\ boot' = boot
    BY <1>6, <2>1 DEF BootInv, AloneInv, ChildStep, ChildDies, bootVars
  <2> QED
    BY <2>2 DEF UnambiguousInv, ChildLabels
<1>7. CASE UNCHANGED bootstrapVars
  BY <1>7 DEF bootstrapVars, registryVars, bootVars, UnambiguousInv
<1> QED
  BY <1>1, <1>2, <1>3, <1>4, <1>5, <1>6, <1>7 DEF BootstrapNext, BootStep

(* A completed audit always comes with a candidate alias: without registry *)
(* faults no bootstrap ends in BootstrapError, so running it again is      *)
(* always a way forward.                                                   *)
THEOREM BootstrapIsNeverAmbiguous ==
    ASSUME ~Flaky
    PROVE  BootstrapSpec => []BootstrapNeverAmbiguous
<1>1. BootstrapInit => UnambiguousInv
  BY DEF BootstrapInit, UnambiguousInv
<1>2. UnambiguousInv => BootstrapNeverAmbiguous
  BY DEF UnambiguousInv, BootstrapNeverAmbiguous
<1> QED
  BY <1>1, <1>2, NextUnambiguousInv, BootstrapInvariant, PTL DEF BootstrapSpec

=============================================================================
