----------------------- MODULE FinalEvaluation_proofs -----------------------
(***************************************************************************)
(* Type correctness and safety of the final evaluation and its recovery,   *)
(* for every set of runs, recoverers, evidence and bounds.                 *)
(*                                                                         *)
(* EvaluationInv is inductive whatever runs concurrently.  Its per-command *)
(* part says what has already happened at each point of a command; its     *)
(* shared part is what readers of the audit and of the registry rely on.   *)
(***************************************************************************)
EXTENDS FinalEvaluation, SequenceTheorems, TLAPS

-----------------------------------------------------------------------------
(* What the registry's own steps do to the versions.  The components that  *)
(* call register_candidate use these facts in their inductive invariants.  *)

(* The gate tag a command writes is "true" or "false", on the version it   *)
(* handles; nothing else about any version changes.                        *)
LEMMA TagGatesEffect ==
    ASSUME NEW c, versions \in Seq(Version), ver[c] \in 1..Len(versions), TagGates(c)
    PROVE  /\ versions' \in Seq(Version)
           /\ Len(versions') = Len(versions)
           /\ \A v \in 1..Len(versions) : versions'[v].run = versions[v].run
           /\ versions'[ver[c]].gates \in {"true", "false"}
           /\ \A v \in 1..Len(versions) : v # ver[c] => versions'[v] = versions[v]
<1> DEFINE g == IF Allowed(Evidence[run[c]], ChampionMacro(c)) THEN "true" ELSE "false"
           old == versions[ver[c]]
           new == [old EXCEPT !.gates = g]
<1>1. old \in Version
  BY ElementOfSeq
<1>2. new \in Version /\ new.run = old.run /\ new.gates = g
  BY <1>1 DEF Version, GateTag
<1>3. versions' = [versions EXCEPT ![ver[c]] = new]
  BY DEF TagGates
<1>4. /\ versions' \in Seq(Version)
      /\ Len(versions') = Len(versions)
      /\ \A v \in 1..Len(versions) : versions'[v] = IF v = ver[c] THEN new ELSE versions[v]
  <2> HIDE DEF new
  <2> QED
    BY <1>2, <1>3, ExceptSeq
<1>5. g \in {"true", "false"}
  OBVIOUS
<1> HIDE DEF new, g
<1> QED
  BY <1>2, <1>4, <1>5

(* Creating a version adds one of the command's run and no gate tag, and   *)
(* leaves the others as they are.                                          *)
LEMMA CreateEffect ==
    ASSUME NEW r \in Runs, versions \in Seq(Version),
           versions' = Append(versions, [run |-> r, gates |-> "unset"])
    PROVE  /\ versions' \in Seq(Version)
           /\ Len(versions') = Len(versions) + 1
           /\ \A v \in 1..Len(versions) : versions'[v] = versions[v]
           /\ versions'[Len(versions) + 1] = [run |-> r, gates |-> "unset"]
<1>1. [run |-> r, gates |-> "unset"] \in Version
  BY DEF Version, GateTag
<1> QED
  BY <1>1, AppendProperties

(* A resolved champion is a version that exists, or none.                  *)
LEMMA ResolveEffect ==
    ASSUME RegistryTypeOK, NEW c \in Clients, NEW next, ResolveChampion(c, next)
    PROVE  seen' \in [Clients -> 0..Len(versions)]
<1>1. Len(versions) \in Nat
  BY LenProperties DEF RegistryTypeOK
<1>2. alias.champion \in 0..Len(versions) /\ 0 \in 0..Len(versions)
  BY <1>1 DEF RegistryTypeOK
<1> QED
  BY <1>2 DEF ResolveChampion, RegistryTypeOK

(* A found version exists and is of the command's run.                     *)
LEMMA FindEffect ==
    ASSUME RegistryTypeOK, NEW c \in Clients, NEW found, NEW missing,
           FindVersion(c, found, missing)
    PROVE  /\ ver' \in [Clients -> 0..Len(versions)]
           /\ \/ /\ pc' = [pc EXCEPT ![c] = found]
                 /\ ver'[c] \in 1..Len(versions)
                 /\ versions[ver'[c]].run = run[c]
              \/ pc' = [pc EXCEPT ![c] = missing]
           /\ \A d \in Clients \ {c} : ver'[d] = ver[d]
<1>1. Len(versions) \in Nat /\ DOMAIN versions = 1..Len(versions)
  BY LenProperties DEF RegistryTypeOK
<1>2. CASE \E v \in VersionsOf(run[c]) :
              ver' = [ver EXCEPT ![c] = v] /\ Goto(c, found)
  BY <1>1, <1>2 DEF VersionsOf, Goto, RegistryTypeOK
<1>3. CASE ver' = [ver EXCEPT ![c] = 0] /\ Goto(c, missing)
  BY <1>1, <1>3 DEF Goto, RegistryTypeOK
<1> QED
  BY <1>2, <1>3 DEF FindVersion

\* Where an evaluation is, by what it has already done.
PastRegister == {"register_alias", "registered", "gated"}
PastLog == {"logged", "comparing", "register_find", "register_create"} \cup PastRegister
PastSave == {"saved", "logging"} \cup PastLog
PastOpen == {"evaluated"} \cup PastSave
BeforeLog == {"idle", "fitting", "authorized", "evaluated", "saved", "refused"}

\* A command that holds a version holds one of its own run.
HandleInv(c) ==
    /\ pc[c] \in PastRegister =>
           ver[c] \in 1..Len(versions) /\ versions[ver[c]].run = run[c]
    /\ pc[c] = "gated" => versions[ver[c]].gates # "unset"

EvaluatorInv(e) ==
    /\ run[e] = e
    /\ pc[e] = "authorized" => audit.status # "absent"
    /\ pc[e] \in PastOpen => e \in opened
    /\ pc[e] \in PastSave => e \in saved
    /\ pc[e] \in PastLog => logged[e] = "ready"
    /\ pc[e] \in BeforeLog => logged[e] # "ready"

RecovererInv(c) ==
    /\ Active(c) => run[c] \in FinalRuns
    /\ pc[c] \in {"recovered"} \cup PastLog => EvidenceOnDisk(run[c])

CommandInv(c) ==
    /\ HandleInv(c)
    /\ c \in FinalRuns => EvaluatorInv(c)
    /\ c \in Recoverers => RecovererInv(c)

SharedInv ==
    /\ audit.status # "absent" => audit.run \in FinalRuns
    /\ saved \subseteq opened
    /\ OpenedOnlyUnderAudit
    /\ CompletedAuditNamesGatedVersion
    /\ RegisteredWasEvaluated

EvaluationInv ==
    /\ TypeOK
    /\ \A c \in FinalRuns \cup Recoverers : CommandInv(c)
    /\ SharedInv

\* What no step undoes.
Grows ==
    /\ versions' \in Seq(Version)
    /\ Len(versions) <= Len(versions')
    /\ \A v \in 1..Len(versions) :
           /\ versions'[v].run = versions[v].run
           /\ versions[v].gates # "unset" => versions'[v].gates # "unset"
    /\ opened \subseteq opened'
    /\ saved \subseteq saved'
    /\ \A e \in FinalRuns : logged[e] = "ready" => logged'[e] = "ready"
    /\ audit.status # "absent" => audit'.status # "absent"

Commands == FinalRuns \cup Recoverers

\* The locals of a command that does not move.
Stays(d) == pc'[d] = pc[d] /\ run'[d] = run[d] /\ ver'[d] = ver[d]

LEMMA CommandsAreClients == Commands \subseteq Clients /\ FinalRuns \cap Recoverers = {}
BY RegistryAssumption, RecoverersAssumption DEF Commands

(* A command that does not move keeps its part of the invariant when the   *)
(* shared state only grows and its MLflow run is not restarted.            *)
LEMMA OthersKeepCommandInv ==
    ASSUME TypeOK, NEW d \in Commands, CommandInv(d), Grows, Stays(d),
           d \in FinalRuns => logged'[d] = logged[d]
    PROVE  CommandInv(d)'
<1>1. d \in Clients
  BY CommandsAreClients
<1>2. HandleInv(d)'
  <2>1. ASSUME pc'[d] \in PastRegister
        PROVE  ver'[d] \in 1..Len(versions') /\ versions'[ver'[d]].run = run'[d]
    BY <1>1, <2>1, LenProperties DEF CommandInv, HandleInv, Grows, Stays, TypeOK, RegistryTypeOK
  <2>2. ASSUME pc'[d] = "gated" PROVE versions'[ver'[d]].gates # "unset"
    BY <1>1, <2>2, LenProperties
       DEF CommandInv, HandleInv, PastRegister, Grows, Stays, TypeOK, RegistryTypeOK
  <2> QED
    BY <2>1, <2>2 DEF HandleInv
<1>3. d \in FinalRuns => EvaluatorInv(d)'
  BY DEF CommandInv, EvaluatorInv, Grows, Stays
<1>4. d \in Recoverers => RecovererInv(d)'
  <2>1. ASSUME d \in Recoverers, Active(d)' PROVE Active(d) /\ run'[d] \in FinalRuns
    BY <2>1 DEF CommandInv, RecovererInv, Stays, Active
  <2>2. ASSUME d \in Recoverers, pc'[d] \in {"recovered"} \cup PastLog
        PROVE  EvidenceOnDisk(run[d]) /\ run[d] \in FinalRuns
    BY <2>2 DEF CommandInv, RecovererInv, Stays, Active, Ended, PastLog, PastRegister
  <2> QED
    BY <2>1, <2>2 DEF RecovererInv, EvidenceOnDisk, Grows, Stays
<1> QED
  BY <1>2, <1>3, <1>4 DEF CommandInv

-----------------------------------------------------------------------------
(* One lemma per action: everything EvaluationInv needs of that step.      *)

Keeps(c) ==
    /\ TypeOK'
    /\ Grows
    /\ CommandInv(c)'
    /\ SharedInv'
    /\ \A d \in Commands \ {c} :
           Stays(d) /\ (d \in FinalRuns => logged'[d] = logged[d])

LEMMA KeepsIsEnough ==
    ASSUME EvaluationInv, NEW c \in Commands, Keeps(c)
    PROVE  EvaluationInv'
<1>1. \A d \in Commands \ {c} : CommandInv(d)'
  BY OthersKeepCommandInv DEF EvaluationInv, Keeps, Commands
<1> QED
  BY <1>1 DEF EvaluationInv, Keeps, Commands

\* A command in the middle works on the run of a final evaluation.
LEMMA ActiveRun ==
    ASSUME EvaluationInv, NEW c \in Commands, Active(c)
    PROVE  run[c] \in FinalRuns
BY DEF EvaluationInv, Commands, CommandInv, EvaluatorInv, RecovererInv

\* Once its model is logged, the evidence of a command's run is complete.
LEMMA LoggedEvidence ==
    ASSUME EvaluationInv, NEW c \in Commands, pc[c] \in PastLog
    PROVE  run[c] \in FinalRuns /\ run[c] \in opened /\ EvidenceOnDisk(run[c])
<1>1. Active(c)
  BY DEF Active, Ended, PastLog, PastRegister
<1>2. EvidenceOnDisk(run[c])
  BY DEF EvaluationInv, Commands, CommandInv, EvaluatorInv, RecovererInv,
         EvidenceOnDisk, PastSave
<1> QED
  BY <1>1, <1>2, ActiveRun DEF EvaluationInv, SharedInv, EvidenceOnDisk

(* Steps that only move a command on, or change what it remembers of the   *)
(* champion: the shared state stays as it is.                              *)
LEMMA QuietStep ==
    ASSUME EvaluationInv, NEW c \in Commands, TypeOK', CommandInv(c)',
           UNCHANGED <<versions, audit, opened, saved, logged>>,
           \A d \in Commands \ {c} : Stays(d)
    PROVE  EvaluationInv'
<1>1. Grows
  BY DEF Grows, EvaluationInv, TypeOK, RegistryTypeOK
<1>2. SharedInv'
  BY DEF EvaluationInv, SharedInv, OpenedOnlyUnderAudit, CompletedAuditNamesGatedVersion,
         RegisteredWasEvaluated, EvidenceOnDisk
<1> QED
  BY <1>1, <1>2, KeepsIsEnough DEF Keeps

LEMMA EvaluateStartKeeps ==
    ASSUME EvaluationInv, NEW e \in FinalRuns, EvaluateStart(e)
    PROVE  EvaluationInv'
<1> USE CommandsAreClients DEF Commands
<1>1. TypeOK'
  BY DEF EvaluationInv, EvaluateStart, AuditExists, TypeOK, RegistryTypeOK, PcLabel, Ended, Goto, registryVars, evaluationVars, AuditStatus, Completed
<1>2. CommandInv(e)'
  BY DEF EvaluationInv, EvaluateStart, AuditExists, TypeOK, RegistryTypeOK, SharedInv, CommandInv, HandleInv, EvaluatorInv, RecovererInv, PastRegister, PastLog, PastSave, PastOpen, BeforeLog, EvidenceOnDisk, Active, Ended, Goto, evaluationVars
<1>3. \A d \in Commands \ {e} : Stays(d)
  BY DEF EvaluationInv, EvaluateStart, AuditExists, Stays, Goto, TypeOK, RegistryTypeOK
<1> QED
  BY <1>1, <1>2, <1>3, QuietStep DEF EvaluateStart, AuditExists, evaluationVars

LEMMA AuthorizeTestKeeps ==
    ASSUME EvaluationInv, NEW e \in FinalRuns, AuthorizeTest(e)
    PROVE  EvaluationInv'
<1> USE CommandsAreClients DEF Commands
<1>1. TypeOK'
  BY DEF EvaluationInv, AuthorizeTest, TypeOK, RegistryTypeOK, PcLabel, Ended, Goto, registryVars, evaluationVars, AuditStatus, Completed
<1>2. Grows
  BY DEF EvaluationInv, AuthorizeTest, Grows, CommandInv, HandleInv, EvaluatorInv, RecovererInv, PastRegister, PastLog, PastSave, PastOpen, BeforeLog, EvidenceOnDisk, Active, Ended, Goto, evaluationVars, TypeOK, RegistryTypeOK
<1>3. CommandInv(e)'
  BY DEF EvaluationInv, AuthorizeTest, TypeOK, RegistryTypeOK, SharedInv, CommandInv, HandleInv, EvaluatorInv, RecovererInv, PastRegister, PastLog, PastSave, PastOpen, BeforeLog, EvidenceOnDisk, Active, Ended, Goto, evaluationVars
<1>4. SharedInv'
  BY DEF EvaluationInv, AuthorizeTest, TypeOK, RegistryTypeOK, SharedInv, OpenedOnlyUnderAudit,
         CompletedAuditNamesGatedVersion, RegisteredWasEvaluated, Completed, CommandInv, HandleInv, EvaluatorInv, RecovererInv, PastRegister, PastLog, PastSave, PastOpen, BeforeLog, EvidenceOnDisk, Active, Ended, Goto, evaluationVars
<1>5. \A d \in Commands \ {e} : Stays(d) /\ (d \in FinalRuns => logged'[d] = logged[d])
  BY DEF EvaluationInv, AuthorizeTest, Stays, Goto, TypeOK, RegistryTypeOK
<1> QED
  BY <1>1, <1>2, <1>3, <1>4, <1>5, KeepsIsEnough DEF Keeps

LEMMA OpenTestKeeps ==
    ASSUME EvaluationInv, NEW e \in FinalRuns, OpenTest(e)
    PROVE  EvaluationInv'
<1> USE CommandsAreClients DEF Commands
<1>1. TypeOK'
  BY DEF EvaluationInv, OpenTest, TypeOK, RegistryTypeOK, PcLabel, Ended, Goto, registryVars, evaluationVars, AuditStatus, Completed
<1>2. Grows
  BY DEF EvaluationInv, OpenTest, Grows, CommandInv, HandleInv, EvaluatorInv, RecovererInv, PastRegister, PastLog, PastSave, PastOpen, BeforeLog, EvidenceOnDisk, Active, Ended, Goto, evaluationVars, TypeOK, RegistryTypeOK
<1>3. CommandInv(e)'
  BY DEF EvaluationInv, OpenTest, TypeOK, RegistryTypeOK, SharedInv, CommandInv, HandleInv, EvaluatorInv, RecovererInv, PastRegister, PastLog, PastSave, PastOpen, BeforeLog, EvidenceOnDisk, Active, Ended, Goto, evaluationVars
<1>4. SharedInv'
  BY DEF EvaluationInv, OpenTest, TypeOK, RegistryTypeOK, SharedInv, OpenedOnlyUnderAudit,
         CompletedAuditNamesGatedVersion, RegisteredWasEvaluated, Completed, CommandInv, HandleInv, EvaluatorInv, RecovererInv, PastRegister, PastLog, PastSave, PastOpen, BeforeLog, EvidenceOnDisk, Active, Ended, Goto, evaluationVars
<1>5. \A d \in Commands \ {e} : Stays(d) /\ (d \in FinalRuns => logged'[d] = logged[d])
  BY DEF EvaluationInv, OpenTest, Stays, Goto, TypeOK, RegistryTypeOK
<1> QED
  BY <1>1, <1>2, <1>3, <1>4, <1>5, KeepsIsEnough DEF Keeps

LEMMA SaveEvidenceKeeps ==
    ASSUME EvaluationInv, NEW e \in FinalRuns, SaveEvidence(e)
    PROVE  EvaluationInv'
<1> USE CommandsAreClients DEF Commands
<1>1. TypeOK'
  BY DEF EvaluationInv, SaveEvidence, TypeOK, RegistryTypeOK, PcLabel, Ended, Goto, registryVars, evaluationVars, AuditStatus, Completed
<1>2. Grows
  BY DEF EvaluationInv, SaveEvidence, Grows, CommandInv, HandleInv, EvaluatorInv, RecovererInv, PastRegister, PastLog, PastSave, PastOpen, BeforeLog, EvidenceOnDisk, Active, Ended, Goto, evaluationVars, TypeOK, RegistryTypeOK
<1>3. CommandInv(e)'
  BY DEF EvaluationInv, SaveEvidence, TypeOK, RegistryTypeOK, SharedInv, CommandInv, HandleInv, EvaluatorInv, RecovererInv, PastRegister, PastLog, PastSave, PastOpen, BeforeLog, EvidenceOnDisk, Active, Ended, Goto, evaluationVars
<1>4. SharedInv'
  BY DEF EvaluationInv, SaveEvidence, TypeOK, RegistryTypeOK, SharedInv, OpenedOnlyUnderAudit,
         CompletedAuditNamesGatedVersion, RegisteredWasEvaluated, Completed, CommandInv, HandleInv, EvaluatorInv, RecovererInv, PastRegister, PastLog, PastSave, PastOpen, BeforeLog, EvidenceOnDisk, Active, Ended, Goto, evaluationVars
<1>5. \A d \in Commands \ {e} : Stays(d) /\ (d \in FinalRuns => logged'[d] = logged[d])
  BY DEF EvaluationInv, SaveEvidence, Stays, Goto, TypeOK, RegistryTypeOK
<1> QED
  BY <1>1, <1>2, <1>3, <1>4, <1>5, KeepsIsEnough DEF Keeps

LEMMA StartRunKeeps ==
    ASSUME EvaluationInv, NEW e \in FinalRuns, StartRun(e)
    PROVE  EvaluationInv'
<1> USE CommandsAreClients DEF Commands
<1>1. TypeOK'
  BY DEF EvaluationInv, StartRun, TypeOK, RegistryTypeOK, PcLabel, Ended, Goto, registryVars, evaluationVars, AuditStatus, Completed
<1>2. Grows
  BY DEF EvaluationInv, StartRun, Grows, CommandInv, HandleInv, EvaluatorInv, RecovererInv, PastRegister, PastLog, PastSave, PastOpen, BeforeLog, EvidenceOnDisk, Active, Ended, Goto, evaluationVars, TypeOK, RegistryTypeOK
<1>3. CommandInv(e)'
  BY DEF EvaluationInv, StartRun, TypeOK, RegistryTypeOK, SharedInv, CommandInv, HandleInv, EvaluatorInv, RecovererInv, PastRegister, PastLog, PastSave, PastOpen, BeforeLog, EvidenceOnDisk, Active, Ended, Goto, evaluationVars
<1>4. SharedInv'
  BY DEF EvaluationInv, StartRun, TypeOK, RegistryTypeOK, SharedInv, OpenedOnlyUnderAudit,
         CompletedAuditNamesGatedVersion, RegisteredWasEvaluated, Completed, CommandInv, HandleInv, EvaluatorInv, RecovererInv, PastRegister, PastLog, PastSave, PastOpen, BeforeLog, EvidenceOnDisk, Active, Ended, Goto, evaluationVars
<1>5. \A d \in Commands \ {e} : Stays(d) /\ (d \in FinalRuns => logged'[d] = logged[d])
  BY DEF EvaluationInv, StartRun, Stays, Goto, TypeOK, RegistryTypeOK
<1> QED
  BY <1>1, <1>2, <1>3, <1>4, <1>5, KeepsIsEnough DEF Keeps

LEMMA LogModelKeeps ==
    ASSUME EvaluationInv, NEW e \in FinalRuns, LogModel(e)
    PROVE  EvaluationInv'
<1> USE CommandsAreClients DEF Commands
<1>1. TypeOK'
  BY DEF EvaluationInv, LogModel, TypeOK, RegistryTypeOK, PcLabel, Ended, Goto, registryVars, evaluationVars, AuditStatus, Completed
<1>2. Grows
  BY DEF EvaluationInv, LogModel, Grows, CommandInv, HandleInv, EvaluatorInv, RecovererInv, PastRegister, PastLog, PastSave, PastOpen, BeforeLog, EvidenceOnDisk, Active, Ended, Goto, evaluationVars, TypeOK, RegistryTypeOK
<1>3. CommandInv(e)'
  BY DEF EvaluationInv, LogModel, TypeOK, RegistryTypeOK, SharedInv, CommandInv, HandleInv, EvaluatorInv, RecovererInv, PastRegister, PastLog, PastSave, PastOpen, BeforeLog, EvidenceOnDisk, Active, Ended, Goto, evaluationVars
<1>4. SharedInv'
  BY DEF EvaluationInv, LogModel, TypeOK, RegistryTypeOK, SharedInv, OpenedOnlyUnderAudit,
         CompletedAuditNamesGatedVersion, RegisteredWasEvaluated, Completed, CommandInv, HandleInv, EvaluatorInv, RecovererInv, PastRegister, PastLog, PastSave, PastOpen, BeforeLog, EvidenceOnDisk, Active, Ended, Goto, evaluationVars
<1>5. \A d \in Commands \ {e} : Stays(d) /\ (d \in FinalRuns => logged'[d] = logged[d])
  BY DEF EvaluationInv, LogModel, Stays, Goto, TypeOK, RegistryTypeOK
<1> QED
  BY <1>1, <1>2, <1>3, <1>4, <1>5, KeepsIsEnough DEF Keeps

LEMMA EvaluateResolvesChampionKeeps ==
    ASSUME EvaluationInv, NEW e \in FinalRuns, EvaluateResolvesChampion(e)
    PROVE  EvaluationInv'
<1> USE CommandsAreClients DEF Commands
<1>0. seen' \in [Clients -> 0..Len(versions)]
  BY ResolveEffect DEF EvaluationInv, TypeOK, EvaluateResolvesChampion
<1>1. TypeOK'
  BY <1>0 DEF EvaluationInv, EvaluateResolvesChampion, ResolveChampion, TypeOK, RegistryTypeOK,
     PcLabel, Ended, Goto, evaluationVars
<1>2. CommandInv(e)'
  BY DEF EvaluationInv, EvaluateResolvesChampion, ResolveChampion, TypeOK, RegistryTypeOK, SharedInv, CommandInv, HandleInv, EvaluatorInv, RecovererInv, PastRegister, PastLog, PastSave, PastOpen, BeforeLog, EvidenceOnDisk, Active, Ended, Goto, evaluationVars
<1>3. \A d \in Commands \ {e} : Stays(d)
  BY DEF EvaluationInv, EvaluateResolvesChampion, ResolveChampion, Stays, Goto, TypeOK, RegistryTypeOK
<1> QED
  BY <1>1, <1>2, <1>3, QuietStep DEF EvaluateResolvesChampion, ResolveChampion, evaluationVars

LEMMA EvaluateReadsChampionKeeps ==
    ASSUME EvaluationInv, NEW e \in FinalRuns, EvaluateReadsChampion(e)
    PROVE  EvaluationInv'
<1> USE CommandsAreClients DEF Commands
<1>1. TypeOK'
  BY DEF EvaluationInv, EvaluateReadsChampion, TypeOK, RegistryTypeOK, PcLabel, Ended, Goto, registryVars, evaluationVars, AuditStatus, Completed
<1>2. CommandInv(e)'
  BY DEF EvaluationInv, EvaluateReadsChampion, TypeOK, RegistryTypeOK, SharedInv, CommandInv, HandleInv, EvaluatorInv, RecovererInv, PastRegister, PastLog, PastSave, PastOpen, BeforeLog, EvidenceOnDisk, Active, Ended, Goto, evaluationVars
<1>3. \A d \in Commands \ {e} : Stays(d)
  BY DEF EvaluationInv, EvaluateReadsChampion, Stays, Goto, TypeOK, RegistryTypeOK
<1> QED
  BY <1>1, <1>2, <1>3, QuietStep DEF EvaluateReadsChampion, evaluationVars

LEMMA EvaluateCompletesKeeps ==
    ASSUME EvaluationInv, NEW e \in FinalRuns, EvaluateCompletes(e)
    PROVE  EvaluationInv'
<1> USE CommandsAreClients DEF Commands
<1>1. TypeOK'
  BY DEF EvaluationInv, EvaluateCompletes, TypeOK, RegistryTypeOK, PcLabel, Ended, Goto, registryVars, evaluationVars, AuditStatus, Completed
<1>2. Grows
  BY DEF EvaluationInv, EvaluateCompletes, Grows, CommandInv, HandleInv, EvaluatorInv, RecovererInv, PastRegister, PastLog, PastSave, PastOpen, BeforeLog, EvidenceOnDisk, Active, Ended, Goto, evaluationVars, TypeOK, RegistryTypeOK
<1>3. CommandInv(e)'
  BY DEF EvaluationInv, EvaluateCompletes, TypeOK, RegistryTypeOK, SharedInv, CommandInv, HandleInv, EvaluatorInv, RecovererInv, PastRegister, PastLog, PastSave, PastOpen, BeforeLog, EvidenceOnDisk, Active, Ended, Goto, evaluationVars
<1>4. SharedInv'
  BY DEF EvaluationInv, EvaluateCompletes, TypeOK, RegistryTypeOK, SharedInv, OpenedOnlyUnderAudit,
         CompletedAuditNamesGatedVersion, RegisteredWasEvaluated, Completed, CommandInv, HandleInv, EvaluatorInv, RecovererInv, PastRegister, PastLog, PastSave, PastOpen, BeforeLog, EvidenceOnDisk, Active, Ended, Goto, evaluationVars
<1>5. \A d \in Commands \ {e} : Stays(d) /\ (d \in FinalRuns => logged'[d] = logged[d])
  BY DEF EvaluationInv, EvaluateCompletes, Stays, Goto, TypeOK, RegistryTypeOK
<1> QED
  BY <1>1, <1>2, <1>3, <1>4, <1>5, KeepsIsEnough DEF Keeps

LEMMA RecoverStartKeeps ==
    ASSUME EvaluationInv, NEW c \in Recoverers, RecoverStart(c)
    PROVE  EvaluationInv'
<1> USE CommandsAreClients DEF Commands
<1>0. Len(versions) \in Nat
  BY LenProperties DEF EvaluationInv, TypeOK, RegistryTypeOK
<1>1. TypeOK'
  <2>1. run' \in [Clients -> Runs \cup {NoRun}]
    BY DEF EvaluationInv, RecoverStart, Recoverable, Runs, TypeOK, RegistryTypeOK
  <2>2. pc' \in [Clients -> PcLabel]
    BY DEF EvaluationInv, RecoverStart, TypeOK, PcLabel, Ended, Goto
  <2>3. ver' \in [Clients -> 0..Len(versions)] /\ seen' \in [Clients -> 0..Len(versions)]
    BY <1>0 DEF EvaluationInv, RecoverStart, TypeOK, RegistryTypeOK
  <2> QED
    BY <2>1, <2>2, <2>3
       DEF EvaluationInv, RecoverStart, TypeOK, RegistryTypeOK, evaluationVars
<1>2. CommandInv(c)'
  BY DEF EvaluationInv, RecoverStart, Recoverable, TypeOK, RegistryTypeOK, SharedInv, CommandInv, HandleInv, EvaluatorInv, RecovererInv, PastRegister, PastLog, PastSave, PastOpen, BeforeLog, EvidenceOnDisk, Active, Ended, Goto, evaluationVars
<1>3. \A d \in Commands \ {c} : Stays(d)
  BY DEF EvaluationInv, RecoverStart, Recoverable, Stays, Goto, TypeOK, RegistryTypeOK
<1> QED
  BY <1>1, <1>2, <1>3, QuietStep DEF RecoverStart, Recoverable, evaluationVars

LEMMA RecoverReadsEvidenceKeeps ==
    ASSUME EvaluationInv, NEW c \in Recoverers, RecoverReadsEvidence(c)
    PROVE  EvaluationInv'
<1> USE CommandsAreClients DEF Commands
<1>1. TypeOK'
  BY DEF EvaluationInv, RecoverReadsEvidence, EvidenceComplete, TypeOK, RegistryTypeOK, PcLabel, Ended, Goto, registryVars, evaluationVars, AuditStatus, Completed
<1>2. CommandInv(c)'
  BY DEF EvaluationInv, RecoverReadsEvidence, EvidenceComplete, TypeOK, RegistryTypeOK, SharedInv, CommandInv, HandleInv, EvaluatorInv, RecovererInv, PastRegister, PastLog, PastSave, PastOpen, BeforeLog, EvidenceOnDisk, Active, Ended, Goto, evaluationVars
<1>3. \A d \in Commands \ {c} : Stays(d)
  BY DEF EvaluationInv, RecoverReadsEvidence, EvidenceComplete, Stays, Goto, TypeOK, RegistryTypeOK
<1> QED
  BY <1>1, <1>2, <1>3, QuietStep DEF RecoverReadsEvidence, EvidenceComplete, evaluationVars

LEMMA RecoverResolvesChampionKeeps ==
    ASSUME EvaluationInv, NEW c \in Recoverers, RecoverResolvesChampion(c)
    PROVE  EvaluationInv'
<1> USE CommandsAreClients DEF Commands
<1>0. seen' \in [Clients -> 0..Len(versions)]
  BY ResolveEffect DEF EvaluationInv, TypeOK, RecoverResolvesChampion
<1>1. TypeOK'
  BY <1>0 DEF EvaluationInv, RecoverResolvesChampion, ResolveChampion, TypeOK, RegistryTypeOK,
     PcLabel, Ended, Goto, evaluationVars
<1>2. CommandInv(c)'
  BY DEF EvaluationInv, RecoverResolvesChampion, ResolveChampion, TypeOK, RegistryTypeOK, SharedInv, CommandInv, HandleInv, EvaluatorInv, RecovererInv, PastRegister, PastLog, PastSave, PastOpen, BeforeLog, EvidenceOnDisk, Active, Ended, Goto, evaluationVars
<1>3. \A d \in Commands \ {c} : Stays(d)
  BY DEF EvaluationInv, RecoverResolvesChampion, ResolveChampion, Stays, Goto, TypeOK, RegistryTypeOK
<1> QED
  BY <1>1, <1>2, <1>3, QuietStep DEF RecoverResolvesChampion, ResolveChampion, evaluationVars

LEMMA RecoverReadsChampionKeeps ==
    ASSUME EvaluationInv, NEW c \in Recoverers, RecoverReadsChampion(c)
    PROVE  EvaluationInv'
<1> USE CommandsAreClients DEF Commands
<1>1. TypeOK'
  BY DEF EvaluationInv, RecoverReadsChampion, TypeOK, RegistryTypeOK, PcLabel, Ended, Goto, registryVars, evaluationVars, AuditStatus, Completed
<1>2. CommandInv(c)'
  BY DEF EvaluationInv, RecoverReadsChampion, TypeOK, RegistryTypeOK, SharedInv, CommandInv, HandleInv, EvaluatorInv, RecovererInv, PastRegister, PastLog, PastSave, PastOpen, BeforeLog, EvidenceOnDisk, Active, Ended, Goto, evaluationVars
<1>3. \A d \in Commands \ {c} : Stays(d)
  BY DEF EvaluationInv, RecoverReadsChampion, Stays, Goto, TypeOK, RegistryTypeOK
<1> QED
  BY <1>1, <1>2, <1>3, QuietStep DEF RecoverReadsChampion, evaluationVars

LEMMA RecoverCompletesKeeps ==
    ASSUME EvaluationInv, NEW c \in Recoverers, RecoverCompletes(c)
    PROVE  EvaluationInv'
<1> USE CommandsAreClients DEF Commands
<1>0. run[c] \in FinalRuns
  BY ActiveRun DEF RecoverCompletes, Active, Ended
<1>1. TypeOK'
  BY <1>0 DEF EvaluationInv, RecoverCompletes, TypeOK, RegistryTypeOK, PcLabel, Ended, Goto, registryVars, evaluationVars, AuditStatus, Completed
<1>2. Grows
  BY DEF EvaluationInv, RecoverCompletes, Grows, CommandInv, HandleInv, EvaluatorInv, RecovererInv, PastRegister, PastLog, PastSave, PastOpen, BeforeLog, EvidenceOnDisk, Active, Ended, Goto, evaluationVars, TypeOK, RegistryTypeOK
<1>3. CommandInv(c)'
  BY DEF EvaluationInv, RecoverCompletes, TypeOK, RegistryTypeOK, SharedInv, CommandInv, HandleInv, EvaluatorInv, RecovererInv, PastRegister, PastLog, PastSave, PastOpen, BeforeLog, EvidenceOnDisk, Active, Ended, Goto, evaluationVars
<1>4. SharedInv'
  BY DEF EvaluationInv, RecoverCompletes, TypeOK, RegistryTypeOK, SharedInv, OpenedOnlyUnderAudit,
         CompletedAuditNamesGatedVersion, RegisteredWasEvaluated, Completed, CommandInv, HandleInv, EvaluatorInv, RecovererInv, PastRegister, PastLog, PastSave, PastOpen, BeforeLog, EvidenceOnDisk, Active, Ended, Goto, evaluationVars
<1>5. \A d \in Commands \ {c} : Stays(d) /\ (d \in FinalRuns => logged'[d] = logged[d])
  BY DEF EvaluationInv, RecoverCompletes, Stays, Goto, TypeOK, RegistryTypeOK
<1> QED
  BY <1>1, <1>2, <1>3, <1>4, <1>5, KeepsIsEnough DEF Keeps


(* The steps that change versions or the audit in the shared procedures.   *)

LEMMA TagGatesKeeps ==
    ASSUME EvaluationInv, NEW c \in Commands, pc[c] = "registered", TagGates(c),
           Goto(c, "gated"), UNCHANGED <<alias, run, ver, seen, stops, evaluationVars>>
    PROVE  EvaluationInv'
<1> USE CommandsAreClients DEF Commands
<1>1. ver[c] \in 1..Len(versions) /\ versions[ver[c]].run = run[c]
  BY DEF EvaluationInv, CommandInv, HandleInv, PastRegister
<1>0. Len(versions) \in Nat
  BY LenProperties DEF EvaluationInv, TypeOK, RegistryTypeOK
<1>2. /\ versions' \in Seq(Version)
      /\ Len(versions') = Len(versions)
      /\ \A v \in 1..Len(versions) : versions'[v].run = versions[v].run
      /\ versions'[ver[c]].gates \in {"true", "false"}
      /\ \A v \in 1..Len(versions) : v # ver[c] => versions'[v] = versions[v]
  BY <1>1, TagGatesEffect DEF EvaluationInv, TypeOK, RegistryTypeOK
<1>3. TypeOK'
  BY <1>2 DEF EvaluationInv, TypeOK, RegistryTypeOK, PcLabel, Ended, Goto, evaluationVars
<1>4. Grows
  <2>1. opened' = opened /\ saved' = saved /\ logged' = logged /\ audit' = audit
    BY DEF evaluationVars
  <2>2. /\ Len(versions) <= Len(versions')
        /\ \A v \in 1..Len(versions) :
               /\ versions'[v].run = versions[v].run
               /\ versions[v].gates # "unset" => versions'[v].gates # "unset"
    BY <1>0, <1>2
  <2> QED
    BY <1>2, <2>1, <2>2 DEF Grows
<1>5. CommandInv(c)'
  BY <1>1, <1>2 DEF EvaluationInv, TypeOK, RegistryTypeOK, CommandInv, HandleInv, EvaluatorInv,
     RecovererInv, PastRegister, PastLog, PastSave, PastOpen, BeforeLog, EvidenceOnDisk,
     Active, Ended, Goto, evaluationVars
<1>6. SharedInv'
  <2>1. \A v \in 1..Len(versions) : versions[v].gates # "unset" => versions'[v].gates # "unset"
    BY <1>2
  <2>2. DOMAIN versions = 1..Len(versions) /\ DOMAIN versions' = 1..Len(versions)
    BY <1>2, LenProperties DEF EvaluationInv, TypeOK, RegistryTypeOK
  <2> QED
    BY <1>2, <2>1, <2>2 DEF EvaluationInv, SharedInv, OpenedOnlyUnderAudit, Completed,
       CompletedAuditNamesGatedVersion, RegisteredWasEvaluated, EvidenceOnDisk, evaluationVars
<1>7. \A d \in Commands \ {c} : Stays(d) /\ (d \in FinalRuns => logged'[d] = logged[d])
  BY DEF EvaluationInv, Stays, Goto, TypeOK, RegistryTypeOK, evaluationVars
<1> QED
  BY <1>3, <1>4, <1>5, <1>6, <1>7, KeepsIsEnough DEF Keeps

LEMMA RegisterFindKeeps ==
    ASSUME EvaluationInv, NEW c \in Commands, RegisterFind(c), UNCHANGED evaluationVars
    PROVE  EvaluationInv'
<1> USE CommandsAreClients DEF Commands
<1>0. /\ ver' \in [Clients -> 0..Len(versions)]
      /\ \/ /\ pc' = [pc EXCEPT ![c] = "register_alias"]
            /\ ver'[c] \in 1..Len(versions)
            /\ versions[ver'[c]].run = run[c]
         \/ pc' = [pc EXCEPT ![c] = "register_create"]
      /\ \A d \in Clients \ {c} : ver'[d] = ver[d]
  BY FindEffect DEF EvaluationInv, TypeOK, RegisterFind
<1>1. TypeOK'
  BY <1>0 DEF EvaluationInv, RegisterFind, TypeOK, RegistryTypeOK,
     PcLabel, Ended, evaluationVars
<1>2. HandleInv(c)'
  BY <1>0 DEF EvaluationInv, RegisterFind, TypeOK, RegistryTypeOK, HandleInv, PastRegister
<1>3. CommandInv(c)'
  BY <1>0, <1>2 DEF EvaluationInv, RegisterFind, TypeOK, RegistryTypeOK, CommandInv,
     EvaluatorInv, RecovererInv, PastRegister, PastLog, PastSave, PastOpen, BeforeLog,
     EvidenceOnDisk, Active, Ended, Goto, evaluationVars
<1>4. \A d \in Commands \ {c} : Stays(d)
  BY <1>0 DEF EvaluationInv, RegisterFind, Stays, TypeOK, RegistryTypeOK
<1> QED
  BY <1>1, <1>3, <1>4, QuietStep DEF RegisterFind, evaluationVars

LEMMA RegisterCreateKeeps ==
    ASSUME EvaluationInv, NEW c \in Commands, RegisterCreate(c), UNCHANGED evaluationVars
    PROVE  EvaluationInv'
<1> USE CommandsAreClients DEF Commands
<1>0. Len(versions) \in Nat /\ DOMAIN versions = 1..Len(versions)
  BY LenProperties DEF EvaluationInv, TypeOK, RegistryTypeOK
<1>1. run[c] \in FinalRuns /\ run[c] \in opened /\ EvidenceOnDisk(run[c])
  BY LoggedEvidence DEF RegisterCreate, PastLog
<1>2. /\ versions' \in Seq(Version)
      /\ Len(versions') = Len(versions) + 1
      /\ \A v \in 1..Len(versions) : versions'[v] = versions[v]
      /\ versions'[Len(versions) + 1] = [run |-> run[c], gates |-> "unset"]
  BY <1>1, CreateEffect DEF RegisterCreate, Runs, EvaluationInv, TypeOK, RegistryTypeOK
<1>3. TypeOK'
  BY <1>0, <1>2 DEF EvaluationInv, RegisterCreate, TypeOK, RegistryTypeOK, PcLabel, Ended,
     Goto, evaluationVars
<1>4. Grows
  <2>1. opened' = opened /\ saved' = saved /\ logged' = logged /\ audit' = audit
    BY DEF evaluationVars
  <2>2. /\ Len(versions) <= Len(versions')
        /\ \A v \in 1..Len(versions) :
               /\ versions'[v].run = versions[v].run
               /\ versions[v].gates # "unset" => versions'[v].gates # "unset"
    BY <1>0, <1>2
  <2> QED
    BY <1>2, <2>1, <2>2 DEF Grows
<1>5. CommandInv(c)'
  BY <1>0, <1>2 DEF EvaluationInv, RegisterCreate, TypeOK, RegistryTypeOK, CommandInv, HandleInv,
     EvaluatorInv, RecovererInv, PastRegister, PastLog, PastSave, PastOpen, BeforeLog,
     EvidenceOnDisk, Active, Ended, Goto, evaluationVars
<1>6. SharedInv'
  <2>1. DOMAIN versions' = 1..(Len(versions) + 1)
    BY <1>2, LenProperties
  <2>2. \A v \in 1..(Len(versions) + 1) : v \in 1..Len(versions) \/ v = Len(versions) + 1
    BY <1>0
  <2> QED
    BY <1>0, <1>1, <1>2, <2>1, <2>2 DEF EvaluationInv, SharedInv, OpenedOnlyUnderAudit, Completed,
       CompletedAuditNamesGatedVersion, RegisteredWasEvaluated, EvidenceOnDisk, evaluationVars
<1>7. \A d \in Commands \ {c} : Stays(d) /\ (d \in FinalRuns => logged'[d] = logged[d])
  BY DEF EvaluationInv, RegisterCreate, Stays, Goto, TypeOK, RegistryTypeOK, evaluationVars
<1> QED
  BY <1>3, <1>4, <1>5, <1>6, <1>7, KeepsIsEnough DEF Keeps

LEMMA RegisterAliasKeeps ==
    ASSUME EvaluationInv, NEW c \in Commands, RegisterAlias(c), UNCHANGED evaluationVars
    PROVE  EvaluationInv'
<1> USE CommandsAreClients DEF Commands
<1>1. TypeOK'
  BY DEF EvaluationInv, RegisterAlias, SetAlias, TypeOK, RegistryTypeOK, PcLabel, Ended, Goto,
     evaluationVars
<1>2. CommandInv(c)'
  BY DEF EvaluationInv, RegisterAlias, TypeOK, RegistryTypeOK, CommandInv, HandleInv,
     EvaluatorInv, RecovererInv, PastRegister, PastLog, PastSave, PastOpen, BeforeLog,
     EvidenceOnDisk, Active, Ended, Goto, evaluationVars
<1>3. \A d \in Commands \ {c} : Stays(d)
  BY DEF EvaluationInv, RegisterAlias, Stays, Goto, TypeOK, RegistryTypeOK
<1> QED
  BY <1>1, <1>2, <1>3, QuietStep DEF RegisterAlias, evaluationVars

LEMMA StopKeeps ==
    ASSUME EvaluationInv, NEW c \in Commands, Stop(c), UNCHANGED evaluationVars
    PROVE  EvaluationInv'
<1> USE CommandsAreClients DEF Commands
<1>0. stops' \in 0..MaxStops
  BY RegistryAssumption DEF EvaluationInv, TypeOK, RegistryTypeOK, Stop
<1>1. TypeOK'
  BY <1>0 DEF EvaluationInv, Stop, TypeOK, RegistryTypeOK, PcLabel, Ended, Goto, evaluationVars
<1>2. CommandInv(c)'
  BY DEF EvaluationInv, Stop, TypeOK, RegistryTypeOK, CommandInv, HandleInv,
     EvaluatorInv, RecovererInv, PastRegister, PastLog, PastSave, PastOpen, BeforeLog,
     EvidenceOnDisk, Active, Ended, Goto, evaluationVars
<1>3. \A d \in Commands \ {c} : Stays(d)
  BY DEF EvaluationInv, Stop, Stays, Goto, TypeOK, RegistryTypeOK
<1> QED
  BY <1>1, <1>2, <1>3, QuietStep DEF Stop, evaluationVars

-----------------------------------------------------------------------------
(* Safety of any interleaving of evaluations and recoveries *)

LEMMA InitEstablishesInv == Init => EvaluationInv
<1> SUFFICES ASSUME Init PROVE EvaluationInv
  OBVIOUS
<1>1. PICK prior \in {<<>>} \cup {<<[run |-> r, gates |-> "true"]>> : r \in PriorRuns} :
         versions = prior /\ alias = [candidate |-> Len(prior), champion |-> Len(prior)]
  BY DEF Init, RegistryInit
<1>2. /\ versions \in Seq(Version)
      /\ Len(versions) \in Nat
      /\ DOMAIN versions = 1..Len(versions)
      /\ \A v \in 1..Len(versions) : versions[v].run \in PriorRuns
  <2>1. CASE prior = <<>>
    BY <1>1, <2>1
  <2>2. CASE \E r \in PriorRuns : prior = <<[run |-> r, gates |-> "true"]>>
    <3>1. PICK r \in PriorRuns : prior = <<[run |-> r, gates |-> "true"]>>
      BY <2>2
    <3>2. [run |-> r, gates |-> "true"] \in Version
      BY DEF Version, Runs, GateTag
    <3> QED
      BY <1>1, <3>1, <3>2
  <2> QED
    BY <1>1, <2>1, <2>2
<1>3. TypeOK
  BY <1>1, <1>2, RegistryAssumption
     DEF Init, RegistryInit, EvaluationInit, TypeOK, RegistryTypeOK, PcLabel, Ended, AuditStatus,
         Runs
<1>4. \A c \in Commands : CommandInv(c)
  BY CommandsAreClients
     DEF Init, RegistryInit, EvaluationInit, Commands, CommandInv, HandleInv, EvaluatorInv,
         RecovererInv, PastRegister, PastLog, PastSave, PastOpen, Active, Ended
<1>5. SharedInv
  BY <1>2, RegistryAssumption
     DEF Init, EvaluationInit, SharedInv, OpenedOnlyUnderAudit, CompletedAuditNamesGatedVersion,
         RegisteredWasEvaluated, Completed
<1> QED
  BY <1>3, <1>4, <1>5 DEF EvaluationInv, Commands

LEMMA StutterKeeps ==
    ASSUME EvaluationInv, UNCHANGED vars
    PROVE  EvaluationInv'
BY DEF EvaluationInv, TypeOK, RegistryTypeOK, CommandInv, HandleInv, EvaluatorInv, RecovererInv,
       SharedInv, OpenedOnlyUnderAudit, CompletedAuditNamesGatedVersion, RegisteredWasEvaluated,
       EvidenceOnDisk, Active, vars, registryVars, evaluationVars

LEMMA StepKeepsInv == EvaluationInv /\ [Next]_vars => EvaluationInv'
<1> SUFFICES ASSUME EvaluationInv, [Next]_vars PROVE EvaluationInv'
  OBVIOUS
<1>1. CASE UNCHANGED vars
  BY <1>1, StutterKeeps
<1>2. ASSUME NEW e \in FinalRuns, EvaluateStart(e) PROVE EvaluationInv'
  BY <1>2, EvaluateStartKeeps
<1>3. ASSUME NEW e \in FinalRuns, EvaluateStep(e) PROVE EvaluationInv'
  <2>1. CASE RegisterCandidate(e) /\ UNCHANGED evaluationVars
    BY <2>1, RegisterFindKeeps, RegisterCreateKeeps, RegisterAliasKeeps
       DEF RegisterCandidate, Commands
  <2>2. CASE EvaluateTagsGates(e)
    BY <2>2, TagGatesKeeps DEF EvaluateTagsGates, Commands
  <2> QED
    BY <1>3, <2>1, <2>2, AuthorizeTestKeeps, OpenTestKeeps, SaveEvidenceKeeps, StartRunKeeps,
       LogModelKeeps, EvaluateResolvesChampionKeeps, EvaluateReadsChampionKeeps,
       EvaluateCompletesKeeps
       DEF EvaluateStep
<1>4. ASSUME NEW c \in Recoverers, RecoverStart(c) PROVE EvaluationInv'
  BY <1>4, RecoverStartKeeps
<1>5. ASSUME NEW c \in Recoverers, RecoverStep(c) PROVE EvaluationInv'
  <2>1. CASE RegisterCandidate(c) /\ UNCHANGED evaluationVars
    BY <2>1, RegisterFindKeeps, RegisterCreateKeeps, RegisterAliasKeeps
       DEF RegisterCandidate, Commands
  <2>2. CASE RecoverTagsGates(c)
    BY <2>2, TagGatesKeeps DEF RecoverTagsGates, Commands
  <2> QED
    BY <1>5, <2>1, <2>2, RecoverReadsEvidenceKeeps, RecoverResolvesChampionKeeps,
       RecoverReadsChampionKeeps, RecoverCompletesKeeps
       DEF RecoverStep
<1>6. ASSUME NEW c \in FinalRuns \cup Recoverers, Stop(c), UNCHANGED evaluationVars
      PROVE  EvaluationInv'
  BY <1>6, StopKeeps DEF Commands
<1> QED
  BY <1>1, <1>2, <1>3, <1>4, <1>5, <1>6 DEF Next

LEMMA EvaluationInvariant == Spec => []EvaluationInv
BY InitEstablishesInv, StepKeepsInv, PTL DEF Spec

(* The state keeps its shape: in particular every version number the       *)
(* audit, an alias or a command holds is one of a registered version.      *)
THEOREM TypeCorrect == Spec => []TypeOK
BY EvaluationInvariant, PTL DEF EvaluationInv

(* No interleaving, crash or swallowed registry exception lets the split   *)
(* be read before the access is on record.                                 *)
THEOREM ReadingIsRecorded == Spec => []OpenedOnlyUnderAudit
BY EvaluationInvariant, PTL DEF EvaluationInv, SharedInv

(* A completed audit names a gated version of the audited run, whichever   *)
(* evaluation or recovery completed it.                                    *)
THEOREM CompletionIsGated == Spec => []CompletedAuditNamesGatedVersion
BY EvaluationInvariant, PTL DEF EvaluationInv, SharedInv

(* Only a run that was evaluated and whose evidence is complete is         *)
(* registered.                                                             *)
THEOREM RegistrationNeedsEvidence == Spec => []RegisteredWasEvaluated
BY EvaluationInvariant, PTL DEF EvaluationInv, SharedInv

-----------------------------------------------------------------------------
(* One command at a time.  While an evaluation is fitting no audit exists, *)
(* and from its authorization on the audit is its own: this is what the    *)
(* test for the audit file, made long before, does not give by itself.     *)

OneActive == \A c, d \in Commands : Active(c) /\ Active(d) => c = d

AuditOwner ==
    /\ audit.status = "absent" => opened = {} /\ audit.run = NoRun
    /\ opened \subseteq {audit.run}
    /\ audit.status \in Completed => opened = {audit.run}

HoldsAudit(c) == audit.status = "authorized_and_opened" /\ audit.run = run[c]

OwnerInv(c) ==
    /\ c \in FinalRuns /\ pc[c] = "fitting" => audit.status = "absent"
    /\ c \in FinalRuns /\ pc[c] = "authorized" => HoldsAudit(c) /\ opened = {}
    /\ c \in FinalRuns /\ pc[c] \in PastOpen => HoldsAudit(c)
    /\ c \in Recoverers /\ Active(c) => HoldsAudit(c)

SerialInv ==
    /\ OneActive
    /\ \A c \in Commands : OwnerInv(c)
    /\ AuditOwner

\* A command at rest owns nothing.
LEMMA RestingOwnsNothing ==
    ASSUME NEW c \in Commands, ~Active(c), pc'[c] = pc[c]
    PROVE  OwnerInv(c)'
BY DEF OwnerInv, Active, Ended, PastOpen, PastSave, PastLog, PastRegister

\* While one command runs the others rest, and it is enough to look at that one.
LEMMA OwnerStep ==
    ASSUME NEW c \in Commands, OwnerInv(c)', AuditOwner',
           \A d \in Commands \ {c} : ~Active(d) /\ pc'[d] = pc[d]
    PROVE  SerialInv'
<1>1. \A d \in Commands \ {c} : OwnerInv(d)'
  BY RestingOwnsNothing
<1>2. OneActive'
  BY DEF OneActive, Active
<1> QED
  BY <1>1, <1>2 DEF SerialInv

\* A step that touches neither the audit nor the readings, of a command that
\* has the audit, or ends.
LEMMA OwnerMovesOn ==
    ASSUME SerialInv, NEW c \in Commands, Active(c), UNCHANGED <<audit, opened, run>>,
           \A d \in Commands \ {c} : pc'[d] = pc[d],
           \/ pc'[c] \in Ended
           \/ c \in FinalRuns /\ pc[c] \in PastOpen /\ pc'[c] \in PastOpen
           \/ c \in Recoverers
    PROVE  SerialInv'
<1>1. AuditOwner'
  BY DEF SerialInv, AuditOwner
<1>2. OwnerInv(c)'
  BY CommandsAreClients
     DEF SerialInv, OwnerInv, HoldsAudit, Active, Ended, PastOpen, PastSave, PastLog, PastRegister
<1> QED
  BY <1>1, <1>2, OwnerStep DEF SerialInv, OneActive

LEMMA SerialEvaluateStart ==
    ASSUME Serial, EvaluationInv, SerialInv, NEW e \in FinalRuns, EvaluateStart(e)
    PROVE  SerialInv'
<1>1. e \in Commands /\ e \in Clients /\ e \notin Recoverers
  BY CommandsAreClients DEF Commands
<1>2. \A d \in Commands \ {e} : ~Active(d) /\ pc'[d] = pc[d]
  BY CommandsAreClients
     DEF EvaluateStart, MayStart, Goto, EvaluationInv, TypeOK
<1>3. pc'[e] = IF AuditExists THEN "refused" ELSE "fitting"
  BY <1>1 DEF EvaluateStart, Goto, EvaluationInv, TypeOK
<1>4. AuditOwner' /\ OwnerInv(e)'
  BY <1>1, <1>3 DEF EvaluateStart, AuditExists, SerialInv, AuditOwner, OwnerInv, evaluationVars,
     Active, Ended, PastOpen, PastSave, PastLog, PastRegister
<1> QED
  BY <1>1, <1>2, <1>4, OwnerStep

LEMMA SerialRecoverStart ==
    ASSUME Serial, EvaluationInv, SerialInv, NEW c \in Recoverers, RecoverStart(c)
    PROVE  SerialInv'
<1>1. c \in Commands /\ c \in Clients /\ c \notin FinalRuns
  BY CommandsAreClients DEF Commands
<1>2. \A d \in Commands \ {c} : ~Active(d) /\ pc'[d] = pc[d]
  BY CommandsAreClients
     DEF RecoverStart, MayStart, Goto, EvaluationInv, TypeOK
<1>3. AuditOwner'
  BY DEF RecoverStart, SerialInv, AuditOwner, evaluationVars
<1>4. OwnerInv(c)'
  BY <1>1 DEF RecoverStart, Recoverable, Goto, OwnerInv, HoldsAudit, Active, Ended,
     evaluationVars, EvaluationInv, TypeOK, RegistryTypeOK
<1> QED
  BY <1>1, <1>2, <1>3, <1>4, OwnerStep

LEMMA SerialAuthorize ==
    ASSUME EvaluationInv, SerialInv, NEW e \in FinalRuns, AuthorizeTest(e)
    PROVE  SerialInv'
<1>1. e \in Commands /\ e \in Clients /\ e \notin Recoverers /\ run[e] = e
  BY CommandsAreClients DEF Commands, EvaluationInv, CommandInv, EvaluatorInv
<1>2. \A d \in Commands \ {e} : ~Active(d) /\ pc'[d] = pc[d]
  BY <1>1, CommandsAreClients
     DEF AuthorizeTest, SerialInv, OneActive, Active, Ended, Goto, EvaluationInv, TypeOK
<1>3. pc'[e] = "authorized" /\ run'[e] = e
  BY <1>1 DEF AuthorizeTest, Goto, EvaluationInv, TypeOK
<1>4. opened = {}
  BY <1>1 DEF AuthorizeTest, SerialInv, OwnerInv, AuditOwner
<1>5. AuditOwner'
  BY <1>4 DEF AuthorizeTest, AuditOwner, Completed
<1>6. OwnerInv(e)'
  BY <1>1, <1>3, <1>4 DEF AuthorizeTest, OwnerInv, HoldsAudit, PastOpen, PastSave, PastLog,
     PastRegister
<1> QED
  BY <1>1, <1>2, <1>5, <1>6, OwnerStep

LEMMA SerialOpen ==
    ASSUME EvaluationInv, SerialInv, NEW e \in FinalRuns, OpenTest(e)
    PROVE  SerialInv'
<1>1. e \in Commands /\ e \in Clients /\ e \notin Recoverers /\ run[e] = e
  BY CommandsAreClients DEF Commands, EvaluationInv, CommandInv, EvaluatorInv
<1>2. \A d \in Commands \ {e} : ~Active(d) /\ pc'[d] = pc[d]
  BY <1>1, CommandsAreClients
     DEF OpenTest, SerialInv, OneActive, Active, Ended, Goto, EvaluationInv, TypeOK
<1>3. pc'[e] = "evaluated" /\ run'[e] = e
  BY <1>1 DEF OpenTest, Goto, EvaluationInv, TypeOK
<1>4. HoldsAudit(e) /\ opened = {}
  BY <1>1 DEF OpenTest, SerialInv, OwnerInv
<1>5. AuditOwner' /\ OwnerInv(e)'
  BY <1>1, <1>3, <1>4 DEF OpenTest, AuditOwner, Completed, OwnerInv, HoldsAudit
<1> QED
  BY <1>1, <1>2, <1>5, OwnerStep

\* Completing, by an evaluation or by a recovery, of the run that holds the audit.
LEMMA SerialComplete ==
    ASSUME EvaluationInv, SerialInv, NEW c \in Commands, pc[c] = "gated",
           audit'.status \in Completed, audit'.run = run[c], Goto(c, "done"),
           UNCHANGED <<run, opened>>
    PROVE  SerialInv'
<1>1. c \in Clients /\ Active(c)
  BY CommandsAreClients DEF Active, Ended
<1>2. \A d \in Commands \ {c} : ~Active(d) /\ pc'[d] = pc[d]
  BY <1>1, CommandsAreClients DEF SerialInv, OneActive, Goto, EvaluationInv, TypeOK
<1>3. pc'[c] = "done"
  BY <1>1 DEF Goto, EvaluationInv, TypeOK
<1>4. audit.run = run[c] /\ run[c] \in opened
  BY <1>1, LoggedEvidence
     DEF SerialInv, OwnerInv, HoldsAudit, Commands, PastOpen, PastSave, PastLog, PastRegister
<1>5. AuditOwner'
  BY <1>4 DEF SerialInv, AuditOwner, Completed
<1>6. OwnerInv(c)'
  BY <1>3 DEF OwnerInv, Active, Ended, PastOpen, PastSave, PastLog, PastRegister
<1> QED
  BY <1>2, <1>5, <1>6, OwnerStep

\* The remaining steps of an evaluation stay behind its own audit record.
LEMMA SerialEvaluateStep ==
    ASSUME EvaluationInv, SerialInv, NEW e \in FinalRuns, EvaluateStep(e)
    PROVE  SerialInv'
<1>1. e \in Commands /\ e \in Clients /\ run[e] = e
  BY CommandsAreClients DEF Commands, EvaluationInv, CommandInv, EvaluatorInv
<1> DEFINE Moves ==
        /\ pc[e] \in PastOpen /\ pc'[e] \in PastOpen \cup Ended
        /\ UNCHANGED <<audit, opened, run>>
        /\ \A d \in Commands \ {e} : pc'[d] = pc[d]
<1>2. Moves => SerialInv'
  BY <1>1, OwnerMovesOn DEF Active, Ended, PastOpen, PastSave, PastLog, PastRegister
<1>3. CASE SaveEvidence(e) \/ StartRun(e) \/ LogModel(e)
  <2>1. Moves
    BY <1>1, <1>3, CommandsAreClients
       DEF SaveEvidence, StartRun, LogModel, Goto, EvaluationInv, TypeOK,
           PastOpen, PastSave, PastLog, PastRegister
  <2> QED
    BY <1>2, <2>1
<1>4. CASE EvaluateResolvesChampion(e) \/ EvaluateReadsChampion(e) \/ EvaluateTagsGates(e)
  <2>1. Moves
    BY <1>1, <1>4, CommandsAreClients
       DEF EvaluateResolvesChampion, EvaluateReadsChampion, EvaluateTagsGates, ResolveChampion,
           Goto, EvaluationInv, TypeOK, evaluationVars, Ended,
           PastOpen, PastSave, PastLog, PastRegister
  <2> QED
    BY <1>2, <2>1
<1>5. CASE RegisterCandidate(e) /\ UNCHANGED evaluationVars
  <2>1. Moves
    BY <1>1, <1>5, CommandsAreClients
       DEF RegisterCandidate, RegisterFind, RegisterCreate, RegisterAlias, FindVersion,
           Goto, EvaluationInv, TypeOK, evaluationVars,
           PastOpen, PastSave, PastLog, PastRegister
  <2> QED
    BY <1>2, <2>1
<1>6. CASE EvaluateCompletes(e)
  BY <1>1, <1>6, SerialComplete DEF EvaluateCompletes, Completed
<1> QED
  BY <1>3, <1>4, <1>5, <1>6, SerialAuthorize, SerialOpen DEF EvaluateStep

\* A recovery only continues what the audit it started from records.
LEMMA SerialRecoverStep ==
    ASSUME EvaluationInv, SerialInv, NEW c \in Recoverers, RecoverStep(c)
    PROVE  SerialInv'
<1>1. c \in Commands /\ c \in Clients
  BY CommandsAreClients DEF Commands
<1>2. CASE RecoverCompletes(c)
  BY <1>1, <1>2, SerialComplete DEF RecoverCompletes, Completed
<1>3. CASE ~RecoverCompletes(c)
  <2>1. Active(c)
    BY <1>3 DEF RecoverStep, RecoverReadsEvidence, RecoverResolvesChampion, RecoverReadsChampion,
       RegisterCandidate, RegisterFind, RegisterCreate, RegisterAlias, RecoverTagsGates,
       Active, Ended
  <2>2. UNCHANGED <<audit, opened, run>>
    BY <1>3 DEF RecoverStep, RecoverReadsEvidence, RecoverResolvesChampion, RecoverReadsChampion,
       RegisterCandidate, RegisterFind, RegisterCreate, RegisterAlias, RecoverTagsGates,
       evaluationVars
  <2>3. \A d \in Commands \ {c} : pc'[d] = pc[d]
    BY <1>1, <1>3, CommandsAreClients
       DEF RecoverStep, RecoverReadsEvidence, RecoverResolvesChampion, RecoverReadsChampion,
       RegisterCandidate, RegisterFind, RegisterCreate, RegisterAlias, RecoverTagsGates,
       ResolveChampion, FindVersion, Goto, EvaluationInv, TypeOK
  <2> QED
    BY <1>1, <2>1, <2>2, <2>3, OwnerMovesOn
<1> QED
  BY <1>2, <1>3

LEMMA SerialStop ==
    ASSUME EvaluationInv, SerialInv, NEW c \in Commands, Stop(c), UNCHANGED evaluationVars
    PROVE  SerialInv'
<1>1. c \in Clients /\ pc'[c] \in Ended /\ \A d \in Commands \ {c} : pc'[d] = pc[d]
  BY CommandsAreClients DEF Stop, Goto, Ended, EvaluationInv, TypeOK
<1> QED
  BY <1>1, OwnerMovesOn DEF Stop, evaluationVars

LEMMA SerialInit == Init => SerialInv
BY CommandsAreClients
   DEF Init, RegistryInit, EvaluationInit, SerialInv, OneActive, OwnerInv, AuditOwner, Active,
       Ended, Completed, PastOpen, PastSave, PastLog, PastRegister

LEMMA SerialNext ==
    ASSUME Serial
    PROVE  EvaluationInv /\ SerialInv /\ [Next]_vars => SerialInv'
<1> SUFFICES ASSUME EvaluationInv, SerialInv, [Next]_vars PROVE SerialInv'
  OBVIOUS
<1>1. CASE UNCHANGED vars
  BY <1>1 DEF vars, registryVars, evaluationVars, SerialInv, OneActive, OwnerInv, HoldsAudit,
     AuditOwner, Active
<1> QED
  BY <1>1, SerialEvaluateStart, SerialEvaluateStep, SerialRecoverStart, SerialRecoverStep,
     SerialStop
     DEF Next, Commands

LEMMA SerialInvariant ==
    ASSUME Serial
    PROVE  Spec => [](EvaluationInv /\ SerialInv)
<1>1. Init => EvaluationInv /\ SerialInv
  BY InitEstablishesInv, SerialInit
<1>2. EvaluationInv /\ SerialInv /\ [Next]_vars => EvaluationInv' /\ SerialInv'
  BY StepKeepsInv, SerialNext
<1> QED
  BY <1>1, <1>2, PTL DEF Spec

(* One operator at a time, the split is read by a single evaluation for    *)
(* good: no crash, restart or recovery leads to a second reading.          *)
THEOREM SealedTestIsOpenedOnce ==
    ASSUME Serial
    PROVE  Spec => []SealedTestOpenedOnce
<1>1. SerialInv => SealedTestOpenedOnce
  BY DEF SerialInv, AuditOwner, SealedTestOpenedOnce
<1> QED
  BY <1>1, SerialInvariant, PTL

-----------------------------------------------------------------------------
(* Refinement: the files and the registry implement the sealed test.       *)

LEMMA RefinesInit == Init => Sealed!Init
BY DEF Init, EvaluationInit, Sealed!Init, Phase, Completed

\* A step that leaves the audit and the readings alone is invisible.
LEMMA InvisibleStep ==
    ASSUME UNCHANGED <<audit, opened>>
    PROVE  UNCHANGED Sealed!vars
BY DEF Sealed!vars, Phase

LEMMA RefinesComplete ==
    ASSUME EvaluationInv, SerialInv, NEW c \in Commands, pc[c] = "gated",
           audit'.status \in Completed, audit'.run = run[c], UNCHANGED opened
    PROVE  Sealed!Complete
<1>1. HoldsAudit(c)
  BY CommandsAreClients
     DEF SerialInv, OwnerInv, Commands, Active, Ended, PastOpen, PastSave, PastLog, PastRegister
<1>2. run[c] \in opened
  BY LoggedEvidence DEF PastLog, PastRegister
<1>3. opened = {audit.run}
  BY <1>1, <1>2 DEF HoldsAudit, SerialInv, AuditOwner
<1> QED
  BY <1>1, <1>3 DEF Sealed!Complete, Phase, HoldsAudit, Completed

LEMMA RefinesNext ==
    EvaluationInv /\ SerialInv /\ [Next]_vars => [Sealed!Next]_Sealed!vars
<1> SUFFICES ASSUME EvaluationInv, SerialInv, [Next]_vars
             PROVE  Sealed!Next \/ UNCHANGED Sealed!vars
  OBVIOUS
<1>1. ASSUME NEW e \in FinalRuns, AuthorizeTest(e) PROVE Sealed!Next
  <2>1. audit.status = "absent"
    BY <1>1 DEF SerialInv, OwnerInv, Commands, AuthorizeTest
  <2>2. Sealed!Authorize(e)
    BY <1>1, <2>1 DEF AuthorizeTest, Sealed!Authorize, Phase, Completed
  <2> QED
    BY <2>2 DEF Sealed!Next
<1>2. ASSUME NEW e \in FinalRuns, OpenTest(e) PROVE Sealed!Next
  <2>1. HoldsAudit(e) /\ opened = {} /\ run[e] = e
    BY <1>2 DEF SerialInv, OwnerInv, Commands, OpenTest, EvaluationInv, CommandInv, EvaluatorInv
  <2>2. Sealed!Open
    BY <1>2, <2>1 DEF OpenTest, Sealed!Open, Phase, HoldsAudit, Completed
  <2> QED
    BY <2>2 DEF Sealed!Next
<1>3. ASSUME NEW e \in FinalRuns, EvaluateCompletes(e) PROVE Sealed!Next
  <2>1. e \in Commands /\ run[e] = e
    BY DEF Commands, EvaluationInv, CommandInv, EvaluatorInv
  <2> QED
    BY <1>3, <2>1, RefinesComplete DEF EvaluateCompletes, Completed, Sealed!Next
<1>4. ASSUME NEW c \in Recoverers, RecoverCompletes(c) PROVE Sealed!Next
  BY <1>4, RefinesComplete DEF RecoverCompletes, Completed, Commands, Sealed!Next
<1>5. ASSUME NEW e \in FinalRuns, EvaluateStart(e) \/ EvaluateStep(e),
             ~AuthorizeTest(e), ~OpenTest(e), ~EvaluateCompletes(e)
      PROVE  UNCHANGED <<audit, opened>>
  BY <1>5 DEF EvaluateStart, EvaluateStep, SaveEvidence, StartRun, LogModel,
     EvaluateResolvesChampion, EvaluateReadsChampion, EvaluateTagsGates, evaluationVars
<1>6. ASSUME NEW c \in Recoverers, RecoverStart(c) \/ RecoverStep(c), ~RecoverCompletes(c)
      PROVE  UNCHANGED <<audit, opened>>
  BY <1>6 DEF RecoverStart, RecoverStep, RecoverReadsEvidence, RecoverResolvesChampion,
     RecoverReadsChampion, RecoverTagsGates, evaluationVars
<1>7. ASSUME NEW c \in Commands, Stop(c), UNCHANGED evaluationVars
      PROVE  UNCHANGED <<audit, opened>>
  BY <1>7 DEF evaluationVars
<1>8. CASE UNCHANGED vars
  BY <1>8, InvisibleStep DEF vars, evaluationVars
<1> QED
  BY <1>1, <1>2, <1>3, <1>4, <1>5, <1>6, <1>7, <1>8, InvisibleStep DEF Next, Commands

(* Evaluation, crash and recovery together implement the sealed-test       *)
(* protocol, step by step, for any number of executions.                   *)
THEOREM ImplementsSealedTest ==
    ASSUME Serial
    PROVE  Spec => SealedTestProtocol
<1>1. Spec => [](EvaluationInv /\ SerialInv)
  BY SerialInvariant
<1> QED
  BY <1>1, RefinesInit, RefinesNext, PTL DEF Spec, SealedTestProtocol, Sealed!Spec

(* The audit record only ever moves forward, and keeps its evaluation.     *)
THEOREM AuditOnlyMovesForward ==
    ASSUME Serial
    PROVE  Spec => AuditMovesForward
<1> DEFINE Forward ==
        audit' # audit =>
            \/ audit.status = "absent" /\ audit'.status = "authorized_and_opened"
            \/ /\ audit.status = "authorized_and_opened" /\ audit'.status \in Completed
               /\ audit'.run = audit.run
<1>1. EvaluationInv /\ SerialInv /\ [Next]_vars => [Forward]_vars
  <2> SUFFICES ASSUME EvaluationInv, SerialInv, [Next]_vars, audit' # audit PROVE Forward
    OBVIOUS
  <2>1. ASSUME NEW e \in FinalRuns, AuthorizeTest(e) PROVE Forward
    BY <2>1 DEF SerialInv, OwnerInv, Commands, AuthorizeTest
  <2>2. ASSUME NEW c \in Commands, pc[c] = "gated", audit'.status \in Completed,
               audit'.run = run[c]
        PROVE  Forward
    <3>1. HoldsAudit(c)
      BY <2>2 DEF SerialInv, OwnerInv, Commands, Active, Ended, PastOpen, PastSave, PastLog,
         PastRegister
    <3> QED
      BY <2>2, <3>1 DEF HoldsAudit
  <2>3. ASSUME NEW e \in FinalRuns, EvaluateCompletes(e) PROVE Forward
    BY <2>2, <2>3 DEF EvaluateCompletes, Completed, Commands, EvaluationInv, CommandInv,
       EvaluatorInv
  <2>4. ASSUME NEW c \in Recoverers, RecoverCompletes(c) PROVE Forward
    BY <2>2, <2>4 DEF RecoverCompletes, Completed, Commands
  <2>5. \/ \E e \in FinalRuns : AuthorizeTest(e) \/ EvaluateCompletes(e)
        \/ \E c \in Recoverers : RecoverCompletes(c)
    BY DEF Next, EvaluateStart, EvaluateStep, OpenTest, SaveEvidence, StartRun, LogModel,
       EvaluateResolvesChampion, EvaluateReadsChampion, EvaluateTagsGates, RecoverStart,
       RecoverStep, RecoverReadsEvidence, RecoverResolvesChampion, RecoverReadsChampion,
       RecoverTagsGates, vars, evaluationVars
  <2> QED
    BY <2>1, <2>3, <2>4, <2>5
<1> QED
  BY <1>1, SerialInvariant, PTL DEF Spec, AuditMovesForward


=============================================================================
