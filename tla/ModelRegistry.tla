---------------------------- MODULE ModelRegistry ----------------------------
(***************************************************************************)
(* The MLflow model registry as registry/service.py uses it: numbered      *)
(* versions that never change their run, two aliases, and the register     *)
(* sub-procedure that the final evaluation, its recovery and the           *)
(* orchestrated candidate task all call.  Every remote call is a step of   *)
(* its own, so the calls of concurrent commands interleave.                *)
(*                                                                         *)
(* A version's metric and lineage tags are functions of the run it was     *)
(* created from, so a version keeps its run and the one tag that is        *)
(* computed again later, promotion_gates_passed.                           *)
(***************************************************************************)
EXTENDS Integers, Sequences, PromotionGates

CONSTANTS
    PriorRuns,    \* final-evaluation runs of earlier releases
    FinalRuns,    \* executions of evaluate_final, named by their run
    TrainRuns,    \* executions of the candidate workflow, named by their run
    Clients,      \* every command that talks to the registry
    Evidence,     \* what is measured for the model of a run
    MaxVersions,  \* bound on registered versions
    MaxStops,     \* bound on commands that die in the middle
    Serial,       \* TRUE: one command at a time (a single operator)
    Flaky,        \* TRUE: a registry read may raise MlflowException
    NoRun

Runs == PriorRuns \cup FinalRuns \cup TrainRuns

ASSUME RegistryAssumption ==
    /\ FinalRuns \cup TrainRuns \subseteq Clients
    /\ PriorRuns \cap (FinalRuns \cup TrainRuns) = {}
    /\ FinalRuns \cap TrainRuns = {}
    /\ NoRun \notin Runs
    /\ Evidence \in [Runs -> PromotionEvidence]
    /\ MaxVersions \in Nat /\ MaxStops \in Nat
    /\ Serial \in BOOLEAN /\ Flaky \in BOOLEAN

VARIABLES
    versions,  \* the registered versions, in order of their number
    alias,     \* alias -> version number, 0 when the alias does not exist
    pc,        \* where each command is
    run,       \* the run whose model a command handles
    ver,       \* the version a command registered, found or resolved
    seen,      \* the champion version a command resolved, 0 for None
    stops      \* how many commands died so far

registryVars == <<versions, alias, pc, run, ver, seen, stops>>

GateTag == {"unset", "true", "false"}
Version == [run : Runs, gates : GateTag]

Ended == {"idle", "done", "refused", "lineage_missing", "stopped"}
Active(c) == pc[c] \notin Ended
MayStart(c) == Serial => \A d \in Clients : ~Active(d)

RegistryInit ==
    /\ \E prior \in {<<>>} \cup {<<[run |-> r, gates |-> "true"]>> : r \in PriorRuns} :
        /\ versions = prior
        /\ alias = [candidate |-> Len(prior), champion |-> Len(prior)]
    /\ pc = [c \in Clients |-> "idle"]
    /\ run = [c \in Clients |-> IF c \in FinalRuns \cup TrainRuns THEN c ELSE NoRun]
    /\ ver = [c \in Clients |-> 0]
    /\ seen = [c \in Clients |-> 0]
    /\ stops = 0

Goto(c, label) == pc' = [pc EXCEPT ![c] = label]

VersionsOf(r) == {v \in DOMAIN versions : versions[v].run = r}

\* Versions whose tags carry test_macro_f1: the evaluated ones.  Orchestrated
\* candidates carry validation_macro_f1 instead.
HasTestMetric(v) == versions[v].run \in FinalRuns \cup PriorRuns

\* Moving one alias is one atomic registry call.
SetAlias(name, v) == alias' = [alias EXCEPT ![name] = v]

-----------------------------------------------------------------------------
FindVersion_AlwaysCreates(c, found, missing) ==
    /\ ver' = [ver EXCEPT ![c] = 0]
    /\ Goto(c, missing)

(* find_version_by_run_id: the latest version of the run.  An exception of *)
(* the search is swallowed and reads as "no version".                      *)
FindVersion(c, found, missing) ==
    \/ \E v \in VersionsOf(run[c]) :
        /\ \A w \in VersionsOf(run[c]) : w <= v
        /\ ver' = [ver EXCEPT ![c] = v]
        /\ Goto(c, found)
    \/ /\ VersionsOf(run[c]) = {} \/ Flaky
       /\ ver' = [ver EXCEPT ![c] = 0]
       /\ Goto(c, missing)

(* resolve_alias("champion"): an exception also reads as "no champion".    *)
ResolveChampion(c, next) ==
    /\ \/ seen' = [seen EXCEPT ![c] = alias.champion]
       \/ Flaky /\ seen' = [seen EXCEPT ![c] = 0]
    /\ Goto(c, next)

\* The metric the gates compare with: that of the resolved champion.
ChampionMacro(c) ==
    IF seen[c] = 0 THEN NoMetric ELSE Evidence[versions[seen[c]].run].macro

RegisterFind(c) ==
    /\ pc[c] = "register_find"
    /\ FindVersion(c, "register_alias", "register_create")
    /\ UNCHANGED <<versions, alias, run, seen, stops>>

\* The next number is guessed instead of taken from what was created.
RegisterCreate_GuessesNumber(c) ==
    /\ pc[c] = "register_create"
    /\ Len(versions) < MaxVersions
    /\ versions' = Append(versions, [run |-> run[c], gates |-> "unset"])
    /\ ver' = [ver EXCEPT ![c] = Len(versions) + 2]
    /\ Goto(c, "register_alias")
    /\ UNCHANGED <<alias, run, seen, stops>>

\* mlflow.register_model: the version appears together with its tags.
RegisterCreate(c) ==
    /\ pc[c] = "register_create"
    /\ Len(versions) < MaxVersions
    /\ versions' = Append(versions, [run |-> run[c], gates |-> "unset"])
    /\ ver' = [ver EXCEPT ![c] = Len(versions) + 1]
    /\ Goto(c, "register_alias")
    /\ UNCHANGED <<alias, run, seen, stops>>

RegisterAlias_NeverMoves(c) ==
    /\ pc[c] = "register_alias"
    /\ Goto(c, "registered")
    /\ UNCHANGED <<versions, alias, run, ver, seen, stops>>

RegisterAlias(c) ==
    /\ pc[c] = "register_alias"
    /\ SetAlias("candidate", ver[c])
    /\ Goto(c, "registered")
    /\ UNCHANGED <<versions, run, ver, seen, stops>>

RegisterCandidate(c) == RegisterFind(c) \/ RegisterCreate(c) \/ RegisterAlias(c)

\* The tag promotion_gates_passed, from the evidence of the command's run.
TagGates(c) ==
    versions' = [versions EXCEPT ![ver[c]].gates =
        IF Allowed(Evidence[run[c]], ChampionMacro(c)) THEN "true" ELSE "false"]

(* A command dies: an uncaught exception or a killed process.  Its locals  *)
(* are lost and nothing is undone.                                         *)
Stop(c) ==
    /\ Active(c)
    /\ stops < MaxStops
    /\ stops' = stops + 1
    /\ Goto(c, "stopped")
    /\ UNCHANGED <<versions, alias, run, ver, seen>>

-----------------------------------------------------------------------------
\* What the registry part of the state looks like, whoever is running.
RegistryTypeOK ==
    /\ versions \in Seq(Version)
    /\ alias \in [candidate : 0..Len(versions), champion : 0..Len(versions)]
    /\ run \in [Clients -> Runs \cup {NoRun}]
    /\ ver \in [Clients -> 0..Len(versions)]
    /\ seen \in [Clients -> 0..Len(versions)]
    /\ stops \in 0..MaxStops

(* A run has at most one registered version, however often its             *)
(* registration was interrupted and repeated: find_version_by_run_id finds *)
(* the version a killed register_candidate left behind.                    *)
OneVersionPerRun ==
    \A v, w \in DOMAIN versions : versions[v].run = versions[w].run => v = w

=============================================================================
