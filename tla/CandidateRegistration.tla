------------------------ MODULE CandidateRegistration ------------------------
(***************************************************************************)
(* orchestration/candidate.py under register_candidate_task of             *)
(* orchestration/flows.py: the candidate workflow registers the selected   *)
(* validation candidate, evaluates the gates and stops before promotion.   *)
(* The task is retried as a whole after any exception, so every write it   *)
(* makes may be made again.  A workflow is named by the MLflow run of its  *)
(* selected candidate; training itself is abstracted.                      *)
(***************************************************************************)
EXTENDS ModelRegistry

CONSTANTS
    Retries  \* runtime.temporary_failure_retries

ASSUME RetriesAssumption == Retries \in Nat

VARIABLES
    attempts,  \* retries the registration task of a workflow has used
    summary    \* workflow -> the result in its summary file

candidateVars == <<attempts, summary>>

NoSummary == [version |-> 0, gates |-> "unset"]

CandidateInit ==
    /\ attempts = [t \in TrainRuns |-> 0]
    /\ summary = [t \in TrainRuns |-> NoSummary]

\* A workflow whose summary file exists returns it and does nothing.
TrainStart(t) ==
    /\ pc[t] \in {"idle", "done"}
    /\ MayStart(t)
    /\ Goto(t, IF summary[t] = NoSummary THEN "trained" ELSE "done")
    /\ UNCHANGED <<versions, alias, run, ver, seen, stops, candidateVars>>

\* The search before register_candidate repeats its own.
CandidateFinds(t) ==
    /\ pc[t] = "trained"
    /\ FindVersion(t, "reusing", "register_find")
    /\ UNCHANGED <<versions, alias, run, seen, stops, candidateVars>>

\* assign_alias, then the tags, which are those of the run.
CandidateReusesVersion(t) ==
    /\ pc[t] = "reusing"
    /\ SetAlias("candidate", ver[t])
    /\ Goto(t, "registered")
    /\ UNCHANGED <<versions, run, ver, seen, stops, candidateVars>>

CandidateLoads(t) ==
    /\ pc[t] = "registered"
    /\ Evidence[run[t]].loads
    /\ Goto(t, "loaded")
    /\ UNCHANGED <<versions, alias, run, ver, seen, stops, candidateVars>>

\* load_version raises: the task is retried, in vain, and then fails.
CandidateCannotLoad(t) ==
    /\ pc[t] = "registered"
    /\ ~Evidence[run[t]].loads
    /\ \/ /\ attempts[t] < Retries
          /\ attempts' = [attempts EXCEPT ![t] = @ + 1]
          /\ Goto(t, "trained")
       \/ /\ attempts[t] = Retries
          /\ Goto(t, "stopped")
          /\ UNCHANGED attempts
    /\ UNCHANGED <<versions, alias, run, ver, seen, stops, summary>>

CandidateResolvesChampion(t) ==
    /\ pc[t] = "loaded"
    /\ ResolveChampion(t, "comparing")
    /\ UNCHANGED <<versions, alias, run, ver, stops, candidateVars>>

\* Every version carries one of the two metrics the comparison accepts.
CandidateTagsGates_NeverTags(t) ==
    /\ pc[t] = "comparing"
    /\ Goto(t, "gated")
    /\ UNCHANGED <<versions, alias, run, ver, seen, stops, candidateVars>>

CandidateTagsGates(t) ==
    /\ pc[t] = "comparing"
    /\ TagGates(t)
    /\ Goto(t, "gated")
    /\ UNCHANGED <<alias, run, ver, seen, stops, candidateVars>>

CandidateWritesSummary(t) ==
    /\ pc[t] = "gated"
    /\ summary' = [summary EXCEPT ![t] =
           [version |-> ver[t],
            gates |-> IF Allowed(Evidence[run[t]], ChampionMacro(t)) THEN "true" ELSE "false"]]
    /\ Goto(t, "done")
    /\ UNCHANGED <<versions, alias, run, ver, seen, stops, attempts>>

(* Another exception anywhere in the task: it starts again from its first  *)
(* call.  Without a retry left it ends the flow run (Stop).                *)
CandidateRetries(t) ==
    /\ Active(t)
    /\ attempts[t] < Retries
    /\ attempts' = [attempts EXCEPT ![t] = @ + 1]
    /\ Goto(t, "trained")
    /\ UNCHANGED <<versions, alias, run, ver, seen, stops, summary>>

CandidateStep(t) ==
    \/ CandidateFinds(t) \/ CandidateReusesVersion(t)
    \/ RegisterCandidate(t) /\ UNCHANGED candidateVars
    \/ CandidateLoads(t) \/ CandidateCannotLoad(t) \/ CandidateResolvesChampion(t)
    \/ CandidateTagsGates(t) \/ CandidateWritesSummary(t)

=============================================================================
