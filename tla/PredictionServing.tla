-------------------------- MODULE PredictionServing --------------------------
(***************************************************************************)
(* The API process (api/app.py, api/service.py) and its prediction and     *)
(* feedback store (db/repositories.py).  The process connects the database *)
(* and loads the champion once, when it starts; then calls run in threads, *)
(* each database statement a step of its own.  It may die at any time and  *)
(* be started again, with another champion or another database state.      *)
(*                                                                         *)
(* With DATABASE_URL the tables survive the process; without it they are   *)
(* dictionaries of the process, used under a lock.                         *)
(***************************************************************************)
EXTENDS Naturals

CONSTANTS
    PredictCalls,  \* calls of /predict and /predict/batch
    FeedbackCalls, \* calls of /feedback
    Requests,      \* request ids
    Batch,         \* predict call -> the fresh request ids of its tickets
    Versions,      \* registered model versions
    NoModel,
    Labels, LabelsOf, \* queues, and the classes of each version
    MaxRestarts    \* bound on starts of the process

Calls == PredictCalls \cup FeedbackCalls

ASSUME ServingAssumption ==
    /\ PredictCalls \cap FeedbackCalls = {}
    /\ Batch \in [PredictCalls -> SUBSET Requests]
    /\ \A c, d \in PredictCalls : c # d => Batch[c] \cap Batch[d] = {}
    /\ NoModel \notin Versions
    /\ LabelsOf \in [Versions -> SUBSET Labels]
    /\ MaxRestarts \in Nat

VARIABLES
    durable,     \* DATABASE_URL is set
    dbUp,        \* the database answers
    champion,    \* the registry's champion alias
    api,         \* the process: its place in startup, or "up"
    dbReady,     \* runtime.database_ready
    resolved,    \* the version the alias named during startup
    loaded,      \* runtime.champion
    starts,
    predictions, \* the table prediction_events: request -> version
    feedback,    \* the table feedback_events: request -> call and version
    pc,          \* where each call is
    served,      \* predict call -> the version that answered it
    about,       \* feedback call -> the request it is about
    found        \* feedback call -> the version of the prediction it found

environmentVars == <<durable, dbUp, champion>>
processVars == <<api, dbReady, resolved, loaded, starts>>
tableVars == <<predictions, feedback>>
callVars == <<pc, served, about, found>>
vars == <<environmentVars, processVars, tableVars, callVars>>

Store == INSTANCE FeedbackStore WITH Givers <- FeedbackCalls

Replies == {"answered", "failed", "created", "duplicate", "unknown", "invalid_label",
            "unavailable", "lost"}
Running == {"inferring", "saving", "finding", "checking", "inserting"}

Init ==
    /\ durable \in BOOLEAN
    /\ dbUp \in BOOLEAN
    /\ champion \in Versions \cup {NoModel}
    /\ api = "down" /\ dbReady = FALSE
    /\ resolved = NoModel /\ loaded = NoModel /\ starts = 0
    /\ predictions = Store!Nothing /\ feedback = Store!Nothing
    /\ pc = [c \in Calls |-> "idle"]
    /\ served = [c \in PredictCalls |-> NoModel]
    /\ about \in [FeedbackCalls -> Requests]
    /\ found = [c \in FeedbackCalls |-> NoModel]

CallGoto(c, label) == pc' = [pc EXCEPT ![c] = label]

-----------------------------------------------------------------------------
(* Outside the process *)

DatabaseToggles ==
    /\ durable
    /\ dbUp' = ~dbUp
    /\ UNCHANGED <<durable, champion, processVars, tableVars, callVars>>

ChampionMoves ==
    /\ \E v \in Versions \ {champion} : champion' = v
    /\ UNCHANGED <<durable, dbUp, processVars, tableVars, callVars>>

-----------------------------------------------------------------------------
(* lifespan of api/app.py *)

\* Without DATABASE_URL the process begins with an empty store, unless the
\* settings demand a database; a database must answer with the expected schema.
ApiStarts ==
    /\ api = "down"
    /\ starts < MaxRestarts
    /\ starts' = starts + 1
    /\ api' = "resolving"
    /\ dbReady' \in {FALSE, durable => dbUp}
    /\ IF durable THEN UNCHANGED tableVars
       ELSE predictions' = Store!Nothing /\ feedback' = Store!Nothing
    /\ UNCHANGED <<environmentVars, resolved, loaded, callVars>>

\* load_champion: the alias is resolved, then the version it named is loaded.
ApiResolvesChampion ==
    /\ api = "resolving"
    /\ \/ resolved' = champion
       \/ resolved' = NoModel
    /\ api' = IF resolved' = NoModel THEN "up" ELSE "loading"
    /\ UNCHANGED <<environmentVars, dbReady, loaded, starts, tableVars, callVars>>

ApiLoadsChampion ==
    /\ api = "loading"
    /\ loaded' \in {resolved, NoModel}
    /\ api' = "up"
    /\ UNCHANGED <<environmentVars, dbReady, resolved, starts, tableVars, callVars>>

\* Its callers lose their connection, and open transactions are rolled back.
ApiDies ==
    /\ api # "down"
    /\ api' = "down" /\ dbReady' = FALSE
    /\ resolved' = NoModel /\ loaded' = NoModel
    /\ pc' = [c \in Calls |-> IF pc[c] \in Running THEN "lost" ELSE pc[c]]
    /\ UNCHANGED <<environmentVars, starts, tableVars, served, about, found>>

-----------------------------------------------------------------------------
(* _require_service *)

ServiceAvailable == api = "up" /\ loaded # NoModel /\ dbReady

(* /predict and /predict/batch: predict_many *)

PredictArrives(c) ==
    /\ pc[c] = "idle" /\ api = "up"
    /\ CallGoto(c, IF ServiceAvailable THEN "inferring" ELSE "unavailable")
    /\ UNCHANGED <<environmentVars, processVars, tableVars, served, about, found>>

\* The error of a failed inference is not raised.
Infers_SwallowsError(c) ==
    /\ pc[c] = "inferring"
    /\ \/ served' = [served EXCEPT ![c] = loaded]
       \/ UNCHANGED served
    /\ CallGoto(c, "saving")
    /\ UNCHANGED <<environmentVars, processVars, tableVars, about, found>>

\* Inference or the validation of its outputs may fail.
Infers(c) ==
    /\ pc[c] = "inferring"
    /\ \/ /\ served' = [served EXCEPT ![c] = loaded]
          /\ CallGoto(c, "saving")
       \/ /\ CallGoto(c, "failed")
          /\ UNCHANGED served
    /\ UNCHANGED <<environmentVars, processVars, tableVars, about, found>>

WithPredictions(c) ==
    Store!Put(predictions, Batch[c] \ DOMAIN predictions, served[c])

\* The caller is made to wait for the analytics write.
SavesPredictions_Waits(c) ==
    /\ pc[c] = "saving"
    /\ durable => dbUp
    /\ predictions' = WithPredictions(c)
    /\ CallGoto(c, "answered")
    /\ UNCHANGED <<environmentVars, processVars, feedback, served, about, found>>

\* The write is best-effort: the caller is answered whatever becomes of it.
SavesPredictions(c) ==
    /\ pc[c] = "saving"
    /\ \/ /\ durable => dbUp
          /\ predictions' = WithPredictions(c)
       \/ /\ durable
          /\ UNCHANGED predictions
    /\ CallGoto(c, "answered")
    /\ UNCHANGED <<environmentVars, processVars, feedback, served, about, found>>

-----------------------------------------------------------------------------
(* /feedback: record_feedback *)

\* The corrected queue must be a class of the loaded champion.
FeedbackArrives(c) ==
    /\ pc[c] = "idle" /\ api = "up"
    /\ \E label \in Labels :
           CallGoto(c, CASE ~ServiceAvailable -> "unavailable"
                         [] ServiceAvailable /\ label \notin LabelsOf[loaded] -> "invalid_label"
                         [] OTHER -> "finding")
    /\ UNCHANGED <<environmentVars, processVars, tableVars, served, about, found>>

\* A call that finds the database down, or loses it, is told so.
FeedbackFails(c) ==
    /\ pc[c] \in {"finding", "checking", "inserting"} /\ durable
    /\ CallGoto(c, "unavailable")
    /\ UNCHANGED <<environmentVars, processVars, tableVars, served, about, found>>

\* The prediction is read first.
FindsPrediction(c) ==
    /\ pc[c] = "finding" /\ durable /\ dbUp
    /\ \/ /\ about[c] \in DOMAIN predictions
          /\ found' = [found EXCEPT ![c] = predictions[about[c]]]
          /\ CallGoto(c, "checking")
       \/ /\ about[c] \notin DOMAIN predictions
          /\ CallGoto(c, "unknown")
          /\ UNCHANGED found
    /\ UNCHANGED <<environmentVars, processVars, tableVars, served, about>>

ChecksFeedback(c) ==
    /\ pc[c] = "checking" /\ dbUp
    /\ CallGoto(c, IF about[c] \in DOMAIN feedback THEN "duplicate" ELSE "inserting")
    /\ UNCHANGED <<environmentVars, processVars, tableVars, served, about, found>>

\* The row names the champion that is loaded now.
WithFeedback_LoadedVersion(c) ==
    Store!Put(feedback, {about[c]}, [by |-> c, version |-> loaded])
\* The row names the version of the prediction.
WithFeedback(c) == Store!Put(feedback, {about[c]}, [by |-> c, version |-> found[c]])

\* Only the look at the table decides, not the constraint.
InsertsFeedback_NotUnique(c) ==
    /\ pc[c] = "inserting" /\ dbUp
    /\ feedback' = WithFeedback(c)
    /\ CallGoto(c, "created")
    /\ UNCHANGED <<environmentVars, processVars, predictions, served, about, found>>

\* Every error of the insertion is taken for the constraint's.
InsertsFeedback_AnyError(c) ==
    /\ pc[c] = "inserting" /\ dbUp
    /\ \/ /\ about[c] \notin DOMAIN feedback
          /\ feedback' = WithFeedback(c)
          /\ CallGoto(c, "created")
       \/ /\ CallGoto(c, "duplicate")
          /\ UNCHANGED feedback
    /\ UNCHANGED <<environmentVars, processVars, predictions, served, about, found>>

\* The row is inserted and committed, unless the unique constraint refuses it.
\* The acknowledgement of the commit may be lost.
InsertsFeedback(c) ==
    /\ pc[c] = "inserting" /\ dbUp
    /\ \/ /\ about[c] \notin DOMAIN feedback
          /\ feedback' = WithFeedback(c)
          /\ pc' \in {[pc EXCEPT ![c] = "created"], [pc EXCEPT ![c] = "unavailable"]}
       \/ /\ about[c] \in DOMAIN feedback
          /\ CallGoto(c, "duplicate")
          /\ UNCHANGED feedback
    /\ UNCHANGED <<environmentVars, processVars, predictions, served, about, found>>

\* The in-memory store does all of it under its lock.
CreatesFeedbackInMemory(c) ==
    /\ pc[c] = "finding" /\ ~durable
    /\ \/ /\ about[c] \notin DOMAIN predictions
          /\ CallGoto(c, "unknown")
          /\ UNCHANGED <<feedback, found>>
       \/ /\ about[c] \in DOMAIN predictions \cap DOMAIN feedback
          /\ CallGoto(c, "duplicate")
          /\ UNCHANGED <<feedback, found>>
       \/ /\ about[c] \in DOMAIN predictions \ DOMAIN feedback
          /\ found' = [found EXCEPT ![c] = predictions[about[c]]]
          /\ feedback' = Store!Put(feedback, {about[c]},
                                   [by |-> c, version |-> predictions[about[c]]])
          /\ CallGoto(c, "created")
    /\ UNCHANGED <<environmentVars, processVars, predictions, served, about>>

-----------------------------------------------------------------------------
PredictStep(c) == Infers(c) \/ SavesPredictions(c)

FeedbackStep(c) ==
    \/ FindsPrediction(c) \/ ChecksFeedback(c) \/ InsertsFeedback(c)
    \/ CreatesFeedbackInMemory(c) \/ FeedbackFails(c)

Next ==
    \/ DatabaseToggles \/ ChampionMoves
    \/ ApiStarts \/ ApiResolvesChampion \/ ApiLoadsChampion \/ ApiDies
    \/ \E c \in PredictCalls : PredictArrives(c) \/ PredictStep(c)
    \/ \E c \in FeedbackCalls : FeedbackArrives(c) \/ FeedbackStep(c)

Spec == Init /\ [][Next]_vars

\* A thread that serves a call goes on.
FairSpec ==
    /\ Spec
    /\ \A c \in PredictCalls : WF_vars(PredictStep(c))
    /\ \A c \in FeedbackCalls : WF_vars(FeedbackStep(c))

-----------------------------------------------------------------------------
(* Properties *)

\* Every variable has its type; a prediction is recorded with a version.
ServingTypeOK ==
    /\ durable \in BOOLEAN /\ dbUp \in BOOLEAN /\ dbReady \in BOOLEAN
    /\ {champion, resolved, loaded} \subseteq Versions \cup {NoModel}
    /\ api \in {"down", "resolving", "loading", "up"}
    /\ starts \in 0..MaxRestarts
    /\ DOMAIN predictions \subseteq Requests
    /\ \A r \in DOMAIN predictions : predictions[r] \in Versions
    /\ DOMAIN feedback \subseteq Requests
    /\ \A r \in DOMAIN feedback : feedback[r] \in [by : FeedbackCalls, version : Versions]
    /\ pc \in [Calls -> {"idle"} \cup Running \cup Replies]
    /\ served \in [PredictCalls -> Versions \cup {NoModel}]
    /\ about \in [FeedbackCalls -> Requests]
    /\ found \in [FeedbackCalls -> Versions \cup {NoModel}]

\* The two repositories implement the create-once store: calls that race
\* between the check and the insertion, database outages, lost
\* acknowledgements and restarts never change or duplicate what is recorded.
CreateOnceStore == Store!StoreSpec

\* With a database, feedback that was acknowledged (201) is stored as that
\* call gave it, whatever later calls and restarts do (save_feedback).
AcceptedFeedbackIsStored ==
    durable => \A c \in FeedbackCalls : pc[c] = "created" =>
        about[c] \in DOMAIN feedback /\ feedback[about[c]].by = c

\* With a database, a call refused as a duplicate (409) is about a request
\* that has feedback: nobody's label is refused and lost.
DuplicateMeansStored ==
    durable => \A c \in FeedbackCalls : pc[c] = "duplicate" => about[c] \in DOMAIN feedback

\* Feedback names the model version that answered the ticket, also when it
\* arrives after a restart with another champion.
FeedbackNamesAnsweringModel ==
    \A r \in DOMAIN feedback :
        \E c \in PredictCalls : r \in Batch[c] /\ feedback[r].version = served[c]

\* Every call is answered, or its connection is lost with the process: an
\* outage of the database delays nobody for ever.
CallsAreAnswered == \A c \in Calls : pc[c] \in Running ~> pc[c] \in Replies

=============================================================================
