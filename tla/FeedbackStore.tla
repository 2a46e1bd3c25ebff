---------------------------- MODULE FeedbackStore ----------------------------
(***************************************************************************)
(* What the prediction and feedback tables promise: a prediction is        *)
(* recorded at most once and never changed, and feedback is created at     *)
(* most once for a recorded prediction, with the prediction's version.     *)
(* A store that is not durable may lose everything at once.                *)
(***************************************************************************)

CONSTANTS Requests, Versions, Givers

VARIABLES
    predictions, \* request -> model version, for recorded requests
    feedback,    \* request -> who gave it and the version it names
    durable

storeVars == <<predictions, feedback, durable>>

Nothing == [r \in {} |-> r]

\* The table in which these rows have this value.
Put(table, rows, value) ==
    [r \in DOMAIN table \cup rows |-> IF r \in rows THEN value ELSE table[r]]

StoreInit ==
    /\ predictions = Nothing
    /\ feedback = Nothing
    /\ durable \in BOOLEAN

\* Predictions of one model version are recorded together, or not at all.
Record ==
    /\ \E new \in SUBSET (Requests \ DOMAIN predictions), v \in Versions :
           predictions' = Put(predictions, new, v)
    /\ UNCHANGED <<feedback, durable>>

Give ==
    /\ \E r \in DOMAIN predictions \ DOMAIN feedback, g \in Givers :
           feedback' = Put(feedback, {r}, [by |-> g, version |-> predictions[r]])
    /\ UNCHANGED <<predictions, durable>>

Forget ==
    /\ ~durable
    /\ predictions' = Nothing /\ feedback' = Nothing
    /\ UNCHANGED durable

StoreNext == Record \/ Give \/ Forget

StoreSpec == StoreInit /\ [][StoreNext]_storeVars

=============================================================================
