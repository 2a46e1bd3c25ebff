---------------------- MODULE PredictionServing_proofs ----------------------
(***************************************************************************)
(* The tables implement the create-once store, feedback names the version  *)
(* that answered the ticket, and acknowledgements are true: for any number *)
(* of calls, requests, versions, outages and restarts.                     *)
(*                                                                         *)
(* The inductive invariant ties the tables to the calls: a recorded        *)
(* prediction is that of an answered call, and a feedback call that has    *)
(* found a prediction holds its version.                                   *)
(***************************************************************************)
EXTENDS PredictionServing, TLAPS

\* A call runs in a process that is up and has a model.
ProcessInv ==
    /\ \A c \in Calls : pc[c] \in Running => api = "up"
    /\ \A c \in PredictCalls : pc[c] = "inferring" => loaded \in Versions
    /\ \A c \in PredictCalls : pc[c] = "saving" => served[c] \in Versions

FoundInv ==
    \A c \in FeedbackCalls : pc[c] \in {"checking", "inserting"} =>
        durable /\ about[c] \in DOMAIN predictions /\ found[c] = predictions[about[c]]

\* Some answered call gave the version v to the request r.
AnsweredBy(r, v) == \E c \in PredictCalls : r \in Batch[c] /\ pc[c] = "answered" /\ served[c] = v

PredictionsAnswered == \A r \in DOMAIN predictions : AnsweredBy(r, predictions[r])
FeedbackAnswered == \A r \in DOMAIN feedback : AnsweredBy(r, feedback[r].version)

ServingInv ==
    /\ ServingTypeOK
    /\ ProcessInv
    /\ FoundInv
    /\ PredictionsAnswered
    /\ FeedbackAnswered
    /\ AcceptedFeedbackIsStored
    /\ DuplicateMeansStored

\* The prediction table after a write: its old rows stay as they are.
LEMMA Recorded ==
    ASSUME NEW c \in PredictCalls
    PROVE  /\ DOMAIN WithPredictions(c) = Batch[c] \cup DOMAIN predictions
           /\ \A r \in DOMAIN predictions : WithPredictions(c)[r] = predictions[r]
           /\ \A r \in Batch[c] \ DOMAIN predictions : WithPredictions(c)[r] = served[c]
BY DEF WithPredictions, Store!Put

\* Initially nothing is recorded and no call runs.
LEMMA InitServingInv == Init => ServingInv
<1> SUFFICES ASSUME Init PROVE ServingInv
  OBVIOUS
<1>1. DOMAIN predictions = {} /\ DOMAIN feedback = {}
  BY DEF Init, Store!Nothing
<1>2. \A c \in Calls : pc[c] = "idle"
  BY DEF Init
<1>3. PredictCalls \subseteq Calls /\ FeedbackCalls \subseteq Calls
  BY DEF Calls
<1>4. ServingTypeOK
  <2>1. pc \in [Calls -> {"idle"} \cup Running \cup Replies]
    BY DEF Init
  <2>2. /\ served \in [PredictCalls -> Versions \cup {NoModel}]
        /\ found \in [FeedbackCalls -> Versions \cup {NoModel}]
    BY DEF Init
  <2>3. /\ durable \in BOOLEAN /\ dbUp \in BOOLEAN /\ dbReady \in BOOLEAN
        /\ api \in {"down", "resolving", "loading", "up"}
        /\ about \in [FeedbackCalls -> Requests]
    BY DEF Init
  <2>4. {champion, resolved, loaded} \subseteq Versions \cup {NoModel} /\ starts \in 0..MaxRestarts
    BY ServingAssumption DEF Init
  <2> QED
    BY <1>1, <2>1, <2>2, <2>3, <2>4 DEF ServingTypeOK
<1>5. ProcessInv /\ FoundInv
  BY <1>2, <1>3 DEF ProcessInv, FoundInv, Running
<1>6. PredictionsAnswered /\ FeedbackAnswered
  BY <1>1 DEF PredictionsAnswered, FeedbackAnswered
<1>7. AcceptedFeedbackIsStored /\ DuplicateMeansStored
  BY <1>2, <1>3 DEF AcceptedFeedbackIsStored, DuplicateMeansStored
<1> QED
  BY <1>4, <1>5, <1>6, <1>7 DEF ServingInv

\* A call that moves without writing to a table keeps the invariant, if its
\* new place is one it may be at.
LEMMA CallMoves ==
    ASSUME ServingInv, ServingTypeOK', NEW c \in Calls, NEW label,
           pc' = [pc EXCEPT ![c] = label], UNCHANGED <<tableVars, durable, api, loaded, about>>,
           pc[c] # "answered", label # "created",
           label \in Running => api = "up",
           label = "inferring" => loaded \in Versions,
           label = "saving" => c \in FeedbackCalls \/ served'[c] \in Versions,
           label = "duplicate" => c \in PredictCalls \/ about[c] \in DOMAIN feedback,
           label \in {"checking", "inserting"} =>
               \/ c \in PredictCalls
               \/ /\ durable /\ about[c] \in DOMAIN predictions
                  /\ found'[c] = predictions[about[c]],
           \A d \in PredictCalls \ {c} : served'[d] = served[d],
           \A d \in FeedbackCalls \ {c} : found'[d] = found[d]
    PROVE  ServingInv'
<1> USE DEF ServingInv
<1>1. \A d \in Calls \ {c} : pc'[d] = pc[d]
  BY DEF ServingTypeOK
<1>2. pc'[c] = label
  BY DEF ServingTypeOK
<1>3. PredictCalls \subseteq Calls /\ FeedbackCalls \subseteq Calls
      /\ PredictCalls \cap FeedbackCalls = {}
  BY ServingAssumption DEF Calls
<1>4. ProcessInv'
  BY <1>1, <1>2, <1>3 DEF ProcessInv, Running
<1>5. FoundInv'
  BY <1>1, <1>2, <1>3 DEF FoundInv, tableVars
<1>6. ASSUME NEW r, NEW v, AnsweredBy(r, v) PROVE AnsweredBy(r, v)'
  <2>1. PICK d \in PredictCalls : r \in Batch[d] /\ pc[d] = "answered" /\ served[d] = v
    BY <1>6 DEF AnsweredBy
  <2> QED
    BY <2>1, <1>1, <1>3 DEF AnsweredBy
<1>7. PredictionsAnswered' /\ FeedbackAnswered'
  BY <1>6 DEF PredictionsAnswered, FeedbackAnswered, tableVars
<1>8. AcceptedFeedbackIsStored' /\ DuplicateMeansStored'
  BY <1>1, <1>2, <1>3 DEF AcceptedFeedbackIsStored, DuplicateMeansStored, tableVars
<1> QED
  BY <1>4, <1>5, <1>7, <1>8

\* Every step keeps the types.
LEMMA NextKeepsTypes ==
    ASSUME ServingInv, [Next]_vars
    PROVE  ServingTypeOK'
<1> USE ServingAssumption DEF ServingInv, ServingTypeOK, environmentVars, processVars, tableVars,
        callVars
<1>1. ASSUME NEW c \in Calls, NEW label \in {"idle"} \cup Running \cup Replies, CallGoto(c, label)
      PROVE  pc' \in [Calls -> {"idle"} \cup Running \cup Replies]
  BY <1>1 DEF CallGoto
<1> DEFINE Tables ==
        /\ DOMAIN predictions \subseteq Requests
        /\ \A r \in DOMAIN predictions : predictions[r] \in Versions
        /\ DOMAIN feedback \subseteq Requests
        /\ \A r \in DOMAIN feedback : feedback[r] \in [by : FeedbackCalls, version : Versions]
<1>2. CASE DatabaseToggles
  BY <1>2 DEF DatabaseToggles
<1>3. CASE ChampionMoves
  BY <1>3 DEF ChampionMoves
<1>4. CASE ApiStarts
  <2>1. Tables'
    BY <1>4 DEF ApiStarts, Store!Nothing
  <2>2. dbReady' \in BOOLEAN
    BY <1>4 DEF ApiStarts
  <2> QED
    BY <1>4, <2>1, <2>2 DEF ApiStarts
<1>5. CASE ApiResolvesChampion
  BY <1>5 DEF ApiResolvesChampion
<1>6. CASE ApiLoadsChampion
  BY <1>6 DEF ApiLoadsChampion
<1>7. CASE ApiDies
  <2>1. pc' \in [Calls -> {"idle"} \cup Running \cup Replies]
    BY <1>7 DEF ApiDies, Replies
  <2> QED
    BY <1>7, <2>1 DEF ApiDies
<1>8. ASSUME NEW c \in PredictCalls, PredictArrives(c) \/ PredictStep(c) PROVE ServingTypeOK'
  <2>1. c \in Calls
    BY DEF Calls
  <2>2. CASE PredictArrives(c)
    <3>1. pc' \in [Calls -> {"idle"} \cup Running \cup Replies]
      BY <1>1, <2>1, <2>2 DEF PredictArrives, Running, Replies
    <3> QED
      BY <2>2, <3>1 DEF PredictArrives
  <2>3. CASE Infers(c)
    <3>1. pc' \in [Calls -> {"idle"} \cup Running \cup Replies]
      BY <1>1, <2>1, <2>3 DEF Infers, Running, Replies
    <3> QED
      BY <2>3, <3>1 DEF Infers
  <2>4. CASE SavesPredictions(c)
    <3>1. pc' \in [Calls -> {"idle"} \cup Running \cup Replies]
      BY <1>1, <2>1, <2>4 DEF SavesPredictions, Replies
    <3>2. served[c] \in Versions
      BY <2>4 DEF SavesPredictions, ProcessInv
    <3>3. Tables'
      <4>1. CASE predictions' = WithPredictions(c)
        <5>1. Batch[c] \subseteq Requests /\ feedback' = feedback
          BY <2>4 DEF SavesPredictions
        <5>2. DOMAIN predictions' = Batch[c] \cup DOMAIN predictions
          BY <4>1, Recorded
        <5>3. ASSUME NEW r \in DOMAIN predictions' PROVE predictions'[r] \in Versions
          BY <3>2, <4>1, <5>2, <5>3, Recorded
        <5> QED
          BY <5>1, <5>2, <5>3
      <4> QED
        BY <2>4, <4>1 DEF SavesPredictions
    <3> QED
      BY <2>4, <3>1, <3>3 DEF SavesPredictions
  <2> QED
    BY <1>8, <2>2, <2>3, <2>4 DEF PredictStep
<1>9. ASSUME NEW c \in FeedbackCalls, FeedbackArrives(c) \/ FeedbackStep(c) PROVE ServingTypeOK'
  <2>1. c \in Calls
    BY DEF Calls
  <2>2. CASE FeedbackArrives(c)
    <3>1. pc' \in [Calls -> {"idle"} \cup Running \cup Replies]
      BY <1>1, <2>1, <2>2 DEF FeedbackArrives, Running, Replies
    <3> QED
      BY <2>2, <3>1 DEF FeedbackArrives
  <2>3. CASE FindsPrediction(c)
    <3>1. pc' \in [Calls -> {"idle"} \cup Running \cup Replies]
      BY <1>1, <2>1, <2>3 DEF FindsPrediction, Running, Replies
    <3> QED
      BY <2>3, <3>1 DEF FindsPrediction
  <2>4. CASE ChecksFeedback(c)
    <3>1. pc' \in [Calls -> {"idle"} \cup Running \cup Replies]
      BY <1>1, <2>1, <2>4 DEF ChecksFeedback, Running, Replies
    <3> QED
      BY <2>4, <3>1 DEF ChecksFeedback
  <2>5. CASE InsertsFeedback(c)
    <3>1. pc' \in [Calls -> {"idle"} \cup Running \cup Replies]
      BY <2>1, <2>5 DEF InsertsFeedback, CallGoto, Replies
    <3>2. found[c] \in Versions
      BY <2>5 DEF InsertsFeedback, FoundInv
    <3>3. Tables'
      <4> DEFINE row == [by |-> c, version |-> found[c]]
      <4>1. CASE feedback' = Store!Put(feedback, {about[c]}, row)
        <5>1. about[c] \in Requests /\ predictions' = predictions
          BY <2>5, <4>1 DEF InsertsFeedback
        <5>2. row \in [by : FeedbackCalls, version : Versions]
          BY <3>2
        <5>3. /\ DOMAIN feedback' = {about[c]} \cup DOMAIN feedback
              /\ feedback'[about[c]] = row
              /\ \A q \in DOMAIN feedback \ {about[c]} : feedback'[q] = feedback[q]
          <6> HIDE DEF row
          <6> QED
            BY <4>1 DEF Store!Put
        <5>4. ASSUME NEW r \in DOMAIN feedback'
              PROVE  feedback'[r] \in [by : FeedbackCalls, version : Versions]
          <6> HIDE DEF row
          <6> QED
            BY <5>2, <5>3, <5>4
        <5> QED
          BY <5>1, <5>3, <5>4
      <4> QED
        BY <2>5, <4>1 DEF InsertsFeedback, WithFeedback
    <3> QED
      BY <2>5, <3>1, <3>3 DEF InsertsFeedback
  <2>6. CASE CreatesFeedbackInMemory(c)
    <3>1. pc' \in [Calls -> {"idle"} \cup Running \cup Replies]
      BY <1>1, <2>1, <2>6 DEF CreatesFeedbackInMemory, Replies
    <3>2. Tables' /\ found' \in [FeedbackCalls -> Versions \cup {NoModel}]
      <4> DEFINE row == [by |-> c, version |-> predictions[about[c]]]
      <4>1. CASE UNCHANGED <<feedback, found>>
        BY <2>6, <4>1 DEF CreatesFeedbackInMemory
      <4>2. CASE /\ about[c] \in DOMAIN predictions
                 /\ found' = [found EXCEPT ![c] = predictions[about[c]]]
                 /\ feedback' = Store!Put(feedback, {about[c]}, row)
        <5>1. Tables'
          <6>1. about[c] \in Requests /\ predictions' = predictions
            BY <2>6, <4>2 DEF CreatesFeedbackInMemory
          <6>2. row \in [by : FeedbackCalls, version : Versions]
            BY <4>2
          <6>3. /\ DOMAIN feedback' = {about[c]} \cup DOMAIN feedback
                /\ feedback'[about[c]] = row
                /\ \A q \in DOMAIN feedback \ {about[c]} : feedback'[q] = feedback[q]
            <7> HIDE DEF row
            <7> QED
              BY <4>2 DEF Store!Put
          <6>4. ASSUME NEW r \in DOMAIN feedback'
                PROVE  feedback'[r] \in [by : FeedbackCalls, version : Versions]
            <7> HIDE DEF row
            <7> QED
              BY <6>2, <6>3, <6>4
          <6> QED
            BY <6>1, <6>3, <6>4
        <5>2. found' \in [FeedbackCalls -> Versions \cup {NoModel}]
          BY <4>2
        <5> QED
          BY <5>1, <5>2
      <4> QED
        BY <2>6, <4>1, <4>2 DEF CreatesFeedbackInMemory
    <3> QED
      BY <2>6, <3>1, <3>2 DEF CreatesFeedbackInMemory
  <2>7. CASE FeedbackFails(c)
    <3>1. pc' \in [Calls -> {"idle"} \cup Running \cup Replies]
      BY <1>1, <2>1, <2>7 DEF FeedbackFails, Replies
    <3> QED
      BY <2>7, <3>1 DEF FeedbackFails
  <2> QED
    BY <1>9, <2>2, <2>3, <2>4, <2>5, <2>6, <2>7 DEF FeedbackStep
<1>10. CASE UNCHANGED vars
  BY <1>10 DEF vars
<1> QED
  BY <1>2, <1>3, <1>4, <1>5, <1>6, <1>7, <1>8, <1>9, <1>10 DEF Next

\* The three writes to a table keep the invariant.
LEMMA WritesKeepServingInv ==
    ASSUME ServingInv, ServingTypeOK'
    PROVE  /\ \A c \in PredictCalls : SavesPredictions(c) => ServingInv'
           /\ \A c \in FeedbackCalls : InsertsFeedback(c) => ServingInv'
           /\ \A c \in FeedbackCalls : CreatesFeedbackInMemory(c) => ServingInv'
<1> USE DEF ServingInv
<1>1. PredictCalls \subseteq Calls /\ FeedbackCalls \subseteq Calls
      /\ PredictCalls \cap FeedbackCalls = {}
  BY ServingAssumption DEF Calls
<1>2. ASSUME NEW c \in PredictCalls, SavesPredictions(c) PROVE ServingInv'
  <2>1. /\ pc[c] = "saving" /\ pc' = [pc EXCEPT ![c] = "answered"]
        /\ UNCHANGED <<environmentVars, processVars, feedback, served, about, found>>
    BY <1>2 DEF SavesPredictions, CallGoto
  <2>2. pc'[c] = "answered" /\ \A d \in Calls \ {c} : pc'[d] = pc[d]
    BY <2>1, <1>1 DEF ServingTypeOK
  <2>3. /\ DOMAIN predictions \subseteq DOMAIN predictions'
        /\ \A r \in DOMAIN predictions : predictions'[r] = predictions[r]
        /\ \A r \in DOMAIN predictions' \ DOMAIN predictions :
               r \in Batch[c] /\ predictions'[r] = served[c]
    <3>1. CASE predictions' = WithPredictions(c)
      BY <3>1, Recorded
    <3>2. CASE UNCHANGED predictions
      BY <3>2
    <3> QED
      BY <1>2, <3>1, <3>2 DEF SavesPredictions
  <2>4. ProcessInv'
    BY <1>1, <2>1, <2>2 DEF ProcessInv, Running, processVars
  <2>5. FoundInv'
    BY <1>1, <2>1, <2>2, <2>3 DEF FoundInv, environmentVars
  <2>6. ASSUME NEW r, NEW v, AnsweredBy(r, v) PROVE AnsweredBy(r, v)'
    BY <1>1, <2>1, <2>2, <2>6 DEF AnsweredBy
  <2>7. PredictionsAnswered'
    <3> SUFFICES ASSUME NEW r \in DOMAIN predictions' PROVE AnsweredBy(r, predictions[r])'
      BY DEF PredictionsAnswered
    <3>1. CASE r \in DOMAIN predictions
      BY <3>1, <2>3, <2>6 DEF PredictionsAnswered
    <3>2. CASE r \notin DOMAIN predictions
      BY <3>2, <2>1, <2>2, <2>3 DEF AnsweredBy
    <3> QED
      BY <3>1, <3>2
  <2>8. FeedbackAnswered'
    BY <2>1, <2>6 DEF FeedbackAnswered
  <2>9. AcceptedFeedbackIsStored' /\ DuplicateMeansStored'
    BY <1>1, <2>1, <2>2 DEF AcceptedFeedbackIsStored, DuplicateMeansStored, environmentVars
  <2> QED
    BY <2>4, <2>5, <2>7, <2>8, <2>9
<1>3. ASSUME NEW c \in FeedbackCalls, NEW v, NEW label \in {"created", "unavailable"},
             pc' = [pc EXCEPT ![c] = label], pc[c] # "answered",
             about[c] \in DOMAIN predictions, about[c] \notin DOMAIN feedback,
             v = predictions[about[c]],
             feedback' = Store!Put(feedback, {about[c]}, [by |-> c, version |-> v]),
             UNCHANGED <<environmentVars, processVars, predictions, served, about>>,
             \A d \in FeedbackCalls \ {c} : found'[d] = found[d]
      PROVE  ServingInv'
  <2>1. pc'[c] = label /\ \A d \in Calls \ {c} : pc'[d] = pc[d]
    BY <1>1, <1>3 DEF ServingTypeOK
  <2>2. /\ DOMAIN feedback' = {about[c]} \cup DOMAIN feedback
        /\ feedback'[about[c]] = [by |-> c, version |-> v]
        /\ \A r \in DOMAIN feedback : feedback'[r] = feedback[r]
    BY <1>3 DEF Store!Put
  <2>3. ProcessInv'
    BY <1>1, <1>3, <2>1 DEF ProcessInv, Running, processVars
  <2>4. FoundInv'
    BY <1>1, <1>3, <2>1 DEF FoundInv, environmentVars
  <2>5. ASSUME NEW r, NEW w, AnsweredBy(r, w) PROVE AnsweredBy(r, w)'
    <3>1. PICK d \in PredictCalls : r \in Batch[d] /\ pc[d] = "answered" /\ served[d] = w
      BY <2>5 DEF AnsweredBy
    <3> QED
      BY <3>1, <1>1, <1>3, <2>1 DEF AnsweredBy
  <2>6. PredictionsAnswered'
    BY <1>3, <2>5 DEF PredictionsAnswered
  <2>7. FeedbackAnswered'
    <3> SUFFICES ASSUME NEW r \in DOMAIN feedback'
                 PROVE  AnsweredBy(r, feedback[r].version)'
      BY DEF FeedbackAnswered
    <3>1. CASE r \in DOMAIN feedback
      BY <3>1, <2>2, <2>5 DEF FeedbackAnswered
    <3>2. CASE r = about[c]
      BY <3>2, <1>3, <2>2, <2>5 DEF PredictionsAnswered
    <3> QED
      BY <2>2, <3>1, <3>2
  <2>8. DuplicateMeansStored'
    BY <1>1, <1>3, <2>1, <2>2 DEF DuplicateMeansStored, environmentVars
  <2>9. AcceptedFeedbackIsStored'
    <3> SUFFICES ASSUME durable, NEW d \in FeedbackCalls, pc'[d] = "created"
                 PROVE  about[d] \in DOMAIN feedback' /\ feedback'[about[d]].by = d
      BY <1>3 DEF AcceptedFeedbackIsStored, environmentVars
    <3>1. CASE d = c
      BY <3>1, <2>2
    <3>2. CASE d # c
      BY <3>2, <1>1, <2>1, <2>2 DEF AcceptedFeedbackIsStored
    <3> QED
      BY <3>1, <3>2
  <2> QED
    BY <1>3, <2>3, <2>4, <2>6, <2>7, <2>8, <2>9
<1>4. ASSUME NEW c \in FeedbackCalls, InsertsFeedback(c) PROVE ServingInv'
  <2>1. CASE about[c] \in DOMAIN feedback
    <3>1. pc' = [pc EXCEPT ![c] = "duplicate"] /\ UNCHANGED feedback
      BY <1>4, <2>1 DEF InsertsFeedback, CallGoto
    <3> QED
      BY <1>1, <1>4, <2>1, <3>1, CallMoves
         DEF InsertsFeedback, Running, environmentVars, processVars, tableVars
  <2>2. CASE about[c] \notin DOMAIN feedback
    <3>1. PICK label \in {"created", "unavailable"} : pc' = [pc EXCEPT ![c] = label]
      BY <1>4, <2>2 DEF InsertsFeedback
    <3>2. about[c] \in DOMAIN predictions /\ found[c] = predictions[about[c]]
      BY <1>4 DEF InsertsFeedback, FoundInv
    <3> QED
      BY <1>3, <1>4, <2>2, <3>1, <3>2 DEF InsertsFeedback, WithFeedback
  <2> QED
    BY <2>1, <2>2
<1>5. ASSUME NEW c \in FeedbackCalls, CreatesFeedbackInMemory(c) PROVE ServingInv'
  <2>1. CASE about[c] \notin DOMAIN predictions
    BY <1>1, <1>5, <2>1, CallMoves
       DEF CreatesFeedbackInMemory, CallGoto, Running, environmentVars, processVars, tableVars
  <2>2. CASE about[c] \in DOMAIN predictions \cap DOMAIN feedback
    BY <1>1, <1>5, <2>2, CallMoves
       DEF CreatesFeedbackInMemory, CallGoto, Running, environmentVars, processVars, tableVars
  <2>3. CASE about[c] \in DOMAIN predictions \ DOMAIN feedback
    <3>1. \A d \in FeedbackCalls \ {c} : found'[d] = found[d]
      BY <1>5, <2>3 DEF CreatesFeedbackInMemory, ServingTypeOK
    <3> QED
      BY <1>3, <1>5, <2>3, <3>1 DEF CreatesFeedbackInMemory, CallGoto
  <2> QED
    BY <2>1, <2>2, <2>3
<1> QED
  BY <1>2, <1>4, <1>5

\* The process dies, or starts again with or without its tables.
LEMMA ProcessStepsKeepServingInv ==
    ASSUME ServingInv, ServingTypeOK',
           \/ DatabaseToggles \/ ChampionMoves \/ ApiStarts \/ ApiResolvesChampion
           \/ ApiLoadsChampion \/ ApiDies \/ UNCHANGED vars
    PROVE  ServingInv'
<1> USE DEF ServingInv, environmentVars, processVars, tableVars, callVars
<1>1. PredictCalls \subseteq Calls /\ FeedbackCalls \subseteq Calls
  BY DEF Calls
<1>2. CASE ApiStarts
  <2>1. \A c \in Calls : pc[c] \notin Running
    BY <1>2 DEF ApiStarts, ProcessInv
  <2>2. ProcessInv' /\ FoundInv'
    BY <1>1, <1>2, <2>1 DEF ApiStarts, ProcessInv, FoundInv, Running
  <2>3. CASE durable
    BY <1>2, <2>2, <2>3
       DEF ApiStarts, PredictionsAnswered, FeedbackAnswered, AnsweredBy,
           AcceptedFeedbackIsStored, DuplicateMeansStored
  <2>4. CASE ~durable
    <3>1. DOMAIN predictions' = {} /\ DOMAIN feedback' = {}
      BY <1>2, <2>4 DEF ApiStarts, Store!Nothing
    <3> QED
      BY <1>2, <2>2, <2>4, <3>1
         DEF ApiStarts, PredictionsAnswered, FeedbackAnswered, AcceptedFeedbackIsStored,
             DuplicateMeansStored
  <2> QED
    BY <2>3, <2>4
<1>3. CASE ApiDies
  <2>1. \A c \in Calls : pc'[c] = IF pc[c] \in Running THEN "lost" ELSE pc[c]
    BY <1>3 DEF ApiDies
  <2>2. ProcessInv' /\ FoundInv'
    BY <1>1, <1>3, <2>1 DEF ApiDies, ProcessInv, FoundInv, Running
  <2>3. ASSUME NEW r, NEW v, AnsweredBy(r, v) PROVE AnsweredBy(r, v)'
    BY <1>1, <1>3, <2>1, <2>3 DEF ApiDies, AnsweredBy, Running
  <2>4. PredictionsAnswered' /\ FeedbackAnswered'
    BY <1>3, <2>3 DEF ApiDies, PredictionsAnswered, FeedbackAnswered
  <2>5. AcceptedFeedbackIsStored' /\ DuplicateMeansStored'
    BY <1>1, <1>3, <2>1 DEF ApiDies, AcceptedFeedbackIsStored, DuplicateMeansStored, Running
  <2> QED
    BY <2>2, <2>4, <2>5
<1>4. CASE DatabaseToggles \/ ChampionMoves \/ ApiResolvesChampion \/ ApiLoadsChampion
           \/ UNCHANGED vars
  <2>1. UNCHANGED <<durable, tableVars, callVars>>
    BY <1>4 DEF DatabaseToggles, ChampionMoves, ApiResolvesChampion, ApiLoadsChampion, vars
  <2>2. ProcessInv'
    <3>1. (\E c \in Calls : pc[c] \in Running) => UNCHANGED <<api, loaded>>
      BY <1>4 DEF DatabaseToggles, ChampionMoves, ApiResolvesChampion, ApiLoadsChampion, vars,
         ProcessInv
    <3> QED
      BY <1>1, <2>1, <3>1 DEF ProcessInv, Running
  <2> QED
    BY <2>1, <2>2
       DEF FoundInv, PredictionsAnswered, FeedbackAnswered, AnsweredBy,
           AcceptedFeedbackIsStored, DuplicateMeansStored
<1> QED
  BY <1>2, <1>3, <1>4

\* Every step keeps the invariant.
LEMMA NextServingInv == ServingInv /\ [Next]_vars => ServingInv'
<1> SUFFICES ASSUME ServingInv, [Next]_vars PROVE ServingInv'
  OBVIOUS
<1>1. ServingTypeOK'
  BY NextKeepsTypes
<1>2. ServingTypeOK
  BY DEF ServingInv
<1>3. PredictCalls \subseteq Calls /\ FeedbackCalls \subseteq Calls
      /\ PredictCalls \cap FeedbackCalls = {}
  BY ServingAssumption DEF Calls
<1> USE DEF CallGoto, environmentVars, processVars, tableVars
<1>4. ASSUME NEW c \in PredictCalls, PredictArrives(c) \/ Infers(c) PROVE ServingInv'
  <2>1. CASE PredictArrives(c)
    <3>1. loaded \in Versions \/ loaded = NoModel
      BY <1>2 DEF ServingTypeOK
    <3> QED
      BY <1>1, <1>3, <2>1, <3>1, CallMoves DEF PredictArrives, ServiceAvailable, Running
  <2>2. CASE Infers(c)
    <3>1. loaded \in Versions /\ api = "up"
      BY <1>3, <2>2 DEF Infers, ServingInv, ProcessInv, Running
    <3>2. CASE UNCHANGED served /\ CallGoto(c, "failed")
      BY <1>1, <1>3, <2>2, <3>2, CallMoves DEF Infers, Running
    <3>3. CASE served' = [served EXCEPT ![c] = loaded] /\ CallGoto(c, "saving")
      <4>1. served'[c] = loaded /\ \A d \in PredictCalls \ {c} : served'[d] = served[d]
        BY <1>2, <3>3 DEF ServingTypeOK
      <4> QED
        BY <1>1, <1>3, <2>2, <3>1, <3>3, <4>1, CallMoves DEF Infers
    <3> QED
      BY <2>2, <3>2, <3>3 DEF Infers
  <2> QED
    BY <1>4, <2>1, <2>2
<1>5. ASSUME NEW c \in FeedbackCalls,
             FeedbackArrives(c) \/ FindsPrediction(c) \/ ChecksFeedback(c) \/ FeedbackFails(c)
      PROVE  ServingInv'
  <2>1. CASE FeedbackArrives(c)
    <3>1. PICK label \in {"unavailable", "invalid_label", "finding"} : CallGoto(c, label)
      BY <2>1 DEF FeedbackArrives
    <3> QED
      BY <1>1, <1>3, <2>1, <3>1, CallMoves DEF FeedbackArrives
  <2>2. CASE FindsPrediction(c)
    <3>1. api = "up"
      BY <1>3, <2>2 DEF FindsPrediction, ServingInv, ProcessInv, Running
    <3>2. CASE about[c] \in DOMAIN predictions
      <4>1. /\ found'[c] = predictions[about[c]]
            /\ \A d \in FeedbackCalls \ {c} : found'[d] = found[d]
        BY <1>2, <2>2, <3>2 DEF FindsPrediction, ServingTypeOK
      <4> QED
        BY <1>1, <1>3, <2>2, <3>1, <3>2, <4>1, CallMoves DEF FindsPrediction
    <3>3. CASE about[c] \notin DOMAIN predictions
      BY <1>1, <1>3, <2>2, <3>3, CallMoves DEF FindsPrediction, Running
    <3> QED
      BY <3>2, <3>3
  <2>3. CASE ChecksFeedback(c)
    <3>1. /\ api = "up" /\ durable /\ about[c] \in DOMAIN predictions
          /\ found[c] = predictions[about[c]]
      BY <1>3, <2>3 DEF ChecksFeedback, ServingInv, ProcessInv, FoundInv, Running
    <3> QED
      BY <1>1, <1>3, <2>3, <3>1, CallMoves DEF ChecksFeedback
  <2>4. CASE FeedbackFails(c)
    BY <1>1, <1>3, <2>4, CallMoves DEF FeedbackFails, Running
  <2> QED
    BY <1>5, <2>1, <2>2, <2>3, <2>4
<1>6. ASSUME NEW c \in PredictCalls, PredictArrives(c) \/ PredictStep(c) PROVE ServingInv'
  BY <1>1, <1>4, <1>6, WritesKeepServingInv DEF PredictStep
<1>7. ASSUME NEW c \in FeedbackCalls, FeedbackArrives(c) \/ FeedbackStep(c) PROVE ServingInv'
  BY <1>1, <1>5, <1>7, WritesKeepServingInv DEF FeedbackStep
<1> QED
  BY <1>1, <1>6, <1>7, ProcessStepsKeepServingInv DEF Next

(* The invariant holds in every state: tables, calls and process agree.    *)
THEOREM ServingInvariant == Spec => []ServingInv
BY InitServingInv, NextServingInv, PTL DEF Spec

(* The tables and the places of the calls keep their types.                *)
THEOREM ServingTypeCorrect == Spec => []ServingTypeOK
<1>1. ServingInv => ServingTypeOK
  BY DEF ServingInv
<1> QED
  BY <1>1, ServingInvariant, PTL

(* Acknowledged feedback is in the table as its call gave it: no call that *)
(* races with it between the look and the insertion replaces it.           *)
THEOREM AcceptedIsStored == Spec => []AcceptedFeedbackIsStored
<1>1. ServingInv => AcceptedFeedbackIsStored
  BY DEF ServingInv
<1> QED
  BY <1>1, ServingInvariant, PTL

(* A refusal as a duplicate is true: the request has feedback.             *)
THEOREM DuplicatesAreStored == Spec => []DuplicateMeansStored
<1>1. ServingInv => DuplicateMeansStored
  BY DEF ServingInv
<1> QED
  BY <1>1, ServingInvariant, PTL

(* Feedback names the version that answered the ticket it corrects.        *)
THEOREM FeedbackNamesItsModel == Spec => []FeedbackNamesAnsweringModel
<1>1. ServingInv => FeedbackNamesAnsweringModel
  BY DEF ServingInv, FeedbackAnswered, AnsweredBy, FeedbackNamesAnsweringModel
<1> QED
  BY <1>1, ServingInvariant, PTL

\* The tables begin empty.
LEMMA RefinesStoreInit == Init => Store!StoreInit
BY DEF Init, Store!StoreInit, Store!Nothing

\* Every step records predictions, gives one feedback, forgets all of a store
\* that is not durable, or leaves the tables alone.
LEMMA RefinesStoreNext == ServingInv /\ [Next]_vars => [Store!StoreNext]_(Store!storeVars)
<1> SUFFICES ASSUME ServingInv, [Next]_vars PROVE [Store!StoreNext]_(Store!storeVars)
  OBVIOUS
<1> USE DEF environmentVars, processVars, tableVars
<1>1. ASSUME NEW c \in PredictCalls, SavesPredictions(c)
      PROVE  [Store!StoreNext]_(Store!storeVars)
  <2>1. CASE predictions' = WithPredictions(c)
    <3>1. served[c] \in Versions
      BY <1>1 DEF SavesPredictions, ServingInv, ProcessInv
    <3>2. Batch[c] \ DOMAIN predictions \in SUBSET (Requests \ DOMAIN predictions)
      BY ServingAssumption
    <3>3. Store!Record
      BY <1>1, <2>1, <3>1, <3>2 DEF SavesPredictions, WithPredictions, Store!Record
    <3> QED
      BY <3>3 DEF Store!StoreNext
  <2>2. CASE UNCHANGED predictions
    BY <1>1, <2>2 DEF SavesPredictions, Store!storeVars
  <2> QED
    BY <1>1, <2>1, <2>2 DEF SavesPredictions
<1>2. ASSUME NEW c \in FeedbackCalls, about[c] \in DOMAIN predictions \ DOMAIN feedback,
             feedback' = Store!Put(feedback, {about[c]},
                                   [by |-> c, version |-> predictions[about[c]]]),
             UNCHANGED <<predictions, durable>>
      PROVE  [Store!StoreNext]_(Store!storeVars)
  <2>1. Store!Give
    BY <1>2 DEF Store!Give
  <2> QED
    BY <2>1 DEF Store!StoreNext
<1>3. ASSUME NEW c \in FeedbackCalls, InsertsFeedback(c)
      PROVE  [Store!StoreNext]_(Store!storeVars)
  <2>1. about[c] \in DOMAIN predictions /\ found[c] = predictions[about[c]]
    BY <1>3 DEF InsertsFeedback, ServingInv, FoundInv
  <2>2. CASE about[c] \notin DOMAIN feedback
    BY <1>2, <1>3, <2>1, <2>2 DEF InsertsFeedback, WithFeedback
  <2>3. CASE about[c] \in DOMAIN feedback
    BY <1>3, <2>3 DEF InsertsFeedback, Store!storeVars
  <2> QED
    BY <2>2, <2>3
<1>4. ASSUME NEW c \in FeedbackCalls, CreatesFeedbackInMemory(c)
      PROVE  [Store!StoreNext]_(Store!storeVars)
  <2>1. CASE UNCHANGED feedback
    BY <1>4, <2>1 DEF CreatesFeedbackInMemory, Store!storeVars
  <2>2. CASE about[c] \in DOMAIN predictions \ DOMAIN feedback
    BY <1>2, <1>4, <2>2 DEF CreatesFeedbackInMemory
  <2> QED
    BY <1>4, <2>1, <2>2 DEF CreatesFeedbackInMemory
<1>5. CASE ApiStarts
  <2>1. CASE durable
    BY <1>5, <2>1 DEF ApiStarts, Store!storeVars
  <2>2. CASE ~durable
    <3>1. Store!Forget
      BY <1>5, <2>2 DEF ApiStarts, Store!Forget
    <3> QED
      BY <3>1 DEF Store!StoreNext
  <2> QED
    BY <2>1, <2>2
<1>6. ASSUME \/ DatabaseToggles \/ ChampionMoves \/ ApiResolvesChampion \/ ApiLoadsChampion
             \/ ApiDies \/ UNCHANGED vars
             \/ \E c \in PredictCalls : PredictArrives(c) \/ Infers(c)
             \/ \E c \in FeedbackCalls :
                    \/ FeedbackArrives(c) \/ FindsPrediction(c) \/ ChecksFeedback(c)
                    \/ FeedbackFails(c)
      PROVE  [Store!StoreNext]_(Store!storeVars)
  BY <1>6 DEF DatabaseToggles, ChampionMoves, ApiResolvesChampion, ApiLoadsChampion, ApiDies, vars,
     PredictArrives, Infers, FeedbackArrives, FindsPrediction, ChecksFeedback, FeedbackFails,
     Store!storeVars
<1> QED
  BY <1>1, <1>3, <1>4, <1>5, <1>6 DEF Next, PredictStep, FeedbackStep

(* Both repositories implement the create-once store, for any interleaving *)
(* of calls, outages, deaths and restarts.                                 *)
THEOREM ImplementsStore == Spec => CreateOnceStore
BY ServingInvariant, RefinesStoreInit, RefinesStoreNext, PTL
   DEF Spec, CreateOnceStore, Store!StoreSpec

=============================================================================
