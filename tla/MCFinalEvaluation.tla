-------------------------- MODULE MCFinalEvaluation --------------------------
(* A small instance: evidence that passes the gates, and evidence that only *)
(* fails them against the champion of an earlier release.                   *)
EXTENDS FinalEvaluation

CONSTANTS p1, e1, e2

MCEvidence ==
    [r \in Runs |->
        [macro |-> IF r = p1 THEN 8 ELSE IF r = e1 THEN 7 ELSE 6, recall |-> 5,
         latency |-> 1, loads |-> TRUE, contract |-> TRUE, signature |-> TRUE]]

=============================================================================
