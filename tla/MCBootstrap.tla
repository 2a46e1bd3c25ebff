----------------------------- MODULE MCBootstrap -----------------------------
(* Evaluations that pass every gate.                                        *)
EXTENDS Bootstrap

MCEvidence ==
    [r \in Runs |->
        [macro |-> 7, recall |-> 5, latency |-> 1,
         loads |-> TRUE, contract |-> TRUE, signature |-> TRUE]]

=============================================================================
