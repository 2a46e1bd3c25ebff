------------------------- MODULE MCReleaseLifecycle -------------------------
(* An evaluated model within the regression tolerance (e1), one that only  *)
(* passes as a first champion (e2), a validation candidate that passes     *)
(* (t1) and one whose registered model does not load (t2).                 *)
EXTENDS ReleaseLifecycle

CONSTANTS p1, e1, e2, t1, t2

MCMacro(r) == IF r = p1 THEN 8 ELSE IF r = e2 THEN 6 ELSE 7

MCEvidence ==
    [r \in Runs |->
        [macro |-> MCMacro(r), recall |-> 5, latency |-> 1,
         loads |-> r # t2, contract |-> r # t2, signature |-> TRUE]]

=============================================================================
