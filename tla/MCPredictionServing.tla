------------------------- MODULE MCPredictionServing -------------------------
(* A batch of two tickets; two versions whose classes                      *)
(* overlap.                                                                *)
EXTENDS PredictionServing, TLC

CONSTANTS p1, r1, r2, v1, v2, billing, sales, support

MCBatch == p1 :> {r1, r2}
MCLabelsOf == (v1 :> {billing, sales}) @@ (v2 :> {sales, support})

=============================================================================
