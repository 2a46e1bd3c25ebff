--------------------------- MODULE PromotionGates ---------------------------
(***************************************************************************)
(* The candidate-versus-champion gates of registry/gates.py.  Metrics are  *)
(* integers (the code's floats, scaled): a gate only compares them.        *)
(***************************************************************************)
EXTENDS Integers

CONSTANTS
    MinimumMacroF1, MaximumMacroF1Regression, MinimumRecall, MaximumLatency,
    RequireModelLoad, RequireContract, RequireSignature

ASSUME GateSettingsAssumption ==
    /\ MinimumMacroF1 \in Nat /\ MaximumMacroF1Regression \in Nat
    /\ MinimumRecall \in Nat /\ MaximumLatency \in Nat
    /\ {RequireModelLoad, RequireContract, RequireSignature} \subseteq BOOLEAN

\* champion_macro_f1 = None: there is no champion to compare with.
NoMetric == -1

PromotionEvidence ==
    [macro : Nat, recall : Nat, latency : Nat,
     loads : BOOLEAN, contract : BOOLEAN, signature : BOOLEAN]

\* The gates the evidence fails; every gate is evaluated, none short-cuts.
FailedGates(evidence, championMacro) ==
    {gate \in {"minimum_macro_f1", "champion_macro_f1_regression",
               "minimum_per_class_recall", "inference_latency",
               "model_load", "prediction_contract", "model_signature"} :
        \/ /\ gate = "minimum_macro_f1"
           /\ evidence.macro < MinimumMacroF1
        \/ /\ gate = "champion_macro_f1_regression"
           /\ championMacro # NoMetric
           /\ evidence.macro < championMacro - MaximumMacroF1Regression
        \/ /\ gate = "minimum_per_class_recall"
           /\ evidence.recall < MinimumRecall
        \/ /\ gate = "inference_latency"
           /\ evidence.latency > MaximumLatency
        \/ /\ gate = "model_load"
           /\ RequireModelLoad /\ ~evidence.loads
        \/ /\ gate = "prediction_contract"
           /\ RequireContract /\ ~evidence.contract
        \/ /\ gate = "model_signature"
           /\ RequireSignature /\ ~evidence.signature}

\* PromotionDecision.allowed: all(check.passed for check in checks).
Allowed(evidence, championMacro) == FailedGates(evidence, championMacro) = {}

=============================================================================
