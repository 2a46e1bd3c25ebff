---------------------------- MODULE MCExperiments ----------------------------
EXTENDS Experiments, TLC

\* Two candidates and two baselines on two contents of the splits.  On the first the
\* candidates tie on macro F1, against their order by name, and the one with the better
\* weighted F1 breaks a guardrail on the second; latency alone can reject either.
MCCandidate == <<"svc", "lr">>
MCBaseline == <<"dummy", "nb">>
MCClass == {"minor", "major"}
MCNameRank == [name \in {"dummy", "nb", "svc", "lr"} |->
                  IF name = "dummy" THEN 1 ELSE IF name = "lr" THEN 2 ELSE IF name = "nb" THEN 3 ELSE 4]
MCVersion == {1, 2}

MCGuardrails == [minimum_recall |-> 3, major_support |-> 4, major_recall |-> 4, milliseconds |-> 1,
                 size |-> 100, cv_deviation |-> 1, cv_drop |-> 1]

Base(name, macro, weighted, major) ==
    [name |-> name, macro_f1 |-> macro, weighted_f1 |-> weighted,
     recall |-> [cls \in MCClass |-> IF cls = "major" THEN major ELSE 3],
     support |-> [cls \in MCClass |-> IF cls = "major" THEN 4 ELSE 3],
     cv_mean |-> macro + 1, cv_deviation |-> 1, size |-> 100, milliseconds |-> 0]

OnContent(v) ==
    [name \in {"dummy", "nb", "svc", "lr"} |->
        IF name = "dummy" THEN Base(name, 1, 1, 4)
        ELSE IF name = "nb" THEN Base(name, 5 + v, 4, 4)
        ELSE IF name = "svc" THEN Base(name, 6, 7, IF v = 1 THEN 4 ELSE 3)
        ELSE Base(name, 7 - v, 5, 4)]

MCMeasured == [name \in {"dummy", "nb", "svc", "lr"}, t \in MCVersion, v \in MCVersion |->
                  OnContent(v)[name]]

Symmetry == Permutations(Process)

=============================================================================
