------------------------- MODULE CandidateSelection -------------------------
\* What one fitted model is judged by, the guardrails, and the two rankings: of the
\* candidates of one experiment (modeling/selection.py) and of its baselines
\* (modeling/train_baseline.py).  Metrics are numbers on one integer scale.
EXTENDS Ranking

CONSTANTS Class,         \* the labels of the taxonomy
          Guardrails,    \* the selection settings of configs/experiments.yaml
          NameRank       \* alphabetical order of the model names

\* The guardrails a candidate breaks.
RejectionReasons(c) ==
    LET Low(cls, minimum) == c.recall[cls] < minimum
        broken == [
            collapsed       |-> \E cls \in Class : Low(cls, Guardrails.minimum_recall),
            major_collapsed |-> \E cls \in Class : /\ c.support[cls] >= Guardrails.major_support
                                                   /\ Low(cls, Guardrails.major_recall),
            latency         |-> c.milliseconds > Guardrails.milliseconds,
            size            |-> c.size > Guardrails.size,
            deviation       |-> c.cv_deviation > Guardrails.cv_deviation,
            drop            |-> c.cv_mean - c.macro_f1 > Guardrails.cv_drop]
    IN  {reason \in DOMAIN broken : broken[reason]}

Eligible(c) == RejectionReasons(c) = {}

\* The greater macro F1, then the greater weighted F1, then the name.
Outranks(a, b) ==
    \/ a.macro_f1 > b.macro_f1
    \/ /\ a.macro_f1 = b.macro_f1
       /\ \/ a.weighted_f1 > b.weighted_f1
          \/ a.weighted_f1 = b.weighted_f1 /\ NameRank[a.name] < NameRank[b.name]

Ordered(models) == Ranked(models, Outranks)

\* rank_candidates: the name of the first eligible candidate, if there is one.
Selection(candidates) ==
    LET eligible == Ordered({c \in candidates : Eligible(c)})
    IN  IF eligible = <<>> THEN {} ELSE {Head(eligible).name}

=============================================================================
