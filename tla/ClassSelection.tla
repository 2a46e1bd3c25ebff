--------------------------- MODULE ClassSelection ---------------------------
\* Which queues a model is trained for (data/class_selection.py): the largest ones
\* that have enough rows for every split.
EXTENDS TicketRows, Ranking

CONSTANT LabelRank    \* the alphabetical rank of a label

ASSUME LabelAssumption ==
    /\ LabelRank \in [Queue -> Nat]
    /\ \A p, q \in Queue : LabelRank[p] = LabelRank[q] => p = q

Part == {"train", "validation", "test"}

\* A split ratio is a weight here: 0.70, 0.15 and 0.15 are 14, 3 and 3.
RatioTotal(ratios) == ratios.train + ratios.validation + ratios.test

\* minimum_count_for_stratified_split: ceil(1 / smallest ratio).
MinimumForStratifiedSplit(ratios) ==
    LET smallest == CHOOSE w \in {ratios[p] : p \in Part} : \A p \in Part : w <= ratios[p]
    IN  (RatioTotal(ratios) + smallest - 1) \div smallest

QueueCount(rows, q) == Cardinality(RowsOfQueue(rows, q))

EligibleQueues(rows, config) ==
    {q \in {Attr[r].queue : r \in rows} :
        /\ QueueCount(rows, q) >= config.minimum
        /\ QueueCount(rows, q) >= MinimumForStratifiedSplit(config.ratios)}

SelectionFeasible(rows, config) == Cardinality(EligibleQueues(rows, config)) >= config.classes

\* Larger queues first, equal ones in alphabetical order.
RanksBefore(rows, p, q) ==
    \/ QueueCount(rows, p) > QueueCount(rows, q)
    \/ QueueCount(rows, p) = QueueCount(rows, q) /\ LabelRank[p] < LabelRank[q]

\* select_target_classes: the labels in the order of their index in the model.
SelectedClasses(rows, config) ==
    SubSeq(Ranked(EligibleQueues(rows, config), LAMBDA p, q : RanksBefore(rows, p, q)),
           1, config.classes)

ClassSet(classes) == {classes[i] : i \in 1..Len(classes)}

SelectedRows(rows, classes) == {r \in rows : Attr[r].queue \in ClassSet(classes)}

\* What the report says of each selected class: all its rows, the contradictory ones included.
ClassCounts(rows, classes) ==
    [q \in ClassSet(classes) |-> QueueCount(rows, q)]

=============================================================================
