----------------------------- MODULE GroupSplit -----------------------------
\* Splitting the selected rows into train, validation and test so that rows with
\* the same text stay together (data/splitting.py).
EXTENDS ClassSelection

CONSTANTS Seed,            \* values of global_random_seed and of GLOBAL_RANDOM_SEED
          SeededRank,      \* the order of _seeded_order_key over seed, label and text
          SizeTolerance,   \* split_size_tolerance in percent
          ClassTolerance   \* class_proportion_tolerance in percent

ASSUME SeedAssumption ==
    /\ SeededRank \in [Seed -> [Queue -> [Text -> Nat]]]
    /\ \A seed \in Seed, q \in Queue, s, t \in Text :
          SeededRank[seed][q][s] = SeededRank[seed][q][t] => s = t

\* exclude_contradictory_group_exact_duplicates: the selected rows without those texts.
UsableRows(rows, classes) ==
    LET selected == SelectedRows(rows, classes)
        bad      == Contradictory(selected)
    IN  {r \in selected : Attr[r].text \notin bad}

GroupSize(rows, t) == Cardinality(RowsOfText(rows, t))

\* Groups of one class, the largest first, equal ones in a seeded order.
GoesFirst(rows, q, seed, s, t) ==
    \/ GroupSize(rows, s) > GroupSize(rows, t)
    \/ /\ GroupSize(rows, s) = GroupSize(rows, t)
       /\ SeededRank[seed][q][s] < SeededRank[seed][q][t]

OrderedGroups(rows, q, seed) ==
    Ranked(TextsOf(rows), LAMBDA s, t : GoesFirst(rows, q, seed, s, t))

\* The part that is furthest from its target share; the earlier part wins a tie.
\* (target - allocated) / target is compared without its division.
FurthestBehind(allocated, ratios) ==
    LET Behind(p, o) == allocated[p] * ratios[o] < allocated[o] * ratios[p]
        first        == IF Behind("validation", "train") THEN "validation" ELSE "train"
    IN  IF Behind("test", first) THEN "test" ELSE first

\* What each part has of a class when its first i groups are placed.
Allocation(rows, groups, ratios) ==
    LET allocated[i \in 0..Len(groups)] ==
            IF i = 0 THEN [p \in Part |-> 0]
            ELSE LET before == allocated[i - 1]
                 IN  [before EXCEPT ![FurthestBehind(before, ratios)]
                                       = @ + GroupSize(rows, groups[i])]
    IN  allocated

\* Settings.random_seed: the environment's seed goes before the configuration's.
RandomSeed(config) == IF config.override # None THEN config.override ELSE config.seed

\* _group_assignments for the rows of one class: where each row goes, decided for its
\* whole group, given what the groups before it have taken.
GroupAssignment(rows, q, config) ==
    LET groups    == OrderedGroups(rows, q, RandomSeed(config))
        allocated == Allocation(rows, groups, config.ratios)
        PartOfText(t) == FurthestBehind(
            allocated[(CHOOSE i \in 1..Len(groups) : groups[i] = t) - 1], config.ratios)
        partOf == [t \in TextsOf(rows) |-> PartOfText(t)]
    IN  [r \in rows |-> partOf[Attr[r].text]]

\* create_prepared_splits: every usable row goes where the group of its class puts it.
PreparedSplits(rows, classes, config) ==
    LET usable     == UsableRows(rows, classes)
        assignment == [q \in ClassSet(classes) |->
                          GroupAssignment(RowsOfQueue(usable, q), q, config)]
    IN  [p \in Part |-> {r \in usable : assignment[Attr[r].queue][r] = p}]

EnoughGroups(rows, classes) ==
    \A q \in ClassSet(classes) :
        Cardinality(TextsOf(RowsOfQueue(UsableRows(rows, classes), q))) >= Cardinality(Part)

Within(a, b, tolerance, scale) == 100 * (a - b) <= tolerance * scale /\ 100 * (b - a) <= tolerance * scale

\* Shares near the ratios, class shares near the overall ones.
SharesWithinTolerance(splits, classes, config) ==
    LET total == Cardinality(UNION {splits[p] : p \in Part})
        size  == [p \in Part |-> Cardinality(splits[p])]
        overall(q) == Cardinality(RowsOfQueue(UNION {splits[p] : p \in Part}, q))
    IN  \A p \in Part :
              /\ Within(size[p] * RatioTotal(config.ratios), config.ratios[p] * total,
                        SizeTolerance, total * RatioTotal(config.ratios))
              /\ \A q \in ClassSet(classes) :
                    Within(QueueCount(splits[p], q) * total, overall(q) * size[p],
                           ClassTolerance, total * size[p])

\* validate_prepared_splits: no id and no text in two parts, some rows, every class in
\* every part, and the tolerances.
SplitsValid(splits, classes, config) ==
    /\ \A p, o \in Part : p # o => /\ splits[p] \cap splits[o] = {}
                                   /\ TextsOf(splits[p]) \cap TextsOf(splits[o]) = {}
    /\ UNION {splits[p] : p \in Part} # {}
    /\ \A p \in Part, q \in ClassSet(classes) : RowsOfQueue(splits[p], q) # {}
    /\ SharesWithinTolerance(splits, classes, config)

PreparationFeasible(rows, classes, config) ==
    /\ EnoughGroups(rows, classes)
    /\ SplitsValid(PreparedSplits(rows, classes, config), classes, config)

=============================================================================
