--------------------------- MODULE MCDataPipeline ---------------------------
EXTENDS DataPipeline

\* Two revisions.  Each holds two classes of four usable rows, of which two share a
\* text, and a text that carries two labels; the first also holds a third class with
\* too few different texts and one row for every reason to be dropped.
Columns == <<
    <<"a1", "A">>, <<"a1", "A">>, <<"a2", "A">>, <<"a3", "A">>, <<"x", "A">>,
    <<"b1", "B">>, <<"b2", "B">>, <<"b3", "B">>, <<"b4", "B">>, <<"x", "B">>,
    <<"c1", "C">>, <<"c1", "C">>, <<"c2", "C">>, <<"c2", "C">>,
    <<"a4", "A">>, <<"a5", None>>, <<None, "A">>, <<"a6", "A">>,
    <<"a1", "A">>, <<"a1", "A">>, <<"a2", "A">>, <<"a4", "A">>,
    <<"b1", "B">>, <<"b2", "B">>, <<"b3", "B">>, <<"b5", "B">>, <<"y", "A">>, <<"y", "B">> >>

MCRow == 1..28
MCRevision == {"r1", "r2"}
MCUpstream == [r \in MCRevision |-> IF r = "r1" THEN 1..18 ELSE 19..28]
MCQueue == {"A", "B", "C"}
MCText == {"a1", "a2", "a3", "a4", "a5", "a6", "b1", "b2", "b3", "b4", "b5", "c1", "c2", "x", "y"}
MCAttr == [i \in MCRow |-> [malformed |-> i = 18,
                            language  |-> IF i = 15 THEN "de" ELSE IF i % 2 = 0 THEN "en" ELSE "english",
                            text      |-> Columns[i][1], queue |-> Columns[i][2]]]
MCLabelRank == [q \in MCQueue |-> IF q = "A" THEN 1 ELSE IF q = "B" THEN 2 ELSE 3]

MCSeed == {1, 2}
TextOrder == <<"a1", "a2", "a3", "a4", "a5", "a6", "b1", "b2", "b3", "b4", "b5", "c1", "c2", "x", "y">>
TextIndex(t) == CHOOSE i \in 1..15 : TextOrder[i] = t
MCSeededRank == [seed \in MCSeed |-> [q \in MCQueue |-> [t \in MCText |->
                    IF seed = 1 THEN TextIndex(t) ELSE 20 - TextIndex(t)]]]

Weights == [train |-> 2, validation |-> 1, test |-> 1]
Pinned   == [revision |-> "r1", language |-> "en", classes |-> 2, minimum |-> 4,
             ratios |-> Weights, seed |-> 1, override |-> None]
Repinned == [Pinned EXCEPT !.revision = "r2", !.seed = 2]
Widened  == [Pinned EXCEPT !.language = "english", !.classes = 3]
Reseeded == [Pinned EXCEPT !.override = 2]
MCConfig == {Pinned, Reseeded, Repinned, Widened}
MCSeeds  == {Pinned, Reseeded}

\* The tables are functions of their inputs (TLC also computes them once, here).
ASSUME TablesAssumption ==
    /\ RowsIn \in [NormalizedData -> SUBSET MCRow]
    /\ SelectionOf \in [NormalizedData -> [Configuration -> Seq(MCQueue) \cup {None}]]
    /\ UsableIn \in [NormalizedData -> [Selections -> SUBSET MCRow]]
    /\ ContradictoryIn \in [NormalizedData -> [Selections -> SUBSET MCText]]
    /\ SplitsOf \in [NormalizedData -> [Selections -> [Config -> [Part -> SUBSET MCRow] \cup {None}]]]
    /\ FromScratch \in [Config -> [Part -> SUBSET MCRow] \cup {None}]

=============================================================================
