------------------------------- MODULE Ranking -------------------------------
\* Sorting: what sorted() with a key and .sort() make of things that the key tells apart.
EXTENDS Integers, FiniteSets, Sequences

\* The elements of a finite set in a strict order of them: the k-th is the one that
\* has k - 1 before it.
Ranked(S, Before(_, _)) ==
    [k \in 1..Cardinality(S) |->
        CHOOSE x \in S : Cardinality({y \in S : y = x \/ Before(y, x)}) = k]

=============================================================================
