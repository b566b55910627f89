----------------------------- MODULE MC_Matching -----------------------------
EXTENDS Matching
\* Every matrix of three columns and rows, padded with an empty column and
\* row, every one of four with one or two entries in each column, and some
\* denser ones in which short paths must be undone by long ones.
Padded == {[j \in Columns |-> IF j = 4 THEN {} ELSE g[j]] : g \in [1..3 -> SUBSET (1..3)]}
Band(a, b, c, d) == [j \in Columns |-> <<a, b, c, d>>[j]]
Sparse == [Columns -> {S \in SUBSET Rows : Cardinality(S) \in {1, 2}}]
Denser == {Band({1, 2, 3}, {1, 2}, {1}, {2, 4}), Band({1, 2, 3, 4}, {1, 2}, {1, 2}, {3}),
           Band({1, 2, 3}, {1, 2, 4}, {1, 3}, {1})}
AllGraphs == Padded \cup Sparse \cup Denser
=============================================================================
