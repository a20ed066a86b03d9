----------------------------- MODULE MCResults -----------------------------
(***************************************************************************)
(* Values for checking Results: questions alternate between two groups.    *)
(***************************************************************************)
EXTENDS Results, TLC

CONSTANTS Right, Odd, Even

MCAnswerKey == [i \in 0 .. N - 1 |-> Right]
MCCategory == [i \in 0 .. N - 1 |-> IF i % 2 = 0 THEN Even ELSE Odd]
MCGroups == {Odd, Even}

\* Every question has a row, or only the first one.
SomeRows == {0 .. N - 1, {0}}

Symmetry == Permutations(Sessions)
=============================================================================
