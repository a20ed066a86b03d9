--------------------------- MODULE MCTestSession ---------------------------
(***************************************************************************)
(* Values for checking TestSession.  The answer key gives every question   *)
(* one choice that is right; the other choice is wrong.                    *)
(***************************************************************************)
EXTENDS TestSession, TLC

CONSTANT Right

MCAnswerKey == [i \in 0 .. N - 1 |-> Right]

\* Every question has a row, or nothing is known about the rows.
AllRows == {0 .. N - 1}
AnyRows == SUBSET (0 .. N - 1)

Symmetry == Permutations(Requests)
=============================================================================
