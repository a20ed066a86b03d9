--------------------------- MODULE MCQuestionBank ---------------------------
(***************************************************************************)
(* Values for checking QuestionBank.                                       *)
(***************************************************************************)
EXTENDS QuestionBank, TLC

CONSTANTS q1, q2, v1, v2, b1, b2, x1, x2

Symmetry == Permutations(Questions) \cup Permutations(Versions)
              \cup Permutations(Banks) \cup Permutations(Sessions)
=============================================================================
