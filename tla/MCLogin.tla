------------------------------ MODULE MCLogin ------------------------------
(***************************************************************************)
(* Values for checking Login: one address, so that a user who signs up     *)
(* after a delete gets the address of another one, and updates that change *)
(* nothing.                                                                *)
(***************************************************************************)
EXTENDS Login, TLC

CONSTANTS u1, u2, mail, secret, student, k1, r1, r2, x1

MCNormal == [a \in Addresses |-> a]

Symmetry == Permutations(Users) \cup Permutations(Requests)
=============================================================================
