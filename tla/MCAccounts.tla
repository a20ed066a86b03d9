----------------------------- MODULE MCAccounts -----------------------------
(***************************************************************************)
(* Values for checking Accounts.  Each address has a second spelling; a    *)
(* client sends a telephone number, or fields it may not change.           *)
(***************************************************************************)
EXTENDS Accounts, TLC

CONSTANTS
  u1, u2, x1, x2, phone1, firstWord, nextWord, student, admin,
  Plain, Capital, other   \* two spellings of one address, and another one

MCNormal == [a \in Addresses |-> IF a = Capital THEN Plain ELSE a]

Nothing == [f \in {"email", "phone", "password", "role", "school"} |-> Unset]

MCPayloads ==
  {[Nothing EXCEPT !.phone = p] : p \in Phones \cup {None}}
    \cup {[Nothing EXCEPT !.email = Capital, !.password = nextWord, !.role = admin]}

Symmetry == Permutations(Txns) \cup Permutations(Users)
=============================================================================
