----------------------------- MODULE MCCatalog -----------------------------
(***************************************************************************)
(* Values for checking Catalog.                                            *)
(***************************************************************************)
EXTENDS Catalog, TLC

CONSTANTS MaxPath, MaxList, Numbers

MCPaths == UNION {[1 .. n -> Names] : n \in 1 .. MaxPath}

MCLists == UNION {[1 .. n -> Questions] : n \in 0 .. MaxList}

\* Payloads with one field: the other is what a request must leave alone.
MCPatches == {[required |-> n, start |-> Unset, end |-> Unset] : n \in Numbers}
             \cup {[required |-> Unset, start |-> Unset, end |-> n] : n \in Numbers}

Symmetry == Permutations(Txns) \cup Permutations(Cats) \cup Permutations(Names)
            \cup Permutations(Questions) \cup Permutations(Tests)
=============================================================================
