---------------------------- MODULE MCMigrations ----------------------------
(***************************************************************************)
(* Values for checking Migrations: the releases are the ones between which *)
(* a script or a downgrade makes a difference.                             *)
(***************************************************************************)
EXTENDS Migrations

CONSTANTS c1, c2
=============================================================================
