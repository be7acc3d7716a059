----------------------------- MODULE MCMigrations -----------------------------
(* Values of the constants of Migrations for TLC: sets of model values by cfg. *)
EXTENDS Migrations
=============================================================================
