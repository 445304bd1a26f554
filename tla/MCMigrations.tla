---------------------------- MODULE MCMigrations ----------------------------
(* Migrations with the three SQL files there are and three processes.       *)
EXTENDS Migrations
=============================================================================
