------------------------------ MODULE MCStartup ------------------------------
(* Startup with the three SQL files there are, two web processes that both   *)
(* know the default user, and a migration by hand.                           *)
EXTENDS Startup
=============================================================================
