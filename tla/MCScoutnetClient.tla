-------------------------- MODULE MCScoutnetClient --------------------------
(* A small instance of ScoutnetClient for TLC. *)
EXTENDS ScoutnetClient

CONSTANTS h1, h2
=============================================================================
