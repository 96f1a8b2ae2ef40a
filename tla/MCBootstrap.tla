----------------------------- MODULE MCBootstrap -----------------------------
(* A small instance of Bootstrap for TLC. *)
EXTENDS Bootstrap

CONSTANTS r1, r2

(* Runs and decisions are in different tables: a behaviour has one or the  *)
(* other.                                                                  *)
OneKindOfWork == scratch = {} \/ files = {}
=============================================================================
