--------------------------- MODULE MCWriteService ---------------------------
(* Small instances of WriteService for TLC. *)
EXTENDS WriteService, TLC

CONSTANTS k1, k2, d3

(* One process that serves everything; a worker, and a command line with   *)
(* the thread d3.                                                          *)
OneHome == [d \in Drivers |-> k1]
OneServes == [h \in Handlers |-> k1]

ConsoleHome == [d \in Drivers |-> IF d = d3 THEN k2 ELSE k1]

Outside == [troop |-> None, patrol |-> None, status |-> "active", leader |-> FALSE]

(* Everyone active, in no troop, no leader. *)
OutsideStart == {[m \in Members |-> Outside]}

(* Others take a member out of the roster. *)
SomeEdits == {[Outside EXCEPT !.status = "gone"]}
=============================================================================
