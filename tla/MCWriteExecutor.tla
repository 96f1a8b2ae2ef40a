-------------------------- MODULE MCWriteExecutor ---------------------------
(* Small instances of WriteExecutor for TLC. *)
EXTENDS ExecutorLedger, TLC

CONSTANTS m1, t1, t2, p1, p2

At(troop, patrol, leader) ==
  [troop |-> troop, patrol |-> patrol, status |-> "active", leader |-> leader]

(* Everyone in t1: m1 an ordinary member, the others like it or leaders.   *)
MixedStart == {[m \in Members |-> At(t1, None, m # m1 /\ b)] : b \in BOOLEAN}

(* Everyone outside: ordinary members, or all but m1 leaders. *)
OutsideMixed == {[m \in Members |-> At(None, None, m # m1 /\ b)] : b \in BOOLEAN}

(* Everyone in patrol p1 of t1. *)
PatrolStart == {[m \in Members |-> At(t1, p1, FALSE)]}

(* Others take a member out of the roster. *)
SomeEdits == {[At(None, None, FALSE) EXCEPT !.status = "gone"]}

(* Symmetry is not sound for liveness.  There the ids are used in order,   *)
(* the first for a fresh run and the second for its undo: a fresh run looks *)
(* at no other run's rows, which a resume and an undo do.  The fresh run   *)
(* moves members from where they stood at the start, as the page does that *)
(* plans it; whoever else finds them elsewhere, finds them so by an edit.  *)
OneFreshRun ==
  LET first == CHOOSE r \in Runs : TRUE IN
  \A w \in Drivers : job'[w].pc \in {"read", "inverse"} =>
    CASE job'[w].op = "run"  ->
           /\ job'[w].run = first
           /\ \A m \in Members : job'[w].plan[m] \in {Absent, Intended(t1, t2, p2)}
      [] job'[w].op = "undo" -> ~Fresh(first)

FairSpecOneFresh ==
  /\ Init /\ [][Next /\ OneFreshRun]_vars
  /\ \A w \in Drivers : WF_vars(Step(w))

SameRuns    == Permutations(Runs)
SameOthers  == Permutations(Members \ {m1}) \cup SameRuns
=============================================================================
