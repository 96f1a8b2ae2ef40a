------------------------------ MODULE BulkMove ------------------------------
(***************************************************************************)
(* What bulk writing promises, whatever is done to keep it: a ledger of    *)
(* runs beside a register that others edit too.  A run records once whom   *)
(* it will move and where; it moves nobody else and nowhere else, in any   *)
(* portions, each again as often as it likes until the move is confirmed;  *)
(* it confirms only what was moved and reports only when all is confirmed. *)
(* A run that reverses another moves confirmed members back where that run *)
(* found them.                                                             *)
(***************************************************************************)
EXTENDS Integers, FiniteSets

CONSTANTS
  Members, Runs, None,
  Places,          \* what the register holds of a member
  Moved(_, _)      \* the place of a member once a planned move is made

VARIABLES
  register,   \* place of each member
  plan,       \* the planned move of each member, per run; None: not in the run
  confirmed,  \* members a run has recorded as moved
  moved,      \* members a run has moved
  reported,   \* runs that say they are complete
  reverses    \* the run another reverses, or None

bvars == <<register, plan, confirmed, moved, reported, reverses>>

Covered(r) == {m \in Members : plan[r][m] # None}

Blank == [m \in Members |-> None]

Init ==
  /\ register \in [Members -> Places]
  /\ plan = [r \in Runs |-> Blank]
  /\ confirmed = [r \in Runs |-> {}]
  /\ moved = [r \in Runs |-> {}]
  /\ reported = {}
  /\ reverses = [r \in Runs |-> None]

(* A planned move takes back another. *)
TakesBack(move, other) == move.source = other.target /\ move.target = other.source

Undertake(r, q) ==
  /\ reverses[r] = None /\ plan[r] = Blank /\ q # r
  /\ reverses' = [reverses EXCEPT ![r] = q]
  /\ UNCHANGED <<register, plan, confirmed, moved, reported>>

(* Recorded once, before anybody is moved. *)
Record(r) ==
  /\ plan[r] = Blank /\ moved[r] = {} /\ r \notin reported
  /\ plan'[r] # Blank /\ \A q \in Runs \ {r} : plan'[q] = plan[q]
  /\ reverses[r] # None =>
       \A m \in Members : plan'[r][m] # None =>
         /\ m \in confirmed[reverses[r]]
         /\ TakesBack(plan'[r][m], plan[reverses[r]][m])
  /\ UNCHANGED <<register, confirmed, moved, reported, reverses>>

Move(r) ==
  /\ r \notin reported
  /\ \E S \in SUBSET (Covered(r) \ confirmed[r]) :
       /\ register' = [m \in Members |-> IF m \in S THEN Moved(register[m], plan[r][m])
                                                    ELSE register[m]]
       /\ moved' = [moved EXCEPT ![r] = @ \cup S]
  /\ UNCHANGED <<plan, confirmed, reported, reverses>>

Confirm(r) ==
  /\ r \notin reported
  /\ \E S \in SUBSET moved[r] : confirmed' = [confirmed EXCEPT ![r] = @ \cup S]
  /\ UNCHANGED <<register, plan, moved, reported, reverses>>

Report(r) ==
  /\ Covered(r) = confirmed[r]
  /\ reported' = reported \cup {r}
  /\ UNCHANGED <<register, plan, confirmed, moved, reverses>>

(* A run taken up again, or that failed after all was moved. *)
Reopen(r) ==
  /\ reported' = reported \ {r}
  /\ UNCHANGED <<register, plan, confirmed, moved, reverses>>

(* Others edit one member in the register. *)
Edit(m) ==
  /\ \E p \in Places : register' = [register EXCEPT ![m] = p]
  /\ UNCHANGED <<plan, confirmed, moved, reported, reverses>>

Next ==
  \/ \E r \in Runs :
       \/ \E q \in Runs : Undertake(r, q)
       \/ Record(r) \/ Move(r) \/ Confirm(r) \/ Report(r) \/ Reopen(r)
  \/ \E m \in Members : Edit(m)

Spec == Init /\ [][Next]_bvars
=============================================================================
