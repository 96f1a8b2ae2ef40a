---------------------------- MODULE Uppflyttning ----------------------------
(***************************************************************************)
(* The yearly uppflyttning as the engine computes it: from a roster, the   *)
(* configuration, an elected target and the operators' decisions to one    *)
(* row for each member that moves or needs a look.  Pure operators over    *)
(* uppflyttning/{cohort,engine,overrides}.py, roster.py and config.        *)
(*                                                                         *)
(* A troop (avdelning) stands for its name and for its id, which Scoutnet  *)
(* gives together.  The id is known when somebody in the roster is in the  *)
(* troop; one that is only declared in the configuration has none.  An     *)
(* election carries a name and an id of its own, which an operator may     *)
(* have typed in and which need not be of the same troop.                  *)
(***************************************************************************)
EXTENDS Integers, FiniteSets

CONSTANTS
  Members,     \* member numbers
  Troops,      \* avdelningar, declared or not
  BracketOf,   \* Scoutnet: unit_type of each troop, None for a code nobody knows
  Declared,    \* troops named in the configuration
  DeclaredAs,  \* their configured bracket
  Weekday,     \* their configured weekday, or None
  Flow,        \* their configured explicit target, or None
  ConfigYear,  \* settings.cohort_year, or None
  None         \* None of Python, and NULL of the database

Ladder   == <<"sparare", "upptackare", "aventyrare", "utmanare", "rover">>
Brackets == {Ladder[i] : i \in 1..5} \cup {"annat"}

Weekdays == 0..6

ASSUME FiniteGroup    == IsFiniteSet(Members) /\ IsFiniteSet(Troops)
ASSUME BracketOfType  == BracketOf \in [Troops -> Brackets \cup {None}]
ASSUME DeclaredType   == Declared \subseteq Troops
ASSUME DeclaredAsType == DeclaredAs \in [Declared -> Brackets]
ASSUME WeekdayType    == Weekday \in [Declared -> Weekdays \cup {None}]
ASSUME FlowType       == Flow \in [Declared -> Declared \cup {None}]
ASSUME YearType       == ConfigYear \in Nat \cup {None}
ASSUME NoneIsNothing  == None \notin Troops \cup Nat \cup Brackets

(* A member as parsed from the memberlist: its troop, the year it was born *)
(* and whether it holds a leader role.                                     *)
Scout == [troop : Troops \cup {None}, born : Nat \cup {None}, leader : BOOLEAN]

-----------------------------------------------------------------------------
(* The cohort year and the age ladder. *)

(* resolve_cohort_year, with the year of the live term label; None stands  *)
(* for CohortYearConflict.                                                 *)
CohortYear(term) ==
  IF ConfigYear = None THEN term
  ELSE IF term \in {None, ConfigYear} THEN ConfigYear ELSE None

Window == [sparare |-> 8..9, upptackare |-> 10..11, aventyrare |-> 12..14,
           utmanare |-> 15..19, rover |-> {}, annat |-> {}]

(* The lowest bracket whose window holds an age. *)
AgeBracket(age) ==
  LET fits == {i \in 1..5 : age \in Window[Ladder[i]]} IN
  IF fits = {} THEN None ELSE Ladder[CHOOSE i \in fits : \A j \in fits : i <= j]

NextBracket == [sparare |-> "upptackare", upptackare |-> "aventyrare",
                aventyrare |-> "utmanare", utmanare |-> "rover", rover |-> None]

(* The brackets whose oldest cohort moves, and the group each move is in. *)
Transition == [sparare |-> "same_weekday", upptackare |-> "merge",
               aventyrare |-> "new_cohort_avdelning"]

Moving == DOMAIN Transition
Groups == {Transition[b] : b \in Moving} \cup {"misplaced"}

AdultAge == 18

EighteenPlus == {t \in Declared : DeclaredAs[t] = "annat"}

-----------------------------------------------------------------------------
(* What the roster tells of troops and patrols. *)

(* Troops with an id: somebody is in them (build_troop_index). *)
Live(roster) == {roster[m].troop : m \in Members} \ {None}

SourceBracket(t) == IF t \in Declared THEN DeclaredAs[t] ELSE BracketOf[t]

(* _candidates_in: from the data, plus the declared ones. *)
Candidates(roster, b) ==
  {t \in Live(roster) : BracketOf[t] = b} \cup {t \in Declared : DeclaredAs[t] = b}

SameDay(roster, t, b) ==
  {c \in Candidates(roster, b) \cap Declared : Weekday[c] = Weekday[t]}

Only(S) == CHOOSE x \in S : TRUE

(* infer_target_name: the configured target, else the one troop of the     *)
(* next bracket on the same weekday, else its only troop, else None.       *)
InferTarget(roster, t) ==
  LET next == NextBracket[SourceBracket(t)] IN
  IF t \in Declared /\ Flow[t] # None THEN Flow[t]
  ELSE IF next = None THEN None
  ELSE IF t \in Declared /\ Weekday[t] # None /\ Cardinality(SameDay(roster, t, next)) = 1
       THEN Only(SameDay(roster, t, next))
  ELSE IF Cardinality(Candidates(roster, next)) = 1 THEN Only(Candidates(roster, next))
  ELSE None

-----------------------------------------------------------------------------
(* compute_master_set: how a member is classified for cohort year n. *)

Minor(n, p) == p.born # None /\ n - p.born < AdultAge
Adult(n, p) == p.born # None /\ n - p.born >= AdultAge

(* Mutant: a minor among the leaders is only a finding. *)
StrayOnlyOutside(n, p) == p.troop = None

(* In no troop, or under age among the leaders. *)
Stray(n, p) == p.troop = None \/ (p.troop \in EighteenPlus /\ Minor(n, p))

(* In a bracket that moves at all. *)
InLadder(n, p) == ~Stray(n, p) /\ BracketOf[p.troop] \in Moving

(* Age unknown, or fit for neither this bracket nor the next. *)
OffCohort(n, p) ==
  /\ InLadder(n, p)
  /\ \/ p.born = None
     \/ AgeBracket(n - p.born) \notin {BracketOf[p.troop], NextBracket[BracketOf[p.troop]]}

MovesUp(n, p) ==
  /\ InLadder(n, p) /\ p.born # None
  /\ AgeBracket(n - p.born) = NextBracket[BracketOf[p.troop]]

(* Mutant: a leader moves with the cohort. *)
ExcludedByAge(n, p) == MovesUp(n, p) /\ (Adult(n, p) \/ p.troop \in EighteenPlus)

(* _is_excluded: leaders, adults, and whoever is in an 18+ troop. *)
Excluded(n, p) == MovesUp(n, p) /\ (p.leader \/ Adult(n, p) \/ p.troop \in EighteenPlus)

Misplaced(n, p) == Stray(n, p) \/ OffCohort(n, p)

Statuses == {"none", "ready", "pending_target", "off_cohort", "excluded", "override_stay"}

(* A MoveEntry; status "none" when the member is in no row. *)
Entry == [status : Statuses, off : BOOLEAN, group : Groups \cup {None},
          source : Troops \cup {None}, target : Troops \cup {None},
          troop : Troops \cup {None}]

NoEntry == [status |-> "none", off |-> FALSE, group |-> None,
            source |-> None, target |-> None, troop |-> None]

(* The elected target of a bracket: a name, and the id beside it. *)
ElectedTarget == [name : Troops, troop : Troops]

(* Mutant: an inferred target needs no id. *)
ResolvedByName(roster, elected, e) ==
  LET t == InferTarget(roster, e.source) IN
  IF t = None /\ elected # None
  THEN [e EXCEPT !.status = "ready", !.target = elected.name, !.troop = elected.troop]
  ELSE [e EXCEPT !.status = IF t = None THEN "pending_target" ELSE "ready",
                 !.target = t, !.troop = t]

(* _resolve_target: target is the name, troop its id when it has one.  An  *)
(* elected target fills in, with its own id, wherever none could be        *)
(* inferred.                                                               *)
Resolved(roster, elected, e) ==
  LET t == InferTarget(roster, e.source) IN
  IF t = None /\ elected # None
  THEN [e EXCEPT !.status = "ready", !.target = elected.name, !.troop = elected.troop]
  ELSE IF t \in Live(roster)
  THEN [e EXCEPT !.status = "ready", !.target = t, !.troop = t]
  ELSE [e EXCEPT !.status = "pending_target", !.target = t]

Computed(roster, n, elected, m) ==
  LET p == roster[m]
      row == [NoEntry EXCEPT !.source = p.troop,
                !.group = IF Stray(n, p) THEN None ELSE Transition[BracketOf[p.troop]]]
  IN
  IF Misplaced(n, p) THEN [row EXCEPT !.status = "off_cohort", !.off = TRUE]
  ELSE IF Excluded(n, p) THEN [row EXCEPT !.status = "excluded"]
  ELSE IF MovesUp(n, p) THEN Resolved(roster, elected, row)
  ELSE NoEntry

-----------------------------------------------------------------------------
(* apply_overrides: one decision on one row. *)

NoDecision == [target |-> None, stay |-> None, ack |-> FALSE]

(* Mutant: a chosen target is for the rows that need one. *)
AppliedWhereNeeded(roster, n, e, o) ==
  IF e.status \in {"pending_target", "off_cohort"} /\ o.target # None
  THEN [e EXCEPT !.target = o.target,
                 !.troop = IF o.target \in Live(roster) THEN o.target ELSE None,
                 !.status = IF o.target \in Live(roster) THEN "ready" ELSE "pending_target"]
  ELSE IF e.status # "none" /\ o.target = None /\ o.stay # None /\ o.stay >= n
  THEN [e EXCEPT !.status = "override_stay"]
  ELSE e

(* A chosen target wins over a stay, whatever the row said before; a stay  *)
(* holds through the cohort year it names.                                 *)
Applied(roster, n, e, o) ==
  IF e.status = "none" THEN e
  ELSE IF o.target # None
  THEN [e EXCEPT !.target = o.target,
                 !.troop = IF o.target \in Live(roster) THEN o.target ELSE None,
                 !.status = IF o.target \in Live(roster) THEN "ready" ELSE "pending_target"]
  ELSE IF o.stay # None /\ o.stay >= n THEN [e EXCEPT !.status = "override_stay"]
  ELSE e

(* Mutant: the group follows the status, which a decision changes. *)
GroupByStatus(e) == IF e.status = "off_cohort" THEN "misplaced" ELSE e.group

(* scope_master_set: the group a row is shown, exported and written with.  *)
GroupOf(e) == IF e.off THEN "misplaced" ELSE e.group

-----------------------------------------------------------------------------
(* compute_findings, as far as it judges placement and age. *)

Structural == {"sparare", "upptackare", "aventyrare"}

Findings(roster, n, m) ==
  LET p == roster[m]
      ledare == EighteenPlus \cap Live(roster)
  IN
  {f \in {"no_avdelning", "underage_in_ledare", "young_leader", "adult_in_scout_unit"} :
     CASE f = "no_avdelning"        -> p.troop = None
       [] f = "underage_in_ledare"  -> p.troop \in ledare /\ n # None /\ Minor(n, p)
       [] f = "young_leader"        -> p.troop # None /\ BracketOf[p.troop] \in Structural /\ p.leader
       [] f = "adult_in_scout_unit" -> /\ p.troop # None /\ BracketOf[p.troop] \in Structural
                                       /\ n # None /\ Adult(n, p)}
=============================================================================
