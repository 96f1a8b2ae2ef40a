------------------------------ MODULE Handover ------------------------------
(***************************************************************************)
(* What the uppflyttning hands over: the moves of a run and the changelist *)
(* made from the ready rows, the patrol a mover is placed in, the lists of *)
(* follow-up work, and what is found in Scoutnet afterwards.  Pure         *)
(* operators over web/writes.py, roster.py, export/ and patrol_roles.py,   *)
(* on the state of Decisions.                                              *)
(***************************************************************************)
EXTENDS Overview

CONSTANTS
  Patrols,   \* patrol ids
  PatrolOf   \* patrol each member is placed in at the start, or None

ASSUME PatrolsType  == Patrols \subseteq Nat
ASSUME PatrolOfType == PatrolOf \in [Members -> Patrols \cup {None}]

Selections == Groups \cup {"all"}

-----------------------------------------------------------------------------
(* The rows of a selection. *)

(* The master set with decisions; with one row to a decision, a function.  *)
Decided(r, n) ==
  LET elected == Elected(n) IN
  [m \in Members |-> Applied(r, n, Computed(r, n, elected, m), Only(DecisionsOn(n, m)))]

(* scope_master_set: the members of a group's rows, or of every row.       *)
InScope(ms, g) == {m \in Members : ms[m].status # "none" /\ g \in {"all", GroupOf(ms[m])}}

WithStatus(ms, g, s) == {m \in InScope(ms, g) : ms[m].status = s}

GroupCounts(ms) == [g \in Groups |-> Cardinality(InScope(ms, g))]

(* The export and an execute run both wait for an acknowledgement.         *)
NeedsAck(ms, g) == WithStatus(ms, g, "off_cohort") # {}

(* One sheet for each target with its ready rows. *)
Changelist(ms, g) ==
  LET ready == WithStatus(ms, g, "ready") IN
  [t \in {ms[m].target : m \in ready} |-> {m \in ready : ms[m].target = t}]

(* Members to be told, and the patrol roles to be ended by hand; from the  *)
(* set without decisions and without the election.                         *)
Affected(raw, g) == InScope(raw, g)
PatrolRoles(raw, g) ==
  UNION {{<<m, d>> : d \in {e \in Duties[m] : e.scope = "patrol"}} : m \in Affected(raw, g)}

-----------------------------------------------------------------------------
(* The moves. *)

PatrolsIn(r, patrol, t) == {patrol[m] : m \in InTroop(r, t)} \ {None}

(* The patrol with the lowest id of those somebody is placed in.           *)
FirstKnownPatrol(r, patrol, t) ==
  IF PatrolsIn(r, patrol, t) = {} THEN None ELSE Lowest(PatrolsIn(r, patrol, t))

Moves(r, patrol, ms, g) ==
  [m \in WithStatus(ms, g, "ready") |->
     [source |-> ms[m].source, troop |-> ms[m].troop,
      patrol |-> FirstKnownPatrol(r, patrol, ms[m].troop)]]

(* The moves an uppflyttning run makes (drift_check on a fresh roster).    *)
Written(r, moves) == {m \in DOMAIN moves : r[m].troop # moves[m].troop /\ ~r[m].leader}

(* The memberlist after the run. *)
AfterRun(r, moves) ==
  LET written == Written(r, moves) IN
  [m \in Members |-> IF m \in written THEN [r[m] EXCEPT !.troop = moves[m].troop] ELSE r[m]]

(* reconcile: the ready rows against a later memberlist, where some may    *)
(* not be found.                                                           *)
Reconciled(ms, after, present) ==
  LET ready == {m \in Members : ms[m].status = "ready"} IN
  [applied   |-> {m \in ready \cap present : after[m].troop = ms[m].troop},
   elsewhere |-> {m \in ready \cap present : after[m].troop # ms[m].troop},
   not_found |-> ready \ present]

-----------------------------------------------------------------------------
(* Properties. *)

(* The operator works one group at a time and may run the same group       *)
(* again.  Whichever is run, with the decisions as they are, afterwards    *)
(* nobody it moved is to move again in this cohort year: a member is ready *)
(* no more, or ready for where it is, if targets lead up at all; and its   *)
(* reconciliation misses none but leaders, for whom an operator may choose *)
(* a target that the run then leaves out (_master_set recomputed from the  *)
(* memberlist after a run).                                                *)
(* Whom it moves is on the changelist for where it goes, and on the list   *)
(* of those to be told and whose patrol roles are to be ended, although    *)
(* that list is made without the decisions and the election; no row is in  *)
(* two groups, and what waits for an acknowledgement is in the group of    *)
(* the misplaced.                                                          *)
(* (A set of one, unlike a LET, has TLC evaluate the function once.)       *)
MovesSettle ==
  Quiet /\ Now # None =>
    \A ms \in {Decided(roster, Now)}, raw \in {Master(roster, Now, None)} :
    /\ SumFunction(GroupCounts(ms)) = Cardinality(InScope(ms, "all"))
    /\ \A g \in Selections : NeedsAck(ms, g) => g \in {"all", "misplaced"}
    /\ \A g \in Selections :
      \A writes \in {Moves(roster, PatrolOf, ms, g)} : \A after \in {AfterRun(roster, writes)} :
      LET msAfter == Decided(after, Now) IN
      /\ \A m \in Written(roster, writes) :
           /\ TargetsLeadUp /\ msAfter[m].status = "ready" => msAfter[m].troop = after[m].troop
           /\ m \in Changelist(ms, g)[ms[m].target] /\ m \in Affected(raw, g)
           /\ \A d \in Duties[m] : d.scope = "patrol" => <<m, d>> \in PatrolRoles(raw, g)
      /\ \A m \in Reconciled(ms, after, Members).elsewhere \cap DOMAIN writes : roster[m].leader
=============================================================================
