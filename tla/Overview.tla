------------------------------ MODULE Overview ------------------------------
(***************************************************************************)
(* The aggregate pages: the overview of oversikt.py with its projection of *)
(* the coming year, the dues of views.py and export/dues_xlsx.py, and the  *)
(* register of elected posts of fortroende.py.  All are computed from one  *)
(* memberlist and, the projection, from the uppflyttning's master set with *)
(* the elected target but without the operators' decisions.                *)
(***************************************************************************)
EXTENDS Decisions, Functions

CONSTANTS
  Duties,      \* role assignments of each member
  PaidCode,    \* Scoutnet's payment code for the previous and current term
  Applicants,  \* year of birth of each applicant on the waiting list
  Expected     \* role keys and seats configured as expected posts

Duty == [scope : {"troop", "group", "patrol"}, of : Troops \cup {None}, key : STRING]

LeaderKeys == {"leader", "other_leader", "assistant_leader"}

(* A leader's key within a patrol is a youth role. *)
IsLeader(d) == d.scope # "patrol" /\ d.key \in LeaderKeys

ASSUME DutiesType   == Duties \in [Members -> SUBSET Duty]
ASSUME DutiesFinite == \A m \in Members : IsFiniteSet(Duties[m])
ASSUME DutiesAgree  ==
  \A r \in InitialRosters, m \in Members : r[m].leader <=> \E d \in Duties[m] : IsLeader(d)
ASSUME PaidCodeType == PaidCode \in [Members -> [prev : STRING, current : STRING]]
ASSUME ExpectedType == Expected \in [DOMAIN Expected -> Nat \ {0}]

DASH == None  \* not applicable: neither 0 nor blank

-----------------------------------------------------------------------------
(* Composition. *)

InTroop(r, t) == {m \in Members : r[m].troop = t}
Size(r, t)    == Cardinality(InTroop(r, t))

(* The avdelningar with a row: the configured and those somebody is in.    *)
AvdRows(r)    == Declared \cup Live(r)
RowsOf(r, b)  == {t \in AvdRows(r) : SourceBracket(t) = b}

AvdDict(r, t) ==
  [bracket    |-> SourceBracket(t),
   weekday    |-> IF t \in Declared /\ Weekday[t] # None THEN Weekday[t] ELSE DASH,
   members    |-> IF Size(r, t) = 0 THEN DASH ELSE Size(r, t),
   configured |-> t \in Declared,
   discovered |-> t \in Live(r)]

Subtotal(r, b) == SumFunction([t \in RowsOf(r, b) |-> Size(r, t)])

Composition(r) ==
  LET shown == {b \in Brackets : RowsOf(r, b) # {}}
      unit  == SumFunction([b \in shown |-> Subtotal(r, b)])
  IN
  [groups    |-> [b \in shown |->
                    [subtotal |-> Subtotal(r, b),
                     avdelningar |-> [t \in RowsOf(r, b) |-> AvdDict(r, t)]]],
   unknown   |-> [t \in RowsOf(r, None) |-> AvdDict(r, t)],
   no_unit   |-> Size(r, None),
   kar_total |-> unit + Size(r, None)]

-----------------------------------------------------------------------------
(* Leaders, and scouts for each of them. *)

LedareMembers(r) == {m \in Members : r[m].troop \in EighteenPlus}
RoleHolders(r)   == {m \in Members : r[m].leader}

Leads(m) == {d.of : d \in {e \in Duties[m] : e.scope = "troop" /\ IsLeader(e)}}

(* Leaders of a troop, by where they are placed themselves.                *)
LeadersOf(r, t) ==
  LET led == {m \in Members : t \in Leads(m)} IN
  [adult |-> Cardinality(led \cap LedareMembers(r)),
   youth |-> Cardinality(led \ LedareMembers(r))]

(* The leaders of a troop are known by its id. *)
ScoutsPerLeader(r) ==
  [t \in {u \in AvdRows(r) : SourceBracket(u) \notin {None, "annat"}} |->
     LET led == IF t \in Live(r) THEN LeadersOf(r, t) ELSE [adult |-> 0, youth |-> 0]
         all == led.adult + led.youth
     IN
     [scouts  |-> IF Size(r, t) = 0 THEN DASH ELSE Size(r, t),
      leaders |-> IF all = 0 THEN DASH ELSE led,
      ratio   |-> IF Size(r, t) = 0 \/ all = 0 THEN DASH ELSE <<Size(r, t), all>>]]

-----------------------------------------------------------------------------
(* The projection of the coming year. *)

Master(r, n, elected) == [m \in Members |-> Computed(r, n, elected, m)]

(* Mutant: only the rows with a target leave their avdelning. *)
MoversWithTarget(ms) == {m \in Members : ms[m].status = "ready"}

Movers(ms)  == {m \in Members : ms[m].status \in {"ready", "pending_target"}}

Pending(ms) == {m \in Members : ms[m].status = "pending_target"}

Outgoing(ms, t) == Cardinality({m \in Movers(ms) : ms[m].source = t})
Incoming(ms, t) == Cardinality({m \in Movers(ms) : ms[m].target = t})

Row(current, out, inc, next, basis) ==
  [current |-> current, outgoing |-> out, incoming |-> inc, next |-> next, basis |-> basis]

ProjectionRow(r, ms, t) ==
  LET count == Size(r, t)
      out   == Outgoing(ms, t)
      inc   == Incoming(ms, t)
      b     == SourceBracket(t)
  IN
  CASE count = 0 -> Row(DASH, DASH, DASH, DASH, "empty")
    [] count # 0 /\ b = "sparare" -> Row(count, out, DASH, count - out, "recruitment")
    [] count # 0 /\ b \in {"utmanare", "rover", "annat"} ->
         Row(count, 0, inc, count + inc, "static")
    [] count # 0 /\ b \in {None, "upptackare", "aventyrare"} ->
         Row(count, out, inc, count - out + inc, "derived")

(* Whoever has no target yet is counted into a new avdelning of utmanare.  *)
NewAvdelning(ms) ==
  IF Pending(ms) = {} THEN {}
  ELSE {Row(DASH, DASH, Cardinality(Pending(ms)), Cardinality(Pending(ms)), "pending")}

(* Movers by the configured bracket of where they leave. *)
TransitionLines(ms) ==
  [b \in Moving |->
     Cardinality({m \in Movers(ms) : ms[m].source \in Declared /\ DeclaredAs[ms[m].source] = b})]

ShiftApplied(ms) == Movers(ms) = {}

Projection(r, n, elected) ==
  LET ms == Master(r, n, elected) IN
  [rows        |-> [t \in AvdRows(r) |-> ProjectionRow(r, ms, t)],
   new         |-> NewAvdelning(ms),
   transitions |-> TransitionLines(ms),
   targets     |-> IF ShiftApplied(ms) THEN n + 1 ELSE n]

-----------------------------------------------------------------------------
(* Key figures, and the totals compared with organisation/group. *)

Highest(S) == CHOOSE x \in S : \A y \in S : y <= x
Lowest(S)  == CHOOSE x \in S : \A y \in S : x <= y

(* Sizes within a scout bracket, where at least two avdelningar have any.  *)
SizeSpread(r) ==
  LET full(b) == {t \in RowsOf(r, b) : Size(r, t) # 0}
      of(b)   == {Size(r, t) : t \in full(b)}
  IN [b \in {c \in Moving : Cardinality(full(c)) >= 2} |-> Highest(of(b)) - Lowest(of(b))]

(* The list of those awaiting approval is never fetched for the overview.  *)
WaitingDepth(n, got) ==
  LET fits(b) == {a \in DOMAIN Applicants :
                    Applicants[a] # None /\ n # None /\ AgeBracket(n - Applicants[a]) = b}
  IN
  [total       |-> IF got THEN Cardinality(DOMAIN Applicants) ELSE 0,
   per_bracket |-> [b \in {c \in Brackets : got /\ fits(c) # {}} |-> Cardinality(fits(b))],
   missing     |-> {"awaiting_approval"} \cup IF got THEN {} ELSE {"waiting"}]

Bucket(code) ==
  CASE code = "paid" -> "settled"
    [] code = "not_invoiced" -> "not_billed"
    [] code \in {"unpaid_overdue_reminded", "paid_partial_credit"} -> "outstanding"
    [] OTHER -> "unknown"

PrevPayment(m)    == Bucket(PaidCode[m].prev)
CurrentPayment(m) == Bucket(PaidCode[m].current)

(* Agrees with a figure of the organisation, or it gives none. *)
Agrees(computed, org) == org \in {None, computed}

SharePaid(org) ==
  LET paid == Cardinality({m \in Members : PrevPayment(m) = "settled"}) IN
  [paid |-> paid, of |-> Cardinality(Members), cross_check_ok |-> Agrees(paid, org)]

Reconciliation(r, membercount, troops) ==
  [membercount   |-> Agrees(Cardinality(Members), membercount),
   active_troops |-> Agrees(Cardinality(AvdRows(r)), troops)]

-----------------------------------------------------------------------------
(* Dues: the page by avdelning, and the rows of the chase list. *)

DuesBuckets == {"not_billed", "outstanding", "settled", "unknown"}

DuesByAvdelning(r) ==
  [t \in {r[m].troop : m \in Members} |->
     [counts |-> [b \in DuesBuckets |->
                    Cardinality({m \in InTroop(r, t) : PrevPayment(m) = b})],
      outstanding |-> {m \in InTroop(r, t) : PrevPayment(m) \in {"outstanding", "unknown"}}]]

(* Mutant: only the invoiced term decides who is on the list, and a code   *)
(* nobody knows is passed over.                                            *)
RouteByTerm(m) ==
  IF PrevPayment(m) = "outstanding" THEN "chase" ELSE None

(* What is done about a member's dues. *)
Routes == {"review", "chase"}

ASSUME NoneIsNoRoute == None \notin Routes

Route(m) ==
  LET buckets == {CurrentPayment(m), PrevPayment(m)} IN
  IF "unknown" \in buckets THEN "review"
  ELSE IF "outstanding" \in buckets THEN "chase"
  ELSE None

-----------------------------------------------------------------------------
(* Elected posts. *)

BoardOrder == <<"leader", "vice_leader", "treasurer", "vice_treasurer", "secretary",
                "board_member", "scout_challenge_rep", "board_deputy">>

Listed(order, key) == \E i \in DOMAIN order : order[i] = key

Section(key) ==
  IF Listed(BoardOrder, key) THEN "board"
  ELSE IF key = "district_voter" THEN "delegate" ELSE "other"

(* One assignment for each post of each member. *)
Assignments == {a \in [member : Members, key : {d.key : d \in UNION {Duties[m] : m \in Members}}] :
                  \E d \in Duties[a.member] : d.scope = "group" /\ d.key = a.key}

BySection == [s \in {"board", "other", "delegate"} |-> {a \in Assignments : Section(a.key) = s}]

TotalRoles == SumFunction([m \in Members |-> Cardinality(Duties[m])])

(* Expected posts with fewer holders than seats, and the seats missing.    *)
Vacancies ==
  LET filled(k) == Cardinality({a \in Assignments : a.key = k}) IN
  [k \in {e \in DOMAIN Expected : filled(e) < Expected[e]} |-> Expected[k] - filled(k)]

RolecountMatches(rolecount) == rolecount # None /\ rolecount = TotalRoles

(* The organisation's own figures, as the fixture client makes them up     *)
(* from its memberlist.                                                    *)
Aggregate(r) ==
  [membercount          |-> Cardinality(Members),
   rolecount            |-> TotalRoles,
   active_troops        |-> Cardinality(Live(r)),
   active_paid_previous |-> Cardinality({m \in Members : PrevPayment(m) = "settled"})]

-----------------------------------------------------------------------------
(* Findings about roles (compute_findings). *)

(* Leaders of an 18+ troop, which gives them rights over every adult.      *)
SecurityFindings(r) == {m \in Members : Leads(m) \cap EighteenPlus \cap Live(r) # {}}

(* avdelning_troop_ids: the troop a member is in and those it has a role   *)
(* in.                                                                     *)
AttachedTo(r, m) == ({r[m].troop} \cup {d.of : d \in {e \in Duties[m] : e.scope = "troop"}}) \ {None}

(* Rovers may be in several: a bracket Scoutnet does not give is taken     *)
(* from the configuration (build_troop_index).                             *)
RoverIds(r) ==
  LET bracket(t) == IF BracketOf[t] = None THEN SourceBracket(t) ELSE BracketOf[t] IN
  {t \in Live(r) : bracket(t) = "rover"}

MultiAvdelning(r) ==
  {m \in Members : /\ r[m].troop # None /\ BracketOf[r[m].troop] \in Structural
                   /\ Cardinality(AttachedTo(r, m) \ RoverIds(r)) > 1}

-----------------------------------------------------------------------------
(* Properties. *)

(* The configuration has the brackets that Scoutnet has. *)
ConfigAgrees == \A t \in Declared : DeclaredAs[t] = BracketOf[t]

(* What explicit targets and the election are made for, and nothing but    *)
(* their existence is validated: an explicit target leads out of the       *)
(* bracket and not back to the youngest, and the id elected is that of an  *)
(* avdelning that nobody moves on from.                                    *)
TargetsLeadUp ==
  /\ ConfigAgrees
  /\ \A t \in Declared : Flow[t] # None /\ BracketOf[t] \in Moving =>
       BracketOf[Flow[t]] \notin {BracketOf[t], "sparare"}
  /\ Elected(Now) # None => BracketOf[Elected(Now).troop] \notin Moving

(* The election's name and id are of one troop, as the memberlist's are.   *)
(* Nothing validates it: an id may be typed in beside any name.            *)
ElectionAgrees == Elected(Now) # None => Elected(Now).name = Elected(Now).troop

(* Between requests. *)
Quiet == \A h \in Handlers : ~Open(h)

(* The memberlist once the computed moves are made: those with a target    *)
(* are in it, those without are in none of the rows.                       *)
CountAfter(r, ms, t) ==
  Cardinality({m \in Members \ Pending(ms) :
                 t = IF ms[m].status = "ready" THEN ms[m].troop ELSE r[m].troop})

(* What the overview projects is what the uppflyttning does: next year's   *)
(* size of every avdelning that is in use is the size it has once the      *)
(* computed moves are made, and the row of the new avdelning counts those  *)
(* still without a target (projection, against the write of the same set). *)
(* The projection goes by names and the write by ids, so it holds only     *)
(* where the election's name is that of its id.                            *)
ProjectionIsReached ==
  Quiet /\ Now # None /\ TargetsLeadUp /\ ElectionAgrees =>
    \A ms \in {Master(roster, Now, Elected(Now))}, p \in {Projection(roster, Now, Elected(Now))} :
    /\ \A t \in Live(roster) : p.rows[t].next = CountAfter(roster, ms, t)
    /\ \A row \in p.new : row.next = Cardinality(Members)
         - SumFunction([t \in Troops \cup {None} |-> CountAfter(roster, ms, t)])

(* Pages that count the same members by different roads agree: the kar     *)
(* total and the memberlist, but for those in an avdelning whose bracket   *)
(* nobody knows, which no total has; the dues and the memberlist; the      *)
(* settled dues and the share that has paid; the members the dues page     *)
(* lists are all on the chase list; the projected lines count the movers   *)
(* of configured avdelningar, if the configuration has the brackets that   *)
(* Scoutnet has, and nobody who is a leader or among the leaders; a young  *)
(* scout counted as a leader of another avdelning is a finding; each post  *)
(* of the group is in a section; and the figures the fixture client makes  *)
(* up agree with the pages, but for the count of avdelningar as soon as a  *)
(* configured one is empty.                                                *)
PagesAgree ==
  Quiet /\ Now # None =>
    LET ms == Master(roster, Now, Elected(Now))
        dues == DuesByAvdelning(roster)
        org == Aggregate(roster)
        checks == Reconciliation(roster, org.membercount, org.active_troops)
        kar == Composition(roster)
        spread == SizeSpread(roster)
    IN
    /\ kar.kar_total = Cardinality(
         {m \in Members : roster[m].troop = None \/ SourceBracket(roster[m].troop) # None})
    /\ SumFunction([t \in DOMAIN dues |-> SumFunction(dues[t].counts)]) = Cardinality(Members)
    /\ SumFunction([t \in DOMAIN dues |-> dues[t].counts["settled"]]) = SharePaid(None).paid
    /\ SharePaid(org.active_paid_previous).cross_check_ok /\ RolecountMatches(org.rolecount)
    /\ checks.membercount /\ (checks.active_troops <=> Declared \subseteq Live(roster))
    /\ \A t \in DOMAIN dues : \A m \in dues[t].outstanding : Route(m) # None
    /\ ConfigAgrees => SumFunction(TransitionLines(ms))
         = Cardinality({m \in Movers(ms) : roster[m].troop \in Declared})
    /\ Movers(ms) \cap (LedareMembers(roster) \cup RoleHolders(roster)) = {}
    /\ \A t \in DOMAIN ScoutsPerLeader(roster) : \A m \in Members :
         t \in Leads(m) /\ t # roster[m].troop /\ roster[m].troop # None
           /\ BracketOf[roster[m].troop] \in Structural /\ t \notin RoverIds(roster)
         => m \in MultiAvdelning(roster) /\ "young_leader" \in Findings(roster, Now, m)
    /\ SecurityFindings(roster) \subseteq RoleHolders(roster)
    /\ UNION {BySection[s] : s \in DOMAIN BySection} = Assignments
    /\ \A k \in DOMAIN Vacancies : {a \in BySection[Section(k)] : a.key = k} = {}
         \/ Vacancies[k] < Expected[k]
    /\ \A b \in DOMAIN spread : spread[b] < kar.groups[b].subtotal
=============================================================================
