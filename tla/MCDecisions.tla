----------------------------- MODULE MCDecisions -----------------------------
(* Small instances of Decisions for TLC: a group where every case of the   *)
(* engine has a member, and two members whose requests race.              *)
EXTENDS Letters, TLC

CONSTANTS
  s1, s2, u1, u2, v1, e1, e2, l1, x1,          \* troops
  moves, torn, merges, waits, leads, adult,    \* members, named for what they are
  lost, minor, ageless, overage, placed, chief,
  h1, h2, i1, i2,                              \* request threads, primary keys
  a1, a2, a3, a4, a5                           \* applicants

(* Two troops of sparare and of upptackare, one of aventyrare, two of      *)
(* utmanare of which e1 is still empty, the leaders, and one of a type     *)
(* nobody knows.                                                           *)
TheBrackets ==
  s1 :> "sparare" @@ s2 :> "sparare" @@ u1 :> "upptackare" @@ u2 :> "upptackare"
    @@ v1 :> "aventyrare" @@ e1 :> "utmanare" @@ e2 :> "utmanare" @@ l1 :> "annat" @@ x1 :> None

(* s1 and u1 meet on the same day, u1 names its target; s2, u2, e2 and x1  *)
(* are not configured.                                                     *)
TheDays == s1 :> 1 @@ u1 :> 1 @@ v1 :> 3 @@ e1 :> None @@ l1 :> None
Configured == DOMAIN TheDays
AsScoutnet == [t \in Configured |-> TheBrackets[t]]
TheFlow == [t \in Configured |-> IF t = u1 THEN v1 ELSE None]

Child(t, born) == [troop |-> t, born |-> born, leader |-> FALSE]
Leader(t, born) == [troop |-> t, born |-> born, leader |-> TRUE]

(* With the ages in the first year, 2025. *)
TheRoster ==
  moves :> Child(s1, 2015)            \* 10: to u1, same weekday
    @@ torn :> Child(s2, 2015)        \* 10: to u1 or u2
    @@ merges :> Child(u1, 2013)      \* 12: to v1, as configured
    @@ waits :> Child(v1, 2010)       \* 15: to e1 or e2
    @@ leads :> Leader(v1, 2009)      \* 16
    @@ adult :> Child(v1, 2007)       \* 18
    @@ lost :> Child(None, 2012)
    @@ minor :> Child(l1, 2008)       \* 17, among the leaders
    @@ ageless :> Child(u1, None)
    @@ overage :> Child(s1, 2012)     \* 13 in sparare
    @@ placed :> Child(e2, 2010)      \* 15 in utmanare
    @@ chief :> Leader(l1, 1980)

(* Also with u2 in use, for torn to have a choice, without e2, and with    *)
(* the lost one in x1.                                                     *)
Rosters ==
  {TheRoster, [TheRoster EXCEPT ![placed] = Child(u2, 2014), ![lost] = Child(x1, 2012)]}

(* Roles: of the troop, of the group and of a patrol, and a post that the  *)
(* code does not know of.                                                  *)
TheDuties ==
  LET post(scope, t, key) == [scope |-> scope, of |-> t, key |-> key] IN
  [m \in Members |->
     CASE m = leads -> {post("troop", s1, "assistant_leader"), post("patrol", v1, "leader")}
       [] m = chief -> {post("troop", l1, "leader"), post("troop", s1, "leader"),
                        post("group", None, "treasurer"), post("group", None, "webmaster")}
       [] m = adult -> {post("group", None, "district_voter")}
       [] m = waits -> {post("patrol", v1, "leader")}
       [] OTHER     -> {}]

TheCodes ==
  [m \in Members |->
     CASE m \in {torn, chief} -> [prev |-> "unpaid_overdue_reminded", current |-> "not_invoiced"]
       [] m = lost -> [prev |-> "paid_partial_credit", current |-> "unpaid_overdue_reminded"]
       [] m = adult -> [prev |-> "cancelled", current |-> "not_invoiced"]
       [] OTHER -> [prev |-> "paid", current |-> "not_invoiced"]]

ThePosts == [treasurer |-> 1, secretary |-> 1, district_voter |-> 2]

(* Two in one patrol of u1, and one in another. *)
ThePatrols == [m \in Members |-> IF m \in {merges, ageless} THEN 7 ELSE IF m = waits THEN 8 ELSE None]

(* a1 comes of age in 2026; a2's guardians share an address; a3 has none   *)
(* of its own.  a4 and a5 are 15 and apply among the leaders, the one to   *)
(* l1, the other by the bracket alone and without an address of its own.   *)
Born == a1 :> 2008 @@ a2 :> 2016 @@ a3 :> 1990 @@ a4 :> 2010 @@ a5 :> 2010
TheForms ==
  [a \in Applying |-> [born |-> Born[a], unit |-> IF a = a4 THEN l1 ELSE None,
                       bracket |-> IF a \in {a4, a5} THEN "annat" ELSE None,
                       sex |-> IF a = a1 THEN "1" ELSE "other"]]

TheMail ==
  [a \in Applying |-> [f \in MailFields |->
     CASE a \in {a1, a4} -> IF f = "contact_email" THEN "a@own" ELSE IF f = "contact_email_mum" THEN "a@home" ELSE None
       [] a = a2 -> IF f = "contact_email_mum" THEN "b@home" ELSE IF f = "contact_email_dad" THEN "B@home" ELSE None
       [] a \in {a3, a5} -> IF f = "contact_email_dad" THEN "c@home" ELSE None]]

Folded == "a@own" :> "a@own" @@ "a@home" :> "a@home" @@ "b@home" :> "b@home"
            @@ "B@home" :> "b@home" @@ "c@home" :> "c@home"

(* One who waits for a target, and one who has arrived. *)
RacingRosters == {[m \in Members |-> Child(IF m = waits THEN v1 ELSE e2, 2010)]}

Decide(m, t, s, a) ==
  [op |-> "decide", member |-> m, change |-> [target |-> t, stay |-> s, ack |-> a]]

(* By the dropdown, and with an id typed in. *)
Elect(t) == [op |-> "elect", name |-> t, troop |-> None]
ElectId(t, id) == [op |-> "elect", name |-> t, troop |-> id]
Revert(m) == [op |-> "revert", member |-> m]
Whole == {[op |-> "unelect"], [op |-> "reset"]}

(* What the page sends for a chosen target and a keep, and what a client   *)
(* of the API sends for an acknowledgement.                                *)
Aim(m, t)  == Decide(m, t, None, Unset)
Keep(m, n) == Decide(m, None, n, Unset)
Ack(m)     == Decide(m, Unset, Unset, TRUE)

PlanningRequests ==
  {Aim(torn, u1), Aim(leads, e2), Aim(minor, v1), Keep(moves, 2025),
   ElectId(e1, e1), Elect(e2), ElectId(e1, e2)} \cup Whole

RacingRequests ==
  {Aim(waits, e2), Ack(waits), Revert(waits),
   Aim(merges, e1), ElectId(e1, e1), Elect(e2), ElectId(e1, e2)} \cup Whole

Interchangeable == Permutations(Handlers) \cup Permutations(RowIds)
=============================================================================
