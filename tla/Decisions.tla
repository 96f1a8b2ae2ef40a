------------------------------ MODULE Decisions ------------------------------
(***************************************************************************)
(* The operators' working state on the uppflyttning: decisions on members  *)
(* (uppflyttning_entry) and the elected Utmanare target (cohort_target),   *)
(* as the endpoints of web/api.py read and write them.                     *)
(*                                                                         *)
(* Request threads run side by side.  A request is one database session: a *)
(* SELECT, whose result it keeps, and a flush with its commit.  Sessions   *)
(* see what others have committed, and write by primary key; the ORM       *)
(* writes the columns that differ from what it had read, and fails when    *)
(* the row of an UPDATE is gone.  uppflyttning_entry has no unique key.    *)
(***************************************************************************)
EXTENDS Uppflyttning

CONSTANTS
  Handlers,        \* request threads
  RowIds,          \* primary keys; bounds the rows alive at a time
  Requests,        \* what operators ask for
  InitialRosters,  \* what Scoutnet may hold
  FirstTerm,       \* year of the term label at the start
  LastTerm,        \* bound on the years modelled
  Unset            \* a field the request does not provide

VARIABLES
  roster,   \* Scoutnet's memberlist
  term,     \* year of its current term label
  entry,    \* uppflyttning_entry
  target,   \* cohort_target of bracket utmanare
  session   \* the open session of each request thread

dvars == <<roster, term, entry, target, session>>

Years == FirstTerm..LastTerm

Decision == [target : Troops \cup {None}, stay : Years \cup {None}, ack : BOOLEAN]

(* A change of a decision: Unset fields are left alone, None clears one.   *)
Change == [target : Troops \cup {None, Unset}, stay : Years \cup {None, Unset},
           ack : BOOLEAN \cup {Unset}]

Fields == {"target", "stay", "ack"}

EntryRow  == [year : Years, member : Members, decision : Decision]
TargetRow == [year : Years, name : Troops, troop : Troops]

(* Requests an endpoint answers; each concerns the cohort year it derives. *)
(* An election names a troop and comes with an id that was typed in, or    *)
(* with None when it is a choice among the troops of the memberlist.       *)
Request ==
  [op : {"decide"}, member : Members, change : Change]
    \cup [op : {"revert"}, member : Members]
    \cup [op : {"elect"}, name : Troops, troop : Troops \cup {None}]
    \cup [op : {"unelect", "reset"}]

ASSUME RequestsType == Requests \subseteq Request
ASSUME TermsType    == FirstTerm \in Nat /\ LastTerm \in Nat /\ FirstTerm <= LastTerm
ASSUME RostersType  == InitialRosters \subseteq [Members -> Scout]
ASSUME FreshNames   == None \notin RowIds /\ Unset \notin Troops \cup Nat \cup {None}

Closed == [pc |-> "closed"]

(* What a session holds between its statements: the request, the year, the *)
(* row it has read (None: no row), and for a reset the rows it has deleted *)
(* but not committed.                                                      *)
OpenSession ==
  [pc : {"read", "deleted"}, request : Request, year : Years,
   row : RowIds \cup {None}, seen : EntryRow \cup TargetRow \cup {None},
   doomed : SUBSET RowIds]

Session == {Closed} \cup OpenSession

DecisionsTypeOK ==
  /\ roster \in InitialRosters
  /\ term \in Years
  /\ entry \in [RowIds -> EntryRow \cup {None}]
  /\ target \in [RowIds -> TargetRow \cup {None}]
  /\ session \in [Handlers -> Session]

DecisionsInit ==
  /\ roster \in InitialRosters
  /\ term = FirstTerm
  /\ entry = [i \in RowIds |-> None]
  /\ target = [i \in RowIds |-> None]
  /\ session = [h \in Handlers |-> Closed]

-----------------------------------------------------------------------------
(* Queries. *)

Open(h) == session[h].pc # "closed"

EntriesOf(n, m) == {i \in RowIds : entry[i] # None /\ entry[i].year = n /\ entry[i].member = m}
(* Mutant: the year is forgotten in the WHERE clause of the DELETE. *)
EntriesOfAnyYear(n) == {i \in RowIds : entry[i] # None}

EntriesIn(n) == {i \in RowIds : entry[i] # None /\ entry[i].year = n}
Elections(n) == {i \in RowIds : target[i] # None /\ target[i].year = n}

(* A primary key is never given out again while a session remembers it.    *)
Unused(table, i) ==
  /\ table[i] = None
  /\ \A h \in Handlers : Open(h) => session[h].row # i /\ i \notin session[h].doomed

(* A row another session has deleted and not committed is locked.          *)
Locked(h, i) == \E g \in Handlers \ {h} : Open(g) /\ i \in session[g].doomed

Enter(h, q, n, row, seen) ==
  session' = [session EXCEPT ![h] =
    [pc |-> "read", request |-> q, year |-> n, row |-> row, seen |-> seen, doomed |-> {}]]

Leave(h) == session' = [session EXCEPT ![h] = Closed]

-----------------------------------------------------------------------------
(* The SELECT of each endpoint. *)

(* A request that meets no row to change, several rows where one is        *)
(* expected, or a conflict about the year ends without effect and is not a *)
(* step.                                                                   *)
ReadEntry(h, q, n) ==
  LET found == EntriesOf(n, q.member) IN
  /\ \/ q.op = "decide" /\ Cardinality(found) <= 1
     \/ q.op = "revert" /\ Cardinality(found) = 1
  /\ IF found = {} THEN Enter(h, q, n, None, None)
                   ELSE Enter(h, q, n, Only(found), entry[Only(found)])

ReadTarget(h, q, n) ==
  LET found == Elections(n) IN
  /\ \/ q.op = "elect" /\ (q.troop = None => q.name \in Live(roster))
     \/ q.op = "unelect" /\ found # {}
  /\ IF found = {} THEN Enter(h, q, n, None, None)
                   ELSE Enter(h, q, n, Only(found), target[Only(found)])

(* clear_all_decisions: one DELETE over every row of the year, seen by     *)
(* nobody else before the commit.                                          *)
DeleteEntries(h, q, n) ==
  /\ q.op = "reset"
  /\ \A i \in EntriesIn(n) : ~Locked(h, i)
  /\ session' = [session EXCEPT ![h] =
       [pc |-> "deleted", request |-> q, year |-> n, row |-> None, seen |-> None,
        doomed |-> EntriesIn(n)]]

Begin(h, q) ==
  LET n == CohortYear(term) IN
  /\ ~Open(h) /\ n # None
  /\ \/ ReadEntry(h, q, n)
     \/ ReadTarget(h, q, n)
     \/ DeleteEntries(h, q, n)
  /\ UNCHANGED <<roster, term, entry, target>>

(* clear_elected_target inside a reset. *)
ReadTargetOfReset(h) ==
  LET s == session[h]  found == Elections(s.year) IN
  /\ s.pc = "deleted"
  /\ session' = [session EXCEPT ![h] =
       [s EXCEPT !.pc = "read", !.row = IF found = {} THEN None ELSE Only(found)]]
  /\ UNCHANGED <<roster, term, entry, target>>

-----------------------------------------------------------------------------
(* The flush and the commit. *)

(* The value of a field: the one written, where there is one to write.     *)
Over(old, new, written) == IF written THEN new ELSE old

Overwrite(decision, change, fields) ==
  [target |-> Over(decision.target, change.target, "target" \in fields),
   stay   |-> Over(decision.stay, change.stay, "stay" \in fields),
   ack    |-> Over(decision.ack, change.ack, "ack" \in fields)]

(* Mutant: a field the request leaves out is written all the same. *)
AllFields(change) == Fields

(* upsert_decision: the fields the request provides.                       *)
Provided(change) == {f \in Fields : change[f] # Unset}

(* The columns of an UPDATE: those the request makes differ from the row   *)
(* as it was read.                                                         *)
Dirty(seen, change) == {f \in Provided(change) : change[f] # seen.decision[f]}

InsertEntry(h) ==
  LET s == session[h] IN
  /\ s.request.op = "decide" /\ s.row = None
  /\ \E i \in RowIds :
       /\ Unused(entry, i)
       /\ entry' = [entry EXCEPT ![i] =
            [year |-> s.year, member |-> s.request.member,
             decision |-> Overwrite(NoDecision, s.request.change, Provided(s.request.change))]]
  /\ UNCHANGED target

(* Mutant: the whole row is written back, as it was read and changed.      *)
RewriteEntry(h) ==
  LET s == session[h] IN
  /\ s.request.op = "decide" /\ s.row # None /\ ~Locked(h, s.row)
  /\ entry' = IF entry[s.row] = None THEN entry
              ELSE [entry EXCEPT ![s.row].decision =
                     Overwrite(s.seen.decision, s.request.change, Provided(s.request.change))]
  /\ UNCHANGED target

(* An UPDATE of a row that is gone fails the request. *)
UpdateEntry(h) ==
  LET s == session[h] IN
  /\ s.request.op = "decide" /\ s.row # None /\ ~Locked(h, s.row)
  /\ entry' = IF entry[s.row] = None THEN entry
              ELSE [entry EXCEPT ![s.row].decision =
                     Overwrite(@, s.request.change, Dirty(s.seen, s.request.change))]
  /\ UNCHANGED target

DeleteEntry(h) ==
  LET s == session[h] IN
  /\ s.request.op = "revert" /\ ~Locked(h, s.row)
  /\ entry' = [entry EXCEPT ![s.row] = None]
  /\ UNCHANGED target

(* What an election stores: the name, and the id typed in or looked up.    *)
Asked(q) == [name |-> q.name, troop |-> IF q.troop = None THEN q.name ELSE q.troop]

TargetOf(n, elected) == [year |-> n, name |-> elected.name, troop |-> elected.troop]

(* Mutant: cohort_target has no unique key. *)
InsertAnotherTarget(h) ==
  LET s == session[h] IN
  /\ s.request.op = "elect" /\ s.row = None
  /\ \E i \in RowIds :
       /\ Unused(target, i)
       /\ target' = [target EXCEPT ![i] = TargetOf(s.year, Asked(s.request))]
  /\ UNCHANGED entry

(* cohort_target has a unique key: a second INSERT fails the request.      *)
InsertTarget(h) ==
  LET s == session[h] IN
  /\ s.request.op = "elect" /\ s.row = None
  /\ IF Elections(s.year) # {} THEN UNCHANGED target
     ELSE \E i \in RowIds :
            /\ Unused(target, i)
            /\ target' = [target EXCEPT ![i] = TargetOf(s.year, Asked(s.request))]
  /\ UNCHANGED entry

(* The name and the id are columns of their own, each written if it        *)
(* differs from what was read: re-elections that race may leave the name   *)
(* of the one beside the id of the other.                                  *)
Reelected(row, seen, elected) ==
  [year  |-> row.year,
   name  |-> Over(row.name, elected.name, elected.name # seen.name),
   troop |-> Over(row.troop, elected.troop, elected.troop # seen.troop)]

UpdateTarget(h) ==
  LET s == session[h] IN
  /\ s.request.op = "elect" /\ s.row # None
  /\ target' = IF target[s.row] = None THEN target
               ELSE [target EXCEPT ![s.row] = Reelected(@, s.seen, Asked(s.request))]
  /\ UNCHANGED entry

DeleteTarget(h) ==
  LET s == session[h] IN
  /\ s.request.op = "unelect"
  /\ target' = [target EXCEPT ![s.row] = None]
  /\ UNCHANGED entry

CommitReset(h) ==
  LET s == session[h] IN
  /\ s.request.op = "reset"
  /\ entry' = [i \in RowIds |-> IF i \in s.doomed THEN None ELSE entry[i]]
  /\ target' = [i \in RowIds |-> IF i = s.row THEN None ELSE target[i]]

Commit(h) ==
  /\ session[h].pc = "read"
  /\ \/ InsertEntry(h) \/ UpdateEntry(h) \/ DeleteEntry(h)
     \/ InsertTarget(h) \/ UpdateTarget(h) \/ DeleteTarget(h) \/ CommitReset(h)
  /\ Leave(h)
  /\ UNCHANGED <<roster, term>>

(* The request fails, or its worker dies: the session is rolled back.      *)
Rollback(h) ==
  /\ Open(h)
  /\ Leave(h)
  /\ UNCHANGED <<roster, term, entry, target>>

(* Scoutnet's term label moves on to the next year. *)
NextTerm ==
  /\ term < LastTerm
  /\ term' = term + 1
  /\ UNCHANGED <<roster, entry, target, session>>

DecisionsNext ==
  \/ \E h \in Handlers :
       \/ \E q \in Requests : Begin(h, q)
       \/ ReadTargetOfReset(h)
       \/ Commit(h)
       \/ Rollback(h)
  \/ NextTerm

DecisionsSpec == DecisionsInit /\ [][DecisionsNext]_dvars

-----------------------------------------------------------------------------
(* What the operator is shown: the computed set with decisions applied. *)

(* get_elected_target. *)
Elected(n) ==
  IF Elections(n) = {} THEN None
  ELSE LET row == target[Only(Elections(n))] IN [name |-> row.name, troop |-> row.troop]

(* get_decisions; should a member have several rows, any may be the last.  *)
DecisionsOn(n, m) ==
  IF EntriesOf(n, m) = {} THEN {NoDecision}
  ELSE {entry[i].decision : i \in EntriesOf(n, m)}

(* _master_set and _raw_master_set: the row a member may be shown with.    *)
Shown(n, m) == {Applied(roster, n, Computed(roster, n, Elected(n), m), o) : o \in DecisionsOn(n, m)}
Raw(n, m)   == Computed(roster, n, None, m)

(* The year the pages are about; None on a conflict, and then no page.     *)
Now == CohortYear(term)

-----------------------------------------------------------------------------
(* Properties. *)

(* A session knows its rows by key alone.  As keys are not given out again *)
(* while it does, a key it has read or deleted stands for a row of its     *)
(* year, and of its member, or for none: what OthersAreLeftAlone rests on. *)
KeyStands(h) ==
  LET s == session[h] IN
  /\ s.pc = "deleted" \/ s.doomed # {} => s.request.op = "reset"
  /\ \A i \in s.doomed : entry[i] # None => entry[i].year = s.year
  /\ s.row # None /\ s.request.op \in {"decide", "revert"} /\ entry[s.row] # None
       => entry[s.row].year = s.year /\ entry[s.row].member = s.request.member
  /\ s.row # None /\ s.request.op \in {"elect", "unelect", "reset"} /\ target[s.row] # None
       => target[s.row].year = s.year
  /\ s.request.op \in {"revert", "unelect"} => s.row # None

KeysStand == \A h \in Handlers : Open(h) => KeyStands(h)

(* Between the SELECT and the commit of an upsert others commit: it sets   *)
(* the fields its request gives and leaves the others as they now are,     *)
(* "only provided fields change" (upsert_decision).                        *)
OnlyProvidedFieldsChange ==
  [][\A h \in Handlers, i \in RowIds, f \in Fields :
       /\ Open(h) /\ session'[h] = Closed /\ session[h].request.op = "decide"
       /\ entry[i] # None /\ entry'[i] # None /\ session[h].request.change[f] = Unset
       => entry'[i].decision[f] = entry[i].decision[f]]_dvars

(* No request reaches a decision of another cohort year, and only a reset  *)
(* one of another member (the WHERE clauses of decisions.py).              *)
OthersAreLeftAlone ==
  [][\A i \in RowIds :
       entry[i] # None /\ entry'[i] # entry[i] =>
         \E h \in Handlers :
           /\ Open(h) /\ session'[h] = Closed /\ session[h].year = entry[i].year
           /\ session[h].request.op = "reset" \/ session[h].request.member = entry[i].member]_dvars

(* However elections interleave, a cohort year has one target: every read  *)
(* of it expects one row or none (get_elected_target).                     *)
OneElection == \A n \in Years : \A i, j \in Elections(n) : i = j

(* A member whose decisions name no target.                                *)
Undirected(n, m) == \A o \in DecisionsOn(n, m) : o.target = None

(* Whatever is decided and elected, a leader, an adult, a minor among the  *)
(* leaders or a member in no troop is never made ready to move unless an   *)
(* operator chose the target for that very member (_is_excluded).          *)
NobodyMovesUnasked ==
  Now # None =>
    \A m \in Members : \A e \in Shown(Now, m) :
      e.status = "ready" /\ Undirected(Now, m) =>
        /\ roster[m].troop \notin EighteenPlus \cup {None}
        /\ ~roster[m].leader
        /\ Minor(Now, roster[m])
        /\ AgeBracket(Now - roster[m].born) = NextBracket[BracketOf[roster[m].troop]]

(* A ready row carries a troop id that the write can use: of a troop in    *)
(* the memberlist, or the one stored with the election.                    *)
ReadyIsWritable ==
  Now # None =>
    \A m \in Members : \A e \in Shown(Now, m) :
      e.status = "ready" =>
        /\ e.troop # None
        /\ e.troop \in Live(roster) \cup {target[i].troop : i \in Elections(Now)}

(* The group a row is counted in, exported with and written with is that   *)
(* of the raw set, whatever is decided (_raw_master_set).                  *)
GroupsAreStable ==
  Now # None =>
    \A m \in Members : \A e \in Shown(Now, m) :
      GroupOf(e) = GroupOf(Raw(Now, m)) /\ (e.status = "none" <=> Raw(Now, m).status = "none")

(* The structural misplacements of the master set are those the findings   *)
(* report ("Also reported read-only in Anmarkningar", engine.py).          *)
StraysAreFound ==
  Now # None =>
    \A m \in Members :
      Stray(Now, roster[m])
        <=> Findings(roster, Now, m) \cap {"no_avdelning", "underage_in_ledare"} # {}

(* Doc: decisions are "keyed on (cohort_year, member_no)" (decisions.py).  *)
RowsAreKeyed == \A n \in Years, m \in Members : Cardinality(EntriesOf(n, m)) <= 1
=============================================================================
