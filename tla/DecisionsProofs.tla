--------------------------- MODULE DecisionsProofs ---------------------------
(***************************************************************************)
(* Theorems about decisions and the master set, for every roster,          *)
(* configuration, set of requests and number of request threads.           *)
(***************************************************************************)
EXTENDS Decisions, FiniteSetTheorems, TLAPS

-----------------------------------------------------------------------------
(* Types. *)

LEMMA RequestFacts ==
  ASSUME NEW q \in Request
  PROVE  /\ q.op \in {"decide", "revert", "elect", "unelect", "reset"}
         /\ q.op \in {"decide", "revert"} => q.member \in Members
         /\ q.op = "decide" => q.change \in Change
         /\ q.op = "elect" => Asked(q) \in ElectedTarget
  BY DEF Request, Asked, ElectedTarget

LEMMA OpenFacts ==
  ASSUME DecisionsTypeOK, NEW h \in Handlers
  PROVE  /\ Open(h) => session[h] \in OpenSession
         /\ ~Open(h) => session[h] = Closed
  BY DEF DecisionsTypeOK, Session, OpenSession, Open, Closed

(* What is written over a decision is a decision. *)
LEMMA OverwriteType ==
  ASSUME NEW decision \in Decision, NEW change \in Change, NEW fields,
         fields \subseteq Provided(change)
  PROVE  Overwrite(decision, change, fields) \in Decision
  <1>1. Over(decision.target, change.target, "target" \in fields) \in Troops \cup {None}
    BY DEF Over, Provided, Fields, Decision, Change
  <1>2. Over(decision.stay, change.stay, "stay" \in fields) \in Years \cup {None}
    BY DEF Over, Provided, Fields, Decision, Change
  <1>3. Over(decision.ack, change.ack, "ack" \in fields) \in BOOLEAN
    BY DEF Over, Provided, Fields, Decision, Change
  <1>4. QED
    BY <1>1, <1>2, <1>3 DEF Overwrite, Decision

LEMMA NoDecisionType == NoDecision \in Decision
  BY DEF NoDecision, Decision

(* The year a request is about is one of the years modelled. *)
LEMMA YearIsModelled ==
  ASSUME term \in Years, CohortYear(term) # None
  PROVE  CohortYear(term) \in Years
  BY NoneIsNothing, TermsType DEF CohortYear, Years

LEMMA InitTypeOK == DecisionsInit => DecisionsTypeOK
  BY TermsType DEF DecisionsInit, DecisionsTypeOK, Session, Years

-----------------------------------------------------------------------------
(* Every step keeps the types. *)

LEMMA EnterType ==
  ASSUME DecisionsTypeOK, NEW h \in Handlers, NEW q \in Request, NEW n \in Years,
         NEW row \in RowIds \cup {None}, NEW seen \in EntryRow \cup TargetRow \cup {None},
         Enter(h, q, n, row, seen)
  PROVE  session' \in [Handlers -> Session]
  BY DEF DecisionsTypeOK, Enter, Session, OpenSession

LEMMA EnterFacts ==
  ASSUME DecisionsTypeOK, NEW h \in Handlers, NEW q, NEW n, NEW row, NEW seen,
         Enter(h, q, n, row, seen)
  PROVE  /\ session'[h].request = q /\ session'[h].year = n /\ session'[h].row = row
         /\ session'[h].pc = "read" /\ session'[h].doomed = {}
  BY DEF DecisionsTypeOK, Enter

LEMMA LeaveType ==
  ASSUME DecisionsTypeOK, NEW h \in Handlers, Leave(h)
  PROVE  session' \in [Handlers -> Session]
  BY DEF DecisionsTypeOK, Leave, Session

LEMMA BeginType ==
  ASSUME DecisionsTypeOK, NEW h \in Handlers, NEW q \in Requests, Begin(h, q)
  PROVE  DecisionsTypeOK'
  <1> DEFINE n == CohortYear(term)
  <1>1. q \in Request /\ n \in Years
    BY RequestsType, YearIsModelled DEF Begin, DecisionsTypeOK
  <1> HIDE DEF n
  <1>2. session' \in [Handlers -> Session]
    <2>1. CASE ReadEntry(h, q, n)
      <3> DEFINE found == EntriesOf(n, q.member)
      <3>1. CASE found = {}
        BY <1>1, <2>1, <3>1, EnterType DEF ReadEntry
      <3>2. CASE found # {}
        <4>1. Only(found) \in RowIds /\ entry[Only(found)] \in EntryRow
          BY <3>2 DEF Only, EntriesOf, DecisionsTypeOK
        <4>2. Enter(h, q, n, Only(found), entry[Only(found)])
          BY <2>1, <3>2 DEF ReadEntry
        <4>3. QED
          BY <1>1, <4>1, <4>2, EnterType
      <3>3. QED
        BY <3>1, <3>2
    <2>2. CASE ReadTarget(h, q, n)
      <3> DEFINE found == Elections(n)
      <3>1. CASE found = {}
        BY <1>1, <2>2, <3>1, EnterType DEF ReadTarget
      <3>2. CASE found # {}
        <4>1. Only(found) \in RowIds /\ target[Only(found)] \in TargetRow
          BY <3>2 DEF Only, Elections, DecisionsTypeOK
        <4>2. Enter(h, q, n, Only(found), target[Only(found)])
          BY <2>2, <3>2 DEF ReadTarget
        <4>3. QED
          BY <1>1, <4>1, <4>2, EnterType
      <3>3. QED
        BY <3>1, <3>2
    <2>3. CASE DeleteEntries(h, q, n)
      <3>1. EntriesIn(n) \subseteq RowIds
        BY DEF EntriesIn
      <3>2. QED
        BY <1>1, <2>3, <3>1 DEF DeleteEntries, DecisionsTypeOK, Session, OpenSession
    <2>4. QED
      BY <2>1, <2>2, <2>3 DEF Begin, n
  <1>3. QED
    BY <1>2 DEF Begin, DecisionsTypeOK

LEMMA ResetReadType ==
  ASSUME DecisionsTypeOK, NEW h \in Handlers, ReadTargetOfReset(h)
  PROVE  DecisionsTypeOK'
  <1> DEFINE s == session[h]
             found == Elections(s.year)
             row == IF found = {} THEN None ELSE Only(found)
  <1>1. s \in OpenSession
    BY OpenFacts DEF ReadTargetOfReset, Open
  <1>2. row \in RowIds \cup {None}
    BY DEF Only, Elections
  <1>3. session' = [session EXCEPT ![h] = [s EXCEPT !.pc = "read", !.row = row]]
    BY DEF ReadTargetOfReset
  <1> HIDE DEF s, row
  <1>4. [s EXCEPT !.pc = "read", !.row = row] \in OpenSession
    BY <1>1, <1>2 DEF OpenSession
  <1>5. QED
    BY <1>3, <1>4 DEF ReadTargetOfReset, DecisionsTypeOK, Session

LEMMA CommitType ==
  ASSUME DecisionsTypeOK, NEW h \in Handlers, Commit(h)
  PROVE  DecisionsTypeOK'
  <1> DEFINE s == session[h]
             q == s.request
  <1>1. s \in OpenSession
    BY OpenFacts DEF Commit, Open
  <1>2. q \in Request /\ s.year \in Years
    BY <1>1 DEF OpenSession
  <1>3. session' \in [Handlers -> Session]
    BY LeaveType DEF Commit
  <1>4. entry' \in [RowIds -> EntryRow \cup {None}] /\ target' \in [RowIds -> TargetRow \cup {None}]
    <2>1. CASE InsertEntry(h)
      <3>1. Overwrite(NoDecision, q.change, Provided(q.change)) \in Decision
        BY <1>2, <2>1, NoDecisionType, OverwriteType, RequestFacts DEF InsertEntry
      <3>2. [year |-> s.year, member |-> q.member,
             decision |-> Overwrite(NoDecision, q.change, Provided(q.change))] \in EntryRow
        BY <1>2, <2>1, <3>1, RequestFacts DEF InsertEntry, EntryRow
      <3>3. QED
        BY <2>1, <3>2 DEF InsertEntry, DecisionsTypeOK
    <2>2. CASE UpdateEntry(h)
      <3>1. CASE entry[s.row] = None
        BY <2>2, <3>1 DEF UpdateEntry, DecisionsTypeOK
      <3>2. CASE entry[s.row] # None
        <4>1. s.row \in RowIds /\ entry[s.row] \in EntryRow
          BY <1>1, <2>2, <3>2 DEF UpdateEntry, DecisionsTypeOK, OpenSession
        <4>2. q.change \in Change /\ Dirty(s.seen, q.change) \subseteq Provided(q.change)
          BY <1>2, <2>2, RequestFacts DEF UpdateEntry, Dirty
        <4> DEFINE d == Overwrite(entry[s.row].decision, q.change, Dirty(s.seen, q.change))
        <4>3. d \in Decision
          BY <4>1, <4>2, OverwriteType DEF EntryRow
        <4>4. entry' = [entry EXCEPT ![s.row].decision = d] /\ target' = target
          BY <2>2, <3>2 DEF UpdateEntry
        <4> HIDE DEF d
        <4>5. [entry[s.row] EXCEPT !.decision = d] \in EntryRow
          BY <4>1, <4>3 DEF EntryRow
        <4>6. QED
          BY <4>1, <4>4, <4>5 DEF DecisionsTypeOK
      <3>3. QED
        BY <3>1, <3>2
    <2>3. CASE DeleteEntry(h)
      BY <2>3 DEF DeleteEntry, DecisionsTypeOK
    <2>4. CASE InsertTarget(h)
      <3>1. TargetOf(s.year, Asked(q)) \in TargetRow
        BY <1>2, <2>4, RequestFacts DEF InsertTarget, TargetOf, ElectedTarget, TargetRow
      <3>2. QED
        BY <2>4, <3>1 DEF InsertTarget, DecisionsTypeOK
    <2>5. CASE UpdateTarget(h)
      <3>1. CASE target[s.row] = None
        BY <2>5, <3>1 DEF UpdateTarget, DecisionsTypeOK
      <3>2. CASE target[s.row] # None
        <4>1. s.row \in RowIds /\ target[s.row] \in TargetRow
          BY <1>1, <2>5, <3>2 DEF UpdateTarget, DecisionsTypeOK, OpenSession
        <4>2. Asked(q) \in ElectedTarget
          BY <1>2, <2>5, RequestFacts DEF UpdateTarget
        <4>3. Reelected(target[s.row], s.seen, Asked(q)) \in TargetRow
          BY <4>1, <4>2 DEF Reelected, Over, TargetRow, ElectedTarget
        <4>4. QED
          BY <2>5, <3>2, <4>1, <4>3 DEF UpdateTarget, DecisionsTypeOK
      <3>3. QED
        BY <3>1, <3>2
    <2>6. CASE DeleteTarget(h)
      BY <2>6 DEF DeleteTarget, DecisionsTypeOK
    <2>7. CASE CommitReset(h)
      BY <2>7 DEF CommitReset, DecisionsTypeOK
    <2>8. QED
      BY <2>1, <2>2, <2>3, <2>4, <2>5, <2>6, <2>7 DEF Commit
  <1>5. QED
    BY <1>3, <1>4 DEF Commit, DecisionsTypeOK

LEMMA StepType == DecisionsTypeOK /\ [DecisionsNext]_dvars => DecisionsTypeOK'
  <1> SUFFICES ASSUME DecisionsTypeOK, [DecisionsNext]_dvars
               PROVE  DecisionsTypeOK'
    OBVIOUS
  <1>1. CASE \E h \in Handlers : \E q \in Requests : Begin(h, q)
    BY <1>1, BeginType
  <1>2. CASE \E h \in Handlers : ReadTargetOfReset(h)
    BY <1>2, ResetReadType
  <1>3. CASE \E h \in Handlers : Commit(h)
    BY <1>3, CommitType
  <1>4. CASE \E h \in Handlers : Rollback(h)
    BY <1>4, LeaveType DEF Rollback, DecisionsTypeOK
  <1>5. CASE NextTerm
    BY <1>5, TermsType DEF NextTerm, DecisionsTypeOK, Years
  <1>6. CASE UNCHANGED dvars
    BY <1>6 DEF dvars, DecisionsTypeOK
  <1>7. QED
    BY <1>1, <1>2, <1>3, <1>4, <1>5, <1>6 DEF DecisionsNext

(* Whatever requests interleave, the tables and the sessions have the      *)
(* types the code declares (db/models.py).                                 *)
THEOREM TablesAreTyped == DecisionsSpec => []DecisionsTypeOK
  BY InitTypeOK, StepType, PTL DEF DecisionsSpec
-----------------------------------------------------------------------------
(* Keys stand for the rows they were read for. *)

(* What a commit does to a row that another session knows by its key.      *)
LEMMA CommitSpares ==
  ASSUME DecisionsTypeOK, NEW h \in Handlers, Commit(h),
         NEW g \in Handlers, g # h, Open(g),
         NEW i \in RowIds, i = session[g].row \/ i \in session[g].doomed
  PROVE  /\ entry'[i] # None => /\ entry[i] # None
                               /\ entry'[i].year = entry[i].year
                               /\ entry'[i].member = entry[i].member
         /\ target'[i] # None => target[i] # None /\ target'[i].year = target[i].year
  <1>1. CASE InsertEntry(h)
    BY <1>1 DEF InsertEntry, Unused, DecisionsTypeOK
  <1>2. CASE UpdateEntry(h)
    <2>1. CASE entry[session[h].row] = None
      BY <1>2, <2>1 DEF UpdateEntry
    <2>2. CASE entry[session[h].row] # None
      <3> DEFINE row == session[h].row
                 d == Overwrite(entry[row].decision, session[h].request.change,
                                Dirty(session[h].seen, session[h].request.change))
      <3>1. entry' = [entry EXCEPT ![row] = [entry[row] EXCEPT !.decision = d]] /\ target' = target
        BY <1>2, <2>2 DEF UpdateEntry
      <3>2. entry[i] # None => entry[i] \in EntryRow
        BY DEF DecisionsTypeOK
      <3> HIDE DEF d
      <3>3. entry \in [RowIds -> EntryRow \cup {None}]
        BY DEF DecisionsTypeOK
      <3>4. CASE i = row
        <4>1. entry'[i] = [entry[i] EXCEPT !.decision = d]
          BY <3>1, <3>3, <3>4
        <4>2. QED
          BY <2>2, <3>1, <3>2, <3>4, <4>1 DEF EntryRow
      <3>5. CASE i # row
        BY <3>1, <3>3, <3>5
      <3>6. QED
        BY <3>4, <3>5
    <2>3. QED
      BY <2>1, <2>2
  <1>3. CASE DeleteEntry(h)
    BY <1>3 DEF DeleteEntry, DecisionsTypeOK
  <1>4. CASE InsertTarget(h)
    BY <1>4 DEF InsertTarget, Unused, DecisionsTypeOK
  <1>5. CASE UpdateTarget(h)
    BY <1>5 DEF UpdateTarget, Reelected, DecisionsTypeOK, TargetRow
  <1>6. CASE DeleteTarget(h)
    BY <1>6 DEF DeleteTarget, DecisionsTypeOK
  <1>7. CASE CommitReset(h)
    BY <1>7 DEF CommitReset
  <1>8. QED
    BY <1>1, <1>2, <1>3, <1>4, <1>5, <1>6, <1>7 DEF Commit

LEMMA CommitKeys ==
  ASSUME DecisionsTypeOK, KeysStand, NEW h \in Handlers, Commit(h)
  PROVE  KeysStand'
  <1> SUFFICES ASSUME NEW g \in Handlers, Open(g)'
               PROVE  KeyStands(g)'
    BY DEF KeysStand
  <1>1. g # h /\ session'[g] = session[g] /\ Open(g)
    BY DEF Commit, Leave, Open, Closed, DecisionsTypeOK
  <1>2. session[g] \in OpenSession
    BY <1>1, OpenFacts
  <1>3. KeyStands(g)
    BY <1>1 DEF KeysStand
  <1>4. session[g].doomed \subseteq RowIds /\ session[g].row \in RowIds \cup {None}
    BY <1>2 DEF OpenSession
  <1>5. QED
    BY <1>1, <1>3, <1>4, CommitSpares DEF KeyStands

LEMMA BeginKeys ==
  ASSUME DecisionsTypeOK, KeysStand, NEW h \in Handlers, NEW q \in Requests, Begin(h, q)
  PROVE  KeysStand'
  <1> DEFINE n == CohortYear(term)
  <1> SUFFICES ASSUME NEW g \in Handlers, Open(g)'
               PROVE  KeyStands(g)'
    BY DEF KeysStand
  <1>1. UNCHANGED <<entry, target>>
    BY DEF Begin
  <1> HIDE DEF n
  <1>2. CASE g # h
    <2>1. session'[g] = session[g]
      BY <1>2 DEF Begin, ReadEntry, ReadTarget, DeleteEntries, Enter, DecisionsTypeOK
    <2>2. QED
      BY <1>1, <2>1 DEF KeysStand, KeyStands, Open
  <1>3. CASE g = h
    <2>1. CASE ReadEntry(h, q, n)
      <3> DEFINE found == EntriesOf(n, q.member)
      <3>1. CASE found = {}
        <4>1. Enter(h, q, n, None, None) /\ q.op = "decide"
          BY <2>1, <3>1, FS_EmptySet DEF ReadEntry
        <4>2. QED
          BY <1>3, <4>1, EnterFacts DEF KeyStands
      <3>2. CASE found # {}
        <4>1. /\ Enter(h, q, n, Only(found), entry[Only(found)])
              /\ q.op \in {"decide", "revert"} /\ Only(found) \in found
          BY <2>1, <3>2 DEF ReadEntry, Only
        <4>2. Only(found) # None /\ entry[Only(found)].year = n /\ entry[Only(found)].member = q.member
          BY <4>1, FreshNames DEF EntriesOf
        <4>3. QED
          BY <1>1, <1>3, <4>1, <4>2, EnterFacts DEF KeyStands
      <3>3. QED
        BY <3>1, <3>2
    <2>2. CASE ReadTarget(h, q, n)
      <3> DEFINE found == Elections(n)
      <3>1. CASE found = {}
        <4>1. Enter(h, q, n, None, None) /\ q.op = "elect"
          BY <2>2, <3>1 DEF ReadTarget
        <4>2. QED
          BY <1>3, <4>1, EnterFacts DEF KeyStands
      <3>2. CASE found # {}
        <4>1. /\ Enter(h, q, n, Only(found), target[Only(found)])
              /\ q.op \in {"elect", "unelect"} /\ Only(found) \in found
          BY <2>2, <3>2 DEF ReadTarget, Only
        <4>2. Only(found) # None /\ target[Only(found)].year = n
          BY <4>1, FreshNames DEF Elections
        <4>3. QED
          BY <1>1, <1>3, <4>1, <4>2, EnterFacts DEF KeyStands
      <3>3. QED
        BY <3>1, <3>2
    <2>3. CASE DeleteEntries(h, q, n)
      BY <1>1, <1>3, <2>3 DEF DeleteEntries, KeyStands, DecisionsTypeOK, EntriesIn
    <2>4. QED
      BY <2>1, <2>2, <2>3 DEF Begin, n
  <1>4. QED
    BY <1>2, <1>3

LEMMA ResetReadKeys ==
  ASSUME DecisionsTypeOK, KeysStand, NEW h \in Handlers, ReadTargetOfReset(h)
  PROVE  KeysStand'
  <1> SUFFICES ASSUME NEW g \in Handlers, Open(g)'
               PROVE  KeyStands(g)'
    BY DEF KeysStand
  <1> DEFINE s == session[h]
             found == Elections(s.year)
             row == IF found = {} THEN None ELSE Only(found)
  <1>1. s \in OpenSession /\ KeyStands(h)
    BY OpenFacts DEF ReadTargetOfReset, Open, KeysStand
  <1>2. session' = [session EXCEPT ![h] = [s EXCEPT !.pc = "read", !.row = row]]
    BY DEF ReadTargetOfReset
  <1>3. row # None => target[row] # None /\ target[row].year = s.year
    BY DEF Only, Elections
  <1>4. UNCHANGED <<entry, target>> /\ s.request.op = "reset"
    BY <1>1 DEF ReadTargetOfReset, KeyStands
  <1> HIDE DEF row, found
  <1>5. CASE g # h
    <2>1. session'[g] = session[g]
      BY <1>2, <1>5 DEF DecisionsTypeOK
    <2>2. QED
      BY <1>4, <2>1 DEF KeysStand, KeyStands, Open
  <1>6. CASE g = h
    <2>1. session'[g] = [s EXCEPT !.pc = "read", !.row = row]
      BY <1>2, <1>6 DEF DecisionsTypeOK
    <2>2. /\ session'[g].pc = "read" /\ session'[g].row = row
          /\ session'[g].request = s.request /\ session'[g].year = s.year
          /\ session'[g].doomed = s.doomed
      BY <1>1, <2>1 DEF OpenSession
    <2>3. QED
      BY <1>1, <1>3, <1>4, <2>2 DEF KeyStands
  <1>7. QED
    BY <1>5, <1>6

LEMMA StepKeys == DecisionsTypeOK /\ KeysStand /\ [DecisionsNext]_dvars => KeysStand'
  <1> SUFFICES ASSUME DecisionsTypeOK, KeysStand, [DecisionsNext]_dvars
               PROVE  KeysStand'
    OBVIOUS
  <1>1. CASE \E h \in Handlers : \E q \in Requests : Begin(h, q)
    BY <1>1, BeginKeys
  <1>2. CASE \E h \in Handlers : ReadTargetOfReset(h)
    BY <1>2, ResetReadKeys
  <1>3. CASE \E h \in Handlers : Commit(h)
    BY <1>3, CommitKeys
  <1>4. CASE \E h \in Handlers : Rollback(h)
    BY <1>4 DEF Rollback, Leave, KeysStand, KeyStands, Open, Closed, DecisionsTypeOK
  <1>5. CASE NextTerm \/ UNCHANGED dvars
    BY <1>5 DEF NextTerm, dvars, KeysStand, KeyStands, Open
  <1>6. QED
    BY <1>1, <1>2, <1>3, <1>4, <1>5 DEF DecisionsNext

(* The inductive invariant behind OthersAreSpared. *)
LEMMA KeysAlwaysStand == DecisionsSpec => [](DecisionsTypeOK /\ KeysStand)
  <1>1. DecisionsInit => KeysStand
    BY DEF DecisionsInit, KeysStand, Open, Closed
  <1>2. QED
    BY <1>1, InitTypeOK, StepType, StepKeys, PTL DEF DecisionsSpec
-----------------------------------------------------------------------------
(* What a commit changes. *)

(* Nothing but a commit touches the tables. *)
LEMMA OnlyCommits ==
  ASSUME [DecisionsNext]_dvars, \A h \in Handlers : ~Commit(h)
  PROVE  UNCHANGED <<entry, target>>
  BY DEF DecisionsNext, dvars, Begin, ReadTargetOfReset, Rollback, NextTerm

LEMMA CommitCloses ==
  ASSUME DecisionsTypeOK, NEW h \in Handlers, Commit(h)
  PROVE  /\ Open(h) /\ session'[h] = Closed
         /\ \A g \in Handlers : Open(g) /\ session'[g] = Closed => g = h
  BY DEF DecisionsTypeOK, Commit, Leave, Open, Closed

LEMMA UpdatedRow ==
  ASSUME DecisionsTypeOK, NEW h \in Handlers, Open(h), UpdateEntry(h), NEW i \in RowIds
  PROVE  entry'[i] = IF i = session[h].row /\ entry[i] # None
                     THEN [entry[i] EXCEPT !.decision =
                             Overwrite(entry[i].decision, session[h].request.change,
                                       Dirty(session[h].seen, session[h].request.change))]
                     ELSE entry[i]
  BY DEF DecisionsTypeOK, UpdateEntry

LEMMA StepSparesOthers ==
  ASSUME DecisionsTypeOK, KeysStand, [DecisionsNext]_dvars,
         NEW i \in RowIds, entry[i] # None, entry'[i] # entry[i]
  PROVE  \E h \in Handlers :
           /\ Open(h) /\ session'[h] = Closed /\ session[h].year = entry[i].year
           /\ session[h].request.op = "reset" \/ session[h].request.member = entry[i].member
  <1>1. PICK h \in Handlers : Commit(h)
    BY OnlyCommits
  <1>2. Open(h) /\ session'[h] = Closed /\ KeyStands(h)
    BY <1>1, CommitCloses DEF KeysStand
  <1>3. session[h].row # None => session[h].row \in RowIds
    BY <1>2, OpenFacts DEF OpenSession
  <1>4. CASE InsertEntry(h)
    BY <1>4 DEF InsertEntry, Unused, DecisionsTypeOK
  <1>5. CASE UpdateEntry(h)
    <2>1. i = session[h].row
      BY <1>2, <1>5, UpdatedRow
    <2>2. QED
      BY <1>2, <1>5, <2>1, FreshNames DEF UpdateEntry, KeyStands
  <1>6. CASE DeleteEntry(h)
    BY <1>2, <1>3, <1>6 DEF DeleteEntry, KeyStands, DecisionsTypeOK
  <1>7. CASE CommitReset(h)
    BY <1>2, <1>7 DEF CommitReset, KeyStands
  <1>8. CASE InsertTarget(h) \/ UpdateTarget(h) \/ DeleteTarget(h)
    BY <1>8 DEF InsertTarget, UpdateTarget, DeleteTarget
  <1>9. QED
    BY <1>1, <1>4, <1>5, <1>6, <1>7, <1>8 DEF Commit

(* No request reaches a decision of another year or, but for a reset, of   *)
(* another member, whatever it read before others committed.               *)
THEOREM OthersAreSpared == DecisionsSpec => OthersAreLeftAlone
  <1>1. DecisionsTypeOK /\ KeysStand /\ [DecisionsNext]_dvars =>
          [\A i \in RowIds :
             entry[i] # None /\ entry'[i] # entry[i] =>
               \E h \in Handlers :
                 /\ Open(h) /\ session'[h] = Closed /\ session[h].year = entry[i].year
                 /\ session[h].request.op = "reset" \/ session[h].request.member = entry[i].member]_dvars
    BY StepSparesOthers
  <1>2. QED
    BY <1>1, KeysAlwaysStand, PTL DEF DecisionsSpec, OthersAreLeftAlone

LEMMA StepKeepsFields ==
  ASSUME DecisionsTypeOK, [DecisionsNext]_dvars,
         NEW h \in Handlers, NEW i \in RowIds, NEW f \in Fields,
         Open(h), session'[h] = Closed, session[h].request.op = "decide",
         entry[i] # None, entry'[i] # None, session[h].request.change[f] = Unset
  PROVE  entry'[i].decision[f] = entry[i].decision[f]
  <1> DEFINE q == session[h].request
  <1>1. CASE \A g \in Handlers : ~Commit(g)
    BY <1>1, OnlyCommits
  <1>2. CASE \E g \in Handlers : Commit(g)
    <2>1. Commit(h)
      BY <1>2, CommitCloses
    <2>2. CASE InsertEntry(h)
      BY <2>2 DEF InsertEntry, Unused, DecisionsTypeOK
    <2>3. CASE UpdateEntry(h)
      <3>1. CASE i = session[h].row
        <4> DEFINE old == entry[i].decision
                   new == Overwrite(old, q.change, Dirty(session[h].seen, q.change))
        <4>1. entry[i] \in EntryRow
          BY DEF DecisionsTypeOK
        <4>2. entry'[i] = [entry[i] EXCEPT !.decision = new]
          BY <2>3, <3>1, UpdatedRow
        <4>3. f \notin Dirty(session[h].seen, q.change)
          BY DEF Dirty, Provided
        <4>4. new[f] = old[f]
          <5>1. new.target = Over(old.target, q.change.target, "target" \in Dirty(session[h].seen, q.change))
            BY DEF Overwrite
          <5>2. new.stay = Over(old.stay, q.change.stay, "stay" \in Dirty(session[h].seen, q.change))
            BY DEF Overwrite
          <5>3. new.ack = Over(old.ack, q.change.ack, "ack" \in Dirty(session[h].seen, q.change))
            BY DEF Overwrite
          <5> HIDE DEF new, old
          <5>4. QED
            BY <4>3, <5>1, <5>2, <5>3 DEF Over, Fields
        <4> HIDE DEF new
        <4>5. entry'[i].decision = new
          BY <4>1, <4>2 DEF EntryRow
        <4>6. QED
          BY <4>4, <4>5
      <3>2. CASE i # session[h].row
        BY <2>3, <3>2, UpdatedRow
      <3>3. QED
        BY <3>1, <3>2
    <2>4. QED
      BY <2>1, <2>2, <2>3 DEF Commit, DeleteEntry, InsertTarget, UpdateTarget, DeleteTarget, CommitReset
  <1>3. QED
    BY <1>1, <1>2

(* An upsert leaves the fields its request does not give as they are when  *)
(* it commits, not as they were when it read them.                         *)
THEOREM FieldsAreKept == DecisionsSpec => OnlyProvidedFieldsChange
  <1>1. DecisionsTypeOK /\ [DecisionsNext]_dvars =>
          [\A h \in Handlers, i \in RowIds, f \in Fields :
             /\ Open(h) /\ session'[h] = Closed /\ session[h].request.op = "decide"
             /\ entry[i] # None /\ entry'[i] # None /\ session[h].request.change[f] = Unset
             => entry'[i].decision[f] = entry[i].decision[f]]_dvars
    BY StepKeepsFields
  <1>2. QED
    BY <1>1, TablesAreTyped, PTL DEF DecisionsSpec, OnlyProvidedFieldsChange

LEMMA StepElection ==
  ASSUME DecisionsTypeOK, OneElection, [DecisionsNext]_dvars
  PROVE  OneElection'
  <1>1. CASE UNCHANGED target
    BY <1>1 DEF OneElection, Elections
  <1>2. CASE \E h \in Handlers : Commit(h) /\ target' # target
    <2>1. PICK h \in Handlers : Commit(h) /\ target' # target
      BY <1>2
    <2>2. CASE InsertTarget(h)
      BY <2>1, <2>2 DEF InsertTarget, TargetOf, OneElection, Elections, DecisionsTypeOK, TargetRow
    <2>3. CASE UpdateTarget(h)
      BY <2>3 DEF UpdateTarget, Reelected, OneElection, Elections, DecisionsTypeOK, TargetRow
    <2>4. CASE DeleteTarget(h) \/ CommitReset(h)
      BY <2>4 DEF DeleteTarget, CommitReset, OneElection, Elections, DecisionsTypeOK
    <2>5. QED
      BY <2>1, <2>2, <2>3, <2>4 DEF Commit, InsertEntry, UpdateEntry, DeleteEntry
  <1>3. QED
    BY <1>1, <1>2, OnlyCommits

(* A cohort year never has two elected targets. *)
THEOREM ElectionIsOne == DecisionsSpec => []OneElection
  <1>1. DecisionsInit => OneElection
    BY DEF DecisionsInit, OneElection, Elections
  <1>2. DecisionsTypeOK /\ OneElection /\ [DecisionsNext]_dvars => OneElection'
    BY StepElection
  <1>3. QED
    BY <1>1, <1>2, TablesAreTyped, PTL DEF DecisionsSpec
-----------------------------------------------------------------------------
(* The master set. *)

(* A row is a function with these fields, so that an update of some leaves *)
(* the others.                                                             *)
IsRow(e) ==
  /\ e = [f \in DOMAIN e |-> e[f]]
  /\ {"status", "off", "group", "source", "target", "troop"} \subseteq DOMAIN e

LEMMA ResolvedFacts ==
  ASSUME NEW elected, NEW e, IsRow(e), NEW x, x = Resolved(roster, elected, e)
  PROVE  /\ IsRow(x) /\ x.status \in {"ready", "pending_target"}
         /\ x.off = e.off /\ x.group = e.group
         /\ x.status = "ready" => x.troop \in Live(roster) \/ (x.troop = elected.troop /\ elected # None)
  <1> DEFINE t == InferTarget(roster, e.source)
  <1>1. CASE t = None /\ elected # None
    <2>1. x = [e EXCEPT !.status = "ready", !.target = elected.name, !.troop = elected.troop]
      BY <1>1 DEF Resolved
    <2>2. QED
      BY <1>1, <2>1 DEF IsRow
  <1>2. CASE ~(t = None /\ elected # None) /\ t \in Live(roster)
    <2>1. x = [e EXCEPT !.status = "ready", !.target = t, !.troop = t]
      BY <1>2 DEF Resolved
    <2> HIDE DEF t
    <2>2. QED
      BY <1>2, <2>1 DEF IsRow
  <1>3. CASE ~(t = None /\ elected # None) /\ t \notin Live(roster)
    <2>1. x = [e EXCEPT !.status = "pending_target", !.target = t]
      BY <1>3 DEF Resolved
    <2> HIDE DEF t
    <2>2. QED
      BY <1>3, <2>1 DEF IsRow
  <1>4. QED
    BY <1>1, <1>2, <1>3

(* The status of a computed row tells how its member was classified.       *)
LEMMA ComputedFacts ==
  ASSUME NEW n, NEW elected, NEW m \in Members
  PROVE  LET p == roster[m]
             c == Computed(roster, n, elected, m)
         IN
         /\ IsRow(c)
         /\ c.off <=> Misplaced(n, p)
         /\ c.status = "ready" =>
              /\ ~Misplaced(n, p) /\ ~Excluded(n, p) /\ MovesUp(n, p)
              /\ c.troop \in Live(roster) \/ (c.troop = elected.troop /\ elected # None)
         /\ c.status = "none" <=> ~Misplaced(n, p) /\ ~MovesUp(n, p)
         /\ c.group = IF Stray(n, p) \/ ~(Misplaced(n, p) \/ MovesUp(n, p)) THEN None
                      ELSE Transition[BracketOf[p.troop]]
  <1> DEFINE p == roster[m]
             g == IF Stray(n, p) THEN None ELSE Transition[BracketOf[p.troop]]
             row == [NoEntry EXCEPT !.source = p.troop, !.group = g]
  <1>1. IsRow(row) /\ row.status = "none" /\ row.off = FALSE /\ row.group = g
    BY DEF NoEntry, IsRow
  <1>2. Excluded(n, p) => MovesUp(n, p)
    BY DEF Excluded
  <1>3. Computed(roster, n, elected, m) =
          IF Misplaced(n, p) THEN [row EXCEPT !.status = "off_cohort", !.off = TRUE]
          ELSE IF Excluded(n, p) THEN [row EXCEPT !.status = "excluded"]
          ELSE IF MovesUp(n, p) THEN Resolved(roster, elected, row)
          ELSE NoEntry
    BY DEF Computed
  <1>4. IsRow(NoEntry) /\ NoEntry.status = "none" /\ NoEntry.off = FALSE /\ NoEntry.group = None
    BY DEF NoEntry, IsRow
  <1>5. Stray(n, p) => Misplaced(n, p)
    BY DEF Misplaced
  <1> DEFINE c == Computed(roster, n, elected, m)
  <1> HIDE DEF row, p, c
  <1>6. CASE Misplaced(n, p)
    <2>1. c = [row EXCEPT !.status = "off_cohort", !.off = TRUE]
      BY <1>3, <1>6 DEF c
    <2>2. IsRow(c) /\ c.status = "off_cohort" /\ c.off = TRUE /\ c.group = g
      BY <1>1, <2>1 DEF IsRow
    <2>3. QED
      BY <1>6, <2>2 DEF p, c
  <1>7. CASE ~Misplaced(n, p) /\ Excluded(n, p)
    <2>1. c = [row EXCEPT !.status = "excluded"]
      BY <1>3, <1>7 DEF c
    <2>2. IsRow(c) /\ c.status = "excluded" /\ c.off = FALSE /\ c.group = g
      BY <1>1, <2>1 DEF IsRow
    <2>3. QED
      BY <1>2, <1>5, <1>7, <2>2 DEF p, c
  <1>8. CASE ~Misplaced(n, p) /\ ~Excluded(n, p) /\ MovesUp(n, p)
    <2>1. c = Resolved(roster, elected, row)
      BY <1>3, <1>8 DEF c
    <2>2. /\ IsRow(c) /\ c.status \in {"ready", "pending_target"}
          /\ c.off = FALSE /\ c.group = g
          /\ c.status = "ready" => c.troop \in Live(roster) \/ (c.troop = elected.troop /\ elected # None)
      BY <1>1, <2>1, ResolvedFacts
    <2>3. QED
      BY <1>5, <1>8, <2>2 DEF p, c
  <1>9. CASE ~Misplaced(n, p) /\ ~MovesUp(n, p)
    BY <1>2, <1>3, <1>4, <1>9 DEF p, c
  <1>10. QED
    BY <1>6, <1>7, <1>8, <1>9

(* A decision changes the status and the target of a row, nothing else.    *)
LEMMA AppliedFacts ==
  ASSUME NEW n, NEW c, IsRow(c), NEW o, NEW e, e = Applied(roster, n, c, o)
  PROVE  /\ e.off = c.off /\ e.group = c.group
         /\ e.status = "none" <=> c.status = "none"
         /\ e.status = "ready" => e = c \/ e.troop \in Live(roster)
         /\ o.target = None /\ e.status = "ready" => e = c
  <1> DEFINE known == o.target \in Live(roster)
             troop == IF known THEN o.target ELSE None
             status == IF known THEN "ready" ELSE "pending_target"
  <1>1. CASE c.status = "none"
    BY <1>1 DEF Applied
  <1>2. CASE c.status # "none" /\ o.target # None
    <2>1. e = [c EXCEPT !.target = o.target, !.troop = troop, !.status = status]
      BY <1>2 DEF Applied
    <2>2. status # "none" /\ (status = "ready" => troop \in Live(roster))
      OBVIOUS
    <2> HIDE DEF troop, status
    <2>3. QED
      BY <1>2, <2>1, <2>2 DEF IsRow
  <1>3. CASE c.status # "none" /\ o.target = None /\ e # c
    <2>1. e = [c EXCEPT !.status = "override_stay"]
      BY <1>3 DEF Applied
    <2>2. QED
      BY <1>3, <2>1 DEF IsRow
  <1>4. QED
    BY <1>1, <1>2, <1>3
(* A row shown is a computed row with one of the decisions applied.        *)
LEMMA ShownFacts ==
  ASSUME NEW n, NEW m \in Members, NEW e \in Shown(n, m)
  PROVE  \E o \in DecisionsOn(n, m) : \E c :
           /\ c = Computed(roster, n, Elected(n), m) /\ IsRow(c)
           /\ e.off = c.off /\ e.group = c.group
           /\ e.status = "none" <=> c.status = "none"
           /\ e.status = "ready" => e = c \/ e.troop \in Live(roster)
           /\ o.target = None /\ e.status = "ready" => e = c
  <1> DEFINE c == Computed(roster, n, Elected(n), m)
  <1>1. PICK o \in DecisionsOn(n, m) : e = Applied(roster, n, c, o)
    BY DEF Shown
  <1>2. IsRow(c)
    BY ComputedFacts
  <1> HIDE DEF c
  <1>3. /\ e.off = c.off /\ e.group = c.group
        /\ e.status = "none" <=> c.status = "none"
        /\ e.status = "ready" => e = c \/ e.troop \in Live(roster)
        /\ o.target = None /\ e.status = "ready" => e = c
    BY <1>1, <1>2, AppliedFacts
  <1>4. QED
    BY <1>2, <1>3 DEF c

LEMMA ScoutFacts ==
  ASSUME DecisionsTypeOK, NEW m \in Members
  PROVE  /\ roster[m] \in Scout
         /\ roster[m].troop # None => roster[m].troop \in Troops /\ roster[m].troop \in Live(roster)
         /\ roster[m].born # None => roster[m].born \in Nat
         /\ Now # None => Now \in Nat
  <1>1. roster[m] \in Scout
    BY RostersType DEF DecisionsTypeOK
  <1>2. Now # None => Now \in Years
    BY YearIsModelled DEF DecisionsTypeOK, Now
  <1>3. QED
    BY <1>1, <1>2, TermsType DEF Scout, Live, Years

LEMMA NobodyMoves == ASSUME DecisionsTypeOK PROVE NobodyMovesUnasked
  <1> SUFFICES ASSUME Now # None, NEW m \in Members, NEW e \in Shown(Now, m),
                      e.status = "ready", Undirected(Now, m)
               PROVE  /\ roster[m].troop \notin EighteenPlus \cup {None}
                      /\ ~roster[m].leader
                      /\ Minor(Now, roster[m])
                      /\ AgeBracket(Now - roster[m].born) = NextBracket[BracketOf[roster[m].troop]]
    BY DEF NobodyMovesUnasked
  <1> DEFINE p == roster[m]
  <1>1. Computed(roster, Now, Elected(Now), m).status = "ready"
    BY ShownFacts DEF Undirected
  <1>2. ~Misplaced(Now, p) /\ ~Excluded(Now, p) /\ MovesUp(Now, p)
    BY <1>1, ComputedFacts
  <1>3. p.troop # None /\ p.troop \notin EighteenPlus /\ ~p.leader /\ ~Adult(Now, p)
    BY <1>2 DEF Misplaced, Stray, Excluded
  <1>4. p.born # None /\ AgeBracket(Now - p.born) = NextBracket[BracketOf[p.troop]]
    BY <1>2 DEF MovesUp
  <1>5. Minor(Now, p)
    BY <1>3, <1>4, ScoutFacts DEF Minor, Adult, AdultAge
  <1>6. QED
    BY <1>3, <1>4, <1>5

(* Whatever the roster, the configuration, the elections and the decisions *)
(* on others, a member is made ready to move without a decision of their   *)
(* own only as a minor who is no leader and whose age fits the next        *)
(* bracket.                                                                *)
THEOREM MovesAreCohortOrChosen == DecisionsSpec => []NobodyMovesUnasked
  BY NobodyMoves, TablesAreTyped, PTL

LEMMA ElectedFacts ==
  ASSUME DecisionsTypeOK, NEW n, Elected(n) # None
  PROVE  /\ Elected(n).troop \in {target[i].troop : i \in Elections(n)}
         /\ Elected(n).troop \in Troops
  <1> DEFINE i == Only(Elections(n))
  <1>1. Elections(n) # {}
    BY DEF Elected
  <1>2. i \in Elections(n)
    BY <1>1 DEF Only
  <1>3. Elected(n).troop = target[i].troop
    BY <1>1 DEF Elected
  <1>4. target[i] \in TargetRow
    BY <1>2 DEF Elections, DecisionsTypeOK
  <1> HIDE DEF i
  <1>5. QED
    BY <1>2, <1>3, <1>4 DEF TargetRow

LEMMA ReadyFacts == ASSUME DecisionsTypeOK PROVE ReadyIsWritable
  <1> SUFFICES ASSUME Now # None, NEW m \in Members, NEW e \in Shown(Now, m), e.status = "ready"
               PROVE  /\ e.troop # None
                      /\ e.troop \in Live(roster) \cup {target[i].troop : i \in Elections(Now)}
    BY DEF ReadyIsWritable
  <1> DEFINE c == Computed(roster, Now, Elected(Now), m)
  <1>1. e = c \/ e.troop \in Live(roster)
    BY ShownFacts
  <1>2. c.status = "ready" =>
          c.troop \in Live(roster) \/ (c.troop = Elected(Now).troop /\ Elected(Now) # None)
    BY ComputedFacts
  <1> HIDE DEF c
  <1>3. None \notin Live(roster)
    BY DEF Live
  <1>4. QED
    BY <1>1, <1>2, <1>3, ElectedFacts, NoneIsNothing

(* A ready row always carries a troop id to write: of a troop somebody is  *)
(* in, or of the elected one.                                              *)
THEOREM ReadyRowsAreWritable == DecisionsSpec => []ReadyIsWritable
  BY ReadyFacts, TablesAreTyped, PTL

LEMMA GroupFacts == ASSUME DecisionsTypeOK PROVE GroupsAreStable
  <1> SUFFICES ASSUME Now # None, NEW m \in Members, NEW e \in Shown(Now, m)
               PROVE  /\ GroupOf(e) = GroupOf(Raw(Now, m))
                      /\ e.status = "none" <=> Raw(Now, m).status = "none"
    BY DEF GroupsAreStable
  <1> DEFINE c == Computed(roster, Now, Elected(Now), m)
             d == Computed(roster, Now, None, m)
  <1>1. e.off = c.off /\ e.group = c.group /\ (e.status = "none" <=> c.status = "none")
    BY ShownFacts
  <1>2. (c.off <=> d.off) /\ c.group = d.group /\ (c.status = "none" <=> d.status = "none")
    BY ComputedFacts
  <1> HIDE DEF c, d
  <1>3. Raw(Now, m) = d
    BY DEF Raw, d
  <1>4. QED
    BY <1>1, <1>2, <1>3 DEF GroupOf

(* No decision and no election moves a row from one group to another, so   *)
(* the groups of the contact roster are those of the pages and the writes. *)
THEOREM DecisionsKeepGroups == DecisionsSpec => []GroupsAreStable
  BY GroupFacts, TablesAreTyped, PTL

LEMMA StrayFacts == ASSUME DecisionsTypeOK PROVE StraysAreFound
  <1> SUFFICES ASSUME Now # None, NEW m \in Members
               PROVE  Stray(Now, roster[m])
                        <=> Findings(roster, Now, m) \cap {"no_avdelning", "underage_in_ledare"} # {}
    BY DEF StraysAreFound
  <1> DEFINE p == roster[m]
  <1>1. "no_avdelning" \in Findings(roster, Now, m) <=> p.troop = None
    BY DEF Findings
  <1>2. "underage_in_ledare" \in Findings(roster, Now, m)
          <=> p.troop \in EighteenPlus \cap Live(roster) /\ Minor(Now, p)
    BY DEF Findings
  <1>3. p.troop # None => p.troop \in Live(roster)
    BY ScoutFacts
  <1>4. None \notin EighteenPlus
    BY DeclaredType, NoneIsNothing DEF EighteenPlus
  <1>5. QED
    BY <1>1, <1>2, <1>3, <1>4 DEF Stray

(* The engine and the findings agree on who is misplaced.                  *)
THEOREM FindingsAgree == DecisionsSpec => []StraysAreFound
  BY StrayFacts, TablesAreTyped, PTL
=============================================================================
