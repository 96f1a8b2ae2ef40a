------------------------ MODULE ExecutorLedgerProofs -------------------------
(***************************************************************************)
(* The executor implements BulkMove: every step of it is a step of the     *)
(* ledger, or none.                                                        *)
(***************************************************************************)
EXTENDS ExecutorLedger, WriteExecutorMovesProofs

-----------------------------------------------------------------------------
(* The ledger the journal amounts to. *)

ledgerPlan == [r \in Runs |-> [m \in Members |-> RowAsMove(journal[r][m])]]
ledgerConfirmed == [r \in Runs |-> {m \in Members : journal[r][m].state = "done"}]
ledgerReported == {r \in Runs : run[r].state = "done"}
ledgerReverses == [r \in Runs |-> run[r].parent]

LEMMA LedgerStutters ==
  ASSUME UNCHANGED <<register, run, journal, applied>>
  PROVE  UNCHANGED Ledger!bvars
  BY DEF Ledger!bvars

LEMMA LedgerInitial == Init => Ledger!Init
  <1> SUFFICES ASSUME Init PROVE Ledger!Init
    OBVIOUS
  <1>1. register \in [Members -> Placements]
    BY InitialType DEF Init
  <1>2. [r \in Runs |-> [m \in Members |-> RowAsMove(journal[r][m])]]
          = [r \in Runs |-> Ledger!Blank]
    BY DEF Init, RowAsMove, NoPlan, Absent, Ledger!Blank
  <1>3. [r \in Runs |-> {m \in Members : journal[r][m].state = "done"}] = [r \in Runs |-> {}]
    BY DEF Init, NoPlan, Absent
  <1>4. {r \in Runs : run[r].state = "done"} = {}
    BY DEF Init, NoRun
  <1>5. [r \in Runs |-> run[r].parent] = [r \in Runs |-> None]
    BY DEF Init, NoRun
  <1>6. applied = [r \in Runs |-> {}]
    BY DEF Init
  <1>7. QED
    BY <1>1, <1>2, <1>3, <1>4, <1>5, <1>6 DEF Ledger!Init

-----------------------------------------------------------------------------
(* Rows as moves: a row's progress is not part of the move it records.     *)

LEMMA RowAsMoveFacts ==
  ASSUME NEW row \in Row
  PROVE  /\ RowAsMove(row) = None <=> row.state = "absent"
         /\ row.state # "absent" =>
              /\ RowAsMove(row).source = row.source
              /\ RowAsMove(row).target = row.target
              /\ RowAsMove(row).targetPatrol = row.targetPatrol
  <1>1. /\ Restated(row, "intended") \in Row
        /\ Restated(row, "intended").source = row.source
        /\ Restated(row, "intended").target = row.target
        /\ Restated(row, "intended").targetPatrol = row.targetPatrol
    BY DEF Row, Restated, RowStates
  <1>2. Restated(row, "intended") # None
    BY <1>1, NoneIsNoRow
  <1>3. QED
    BY <1>1, <1>2 DEF RowAsMove

LEMMA RestatedAsMove ==
  ASSUME NEW row \in Row, row.state # "absent", NEW state \in RowStates \ {"absent"}
  PROVE  RowAsMove(Restated(row, state)) = RowAsMove(row)
  <1>1. Restated(row, state).state = state
    BY DEF Row, Restated
  <1>2. Restated(Restated(row, state), "intended") = Restated(row, "intended")
    BY DEF Row, Restated
  <1>3. QED
    BY <1>1, <1>2 DEF RowAsMove

LEMMA MarkedLedger ==
  ASSUME TypeOK, NEW r \in Runs, NEW c, NEW state \in Open, journal' = Marked(r, c, state),
         LogStep
  PROVE  /\ ledgerPlan' = ledgerPlan
         /\ state # "done" => ledgerConfirmed' = ledgerConfirmed
         /\ state = "done" =>
              ledgerConfirmed' = [ledgerConfirmed EXCEPT ![r] = @ \cup ChunkRows(r, c)]
  <1>1. /\ \A q \in Runs \ {r} : journal'[q] = journal[q]
        /\ \A m \in Members :
             /\ m \in ChunkRows(r, c) => journal'[r][m] = Restated(journal[r][m], state)
             /\ m \notin ChunkRows(r, c) => journal'[r][m] = journal[r][m]
    BY MarkedType DEF Open, RowStates
  <1>2. \A q \in Runs, m \in Members : journal[q][m] \in Row
    BY DEF TypeOK
  <1>3. \A m \in ChunkRows(r, c) : m \in Members /\ journal[r][m].state # "absent"
    BY DEF ChunkRows, Rows
  <1>4. \A row \in Row : Restated(row, state).state = state
    BY DEF Restated, Row
  <1>5. ASSUME NEW q \in Runs, NEW m \in Members
        PROVE  RowAsMove(journal'[q][m]) = RowAsMove(journal[q][m])
    BY <1>1, <1>2, <1>3, RestatedAsMove DEF Open, RowStates
  <1>6. ledgerPlan' = ledgerPlan
    BY <1>5 DEF ledgerPlan
  <1>7. ASSUME NEW q \in Runs, NEW m \in Members
        PROVE  /\ journal'[q][m].state = "done" <=>
                    \/ q = r /\ m \in ChunkRows(r, c) /\ state = "done"
                    \/ ~(q = r /\ m \in ChunkRows(r, c)) /\ journal[q][m].state = "done"
               /\ journal[q][m].state = "done" => journal'[q][m].state = "done"
    <2>1. journal[q][m].state = "done" => journal'[q][m].state = "done"
      BY DEF LogStep, Rows
    <2>2. QED
      BY <1>1, <1>2, <1>4, <2>1
  <1>8. ASSUME state # "done"
        PROVE  ledgerConfirmed' = ledgerConfirmed
    BY <1>7, <1>8 DEF ledgerConfirmed
  <1>9. ASSUME state = "done"
        PROVE  ledgerConfirmed' = [ledgerConfirmed EXCEPT ![r] = @ \cup ChunkRows(r, c)]
    <2>1. ASSUME NEW q \in Runs
          PROVE  {m \in Members : journal'[q][m].state = "done"}
                   = IF q = r THEN {m \in Members : journal[q][m].state = "done"} \cup ChunkRows(r, c)
                              ELSE {m \in Members : journal[q][m].state = "done"}
      BY <1>3, <1>7, <1>9
    <2>2. QED
      BY <2>1 DEF ledgerConfirmed
  <1>10. QED
    BY <1>6, <1>8, <1>9

-----------------------------------------------------------------------------
(* Each kind of step of the ledger, from what it does to the ledger.       *)

LEMMA AsReopen ==
  ASSUME NEW r \in Runs, ledgerReported' = ledgerReported \ {r},
         ledgerReverses' = ledgerReverses, UNCHANGED <<register, journal, applied>>
  PROVE  Ledger!Next
  <1>1. Ledger!Reopen(r)
    BY DEF Ledger!Reopen, ledgerReported, ledgerReverses
  <1>2. QED
    BY <1>1 DEF Ledger!Next

LEMMA AsReport ==
  ASSUME TypeOK, NEW r \in Runs, ledgerReported' = ledgerReported \cup {r},
         \A m \in Rows(r) : journal[r][m].state = "done",
         ledgerReverses' = ledgerReverses, UNCHANGED <<register, journal, applied>>
  PROVE  Ledger!Next
  <1>1. \A m \in Members : journal[r][m] \in Row
    BY DEF TypeOK
  <1>2. {m \in Members : RowAsMove(journal[r][m]) # None}
          = {m \in Members : journal[r][m].state = "done"}
    BY <1>1, RowAsMoveFacts DEF Rows
  <1>3. Ledger!Report(r)
    BY <1>2 DEF Ledger!Report, Ledger!Covered, ledgerReported, ledgerReverses
  <1>4. QED
    BY <1>3 DEF Ledger!Next

LEMMA AsUndertake ==
  ASSUME TypeOK, NEW r \in Runs, NEW q \in Runs \ {r}, run[r].parent = None, Rows(r) = {},
         ledgerReverses' = [ledgerReverses EXCEPT ![r] = q],
         ledgerReported' = ledgerReported, UNCHANGED <<register, journal, applied>>
  PROVE  Ledger!Next
  <1>1. [m \in Members |-> RowAsMove(journal[r][m])] = [m \in Members |-> None]
    BY DEF Rows, RowAsMove
  <1>2. Ledger!Undertake(r, q)
    BY <1>1 DEF Ledger!Undertake, Ledger!Blank, ledgerReported, ledgerReverses
  <1>3. QED
    BY <1>2 DEF Ledger!Next

LEMMA AsConfirm ==
  ASSUME NEW r \in Runs, run[r].state # "done", NEW S \in SUBSET applied[r],
         ledgerConfirmed' = [ledgerConfirmed EXCEPT ![r] = @ \cup S],
         ledgerPlan' = ledgerPlan, UNCHANGED <<register, run, applied>>
  PROVE  Ledger!Next
  <1>1. Ledger!Confirm(r)
    BY DEF Ledger!Confirm, ledgerConfirmed, ledgerPlan
  <1>2. QED
    BY <1>1 DEF Ledger!Next

LEMMA AsMove ==
  ASSUME TypeOK, NEW r \in Runs, run[r].state # "done", NEW S \in SUBSET Rows(r),
         \A m \in S : journal[r][m].state # "done",
         register' = [m \in Members |-> IF m \in S THEN Updated(register[m], journal[r][m])
                                                   ELSE register[m]],
         applied' = [applied EXCEPT ![r] = @ \cup S], UNCHANGED <<run, journal>>
  PROVE  Ledger!Next
  <1>1. \A m \in Members : journal[r][m] \in Row
    BY DEF TypeOK
  <1>2. S \subseteq {m \in Members : RowAsMove(journal[r][m]) # None}
                      \ {m \in Members : journal[r][m].state = "done"}
    BY <1>1, RowAsMoveFacts DEF Rows
  <1>3. \A m \in S : Updated(register[m], journal[r][m])
                       = Updated(register[m], RowAsMove(journal[r][m]))
    BY <1>1, RowAsMoveFacts DEF Updated, Rows
  <1>4. register' = [m \in Members |-> IF m \in S THEN Updated(register[m], RowAsMove(journal[r][m]))
                                                  ELSE register[m]]
    BY <1>3
  <1>5. Ledger!Move(r)
    BY <1>2, <1>4 DEF Ledger!Move, Ledger!Covered
  <1>6. QED
    BY <1>5 DEF Ledger!Next

LEMMA AsEdit ==
  ASSUME NEW m \in Members, NEW p \in Placements, register' = [register EXCEPT ![m] = p],
         UNCHANGED <<run, journal, applied>>
  PROVE  Ledger!Next
  <1>1. Ledger!Edit(m)
    BY DEF Ledger!Edit
  <1>2. QED
    BY <1>1 DEF Ledger!Next


(* A written journal is a recorded plan; an empty one changes nothing. *)
LEMMA AsRecord ==
  ASSUME TypeOK, NEW r \in Runs, NEW rows \in [Members -> Row],
         Rows(r) = {}, applied[r] = {}, run[r].state # "done",
         \A m \in Members : rows[m].state \in {"absent", "pending"},
         run[r].parent # None =>
           run[r].parent \in Runs /\ \A m \in Members : rows[m].state # "absent" =>
             Mirrors(rows[m], journal[run[r].parent][m]),
         journal' = [journal EXCEPT ![r] = rows], UNCHANGED <<register, run, applied>>
  PROVE  Ledger!Next \/ UNCHANGED Ledger!bvars
  <1> DEFINE q == run[r].parent
  <1>1. /\ journal'[r] = rows /\ \A p \in Runs \ {r} : journal'[p] = journal[p]
        /\ \A p \in Runs, m \in Members : journal[p][m] \in Row
        /\ \A m \in Members : rows[m] \in Row
    BY DEF TypeOK
  <1>2. \A m \in Members : journal[r][m].state = "absent"
    BY DEF Rows
  <1>3. ledgerConfirmed' = ledgerConfirmed
    <2>1. ASSUME NEW p \in Runs
          PROVE  {m \in Members : journal'[p][m].state = "done"}
                   = {m \in Members : journal[p][m].state = "done"}
      BY <1>1, <1>2
    <2>2. QED
      BY <2>1 DEF ledgerConfirmed
  <1>4. CASE \A m \in Members : rows[m].state = "absent"
    <2>1. ASSUME NEW p \in Runs, NEW m \in Members
          PROVE  RowAsMove(journal'[p][m]) = RowAsMove(journal[p][m])
      BY <1>1, <1>2, <1>4 DEF RowAsMove
    <2>2. ledgerPlan' = ledgerPlan
      BY <2>1 DEF ledgerPlan
    <2>3. QED
      BY <1>3, <2>2 DEF Ledger!bvars, ledgerPlan, ledgerConfirmed
  <1>5. CASE \E m \in Members : rows[m].state # "absent"
    <2> DEFINE moves == [m \in Members |-> RowAsMove(rows[m])]
    <2>1. /\ ledgerPlan'[r] = moves /\ \A p \in Runs \ {r} : ledgerPlan'[p] = ledgerPlan[p]
          /\ ledgerPlan[r] = [m \in Members |-> None]
      BY <1>1, <1>2 DEF ledgerPlan, RowAsMove
    <2>2. moves # [m \in Members |-> None]
      <3>1. PICK m \in Members : rows[m].state # "absent"
        BY <1>5
      <3>2. moves[m] # None
        BY <1>1, <3>1, RowAsMoveFacts
      <3> HIDE DEF moves
      <3>3. QED
        BY <3>2
    <2>3. ASSUME q # None, NEW m \in Members, moves[m] # None
          PROVE  /\ m \in ledgerConfirmed[q]
                 /\ moves[m].source = ledgerPlan[q][m].target
                 /\ moves[m].target = ledgerPlan[q][m].source
      <3>1. q \in Runs /\ rows[m].state # "absent"
        BY <1>1, <2>3, RowAsMoveFacts
      <3>2. Mirrors(rows[m], journal[q][m])
        BY <2>3, <3>1
      <3>3. /\ journal[q][m].state = "done" /\ journal[q][m] \in Row
            /\ rows[m].source = journal[q][m].target /\ rows[m].target = journal[q][m].source
        BY <1>1, <3>1, <3>2 DEF Mirrors
      <3>4. /\ moves[m].source = rows[m].source /\ moves[m].target = rows[m].target
        BY <1>1, <3>1, RowAsMoveFacts
      <3>5. /\ ledgerPlan[q][m].source = journal[q][m].source
            /\ ledgerPlan[q][m].target = journal[q][m].target
        BY <3>1, <3>3, RowAsMoveFacts DEF ledgerPlan
      <3>6. m \in ledgerConfirmed[q]
        BY <3>1, <3>3 DEF ledgerConfirmed
      <3> HIDE DEF moves
      <3>7. QED
        BY <3>3, <3>4, <3>5, <3>6
    <2> HIDE DEF moves
    <2>4. /\ ledgerPlan[r] = [m \in Members |-> None] /\ applied[r] = {} /\ r \notin ledgerReported
          /\ ledgerPlan'[r] # [m \in Members |-> None]
          /\ \A p \in Runs \ {r} : ledgerPlan'[p] = ledgerPlan[p]
          /\ ledgerReverses[r] # None =>
               \A m \in Members : ledgerPlan'[r][m] # None =>
                 /\ m \in ledgerConfirmed[ledgerReverses[r]]
                 /\ ledgerPlan'[r][m].source = ledgerPlan[ledgerReverses[r]][m].target
                 /\ ledgerPlan'[r][m].target = ledgerPlan[ledgerReverses[r]][m].source
          /\ UNCHANGED <<register, ledgerConfirmed, applied, ledgerReported, ledgerReverses>>
      BY <1>3, <2>1, <2>2, <2>3 DEF ledgerReported, ledgerReverses
    <2>5. Ledger!Record(r)
      BY <2>4 DEF Ledger!Record, Ledger!Blank, Ledger!TakesBack, ledgerPlan, ledgerConfirmed,
                  ledgerReported, ledgerReverses
    <2>6. QED
      BY <2>5 DEF Ledger!Next
  <1>6. QED
    BY <1>4, <1>5

-----------------------------------------------------------------------------
(* Each step of the executor as a step of the ledger.                      *)

LEMMA LedgerKept ==
  ASSUME Invariant, MovesInv, TypeOK', NEW w \in Drivers, Step(w)
  PROVE  Ledger!Next \/ UNCHANGED Ledger!bvars
  <1> DEFINE j == job[w]
  <1>t. TypeOK /\ j \in Job /\ RowsInv /\ PlanInv(w)
    BY DEF Invariant, TypeOK, MovesInv
  <1>l. LogStep
    BY StepIsLogged
  <1>r. j.run \in Runs
    BY DEF Invariant, HasRun, Step, Active, BuildInverse, ReadRoster, WriteSnapshot, CreateRun,
           WriteJournal, LoadJournal, SetRunning, BeginChunk, Reread, Post, MarkDone, MarkFailed,
           StopFailed, Finish, Reconcile, Raise, Raised, Steps
  <1>b. ASSUME NEW r \in Runs, ~Exists(r)
        PROVE  Rows(r) = {} /\ applied[r] = {} /\ run[r].parent = None /\ run[r].kind = None
    <2>1. Rows(r) = {}
      BY <1>b DEF Invariant, LogInv, JournalInv
    <2>2. applied[r] = {}
      <3>1. \A m \in applied[r] : m \in Members /\ journal[r][m].state # "absent"
        BY AppliedWereRows
      <3>2. QED
        BY <2>1, <3>1 DEF Rows
    <2>3. QED
      BY <1>t, <1>b, <2>1, <2>2 DEF RowsInv
  <1>s. ASSUME NEW state \in {"running", "failed", "done"}, run' = WithState(j.run, state)
        PROVE  /\ ledgerReverses' = ledgerReverses
               /\ state # "done" => ledgerReported' = ledgerReported \ {j.run}
               /\ state = "done" /\ Exists(j.run) => ledgerReported' = ledgerReported \cup {j.run}
    <2>1. \A r \in Runs \ {j.run} : run'[r] = run[r]
      BY <1>t, <1>s DEF WithState, TypeOK
    <2>2. run'[j.run] = [run[j.run] EXCEPT !.state =
                           IF run[j.run].state = "none" THEN run[j.run].state ELSE state]
      BY <1>t, <1>r, <1>s DEF WithState, TypeOK
    <2>3. \A row \in RunRow :
            LET next == [row EXCEPT !.state = IF row.state = "none" THEN row.state ELSE state] IN
            /\ next.parent = row.parent
            /\ next.state = IF row.state = "none" THEN row.state ELSE state
      BY DEF RunRow
    <2>4. /\ run'[j.run].parent = run[j.run].parent
          /\ run'[j.run].state = IF run[j.run].state = "none" THEN run[j.run].state ELSE state
      BY <1>t, <1>r, <2>2, <2>3 DEF TypeOK
    <2>5. ledgerReverses' = ledgerReverses
      BY <2>1, <2>4 DEF ledgerReverses
    <2>6. QED
      BY <1>r, <1>s, <2>1, <2>4, <2>5 DEF ledgerReported, Exists
  <1>1. CASE UNCHANGED <<register, run, journal, applied>>
    BY <1>1, LedgerStutters
  <1>2. CASE CreateRun(w)
    <2>1. ~Exists(j.run)
      BY <1>2 DEF CreateRun, Invariant, JobsInv, Prepared, Preparing
    <2>2. /\ IF j.kind = "undo" THEN j.parent \in Runs \ {j.run} ELSE j.parent = None
          /\ UNCHANGED <<register, journal, applied>>
          /\ run' = [run EXCEPT ![j.run] =
                      [state |-> "running", kind |-> j.kind, parent |-> j.parent]]
      BY <1>t, <1>2 DEF CreateRun, PlanInv, PlanSteps
    <2>3. /\ run'[j.run].state = "running" /\ run'[j.run].parent = j.parent
          /\ \A r \in Runs \ {j.run} : run'[r] = run[r]
      BY <1>t, <1>r, <2>2 DEF TypeOK
    <2>4. ledgerReported' = ledgerReported
      BY <2>1, <2>3 DEF ledgerReported, Exists
    <2>5. ledgerReverses' = [ledgerReverses EXCEPT ![j.run] = j.parent]
      BY <2>3 DEF ledgerReverses
    <2>6. Rows(j.run) = {} /\ run[j.run].parent = None
      BY <1>b, <1>r, <2>1
    <2>7. CASE j.kind = "undo"
      BY <1>t, <1>r, <2>2, <2>4, <2>5, <2>6, <2>7, AsUndertake
    <2>8. CASE j.kind # "undo"
      <3>1. ledgerReverses' = ledgerReverses
        BY <1>r, <2>2, <2>5, <2>6, <2>8 DEF ledgerReverses
      <3>2. QED
        BY <2>2, <2>4, <3>1 DEF Ledger!bvars, ledgerReported, ledgerReverses
    <2>9. QED
      BY <2>7, <2>8
  <1>3. CASE WriteJournal(w)
    <2>1. /\ journal' = [journal EXCEPT ![j.run] = j.plan] /\ UNCHANGED <<register, run, applied>>
          /\ j.pc = "journal"
      BY <1>3 DEF WriteJournal
    <2>2. /\ Rows(j.run) = {} /\ run[j.run].state = "running"
          /\ \A m \in Members : j.plan[m].state \in {"absent", "pending"}
      BY <2>1 DEF Invariant, JobsInv, Prepared
    <2>3. applied[j.run] = {}
      <3>1. \A m \in applied[j.run] : m \in Members /\ journal[j.run][m].state # "absent"
        BY <1>r, AppliedWereRows
      <3>2. QED
        BY <2>2, <3>1 DEF Rows
    <2>4. /\ run[j.run].kind = j.kind /\ run[j.run].parent = j.parent
          /\ IF j.kind = "undo" THEN j.parent \in Runs \ {j.run} ELSE j.parent = None
          /\ Lawful(j.kind, j.parent, j.plan)
      BY <1>t, <2>1 DEF PlanInv, PlanSteps
    <2>5. run[j.run].parent # None =>
            run[j.run].parent \in Runs /\ \A m \in Members : j.plan[m].state # "absent" =>
              Mirrors(j.plan[m], journal[run[j.run].parent][m])
      BY <2>4 DEF Lawful
    <2>6. j.plan \in [Members -> Row]
      BY <1>t DEF Job
    <2>7. QED
      BY <1>t, <1>r, <2>1, <2>2, <2>3, <2>5, <2>6, AsRecord
  <1>4. CASE SetRunning(w) \/ StopFailed(w)
    <2>1. /\ run' = WithState(j.run, "running") \/ run' = WithState(j.run, "failed")
          /\ UNCHANGED <<register, journal, applied>>
      BY <1>4 DEF SetRunning, StopFailed
    <2>2. ledgerReverses' = ledgerReverses /\ ledgerReported' = ledgerReported \ {j.run}
      BY <1>s, <2>1
    <2>3. QED
      BY <1>r, <2>1, <2>2, AsReopen
  <1>5. CASE Finish(w)
    <2>1. /\ run' = WithState(j.run, "done") /\ UNCHANGED <<register, journal, applied>>
          /\ j.pc = "next" /\ j.todo = {}
      BY <1>5 DEF Finish
    <2>2. /\ run[j.run].state = "running"
          /\ \A m \in Rows(j.run) : journal[j.run][m].state = "done"
      BY <2>1 DEF Invariant, JobsInv, Driven
    <2>3. ledgerReverses' = ledgerReverses /\ ledgerReported' = ledgerReported \cup {j.run}
      BY <1>s, <2>1, <2>2 DEF Exists
    <2>4. QED
      BY <1>t, <1>r, <2>1, <2>2, <2>3, AsReport
  <1>6. CASE BeginChunk(w) \/ MarkFailed(w)
    <2>1. \E c : \E state \in Open \ {"done"} : journal' = Marked(j.run, c, state)
      BY <1>6 DEF BeginChunk, MarkFailed, Open
    <2>2. UNCHANGED <<register, run, applied>>
      BY <1>6 DEF BeginChunk, MarkFailed
    <2>3. ledgerPlan' = ledgerPlan /\ ledgerConfirmed' = ledgerConfirmed
      BY <1>t, <1>l, <1>r, <2>1, MarkedLedger
    <2>4. QED
      BY <2>2, <2>3 DEF Ledger!bvars, ledgerPlan, ledgerConfirmed
  <1>7. CASE Post(w)
    <2>1. PICK hit \in SUBSET Batch(w) :
            /\ register' = [m \in Members |-> IF m \in hit
                              THEN Updated(register[m], journal[j.run][m]) ELSE register[m]]
            /\ applied' = [applied EXCEPT ![j.run] = @ \cup hit]
      BY <1>7 DEF Post
    <2>2. UNCHANGED <<run, journal>> /\ j.pc = "post"
      BY <1>7 DEF Post, db
    <2>3. /\ run[j.run].state = "running" /\ Batch(w) = ChunkRows(j.run, j.chunk)
          /\ \A m \in ChunkRows(j.run, j.chunk) : journal[j.run][m].state = "in_flight"
      BY <1>r, <2>2, ChunkFacts DEF Writing
    <2>4. hit \subseteq Rows(j.run) /\ \A m \in hit : journal[j.run][m].state # "done"
      BY <2>1, <2>3 DEF ChunkRows
    <2>5. QED
      BY <1>t, <1>r, <2>1, <2>2, <2>3, <2>4, AsMove
  <1>8. CASE MarkDone(w)
    <2>1. /\ journal' = Marked(j.run, j.chunk, "done") /\ j.pc = "ack"
          /\ UNCHANGED <<register, run, applied>>
      BY <1>8 DEF MarkDone
    <2>2. run[j.run].state = "running" /\ ChunkRows(j.run, j.chunk) \subseteq applied[j.run]
      BY <2>1 DEF Invariant, JobsInv, Driven, Writing
    <2>3. /\ ledgerPlan' = ledgerPlan
          /\ ledgerConfirmed' = [ledgerConfirmed EXCEPT ![j.run] = @ \cup ChunkRows(j.run, j.chunk)]
      BY <1>t, <1>l, <1>r, <2>1, MarkedLedger DEF Open
    <2>4. QED
      BY <1>r, <2>1, <2>2, <2>3, AsConfirm
  <1>9. CASE Raised(w) /\ run' # run
    <2>1. /\ run' = [run EXCEPT ![j.run] =
                       IF @.state = "none" THEN [NoRun EXCEPT !.state = "failed", !.kind = j.kind]
                                           ELSE [@ EXCEPT !.state = "failed"]]
          /\ UNCHANGED <<register, journal, applied>>
      BY <1>9 DEF Raised
    <2>2. \A r \in Runs \ {j.run} : run'[r] = run[r]
      BY <1>t, <2>1 DEF TypeOK
    <2>3. run'[j.run].state = "failed" /\ run'[j.run].parent = run[j.run].parent
      <3>1. CASE Exists(j.run)
        <4>1. run'[j.run] = [run[j.run] EXCEPT !.state = "failed"]
          BY <1>t, <1>r, <2>1, <3>1 DEF Exists, TypeOK
        <4>2. \A row \in RunRow : LET next == [row EXCEPT !.state = "failed"]
                IN next.parent = row.parent /\ next.state = "failed"
          BY DEF RunRow
        <4>3. run[j.run] \in RunRow
          BY <1>t, <1>r DEF TypeOK
        <4>4. QED
          BY <4>1, <4>2, <4>3
      <3>2. CASE ~Exists(j.run)
        <4>1. run'[j.run] = [NoRun EXCEPT !.state = "failed", !.kind = j.kind]
          BY <1>t, <1>r, <2>1, <3>2 DEF Exists, TypeOK
        <4>2. run'[j.run].state = "failed" /\ run'[j.run].parent = None
          BY <4>1 DEF NoRun
        <4>3. QED
          BY <1>b, <1>r, <3>2, <4>2
      <3>3. QED
        BY <3>1, <3>2
    <2>4. ledgerReverses' = ledgerReverses /\ ledgerReported' = ledgerReported \ {j.run}
      BY <2>2, <2>3 DEF ledgerReverses, ledgerReported
    <2>5. QED
      BY <1>r, <2>1, <2>4, AsReopen
  <1>10. QED
    BY <1>1, <1>2, <1>3, <1>4, <1>5, <1>6, <1>7, <1>8, <1>9
      DEF Step, BuildInverse, ReadRoster, WriteSnapshot, LoadJournal, Reread, Reconcile,
          Raise, Raised, db

(* Calls, crashes and deletions leave the ledger alone; an edit by others  *)
(* is one of the ledger's own.                                             *)
LEMMA LedgerAround ==
  ASSUME Environment \/ (\E w \in Drivers : SerialCall(w)) \/ UNCHANGED vars
  PROVE  Ledger!Next \/ UNCHANGED Ledger!bvars
  <1>1. ASSUME NEW m \in Members, NEW p \in ForeignEdits, ExternalEdit(m, p)
        PROVE  Ledger!Next
    BY <1>1, AsEdit, EditsType DEF ExternalEdit, db
  <1>2. CASE UNCHANGED <<register, run, journal, applied>>
    BY <1>2, LedgerStutters
  <1>3. QED
    BY <1>1, <1>2 DEF Environment, DeleteSnapshot, Crash, SerialCall, Call, StartRun, StartResume,
       StartUndo, vars, db

(* Whatever happens between the executor's steps - a crash, a lost answer, *)
(* a resume, an undo - each of its behaviours is one of the ledger's: a    *)
(* run moves only whom it recorded beforehand, and as recorded; confirms   *)
(* only what it moved; is reported when all is confirmed; and is reversed  *)
(* row by row (run, resume, undo, _drive).                                 *)
THEOREM ExecutorKeepsTheLedger == Spec => KeepsTheLedger
  <1>1. Invariant /\ MovesInv /\ [Next]_vars => [Ledger!Next]_(Ledger!bvars)
    <2> SUFFICES ASSUME Invariant, MovesInv, [Next]_vars
                 PROVE  Ledger!Next \/ UNCHANGED Ledger!bvars
      OBVIOUS
    <2>1. TypeOK'
      BY TypesInductive DEF Invariant
    <2>2. ASSUME NEW w \in Drivers, Step(w)
          PROVE  Ledger!Next \/ UNCHANGED Ledger!bvars
      BY <2>1, <2>2, LedgerKept
    <2>3. QED
      BY <2>2, LedgerAround DEF Next
  <1>2. QED
    BY <1>1, LedgerInitial, MovesAreLawful, PTL DEF Spec, KeepsTheLedger, Ledger!Spec
=============================================================================
