---------------------- MODULE WriteExecutorMovesProofs ----------------------
(***************************************************************************)
(* Theorems about whom the executor moves and where to: what a planned or  *)
(* journaled move owes to the kind of its run, and where a driven member   *)
(* stands.  They hold for every roster, allowlist, chunk size and number   *)
(* of runs, drivers, crashes and edits.                                    *)
(***************************************************************************)
EXTENDS WriteExecutorProofs

-----------------------------------------------------------------------------
(* The inductive invariant: what Invariant does not say of the contents of *)
(* plans and rows.                                                         *)

PlanSteps == {"read", "snapshot", "create", "journal"}  \* a job holds a plan
Observing == PlanSteps \ {"read"}                       \* compared with the roster

(* A move takes back the journaled one it was made from (build_inverse_moves). *)
Mirrors(row, before) ==
  /\ before.state = "done"
  /\ row.source = before.target
  /\ row.target = before.source
  /\ row.targetPatrol = before.sourcePatrol

(* What a run of a kind may plan, and keep in its journal. *)
Lawful(kind, parent, rows) ==
  \A m \in Members : rows[m].state # "absent" =>
    /\ kind \in Kinds
    /\ rows[m].target # None
    /\ kind = "stage2_verify" => m \in Allowlist
    /\ kind = "undo" => parent \in Runs /\ Mirrors(rows[m], journal[parent][m])

(* Nobody in an uppflyttning is a leader, while nobody edits the register. *)
Sparing(kind, rows) ==
  edits = 0 /\ kind = "uppflyttning" =>
    \A m \in Members : rows[m].state # "absent" => ~register[m].leader

(* The plan a job holds, from the call to the journal. *)
PlanInv(w) ==
  LET j == job[w] IN
  /\ j.pc = "inverse" => j.kind = "undo"
  /\ j.pc \in {"inverse"} \cup PlanSteps =>
       IF j.kind = "undo" THEN j.parent \in Runs \ {j.run} ELSE j.parent = None
  /\ j.pc \in PlanSteps => Lawful(j.kind, j.parent, j.plan)
  /\ j.pc = "read" /\ j.kind = "uppflyttning" => j.noLeaders
  /\ j.pc \in Observing => Sparing(j.kind, j.plan)
  /\ j.pc = "journal" => run[j.run].kind = j.kind /\ run[j.run].parent = j.parent

(* The journal, and the run row that says what kind of moves it holds. *)
RowsInv ==
  \A r \in Runs :
    /\ ~Exists(r) => run[r].kind = None /\ run[r].parent = None
    /\ run[r].kind # "undo" => run[r].parent = None
    /\ Lawful(run[r].kind, run[r].parent, journal[r])
    /\ Sparing(run[r].kind, journal[r])

(* A member stands where a row puts it. *)
Stands(p, row) ==
  p.troop = row.target /\ (row.targetPatrol # None => p.patrol = row.targetPatrol)

(* Every row the chunk loop has behind it has landed. *)
LandedInv(w) ==
  LET j == job[w]
      Standing(S) == \A m \in S : Stands(register[m], journal[j.run][m])
  IN
  edits = 0 =>
    /\ j.pc \in {"running", "next"} => Standing(j.items \ j.todo)
    /\ j.pc \in Writing => Standing(j.items \ (j.todo \cup ChunkRows(j.run, j.chunk)))
    /\ j.pc = "ack" => Standing(ChunkRows(j.run, j.chunk))
    /\ j.pc = "reconcile" => j.items \subseteq Rows(j.run) /\ Standing(j.items)

MovesInv == RowsInv /\ \A w \in Drivers : PlanInv(w) /\ LandedInv(w)

-----------------------------------------------------------------------------
(* What a step leaves alone. *)

LEMMA StepIsLogged ==
  ASSUME Invariant, NEW w \in Drivers, Step(w)
  PROVE  LogStep
  <1>1. CASE journal' = journal
    BY <1>1 DEF LogStep
  <1>2. CASE journal' # journal
    BY <1>2, StepLogs
  <1>3. QED
    BY <1>1, <1>2

(* A journaled row keeps its data. *)
LEMMA DataKept ==
  ASSUME TypeOK, TypeOK', LogStep, NEW r \in Runs, NEW m \in Rows(r)
  PROVE  /\ journal'[r][m].source = journal[r][m].source
         /\ journal'[r][m].target = journal[r][m].target
         /\ journal'[r][m].sourcePatrol = journal[r][m].sourcePatrol
         /\ journal'[r][m].targetPatrol = journal[r][m].targetPatrol
         /\ journal'[r][m].chunk = journal[r][m].chunk
  <1>1. \A a, b \in Row : Restated(a, "done") = Restated(b, "done") =>
          /\ a.source = b.source /\ a.target = b.target
          /\ a.sourcePatrol = b.sourcePatrol /\ a.targetPatrol = b.targetPatrol
          /\ a.chunk = b.chunk
    <2> SUFFICES ASSUME NEW a \in Row, NEW b \in Row, Restated(a, "done") = Restated(b, "done")
                 PROVE  /\ a.source = b.source /\ a.target = b.target
                        /\ a.sourcePatrol = b.sourcePatrol /\ a.targetPatrol = b.targetPatrol
                        /\ a.chunk = b.chunk
      OBVIOUS
    <2>1. \A row \in Row :
            /\ Restated(row, "done").source = row.source
            /\ Restated(row, "done").target = row.target
            /\ Restated(row, "done").sourcePatrol = row.sourcePatrol
            /\ Restated(row, "done").targetPatrol = row.targetPatrol
            /\ Restated(row, "done").chunk = row.chunk
      BY DEF Restated, Row
    <2>2. QED
      BY <2>1
  <1>2. m \in Members /\ journal[r][m] \in Row /\ journal'[r][m] \in Row
    BY DEF TypeOK, Rows
  <1>3. Restated(journal'[r][m], "done") = Restated(journal[r][m], "done")
    BY DEF LogStep
  <1>4. QED
    BY <1>1, <1>2, <1>3

(* A done row is final, so what was mirrored stays mirrored. *)
LEMMA MirrorsKept ==
  ASSUME TypeOK, TypeOK', LogStep, NEW p \in Runs, NEW m \in Members
  PROVE  \A row : Mirrors(row, journal[p][m]) => Mirrors(row, journal'[p][m])
  <1> SUFFICES ASSUME journal[p][m].state = "done"
               PROVE  \A row : Mirrors(row, journal[p][m]) => Mirrors(row, journal'[p][m])
    BY DEF Mirrors
  <1>1. m \in Rows(p)
    BY DEF Rows
  <1>2. journal'[p][m].state = "done"
    BY <1>1 DEF LogStep
  <1>3. QED
    BY <1>1, <1>2, DataKept DEF Mirrors

(* Only WriteJournal adds rows, and only those of the plan. *)
LEMMA RowsFrom ==
  ASSUME Invariant, NEW w \in Drivers, Step(w), NEW r \in Runs, NEW m \in Members,
         journal'[r][m].state # "absent"
  PROVE  \/ m \in Rows(r)
         \/ /\ WriteJournal(w) /\ r = job[w].run
            /\ journal'[r] = job[w].plan
  <1> DEFINE j == job[w]
  <1>1. j.run \in Runs
    BY DEF Invariant, HasRun, Step, Active, BuildInverse, ReadRoster, WriteSnapshot, CreateRun,
           WriteJournal, LoadJournal, SetRunning, BeginChunk, Reread, Post, MarkDone, MarkFailed,
           StopFailed, Finish, Reconcile, Raise, Raised, Steps
  <1>2. CASE journal' = journal
    BY <1>2 DEF Rows
  <1>3. CASE WriteJournal(w)
    BY <1>1, <1>3 DEF WriteJournal, Rows, Invariant, TypeOK
  <1>4. ASSUME NEW c, NEW state \in {"in_flight", "done", "failed"},
               journal' = Marked(j.run, c, state)
        PROVE  m \in Rows(r)
    <2>1. Rows(r)' = Rows(r)
      BY <1>1, <1>4, MarkedFacts DEF RowStates, Invariant
    <2>2. QED
      BY <2>1 DEF Rows
  <1>5. \/ journal' = journal \/ WriteJournal(w)
        \/ \E c, state : state \in {"in_flight", "done", "failed"} /\ journal' = Marked(j.run, c, state)
    BY DEF Step, BuildInverse, ReadRoster, WriteSnapshot, CreateRun,
           LoadJournal, SetRunning, BeginChunk, Reread, Post, MarkDone, MarkFailed,
           StopFailed, Finish, Reconcile, Raise, Raised, db
  <1>6. QED
    BY <1>2, <1>3, <1>4, <1>5

(* The leader flag is nobody's to write, and only others edit. *)
LEMMA LeadersKept ==
  ASSUME Invariant, NEW w \in Drivers, Step(w)
  PROVE  /\ edits' = edits
         /\ \A m \in Members : register'[m].leader = register[m].leader
  <1>1. CASE Post(w)
    <2>1. PICK hit : register' = [m \in Members |->
                       IF m \in hit THEN Updated(register[m], journal[job[w].run][m])
                                    ELSE register[m]]
      BY <1>1 DEF Post
    <2>2. \A p \in Placements : \A row : Updated(p, row).leader = p.leader
      BY DEF Updated, Placements
    <2>3. \A m \in Members : register[m] \in Placements
      BY DEF Invariant, TypeOK
    <2>4. ASSUME NEW m \in Members
          PROVE  register'[m].leader = register[m].leader
      <3>1. register'[m] = IF m \in hit THEN Updated(register[m], journal[job[w].run][m])
                                        ELSE register[m]
        BY <2>1
      <3>2. QED
        BY <2>2, <2>3, <3>1
    <2>5. edits' = edits
      BY <1>1 DEF Post
    <2>6. QED
      BY <2>4, <2>5
  <1>2. CASE ~Post(w)
    BY <1>2 DEF Step, BuildInverse, ReadRoster, WriteSnapshot, CreateRun, WriteJournal,
           LoadJournal, SetRunning, BeginChunk, Reread, MarkDone, MarkFailed,
           StopFailed, Finish, Reconcile, Raise, Raised
  <1>3. QED
    BY <1>1, <1>2

(* Once a run row exists it keeps its kind and its parent; a new one is    *)
(* what the job that makes it says.                                        *)
LEMMA RunsKept ==
  ASSUME Invariant, RowsInv, NEW w \in Drivers, PlanInv(w), Step(w), NEW r \in Runs
  PROVE  /\ Exists(r) => run'[r].kind = run[r].kind /\ run'[r].parent = run[r].parent
         /\ ~Exists(r)' => run'[r].kind = None /\ run'[r].parent = None
         /\ run'[r].kind # "undo" => run'[r].parent = None
  <1> DEFINE j == job[w]
  <1>1. run \in [Runs -> RunRow] /\ (Active(w) => j.run \in Runs)
    BY DEF Invariant, TypeOK, HasRun
  <1>2. /\ ~Exists(r) => run[r].kind = None /\ run[r].parent = None
        /\ run[r].kind # "undo" => run[r].parent = None
    BY DEF RowsInv
  <1>3. CASE run' = run
    BY <1>2, <1>3 DEF Exists
  <1>4. CASE CreateRun(w)
    <2>1. Active(w) /\ ~Exists(j.run)
      BY <1>4 DEF CreateRun, Invariant, JobsInv, Prepared, Active, Preparing
    <2>2. j.kind # "undo" => j.parent = None
      BY <1>4 DEF PlanInv, CreateRun, PlanSteps
    <2>3. /\ run' = [run EXCEPT ![j.run] =
                      [state |-> "running", kind |-> j.kind, parent |-> j.parent]]
      BY <1>4 DEF CreateRun
    <2>4. CASE r = j.run
      BY <1>1, <2>1, <2>2, <2>3, <2>4 DEF Exists
    <2>5. CASE r # j.run
      <3>1. run'[r] = run[r]
        BY <1>1, <2>1, <2>3, <2>5
      <3>2. QED
        BY <1>2, <3>1 DEF Exists
    <2>6. QED
      BY <2>4, <2>5
  <1>5. ASSUME NEW state \in {"running", "failed", "done"}, run' = WithState(j.run, state), Active(w)
        PROVE  /\ run'[r].kind = run[r].kind /\ run'[r].parent = run[r].parent
               /\ run'[r].state = "none" => run[r].state = "none"
    <2>1. /\ run'[r] = run[r]
          \/ run'[r] = [run[r] EXCEPT !.state = IF run[r].state = "none" THEN run[r].state ELSE state]
      BY <1>1, <1>5 DEF WithState
    <2>2. \A row \in RunRow : LET next == [row EXCEPT !.state = IF row.state = "none" THEN row.state ELSE state]
             IN /\ next.kind = row.kind /\ next.parent = row.parent
                /\ next.state = "none" => row.state = "none"
      BY DEF RunRow
    <2>3. run[r] \in RunRow
      BY <1>1
    <2>4. QED
      BY <2>1, <2>2, <2>3
  <1>6. CASE SetRunning(w) \/ StopFailed(w) \/ Finish(w)
    <2>1. Active(w)
      BY <1>6 DEF SetRunning, StopFailed, Finish, Active
    <2>2. \E state \in {"running", "failed", "done"} : run' = WithState(j.run, state)
      BY <1>6 DEF SetRunning, StopFailed, Finish
    <2>3. QED
      BY <1>2, <1>5, <2>1, <2>2 DEF Exists
  <1>7. CASE Raised(w) /\ run' # run
    <2>1. Active(w)
      BY <1>7 DEF Raised, Active
    <2>2. run' = [run EXCEPT ![j.run] =
                     IF @.state = "none" THEN [NoRun EXCEPT !.state = "failed", !.kind = j.kind]
                                         ELSE [@ EXCEPT !.state = "failed"]]
      BY <1>7 DEF Raised
    <2>3. CASE r # j.run
      <3>1. run'[r] = run[r]
        BY <1>1, <2>1, <2>2, <2>3
      <3>2. QED
        BY <1>2, <3>1 DEF Exists
    <2>4. CASE r = j.run /\ Exists(r)
      <3>1. run'[r] = [run[r] EXCEPT !.state = "failed"]
        BY <1>1, <2>1, <2>2, <2>4 DEF Exists
      <3>2. \A row \in RunRow : LET next == [row EXCEPT !.state = "failed"]
               IN next.kind = row.kind /\ next.parent = row.parent /\ next.state = "failed"
        BY DEF RunRow
      <3>3. run[r] \in RunRow
        BY <1>1
      <3>4. QED
        BY <1>2, <3>1, <3>2, <3>3 DEF Exists
    <2>5. CASE r = j.run /\ ~Exists(r)
      <3>1. run'[r] = [NoRun EXCEPT !.state = "failed", !.kind = j.kind]
        BY <1>1, <2>1, <2>2, <2>5 DEF Exists
      <3>2. run'[r].state = "failed" /\ run'[r].parent = None
        BY <3>1 DEF NoRun
      <3>3. QED
        BY <2>5, <3>2 DEF Exists
    <2>6. QED
      BY <2>3, <2>4, <2>5
  <1>8. QED
    BY <1>3, <1>4, <1>6, <1>7
      DEF Step, BuildInverse, ReadRoster, WriteSnapshot, WriteJournal,
           LoadJournal, BeginChunk, Reread, Post, MarkDone, MarkFailed,
           Reconcile, Raise, db

-----------------------------------------------------------------------------
(* Journals stay lawful. *)

LEMMA RowsKept ==
  ASSUME Invariant, TypeOK', RowsInv, NEW w \in Drivers, PlanInv(w), Step(w)
  PROVE  RowsInv'
  <1> DEFINE j == job[w]
  <1>t. TypeOK
    BY DEF Invariant
  <1>l. LogStep
    BY StepIsLogged
  <1>1. ASSUME NEW r \in Runs, NEW m \in Rows(r)
        PROVE  /\ run'[r].kind = run[r].kind /\ run'[r].parent = run[r].parent
               /\ journal'[r][m].source = journal[r][m].source
               /\ journal'[r][m].target = journal[r][m].target
               /\ journal'[r][m].targetPatrol = journal[r][m].targetPatrol
               /\ m \in Members /\ journal[r][m].state # "absent"
    <2>1. Exists(r)
      BY DEF Invariant, LogInv, JournalInv
    <2>2. run'[r].kind = run[r].kind /\ run'[r].parent = run[r].parent
      BY <2>1, RunsKept
    <2>3. QED
      BY <1>t, <1>l, <2>2, DataKept DEF Rows
  <1>2. ASSUME WriteJournal(w)
        PROVE  /\ run'[j.run].kind = j.kind /\ run'[j.run].parent = j.parent
               /\ Lawful(j.kind, j.parent, j.plan) /\ Sparing(j.kind, j.plan)
    BY <1>2 DEF WriteJournal, PlanInv, PlanSteps, Observing
  <1>3. \A p \in Runs, m \in Members : \A row :
          Mirrors(row, journal[p][m]) => Mirrors(row, journal'[p][m])
    BY <1>t, <1>l, MirrorsKept
  <1>4. ASSUME NEW r \in Runs
        PROVE  Lawful(run[r].kind, run[r].parent, journal[r])'
    <2> SUFFICES ASSUME NEW m \in Members, journal'[r][m].state # "absent"
                 PROVE  /\ run'[r].kind \in Kinds
                        /\ journal'[r][m].target # None
                        /\ run'[r].kind = "stage2_verify" => m \in Allowlist
                        /\ run'[r].kind = "undo" =>
                             run'[r].parent \in Runs
                             /\ Mirrors(journal'[r][m], journal'[run'[r].parent][m])
      BY DEF Lawful, Mirrors
    <2>1. CASE m \in Rows(r)
      <3>1. /\ run[r].kind \in Kinds /\ journal[r][m].target # None
            /\ run[r].kind = "stage2_verify" => m \in Allowlist
            /\ run[r].kind = "undo" =>
                 run[r].parent \in Runs
                 /\ Mirrors(journal[r][m], journal[run[r].parent][m])
        BY <1>1, <2>1 DEF RowsInv, Lawful
      <3>2. ASSUME NEW before
            PROVE  Mirrors(journal[r][m], before) => Mirrors(journal'[r][m], before)
        BY <1>1, <2>1 DEF Mirrors
      <3>3. run[r].kind = "undo" => Mirrors(journal'[r][m], journal'[run[r].parent][m])
        BY <1>3, <3>1, <3>2
      <3>4. QED
        BY <1>1, <2>1, <3>1, <3>3
    <2>2. CASE WriteJournal(w) /\ r = job[w].run /\ journal'[r] = job[w].plan
      <3>1. /\ j.kind \in Kinds /\ j.plan[m].target # None
            /\ j.kind = "stage2_verify" => m \in Allowlist
            /\ j.kind = "undo" =>
                 j.parent \in Runs /\ Mirrors(j.plan[m], journal[j.parent][m])
        BY <1>2, <2>2 DEF Lawful
      <3>2. j.kind = "undo" => Mirrors(j.plan[m], journal'[j.parent][m])
        BY <1>3, <3>1
      <3>3. QED
        BY <1>2, <2>2, <3>1, <3>2
    <2>3. QED
      BY <2>1, <2>2, RowsFrom
  <1>5. ASSUME NEW r \in Runs
        PROVE  Sparing(run[r].kind, journal[r])'
    <2> SUFFICES ASSUME edits' = 0, run'[r].kind = "uppflyttning",
                        NEW m \in Members, journal'[r][m].state # "absent"
                 PROVE  ~register'[m].leader
      BY DEF Sparing
    <2>1. edits = 0 /\ register'[m].leader = register[m].leader
      BY LeadersKept
    <2>2. CASE m \in Rows(r)
      BY <1>1, <2>1, <2>2 DEF RowsInv, Sparing
    <2>3. CASE WriteJournal(w) /\ r = job[w].run /\ journal'[r] = job[w].plan
      BY <1>2, <2>1, <2>3 DEF Sparing
    <2>4. QED
      BY <2>2, <2>3, RowsFrom
  <1>6. ASSUME NEW r \in Runs
        PROVE  (/\ ~Exists(r) => run[r].kind = None /\ run[r].parent = None
                /\ run[r].kind # "undo" => run[r].parent = None)'
    BY RunsKept DEF Exists
  <1>7. QED
    BY <1>4, <1>5, <1>6 DEF RowsInv

-----------------------------------------------------------------------------
(* Plans stay lawful, from the call to the journal. *)

(* What an undo plans is what its parent's rows say, backwards.            *)
LEMMA InverseMirrors ==
  ASSUME TypeOK, NEW p \in Runs
  PROVE  Lawful("undo", p, InverseMoves(p))
  <1> SUFFICES ASSUME NEW m \in Members, InverseMoves(p)[m].state # "absent"
               PROVE  /\ InverseMoves(p)[m].target # None
                      /\ Mirrors(InverseMoves(p)[m], journal[p][m])
    BY DEF Lawful, Kinds
  <1> DEFINE row == journal[p][m]
  <1>1. row.state = "done" /\ row.source # None
        /\ InverseMoves(p)[m] = Intended(row.target, row.source, row.sourcePatrol)
    BY DEF InverseMoves, Absent
  <1>2. ASSUME NEW s, NEW t, NEW q
        PROVE  /\ Intended(s, t, q).source = s /\ Intended(s, t, q).target = t
               /\ Intended(s, t, q).targetPatrol = q
    BY DEF Intended, Absent
  <1>3. QED
    BY <1>1, <1>2 DEF Mirrors

(* The drift check narrows a plan and pins each move's source to where the *)
(* member stands, which for an undo is where its parent put the member.    *)
LEMMA PreflightLawful ==
  ASSUME TypeOK, RowsInv, NEW j \in Job, Lawful(j.kind, j.parent, j.plan),
         NEW D, NEW c,
         D = {m \in Members : /\ j.plan[m].state = "intended"
                              /\ WillApply(j.plan[m], register[m], j.noLeaders)}
  PROVE  /\ Lawful(j.kind, j.parent, Preflight(j.plan, D, c))
         /\ j.noLeaders => \A m \in Members :
              Preflight(j.plan, D, c)[m].state # "absent" => ~register[m].leader
  <1> DEFINE new == Preflight(j.plan, D, c)
  <1>1. ASSUME NEW m \in Members, new[m].state # "absent"
        PROVE  /\ m \in D /\ new[m] = Observed(j.plan[m], c[m], register[m])
               /\ j.plan[m].state = "intended"
               /\ WillApply(j.plan[m], register[m], j.noLeaders)
    BY <1>1 DEF Preflight, Absent
  <1>2. \A move \in Row : \A k, p :
          /\ Observed(move, k, p).target = move.target
          /\ Observed(move, k, p).targetPatrol = move.targetPatrol
          /\ Observed(move, k, p).source = p.troop
    BY DEF Observed, Row
  <1>3. \A m \in Members : j.plan[m] \in Row
    BY DEF Job
  <1> HIDE DEF new
  <1>4. ASSUME NEW m \in Members, new[m].state # "absent", j.kind = "undo"
        PROVE  j.parent \in Runs /\ Mirrors(new[m], journal[j.parent][m])
    <2> DEFINE before == journal[j.parent][m]
    <2>1. /\ j.parent \in Runs /\ Mirrors(j.plan[m], before)
      BY <1>1, <1>4 DEF Lawful
    <2>2. before.target # None
      BY <2>1 DEF RowsInv, Lawful, Mirrors
    <2>3. j.plan[m].source = register[m].troop
      BY <1>1, <1>4, <2>1, <2>2 DEF WillApply, Mirrors
    <2>4. /\ new[m].source = j.plan[m].source /\ new[m].target = j.plan[m].target
          /\ new[m].targetPatrol = j.plan[m].targetPatrol
      BY <1>1, <1>2, <1>3, <1>4, <2>3
    <2>5. QED
      BY <2>1, <2>4 DEF Mirrors
  <1>5. ASSUME NEW m \in Members, new[m].state # "absent"
        PROVE  /\ j.kind \in Kinds /\ new[m].target # None
               /\ j.kind = "stage2_verify" => m \in Allowlist
    BY <1>1, <1>2, <1>3, <1>5 DEF Lawful
  <1>6. Lawful(j.kind, j.parent, new)
    BY <1>4, <1>5 DEF Lawful
  <1>7. ASSUME j.noLeaders, NEW m \in Members, new[m].state # "absent"
        PROVE  ~register[m].leader
    BY <1>1, <1>7 DEF WillApply
  <1>8. QED
    BY <1>6, <1>7 DEF new


LEMMA GotoPlan ==
  ASSUME TypeOK, NEW w \in Drivers, NEW pc \in Steps, Goto(w, pc)
  PROVE  /\ job'[w].pc = pc /\ job'[w].run = job[w].run
         /\ job'[w].kind = job[w].kind /\ job'[w].parent = job[w].parent
         /\ job'[w].noLeaders = job[w].noLeaders /\ job'[w].plan = job[w].plan
  <1> DEFINE j == job[w]
  <1>1. \A b \in Job : LET k == [b EXCEPT !.pc = pc] IN
          /\ k.pc = pc /\ k.run = b.run /\ k.kind = b.kind /\ k.parent = b.parent
          /\ k.noLeaders = b.noLeaders /\ k.plan = b.plan
    BY DEF Job
  <1>2. j \in Job
    BY DEF TypeOK
  <1>3. job'[w] = [j EXCEPT !.pc = pc]
    BY GotoFacts
  <1>4. QED
    BY <1>1, <1>2, <1>3

(* A job that is in none of the steps that hold a plan.                    *)
LEMMA PlanLess ==
  ASSUME NEW w \in Drivers, job'[w].pc \notin {"inverse", "read", "snapshot", "create", "journal"}
  PROVE  PlanInv(w)'
  BY DEF PlanInv, PlanSteps, Observing

LEMMA PlanKept ==
  ASSUME Invariant, RowsInv, NEW w \in Drivers, PlanInv(w), Step(w)
  PROVE  PlanInv(w)'
  <1> DEFINE j == job[w]
  <1>t. TypeOK /\ j \in Job
    BY DEF Invariant, TypeOK
  <1>1. CASE BuildInverse(w)
    <2> DEFINE k == [j EXCEPT !.pc = "read", !.plan = InverseMoves(j.parent)]
               e == [j EXCEPT !.pc = "raised"]
    <2>1. j.pc = "inverse" /\ j.kind = "undo" /\ j.parent \in Runs \ {j.run}
      BY <1>1 DEF BuildInverse, PlanInv
    <2>2. job' = [job EXCEPT ![w] = k] \/ job' = [job EXCEPT ![w] = e]
      BY <1>1 DEF BuildInverse
    <2>3. job'[w] = k \/ job'[w] = e
      BY <1>t, <2>2 DEF TypeOK
    <2>4. \A b \in Job : \A plan : LET n == [b EXCEPT !.pc = "read", !.plan = plan] IN
            /\ n.pc = "read" /\ n.plan = plan /\ n.run = b.run
            /\ n.kind = b.kind /\ n.parent = b.parent
      BY DEF Job
    <2>5. k.pc = "read" /\ k.plan = InverseMoves(j.parent) /\ k.run = j.run
          /\ k.kind = j.kind /\ k.parent = j.parent
      BY <1>t, <2>4
    <2>6. e.pc = "raised"
      BY <1>t DEF Job
    <2>7. Lawful("undo", j.parent, InverseMoves(j.parent))
      BY <1>t, <2>1, InverseMirrors
    <2>8. journal' = journal
      BY <1>1 DEF BuildInverse, db
    <2> HIDE DEF k, e
    <2>9. CASE job'[w] = k
      <3>1. Lawful(job'[w].kind, job'[w].parent, job'[w].plan)
        BY <2>1, <2>5, <2>7, <2>9
      <3>2. Lawful(job[w].kind, job[w].parent, job[w].plan)'
        BY <2>8, <3>1 DEF Lawful, Mirrors
      <3>3. QED
        BY <2>1, <2>5, <2>9, <3>2 DEF PlanInv, PlanSteps, Observing
    <2>10. CASE job'[w] = e
      BY <2>6, <2>10, PlanLess
    <2>11. QED
      BY <2>3, <2>9, <2>10
  <1>2. CASE ReadRoster(w)
    <2> DEFINE D == {m \in Members : /\ j.plan[m].state = "intended"
                                     /\ WillApply(j.plan[m], register[m], j.noLeaders)}
    <2>1. PICK c \in Chunkings(D) :
            job' = [job EXCEPT ![w] = [j EXCEPT !.pc = "snapshot", !.plan = Preflight(j.plan, D, c)]]
      BY <1>2 DEF ReadRoster
    <2> DEFINE plan == Preflight(j.plan, D, c)
    <2>2. /\ Lawful(j.kind, j.parent, j.plan)
          /\ IF j.kind = "undo" THEN j.parent \in Runs \ {j.run} ELSE j.parent = None
          /\ j.kind = "uppflyttning" => j.noLeaders
      BY <1>2 DEF ReadRoster, PlanInv, PlanSteps
    <2>3. /\ Lawful(j.kind, j.parent, plan)
          /\ j.noLeaders => \A m \in Members :
               plan[m].state # "absent" => ~register[m].leader
      BY <1>t, <2>2, PreflightLawful
    <2>4. UNCHANGED <<journal, register, edits>>
      BY <1>2 DEF ReadRoster, db
    <2> HIDE DEF plan, D
    <2>5. \A b \in Job : \A p : LET n == [b EXCEPT !.pc = "snapshot", !.plan = p] IN
            /\ n.pc = "snapshot" /\ n.plan = p /\ n.run = b.run
            /\ n.kind = b.kind /\ n.parent = b.parent
      BY DEF Job
    <2>6. job'[w] = [j EXCEPT !.pc = "snapshot", !.plan = plan]
      BY <1>t, <2>1 DEF TypeOK, plan
    <2>7. /\ job'[w].pc = "snapshot" /\ job'[w].plan = plan /\ job'[w].run = j.run
          /\ job'[w].kind = j.kind /\ job'[w].parent = j.parent
      BY <1>t, <2>5, <2>6
    <2>8. Lawful(job[w].kind, job[w].parent, job[w].plan)'
      BY <2>3, <2>4, <2>7 DEF Lawful, Mirrors
    <2>9. Sparing(job[w].kind, job[w].plan)'
      BY <2>2, <2>3, <2>4, <2>7 DEF Sparing
    <2>10. QED
      BY <2>2, <2>7, <2>8, <2>9 DEF PlanInv, PlanSteps, Observing
  <1>3. CASE WriteSnapshot(w) \/ CreateRun(w)
    <2>1. PICK pc \in {"create", "journal"} : Goto(w, pc)
      BY <1>3 DEF WriteSnapshot, CreateRun
    <2>2. /\ job'[w].pc = pc /\ job'[w].run = j.run
          /\ job'[w].kind = j.kind /\ job'[w].parent = j.parent
          /\ job'[w].noLeaders = j.noLeaders /\ job'[w].plan = j.plan
      BY <1>t, <2>1, GotoPlan DEF Steps
    <2>3. UNCHANGED <<journal, register, edits>>
      BY <1>3 DEF WriteSnapshot, CreateRun
    <2>4. /\ Lawful(j.kind, j.parent, j.plan) /\ Sparing(j.kind, j.plan)
          /\ IF j.kind = "undo" THEN j.parent \in Runs \ {j.run} ELSE j.parent = None
      BY <1>3 DEF WriteSnapshot, CreateRun, PlanInv, PlanSteps, Observing
    <2>5. Lawful(job[w].kind, job[w].parent, job[w].plan)'
      BY <2>2, <2>3, <2>4 DEF Lawful, Mirrors
    <2>6. Sparing(job[w].kind, job[w].plan)'
      BY <2>2, <2>3, <2>4 DEF Sparing
    <2>7. pc = "journal" => run'[j.run].kind = j.kind /\ run'[j.run].parent = j.parent
      <3>1. CASE WriteSnapshot(w)
        BY <1>t, <2>2, <3>1, GotoPlan DEF WriteSnapshot, Steps
      <3>2. CASE CreateRun(w)
        <4>1. j.run \in Runs
          BY <3>2 DEF CreateRun, Invariant, HasRun, Active
        <4>2. run'[j.run] = [state |-> "running", kind |-> j.kind, parent |-> j.parent]
          BY <1>t, <3>2, <4>1 DEF CreateRun, TypeOK
        <4>3. QED
          BY <4>2
      <3>3. QED
        BY <1>3, <3>1, <3>2
    <2>8. QED
      BY <2>2, <2>4, <2>5, <2>6, <2>7 DEF PlanInv, PlanSteps, Observing
  <1>4. CASE ~(BuildInverse(w) \/ ReadRoster(w) \/ WriteSnapshot(w) \/ CreateRun(w))
    <2>1. job'[w].pc \notin {"inverse", "read", "snapshot", "create", "journal"}
      <3>1. ASSUME NEW pc \in {"next", "post", "nack", "ack", "stop", "reconcile", "raised"},
                   Goto(w, pc)
            PROVE  job'[w].pc \notin {"inverse", "read", "snapshot", "create", "journal"}
        BY <1>t, <3>1, GotoPlan DEF Steps
      <3>2. ASSUME Exit(w)
            PROVE  job'[w].pc \notin {"inverse", "read", "snapshot", "create", "journal"}
        BY <1>t, <3>2, ExitFacts DEF Idle
      <3>3. CASE WriteJournal(w) \/ LoadJournal(w) \/ BeginChunk(w)
        <4>1. \A b \in Job : \A D, T, c :
                /\ [b EXCEPT !.pc = "next", !.plan = NoPlan, !.items = D, !.todo = D].pc = "next"
                /\ [b EXCEPT !.pc = "running", !.items = D, !.todo = D].pc = "running"
                /\ [b EXCEPT !.pc = "raised"].pc = "raised"
                /\ [b EXCEPT !.pc = "reread", !.chunk = c, !.todo = T].pc = "reread"
          BY DEF Job
        <4>2. CASE WriteJournal(w)
          <5>1. job'[w] = [j EXCEPT !.pc = "next", !.plan = NoPlan,
                                    !.items = Planned(j.plan), !.todo = Planned(j.plan)]
            BY <1>t, <4>2 DEF WriteJournal, TypeOK
          <5>2. QED
            BY <1>t, <4>1, <5>1
        <4>3. CASE LoadJournal(w)
          <5> DEFINE D == {m \in Rows(j.run) : journal[j.run][m].state # "done"}
          <5>1. \/ job' = [job EXCEPT ![w] = [j EXCEPT !.pc = "raised"]]
                \/ job' = [job EXCEPT ![w] = [j EXCEPT !.pc = "running", !.items = D, !.todo = D]]
            BY <4>3, Zenon DEF LoadJournal
          <5> HIDE DEF D
          <5>2. \/ job'[w] = [j EXCEPT !.pc = "raised"]
                \/ job'[w] = [j EXCEPT !.pc = "running", !.items = D, !.todo = D]
            BY <1>t, <5>1 DEF TypeOK
          <5>3. QED
            BY <1>t, <4>1, <5>2
        <4>4. CASE BeginChunk(w)
          <5>1. PICK c, T : job' = [job EXCEPT ![w] =
                                      [j EXCEPT !.pc = "reread", !.chunk = c, !.todo = T]]
            BY <4>4 DEF BeginChunk
          <5>2. job'[w] = [j EXCEPT !.pc = "reread", !.chunk = c, !.todo = T]
            BY <1>t, <5>1 DEF TypeOK
          <5>3. QED
            BY <1>t, <4>1, <5>2
        <4>5. QED
          BY <3>3, <4>2, <4>3, <4>4
      <3>4. \/ Exit(w)
            \/ \E pc \in {"next", "post", "nack", "ack", "stop", "reconcile", "raised"} : Goto(w, pc)
            \/ WriteJournal(w) \/ LoadJournal(w) \/ BeginChunk(w)
        BY <1>4 DEF Step, SetRunning, Reread, Post, MarkDone, MarkFailed,
             StopFailed, Finish, Reconcile, Raise, Raised
      <3>5. QED
        BY <3>1, <3>2, <3>3, <3>4
    <2>2. QED
      BY <2>1, PlanLess
  <1>5. QED
    BY <1>1, <1>2, <1>3, <1>4


-----------------------------------------------------------------------------
(* What the chunk loop has behind it stays where it was put. *)

LEMMA LandedLess ==
  ASSUME NEW w \in Drivers,
         job'[w].pc \notin {"running", "next", "reread", "post", "ack", "nack", "reconcile"}
  PROVE  LandedInv(w)'
  BY DEF LandedInv, Writing

LEMMA GotoLoop ==
  ASSUME TypeOK, NEW w \in Drivers, NEW pc \in Steps, Goto(w, pc)
  PROVE  /\ job'[w].pc = pc /\ job'[w].run = job[w].run /\ job'[w].chunk = job[w].chunk
         /\ job'[w].items = job[w].items /\ job'[w].todo = job[w].todo
  BY GotoFields

(* A member stands as well by a row that has only changed its state.       *)
LEMMA StandsKept ==
  ASSUME TypeOK, TypeOK', LogStep, NEW r \in Runs, NEW m \in Rows(r)
  PROVE  \A p : Stands(p, journal[r][m]) => Stands(p, journal'[r][m])
  BY DataKept DEF Stands

(* An update puts a member where its row says. *)
LEMMA UpdateLands ==
  ASSUME NEW p \in Placements, NEW row \in Row
  PROVE  Stands(Updated(p, row), row)
  BY DEF Stands, Updated, Placements, Row

LEMMA LandedKept ==
  ASSUME Invariant, TypeOK', NEW w \in Drivers, LandedInv(w), Step(w)
  PROVE  LandedInv(w)'
  <1> DEFINE j == job[w]
  <1>t. TypeOK /\ j \in Job
    BY DEF Invariant, TypeOK
  <1>l. LogStep
    BY StepIsLogged
  <1>e. edits' = edits
    BY LeadersKept
  <1>r. j.run \in Runs
    BY DEF Invariant, HasRun, Step, Active, BuildInverse, ReadRoster, WriteSnapshot, CreateRun,
           WriteJournal, LoadJournal, SetRunning, BeginChunk, Reread, Post, MarkDone, MarkFailed,
           StopFailed, Finish, Reconcile, Raise, Raised, Steps
  <1>c. PICK q \in Runs : q = j.run
    BY <1>r
  <1>d. Driven(w)
    BY DEF Invariant, JobsInv
  <1>1. CASE \/ BuildInverse(w) \/ ReadRoster(w) \/ WriteSnapshot(w) \/ CreateRun(w)
             \/ MarkFailed(w) \/ StopFailed(w) \/ Reconcile(w) \/ Raise(w) \/ Raised(w)
    <2>1. ASSUME NEW pc \in {"create", "journal", "stop", "raised"}, Goto(w, pc)
          PROVE  LandedInv(w)'
      BY <1>t, <2>1, GotoLoop, LandedLess DEF Steps
    <2>2. ASSUME Exit(w)
          PROVE  LandedInv(w)'
      BY <1>t, <2>2, ExitFacts, LandedLess DEF Idle
    <2>3. CASE BuildInverse(w)
      <3> DEFINE k == [j EXCEPT !.pc = "read", !.plan = InverseMoves(j.parent)]
                 e == [j EXCEPT !.pc = "raised"]
      <3>1. job' = [job EXCEPT ![w] = k] \/ job' = [job EXCEPT ![w] = e]
        BY <2>3 DEF BuildInverse
      <3>2. job'[w] = k \/ job'[w] = e
        BY <1>t, <3>1 DEF TypeOK
      <3>3. k.pc = "read" /\ e.pc = "raised"
        BY <1>t DEF Job
      <3>4. QED
        BY <3>2, <3>3, LandedLess
    <2>4. CASE ReadRoster(w)
      <3>1. PICK plan : job' = [job EXCEPT ![w] = [j EXCEPT !.pc = "snapshot", !.plan = plan]]
        BY <2>4 DEF ReadRoster
      <3>2. job'[w] = [j EXCEPT !.pc = "snapshot", !.plan = plan]
        BY <1>t, <3>1 DEF TypeOK
      <3>3. job'[w].pc = "snapshot"
        BY <1>t, <3>2 DEF Job
      <3>4. QED
        BY <3>3, LandedLess
    <2>5. QED
      BY <1>1, <2>1, <2>2, <2>3, <2>4
        DEF WriteSnapshot, CreateRun, MarkFailed, StopFailed, Reconcile, Raise, Raised
  <1>2. CASE WriteJournal(w) \/ LoadJournal(w)
    <2>1. \/ job'[w].pc = "raised"
          \/ job'[w].pc \in {"running", "next"} /\ job'[w].items = job'[w].todo
      <3>1. ASSUME NEW b \in Job, NEW D
            PROVE  LET k == [b EXCEPT !.pc = "next", !.plan = NoPlan, !.items = D, !.todo = D]
                       l == [b EXCEPT !.pc = "running", !.items = D, !.todo = D]
                       e == [b EXCEPT !.pc = "raised"]
                   IN  /\ k.pc = "next" /\ k.items = D /\ k.todo = D
                       /\ l.pc = "running" /\ l.items = D /\ l.todo = D
                       /\ e.pc = "raised"
        BY DEF Job
      <3>2. CASE WriteJournal(w)
        <4> DEFINE D == Planned(j.plan)
                   k == [j EXCEPT !.pc = "next", !.plan = NoPlan, !.items = D, !.todo = D]
        <4>1. job'[w] = k
          BY <1>t, <3>2 DEF WriteJournal, TypeOK
        <4> HIDE DEF D
        <4>2. k.pc = "next" /\ k.items = D /\ k.todo = D
          BY <1>t, <3>1
        <4> HIDE DEF k
        <4>3. QED
          BY <4>1, <4>2
      <3>3. CASE LoadJournal(w)
        <4> DEFINE D == {m \in Rows(j.run) : journal[j.run][m].state # "done"}
                   l == [j EXCEPT !.pc = "running", !.items = D, !.todo = D]
                   e == [j EXCEPT !.pc = "raised"]
        <4>1. job' = [job EXCEPT ![w] = e] \/ job' = [job EXCEPT ![w] = l]
          BY <3>3, Zenon DEF LoadJournal
        <4> HIDE DEF D
        <4>2. l.pc = "running" /\ l.items = D /\ l.todo = D /\ e.pc = "raised"
          BY <1>t, <3>1
        <4> HIDE DEF l, e
        <4>3. job'[w] = e \/ job'[w] = l
          BY <1>t, <4>1 DEF TypeOK
        <4>4. QED
          BY <4>2, <4>3
      <3>4. QED
        BY <1>2, <3>2, <3>3
    <2>2. QED
      BY <2>1 DEF LandedInv, Writing
  <1>3. CASE SetRunning(w) \/ Finish(w)
    <2>1. UNCHANGED <<register, journal>> /\ (Goto(w, "next") \/ Goto(w, "reconcile"))
      BY <1>3 DEF SetRunning, Finish
    <2>2. /\ job'[w].run = j.run /\ job'[w].items = j.items /\ job'[w].todo = j.todo
          /\ Finish(w) => job'[w].pc = "reconcile" /\ j.pc = "next" /\ j.todo = {}
          /\ SetRunning(w) => job'[w].pc = "next" /\ j.pc = "running"
      <3>1. Finish(w) => j.pc = "next" /\ j.todo = {} /\ Goto(w, "reconcile")
        BY DEF Finish
      <3>2. SetRunning(w) => j.pc = "running" /\ Goto(w, "next")
        BY DEF SetRunning
      <3>3. QED
        BY <1>3, <1>t, <3>1, <3>2, GotoLoop DEF Steps
    <2>3. j.items \subseteq Rows(j.run)
      BY <1>3, <1>d, <2>2 DEF Driven
    <2>4. SUFFICES ASSUME edits' = 0
                   PROVE  LandedInv(w)'
      BY DEF LandedInv
    <2>5. \A m \in j.items \ j.todo : Stands(register[m], journal[j.run][m])
      BY <1>3, <1>e, <2>2, <2>4 DEF LandedInv
    <2>6. Rows(job[w].run)' = Rows(j.run)
      BY <2>1, <2>2 DEF Rows
    <2>7. CASE SetRunning(w)
      BY <2>1, <2>2, <2>5, <2>7 DEF LandedInv, Writing, Stands
    <2>8. CASE Finish(w)
      <3>1. (job[w].items \subseteq Rows(job[w].run))'
        BY <2>2, <2>3, <2>6
      <3>2. \A m \in job'[w].items : Stands(register'[m], journal'[job'[w].run][m])
        BY <2>1, <2>2, <2>5, <2>8
      <3>3. QED
        BY <2>1, <2>2, <2>3, <2>5, <2>8, <3>1, <3>2 DEF LandedInv, Writing, Stands, Rows
    <2>9. QED
      BY <1>3, <2>7, <2>8
  <1>4. CASE BeginChunk(w)
    <2>1. PICK m0 \in j.todo :
            LET c == journal[j.run][m0].chunk IN
            /\ journal' = Marked(j.run, c, "in_flight")
            /\ job' = [job EXCEPT ![w] = [j EXCEPT !.pc = "reread", !.chunk = c,
                                !.todo = {x \in j.todo : journal[j.run][x].chunk # c}]]
      BY <1>4 DEF BeginChunk
    <2> DEFINE c == journal[j.run][m0].chunk
               T == {x \in j.todo : journal[j.run][x].chunk # c}
               r == j.run
    <2>2. job'[w] = [j EXCEPT !.pc = "reread", !.chunk = c, !.todo = T]
      BY <1>t, <2>1 DEF TypeOK
    <2>3. /\ journal' = Marked(r, c, "in_flight") /\ j.pc = "next" /\ register' = register
      BY <1>4, <2>1 DEF BeginChunk
    <2>a. ASSUME NEW x \in j.items, x \notin T, x \in Rows(r), x \notin ChunkRows(r, c)
          PROVE  x \notin j.todo
      BY <2>a DEF ChunkRows
    <2> HIDE DEF c, T, r
    <2>4. \A b \in Job : LET k == [b EXCEPT !.pc = "reread", !.chunk = c, !.todo = T] IN
            k.pc = "reread" /\ k.chunk = c /\ k.todo = T /\ k.items = b.items /\ k.run = b.run
      BY DEF Job
    <2>5. /\ job'[w].pc = "reread" /\ job'[w].chunk = c /\ job'[w].todo = T
          /\ job'[w].items = j.items /\ job'[w].run = r
      BY <1>t, <2>2, <2>4 DEF r
    <2>6. \A d : ChunkRows(q, d)' = ChunkRows(q, d)
      BY <1>t, <1>c, <2>3, MarkedFacts DEF RowStates, r
    <2>7. j.items \subseteq Rows(r)
      BY <1>d, <2>3 DEF Driven, r
    <2>8. ASSUME edits = 0, NEW x \in j.items, x \notin T, x \notin ChunkRows(r, c)
          PROVE  Stands(register'[x], journal'[r][x])
      <3>1. x \notin j.todo /\ x \in Rows(r)
        BY <2>a, <2>7, <2>8
      <3>2. Stands(register[x], journal[r][x])
        BY <2>3, <2>8, <3>1 DEF LandedInv, r
      <3>3. QED
        BY <1>t, <1>l, <1>r, <2>3, <3>1, <3>2, StandsKept DEF r
    <2>9. ChunkRows(job[w].run, job[w].chunk)' = ChunkRows(r, c)
      BY <1>c, <2>5, <2>6 DEF ChunkRows, Rows, r
    <2>10. QED
      BY <1>e, <2>5, <2>8, <2>9 DEF LandedInv, Writing
  <1>5. CASE Reread(w) \/ Post(w) \/ MarkDone(w)
    <2> DEFINE C == ChunkRows(j.run, j.chunk)
               r == j.run
    <2>1. /\ j.pc \in Writing /\ (MarkDone(w) => j.pc = "ack")
      BY <1>5 DEF Reread, Post, MarkDone, Writing
    <2>2. j.items \subseteq Rows(r) /\ C \subseteq j.items \ j.todo /\ Batch(w) = C
      BY <1>r, <2>1, ChunkFacts
    <2>3. /\ job'[w].run = r /\ job'[w].chunk = j.chunk
          /\ job'[w].items = j.items /\ job'[w].todo = j.todo
          /\ Reread(w) => job'[w].pc \in {"post", "nack"}
          /\ Post(w) => job'[w].pc \in {"ack", "nack"}
          /\ MarkDone(w) => job'[w].pc = "next"
      BY <1>5, <1>t, GotoLoop DEF Reread, Post, MarkDone, Steps
    <2>4. ChunkRows(job[w].run, job[w].chunk)' = C
      <3>1. CASE MarkDone(w)
        <4>1. \A d : ChunkRows(q, d)' = ChunkRows(q, d)
          BY <1>t, <1>c, <3>1, MarkedFacts DEF MarkDone, RowStates
        <4>2. QED
          BY <1>c, <2>3, <4>1 DEF ChunkRows, Rows
      <3>2. CASE journal' = journal
        BY <2>3, <3>2 DEF ChunkRows, Rows
      <3>3. QED
        BY <1>5, <3>1, <3>2 DEF Reread, Post, db
    <2>5. ASSUME edits = 0, NEW x \in j.items \ (j.todo \cup C)
          PROVE  Stands(register'[x], journal'[r][x])
      <3>1. Stands(register[x], journal[r][x])
        BY <2>1, <2>5 DEF LandedInv
      <3>2. register'[x] = register[x]
        <4>1. CASE Post(w)
          <5>1. PICK hit \in SUBSET Batch(w) :
                  register' = [m \in Members |-> IF m \in hit THEN Updated(register[m], journal[r][m])
                                                              ELSE register[m]]
            BY <4>1 DEF Post
          <5>2. x \notin hit /\ x \in Members
            BY <1>t, <2>2, <2>5 DEF Job
          <5>3. QED
            BY <5>1, <5>2
        <4>2. QED
          BY <1>5, <4>1 DEF Reread, MarkDone
      <3>3. x \in Rows(r)
        BY <2>2, <2>5
      <3>4. QED
        BY <1>t, <1>l, <1>r, <3>1, <3>2, <3>3, StandsKept
    <2>6. ASSUME edits = 0, Post(w), job'[w].pc = "ack", NEW x \in C
          PROVE  Stands(register'[x], journal'[r][x])
      <3>1. PICK hit \in SUBSET Batch(w) :
              /\ register' = [m \in Members |-> IF m \in hit THEN Updated(register[m], journal[r][m])
                                                             ELSE register[m]]
              /\ (hit = Batch(w) /\ Goto(w, "ack")) \/ Goto(w, "nack")
        BY <2>6 DEF Post
      <3>2. hit = C
        <4>1. ~Goto(w, "nack")
          BY <1>t, <2>6, GotoLoop DEF Steps
        <4>2. QED
          BY <2>2, <3>1, <4>1
      <3>3. x \in Members /\ register[x] \in Placements /\ journal[r][x] \in Row
        BY <1>t, <1>r, <2>6 DEF TypeOK, ChunkRows, Rows
      <3>4. register'[x] = Updated(register[x], journal[r][x])
        BY <2>6, <3>1, <3>2, <3>3
      <3>5. journal' = journal
        BY <2>6 DEF Post, db
      <3>6. QED
        BY <3>3, <3>4, <3>5, UpdateLands
    <2>7. ASSUME edits = 0, MarkDone(w), NEW x \in C
          PROVE  Stands(register'[x], journal'[r][x])
      <3>1. Stands(register[x], journal[r][x])
        BY <2>1, <2>7 DEF LandedInv
      <3>2. register' = register
        BY <2>7 DEF MarkDone
      <3>3. x \in Rows(r)
        BY <2>2, <2>7
      <3>4. QED
        BY <1>t, <1>l, <1>r, <3>1, <3>2, <3>3, StandsKept
    <2> HIDE DEF C, r
    <2>8. CASE MarkDone(w)
      BY <1>e, <2>3, <2>4, <2>5, <2>7, <2>8 DEF LandedInv, Writing
    <2>9. CASE Post(w) \/ Reread(w)
      BY <1>e, <2>3, <2>4, <2>5, <2>6, <2>9 DEF LandedInv, Writing
    <2>10. QED
      BY <1>5, <2>8, <2>9
  <1>6. QED
    BY <1>1, <1>2, <1>3, <1>4, <1>5 DEF Step


-----------------------------------------------------------------------------
(* Calls and the environment. *)

LEMMA RowsQuiet ==
  ASSUME RowsInv, UNCHANGED <<run, journal>>, edits' # 0 \/ UNCHANGED <<register, edits>>
  PROVE  RowsInv'
  BY DEF RowsInv, Lawful, Sparing, Mirrors, Exists

LEMMA JobQuiet ==
  ASSUME NEW v \in Drivers, PlanInv(v), LandedInv(v), job'[v] = job[v],
         UNCHANGED <<run, journal>>, edits' # 0 \/ UNCHANGED <<register, edits>>
  PROVE  PlanInv(v)' /\ LandedInv(v)'
  <1>1. Lawful(job[v].kind, job[v].parent, job[v].plan)
          => Lawful(job[v].kind, job[v].parent, job[v].plan)'
    BY DEF Lawful, Mirrors
  <1>2. Sparing(job[v].kind, job[v].plan) => Sparing(job[v].kind, job[v].plan)'
    BY DEF Sparing
  <1>3. PlanInv(v)'
    BY <1>1, <1>2 DEF PlanInv
  <1>4. LandedInv(v)'
    BY DEF LandedInv, Stands, Rows, ChunkRows
  <1>5. QED
    BY <1>3, <1>4

LEMMA NotBusy ==
  ASSUME NEW v \in Drivers, job'[v].pc \in {"idle", "load"}
  PROVE  PlanInv(v)' /\ LandedInv(v)'
  BY PlanLess, LandedLess

(* What a caller may ask for is lawful for the kind it names.              *)
LEMMA AskedLawful ==
  ASSUME NEW plan \in Plans, NEW kind \in {"uppflyttning", "stage2_verify"},
         Permitted(kind, plan), NEW parent
  PROVE  Lawful(kind, parent, plan)
  <1> SUFFICES ASSUME NEW m \in Members, plan[m].state # "absent"
               PROVE  /\ plan[m].target # None
                      /\ kind = "stage2_verify" => m \in Allowlist
    BY DEF Lawful, Kinds
  <1>1. plan[m] \in IntendedMoves
    BY DEF Plans, Absent
  <1>2. PICK s, q, t : t \in Troops /\ plan[m] = Intended(s, t, q)
    BY <1>1 DEF IntendedMoves
  <1>3. plan[m].target = t
    BY <1>2 DEF Intended, Absent
  <1>4. plan[m].target # None
    BY <1>2, <1>3, NoneIsNoId
  <1>5. kind = "stage2_verify" => m \in Allowlist
    BY DEF Permitted, Planned
  <1>6. QED
    BY <1>4, <1>5

LEMMA CallMoves ==
  ASSUME TypeOK, RowsInv, NEW w \in Drivers, Call(w)
  PROVE  RowsInv' /\ PlanInv(w)' /\ LandedInv(w)'
  <1>1. UNCHANGED <<run, journal, register, edits>>
    BY DEF Call, StartRun, StartResume, StartUndo, db
  <1>2. RowsInv'
    BY <1>1, RowsQuiet
  <1>3. ASSUME NEW r \in Runs, NEW k \in Kinds, NEW b \in BOOLEAN, NEW plan \in Plans,
               StartRun(w, r, k, b, plan)
        PROVE  PlanInv(w)' /\ LandedInv(w)'
    <2> DEFINE j == [Idle EXCEPT !.pc = "read", !.op = "run", !.run = r, !.kind = k,
                                 !.noLeaders = b, !.plan = plan]
    <2>1. job'[w] = j
      BY <1>3 DEF StartRun, TypeOK
    <2>2. /\ j.pc = "read" /\ j.kind = k /\ j.noLeaders = b /\ j.plan = plan
          /\ j.parent = None /\ j.run = r
      BY DEF Idle
    <2> HIDE DEF j
    <2>3. /\ k \in {"uppflyttning", "stage2_verify"} /\ Permitted(k, plan)
          /\ k = "uppflyttning" => b
      BY <1>3 DEF StartRun
    <2>4. Lawful(k, None, plan)
      BY <2>3, AskedLawful
    <2>5. Lawful(job[w].kind, job[w].parent, job[w].plan)'
      BY <1>1, <2>1, <2>2, <2>4 DEF Lawful, Mirrors
    <2>6. PlanInv(w)'
      BY <2>1, <2>2, <2>3, <2>5 DEF PlanInv, PlanSteps, Observing
    <2>7. LandedInv(w)'
      BY <2>1, <2>2, LandedLess
    <2>8. QED
      BY <2>6, <2>7
  <1>4. ASSUME NEW r \in Runs, StartResume(w, r)
        PROVE  PlanInv(w)' /\ LandedInv(w)'
    <2>1. job'[w] = [Idle EXCEPT !.pc = "load", !.op = "resume", !.run = r]
      BY <1>4 DEF StartResume, TypeOK
    <2>2. job'[w].pc = "load"
      BY <2>1 DEF Idle
    <2>3. QED
      BY <2>2, NotBusy
  <1>5. ASSUME NEW r \in Runs, NEW p \in Runs, StartUndo(w, r, p)
        PROVE  PlanInv(w)' /\ LandedInv(w)'
    <2> DEFINE j == [Idle EXCEPT !.pc = "inverse", !.op = "undo", !.run = r,
                                 !.kind = "undo", !.parent = p]
    <2>1. job'[w] = j
      BY <1>5 DEF StartUndo, TypeOK
    <2>2. j.pc = "inverse" /\ j.kind = "undo" /\ j.parent = p /\ j.run = r
      BY DEF Idle
    <2> HIDE DEF j
    <2>3. r # p
      BY <1>5 DEF StartUndo
    <2>4. PlanInv(w)'
      BY <2>1, <2>2, <2>3 DEF PlanInv, PlanSteps, Observing
    <2>5. LandedInv(w)'
      BY <2>1, <2>2, LandedLess
    <2>6. QED
      BY <2>4, <2>5
  <1>6. QED
    BY <1>2, <1>3, <1>4, <1>5 DEF Call

LEMMA EnvironmentMoves ==
  ASSUME Invariant, MovesInv, Environment
  PROVE  MovesInv'
  <1>t. TypeOK /\ RowsInv /\ \A v \in Drivers : PlanInv(v) /\ LandedInv(v)
    BY DEF Invariant, MovesInv
  <1>1. ASSUME NEW m \in Members, NEW p \in ForeignEdits, ExternalEdit(m, p)
        PROVE  MovesInv'
    <2>1. UNCHANGED <<run, journal, job>> /\ edits' # 0
      BY <1>t, <1>1, MaxEditsType DEF ExternalEdit, db, TypeOK
    <2>2. QED
      BY <1>t, <2>1, RowsQuiet, JobQuiet DEF MovesInv
  <1>2. ASSUME NEW r \in Runs, DeleteSnapshot(r)
        PROVE  MovesInv'
    <2>1. UNCHANGED <<run, journal, job, register, edits>>
      BY <1>2 DEF DeleteSnapshot
    <2>2. QED
      BY <1>t, <2>1, RowsQuiet, JobQuiet DEF MovesInv
  <1>3. ASSUME NEW w \in Drivers, Crash(w)
        PROVE  MovesInv'
    <2>1. UNCHANGED <<run, journal, register, edits>>
      BY <1>3 DEF Crash, db
    <2>2. job'[w] = Idle /\ \A v \in Drivers \ {w} : job'[v] = job[v]
      BY <1>t, <1>3, ExitFacts DEF Crash
    <2>3. PlanInv(w)' /\ LandedInv(w)'
      BY <2>2, NotBusy DEF Idle
    <2>4. \A v \in Drivers \ {w} : PlanInv(v)' /\ LandedInv(v)'
      BY <1>t, <2>1, <2>2, JobQuiet
    <2>5. QED
      BY <1>t, <2>1, <2>3, <2>4, RowsQuiet DEF MovesInv
  <1>4. QED
    BY <1>1, <1>2, <1>3 DEF Environment

-----------------------------------------------------------------------------
(* Induction. *)

LEMMA MovesInductive == Invariant /\ MovesInv /\ [Next]_vars => MovesInv'
  <1> SUFFICES ASSUME Invariant, MovesInv, [Next]_vars
               PROVE  MovesInv'
    OBVIOUS
  <1>i. TypeOK /\ HasRun /\ SerialCalls /\ RowsInv
    BY DEF Invariant, MovesInv
  <1>t. TypeOK'
    BY <1>i, TypesInductive
  <1>1. CASE Environment
    BY <1>1, EnvironmentMoves
  <1>2. ASSUME NEW w \in Drivers, Step(w)
        PROVE  MovesInv'
    <2>1. PlanInv(w) /\ LandedInv(w)
      BY DEF MovesInv
    <2>2. RowsInv' /\ PlanInv(w)' /\ LandedInv(w)'
      BY <1>i, <1>t, <1>2, <2>1, RowsKept, PlanKept, LandedKept
    <2>3. \A v \in Drivers \ {w} : job'[v].pc = "idle"
      <3>1. Stored(w)
        BY <1>i, <1>2, StepTypes
      <3>2. QED
        BY <1>i, <3>1 DEF Stored, SerialCalls, Active
    <2>4. \A v \in Drivers \ {w} : PlanInv(v)' /\ LandedInv(v)'
      BY <2>3, NotBusy
    <2>5. QED
      BY <2>2, <2>4 DEF MovesInv
  <1>3. ASSUME NEW w \in Drivers, SerialCall(w)
        PROVE  MovesInv'
    <2>1. RowsInv' /\ PlanInv(w)' /\ LandedInv(w)'
      BY <1>i, <1>3, CallMoves DEF SerialCall
    <2>2. \A v \in Drivers \ {w} : job'[v].pc = "idle"
      BY <1>i, <1>3, StartFacts DEF SerialCall, Active
    <2>3. \A v \in Drivers \ {w} : PlanInv(v)' /\ LandedInv(v)'
      BY <2>2, NotBusy
    <2>4. QED
      BY <2>1, <2>3 DEF MovesInv
  <1>4. CASE UNCHANGED vars
    <2>1. UNCHANGED <<run, journal, job, register, edits>>
      BY <1>4 DEF vars
    <2>2. QED
      BY <2>1, RowsQuiet, JobQuiet DEF MovesInv
  <1>5. QED
    BY <1>1, <1>2, <1>3, <1>4 DEF Next

LEMMA MovesInitial == Init => MovesInv
  <1> SUFFICES ASSUME Init PROVE MovesInv
    OBVIOUS
  <1>1. \A r \in Runs, m \in Members : journal[r][m].state = "absent"
    BY DEF Init, NoPlan, Absent
  <1>2. \A r \in Runs : run[r].kind = None /\ run[r].parent = None
    BY DEF Init, NoRun
  <1>3. RowsInv
    BY <1>1, <1>2 DEF RowsInv, Lawful, Sparing
  <1>4. \A w \in Drivers : job[w].pc = "idle"
    BY DEF Init, Idle
  <1>5. \A w \in Drivers : PlanInv(w) /\ LandedInv(w)
    BY <1>4 DEF PlanInv, LandedInv, PlanSteps, Observing, Writing
  <1>6. QED
    BY <1>3, <1>5 DEF MovesInv

-----------------------------------------------------------------------------
(* The theorems. *)

(* Every plan a job holds and every journaled row is lawful for the kind   *)
(* of its run, and what the chunk loop has behind it stands where its row  *)
(* says - in every reachable state (run, undo, resume, _drive).            *)
THEOREM MovesAreLawful == Spec => [](Invariant /\ MovesInv)
  <1>1. Init => Invariant /\ MovesInv
    BY Initial, MovesInitial
  <1>2. Invariant /\ MovesInv /\ [Next]_vars => (Invariant /\ MovesInv)'
    BY Inductive, MovesInductive
  <1>3. QED
    BY <1>1, <1>2, PTL DEF Spec

(* An undo's rows are its parent's done rows, backwards - also the rows of *)
(* an undo that was itself resumed, undone or cut short, and however the   *)
(* parent went on meanwhile (build_inverse_moves, resume).                 *)
THEOREM UndosMirrorTheirParents == Spec => []UndoMirrorsParent
  <1>1. MovesInv => UndoMirrorsParent
    <2> SUFFICES ASSUME MovesInv, NEW r \in Runs, run[r].kind = "undo", NEW m \in Rows(r)
                 PROVE  LET row == journal[r][m]  before == journal[run[r].parent][m] IN
                        before.state = "done" /\ row.source = before.target
                          /\ row.target = before.source
      BY DEF UndoMirrorsParent
    <2>1. m \in Members /\ journal[r][m].state # "absent"
      BY DEF Rows
    <2>2. Lawful(run[r].kind, run[r].parent, journal[r])
      BY DEF MovesInv, RowsInv
    <2>3. QED
      BY <2>1, <2>2 DEF Lawful, Mirrors
  <1>2. QED
    BY <1>1, MovesAreLawful, PTL

LEMMA AppliedWereRows ==
  ASSUME Invariant, NEW r \in Runs, NEW m \in applied[r]
  PROVE  m \in Members /\ journal[r][m].state # "absent"
  <1>1. m \in Members /\ journal[r][m].state \in Open
    BY DEF Invariant, TypeOK, LogInv, AppliedInv
  <1>2. QED
    BY <1>1 DEF Open

(* A verification changes nobody off the allowlist, neither when it runs,  *)
(* nor resumed, nor through an undo of it (assert_allowlist).              *)
THEOREM VerificationsStayOnTheAllowlist == Spec => []VerifyStaysOnAllowlist
  <1>1. Invariant /\ MovesInv => VerifyStaysOnAllowlist
    <2> SUFFICES ASSUME Invariant, MovesInv, NEW r \in Runs, NEW m \in applied[r], m \notin Allowlist
                 PROVE  \/ run[r].kind = "uppflyttning"
                        \/ run[r].kind = "undo" /\ m \in applied[run[r].parent]
      BY DEF VerifyStaysOnAllowlist
    <2>1. m \in Members /\ journal[r][m].state # "absent"
      BY AppliedWereRows
    <2>2. /\ run[r].kind \in Kinds /\ run[r].kind # "stage2_verify"
          /\ run[r].kind = "undo" => /\ run[r].parent \in Runs
                                     /\ journal[run[r].parent][m].state = "done"
      BY <2>1 DEF MovesInv, RowsInv, Lawful, Mirrors
    <2>3. DoneWasApplied
      BY DEF Invariant, LogInv
    <2>4. QED
      BY <2>1, <2>2, <2>3 DEF Kinds, DoneWasApplied
  <1>2. QED
    BY <1>1, MovesAreLawful, PTL

(* As long as nobody else edits the register, no uppflyttning moves a      *)
(* leader, fresh or resumed (drift_check with exclude_leaders).            *)
THEOREM UppflyttningarSpareLeaders == Spec => []UppflyttningSparesLeaders
  <1>1. Invariant /\ MovesInv => UppflyttningSparesLeaders
    <2> SUFFICES ASSUME Invariant, MovesInv, edits = 0, NEW r \in Runs,
                        run[r].kind = "uppflyttning", NEW m \in applied[r]
                 PROVE  ~register[m].leader
      BY DEF UppflyttningSparesLeaders
    <2>1. m \in Members /\ journal[r][m].state # "absent"
      BY AppliedWereRows
    <2>2. QED
      BY <2>1 DEF MovesInv, RowsInv, Sparing
  <1>2. QED
    BY <1>1, MovesAreLawful, PTL

(* As long as nobody else edits the register, every member a call drove    *)
(* stands at the target of its row when it reconciles (_drive).            *)
THEOREM DrivesLand == Spec => []DriveLands
  <1>1. MovesInv => DriveLands
    BY DEF MovesInv, LandedInv, DriveLands, Stands
  <1>2. QED
    BY <1>1, MovesAreLawful, PTL

(* As long as nobody else edits the register, an undo that has driven its  *)
(* rows has put each member back in the troop, and the patrol when there   *)
(* was one, that the parent found (build_inverse_moves, _payload_for).     *)
THEOREM UndosRestore == Spec => []UndoRestores
  <1>1. Invariant /\ MovesInv => UndoRestores
    <2> SUFFICES ASSUME Invariant, MovesInv, edits = 0, NEW w \in Drivers,
                        job[w].pc = "reconcile", run[job[w].run].kind = "undo",
                        NEW m \in job[w].items
                 PROVE  LET before == journal[run[job[w].run].parent][m] IN
                        /\ register[m].troop = before.source
                        /\ before.sourcePatrol # None => register[m].patrol = before.sourcePatrol
      BY DEF UndoRestores
    <2> DEFINE r == job[w].run
               before == journal[run[r].parent][m]
    <2>1. r \in Runs
      BY DEF Invariant, HasRun, Active
    <2>2. m \in Rows(r) /\ Stands(register[m], journal[r][m])
      BY DEF MovesInv, LandedInv
    <2>3. Mirrors(journal[r][m], before)
      BY <2>1, <2>2 DEF MovesInv, RowsInv, Lawful, Rows
    <2>4. QED
      BY <2>2, <2>3 DEF Stands, Mirrors
  <1>2. QED
    BY <1>1, MovesAreLawful, PTL
=============================================================================
