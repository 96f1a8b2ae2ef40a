------------------------ MODULE WriteExecutorProofs -------------------------
(***************************************************************************)
(* Theorems about the executor, for every roster, every set of drivers,    *)
(* every chunk size and every number of runs, edits and crashes.           *)
(***************************************************************************)
EXTENDS WriteExecutor, FiniteSetTheorems, TLAPS

-----------------------------------------------------------------------------
(* Types of the values the actions store. *)

LEMMA AbsentType == Absent \in Row
  BY DEF Absent, Row, RowStates

LEMMA NoPlanType == NoPlan \in [Members -> Row]
  BY AbsentType DEF NoPlan

LEMMA IdleType == Idle \in Job
  BY NoPlanType DEF Idle, Job, Steps, Kinds

LEMMA IntendedType ==
  ASSUME NEW s \in Troops \cup {None}, NEW t \in Troops \cup {None},
         NEW q \in Patrols \cup {None}
  PROVE  Intended(s, t, q) \in Row
  BY DEF Intended, Absent, Row, RowStates

LEMMA PlansType == ASSUME NEW plan \in Plans PROVE plan \in [Members -> Row]
  BY AbsentType, IntendedType DEF Plans, IntendedMoves

(* Marking a chunk changes states and nothing else. *)
LEMMA MarkedType ==
  ASSUME TypeOK, NEW r \in Runs, NEW c, NEW state \in RowStates
  PROVE  /\ Marked(r, c, state) \in [Runs -> [Members -> Row]]
         /\ \A q \in Runs \ {r} : Marked(r, c, state)[q] = journal[q]
         /\ \A m \in Members :
              /\ m \in ChunkRows(r, c) =>
                   Marked(r, c, state)[r][m] = Restated(journal[r][m], state)
              /\ m \notin ChunkRows(r, c) => Marked(r, c, state)[r][m] = journal[r][m]
  <1> DEFINE rows == [m \in Members |-> IF m \in ChunkRows(r, c)
                                        THEN Restated(journal[r][m], state)
                                        ELSE journal[r][m]]
  <1>1. ASSUME NEW m \in Members
        PROVE  Restated(journal[r][m], state) \in Row /\ journal[r][m] \in Row
    <2>1. journal[r][m] \in Row
      BY DEF TypeOK
    <2>2. ASSUME NEW row \in Row PROVE Restated(row, state) \in Row
      BY DEF Row, Restated
    <2>3. QED
      BY <2>1, <2>2
  <1>2. rows \in [Members -> Row]
    BY <1>1
  <1>3. Marked(r, c, state) = [journal EXCEPT ![r] = rows]
    BY DEF Marked, TypeOK
  <1>4. journal \in [Runs -> [Members -> Row]]
    BY DEF TypeOK
  <1> HIDE DEF rows
  <1>5. /\ Marked(r, c, state) \in [Runs -> [Members -> Row]]
        /\ Marked(r, c, state)[r] = rows
        /\ \A q \in Runs \ {r} : Marked(r, c, state)[q] = journal[q]
    BY <1>2, <1>3, <1>4
  <1>6. QED
    BY <1>5 DEF rows

LEMMA WithStateType ==
  ASSUME TypeOK, NEW r \in Runs, NEW state \in RunStates
  PROVE  WithState(r, state) \in [Runs -> RunRow]
  BY DEF TypeOK, WithState, RunRow, RunStates

LEMMA InverseType ==
  ASSUME TypeOK, NEW r \in Runs
  PROVE  InverseMoves(r) \in [Members -> Row]
  <1> SUFFICES ASSUME NEW m \in Members
               PROVE  InverseMoves(r)[m] \in Row
    BY DEF InverseMoves
  <1> DEFINE row == journal[r][m]
  <1>1. row \in Row
    BY DEF TypeOK
  <1>2. Intended(row.target, row.source, row.sourcePatrol) \in Row
    BY <1>1, IntendedType DEF Row
  <1>3. QED
    BY <1>2, AbsentType DEF InverseMoves

LEMMA ChunkingsType ==
  ASSUME NEW D \in SUBSET Members, NEW c \in Chunkings(D)
  PROVE  c \in [D -> Nat]
  <1>1. IsFiniteSet(D)
    BY FS_Subset, MembersFinite
  <1>2. Cardinality(D) \in Nat
    BY <1>1, FS_CardinalityType
  <1>3. c \in [D -> 0..Cardinality(D)]
    BY DEF Chunkings
  <1>4. QED
    BY <1>2, <1>3

LEMMA ObservedType ==
  ASSUME NEW move \in Row, NEW c \in Nat, NEW p \in Placements
  PROVE  Observed(move, c, p) \in Row /\ Observed(move, c, p).state = "pending"
  BY DEF Observed, Row, RowStates, Placements

LEMMA PreflightType ==
  ASSUME TypeOK, NEW plan \in [Members -> Row], NEW D \in SUBSET Members, NEW c \in [D -> Nat]
  PROVE  /\ Preflight(plan, D, c) \in [Members -> Row]
         /\ \A m \in Members : Preflight(plan, D, c)[m].state \in {"absent", "pending"}
  <1> SUFFICES ASSUME NEW m \in Members
               PROVE  /\ Preflight(plan, D, c)[m] \in Row
                      /\ Preflight(plan, D, c)[m].state \in {"absent", "pending"}
    BY DEF Preflight
  <1>1. CASE m \in D
    <2>1. register[m] \in Placements /\ plan[m] \in Row /\ c[m] \in Nat
      BY <1>1 DEF TypeOK
    <2>2. QED
      BY <1>1, <2>1, ObservedType DEF Preflight
  <1>2. CASE m \notin D
    BY <1>2, AbsentType DEF Preflight, Absent
  <1>3. QED
    BY <1>1, <1>2

LEMMA UpdatedType ==
  ASSUME NEW p \in Placements, NEW row \in Row
  PROVE  Updated(p, row) \in Placements
  BY DEF Updated, Placements, Row, Statuses

(* What a step of driver w leaves of its job and of the others.            *)
Stored(w) ==
  /\ Active(w)
  /\ \A v \in Drivers \ {w} : job'[v] = job[v]
  /\ \/ job'[w] = Idle
     \/ job'[w].run = job[w].run /\ job'[w].pc # "inverse"

(* Every action but those of the environment stores one new job.           *)
LEMMA JobStored ==
  ASSUME TypeOK, NEW w \in Drivers, NEW j \in Job, job' = [job EXCEPT ![w] = j]
  PROVE  /\ job' \in [Drivers -> Job]
         /\ job'[w] = j
         /\ \A v \in Drivers \ {w} : job'[v] = job[v]
         /\ Active(w) /\ j.run = job[w].run /\ j.pc # "inverse" => Stored(w)
  BY DEF TypeOK, Stored

LEMMA GotoFacts ==
  ASSUME TypeOK, NEW w \in Drivers, NEW pc \in Steps, Goto(w, pc)
  PROVE  /\ job' \in [Drivers -> Job]
         /\ job'[w] = [job[w] EXCEPT !.pc = pc]
         /\ \A v \in Drivers \ {w} : job'[v] = job[v]
         /\ Active(w) /\ pc # "inverse" => Stored(w)
  <1>1. job[w] \in Job
    BY DEF TypeOK
  <1>2. \A j \in Job : LET k == [j EXCEPT !.pc = pc] IN
          k \in Job /\ k.run = j.run /\ k.pc = pc
    BY DEF Job
  <1>3. job' = [job EXCEPT ![w] = [job[w] EXCEPT !.pc = pc]]
    BY DEF Goto
  <1>4. QED
    BY <1>1, <1>2, <1>3, JobStored

LEMMA ExitFacts ==
  ASSUME TypeOK, NEW w \in Drivers, Exit(w)
  PROVE  /\ job' \in [Drivers -> Job]
         /\ job'[w] = Idle
         /\ \A v \in Drivers \ {w} : job'[v] = job[v]
         /\ Active(w) => Stored(w)
  BY IdleType, JobStored DEF Exit, Stored

-----------------------------------------------------------------------------
(* Every action keeps the types. *)

LEMMA StartTypes ==
  ASSUME TypeOK, NEW w \in Drivers, Call(w)
  PROVE  TypeOK'
  <1>1. ASSUME NEW r \in Runs, NEW k \in Kinds, NEW b \in BOOLEAN, NEW plan \in Plans,
               StartRun(w, r, k, b, plan)
        PROVE  TypeOK'
    <2> DEFINE j == [Idle EXCEPT !.pc = "read", !.op = "run", !.run = r, !.kind = k,
                                 !.noLeaders = b, !.plan = plan]
    <2>1. plan \in [Members -> Row]
      BY PlansType
    <2>2. j \in Job
      BY <2>1, IdleType DEF Job, Steps
    <2>3. job' \in [Drivers -> Job]
      BY <1>1, <2>2, JobStored DEF StartRun
    <2>4. QED
      BY <1>1, <2>3 DEF TypeOK, StartRun, db
  <1>2. ASSUME NEW r \in Runs, StartResume(w, r)
        PROVE  TypeOK'
    <2>1. [Idle EXCEPT !.pc = "load", !.op = "resume", !.run = r] \in Job
      BY IdleType DEF Job, Steps
    <2>2. job' \in [Drivers -> Job]
      BY <1>2, <2>1, JobStored DEF StartResume
    <2>3. QED
      BY <1>2, <2>2 DEF TypeOK, StartResume, db
  <1>3. ASSUME NEW r \in Runs, NEW p \in Runs, StartUndo(w, r, p)
        PROVE  TypeOK'
    <2>1. [Idle EXCEPT !.pc = "inverse", !.op = "undo", !.run = r,
                       !.kind = "undo", !.parent = p] \in Job
      BY IdleType DEF Job, Steps, Kinds
    <2>2. job' \in [Drivers -> Job]
      BY <1>3, <2>1, JobStored DEF StartUndo
    <2>3. QED
      BY <1>3, <2>2 DEF TypeOK, StartUndo, db
  <1>4. QED
    BY <1>1, <1>2, <1>3 DEF Call

LEMMA StepTypes ==
  ASSUME TypeOK, HasRun, NEW w \in Drivers, Step(w)
  PROVE  TypeOK' /\ Stored(w)
  <1> DEFINE j == job[w]
  <1>j. j \in Job
    BY DEF TypeOK
  <1>1. CASE BuildInverse(w)
    <2> DEFINE k == [j EXCEPT !.pc = "read", !.plan = InverseMoves(j.parent)]
               e == [j EXCEPT !.pc = "raised"]
    <2>1. InverseMoves(j.parent) \in [Members -> Row]
      BY <1>1, InverseType DEF BuildInverse, HasRun
    <2>2. k \in Job /\ k.run = j.run /\ k.pc # "inverse"
      BY <1>j, <2>1, NoPlanType DEF Job, Steps
    <2>3. e \in Job /\ e.run = j.run /\ e.pc # "inverse"
      BY <1>j, NoPlanType DEF Job, Steps
    <2>4. job' = [job EXCEPT ![w] = k] \/ job' = [job EXCEPT ![w] = e]
      BY <1>1 DEF BuildInverse
    <2>5. Active(w)
      BY <1>1 DEF BuildInverse, Active
    <2> HIDE DEF k, e
    <2>6. job' \in [Drivers -> Job] /\ Stored(w)
      BY <2>2, <2>3, <2>4, <2>5, JobStored
    <2>7. QED
      BY <1>1, <2>6 DEF BuildInverse, TypeOK, db
  <1>2. CASE ReadRoster(w)
    <2> DEFINE D == {m \in Members : /\ j.plan[m].state = "intended"
                                     /\ WillApply(j.plan[m], register[m], j.noLeaders)}
    <2>1. PICK c \in Chunkings(D) :
            job' = [job EXCEPT ![w] = [j EXCEPT !.pc = "snapshot", !.plan = Preflight(j.plan, D, c)]]
      BY <1>2 DEF ReadRoster
    <2>2. c \in [D -> Nat]
      BY ChunkingsType
    <2> DEFINE k == [j EXCEPT !.pc = "snapshot", !.plan = Preflight(j.plan, D, c)]
    <2>3. Preflight(j.plan, D, c) \in [Members -> Row]
      BY <1>j, <2>2, PreflightType DEF Job
    <2>4. k \in Job /\ k.run = j.run /\ k.pc # "inverse"
      BY <1>j, <2>3, NoPlanType DEF Job, Steps
    <2>5. Active(w)
      BY <1>2 DEF ReadRoster, Active
    <2> HIDE DEF D, k
    <2>6. job' \in [Drivers -> Job] /\ Stored(w)
      BY <2>1, <2>4, <2>5, JobStored DEF k
    <2>7. QED
      BY <1>2, <2>6 DEF ReadRoster, TypeOK, db
  <1>3. CASE WriteSnapshot(w)
    <2>1. Active(w)
      BY <1>3 DEF WriteSnapshot, Active
    <2>2. job' \in [Drivers -> Job] /\ Stored(w)
      BY <1>3, <2>1, GotoFacts DEF WriteSnapshot, Steps
    <2>3. QED
      BY <1>3, <2>2 DEF WriteSnapshot, TypeOK, db
  <1>4. CASE CreateRun(w)
    <2>1. [state |-> "running", kind |-> j.kind, parent |-> j.parent] \in RunRow
      BY <1>j DEF Job, RunRow, RunStates
    <2>2. run' \in [Runs -> RunRow]
      BY <1>4, <2>1 DEF CreateRun, TypeOK
    <2>7. Active(w)
      BY <1>4 DEF CreateRun, Active
    <2>8. job' \in [Drivers -> Job] /\ Stored(w)
      BY <1>4, <2>7, GotoFacts DEF CreateRun, Steps
    <2>9. QED
      BY <1>4, <2>2, <2>8 DEF CreateRun, TypeOK
  <1>5. CASE WriteJournal(w)
    <2> DEFINE D == Planned(j.plan)
               k == [j EXCEPT !.pc = "next", !.plan = NoPlan, !.items = D, !.todo = D]
    <2>1. D \in SUBSET Members
      BY DEF Planned
    <2> HIDE DEF D
    <2>2. k \in Job /\ k.run = j.run /\ k.pc # "inverse"
      BY <1>j, <2>1, NoPlanType DEF Job, Steps
    <2>3. job' = [job EXCEPT ![w] = k]
      BY <1>5 DEF WriteJournal, D
    <2>4. journal' \in [Runs -> [Members -> Row]]
      BY <1>5, <1>j DEF WriteJournal, TypeOK, Job
    <2>5. Active(w)
      BY <1>5 DEF WriteJournal, Active
    <2> HIDE DEF k
    <2>6. job' \in [Drivers -> Job] /\ Stored(w)
      BY <2>2, <2>3, <2>5, JobStored
    <2>7. QED
      BY <1>5, <2>4, <2>6 DEF WriteJournal, TypeOK
  <1>6. CASE LoadJournal(w)
    <2> DEFINE D == {m \in Rows(j.run) : journal[j.run][m].state # "done"}
               k == [j EXCEPT !.pc = "running", !.items = D, !.todo = D]
               e == [j EXCEPT !.pc = "raised"]
    <2>1. D \in SUBSET Members
      BY DEF Rows
    <2>2. job' = [job EXCEPT ![w] = k] \/ job' = [job EXCEPT ![w] = e]
      BY <1>6, Zenon DEF LoadJournal
    <2> HIDE DEF D
    <2>3. k \in Job /\ k.run = j.run /\ k.pc # "inverse"
      BY <1>j, <2>1, NoPlanType DEF Job, Steps
    <2>4. e \in Job /\ e.run = j.run /\ e.pc # "inverse"
      BY <1>j, NoPlanType DEF Job, Steps
    <2>5. Active(w)
      BY <1>6 DEF LoadJournal, Active
    <2> HIDE DEF k, e
    <2>6. job' \in [Drivers -> Job] /\ Stored(w)
      BY <2>2, <2>3, <2>4, <2>5, JobStored
    <2>7. QED
      BY <1>6, <2>6 DEF LoadJournal, TypeOK, db
  <1>7. CASE SetRunning(w)
    <2>1. run' \in [Runs -> RunRow]
      BY <1>7, WithStateType DEF SetRunning, RunStates, Active, HasRun
    <2>7. Active(w)
      BY <1>7 DEF SetRunning, Active
    <2>8. job' \in [Drivers -> Job] /\ Stored(w)
      BY <1>7, <2>7, GotoFacts DEF SetRunning, Steps
    <2>9. QED
      BY <1>7, <2>1, <2>8 DEF SetRunning, TypeOK
  <1>8. CASE BeginChunk(w)
    <2>1. PICK m \in j.todo :
            LET c == journal[j.run][m].chunk IN
            /\ journal' = Marked(j.run, c, "in_flight")
            /\ job' = [job EXCEPT ![w] = [j EXCEPT !.pc = "reread", !.chunk = c,
                                !.todo = {x \in j.todo : journal[j.run][x].chunk # c}]]
      BY <1>8 DEF BeginChunk
    <2> DEFINE c == journal[j.run][m].chunk
               T == {x \in j.todo : journal[j.run][x].chunk # c}
               k == [j EXCEPT !.pc = "reread", !.chunk = c, !.todo = T]
    <2>2. j.run \in Runs
      BY <1>8 DEF BeginChunk, HasRun, Active
    <2>3. m \in Members /\ T \in SUBSET Members
      BY <1>j DEF Job
    <2>4. c \in Nat
      BY <2>2, <2>3 DEF TypeOK, Row
    <2>5. journal' \in [Runs -> [Members -> Row]]
      BY <2>1, <2>2, MarkedType DEF RowStates
    <2>6. job' = [job EXCEPT ![w] = k]
      BY <2>1
    <2>7. Active(w)
      BY <1>8 DEF BeginChunk, Active
    <2> HIDE DEF c, T
    <2>8. k \in Job /\ k.run = j.run /\ k.pc # "inverse"
      BY <1>j, <2>3, <2>4, NoPlanType DEF Job, Steps
    <2> HIDE DEF k
    <2>9. job' \in [Drivers -> Job] /\ Stored(w)
      BY <2>6, <2>7, <2>8, JobStored
    <2>10. QED
      BY <1>8, <2>5, <2>9 DEF BeginChunk, TypeOK
  <1>9. CASE Reread(w)
    <2>1. Active(w)
      BY <1>9 DEF Reread, Active
    <2>2. job' \in [Drivers -> Job] /\ Stored(w)
      BY <1>9, <2>1, GotoFacts DEF Reread, Steps
    <2>3. QED
      BY <1>9, <2>2 DEF Reread, TypeOK, db
  <1>10. CASE Post(w)
    <2>1. PICK hit \in SUBSET Batch(w) :
            /\ register' = [m \in Members |-> IF m \in hit THEN Updated(register[m], journal[j.run][m])
                                                           ELSE register[m]]
            /\ applied' = [applied EXCEPT ![j.run] = @ \cup hit]
            /\ Goto(w, "ack") \/ Goto(w, "nack")
      BY <1>10 DEF Post
    <2>2. j.run \in Runs /\ Active(w)
      BY <1>10 DEF Post, HasRun, Active
    <2>3. register' \in [Members -> Placements]
      <3> SUFFICES ASSUME NEW m \in Members
                   PROVE  /\ Updated(register[m], journal[j.run][m]) \in Placements
                          /\ register[m] \in Placements
        BY <2>1
      <3>1. journal[j.run][m] \in Row /\ register[m] \in Placements
        BY <2>2 DEF TypeOK
      <3>2. QED
        BY <3>1, UpdatedType
    <2>4. hit \subseteq Members
      BY <1>j DEF Batch, Job
    <2>5. applied' \in [Runs -> SUBSET Members]
      BY <2>1, <2>2, <2>4 DEF TypeOK
    <2>6. job' \in [Drivers -> Job] /\ Stored(w)
      BY <2>1, <2>2, GotoFacts DEF Steps
    <2>7. QED
      BY <1>10, <2>3, <2>5, <2>6 DEF Post, TypeOK, db
  <1>11. CASE MarkDone(w)
    <2>1. journal' \in [Runs -> [Members -> Row]]
      BY <1>11, <1>j, MarkedType DEF MarkDone, RowStates, Active, HasRun
    <2>7. Active(w)
      BY <1>11 DEF MarkDone, Active
    <2>8. job' \in [Drivers -> Job] /\ Stored(w)
      BY <1>11, <2>7, GotoFacts DEF MarkDone, Steps
    <2>9. QED
      BY <1>11, <2>1, <2>8 DEF MarkDone, TypeOK
  <1>12. CASE MarkFailed(w)
    <2>1. journal' \in [Runs -> [Members -> Row]]
      BY <1>12, <1>j, MarkedType DEF MarkFailed, RowStates, Active, HasRun
    <2>7. Active(w)
      BY <1>12 DEF MarkFailed, Active
    <2>8. job' \in [Drivers -> Job] /\ Stored(w)
      BY <1>12, <2>7, GotoFacts DEF MarkFailed, Steps
    <2>9. QED
      BY <1>12, <2>1, <2>8 DEF MarkFailed, TypeOK
  <1>13. CASE StopFailed(w)
    <2>1. run' \in [Runs -> RunRow]
      BY <1>13, WithStateType DEF StopFailed, RunStates, Active, HasRun
    <2>7. Active(w)
      BY <1>13 DEF StopFailed, Active
    <2>8. job' \in [Drivers -> Job] /\ Stored(w)
      BY <1>13, <2>7, ExitFacts DEF StopFailed
    <2>9. QED
      BY <1>13, <2>1, <2>8 DEF StopFailed, TypeOK
  <1>14. CASE Finish(w)
    <2>1. run' \in [Runs -> RunRow]
      BY <1>14, WithStateType DEF Finish, RunStates, Active, HasRun
    <2>7. Active(w)
      BY <1>14 DEF Finish, Active
    <2>8. job' \in [Drivers -> Job] /\ Stored(w)
      BY <1>14, <2>7, GotoFacts DEF Finish, Steps
    <2>9. QED
      BY <1>14, <2>1, <2>8 DEF Finish, TypeOK
  <1>15. CASE Reconcile(w)
    <2>1. Active(w)
      BY <1>15 DEF Reconcile, Active
    <2>2. job' \in [Drivers -> Job] /\ Stored(w)
      BY <1>15, <2>1, ExitFacts DEF Reconcile
    <2>3. QED
      BY <1>15, <2>2 DEF Reconcile, TypeOK, db
  <1>16. CASE Raise(w)
    <2>1. Active(w)
      BY <1>16 DEF Raise, Active, Steps
    <2>2. job' \in [Drivers -> Job] /\ Stored(w)
      BY <1>16, <2>1, GotoFacts DEF Raise, Steps
    <2>3. QED
      BY <1>16, <2>2 DEF Raise, TypeOK, db
  <1>17. CASE Raised(w)
    <2>1. j.run \in Runs
      BY <1>17 DEF Raised, HasRun, Active
    <2>2. run' \in [Runs -> RunRow]
      <3> DEFINE new == IF run[j.run].state = "none" THEN [NoRun EXCEPT !.state = "failed", !.kind = j.kind]
                                                    ELSE [run[j.run] EXCEPT !.state = "failed"]
      <3>1. new \in RunRow
        <4>1. run[j.run] \in RunRow
          BY <2>1 DEF TypeOK
        <4>2. \A row \in RunRow : [row EXCEPT !.state = "failed"] \in RunRow
          BY DEF RunRow, RunStates
        <4>3. [NoRun EXCEPT !.state = "failed", !.kind = j.kind] \in RunRow
          BY <1>j DEF Job, RunRow, RunStates, NoRun
        <4>4. QED
          BY <4>1, <4>2, <4>3
      <3>2. run' = [run EXCEPT ![j.run] = new] \/ run' = run
        BY <1>17 DEF Raised
      <3> HIDE DEF new
      <3>3. QED
        BY <3>1, <3>2 DEF TypeOK
    <2>7. Active(w)
      BY <1>17 DEF Raised, Active
    <2>8. job' \in [Drivers -> Job] /\ Stored(w)
      BY <1>17, <2>7, ExitFacts DEF Raised
    <2>9. QED
      BY <1>17, <2>2, <2>8 DEF Raised, TypeOK
  <1>18. QED
    BY <1>1, <1>2, <1>3, <1>4, <1>5, <1>6, <1>7, <1>8, <1>9, <1>10, <1>11, <1>12, <1>13, <1>14, <1>15, <1>16, <1>17 DEF Step

LEMMA HasRunStep ==
  ASSUME TypeOK, HasRun, NEW w \in Drivers, Stored(w)
  PROVE  HasRun'
  BY DEF HasRun, Stored, Active, Idle

LEMMA StartFacts ==
  ASSUME TypeOK, HasRun, NEW w \in Drivers, Call(w)
  PROVE  HasRun' /\ \A v \in Drivers \ {w} : job'[v] = job[v]
  <1> DEFINE Result == HasRun' /\ \A v \in Drivers \ {w} : job'[v] = job[v]
  <1>1. ASSUME NEW r \in Runs, NEW k \in Kinds, NEW b \in BOOLEAN, NEW plan \in Plans,
               StartRun(w, r, k, b, plan)
        PROVE  Result
    <2> DEFINE j == [Idle EXCEPT !.pc = "read", !.op = "run", !.run = r, !.kind = k,
                                 !.noLeaders = b, !.plan = plan]
    <2>1. job' = [job EXCEPT ![w] = j]
      BY <1>1 DEF StartRun
    <2>2. j.run \in Runs /\ (j.pc = "inverse" => j.parent \in Runs)
      BY DEF Idle
    <2> HIDE DEF j
    <2>3. QED
      BY <2>1, <2>2 DEF TypeOK, HasRun, Active
  <1>2. ASSUME NEW r \in Runs, StartResume(w, r)
        PROVE  Result
    <2> DEFINE j == [Idle EXCEPT !.pc = "load", !.op = "resume", !.run = r]
    <2>1. job' = [job EXCEPT ![w] = j]
      BY <1>2 DEF StartResume
    <2>2. j.run \in Runs /\ (j.pc = "inverse" => j.parent \in Runs)
      BY DEF Idle
    <2> HIDE DEF j
    <2>3. QED
      BY <2>1, <2>2 DEF TypeOK, HasRun, Active
  <1>3. ASSUME NEW r \in Runs, NEW p \in Runs, StartUndo(w, r, p)
        PROVE  Result
    <2> DEFINE j == [Idle EXCEPT !.pc = "inverse", !.op = "undo", !.run = r,
                                 !.kind = "undo", !.parent = p]
    <2>1. job' = [job EXCEPT ![w] = j]
      BY <1>3 DEF StartUndo
    <2>2. j.run \in Runs /\ (j.pc = "inverse" => j.parent \in Runs)
      BY DEF Idle
    <2> HIDE DEF j
    <2>3. QED
      BY <2>1, <2>2 DEF TypeOK, HasRun, Active
  <1>4. QED
    BY <1>1, <1>2, <1>3 DEF Call

LEMMA EnvironmentTypes ==
  ASSUME TypeOK, HasRun, Environment
  PROVE  TypeOK' /\ HasRun'
  <1>1. ASSUME NEW m \in Members, NEW p \in ForeignEdits, ExternalEdit(m, p)
        PROVE  TypeOK' /\ HasRun'
    BY <1>1, MaxEditsType, EditsType DEF ExternalEdit, TypeOK, HasRun, Active, db
  <1>2. ASSUME NEW r \in Runs, DeleteSnapshot(r)
        PROVE  TypeOK' /\ HasRun'
    BY <1>2 DEF DeleteSnapshot, TypeOK, HasRun, Active
  <1>3. ASSUME NEW w \in Drivers, Crash(w)
        PROVE  TypeOK' /\ HasRun'
    <2>1. job' \in [Drivers -> Job] /\ Stored(w)
      BY <1>3, ExitFacts DEF Crash
    <2>2. TypeOK'
      BY <1>3, <2>1 DEF Crash, TypeOK, db
    <2>3. QED
      BY <2>1, <2>2, HasRunStep
  <1>4. QED
    BY <1>1, <1>2, <1>3 DEF Environment

LEMMA TypesInductive == TypeOK /\ HasRun /\ [Next]_vars => TypeOK' /\ HasRun'
  <1> SUFFICES ASSUME TypeOK, HasRun, [Next]_vars
               PROVE  TypeOK' /\ HasRun'
    OBVIOUS
  <1>1. CASE Environment
    BY <1>1, EnvironmentTypes
  <1>2. ASSUME NEW w \in Drivers, Step(w)
        PROVE  TypeOK' /\ HasRun'
    BY <1>2, StepTypes, HasRunStep
  <1>3. ASSUME NEW w \in Drivers, SerialCall(w)
        PROVE  TypeOK' /\ HasRun'
    BY <1>3, StartTypes, StartFacts DEF SerialCall
  <1>4. CASE UNCHANGED vars
    BY <1>4 DEF vars, TypeOK, HasRun, Active
  <1>5. QED
    BY <1>1, <1>2, <1>3, <1>4 DEF Next

LEMMA TypesInitial == Init => TypeOK /\ HasRun
  <1> SUFFICES ASSUME Init PROVE TypeOK /\ HasRun
    OBVIOUS
  <1>1. NoRun \in RunRow
    BY DEF NoRun, RunRow, RunStates
  <1>2. QED
    BY <1>1, InitialType, MaxEditsType, NoPlanType, IdleType
       DEF Init, TypeOK, HasRun, Active, Idle

(* Every variable keeps its type, and every job has an id to work on and   *)
(* every undo a run to reverse.                                            *)
THEOREM TypeCorrect == Spec => [](TypeOK /\ HasRun)
  BY TypesInitial, TypesInductive, PTL DEF Spec

-----------------------------------------------------------------------------
(* One call at a time. *)

LEMMA SerialInductive ==
  TypeOK /\ HasRun /\ SerialCalls /\ [Next]_vars => SerialCalls'
  <1> SUFFICES ASSUME TypeOK, HasRun, SerialCalls, [Next]_vars
               PROVE  SerialCalls'
    OBVIOUS
  <1>1. CASE Environment
    <2>1. CASE UNCHANGED job
      BY <2>1 DEF SerialCalls, Active
    <2>2. ASSUME NEW w \in Drivers, Crash(w)
          PROVE  SerialCalls'
      BY <2>2, ExitFacts DEF Crash, SerialCalls, Active, Idle
    <2>3. QED
      BY <1>1, <2>1, <2>2 DEF Environment, ExternalEdit, DeleteSnapshot
  <1>2. ASSUME NEW w \in Drivers, Step(w)
        PROVE  SerialCalls'
    <2>1. Stored(w)
      BY <1>2, StepTypes
    <2>2. QED
      BY <2>1 DEF Stored, SerialCalls, Active
  <1>3. ASSUME NEW w \in Drivers, SerialCall(w)
        PROVE  SerialCalls'
    BY <1>3, StartFacts DEF SerialCall, SerialCalls, Active
  <1>4. CASE UNCHANGED vars
    BY <1>4 DEF vars, SerialCalls, Active
  <1>5. QED
    BY <1>1, <1>2, <1>3, <1>4 DEF Next

LEMMA SerialInitial == Init => SerialCalls
  BY DEF Init, SerialCalls, Active, Idle

-----------------------------------------------------------------------------
(* The journal: what marking a chunk does to it.                           *)

LEMMA GotoFields ==
  ASSUME TypeOK, NEW w \in Drivers, NEW pc \in Steps, Goto(w, pc)
  PROVE  /\ job'[w].pc = pc
         /\ job'[w].run = job[w].run /\ job'[w].plan = job[w].plan
         /\ job'[w].items = job[w].items /\ job'[w].todo = job[w].todo
         /\ job'[w].chunk = job[w].chunk
  <1>1. job[w] \in Job
    BY DEF TypeOK
  <1>2. \A j \in Job : LET k == [j EXCEPT !.pc = pc] IN
          /\ k.pc = pc /\ k.run = j.run /\ k.plan = j.plan
          /\ k.items = j.items /\ k.todo = j.todo /\ k.chunk = j.chunk
    BY DEF Job
  <1>3. QED
    BY <1>1, <1>2, GotoFacts

LEMMA MarkedFacts ==
  ASSUME TypeOK, NEW r \in Runs, NEW c, NEW state \in RowStates \ {"absent"},
         journal' = Marked(r, c, state)
  PROVE  /\ \A q \in Runs \ {r} : journal'[q] = journal[q]
         /\ \A m \in ChunkRows(r, c) : journal'[r][m].state = state
         /\ \A m \in Members \ ChunkRows(r, c) : journal'[r][m] = journal[r][m]
         /\ \A m \in Members : journal'[r][m].chunk = journal[r][m].chunk
         /\ \A q \in Runs : Rows(q)' = Rows(q)
         /\ \A d : ChunkRows(r, d)' = ChunkRows(r, d)
  <1>1. \A m \in Members : journal[r][m] \in Row
    BY DEF TypeOK
  <1>2. \A row \in Row : /\ Restated(row, state).state = state
                         /\ Restated(row, state).chunk = row.chunk
    BY DEF Row, Restated
  <1>3. ChunkRows(r, c) \subseteq Rows(r) /\ Rows(r) \subseteq Members
    BY DEF ChunkRows, Rows
  <1>4. \A q \in Runs \ {r} : journal'[q] = journal[q]
    BY MarkedType
  <1>5. \A m \in ChunkRows(r, c) : /\ journal'[r][m].state = state
                                   /\ journal'[r][m].chunk = journal[r][m].chunk
    BY <1>1, <1>2, <1>3, MarkedType
  <1>6. \A m \in Members \ ChunkRows(r, c) : journal'[r][m] = journal[r][m]
    BY MarkedType
  <1>7. \A m \in Members : journal'[r][m].chunk = journal[r][m].chunk
    BY <1>5, <1>6
  <1>8. \A q \in Runs : Rows(q)' = Rows(q)
    <2>1. Rows(r)' = Rows(r)
      BY <1>3, <1>5, <1>6 DEF Rows
    <2>2. QED
      BY <1>4, <2>1 DEF Rows
  <1>9. \A d : ChunkRows(r, d)' = ChunkRows(r, d)
    BY <1>3, <1>7, <1>8 DEF ChunkRows
  <1>10. QED
    BY <1>4, <1>5, <1>6, <1>7, <1>8, <1>9

(* A chunk that is not done may be marked once all before it are done.     *)
LEMMA MarkedLog ==
  ASSUME TypeOK, LogInv, NEW r \in Runs, NEW c, NEW state \in Open,
         journal' = Marked(r, c, state), UNCHANGED <<run, snap, applied>>,
         run[r].state # "done",
         \A m \in ChunkRows(r, c) : journal[r][m].state # "done",
         \A m \in Rows(r), n \in ChunkRows(r, c) :
           journal[r][m].chunk < journal[r][n].chunk => journal[r][m].state = "done",
         state = "done" => ChunkRows(r, c) \subseteq applied[r]
  PROVE  LogInv'
  <1>s. state \in RowStates \ {"absent"}
    BY DEF Open, RowStates
  <1>r. /\ \A q \in Runs \ {r} : journal'[q] = journal[q]
        /\ \A m \in ChunkRows(r, c) : journal'[r][m].state = state
        /\ \A m \in Members \ ChunkRows(r, c) : journal'[r][m] = journal[r][m]
        /\ \A m \in Members : journal'[r][m].chunk = journal[r][m].chunk
        /\ \A q \in Runs : Rows(q)' = Rows(q)
    BY <1>s, MarkedFacts
  <1>m. /\ \A q \in Runs : Rows(q) \subseteq Members /\ applied[q] \subseteq Members
        /\ ChunkRows(r, c) \subseteq Rows(r)
    BY DEF Rows, ChunkRows, TypeOK
  <1>1. JournalInv'
    <2> SUFFICES ASSUME NEW q \in Runs, NEW m \in Rows(q)
                 PROVE  /\ Exists(q)' /\ snap'[q] # "none"
                        /\ journal'[q][m].state \in {"pending"} \cup Open
      BY <1>r DEF JournalInv
    <2>1. Exists(q) /\ snap[q] # "none" /\ journal[q][m].state \in {"pending"} \cup Open
      BY DEF LogInv, JournalInv
    <2>2. QED
      BY <2>1, <1>r, <1>m DEF Exists
  <1>2. AppliedInv'
    <2> SUFFICES ASSUME NEW q \in Runs, NEW m \in applied[q]
                 PROVE  journal'[q][m].state \in Open
      BY DEF AppliedInv
    <2>1. journal[q][m].state \in Open
      BY DEF LogInv, AppliedInv
    <2>2. QED
      BY <2>1, <1>r, <1>m
  <1>3. DoneWasApplied'
    <2> SUFFICES ASSUME NEW q \in Runs, NEW m \in Members, journal'[q][m].state = "done"
                 PROVE  m \in applied[q]
      BY DEF DoneWasApplied
    <2>1. journal[q][m].state = "done" => m \in applied[q]
      BY DEF LogInv, DoneWasApplied
    <2>2. QED
      BY <2>1, <1>r, <1>m
  <1>4. ChunksInOrder'
    <2> SUFFICES ASSUME NEW q \in Runs, NEW m \in Rows(q), NEW n \in Rows(q)
                 PROVE  /\ journal'[q][m].chunk < journal'[q][n].chunk
                             /\ journal'[q][n].state # "pending"
                           => journal'[q][m].state = "done"
                        /\ journal'[q][m].chunk = journal'[q][n].chunk
                           => journal'[q][m].state = journal'[q][n].state
      BY <1>r DEF ChunksInOrder
    <2>1. /\ journal[q][m].chunk < journal[q][n].chunk /\ journal[q][n].state # "pending"
             => journal[q][m].state = "done"
          /\ journal[q][m].chunk = journal[q][n].chunk
             => journal[q][m].state = journal[q][n].state
      BY DEF LogInv, ChunksInOrder
    <2>2. CASE q # r
      BY <2>1, <2>2, <1>r
    <2>3. CASE q = r
      <3>1. m \in Members /\ n \in Members
        BY <1>m
      <3>2. /\ journal'[r][m].chunk = journal[r][m].chunk
            /\ journal'[r][n].chunk = journal[r][n].chunk
        BY <3>1, <1>r
      <3>3. journal[r][m].chunk = journal[r][n].chunk
              => (m \in ChunkRows(r, c) <=> n \in ChunkRows(r, c))
        BY <2>3 DEF ChunkRows
      <3>4. journal[r][m].state = "done" => journal'[r][m].state = "done"
        BY <3>1, <1>r
      <3>5. CASE n \in ChunkRows(r, c)
        BY <2>3, <3>1, <3>2, <3>3, <3>4, <3>5, <1>r
      <3>6. CASE n \notin ChunkRows(r, c)
        BY <2>1, <2>3, <3>1, <3>2, <3>3, <3>4, <3>6, <1>r
      <3>7. QED
        BY <3>5, <3>6
    <2>4. QED
      BY <2>2, <2>3
  <1>5. DoneRunIsComplete'
    <2> SUFFICES ASSUME NEW q \in Runs, run[q].state = "done", NEW m \in Rows(q)
                 PROVE  journal'[q][m].state = "done"
      BY <1>r DEF DoneRunIsComplete
    <2>1. journal[q][m].state = "done" /\ q # r
      BY DEF LogInv, DoneRunIsComplete
    <2>2. QED
      BY <2>1, <1>r
  <1>6. QED
    BY <1>1, <1>2, <1>3, <1>4, <1>5 DEF LogInv

-----------------------------------------------------------------------------
(* Every step keeps what the log says, and what its own job relies on.     *)

LEMMA LogSame == LogInv /\ UNCHANGED <<run, snap, journal, applied>> => LogInv'
  BY DEF LogInv, JournalInv, AppliedInv, DoneWasApplied, ChunksInOrder, DoneRunIsComplete,
         Rows, Exists

(* A job that is idle, or past its last write, relies on nothing.          *)
LEMMA Landed ==
  ASSUME NEW w \in Drivers, job'[w].pc \in {"idle", "load", "raised", "stop", "reconcile"}
  PROVE  Prepared(w)' /\ Driven(w)'
  BY DEF Prepared, Driven, Preparing, Writing

LEMMA OthersQuiet ==
  ASSUME TypeOK, SerialCalls, NEW w \in Drivers, Active(w), NEW v \in Drivers \ {w},
         job'[v] = job[v]
  PROVE  Prepared(v)' /\ Driven(v)'
  <1>1. job'[v].pc = "idle"
    BY DEF SerialCalls, Active
  <1>2. QED
    BY <1>1, Landed

Kept(w) == LogInv' /\ Prepared(w)' /\ Driven(w)'

(* A new run: nothing is journaled until the rows of WriteJournal.         *)
LEMMA PrepareKept ==
  ASSUME Invariant, NEW w \in Drivers,
         BuildInverse(w) \/ ReadRoster(w) \/ WriteSnapshot(w) \/ CreateRun(w)
  PROVE  Kept(w)
  <1> DEFINE j == job[w]
  <1>t. TypeOK /\ HasRun /\ LogInv /\ Prepared(w) /\ j \in Job
    BY DEF Invariant, JobsInv, TypeOK
  <1>r. PICK r \in Runs : r = j.run
    BY <1>t DEF HasRun, Active, BuildInverse, ReadRoster, WriteSnapshot, CreateRun
  <1>1. CASE BuildInverse(w)
    <2>1. LogInv'
      BY <1>1, <1>t, LogSame DEF BuildInverse, db
    <2>2. CASE UndoAvailable(j.parent)
      <3>1. job' = [job EXCEPT ![w] = [j EXCEPT !.pc = "read", !.plan = InverseMoves(j.parent)]]
        BY <1>1, <2>2 DEF BuildInverse
      <3>2. /\ job'[w].pc = "read" /\ job'[w].run = r
            /\ job'[w].plan = InverseMoves(j.parent)
        BY <1>t, <1>r, <3>1 DEF TypeOK, Job
      <3>3. \A m \in Members : InverseMoves(j.parent)[m].state \in {"absent", "intended"}
        BY DEF InverseMoves, Intended, Absent
      <3>4. ~Exists(r)'
        <4>1. j.pc = "inverse" /\ run' = run
          BY <1>1 DEF BuildInverse, db
        <4>2. QED
          BY <4>1, <1>t, <1>r DEF Prepared, Preparing, Exists
      <3>5. QED
        BY <2>1, <3>2, <3>3, <3>4 DEF Kept, Prepared, Driven, Preparing, Writing
    <2>3. CASE ~UndoAvailable(j.parent)
      <3>1. Goto(w, "raised")
        BY <1>1, <2>3 DEF BuildInverse, Goto
      <3>2. QED
        BY <1>t, <2>1, <3>1, GotoFields, Landed DEF Kept, Steps
    <2>4. QED
      BY <2>2, <2>3
  <1>2. CASE ReadRoster(w)
    <2> DEFINE D == {m \in Members : /\ j.plan[m].state = "intended"
                                     /\ WillApply(j.plan[m], register[m], j.noLeaders)}
    <2>1. PICK c \in Chunkings(D) :
            job' = [job EXCEPT ![w] = [j EXCEPT !.pc = "snapshot", !.plan = Preflight(j.plan, D, c)]]
      BY <1>2 DEF ReadRoster
    <2>2. /\ job'[w].pc = "snapshot" /\ job'[w].run = r
          /\ job'[w].plan = Preflight(j.plan, D, c)
      BY <1>t, <1>r, <2>1 DEF TypeOK, Job
    <2>3. c \in [D -> Nat]
      BY ChunkingsType
    <2>4. \A m \in Members : Preflight(j.plan, D, c)[m].state \in {"absent", "pending"}
      BY <1>t, <2>3, PreflightType DEF Job
    <2>5. ~Exists(r)'
      <3>1. j.pc = "read" /\ run' = run
        BY <1>2 DEF ReadRoster, db
      <3>2. QED
        BY <3>1, <1>t, <1>r DEF Prepared, Preparing, Exists
    <2>6. LogInv'
      BY <1>2, <1>t, LogSame DEF ReadRoster, db
    <2> HIDE DEF D
    <2>7. QED
      BY <2>2, <2>4, <2>5, <2>6 DEF Kept, Prepared, Driven, Preparing, Writing
  <1>3. CASE WriteSnapshot(w)
    <2>1. /\ job'[w].pc = "create" /\ job'[w].run = r /\ job'[w].plan = j.plan
      BY <1>3, <1>t, <1>r, GotoFields DEF WriteSnapshot, Steps
    <2>2. snap'[r] = "kept" /\ \A q \in Runs \ {r} : snap'[q] = snap[q]
      BY <1>3, <1>t, <1>r DEF WriteSnapshot, TypeOK
    <2>3. LogInv'
      BY <1>3, <1>t, <2>2 DEF WriteSnapshot, LogInv, JournalInv, AppliedInv, DoneWasApplied,
                       ChunksInOrder, DoneRunIsComplete, Rows, Exists
    <2>4. ~Exists(r)' /\ \A m \in Members : j.plan[m].state \in {"absent", "pending"}
      <3>1. j.pc = "snapshot" /\ run' = run
        BY <1>3 DEF WriteSnapshot
      <3>2. QED
        BY <3>1, <1>t, <1>r DEF Prepared, Preparing, Exists
    <2>5. QED
      BY <2>1, <2>2, <2>3, <2>4 DEF Kept, Prepared, Driven, Preparing, Writing
  <1>4. CASE CreateRun(w)
    <2>1. /\ job'[w].pc = "journal" /\ job'[w].run = r /\ job'[w].plan = j.plan
      BY <1>4, <1>t, <1>r, GotoFields DEF CreateRun, Steps
    <2>2. run'[r].state = "running" /\ \A q \in Runs \ {r} : run'[q] = run[q]
      BY <1>4, <1>t, <1>r DEF CreateRun, TypeOK
    <2>3. /\ ~Exists(r) /\ snap[r] # "none"
          /\ \A m \in Members : j.plan[m].state \in {"absent", "pending"}
      BY <1>4, <1>t, <1>r DEF Prepared, Preparing, CreateRun
    <2>4. Rows(r) = {}
      BY <1>t, <1>r, <2>3 DEF LogInv, JournalInv
    <2>5. LogInv'
      BY <1>4, <1>t, <2>2, <2>4 DEF CreateRun, LogInv, JournalInv, AppliedInv, DoneWasApplied,
                       ChunksInOrder, DoneRunIsComplete, Rows, Exists
    <2>6. Rows(r)' = {}
      BY <1>4, <2>4 DEF CreateRun, Rows
    <2>7. QED
      BY <1>4, <2>1, <2>2, <2>3, <2>5, <2>6
         DEF Kept, Prepared, Driven, Preparing, Writing, CreateRun
  <1>5. QED
    BY <1>1, <1>2, <1>3, <1>4

(* The journal of a new run: all its rows pending.                         *)
LEMMA WriteJournalKept ==
  ASSUME Invariant, NEW w \in Drivers, WriteJournal(w)
  PROVE  Kept(w)
  <1> DEFINE j == job[w]
             D == Planned(j.plan)
  <1>t. TypeOK /\ HasRun /\ LogInv /\ Prepared(w) /\ j \in Job
    BY DEF Invariant, JobsInv, TypeOK
  <1>r. PICK r \in Runs : r = j.run
    BY <1>t DEF HasRun, Active, WriteJournal
  <1>1. job' = [job EXCEPT ![w] = [j EXCEPT !.pc = "next", !.plan = NoPlan, !.items = D, !.todo = D]]
    BY DEF WriteJournal
  <1>2. /\ job'[w].pc = "next" /\ job'[w].run = r
        /\ job'[w].items = D /\ job'[w].todo = D
    BY <1>t, <1>r, <1>1 DEF TypeOK, Job
  <1>3. journal'[r] = j.plan /\ \A q \in Runs \ {r} : journal'[q] = journal[q]
    BY <1>t, <1>r DEF WriteJournal, TypeOK
  <1>4. /\ Rows(r) = {} /\ run[r].state = "running" /\ snap[r] # "none"
        /\ \A m \in Members : j.plan[m].state \in {"absent", "pending"}
    BY <1>t, <1>r DEF Prepared, WriteJournal
  <1>5. /\ Rows(r)' = D /\ \A m \in D : journal'[r][m].state = "pending"
        /\ \A q \in Runs \ {r} : Rows(q)' = Rows(q)
    BY <1>3, <1>4 DEF Rows, Planned
  <1>6. applied[r] = {}
    <2>1. \A m \in applied[r] : m \in Members /\ journal[r][m].state \in Open
      BY <1>t, <1>r DEF LogInv, AppliedInv, TypeOK
    <2>2. QED
      BY <2>1, <1>4 DEF Rows, Open
  <1> HIDE DEF D
  <1>7. JournalInv'
    BY <1>t, <1>3, <1>4, <1>5 DEF LogInv, JournalInv, Exists, WriteJournal
  <1>8. AppliedInv'
    BY <1>t, <1>3, <1>6 DEF LogInv, AppliedInv, WriteJournal
  <1>9. DoneWasApplied'
    <2>1. \A m \in Members : journal'[r][m].state # "done"
      BY <1>3, <1>4
    <2>2. QED
      BY <1>t, <1>3, <2>1 DEF LogInv, DoneWasApplied, WriteJournal
  <1>10. ChunksInOrder'
    BY <1>t, <1>3, <1>5 DEF LogInv, ChunksInOrder
  <1>11. DoneRunIsComplete'
    BY <1>t, <1>3, <1>4, <1>5 DEF LogInv, DoneRunIsComplete, WriteJournal
  <1>12. Driven(w)'
    BY <1>2, <1>4, <1>5 DEF Driven, Writing, WriteJournal
  <1>13. Prepared(w)'
    BY <1>2 DEF Prepared, Preparing
  <1>14. QED
    BY <1>7, <1>8, <1>9, <1>10, <1>11, <1>12, <1>13 DEF Kept, LogInv

(* Inside the chunk loop.                                                  *)
LEMMA DrivingPrepared ==
  ASSUME NEW w \in Drivers, job'[w].pc \in {"running", "next"} \cup Writing
  PROVE  Prepared(w)'
  BY DEF Prepared, Preparing, Writing

LEMMA LoadJournalKept ==
  ASSUME Invariant, NEW w \in Drivers, LoadJournal(w)
  PROVE  Kept(w)
  <1> DEFINE j == job[w]
  <1>t. TypeOK /\ HasRun /\ LogInv /\ Driven(w) /\ j \in Job
    BY DEF Invariant, JobsInv, TypeOK
  <1>r. PICK r \in Runs : r = j.run
    BY <1>t DEF HasRun, Active, LoadJournal
  <1> DEFINE D == {m \in Rows(j.run) : journal[j.run][m].state # "done"}
  <1>1. LogInv'
    BY <1>t, LogSame DEF LoadJournal, db
  <1>2. CASE Rows(j.run) = {}
    <2>1. Goto(w, "raised")
      BY <1>2 DEF LoadJournal, Goto
    <2>2. QED
      BY <1>t, <1>1, <2>1, GotoFields, Landed DEF Kept, Steps
  <1>3. CASE Rows(j.run) # {}
    <2>1. job' = [job EXCEPT ![w] = [j EXCEPT !.pc = "running", !.items = D, !.todo = D]]
      BY <1>3 DEF LoadJournal
    <2>2. /\ job'[w].pc = "running" /\ job'[w].run = r
          /\ job'[w].items = D /\ job'[w].todo = D
      BY <1>t, <1>r, <2>1 DEF TypeOK, Job
    <2>3. Exists(r)
      BY <1>t, <1>r, <1>3 DEF LogInv, JournalInv
    <2>4. run' = run /\ journal' = journal
      BY DEF LoadJournal, db
    <2>5. Driven(w)'
      BY <1>r, <2>2, <2>3, <2>4 DEF Driven, Writing, Rows, Exists
    <2>6. QED
      BY <1>1, <2>2, <2>5, DrivingPrepared DEF Kept
  <1>4. QED
    BY <1>2, <1>3

LEMMA WithStateFacts ==
  ASSUME TypeOK, NEW r \in Runs, NEW state \in RunStates \ {"none"},
         run' = WithState(r, state)
  PROVE  /\ \A q \in Runs \ {r} : run'[q] = run[q]
         /\ Exists(r) => run'[r].state = state
         /\ ~Exists(r) => run'[r].state = "none"
  <1>1. run[r] \in RunRow
    BY DEF TypeOK
  <1>2. \A row \in RunRow : \A x : [row EXCEPT !.state = x].state = x
    BY DEF RunRow
  <1>3. run' = [run EXCEPT ![r] =
                  [run[r] EXCEPT !.state = IF run[r].state = "none" THEN run[r].state ELSE state]]
    BY DEF WithState
  <1>4. run'[r] = [run[r] EXCEPT !.state = IF run[r].state = "none" THEN run[r].state ELSE state]
    BY <1>3 DEF TypeOK
  <1>5. run'[r].state = IF run[r].state = "none" THEN run[r].state ELSE state
    BY <1>1, <1>2, <1>4
  <1>6. \A q \in Runs \ {r} : run'[q] = run[q]
    BY <1>3 DEF TypeOK
  <1>7. QED
    BY <1>5, <1>6 DEF Exists

(* A run row may be restated; done needs done rows.                        *)
LEMMA RestatedLog ==
  ASSUME TypeOK, LogInv, NEW r \in Runs, UNCHANGED <<snap, journal, applied>>,
         \A q \in Runs \ {r} : run'[q] = run[q],
         Exists(r) => run'[r].state # "none",
         run'[r].state = "done" => \A m \in Rows(r) : journal[r][m].state = "done"
  PROVE  LogInv'
  <1>1. \A q \in Runs : Exists(q) => Exists(q)'
    BY DEF Exists
  <1>2. JournalInv'
    BY <1>1 DEF LogInv, JournalInv, Rows
  <1>3. DoneRunIsComplete'
    BY DEF LogInv, DoneRunIsComplete, Rows
  <1>4. AppliedInv' /\ DoneWasApplied' /\ ChunksInOrder'
    BY DEF LogInv, AppliedInv, DoneWasApplied, ChunksInOrder, Rows
  <1>5. QED
    BY <1>2, <1>3, <1>4 DEF LogInv

LEMMA SetRunningKept ==
  ASSUME Invariant, NEW w \in Drivers, SetRunning(w)
  PROVE  Kept(w)
  <1> DEFINE j == job[w]
  <1>t. TypeOK /\ HasRun /\ LogInv /\ Driven(w) /\ j \in Job
    BY DEF Invariant, JobsInv, TypeOK
  <1>r. PICK r \in Runs : r = j.run
    BY <1>t DEF HasRun, Active, SetRunning
  <1>1. /\ job'[w].pc = "next" /\ job'[w].run = r
        /\ job'[w].items = j.items /\ job'[w].todo = j.todo
    BY <1>t, <1>r, GotoFields DEF SetRunning, Steps
  <1>2. j.pc = "running" /\ run' = WithState(r, "running") /\ UNCHANGED <<snap, journal, applied>>
    BY <1>r DEF SetRunning
  <1>3. Exists(r)
    BY <1>t, <1>r, <1>2 DEF Driven
  <1>4. run'[r].state = "running" /\ \A q \in Runs \ {r} : run'[q] = run[q]
    BY <1>t, <1>2, <1>3, WithStateFacts DEF RunStates
  <1>5. LogInv'
    BY <1>t, <1>2, <1>4, RestatedLog
  <1>6. Driven(w)'
    BY <1>t, <1>r, <1>1, <1>2, <1>4 DEF Driven, Writing, Rows
  <1>7. QED
    BY <1>1, <1>5, <1>6, DrivingPrepared DEF Kept

LEMMA EndKept ==
  ASSUME Invariant, NEW w \in Drivers,
         StopFailed(w) \/ Finish(w) \/ Reconcile(w) \/ Raise(w) \/ Raised(w)
  PROVE  Kept(w)
  <1> DEFINE j == job[w]
  <1>t. TypeOK /\ HasRun /\ LogInv /\ Driven(w) /\ j \in Job
    BY DEF Invariant, JobsInv, TypeOK
  <1>r. PICK r \in Runs : r = j.run
    BY <1>t DEF HasRun, Active, StopFailed, Finish, Reconcile, Raise, Raised, Steps
  <1>1. job'[w].pc \in {"idle", "raised", "reconcile"}
    BY <1>t, GotoFields, ExitFacts DEF StopFailed, Finish, Reconcile, Raise, Raised, Steps, Idle
  <1>2. CASE StopFailed(w)
    <2>1. run' = WithState(r, "failed") /\ UNCHANGED <<snap, journal, applied>>
      BY <1>2, <1>r DEF StopFailed
    <2>2. QED
      BY <1>t, <1>1, <2>1, WithStateFacts, RestatedLog, Landed DEF RunStates, Kept
  <1>3. CASE Finish(w)
    <2>1. /\ run' = WithState(r, "done") /\ UNCHANGED <<snap, journal, applied>>
          /\ j.pc = "next" /\ j.todo = {}
      BY <1>3, <1>r DEF Finish
    <2>2. \A m \in Rows(r) : journal[r][m].state = "done"
      BY <1>t, <1>r, <2>1 DEF Driven
    <2>3. QED
      BY <1>t, <1>1, <2>1, <2>2, WithStateFacts, RestatedLog, Landed DEF RunStates, Kept
  <1>4. CASE Reconcile(w) \/ Raise(w)
    <2>1. UNCHANGED <<run, snap, journal, applied>>
      BY <1>4 DEF Reconcile, Raise, db
    <2>2. QED
      BY <1>t, <1>1, <2>1, LogSame, Landed DEF Kept
  <1>5. CASE Raised(w)
    <2>1. /\ UNCHANGED <<snap, journal, applied>>
          /\ \/ run' = [run EXCEPT ![r] =
                     IF @.state = "none" THEN [NoRun EXCEPT !.state = "failed", !.kind = j.kind]
                                         ELSE [@ EXCEPT !.state = "failed"]]
             \/ run' = run
      BY <1>5, <1>r DEF Raised
    <2>2. CASE run' = run
      BY <1>t, <1>1, <2>1, <2>2, LogSame, Landed DEF Kept
    <2>3. CASE run' # run
      <3> DEFINE new == IF run[r].state = "none"
                        THEN [NoRun EXCEPT !.state = "failed", !.kind = j.kind]
                        ELSE [run[r] EXCEPT !.state = "failed"]
      <3>1. new.state = "failed"
        <4>1. \A row \in RunRow : [row EXCEPT !.state = "failed"].state = "failed"
          BY DEF RunRow
        <4>2. [NoRun EXCEPT !.state = "failed", !.kind = j.kind].state = "failed"
          BY DEF NoRun
        <4>3. run[r] \in RunRow
          BY <1>t DEF TypeOK
        <4>4. QED
          BY <4>1, <4>2, <4>3
      <3>2. run' = [run EXCEPT ![r] = new]
        BY <2>1, <2>3
      <3> HIDE DEF new
      <3>3. run'[r].state = "failed" /\ \A q \in Runs \ {r} : run'[q] = run[q]
        BY <1>t, <3>1, <3>2 DEF TypeOK
      <3>4. QED
        BY <1>t, <1>1, <2>1, <3>3, RestatedLog, Landed DEF Kept
    <2>4. QED
      BY <2>2, <2>3
  <1>6. QED
    BY <1>2, <1>3, <1>4, <1>5

(* The lowest chunk left: all its rows are still to do, all below are done. *)
LEMMA BeginChunkKept ==
  ASSUME Invariant, NEW w \in Drivers, BeginChunk(w)
  PROVE  Kept(w)
  <1> DEFINE j == job[w]
  <1>t. TypeOK /\ HasRun /\ LogInv /\ Driven(w) /\ j \in Job
    BY DEF Invariant, JobsInv, TypeOK
  <1>r. PICK r \in Runs : r = j.run
    BY <1>t DEF HasRun, Active, BeginChunk
  <1>0. PICK m \in j.todo :
          LET c == journal[j.run][m].chunk IN
          /\ \A x \in j.todo : c <= journal[j.run][x].chunk
          /\ journal' = Marked(j.run, c, "in_flight")
          /\ job' = [job EXCEPT ![w] = [j EXCEPT !.pc = "reread", !.chunk = c,
                              !.todo = {x \in j.todo : journal[j.run][x].chunk # c}]]
    BY DEF BeginChunk
  <1>c. PICK c : c = journal[r][m].chunk
    OBVIOUS
  <1>T. PICK T : T = {x \in j.todo : journal[r][x].chunk # c}
    OBVIOUS
  <1>1. /\ \A x \in j.todo : c <= journal[r][x].chunk
        /\ journal' = Marked(r, c, "in_flight")
        /\ job' = [job EXCEPT ![w] = [j EXCEPT !.pc = "reread", !.chunk = c, !.todo = T]]
    BY <1>0, <1>c, <1>T, <1>r
  <1>2. /\ job'[w].pc = "reread" /\ job'[w].run = r /\ job'[w].chunk = c
        /\ job'[w].items = j.items /\ job'[w].todo = T
    BY <1>t, <1>r, <1>1 DEF TypeOK, Job
  <1>3. UNCHANGED <<run, snap, applied>> /\ j.pc = "next"
    BY DEF BeginChunk
  <1>4. /\ j.items \subseteq Rows(r) /\ j.todo \subseteq j.items /\ run[r].state = "running"
        /\ \A x \in j.todo : journal[r][x].state # "done"
        /\ \A x \in Rows(r) \ j.todo : journal[r][x].state = "done"
    BY <1>t, <1>r, <1>3 DEF Driven
  <1>5. /\ Rows(r) \subseteq Members
        /\ \A x \in Members : journal[r][x].chunk \in Nat
    BY <1>t DEF Rows, TypeOK, Row
  <1>6. /\ m \in ChunkRows(r, c)
        /\ \A x \in ChunkRows(r, c) : x \in Rows(r) /\ journal[r][x].chunk = c
    BY <1>4, <1>c DEF ChunkRows
  <1>7. \A x \in ChunkRows(r, c) : journal[r][x].state # "done" /\ x \in j.todo \ T
    <2> SUFFICES ASSUME NEW x \in ChunkRows(r, c)
                 PROVE  journal[r][x].state # "done" /\ x \in j.todo \ T
      OBVIOUS
    <2>1. journal[r][x].state = journal[r][m].state
      BY <1>t, <1>4, <1>6, <1>c DEF LogInv, ChunksInOrder
    <2>2. QED
      BY <2>1, <1>4, <1>6, <1>T
  <1>8. ASSUME NEW x \in Rows(r), NEW n \in ChunkRows(r, c), journal[r][x].chunk < journal[r][n].chunk
        PROVE  journal[r][x].state = "done"
    BY <1>1, <1>4, <1>5, <1>6, <1>8
  <1>9. LogInv'
    BY <1>t, <1>1, <1>3, <1>4, <1>7, <1>8, MarkedLog DEF Open
  <1>10. /\ \A x \in ChunkRows(r, c) : journal'[r][x].state = "in_flight"
         /\ \A x \in Members \ ChunkRows(r, c) : journal'[r][x] = journal[r][x]
         /\ Rows(r)' = Rows(r) /\ ChunkRows(r, c)' = ChunkRows(r, c)
    BY <1>t, <1>1, MarkedFacts DEF RowStates
  <1>11. T \subseteq j.todo /\ T \cap ChunkRows(r, c) = {}
    BY <1>T, <1>6
  <1>12. /\ ChunkRows(r, c) \subseteq j.items \ T
         /\ \A x \in T : journal'[r][x].state # "done"
         /\ \A x \in Rows(r) \ (T \cup ChunkRows(r, c)) : journal'[r][x].state = "done"
    <2>1. ASSUME NEW x \in j.todo, x \notin T
          PROVE  x \in ChunkRows(r, c)
      BY <2>1, <1>4, <1>T DEF ChunkRows
    <2>2. QED
      BY <2>1, <1>4, <1>5, <1>7, <1>10, <1>11
  <1>13. Driven(w)'
    BY <1>2, <1>3, <1>4, <1>10, <1>11, <1>12 DEF Driven, Writing
  <1>14. QED
    BY <1>2, <1>9, <1>13, DrivingPrepared DEF Kept, Writing

(* The facts about the chunk in flight that the next three steps rely on.  *)
LEMMA ChunkFacts ==
  ASSUME Invariant, NEW w \in Drivers, job[w].pc \in Writing, NEW r \in Runs, r = job[w].run
  PROVE  /\ job[w].items \subseteq Rows(r) /\ job[w].todo \subseteq job[w].items
         /\ run[r].state = "running"
         /\ \A m \in job[w].todo : journal[r][m].state # "done"
         /\ ChunkRows(r, job[w].chunk) \subseteq job[w].items \ job[w].todo
         /\ \A m \in ChunkRows(r, job[w].chunk) : journal[r][m].state = "in_flight"
         /\ \A m \in Rows(r) \ (job[w].todo \cup ChunkRows(r, job[w].chunk)) :
              journal[r][m].state = "done"
         /\ \A m \in Rows(r), n \in ChunkRows(r, job[w].chunk) :
              journal[r][m].chunk < journal[r][n].chunk => journal[r][m].state = "done"
         /\ Batch(w) = ChunkRows(r, job[w].chunk)
  <1>1. Driven(w) /\ LogInv
    BY DEF Invariant, JobsInv
  <1> DEFINE C == ChunkRows(r, job[w].chunk)
  <1>2. /\ job[w].items \subseteq Rows(r) /\ job[w].todo \subseteq job[w].items
        /\ run[r].state = "running"
        /\ \A m \in job[w].todo : journal[r][m].state # "done"
        /\ C \subseteq job[w].items \ job[w].todo
        /\ \A m \in C : journal[r][m].state = "in_flight"
        /\ \A m \in Rows(r) \ (job[w].todo \cup C) : journal[r][m].state = "done"
    BY <1>1 DEF Driven
  <1>3. C \subseteq Rows(r)
    BY DEF ChunkRows
  <1>4. Batch(w) = C
    BY <1>2, <1>3 DEF Batch, ChunkRows
  <1> HIDE DEF C
  <1>5. \A m \in Rows(r), n \in C :
          journal[r][m].chunk < journal[r][n].chunk => journal[r][m].state = "done"
    BY <1>1, <1>2, <1>3 DEF LogInv, ChunksInOrder
  <1>6. QED
    BY <1>2, <1>4, <1>5 DEF C

LEMMA RereadKept ==
  ASSUME Invariant, NEW w \in Drivers, Reread(w)
  PROVE  Kept(w)
  <1> DEFINE j == job[w]
  <1>t. TypeOK /\ HasRun /\ LogInv /\ Driven(w) /\ j \in Job
    BY DEF Invariant, JobsInv, TypeOK
  <1>r. PICK r \in Runs : r = j.run
    BY <1>t DEF HasRun, Active, Reread
  <1>1. /\ job'[w].pc \in {"post", "nack"} /\ job'[w].run = r /\ job'[w].chunk = j.chunk
        /\ job'[w].items = j.items /\ job'[w].todo = j.todo
    BY <1>t, <1>r, GotoFields DEF Reread, Steps
  <1>2. UNCHANGED <<run, snap, journal, applied>> /\ j.pc = "reread"
    BY DEF Reread, db
  <1>3. LogInv'
    BY <1>t, <1>2, LogSame
  <1>4. Driven(w)'
    BY <1>t, <1>r, <1>1, <1>2 DEF Driven, Writing, Rows, ChunkRows
  <1>5. QED
    BY <1>1, <1>3, <1>4, DrivingPrepared DEF Kept, Writing

LEMMA PostKept ==
  ASSUME Invariant, NEW w \in Drivers, Post(w)
  PROVE  Kept(w)
  <1> DEFINE j == job[w]
  <1>t. TypeOK /\ HasRun /\ LogInv /\ Driven(w) /\ j \in Job
    BY DEF Invariant, JobsInv, TypeOK
  <1>r. PICK r \in Runs : r = j.run
    BY <1>t DEF HasRun, Active, Post
  <1>p. j.pc = "post" /\ j.pc \in Writing /\ UNCHANGED <<run, snap, journal>>
    BY DEF Post, db, Writing
  <1>C. PICK C : C = ChunkRows(r, j.chunk)
    OBVIOUS
  <1>1. PICK hit \in SUBSET C :
          /\ applied' = [applied EXCEPT ![r] = @ \cup hit]
          /\ (hit = C /\ Goto(w, "ack")) \/ Goto(w, "nack")
    <2>1. Batch(w) = C
      BY <1>p, <1>r, <1>C, ChunkFacts
    <2>2. QED
      BY <2>1, <1>r DEF Post
  <1>2. /\ job'[w].pc \in {"ack", "nack"} /\ job'[w].run = r /\ job'[w].chunk = j.chunk
        /\ job'[w].items = j.items /\ job'[w].todo = j.todo
        /\ job'[w].pc = "ack" => hit = C
    BY <1>t, <1>r, <1>1, GotoFields DEF Steps
  <1>3. applied'[r] = applied[r] \cup hit /\ \A q \in Runs \ {r} : applied'[q] = applied[q]
    BY <1>t, <1>1 DEF TypeOK
  <1>4. \A m \in C : journal[r][m].state = "in_flight"
    BY <1>p, <1>r, <1>C, ChunkFacts
  <1>5. LogInv'
    <2>1. JournalInv' /\ ChunksInOrder' /\ DoneRunIsComplete'
      BY <1>t, <1>p DEF LogInv, JournalInv, ChunksInOrder, DoneRunIsComplete, Rows, Exists
    <2>2. AppliedInv'
      <3> SUFFICES ASSUME NEW q \in Runs, NEW m \in applied'[q]
                   PROVE  journal[q][m].state \in Open
        BY <1>p DEF AppliedInv
      <3>1. CASE m \in applied[q]
        BY <3>1, <1>t DEF LogInv, AppliedInv
      <3>2. CASE m \notin applied[q]
        BY <3>2, <1>1, <1>3, <1>4 DEF Open
      <3>3. QED
        BY <3>1, <3>2
    <2>3. DoneWasApplied'
      BY <1>t, <1>p, <1>3 DEF LogInv, DoneWasApplied
    <2>4. QED
      BY <2>1, <2>2, <2>3 DEF LogInv
  <1>6. Driven(w)'
    <2>1. C \subseteq applied'[r] \/ job'[w].pc # "ack"
      BY <1>2, <1>3
    <2>2. ChunkRows(r, j.chunk)' = C
      BY <1>p, <1>C, <1>2 DEF ChunkRows, Rows
    <2>3. Rows(r)' = Rows(r)
      BY <1>p DEF Rows
    <2>4. /\ j.items \subseteq Rows(r) /\ j.todo \subseteq j.items
          /\ run[r].state = "running"
          /\ \A m \in j.todo : journal[r][m].state # "done"
          /\ C \subseteq j.items \ j.todo
          /\ \A m \in Rows(r) \ (j.todo \cup C) : journal[r][m].state = "done"
      BY <1>p, <1>r, <1>C, ChunkFacts
    <2>5. QED
      BY <1>2, <1>4, <1>p, <2>1, <2>2, <2>3, <2>4 DEF Driven, Writing
  <1>7. QED
    BY <1>2, <1>5, <1>6, DrivingPrepared DEF Kept, Writing

LEMMA MarkKept ==
  ASSUME Invariant, NEW w \in Drivers, MarkDone(w) \/ MarkFailed(w)
  PROVE  Kept(w)
  <1> DEFINE j == job[w]
  <1>t. TypeOK /\ HasRun /\ LogInv /\ Driven(w) /\ j \in Job
    BY DEF Invariant, JobsInv, TypeOK
  <1>r. PICK r \in Runs : r = j.run
    BY <1>t DEF HasRun, Active, MarkDone, MarkFailed
  <1>p. j.pc \in {"ack", "nack"} /\ j.pc \in Writing /\ UNCHANGED <<run, snap, applied>>
    BY DEF MarkDone, MarkFailed, Writing
  <1>c. PICK c : c = j.chunk
    OBVIOUS
  <1>f. /\ j.items \subseteq Rows(r) /\ j.todo \subseteq j.items
        /\ run[r].state = "running"
        /\ \A m \in j.todo : journal[r][m].state # "done"
        /\ ChunkRows(r, c) \subseteq j.items \ j.todo
        /\ \A m \in ChunkRows(r, c) : journal[r][m].state = "in_flight"
        /\ \A m \in Rows(r) \ (j.todo \cup ChunkRows(r, c)) : journal[r][m].state = "done"
        /\ \A m \in Rows(r), n \in ChunkRows(r, c) :
             journal[r][m].chunk < journal[r][n].chunk => journal[r][m].state = "done"
    BY <1>p, <1>r, <1>c, ChunkFacts
  <1>1. CASE MarkDone(w)
    <2>1. journal' = Marked(r, c, "done") /\ Goto(w, "next") /\ j.pc = "ack"
      BY <1>1, <1>r, <1>c DEF MarkDone
    <2>2. /\ job'[w].pc = "next" /\ job'[w].run = r
          /\ job'[w].items = j.items /\ job'[w].todo = j.todo
      BY <1>t, <1>r, <2>1, GotoFields DEF Steps
    <2>3. ChunkRows(r, c) \subseteq applied[r]
      BY <1>t, <1>r, <1>c, <2>1 DEF Driven
    <2>4. LogInv'
      BY <1>t, <1>p, <1>f, <2>1, <2>3, MarkedLog DEF Open
    <2>5. /\ \A m \in ChunkRows(r, c) : journal'[r][m].state = "done"
          /\ \A m \in Members \ ChunkRows(r, c) : journal'[r][m] = journal[r][m]
          /\ Rows(r)' = Rows(r) /\ Rows(r) \subseteq Members
      BY <1>t, <2>1, MarkedFacts DEF RowStates, Rows
    <2>6. Driven(w)'
      BY <1>p, <1>f, <2>2, <2>5 DEF Driven, Writing
    <2>7. QED
      BY <2>2, <2>4, <2>6, DrivingPrepared DEF Kept
  <1>2. CASE MarkFailed(w)
    <2>1. journal' = Marked(r, c, "failed") /\ Goto(w, "stop")
      BY <1>2, <1>r, <1>c DEF MarkFailed
    <2>2. job'[w].pc = "stop"
      BY <1>t, <2>1, GotoFields DEF Steps
    <2>3. LogInv'
      BY <1>t, <1>p, <1>f, <2>1, MarkedLog DEF Open
    <2>4. QED
      BY <2>2, <2>3, Landed DEF Kept
  <1>3. QED
    BY <1>1, <1>2

-----------------------------------------------------------------------------
(* The inductive invariant. *)

LEMMA PlanStates ==
  ASSUME NEW plan \in Plans, NEW m \in Members
  PROVE  plan[m].state \in {"absent", "intended"}
  <1>1. plan[m] \in {Absent} \cup IntendedMoves
    BY DEF Plans
  <1>2. Absent.state = "absent"
    BY DEF Absent
  <1>3. ASSUME NEW s, NEW t, NEW q
        PROVE  Intended(s, t, q).state = "intended"
    BY DEF Intended, Absent
  <1>4. \A move \in IntendedMoves : move.state = "intended"
    BY <1>3 DEF IntendedMoves
  <1>5. QED
    BY <1>1, <1>2, <1>4

LEMMA CallKept ==
  ASSUME TypeOK, LogInv, NEW w \in Drivers, Call(w)
  PROVE  Kept(w)
  <1>1. ASSUME NEW r \in Runs, NEW k \in Kinds, NEW b \in BOOLEAN, NEW plan \in Plans,
               StartRun(w, r, k, b, plan)
        PROVE  Kept(w)
    <2>1. job' = [job EXCEPT ![w] = [Idle EXCEPT !.pc = "read", !.op = "run", !.run = r, !.kind = k,
                                              !.noLeaders = b, !.plan = plan]]
      BY <1>1 DEF StartRun
    <2>2. job'[w].pc = "read" /\ job'[w].run = r /\ job'[w].plan = plan
      BY <2>1 DEF TypeOK, Idle
    <2>3. UNCHANGED <<run, snap, journal, applied>>
      BY <1>1 DEF StartRun, db
    <2>4. LogInv'
      BY <2>3, LogSame
    <2>5. ~Exists(r)'
      BY <1>1, <2>3 DEF StartRun, Fresh, Exists
    <2>6. QED
      BY <2>2, <2>4, <2>5, PlanStates DEF Kept, Prepared, Driven, Preparing, Writing
  <1>2. ASSUME NEW r \in Runs, StartResume(w, r)
        PROVE  Kept(w)
    <2>1. job' = [job EXCEPT ![w] = [Idle EXCEPT !.pc = "load", !.op = "resume", !.run = r]]
      BY <1>2 DEF StartResume
    <2>2. job'[w].pc = "load"
      BY <2>1 DEF TypeOK, Idle
    <2>3. UNCHANGED <<run, snap, journal, applied>>
      BY <1>2 DEF StartResume, db
    <2>4. LogInv'
      BY <2>3, LogSame
    <2>5. QED
      BY <2>2, <2>4, Landed DEF Kept
  <1>3. ASSUME NEW r \in Runs, NEW p \in Runs, StartUndo(w, r, p)
        PROVE  Kept(w)
    <2>1. job' = [job EXCEPT ![w] = [Idle EXCEPT !.pc = "inverse", !.op = "undo", !.run = r,
                                              !.kind = "undo", !.parent = p]]
      BY <1>3 DEF StartUndo
    <2>2. job'[w].pc = "inverse" /\ job'[w].run = r
      BY <2>1 DEF TypeOK, Idle
    <2>3. UNCHANGED <<run, snap, journal, applied>>
      BY <1>3 DEF StartUndo, db
    <2>4. LogInv'
      BY <2>3, LogSame
    <2>5. ~Exists(r)'
      BY <1>3, <2>3 DEF StartUndo, Fresh, Exists
    <2>6. QED
      BY <2>2, <2>4, <2>5 DEF Kept, Prepared, Driven, Preparing, Writing
  <1>4. QED
    BY <1>1, <1>2, <1>3 DEF Call

LEMMA StepKept ==
  ASSUME Invariant, NEW w \in Drivers, Step(w)
  PROVE  Kept(w)
  BY PrepareKept, WriteJournalKept, LoadJournalKept, SetRunningKept, BeginChunkKept, RereadKept,
     PostKept, MarkKept, EndKept DEF Step

LEMMA EnvironmentKept ==
  ASSUME Invariant, Environment
  PROVE  LogInv' /\ JobsInv'
  <1>i. TypeOK /\ LogInv /\ JobsInv
    BY DEF Invariant
  <1>1. ASSUME NEW m \in Members, NEW p \in ForeignEdits, ExternalEdit(m, p)
        PROVE  LogInv' /\ JobsInv'
    <2>1. UNCHANGED <<run, snap, journal, job, applied>>
      BY <1>1 DEF ExternalEdit, db
    <2>2. JobsInv'
      BY <1>i, <2>1 DEF JobsInv, Prepared, Driven, Rows, Exists, ChunkRows
    <2>3. QED
      BY <1>i, <2>1, <2>2, LogSame
  <1>2. ASSUME NEW r \in Runs, DeleteSnapshot(r)
        PROVE  LogInv' /\ JobsInv'
    <2>1. UNCHANGED <<run, journal, job, applied>>
      BY <1>2 DEF DeleteSnapshot
    <2>2. \A q \in Runs : snap[q] # "none" => snap'[q] # "none"
      BY <1>2, <1>i DEF DeleteSnapshot, TypeOK
    <2>3. LogInv'
      BY <1>i, <2>1, <2>2 DEF LogInv, JournalInv, AppliedInv, DoneWasApplied,
         ChunksInOrder, DoneRunIsComplete, Rows, Exists
    <2>4. \A w \in Drivers : job[w].pc \in {"create", "journal"} => job[w].run \in Runs
      BY DEF Invariant, HasRun, Active
    <2>5. \A w \in Drivers : Prepared(w)'
      BY <1>i, <2>1, <2>2, <2>4 DEF JobsInv, Prepared, Rows, Exists
    <2>6. \A w \in Drivers : Driven(w)'
      BY <1>i, <2>1 DEF JobsInv, Driven, Rows, Exists, ChunkRows
    <2>7. QED
      BY <2>3, <2>5, <2>6 DEF JobsInv
  <1>3. ASSUME NEW w \in Drivers, Crash(w)
        PROVE  LogInv' /\ JobsInv'
    <2>1. UNCHANGED <<run, snap, journal, applied>> /\ Active(w)
      BY <1>3 DEF Crash, db
    <2>2. job'[w] = Idle /\ \A v \in Drivers \ {w} : job'[v] = job[v]
      BY <1>3, <1>i, ExitFacts DEF Crash
    <2>3. Prepared(w)' /\ Driven(w)'
      BY <2>2, Landed DEF Idle
    <2>4. \A v \in Drivers \ {w} : Prepared(v)' /\ Driven(v)'
      BY <2>1, <2>2, OthersQuiet DEF Invariant
    <2>5. QED
      BY <1>i, <2>1, <2>3, <2>4, LogSame DEF JobsInv
  <1>4. QED
    BY <1>1, <1>2, <1>3 DEF Environment

LEMMA Inductive == Invariant /\ [Next]_vars => Invariant'
  <1> SUFFICES ASSUME Invariant, [Next]_vars
               PROVE  Invariant'
    OBVIOUS
  <1>i. TypeOK /\ HasRun /\ SerialCalls /\ LogInv /\ JobsInv
    BY DEF Invariant
  <1>t. TypeOK' /\ HasRun' /\ SerialCalls'
    BY <1>i, TypesInductive, SerialInductive
  <1>1. CASE Environment
    BY <1>1, <1>t, EnvironmentKept DEF Invariant
  <1>2. ASSUME NEW w \in Drivers, Step(w)
        PROVE  Invariant'
    <2>1. Stored(w)
      BY <1>i, <1>2, StepTypes
    <2>2. Kept(w)
      BY <1>2, StepKept
    <2>3. \A v \in Drivers \ {w} : Prepared(v)' /\ Driven(v)'
      BY <1>i, <2>1, OthersQuiet DEF Stored
    <2>4. QED
      BY <1>t, <2>2, <2>3 DEF Kept, Invariant, JobsInv
  <1>3. ASSUME NEW w \in Drivers, SerialCall(w)
        PROVE  Invariant'
    <2>1. Kept(w)
      BY <1>i, <1>3, CallKept DEF SerialCall
    <2>2. \A v \in Drivers \ {w} : job'[v].pc = "idle"
      BY <1>i, <1>3, StartFacts DEF SerialCall, Active
    <2>3. \A v \in Drivers \ {w} : Prepared(v)' /\ Driven(v)'
      BY <2>2, Landed
    <2>4. QED
      BY <1>t, <2>1, <2>3 DEF Kept, Invariant, JobsInv
  <1>4. CASE UNCHANGED vars
    <2>1. UNCHANGED <<run, snap, journal, job, applied>>
      BY <1>4 DEF vars
    <2>2. JobsInv'
      BY <1>i, <2>1 DEF JobsInv, Prepared, Driven, Rows, Exists, ChunkRows
    <2>3. QED
      BY <1>i, <1>t, <2>1, <2>2, LogSame DEF Invariant
  <1>5. QED
    BY <1>1, <1>2, <1>3, <1>4 DEF Next

LEMMA Initial == Init => Invariant
  <1> SUFFICES ASSUME Init PROVE Invariant
    OBVIOUS
  <1>1. TypeOK /\ HasRun /\ SerialCalls
    BY TypesInitial, SerialInitial
  <1>2. \A r \in Runs : Rows(r) = {} /\ applied[r] = {}
    BY DEF Init, NoPlan, Absent, Rows
  <1>3. \A r \in Runs, m \in Members : journal[r][m].state = "absent"
    BY DEF Init, NoPlan, Absent
  <1>4. LogInv
    BY <1>2, <1>3 DEF LogInv, JournalInv, AppliedInv, DoneWasApplied, ChunksInOrder, DoneRunIsComplete
  <1>5. JobsInv
    BY DEF Init, Idle, JobsInv, Prepared, Driven, Preparing, Writing
  <1>6. QED
    BY <1>1, <1>4, <1>5 DEF Invariant

-----------------------------------------------------------------------------
(* The journal as a log. *)

LEMMA MarkedLogStep ==
  ASSUME TypeOK, NEW r \in Runs, NEW c, NEW state \in RowStates, journal' = Marked(r, c, state),
         \A m \in ChunkRows(r, c) : journal[r][m].state = "done" => state = "done"
  PROVE  LogStep
  <1> SUFFICES ASSUME NEW q \in Runs, NEW m \in Rows(q)
               PROVE  /\ Restated(journal'[q][m], "done") = Restated(journal[q][m], "done")
                      /\ journal[q][m].state = "done" => journal'[q][m].state = "done"
    BY DEF LogStep
  <1>1. m \in Members /\ journal[q][m] \in Row
    BY DEF Rows, TypeOK
  <1>2. \A row \in Row : /\ Restated(Restated(row, state), "done") = Restated(row, "done")
                         /\ Restated(row, state).state = state
    BY DEF Row, Restated
  <1>3. CASE q = r /\ m \in ChunkRows(r, c)
    <2>1. journal'[q][m] = Restated(journal[q][m], state)
      BY <1>1, <1>3, MarkedType
    <2>2. QED
      BY <1>1, <1>2, <1>3, <2>1
  <1>4. CASE ~(q = r /\ m \in ChunkRows(r, c))
    <2>1. journal'[q][m] = journal[q][m]
      BY <1>1, <1>4, MarkedType
    <2>2. QED
      BY <2>1
  <1>5. QED
    BY <1>3, <1>4

LEMMA StepLogs ==
  ASSUME Invariant, NEW w \in Drivers, Step(w), journal' # journal
  PROVE  LogStep
  <1> DEFINE j == job[w]
  <1>i. TypeOK /\ HasRun /\ LogInv /\ Prepared(w) /\ Driven(w) /\ j \in Job
    BY DEF Invariant, JobsInv, TypeOK
  <1>1. CASE WriteJournal(w)
    <2>1. PICK r \in Runs : r = j.run
      BY <1>1, <1>i DEF HasRun, Active, WriteJournal
    <2>2. Rows(r) = {}
      BY <1>1, <1>i, <2>1 DEF Prepared, WriteJournal
    <2>3. \A q \in Runs \ {r} : journal'[q] = journal[q]
      BY <1>1, <1>i, <2>1 DEF WriteJournal, TypeOK
    <2>4. QED
      BY <2>2, <2>3 DEF LogStep
  <1>2. CASE BeginChunk(w)
    <2>1. PICK r \in Runs : r = j.run
      BY <1>2, <1>i DEF HasRun, Active, BeginChunk
    <2>2. PICK m \in j.todo : journal' = Marked(r, journal[r][m].chunk, "in_flight")
      BY <1>2, <2>1 DEF BeginChunk
    <2>3. m \in Rows(r) /\ journal[r][m].state # "done"
      BY <1>2, <1>i, <2>1 DEF Driven, BeginChunk
    <2>4. \A n \in ChunkRows(r, journal[r][m].chunk) : journal[r][n].state # "done"
      BY <1>i, <2>3 DEF LogInv, ChunksInOrder, ChunkRows
    <2>5. QED
      BY <1>i, <2>2, <2>4, MarkedLogStep DEF RowStates
  <1>3. CASE MarkDone(w) \/ MarkFailed(w)
    <2>1. PICK r \in Runs : r = j.run
      BY <1>3, <1>i DEF HasRun, Active, MarkDone, MarkFailed
    <2>2. j.pc \in Writing
      BY <1>3 DEF MarkDone, MarkFailed, Writing
    <2>3. \A n \in ChunkRows(r, j.chunk) : journal[r][n].state # "done"
      BY <2>1, <2>2, ChunkFacts
    <2>4. journal' = Marked(r, j.chunk, "done") \/ journal' = Marked(r, j.chunk, "failed")
      BY <1>3, <2>1 DEF MarkDone, MarkFailed
    <2>5. QED
      BY <1>i, <2>3, <2>4, MarkedLogStep DEF RowStates
  <1>4. QED
    BY <1>1, <1>2, <1>3 DEF Step, BuildInverse, ReadRoster, WriteSnapshot, CreateRun, LoadJournal,
       SetRunning, Reread, Post, StopFailed, Finish, Reconcile, Raise, Raised, db

LEMMA EveryStepLogs == Invariant /\ [Next]_vars => [LogStep]_journal
  <1> SUFFICES ASSUME Invariant, [Next]_vars, journal' # journal
               PROVE  LogStep
    OBVIOUS
  <1>1. ~Environment
    BY DEF Environment, ExternalEdit, DeleteSnapshot, Crash, db
  <1>2. \A w \in Drivers : ~SerialCall(w)
    BY DEF SerialCall, Call, StartRun, StartResume, StartUndo, db
  <1>3. PICK w \in Drivers : Step(w)
    BY <1>1, <1>2 DEF Next, vars
  <1>4. QED
    BY <1>3, StepLogs

-----------------------------------------------------------------------------
(* The theorems. *)

(* The inductive invariant holds in every reachable state: of the driver's *)
(* calls, of every crash between two of them, and of every resumption.     *)
THEOREM Safe == Spec => []Invariant
  BY Initial, Inductive, PTL DEF Spec

(* No run changes a member in Scoutnet before its run row, snapshot and    *)
(* journal row are committed and the row is marked (run, _drive).          *)
THEOREM WritesAreJournaledFirst == Spec => []JournalFirst
  <1>1. Invariant => JournalFirst
    <2> SUFFICES ASSUME Invariant, NEW r \in Runs, NEW m \in applied[r]
                 PROVE  journal[r][m].state \in Open /\ Exists(r) /\ snap[r] # "none"
      BY DEF JournalFirst
    <2>1. journal[r][m].state \in Open /\ m \in Members
      BY DEF Invariant, LogInv, AppliedInv, TypeOK
    <2>2. m \in Rows(r)
      BY <2>1 DEF Rows, Open
    <2>3. QED
      BY <2>1, <2>2 DEF Invariant, LogInv, JournalInv
  <1>2. QED
    BY <1>1, Safe, PTL

(* A row that says done stands for a change that reached Scoutnet (_drive). *)
THEOREM DoneRowsWereApplied == Spec => []DoneWasApplied
  <1>1. Invariant => DoneWasApplied
    BY DEF Invariant, LogInv
  <1>2. QED
    BY <1>1, Safe, PTL

(* A run that says done has only rows that are done (resume, _drive).      *)
THEOREM DoneRunsAreComplete == Spec => []DoneRunIsComplete
  <1>1. Invariant => DoneRunIsComplete
    BY DEF Invariant, LogInv
  <1>2. QED
    BY <1>1, Safe, PTL

(* Chunks are written strictly one after the other, in order, across       *)
(* crashes and resumptions (_drive).                                       *)
THEOREM ChunksAreSerial == Spec => []ChunksInOrder
  <1>1. Invariant => ChunksInOrder
    BY DEF Invariant, LogInv
  <1>2. QED
    BY <1>1, Safe, PTL

(* No step rewrites what a journal row intends, and none reopens a row     *)
(* that is done (_mark_chunk, _write_journal).                             *)
THEOREM JournalNeverRewritten == Spec => JournalIsLog
  BY Safe, EveryStepLogs, PTL DEF Spec, JournalIsLog
=============================================================================
