------------------------- MODULE WriteServiceProofs -------------------------
(***************************************************************************)
(* What the lock of web/runs.py gives, for any number of worker processes, *)
(* run threads, request threads and runs; and that one process that serves *)
(* everything is enough for all the executor's theorems.                   *)
(***************************************************************************)
EXTENDS WriteService, ExecutorLedgerProofs

(* A job in a web worker was started by the thread that holds the lock,    *)
(* and that thread keeps it until the job is over.                         *)
LockInv ==
  \A d \in Drivers : Active(d) /\ Home[d] \notin Consoles => holder[Home[d]] = d

(* What a request thread has admitted is a request of an endpoint. *)
RequestInv == request \in [Handlers -> {NoRequest} \cup Requests]

(* A thread without a job has forgotten its last one. *)
IdleInv == \A d \in Drivers : ~Active(d) => job[d] = Idle

ServiceInv ==
  /\ TypeOK /\ HasRun
  /\ holder \in [Workers -> Drivers \cup {None}]
  /\ LockInv /\ RequestInv /\ IdleInv

(* The deployment: one process serves all requests and runs all jobs, and  *)
(* nobody writes from the command line.                                    *)
OneProcess == Consoles = {} /\ \A c, d \in Drivers : Home[c] = Home[d]

-----------------------------------------------------------------------------
(* Requests. *)

LEMMA NoRequestType == NoRequest \in Request
  BY NoPlanType DEF NoRequest, Request

LEMMA RequestFields ==
  ASSUME NEW q \in Requests
  PROVE  /\ q \in Request
         /\ \/ q.op = "run" /\ q.kind \in {"uppflyttning", "stage2_verify"} /\ q.plan \in Plans
            \/ q.op \in {"resume", "undo"} /\ q.run \in Runs
  <1>1. ASSUME NEW k \in {"uppflyttning", "stage2_verify"}, NEW p \in Plans
        PROVE  LET a == RunRequest(k, p) IN
               a \in Request /\ a.op = "run" /\ a.kind = k /\ a.plan = p
    <2>1. p \in [Members -> Row]
      BY PlansType
    <2>2. QED
      BY <2>1, NoRequestType DEF Request, RunRequest
  <1>2. ASSUME NEW o \in {"resume", "undo"}, NEW r \in Runs
        PROVE  LET a == IdRequest(o, r) IN a \in Request /\ a.op = o /\ a.run = r
    BY NoRequestType DEF Request, IdRequest
  <1>3. \/ \E k \in {"uppflyttning", "stage2_verify"}, p \in Plans : q = RunRequest(k, p)
        \/ \E o \in {"resume", "undo"}, r \in Runs : q = IdRequest(o, r)
    BY DEF Requests
  <1>4. QED
    BY <1>1, <1>2, <1>3

(* A request that is launched is a call of the executor. *)
LEMMA LaunchCalls ==
  ASSUME RequestInv, NEW h \in Handlers, Launch(h)
  PROVE  \E d \in Drivers : /\ Home[d] = Serves[h] /\ holder[Serves[h]] = None
                            /\ Call(d) /\ ~Active(d)
                            /\ holder' = [holder EXCEPT ![Serves[h]] = d]
                            /\ request' = [request EXCEPT ![h] = NoRequest]
  <1> DEFINE q == request[h]
  <1>1. q \in Requests
    BY DEF RequestInv, Launch
  <1>2. PICK d \in Drivers :
          /\ Home[d] = Serves[h]
          /\ \/ /\ q.op = "run"
                /\ \E r \in Runs : StartRun(d, r, q.kind, q.kind = "uppflyttning", q.plan)
             \/ q.op = "resume" /\ StartResume(d, q.run)
             \/ q.op = "undo" /\ \E r \in Runs : StartUndo(d, r, q.run)
          /\ holder' = [holder EXCEPT ![Serves[h]] = d]
    BY DEF Launch
  <1> HIDE DEF q
  <1>3. Call(d) /\ ~Active(d)
    <2>1. CASE q.op = "run" /\ \E r \in Runs : StartRun(d, r, q.kind, q.kind = "uppflyttning", q.plan)
      <3>1. PICK r \in Runs : StartRun(d, r, q.kind, q.kind = "uppflyttning", q.plan)
        BY <2>1
      <3>2. q.kind \in Kinds /\ q.plan \in Plans /\ (q.kind = "uppflyttning") \in BOOLEAN
        BY <1>1, <2>1, RequestFields DEF Kinds
      <3>3. ~Active(d)
        BY <3>1 DEF StartRun
      <3>4. QED
        BY <3>1, <3>2, <3>3 DEF Call
    <2>2. CASE q.op = "resume" /\ StartResume(d, q.run)
      BY <1>1, <2>2, RequestFields DEF Call, StartResume
    <2>3. CASE q.op = "undo" /\ \E r \in Runs : StartUndo(d, r, q.run)
      BY <1>1, <2>3, RequestFields DEF Call, StartUndo
    <2>4. QED
      BY <1>2, <2>1, <2>2, <2>3
  <1>4. QED
    BY <1>2, <1>3 DEF Launch

LEMMA ConsoleCalls ==
  ASSUME NEW d \in Drivers, ConsoleCall(d)
  PROVE  Call(d) /\ ~Active(d) /\ Home[d] \in Consoles /\ UNCHANGED <<holder, request>>
  <1>1. ASSUME NEW r \in Runs, NEW p \in Plans, StartRun(d, r, "stage2_verify", TRUE, p)
        PROVE  Call(d) /\ ~Active(d)
    BY <1>1 DEF Call, Kinds, StartRun
  <1>2. ASSUME NEW r \in Runs, NEW p \in Runs, StartUndo(d, r, p)
        PROVE  Call(d) /\ ~Active(d)
    BY <1>2 DEF Call, StartUndo
  <1>3. QED
    BY <1>1, <1>2 DEF ConsoleCall

-----------------------------------------------------------------------------
(* A thread without a job. *)

(* A step goes on to another, or leaves no trace of the job. *)
LEMMA StepEnds ==
  ASSUME TypeOK, HasRun, NEW w \in Drivers, Step(w)
  PROVE  job'[w] = Idle \/ job'[w].pc # "idle"
  <1> DEFINE j == job[w]
  <1>j. j \in Job /\ job \in [Drivers -> Job]
    BY DEF TypeOK
  <1>1. ASSUME NEW pc \in Steps, Goto(w, pc)
        PROVE  job'[w].pc # "idle"
    BY <1>1, GotoFields DEF Steps
  <1>2. ASSUME Exit(w)
        PROVE  job'[w] = Idle
    BY <1>2, ExitFacts
  <1>3. CASE BuildInverse(w) \/ LoadJournal(w)
    <2>1. \/ \E plan : job'[w] = [j EXCEPT !.pc = "read", !.plan = plan]
          \/ \E D : job'[w] = [j EXCEPT !.pc = "running", !.items = D, !.todo = D]
          \/ job'[w] = [j EXCEPT !.pc = "raised"]
      BY <1>3, <1>j DEF BuildInverse, LoadJournal
    <2> HIDE DEF j
    <2>2. QED
      BY <1>j, <2>1 DEF Job
  <1>4. CASE ReadRoster(w)
    <2>1. \E plan : job'[w] = [j EXCEPT !.pc = "snapshot", !.plan = plan]
      BY <1>4, <1>j DEF ReadRoster
    <2> HIDE DEF j
    <2>2. QED
      BY <1>j, <2>1 DEF Job
  <1>5. CASE WriteJournal(w)
    <2>1. \E D : job'[w] = [j EXCEPT !.pc = "next", !.plan = NoPlan, !.items = D, !.todo = D]
      BY <1>5, <1>j DEF WriteJournal
    <2> HIDE DEF j
    <2>2. QED
      BY <1>j, <2>1 DEF Job
  <1>6. CASE BeginChunk(w)
    <2>1. \E c, T : job'[w] = [j EXCEPT !.pc = "reread", !.chunk = c, !.todo = T]
      BY <1>6, <1>j DEF BeginChunk
    <2> HIDE DEF j
    <2>2. QED
      BY <1>j, <2>1 DEF Job
  <1>7. CASE WriteSnapshot(w) \/ CreateRun(w) \/ SetRunning(w) \/ Reread(w) \/ Post(w)
             \/ MarkDone(w) \/ MarkFailed(w) \/ Finish(w) \/ Raise(w)
    BY <1>1, <1>7 DEF WriteSnapshot, CreateRun, SetRunning, Reread, Post, MarkDone, MarkFailed,
       Finish, Raise, Steps
  <1>8. CASE StopFailed(w) \/ Reconcile(w) \/ Raised(w)
    BY <1>2, <1>8 DEF StopFailed, Reconcile, Raised
  <1>9. QED
    BY <1>3, <1>4, <1>5, <1>6, <1>7, <1>8 DEF Step

LEMMA CallBegins ==
  ASSUME TypeOK, NEW w \in Drivers, Call(w)
  PROVE  job'[w].pc # "idle"
  <1>1. ASSUME NEW r \in Runs, NEW k \in Kinds, NEW b \in BOOLEAN, NEW plan \in Plans,
               StartRun(w, r, k, b, plan)
        PROVE  job'[w].pc # "idle"
    BY <1>1 DEF StartRun, TypeOK, Idle
  <1>2. ASSUME NEW r \in Runs, StartResume(w, r)
        PROVE  job'[w].pc # "idle"
    BY <1>2 DEF StartResume, TypeOK, Idle
  <1>3. ASSUME NEW r \in Runs, NEW p \in Runs, StartUndo(w, r, p)
        PROVE  job'[w].pc # "idle"
    BY <1>3 DEF StartUndo, TypeOK, Idle
  <1>4. QED
    BY <1>1, <1>2, <1>3 DEF Call

-----------------------------------------------------------------------------
(* Every action keeps the lock. *)

LEMMA ServiceStarts == ServiceInit => ServiceInv
  <1> SUFFICES ASSUME ServiceInit PROVE ServiceInv
    OBVIOUS
  <1>1. TypeOK /\ HasRun
    BY TypesInitial DEF ServiceInit
  <1>2. LockInv /\ IdleInv
    BY DEF ServiceInit, Init, LockInv, IdleInv, Active, Idle
  <1>3. QED
    BY <1>1, <1>2 DEF ServiceInit, ServiceInv, RequestInv

LEMMA AdmitKeeps ==
  ASSUME ServiceInv, NEW h \in Handlers, NEW q \in Requests, Admit(h, q)
  PROVE  ServiceInv'
  <1>1. RequestInv'
    BY DEF ServiceInv, RequestInv, Admit
  <1>2. UNCHANGED <<vars, holder>>
    BY DEF Admit
  <1>3. TypeOK' /\ HasRun'
    BY <1>2, TypesInductive DEF ServiceInv
  <1>4. QED
    BY <1>1, <1>2, <1>3 DEF ServiceInv, LockInv, IdleInv, Active, vars

LEMMA RefuseKeeps ==
  ASSUME ServiceInv, NEW h \in Handlers, Refuse(h)
  PROVE  ServiceInv'
  <1>1. RequestInv'
    BY DEF ServiceInv, RequestInv, Refuse
  <1>2. UNCHANGED <<vars, holder>>
    BY DEF Refuse
  <1>3. TypeOK' /\ HasRun'
    BY <1>2, TypesInductive DEF ServiceInv
  <1>4. QED
    BY <1>1, <1>2, <1>3 DEF ServiceInv, LockInv, IdleInv, Active, vars

LEMMA LaunchKeeps ==
  ASSUME ServiceInv, NEW h \in Handlers, Launch(h)
  PROVE  ServiceInv'
  <1>1. PICK d \in Drivers : /\ Home[d] = Serves[h] /\ holder[Serves[h]] = None
                             /\ Call(d) /\ ~Active(d)
                             /\ holder' = [holder EXCEPT ![Serves[h]] = d]
                             /\ request' = [request EXCEPT ![h] = NoRequest]
    BY LaunchCalls DEF ServiceInv
  <1>2. TypeOK' /\ HasRun' /\ \A c \in Drivers \ {d} : job'[c] = job[c]
    BY <1>1, StartTypes, StartFacts DEF ServiceInv
  <1>3. Serves[h] \in Workers \ Consoles
    BY ServesType
  <1>4. LockInv'
    <2> SUFFICES ASSUME NEW c \in Drivers, Active(c)', Home[c] \notin Consoles
                 PROVE  holder'[Home[c]] = c
      BY DEF LockInv
    <2>1. CASE c = d
      BY <1>1, <1>3, <2>1 DEF ServiceInv
    <2>2. CASE c # d
      <3>1. Active(c)
        BY <1>2, <2>2 DEF Active
      <3>2. holder[Home[c]] = c
        BY <3>1 DEF ServiceInv, LockInv
      <3>3. Home[c] # Serves[h]
        BY <1>1, <3>2, NoneIsNoDriver
      <3>4. QED
        BY <1>1, <3>2, <3>3, HomeType DEF ServiceInv
    <2>3. QED
      BY <2>1, <2>2
  <1>5. IdleInv'
    BY <1>1, <1>2, CallBegins DEF ServiceInv, IdleInv, Active
  <1>6. RequestInv'
    BY <1>1 DEF ServiceInv, RequestInv
  <1>7. holder' \in [Workers -> Drivers \cup {None}]
    BY <1>1, <1>3 DEF ServiceInv
  <1>8. QED
    BY <1>2, <1>4, <1>5, <1>6, <1>7 DEF ServiceInv

LEMMA ReleaseKeeps ==
  ASSUME ServiceInv, NEW k \in Workers, Release(k)
  PROVE  ServiceInv'
  <1>1. UNCHANGED <<vars, request>> /\ holder' = [holder EXCEPT ![k] = None]
    BY DEF Release
  <1>2. TypeOK' /\ HasRun'
    BY <1>1, TypesInductive DEF ServiceInv
  <1>3. holder' \in [Workers -> Drivers \cup {None}] /\ RequestInv' /\ IdleInv'
    BY <1>1 DEF ServiceInv, RequestInv, IdleInv, Active, vars
  <1>4. LockInv'
    <2> SUFFICES ASSUME NEW c \in Drivers, Active(c)', Home[c] \notin Consoles
                 PROVE  holder'[Home[c]] = c
      BY DEF LockInv
    <2>1. Active(c) /\ holder[Home[c]] = c
      BY <1>1 DEF ServiceInv, LockInv, Active, vars
    <2>2. Home[c] # k
      BY <2>1 DEF Release
    <2>3. QED
      BY <1>1, <2>1, <2>2, HomeType DEF ServiceInv
  <1>5. QED
    BY <1>2, <1>3, <1>4 DEF ServiceInv

LEMMA WorkerCrashKeeps ==
  ASSUME ServiceInv, NEW k \in Workers, WorkerCrash(k)
  PROVE  ServiceInv'
  <1>1. \A d \in Drivers : job'[d] = IF Home[d] = k THEN Idle ELSE job[d]
    BY DEF WorkerCrash
  <1>2. job' \in [Drivers -> Job]
    BY IdleType DEF WorkerCrash, ServiceInv, TypeOK
  <1>3. TypeOK' /\ HasRun'
    BY <1>1, <1>2 DEF WorkerCrash, ServiceInv, TypeOK, HasRun, Active, Idle, db
  <1>4. LockInv'
    <2> SUFFICES ASSUME NEW c \in Drivers, Active(c)', Home[c] \notin Consoles
                 PROVE  holder'[Home[c]] = c
      BY DEF LockInv
    <2>1. Home[c] # k /\ Active(c)
      BY <1>1 DEF Active, Idle
    <2>2. holder[Home[c]] = c
      BY <2>1 DEF ServiceInv, LockInv
    <2>3. QED
      BY <2>1, <2>2, HomeType DEF ServiceInv, WorkerCrash
  <1>5. IdleInv'
    BY <1>1 DEF ServiceInv, IdleInv, Active
  <1>6. holder' \in [Workers -> Drivers \cup {None}] /\ RequestInv'
    BY DEF ServiceInv, RequestInv, WorkerCrash
  <1>7. QED
    BY <1>3, <1>4, <1>5, <1>6 DEF ServiceInv

LEMMA ConsoleCallKeeps ==
  ASSUME ServiceInv, NEW d \in Drivers, ConsoleCall(d)
  PROVE  ServiceInv'
  <1>1. Call(d) /\ ~Active(d) /\ Home[d] \in Consoles /\ UNCHANGED <<holder, request>>
    BY ConsoleCalls
  <1>2. TypeOK' /\ HasRun' /\ \A c \in Drivers \ {d} : job'[c] = job[c]
    BY <1>1, StartTypes, StartFacts DEF ServiceInv
  <1>3. IdleInv'
    BY <1>1, <1>2, CallBegins DEF ServiceInv, IdleInv, Active
  <1>4. QED
    BY <1>1, <1>2, <1>3 DEF ServiceInv, LockInv, RequestInv, Active

LEMMA ServiceStepKeeps ==
  ASSUME ServiceInv, NEW d \in Drivers, Step(d), UNCHANGED <<holder, request>>
  PROVE  ServiceInv'
  <1>1. TypeOK' /\ Stored(d)
    BY StepTypes DEF ServiceInv
  <1>2. HasRun'
    BY <1>1, HasRunStep DEF ServiceInv
  <1>3. IdleInv'
    BY <1>1, StepEnds DEF ServiceInv, IdleInv, Active, Stored
  <1>4. LockInv'
    BY <1>1 DEF ServiceInv, LockInv, Active, Stored
  <1>5. QED
    BY <1>1, <1>2, <1>3, <1>4 DEF ServiceInv, RequestInv

LEMMA OthersKeep ==
  ASSUME ServiceInv, Environment, UNCHANGED <<job, holder, request>>
  PROVE  ServiceInv'
  BY EnvironmentTypes DEF ServiceInv, LockInv, RequestInv, IdleInv, Active

LEMMA ServiceSteps == ServiceInv /\ [ServiceNext]_svars => ServiceInv'
  <1> SUFFICES ASSUME ServiceInv, [ServiceNext]_svars
               PROVE  ServiceInv'
    OBVIOUS
  <1>1. ASSUME NEW h \in Handlers, (\E q \in Requests : Admit(h, q)) \/ Launch(h) \/ Refuse(h)
        PROVE  ServiceInv'
    BY <1>1, AdmitKeeps, LaunchKeeps, RefuseKeeps
  <1>2. ASSUME NEW k \in Workers, Release(k) \/ WorkerCrash(k)
        PROVE  ServiceInv'
    BY <1>2, ReleaseKeeps, WorkerCrashKeeps
  <1>3. ASSUME NEW d \in Drivers,
               ConsoleCall(d) \/ (Step(d) /\ UNCHANGED <<holder, request>>)
        PROVE  ServiceInv'
    BY <1>3, ConsoleCallKeeps, ServiceStepKeeps
  <1>4. ASSUME NEW m \in Members, NEW p \in ForeignEdits, ExternalEdit(m, p),
               UNCHANGED <<holder, request>>
        PROVE  ServiceInv'
    BY <1>4, OthersKeep DEF Environment, ExternalEdit
  <1>5. ASSUME NEW r \in Runs, DeleteSnapshot(r), UNCHANGED <<holder, request>>
        PROVE  ServiceInv'
    BY <1>5, OthersKeep DEF Environment, DeleteSnapshot
  <1>6. CASE UNCHANGED svars
    <2>1. UNCHANGED <<vars, holder, request>>
      BY <1>6 DEF svars
    <2>2. TypeOK' /\ HasRun'
      BY <2>1, TypesInductive DEF ServiceInv
    <2>3. QED
      BY <2>1, <2>2 DEF ServiceInv, LockInv, RequestInv, IdleInv, Active, vars
  <1>7. QED
    BY <1>1, <1>2, <1>3, <1>4, <1>5, <1>6 DEF ServiceNext

-----------------------------------------------------------------------------
(* One process. *)

(* All jobs are under one lock, so at most one is active. *)
LEMMA OneActive ==
  ASSUME OneProcess, ServiceInv
  PROVE  SerialCalls
  BY DEF OneProcess, ServiceInv, LockInv, SerialCalls

(* Every step of the service is one of the executor, called serially. *)
LEMMA ServiceStepMaps ==
  ASSUME OneProcess, ServiceInv, [ServiceNext]_svars
  PROVE  [Next]_vars
  <1>1. ASSUME NEW h \in Handlers, (\E q \in Requests : Admit(h, q)) \/ Refuse(h)
        PROVE  UNCHANGED vars
    BY <1>1 DEF Admit, Refuse
  <1>2. ASSUME NEW h \in Handlers, Launch(h)
        PROVE  Next
    <2>1. PICK d \in Drivers : Home[d] = Serves[h] /\ holder[Serves[h]] = None /\ Call(d)
      BY <1>2, LaunchCalls DEF ServiceInv
    <2>2. \A c \in Drivers : ~Active(c)
      BY <2>1, NoneIsNoDriver DEF OneProcess, ServiceInv, LockInv
    <2>3. QED
      BY <2>1, <2>2 DEF SerialCall, Next
  <1>3. ASSUME NEW k \in Workers, Release(k)
        PROVE  UNCHANGED vars
    BY <1>3 DEF Release
  <1>4. ASSUME NEW k \in Workers, WorkerCrash(k)
        PROVE  [Next]_vars
    <2>0. /\ \A c \in Drivers : job'[c] = IF Home[c] = k THEN Idle ELSE job[c]
          /\ job' \in [Drivers -> Job] /\ job \in [Drivers -> Job]
          /\ UNCHANGED <<register, edits, db, applied>>
      BY <1>4, IdleType DEF WorkerCrash, ServiceInv, TypeOK
    <2>1. CASE \E d \in Drivers : Active(d) /\ Home[d] = k
      <3>1. PICK d \in Drivers : Active(d) /\ Home[d] = k
        BY <2>1
      <3>2. \A c \in Drivers \ {d} : job[c] = Idle
        BY <3>1, OneActive DEF SerialCalls, ServiceInv, IdleInv
      <3>3. job' = [job EXCEPT ![d] = Idle]
        BY <2>0, <3>1, <3>2
      <3>4. Crash(d)
        BY <2>0, <3>1, <3>3 DEF Crash, Exit
      <3>5. QED
        BY <3>4 DEF Next, Environment
    <2>2. CASE ~\E d \in Drivers : Active(d) /\ Home[d] = k
      <3>1. \A c \in Drivers : job'[c] = job[c]
        BY <2>0, <2>2 DEF ServiceInv, IdleInv
      <3>2. job' = job
        BY <2>0, <3>1
      <3>3. QED
        BY <2>0, <3>2 DEF vars, db
    <2>3. QED
      BY <2>1, <2>2
  <1>5. ASSUME NEW d \in Drivers,
               ConsoleCall(d) \/ (Step(d) /\ UNCHANGED <<holder, request>>)
        PROVE  Next
    BY <1>5, ConsoleCalls DEF OneProcess, Next
  <1>6. ASSUME \/ \E m \in Members, p \in ForeignEdits : ExternalEdit(m, p)
               \/ \E r \in Runs : DeleteSnapshot(r)
        PROVE  Next
    BY <1>6 DEF Next, Environment
  <1>7. CASE UNCHANGED svars
    BY <1>7 DEF svars
  <1>8. QED
    BY <1>1, <1>2, <1>3, <1>4, <1>5, <1>6, <1>7 DEF ServiceNext

-----------------------------------------------------------------------------
(* The theorems. *)

(* In every deployment, the lock of a worker is held by the thread whose   *)
(* job is under way, from the launch to the end of the job or the crash of *)
(* the process (RunManager.launch).                                        *)
THEOREM LockCoversTheJob == ServiceSpec => []ServiceInv
  BY ServiceStarts, ServiceSteps, PTL DEF ServiceSpec

(* The values stored keep their types, also with several processes and a   *)
(* command line beside them.                                               *)
THEOREM ServiceTypesCorrect == ServiceSpec => []ServiceTypeOK
  <1>1. ServiceInv => ServiceTypeOK
    <2>1. {NoRequest} \cup Requests \subseteq Request
      BY NoRequestType, RequestFields
    <2>2. ServiceInv => request \in [Handlers -> Request]
      BY <2>1 DEF ServiceInv, RequestInv
    <2>3. QED
      BY <2>2 DEF ServiceInv, ServiceTypeOK
  <1>2. QED
    BY <1>1, LockCoversTheJob, PTL

(* A web worker runs one job at a time, however many requests were         *)
(* admitted before the first of them was launched, and whatever the other  *)
(* processes do (RunManager.launch).                                       *)
THEOREM WorkersAreSerial == ServiceSpec => []OneRunPerWorker
  <1>1. ServiceInv => OneRunPerWorker
    BY DEF ServiceInv, LockInv, OneRunPerWorker
  <1>2. QED
    BY <1>1, LockCoversTheJob, PTL

(* With one process, at most one run is active.                            *)
THEOREM RunsAreSerial ==
  ASSUME OneProcess
  PROVE  ServiceSpec => []OneRunAtATime
  <1>1. ServiceInv => OneRunAtATime
    BY OneActive DEF SerialCalls, OneRunAtATime
  <1>2. QED
    BY <1>1, LockCoversTheJob, PTL

(* With one process, whatever the endpoints, the lock and a crash of the   *)
(* process do is what the executor's specification allows: its theorems    *)
(* hold of the service.                                                    *)
THEOREM ServiceIsExecutor ==
  ASSUME OneProcess
  PROVE  ServiceSpec => Spec
  <1>1. ServiceInit => Init
    BY DEF ServiceInit
  <1>2. ServiceInv /\ [ServiceNext]_svars => [Next]_vars
    BY ServiceStepMaps
  <1>3. QED
    BY <1>1, <1>2, LockCoversTheJob, PTL DEF ServiceSpec, Spec

(* Among them that no member is changed before the change is journaled,    *)
(* and that done rows stand for changes that reached Scoutnet.             *)
THEOREM ServiceIsSafe ==
  ASSUME OneProcess
  PROVE  ServiceSpec => [](Invariant /\ JournalFirst)
  BY ServiceIsExecutor, Safe, WritesAreJournaledFirst, PTL

(* And that whatever requests are admitted and launched, the service keeps *)
(* the ledger of BulkMove, an undo reverses its parent's done rows, and a  *)
(* verification stays on the allowlist.                                    *)
THEOREM ServiceKeepsTheLedger ==
  ASSUME OneProcess
  PROVE  ServiceSpec => KeepsTheLedger /\ [](UndoMirrorsParent /\ VerifyStaysOnAllowlist)
  BY ServiceIsExecutor, ExecutorKeepsTheLedger, UndosMirrorTheirParents,
     VerificationsStayOnTheAllowlist, PTL
=============================================================================
