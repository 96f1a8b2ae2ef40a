---------------------------- MODULE WriteService ----------------------------
(***************************************************************************)
(* The web side of a write run: the endpoints of web/writes.py and the     *)
(* RunManager of web/runs.py, composed with the executor.                  *)
(*                                                                         *)
(* Each worker process has a lock and serves requests on several threads.  *)
(* A request is admitted when the worker's lock is free and no write_run   *)
(* row says running; only later does it try the lock and start a run       *)
(* thread.  Drivers are the run threads; Home[d] is the process of d.  A   *)
(* process in Consoles is a command line: it calls the executor itself,    *)
(* without the lock and without looking at the database.                   *)
(***************************************************************************)
EXTENDS WriteExecutor

CONSTANTS
  Workers,   \* processes: web workers and command lines
  Consoles,  \* those of them that are command lines
  Home,      \* process of each run thread
  Handlers,  \* request threads
  Serves     \* process of each request thread

ASSUME ConsolesType == Consoles \subseteq Workers
ASSUME HomeType     == Home \in [Drivers -> Workers]
ASSUME ServesType   == Serves \in [Handlers -> Workers \ Consoles]
ASSUME NoneIsNoDriver == None \notin Drivers

VARIABLES
  holder,   \* run thread that holds the RunManager lock of a worker
  request   \* request each request thread has admitted but not launched

svars == <<vars, holder, request>>

Request == [op : {"none", "run", "resume", "undo"}, run : Runs \cup {None},
            kind : {"uppflyttning", "stage2_verify"}, plan : [Members -> Row]]

NoRequest == [op |-> "none", run |-> None, kind |-> "uppflyttning", plan |-> NoPlan]

RunRequest(k, p) == [NoRequest EXCEPT !.op = "run", !.kind = k, !.plan = p]
IdRequest(o, r)  == [NoRequest EXCEPT !.op = o, !.run = r]

Requests ==
  {RunRequest(k, p) : k \in {"uppflyttning", "stage2_verify"}, p \in Plans}
  \cup {IdRequest(o, r) : o \in {"resume", "undo"}, r \in Runs}

ServiceTypeOK ==
  /\ TypeOK
  /\ holder \in [Workers -> Drivers \cup {None}]
  /\ request \in [Handlers -> Request]

ServiceInit ==
  /\ Init
  /\ holder = [k \in Workers |-> None]
  /\ request = [h \in Handlers |-> NoRequest]

-----------------------------------------------------------------------------

(* _busy: this worker's lock, then the rows of all workers. *)
Busy(k) == holder[k] # None \/ \E r \in Runs : run[r].state = "running"

(* The endpoint up to and including its busy check; a refused request      *)
(* leaves no trace.                                                        *)
Admit(h, q) ==
  /\ request[h] = NoRequest
  /\ ~Busy(Serves[h])
  /\ q.op = "run" => Permitted(q.kind, q.plan)
  /\ q.op = "undo" => UndoAvailable(q.run)
  /\ request' = [request EXCEPT ![h] = q]
  /\ UNCHANGED <<vars, holder>>

(* Mutants: the lock is taken over instead of tried; its token names the   *)
(* process instead of the thread.                                          *)
LaunchOverHeldLock(h) ==
  LET k == Serves[h]  q == request[h] IN
  /\ q # NoRequest
  /\ \E d \in Drivers :
       /\ Home[d] = k
       /\ \/ /\ q.op = "run"
             /\ \E r \in Runs : StartRun(d, r, q.kind, q.kind = "uppflyttning", q.plan)
          \/ q.op = "resume" /\ StartResume(d, q.run)
          \/ q.op = "undo" /\ \E r \in Runs : StartUndo(d, r, q.run)
       /\ holder' = [holder EXCEPT ![k] = d]
  /\ request' = [request EXCEPT ![h] = NoRequest]

LaunchForProcess(h) ==
  LET k == Serves[h]  q == request[h] IN
  /\ q # NoRequest /\ holder[k] = None
  /\ \E d \in Drivers :
       /\ Home[d] = k /\ q.op = "resume" /\ StartResume(d, q.run)
       /\ holder' = [holder EXCEPT ![k] = k]
  /\ request' = [request EXCEPT ![h] = NoRequest]

(* RunManager.launch with the lock free: the run thread starts. *)
Launch(h) ==
  LET k == Serves[h]  q == request[h] IN
  /\ q # NoRequest /\ holder[k] = None
  /\ \E d \in Drivers :
       /\ Home[d] = k
       /\ \/ /\ q.op = "run"
             /\ \E r \in Runs : StartRun(d, r, q.kind, q.kind = "uppflyttning", q.plan)
          \/ q.op = "resume" /\ StartResume(d, q.run)
          \/ q.op = "undo" /\ \E r \in Runs : StartUndo(d, r, q.run)
       /\ holder' = [holder EXCEPT ![k] = d]
  /\ request' = [request EXCEPT ![h] = NoRequest]

(* RunManager.launch with the lock taken raises RunBusy.  A request is also *)
(* dropped when this model's bounded supply of run ids is used up.          *)
Refuse(h) ==
  /\ request[h] # NoRequest
  /\ holder[Serves[h]] # None \/ \A r \in Runs : ~Fresh(r)
  /\ request' = [request EXCEPT ![h] = NoRequest]
  /\ UNCHANGED <<vars, holder>>

(* Mutant: the lock is released on the way out of a successful job only.   *)
ReleaseOnSuccess(k) ==
  /\ holder[k] # None /\ ~Active(holder[k])
  /\ \A r \in Runs : run[r].state # "failed"
  /\ holder' = [holder EXCEPT ![k] = None]
  /\ UNCHANGED <<vars, request>>

(* The finally clause of the thread's wrapper, once the job has returned   *)
(* or raised.                                                              *)
Release(k) ==
  /\ holder[k] # None /\ ~Active(holder[k])
  /\ holder' = [holder EXCEPT ![k] = None]
  /\ UNCHANGED <<vars, request>>

(* verify-write on the command line: straight to the executor. *)
ConsoleCall(d) ==
  /\ Home[d] \in Consoles
  /\ \E r \in Runs :
       \/ \E p \in Plans : StartRun(d, r, "stage2_verify", TRUE, p)
       \/ \E p \in Runs : StartUndo(d, r, p)
  /\ UNCHANGED <<holder, request>>

(* A worker process dies with its run thread, its lock and its requests.   *)
WorkerCrash(k) ==
  /\ job' = [d \in Drivers |-> IF Home[d] = k THEN Idle ELSE job[d]]
  /\ holder' = [holder EXCEPT ![k] = None]
  /\ request' = [h \in Handlers |-> IF Serves[h] = k THEN NoRequest ELSE request[h]]
  /\ UNCHANGED <<register, edits, db, applied>>

ServiceNext ==
  \/ \E h \in Handlers : (\E q \in Requests : Admit(h, q)) \/ Launch(h) \/ Refuse(h)
  \/ \E k \in Workers : Release(k) \/ WorkerCrash(k)
  \/ \E d \in Drivers : ConsoleCall(d) \/ (Step(d) /\ UNCHANGED <<holder, request>>)
  \/ /\ \/ \E m \in Members, p \in ForeignEdits : ExternalEdit(m, p)
        \/ \E r \in Runs : DeleteSnapshot(r)
     /\ UNCHANGED <<holder, request>>

ServiceSpec == ServiceInit /\ [][ServiceNext]_svars

(* Threads are scheduled; and an operator asks again and again for every   *)
(* run to be resumed.  Nothing forces a crash, an edit or a new run.       *)
FairServiceSpec ==
  /\ ServiceSpec
  /\ \A d \in Drivers : WF_svars(Step(d) /\ UNCHANGED <<holder, request>>)
  /\ \A k \in Workers : WF_svars(Release(k))
  /\ \A h \in Handlers :
       /\ WF_svars(Launch(h) \/ Refuse(h))
       /\ \A r \in Runs : WF_svars(Admit(h, IdRequest("resume", r)))

-----------------------------------------------------------------------------
(* Properties. *)

(* A web worker has at most one job, however many requests passed its busy *)
(* check before the first of them was launched, and whatever a command line *)
(* does meanwhile (RunManager.launch).                                     *)
OneRunPerWorker ==
  \A c, d \in Drivers :
    Active(c) /\ Active(d) /\ Home[c] = Home[d] /\ Home[d] \notin Consoles => c = d

(* At most one write run is active, in whatever process (web/runs.py).     *)
OneRunAtATime == \A c, d \in Drivers : Active(c) /\ Active(d) => c = d

(* Whatever a job does, its worker can take the next one: the lock is      *)
(* always released again (RunManager.launch).                              *)
LockIsReleased == \A k \in Workers : holder[k] # None ~> holder[k] = None

(* A run whose job is gone while its row says running and its journal is   *)
(* written is taken up again by resume (api_resume, WriteRun).             *)
Interrupted(r) ==
  /\ run[r].state = "running" /\ Rows(r) # {}
  /\ \A d \in Drivers : job[d].run # r

InterruptedRunRecovers == \A r \in Runs : Interrupted(r) ~> ~Interrupted(r)
=============================================================================
