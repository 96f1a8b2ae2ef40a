---------------------------- MODULE WriteExecutor ----------------------------
(***************************************************************************)
(* The bulk-write executor of write/executor.py: preflight against a fresh *)
(* roster, snapshot, journal, the serial chunk loop, reconciliation, and   *)
(* the two ways a run is taken up again (resume, undo).                    *)
(*                                                                         *)
(* A driver is whatever calls the executor: the run thread of a web worker *)
(* or a command-line process.  Database rows and the snapshot survive a    *)
(* crash of the driver; its job does not.  Other people edit the register  *)
(* in Scoutnet at any time.                                                *)
(*                                                                         *)
(* Every database transaction, every read of the roster and every POST is  *)
(* one step, so a crash, an edit or another driver can fall between any    *)
(* two of them.                                                            *)
(***************************************************************************)
EXTENDS Integers, FiniteSets

CONSTANTS
  Members,           \* member numbers
  Troops,            \* troop ids (avdelningar)
  Patrols,           \* patrol ids (patruller)
  Runs,              \* ids uuid4 may hand out; bounds the number of runs
  Drivers,           \* threads or processes that call the executor
  Allowlist,         \* settings.write_allowlist
  ChunkSize,         \* settings.chunk_size
  InitialRegisters,  \* what Scoutnet may hold at the start
  ForeignEdits,      \* placements other people may give a member in Scoutnet
  MaxEdits,          \* bound on the number of such edits
  None               \* Python's None

Statuses == {"active", "other", "gone"}  \* "2", any other code, not in the roster

Placements == [troop : Troops \cup {None}, patrol : Patrols \cup {None},
               status : Statuses, leader : BOOLEAN]

ASSUME MembersFinite == IsFiniteSet(Members)
ASSUME AllowlistType == Allowlist \subseteq Members
ASSUME ChunkSizeType == ChunkSize \in Nat \ {0}
ASSUME MaxEditsType  == MaxEdits \in Nat
ASSUME NoneIsNoId    == None \notin Troops \cup Patrols \cup Runs
ASSUME InitialType   == InitialRegisters \subseteq [Members -> Placements]
ASSUME EditsType     == ForeignEdits \subseteq Placements

VARIABLES
  register,  \* Scoutnet: placement of each member
  edits,     \* edits others have made so far
  run,       \* write_run rows
  snap,      \* snapshot row and file of each run
  journal,   \* write_journal rows
  job,       \* what each driver is doing
  applied    \* history: members each run has changed in Scoutnet

db     == <<run, snap, journal>>
vars   == <<register, edits, run, snap, journal, job, applied>>

-----------------------------------------------------------------------------
(* Records. *)

RowStates == {"absent", "intended", "pending", "in_flight", "failed", "done"}

(* A journal row; with state "intended" it is an IntendedMove that has not *)
(* yet been compared with the roster.                                      *)
Row == [state : RowStates, chunk : Nat,
        source : Troops \cup {None}, target : Troops \cup {None},
        sourcePatrol : Patrols \cup {None}, targetPatrol : Patrols \cup {None}]

Absent == [state |-> "absent", chunk |-> 0, source |-> None, target |-> None,
           sourcePatrol |-> None, targetPatrol |-> None]

Intended(source, target, patrol) ==
  [Absent EXCEPT !.state = "intended", !.source = source,
                 !.target = target, !.targetPatrol = patrol]

NoPlan == [m \in Members |-> Absent]

Kinds     == {"uppflyttning", "stage2_verify", "undo"}
RunStates == {"none", "running", "failed", "done"}
RunRow    == [state : RunStates, kind : Kinds \cup {None}, parent : Runs \cup {None}]
NoRun     == [state |-> "none", kind |-> None, parent |-> None]

Steps == {"inverse", "read", "snapshot", "create", "journal", "load", "running",
          "next", "reread", "post", "ack", "nack", "stop", "reconcile", "raised"}

Job == [pc : Steps \cup {"idle"}, op : {"run", "resume", "undo"},
        run : Runs \cup {None}, kind : Kinds \cup {None}, parent : Runs \cup {None},
        noLeaders : BOOLEAN, plan : [Members -> Row],
        items : SUBSET Members, todo : SUBSET Members, chunk : Nat]

Idle == [pc |-> "idle", op |-> "run", run |-> None, kind |-> None, parent |-> None,
         noLeaders |-> FALSE, plan |-> NoPlan, items |-> {}, todo |-> {}, chunk |-> 0]

TypeOK ==
  /\ register \in [Members -> Placements]
  /\ edits \in 0..MaxEdits
  /\ run \in [Runs -> RunRow]
  /\ snap \in [Runs -> {"none", "kept", "deleted"}]
  /\ journal \in [Runs -> [Members -> Row]]
  /\ job \in [Drivers -> Job]
  /\ applied \in [Runs -> SUBSET Members]

Init ==
  /\ register \in InitialRegisters
  /\ edits = 0
  /\ run = [r \in Runs |-> NoRun]
  /\ snap = [r \in Runs |-> "none"]
  /\ journal = [r \in Runs |-> NoPlan]
  /\ job = [w \in Drivers |-> Idle]
  /\ applied = [r \in Runs |-> {}]

-----------------------------------------------------------------------------
(* Queries. *)

Rows(r) == {m \in Members : journal[r][m].state # "absent"}

Exists(r) == run[r].state # "none"

(* undo_available: the run and a snapshot row for it exist. *)
UndoAvailable(r) == Exists(r) /\ snap[r] = "kept"

(* No trace of the id anywhere: uuid4 never repeats one. *)
Fresh(r) == ~Exists(r) /\ snap[r] = "none" /\ \A w \in Drivers : job[w].run # r

Active(w) == job[w].pc # "idle"

(* Mutant: the leader rule is gone. *)
WillApplyToLeaders(move, p, noLeaders) ==
  /\ p.status = "active"
  /\ p.troop # move.target
  /\ move.source \in {None, p.troop}

(* drift_check yields will_apply; already_applied and drifted moves are    *)
(* both left out of the run.                                               *)
WillApply(move, p, noLeaders) ==
  /\ p.status = "active"
  /\ p.troop # move.target
  /\ ~(noLeaders /\ p.leader)
  /\ move.source \in {None, p.troop}

(* _chunk, for every order the list of moves may have: each chunk but the  *)
(* last is full.                                                           *)
Chunkings(D) ==
  {c \in [D -> 0..Cardinality(D)] : \A m \in D :
     /\ Cardinality({x \in D : c[x] < c[m]}) = c[m] * ChunkSize
     /\ Cardinality({x \in D : c[x] = c[m]}) <= ChunkSize}

Planned(plan) == {m \in Members : plan[m].state # "absent"}

(* The rows run() journals: what drift_check let through, with the         *)
(* placement it saw.                                                       *)
Observed(move, chunk, p) ==
  [move EXCEPT !.state = "pending", !.chunk = chunk,
               !.source = p.troop, !.sourcePatrol = p.patrol]

Preflight(plan, D, c) ==
  [m \in Members |->
     IF m \in D THEN Observed(plan[m], c[m], register[m]) ELSE Absent]

(* Mutants: rows merely sent are reversed as well; the patrol the run set  *)
(* is kept instead of the one observed.                                    *)
InverseMovesOfSent(r) ==
  [m \in Members |->
     LET row == journal[r][m] IN
     IF row.state \in {"in_flight", "done"} /\ row.source # None
     THEN Intended(row.target, row.source, row.sourcePatrol)
     ELSE Absent]

InverseMovesKeepingPatrol(r) ==
  [m \in Members |->
     LET row == journal[r][m] IN
     IF row.state = "done" /\ row.source # None
     THEN Intended(row.target, row.source, row.targetPatrol)
     ELSE Absent]

(* build_inverse_moves: only done rows, back to the placement observed.    *)
InverseMoves(r) ==
  [m \in Members |->
     LET row == journal[r][m] IN
     IF row.state = "done" /\ row.source # None
     THEN Intended(row.target, row.source, row.sourcePatrol)
     ELSE Absent]

ChunkRows(r, c) == {m \in Rows(r) : journal[r][m].chunk = c}

Restated(row, state) == [row EXCEPT !.state = state]

(* Mutant: the UPDATE forgets the chunk id. *)
MarkedRun(r, c, state) ==
  [journal EXCEPT ![r] = [m \in Members |->
     IF m \in Rows(r) THEN Restated(@[m], state) ELSE @[m]]]

(* _mark_chunk: one UPDATE over the rows of a chunk. *)
Marked(r, c, state) ==
  [journal EXCEPT ![r] = [m \in Members |->
     IF m \in ChunkRows(r, c) THEN Restated(@[m], state) ELSE @[m]]]

(* _set_run_state: an UPDATE, without effect when there is no row. *)
WithState(r, state) ==
  [run EXCEPT ![r].state = IF @ = "none" THEN @ ELSE state]

(* What a membership update does to a member in Scoutnet: status confirmed, *)
(* troop set, patrol set when given and otherwise left alone.               *)
Updated(p, row) ==
  [p EXCEPT !.status = "active", !.troop = row.target,
            !.patrol = IF row.targetPatrol = None THEN @ ELSE row.targetPatrol]

Goto(w, pc) == job' = [job EXCEPT ![w] = [@ EXCEPT !.pc = pc]]
Exit(w)     == job' = [job EXCEPT ![w] = Idle]

-----------------------------------------------------------------------------
(* Calls: what a driver can be asked to do.  The caller has reserved a     *)
(* fresh id for the new run; the executor is idle.                         *)

IntendedMoves ==
  {Intended(s, t, q) : s \in Troops \cup {None}, t \in Troops, q \in Patrols \cup {None}}

Plans == [Members -> {Absent} \cup IntendedMoves] \ {NoPlan}

(* Mutant: a verification run is not held to the allowlist. *)
StartAnyRun(w, r, kind, noLeaders, plan) ==
  /\ ~Active(w) /\ Fresh(r) /\ kind \in {"uppflyttning", "stage2_verify"}
  /\ job' = [job EXCEPT ![w] =
               [Idle EXCEPT !.pc = "read", !.op = "run", !.run = r, !.kind = kind,
                            !.noLeaders = noLeaders, !.plan = plan]]
  /\ UNCHANGED <<register, edits, db, applied>>

(* assert_allowlist: a verification moves one member, who is on the list.  *)
Permitted(kind, plan) ==
  kind = "stage2_verify" => \E m \in Allowlist : Planned(plan) = {m}

(* run(): leaders are excluded by a web uppflyttning and by the command    *)
(* line, not by the web's single-member verification.                      *)
StartRun(w, r, kind, noLeaders, plan) ==
  /\ ~Active(w) /\ Fresh(r) /\ Permitted(kind, plan)
  /\ (kind = "uppflyttning" /\ noLeaders) \/ kind = "stage2_verify"
  /\ job' = [job EXCEPT ![w] =
               [Idle EXCEPT !.pc = "read", !.op = "run", !.run = r, !.kind = kind,
                            !.noLeaders = noLeaders, !.plan = plan]]
  /\ UNCHANGED <<register, edits, db, applied>>

StartResume(w, r) ==
  /\ ~Active(w)
  /\ job' = [job EXCEPT ![w] = [Idle EXCEPT !.pc = "load", !.op = "resume", !.run = r]]
  /\ UNCHANGED <<register, edits, db, applied>>

(* undo(): a run of its own, of kind "undo", that names its parent. *)
StartUndo(w, r, parent) ==
  /\ ~Active(w) /\ Fresh(r) /\ r # parent
  /\ job' = [job EXCEPT ![w] = [Idle EXCEPT !.pc = "inverse", !.op = "undo", !.run = r,
                                            !.kind = "undo", !.parent = parent]]
  /\ UNCHANGED <<register, edits, db, applied>>

-----------------------------------------------------------------------------
(* The steps of a job. *)

(* undo() refuses a run whose snapshot is gone and reads its journal. *)
BuildInverse(w) ==
  LET p == job[w].parent IN
  /\ job[w].pc = "inverse"
  /\ job' = [job EXCEPT ![w] =
       IF UndoAvailable(p) THEN [@ EXCEPT !.pc = "read", !.plan = InverseMoves(p)]
                           ELSE [@ EXCEPT !.pc = "raised"]]
  /\ UNCHANGED <<register, edits, db, applied>>

(* The one live read of run(), the drift check, and _chunk. *)
ReadRoster(w) ==
  LET j == job[w]
      D == {m \in Members : /\ j.plan[m].state = "intended"
                            /\ WillApply(j.plan[m], register[m], j.noLeaders)}
  IN
  /\ j.pc = "read"
  /\ \E c \in Chunkings(D) :
       job' = [job EXCEPT ![w] = [@ EXCEPT !.pc = "snapshot", !.plan = Preflight(j.plan, D, c)]]
  /\ UNCHANGED <<register, edits, db, applied>>

WriteSnapshot(w) ==
  /\ job[w].pc = "snapshot"
  /\ snap' = [snap EXCEPT ![job[w].run] = "kept"]
  /\ Goto(w, "create")
  /\ UNCHANGED <<register, edits, run, journal, applied>>

CreateRun(w) ==
  LET j == job[w] IN
  /\ j.pc = "create"
  /\ run' = [run EXCEPT ![j.run] =
               [state |-> "running", kind |-> j.kind, parent |-> j.parent]]
  /\ Goto(w, "journal")
  /\ UNCHANGED <<register, edits, snap, journal, applied>>

(* All rows in one transaction; then the chunk loop over them. *)
WriteJournal(w) ==
  LET j == job[w]
      D == Planned(j.plan)
  IN
  /\ j.pc = "journal"
  /\ journal' = [journal EXCEPT ![j.run] = j.plan]
  /\ job' = [job EXCEPT ![w] = [@ EXCEPT !.pc = "next", !.plan = NoPlan,
                                         !.items = D, !.todo = D]]
  /\ UNCHANGED <<register, edits, run, snap, applied>>

(* Mutant: a resume overlooks the rows a crash left in_flight. *)
LoadUnsent(w) ==
  LET r == job[w].run
      D == {m \in Rows(r) : journal[r][m].state \in {"pending", "failed"}}
  IN
  /\ job[w].pc = "load"
  /\ job' = [job EXCEPT ![w] =
       IF Rows(r) = {} THEN [@ EXCEPT !.pc = "raised"]
                       ELSE [@ EXCEPT !.pc = "running", !.items = D, !.todo = D]]
  /\ UNCHANGED <<register, edits, db, applied>>

(* resume(): every row not done is taken up, without a drift check. *)
LoadJournal(w) ==
  LET r == job[w].run
      D == {m \in Rows(r) : journal[r][m].state # "done"}
  IN
  /\ job[w].pc = "load"
  /\ job' = [job EXCEPT ![w] =
       IF Rows(r) = {} THEN [@ EXCEPT !.pc = "raised"]
                       ELSE [@ EXCEPT !.pc = "running", !.items = D, !.todo = D]]
  /\ UNCHANGED <<register, edits, db, applied>>

SetRunning(w) ==
  /\ job[w].pc = "running"
  /\ run' = WithState(job[w].run, "running")
  /\ Goto(w, "next")
  /\ UNCHANGED <<register, edits, snap, journal, applied>>

(* Mutants: the chunk is sent without a mark; any chunk may be the next;   *)
(* the loop forgets which chunks it has already sent.                      *)
BeginUnmarked(w) ==
  LET j == job[w] IN
  /\ j.pc = "next"
  /\ \E m \in j.todo :
       LET c == journal[j.run][m].chunk IN
       /\ \A x \in j.todo : c <= journal[j.run][x].chunk
       /\ job' = [job EXCEPT ![w] = [j EXCEPT !.pc = "reread", !.chunk = c,
                             !.todo = {x \in j.todo : journal[j.run][x].chunk # c}]]
  /\ UNCHANGED <<register, edits, db, applied>>

BeginAnyChunk(w) ==
  LET j == job[w] IN
  /\ j.pc = "next"
  /\ \E m \in j.todo :
       LET c == journal[j.run][m].chunk IN
       /\ journal' = Marked(j.run, c, "in_flight")
       /\ job' = [job EXCEPT ![w] = [j EXCEPT !.pc = "reread", !.chunk = c,
                             !.todo = {x \in j.todo : journal[j.run][x].chunk # c}]]
  /\ UNCHANGED <<register, edits, run, snap, applied>>

BeginForgetful(w) ==
  LET j == job[w] IN
  /\ j.pc = "next"
  /\ \E m \in j.todo :
       LET c == journal[j.run][m].chunk IN
       /\ \A x \in j.todo : c <= journal[j.run][x].chunk
       /\ journal' = Marked(j.run, c, "in_flight")
       /\ job' = [job EXCEPT ![w] = [j EXCEPT !.pc = "reread", !.chunk = c,
                             !.todo = {x \in j.items : journal[j.run][x].chunk # c}]]
  /\ UNCHANGED <<register, edits, run, snap, applied>>

(* Head of the loop: the lowest chunk left is marked in_flight. *)
BeginChunk(w) ==
  LET j == job[w] IN
  /\ j.pc = "next"
  /\ \E m \in j.todo :
       LET c == journal[j.run][m].chunk IN
       /\ \A x \in j.todo : c <= journal[j.run][x].chunk
       /\ journal' = Marked(j.run, c, "in_flight")
       /\ job' = [job EXCEPT ![w] = [j EXCEPT !.pc = "reread", !.chunk = c,
                             !.todo = {x \in j.todo : journal[j.run][x].chunk # c}]]
  /\ UNCHANGED <<register, edits, run, snap, applied>>

(* The members of the chunk being written. *)
Batch(w) == {m \in job[w].items : journal[job[w].run][m].chunk = job[w].chunk}

(* The per-chunk read echoes each status back; one that has no write token, *)
(* or a read that fails, fails the chunk.                                   *)
Reread(w) ==
  /\ job[w].pc = "reread"
  /\ \/ (\A m \in Batch(w) : register[m].status = "active") /\ Goto(w, "post")
     \/ Goto(w, "nack")
  /\ UNCHANGED <<register, edits, db, applied>>

(* Mutant: the answer is not looked at. *)
PostBlindly(w) ==
  LET r == job[w].run IN
  /\ job[w].pc = "post"
  /\ \E hit \in SUBSET Batch(w) :
       /\ register' = [m \in Members |-> IF m \in hit THEN Updated(register[m], journal[r][m])
                                                      ELSE register[m]]
       /\ applied' = [applied EXCEPT ![r] = @ \cup hit]
       /\ Goto(w, "ack")
  /\ UNCHANGED <<edits, db>>

(* POST update/membership.  A 200 means every member of the batch was      *)
(* changed; after any other outcome (refusal, timeout, lost or unreadable  *)
(* answer) any of them may have been.                                      *)
Post(w) ==
  LET r == job[w].run IN
  /\ job[w].pc = "post"
  /\ \E hit \in SUBSET Batch(w) :
       /\ register' = [m \in Members |-> IF m \in hit THEN Updated(register[m], journal[r][m])
                                                      ELSE register[m]]
       /\ applied' = [applied EXCEPT ![r] = @ \cup hit]
       /\ \/ hit = Batch(w) /\ Goto(w, "ack")
          \/ Goto(w, "nack")
  /\ UNCHANGED <<edits, db>>

MarkDone(w) ==
  /\ job[w].pc = "ack"
  /\ journal' = Marked(job[w].run, job[w].chunk, "done")
  /\ Goto(w, "next")
  /\ UNCHANGED <<register, edits, run, snap, applied>>

(* Mutant: a failed chunk is skipped. *)
MarkFailedAndGoOn(w) ==
  /\ job[w].pc = "nack"
  /\ journal' = Marked(job[w].run, job[w].chunk, "failed")
  /\ Goto(w, "next")
  /\ UNCHANGED <<register, edits, run, snap, applied>>

MarkFailed(w) ==
  /\ job[w].pc = "nack"
  /\ journal' = Marked(job[w].run, job[w].chunk, "failed")
  /\ Goto(w, "stop")
  /\ UNCHANGED <<register, edits, run, snap, applied>>

(* Mutant: the run gets a state the readers of the row do not know.        *)
StopAborted(w) ==
  /\ job[w].pc = "stop"
  /\ run' = WithState(job[w].run, "aborted")
  /\ Exit(w)
  /\ UNCHANGED <<register, edits, snap, journal, applied>>

(* The first failed chunk ends the run; nothing is retried. *)
StopFailed(w) ==
  /\ job[w].pc = "stop"
  /\ run' = WithState(job[w].run, "failed")
  /\ Exit(w)
  /\ UNCHANGED <<register, edits, snap, journal, applied>>

Finish(w) ==
  /\ job[w].pc = "next" /\ job[w].todo = {}
  /\ run' = WithState(job[w].run, "done")
  /\ Goto(w, "reconcile")
  /\ UNCHANGED <<register, edits, snap, journal, applied>>

(* _reconcile compares the items this call drove; the result is returned.  *)
Reconcile(w) ==
  /\ job[w].pc = "reconcile"
  /\ Exit(w)
  /\ UNCHANGED <<register, edits, db, applied>>

(* An exception that _drive does not catch - a database error, a roster    *)
(* that does not parse, a missing snapshot directory - ends the job where  *)
(* it stands.                                                              *)
Raise(w) ==
  /\ job[w].pc \in Steps \ {"post", "raised"}
  /\ Goto(w, "raised")
  /\ UNCHANGED <<register, edits, db, applied>>

(* Only the web's _launch records it (_record_run_failure), and only for a *)
(* fresh run; resume, undo and the command line leave the row as it is.    *)
Raised(w) ==
  LET j == job[w] IN
  /\ j.pc = "raised"
  /\ \/ /\ j.op = "run"
        /\ run' = [run EXCEPT ![j.run] =
                     IF @.state = "none" THEN [NoRun EXCEPT !.state = "failed", !.kind = j.kind]
                                         ELSE [@ EXCEPT !.state = "failed"]]
     \/ run' = run
  /\ Exit(w)
  /\ UNCHANGED <<register, edits, snap, journal, applied>>

(* The driver's process dies; only Scoutnet, the database and files stay.  *)
Crash(w) ==
  /\ Active(w)
  /\ Exit(w)
  /\ UNCHANGED <<register, edits, db, applied>>

(* Somebody edits a member in Scoutnet. *)
ExternalEdit(m, p) ==
  /\ edits < MaxEdits /\ p # register[m]
  /\ edits' = edits + 1
  /\ register' = [register EXCEPT ![m] = p]
  /\ UNCHANGED <<db, job, applied>>

(* api_delete_snapshot: allowed whatever the run is doing. *)
DeleteSnapshot(r) ==
  /\ snap[r] = "kept"
  /\ snap' = [snap EXCEPT ![r] = "deleted"]
  /\ UNCHANGED <<register, edits, run, journal, job, applied>>

Step(w) ==
  \/ BuildInverse(w) \/ ReadRoster(w) \/ WriteSnapshot(w) \/ CreateRun(w)
  \/ WriteJournal(w) \/ LoadJournal(w) \/ SetRunning(w) \/ BeginChunk(w)
  \/ Reread(w) \/ Post(w) \/ MarkDone(w) \/ MarkFailed(w) \/ StopFailed(w)
  \/ Finish(w) \/ Reconcile(w) \/ Raise(w) \/ Raised(w)

Environment ==
  \/ \E m \in Members, p \in ForeignEdits : ExternalEdit(m, p)
  \/ \E r \in Runs : DeleteSnapshot(r)
  \/ \E w \in Drivers : Crash(w)

Call(w) ==
  \E r \in Runs :
    \/ \E k \in Kinds, b \in BOOLEAN, plan \in Plans : StartRun(w, r, k, b, plan)
    \/ StartResume(w, r)
    \/ \E p \in Runs : StartUndo(w, r, p)

(* One call at a time, whoever makes it. *)
SerialCall(w) == (\A v \in Drivers : ~Active(v)) /\ Call(w)

Next == Environment \/ \E w \in Drivers : Step(w) \/ SerialCall(w)

Spec == Init /\ [][Next]_vars

(* A job's thread is scheduled and each of its calls returns: HTTP calls   *)
(* have a timeout.  Nobody has to call, edit, delete or crash.             *)
FairSpec == Spec /\ \A w \in Drivers : WF_vars(Step(w))

-----------------------------------------------------------------------------
(* Properties. *)

Open == {"in_flight", "failed", "done"}  \* row states after the first attempt

(* Journal first: a member is changed in Scoutnet by a run only after the  *)
(* run row, its snapshot and the member's row were committed and the row   *)
(* was marked in_flight - whatever crashed since, and however often the    *)
(* run was resumed (run, resume, _drive).                                  *)
JournalFirst ==
  \A r \in Runs : \A m \in applied[r] :
    journal[r][m].state \in Open /\ Exists(r) /\ snap[r] # "none"

(* A row that says done stands for a change that reached Scoutnet: no      *)
(* crash, retry or failed sibling in the chunk makes one up (_drive).      *)
DoneWasApplied ==
  \A r \in Runs, m \in Members : journal[r][m].state = "done" => m \in applied[r]

(* Chunks are strictly serial and the first failure stops the run: at all  *)
(* times, across crashes and resumes, a run's journal is done chunks, then *)
(* at most one chunk in_flight or failed, then pending ones (_drive).      *)
ChunksInOrder ==
  \A r \in Runs : \A m, n \in Rows(r) :
    /\ journal[r][m].chunk < journal[r][n].chunk /\ journal[r][n].state # "pending"
         => journal[r][m].state = "done"
    /\ journal[r][m].chunk = journal[r][n].chunk => journal[r][m].state = journal[r][n].state

(* A run that says done has no row that is not: a resume leaves nothing    *)
(* behind (resume, _drive).                                                *)
DoneRunIsComplete ==
  \A r \in Runs : run[r].state = "done" => \A m \in Rows(r) : journal[r][m].state = "done"

(* Undo touches only members its parent recorded as moved, expects them    *)
(* where the parent left them, and puts them back where the parent found   *)
(* them - also when the undo is itself resumed (build_inverse_moves).      *)
UndoMirrorsParent ==
  \A r \in Runs : run[r].kind = "undo" =>
    \A m \in Rows(r) :
      LET row == journal[r][m]  before == journal[run[r].parent][m] IN
      /\ before.state = "done"
      /\ row.source = before.target
      /\ row.target = before.source

(* Nobody off the allowlist is ever changed by a verification run or its   *)
(* resumption, and by an undo only who was changed by the run it undoes.   *)
(* An uppflyttning asks no list: see AllowlistBoundsWrites below.          *)
VerifyStaysOnAllowlist ==
  \A r \in Runs : \A m \in applied[r] \ Allowlist :
    \/ run[r].kind = "uppflyttning"
    \/ run[r].kind = "undo" /\ m \in applied[run[r].parent]

(* As long as nobody edits the register, an uppflyttning never moves a     *)
(* leader, fresh or resumed (drift_check with exclude_leaders).            *)
UppflyttningSparesLeaders ==
  edits = 0 => \A r \in Runs : run[r].kind = "uppflyttning" =>
                 \A m \in applied[r] : ~register[m].leader

(* As long as nobody edits the register, every member a call drove stands  *)
(* at the target of its row when reconciliation starts (_drive).           *)
DriveLands ==
  edits = 0 => \A w \in Drivers : job[w].pc = "reconcile" =>
                 \A m \in job[w].items : register[m].troop = journal[job[w].run][m].target

(* As long as nobody edits the register, an undo that has driven its rows  *)
(* has put each member back in the troop - and the patrol, when there was  *)
(* one - the parent run had found (build_inverse_moves, _payload_for).     *)
UndoRestores ==
  edits = 0 => \A w \in Drivers :
    LET r == job[w].run IN
    job[w].pc = "reconcile" /\ run[r].kind = "undo" =>
      \A m \in job[w].items :
        LET before == journal[run[r].parent][m] IN
        /\ register[m].troop = before.source
        /\ before.sourcePatrol # None => register[m].patrol = before.sourcePatrol

(* What a journal row intends never changes once written, and done is      *)
(* final, so that an undo computed later reverses what really happened     *)
(* (_mark_chunk).                                                          *)
LogStep ==
  \A r \in Runs : \A m \in Rows(r) :
    /\ Restated(journal'[r][m], "done") = Restated(journal[r][m], "done")
    /\ journal[r][m].state = "done" => journal'[r][m].state = "done"

JournalIsLog == [][LogStep]_journal

(* Every job comes to an end: the chunk loop, a resume and an undo         *)
(* terminate whatever fails on the way, so that the lock is released.      *)
JobEnds == \A w \in Drivers : Active(w) ~> ~Active(w)

-----------------------------------------------------------------------------
(* The inductive invariant behind the journal's properties. *)

(* At most one call is under way. *)
SerialCalls == \A v, w \in Drivers : Active(v) /\ Active(w) => v = w

Preparing == {"inverse", "read", "snapshot", "create"}       \* no run row yet
Writing   == {"reread", "post", "ack", "nack"}               \* inside a chunk

(* What the rows of a run say of each other and of its run row. *)
JournalInv ==
  \A r \in Runs : \A m \in Rows(r) :
    /\ Exists(r) /\ snap[r] # "none"
    /\ journal[r][m].state \in {"pending"} \cup Open

AppliedInv == \A r \in Runs : \A m \in applied[r] : journal[r][m].state \in Open

(* A job always has an id to work on, and an undo a run to reverse. *)
HasRun ==
  \A w \in Drivers :
    /\ Active(w) => job[w].run \in Runs
    /\ job[w].pc = "inverse" => job[w].parent \in Runs

(* A new run is blank until its journal is written. *)
Prepared(w) ==
  LET j == job[w] IN
  /\ j.pc \in Preparing => ~Exists(j.run)
  /\ j.pc = "journal" => Rows(j.run) = {} /\ run[j.run].state = "running"
  /\ j.pc \in {"create", "journal"} => snap[j.run] # "none"
  /\ j.pc = "read" => \A m \in Members : j.plan[m].state \in {"absent", "intended"}
  /\ j.pc \in {"snapshot", "create", "journal"} =>
       \A m \in Members : j.plan[m].state \in {"absent", "pending"}

(* The chunk loop has left nothing behind it and holds whole chunks.       *)
Driven(w) ==
  LET j == job[w]  r == j.run IN
  /\ j.pc = "running" => Exists(r)
  /\ j.pc \in {"running", "next"} \cup Writing =>
       /\ j.items \subseteq Rows(r)
       /\ j.todo \subseteq j.items
       /\ \A m \in j.todo : journal[r][m].state # "done"
  /\ j.pc \in {"running", "next"} =>
       \A m \in Rows(r) \ j.todo : journal[r][m].state = "done"
  /\ j.pc \in {"next"} \cup Writing => run[r].state = "running"
  /\ j.pc \in Writing =>
       /\ ChunkRows(r, j.chunk) \subseteq j.items \ j.todo
       /\ \A m \in ChunkRows(r, j.chunk) : journal[r][m].state = "in_flight"
       /\ \A m \in Rows(r) \ (j.todo \cup ChunkRows(r, j.chunk)) :
            journal[r][m].state = "done"
  /\ j.pc = "ack" => ChunkRows(r, j.chunk) \subseteq applied[r]

JobsInv == \A w \in Drivers : Prepared(w) /\ Driven(w)

(* What runs, snapshots and journals say of each other between the steps.  *)
LogInv ==
  JournalInv /\ AppliedInv /\ DoneWasApplied /\ ChunksInOrder /\ DoneRunIsComplete

Invariant == TypeOK /\ HasRun /\ SerialCalls /\ LogInv /\ JobsInv

-----------------------------------------------------------------------------
(* What the documentation says and the code does not keep. *)

(* docs/runbook.md: the allowlist bounds the blast radius, a member not on *)
(* it is refused, and an empty list means nothing can be written.  No run  *)
(* changes anybody who is not on it.                                       *)
AllowlistBoundsWrites == \A r \in Runs : applied[r] \subseteq Allowlist

(* docs/runbook.md: undo puts back every member the run moved.  An undo    *)
(* about to be planned covers every member its parent changed.             *)
UndoCoversApplied ==
  \A w \in Drivers :
    job[w].pc = "read" /\ job[w].op = "undo" =>
      \A m \in applied[job[w].parent] :
        job[w].plan[m] # Absent \/ journal[job[w].parent][m].source = None

(* docs/runbook.md: re-applying an applied move is a no-op, so resuming is *)
(* safe.  A resumed write finds the member where the run found them or     *)
(* where it puts them.                                                     *)
ResumeIsSafe ==
  [][\A w \in Drivers : LET r == job[w].run IN
       job[w].pc = "post" /\ job[w].op = "resume" =>
         \A m \in Batch(w) : register[m] # register'[m] =>
           register[m].troop \in {journal[r][m].source, journal[r][m].target}]_vars
=============================================================================
