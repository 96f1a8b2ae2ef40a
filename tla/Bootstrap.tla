------------------------------ MODULE Bootstrap ------------------------------
(***************************************************************************)
(* db/bootstrap.py: what a deploy does to the database before the new pod  *)
(* serves, while the old pod still does, with a process death between any  *)
(* two transactions.                                                       *)
(*                                                                         *)
(* A schema is described by the revision its columns are those of (0: from *)
(* before the first one) and by the revision alembic has stamped it with,  *)
(* if any.  A release is described by its head revision.  History stands   *)
(* for the tables _MEANINGFUL lists, scratch for _UPPFLYTTNING_TABLES; a   *)
(* scratch row is known by the revision of the columns it was made under.  *)
(***************************************************************************)
EXTENDS Snapshots

CONSTANTS
  Head,        \* the newest revision
  MaxFaults    \* bound on further deploys and on deaths of pods and init containers

ASSUME HeadType  == Head \in Nat \ {0}
ASSUME BoundType == MaxFaults \in Nat

VARIABLES
  schema,    \* tables, columns and stamp of the database
  runs,      \* ids with a row in write_run
  journals,  \* ids with rows in write_journal
  scratch,   \* revisions the rows of the uppflyttning tables were made under
  release,   \* head revision of the release that is deployed
  boot,      \* the init container
  pod,       \* release that serves, or None
  writer,    \* the bulk write in progress in that pod
  faults,    \* deploys and deaths so far
  owed,      \* history: runs that were journaled
  excused,   \* history: those that a known window may have lost
  decided,   \* history: decisions made under the columns there are now
  stale      \* history: scratch rows whose clearing was cut short

bvars == <<schema, runs, journals, scratch, release, boot, pod, writer, faults,
           owed, excused, decided, stale>>
vars  == <<bvars, svars>>

tables == <<runs, journals, scratch>>
ghosts == <<owed, excused, decided, stale>>

Revisions == 0..Head

Empty == [tables |-> FALSE, cols |-> 0, stamp |-> None]
Unmanaged(c)  == [tables |-> TRUE, cols |-> c, stamp |-> None]
Managed(c, r) == [tables |-> TRUE, cols |-> c, stamp |-> r]

Schemas == [tables : BOOLEAN, cols : Revisions, stamp : Revisions \cup {None}]

Phases == {"start", "fresh", "upgrade", "compare", "clear", "stamp", "adopt",
           "dumpRuns", "dumpJournals", "dumpSnapshots", "drop", "create", "restore",
           "ready", "up"}

(* before and the dumped rows are local variables of bootstrap().          *)
Boot == [pc : Phases, before : Revisions \cup {None}, legacy : BOOLEAN,
         runs : SUBSET Ids, journals : SUBSET Ids, snapshots : SUBSET Ids]

Start == [pc |-> "start", before |-> None, legacy |-> FALSE,
          runs |-> {}, journals |-> {}, snapshots |-> {}]

Writer == [pc : {"idle", "file", "index", "run", "journal"}, id : Ids \cup {None}]
NoWrite == [pc |-> "idle", id |-> None]

BootstrapTypeOK ==
  /\ SnapshotsTypeOK
  /\ schema \in Schemas
  /\ runs \subseteq Ids /\ journals \subseteq Ids
  /\ scratch \subseteq Revisions
  /\ release \in Revisions \ {0}
  /\ boot \in Boot
  /\ pod \in Revisions \cup {None}
  /\ writer \in Writer
  /\ faults \in 0..MaxFaults
  /\ owed \subseteq Ids /\ excused \subseteq Ids
  /\ decided \subseteq Revisions /\ stale \subseteq Revisions

(* A new cluster, or one where the release that created the tables serves: *)
(* by migration, or by create_all.                                         *)
Init ==
  /\ SnapshotsInit
  /\ runs = {} /\ journals = {} /\ scratch = {}
  /\ release \in Revisions \ {0}
  /\ boot = Start
  /\ \/ schema = Empty /\ pod = None
     \/ \E c \in Revisions : schema = Unmanaged(c) /\ pod = c
     \/ \E c \in Revisions \ {0} : schema = Managed(c, c) /\ pod = c
  /\ writer = NoWrite
  /\ faults = 0
  /\ owed = {} /\ excused = {} /\ decided = {} /\ stale = {}

Goto(pc) == boot' = [boot EXCEPT !.pc = pc]

(* The init container exits with an error and is started again.            *)
Retry == boot' = Start

-----------------------------------------------------------------------------
(* The paths of bootstrap(). *)

(* _assert_compatible: every column of the model is there; more may be.    *)
Compatible == schema.cols >= release

Inspect ==
  /\ boot.pc = "start"
  /\ boot' = [Start EXCEPT
       !.pc = IF ~schema.tables THEN "fresh"
              ELSE IF schema.stamp # None THEN "upgrade"
              ELSE IF Compatible THEN "stamp" ELSE "dumpRuns",
       !.before = schema.stamp]
  /\ UNCHANGED <<schema, tables, release, pod, writer, faults, ghosts, svars>>

(* alembic upgrade head fails on a stamp the release does not know, and on *)
(* a column that is there already.                                         *)
Upgradable ==
  \/ schema.stamp = release
  \/ schema.stamp < release /\ schema.cols = schema.stamp

Migrated == decided' = IF schema'.cols = schema.cols THEN decided ELSE {}

InitialUpgrade ==
  /\ boot.pc \in {"fresh", "create"}
  /\ schema' = Managed(release, release)
  /\ Goto(IF boot.pc = "fresh" THEN "ready" ELSE "restore")
  /\ Migrated
  /\ UNCHANGED <<tables, release, pod, writer, faults, owed, excused, stale, svars>>

(* Mutant: the revision to compare with is read after the upgrade. *)
UpgradeThenRead ==
  /\ boot.pc = "upgrade"
  /\ IF Upgradable
     THEN /\ schema' = [schema EXCEPT !.cols = IF schema.stamp = release THEN @ ELSE release,
                                      !.stamp = release]
          /\ boot' = [boot EXCEPT !.pc = "compare", !.before = release]
     ELSE Retry /\ UNCHANGED schema
  /\ Migrated
  /\ UNCHANGED <<tables, release, pod, writer, faults, owed, excused, stale, svars>>

(* All migrations are one transaction. *)
Upgrade ==
  /\ boot.pc = "upgrade"
  /\ IF Upgradable
     THEN /\ schema' = [schema EXCEPT !.cols = IF schema.stamp = release THEN @ ELSE release,
                                      !.stamp = release]
          /\ Goto("compare")
     ELSE Retry /\ UNCHANGED schema
  /\ Migrated
  /\ UNCHANGED <<tables, release, pod, writer, faults, owed, excused, stale, svars>>

(* Mutant: every start clears. *)
CompareAlways ==
  /\ boot.pc = "compare"
  /\ Goto("clear")
  /\ UNCHANGED <<schema, tables, release, pod, writer, faults, ghosts, svars>>

Compare ==
  /\ boot.pc = "compare"
  /\ Goto(IF boot.before # schema.stamp THEN "clear" ELSE "ready")
  /\ UNCHANGED <<schema, tables, release, pod, writer, faults, ghosts, svars>>

(* Mutant: the write tables count as scratch. *)
ClearAll ==
  /\ boot.pc = "clear"
  /\ scratch' = {} /\ journals' = {}
  /\ Goto("ready")
  /\ UNCHANGED <<schema, runs, release, pod, writer, faults, ghosts, svars>>

(* _clear_uppflyttning *)
Clear ==
  /\ boot.pc = "clear"
  /\ scratch' = {}
  /\ Goto("ready")
  /\ UNCHANGED <<schema, runs, journals, release, pod, writer, faults, ghosts, svars>>

(* Mutant: an adopted database is left without a stamp. *)
StampNothing ==
  /\ boot.pc = "stamp"
  /\ Goto("adopt")
  /\ UNCHANGED <<schema, tables, release, pod, writer, faults, ghosts, svars>>

Stamp ==
  /\ boot.pc = "stamp"
  /\ schema' = [schema EXCEPT !.stamp = release]
  /\ Goto("adopt")
  /\ UNCHANGED <<tables, release, pod, writer, faults, ghosts, svars>>

(* The upgrade of an adopted database; without a stamp it would start from *)
(* the first revision and meet the tables.                                 *)
Adopt ==
  /\ boot.pc = "adopt"
  /\ IF schema.stamp = release THEN Goto("ready") ELSE Retry
  /\ UNCHANGED <<schema, tables, release, pod, writer, faults, ghosts, svars>>

(* _dump_meaningful reads each table in a connection of its own.           *)
DumpRuns ==
  /\ boot.pc = "dumpRuns"
  /\ boot' = [boot EXCEPT !.pc = "dumpJournals", !.runs = runs]
  /\ UNCHANGED <<schema, tables, release, pod, writer, faults, ghosts, svars>>

DumpJournals ==
  /\ boot.pc = "dumpJournals"
  /\ boot' = [boot EXCEPT !.pc = "dumpSnapshots", !.journals = journals]
  /\ UNCHANGED <<schema, tables, release, pod, writer, faults, ghosts, svars>>

DumpSnapshots ==
  /\ boot.pc = "dumpSnapshots"
  /\ boot' = [boot EXCEPT !.pc = "drop", !.snapshots = indexed, !.legacy = schema.cols = 0]
  /\ UNCHANGED <<schema, tables, release, pod, writer, faults, ghosts, svars>>

(* _drop_everything; a file may lose its row here, but stays on the volume. *)
Drop ==
  /\ boot.pc = "drop"
  /\ schema' = Empty
  /\ runs' = {} /\ journals' = {} /\ scratch' = {}
  /\ indexed' = {}
  /\ Goto("create")
  /\ decided' = {}
  /\ UNCHANGED <<release, pod, writer, faults, owed, excused, stale,
                 files, deleting, removed, torn>>

(* What an end of bootstrap() between drop and restore loses: runs, and    *)
(* the rows of one that is being written.                                  *)
InMemoryOnly == ((owed \cup {writer.id}) \ (runs \cap journals \cap indexed)) \ {None}

(* _restore_meaningful: one transaction.  Rows of a schema from before the *)
(* first revision may lack a column that must have a value: then it fails, *)
(* and the dumped rows are gone.                                           *)
Restore ==
  /\ boot.pc = "restore"
  /\ \/ /\ runs' = runs \cup boot.runs
        /\ journals' = journals \cup boot.journals
        /\ indexed' = indexed \cup boot.snapshots
        /\ boot' = [Start EXCEPT !.pc = "ready"]
        /\ UNCHANGED excused
     \/ /\ boot.legacy
        /\ Retry
        /\ excused' = excused \cup InMemoryOnly
        /\ UNCHANGED <<runs, journals, indexed>>
  /\ UNCHANGED <<schema, scratch, release, pod, writer, faults, owed, decided, stale,
                 files, deleting, removed, torn>>

BootStep ==
  \/ Inspect \/ InitialUpgrade \/ Upgrade \/ Compare \/ Clear \/ Stamp \/ Adopt
  \/ DumpRuns \/ DumpJournals \/ DumpSnapshots \/ Drop \/ Restore

-----------------------------------------------------------------------------
(* The pod that serves. *)

(* What a bulk write or a deletion in progress leaves behind. *)
StopWork == writer' = NoWrite /\ AbandonDelete

(* The new pod is ready and the old one is stopped. *)
RollOver ==
  /\ boot.pc = "ready"
  /\ Goto("up")
  /\ pod' = release
  /\ StopWork
  /\ UNCHANGED <<schema, tables, release, faults, ghosts>>

(* The statements of the pod fit the tables, when there are any.           *)
Serves == pod # None /\ schema.tables /\ schema.cols >= pod

(* A row committed after its table was dumped does not come back.          *)
Dumping == boot.pc \in {"dumpJournals", "dumpSnapshots", "drop"}

Excuse(i) == excused' = IF Dumping THEN excused \cup {i} ELSE excused

(* Ids that are nowhere to be found; any of them is as good as another.    *)
Unused ==
  Ids \ (files \cup indexed \cup deleting \cup removed \cup runs \cup owed \cup excused
           \cup boot.snapshots \cup boot.runs)

(* A bulk write, in the order of WriteExecutor.run: the snapshot's file    *)
(* and row, the run's row, the journal.                                    *)
BeginWrite ==
  /\ Serves /\ writer.pc = "idle" /\ Unused # {}
  /\ writer' = [pc |-> "file", id |-> CHOOSE i \in Unused : TRUE]
  /\ UNCHANGED <<schema, tables, release, boot, pod, faults, ghosts, svars>>

WriteSnapshotFile ==
  /\ writer.pc = "file"
  /\ WriteFile(writer.id)
  /\ writer' = [writer EXCEPT !.pc = "index"]
  /\ UNCHANGED <<schema, tables, release, boot, pod, faults, ghosts>>

IndexSnapshot ==
  /\ Serves /\ writer.pc = "index"
  /\ InsertRow(writer.id)
  /\ writer' = [writer EXCEPT !.pc = "run"]
  /\ Excuse(writer.id)
  /\ UNCHANGED <<schema, tables, release, boot, pod, faults, owed, decided, stale>>

RecordRun ==
  /\ Serves /\ writer.pc = "run"
  /\ runs' = runs \cup {writer.id}
  /\ writer' = [writer EXCEPT !.pc = "journal"]
  /\ Excuse(writer.id)
  /\ UNCHANGED <<schema, journals, scratch, release, boot, pod, faults, owed,
                 decided, stale, svars>>

RecordJournal ==
  /\ Serves /\ writer.pc = "journal"
  /\ journals' = journals \cup {writer.id}
  /\ owed' = owed \cup {writer.id}
  /\ writer' = NoWrite
  /\ Excuse(writer.id)
  /\ UNCHANGED <<schema, runs, scratch, release, boot, pod, faults, decided, stale,
                 svars>>

(* An operator's decision or election; one that falls between a migration  *)
(* and the clearing goes with the others.                                  *)
Decide ==
  /\ Serves
  /\ scratch' = scratch \cup {schema.cols}
  /\ decided' = IF boot.pc \in {"compare", "clear"} THEN decided
                ELSE decided \cup {schema.cols}
  /\ UNCHANGED <<schema, runs, journals, release, boot, pod, writer, faults,
                 owed, excused, stale, svars>>

(* A snapshot is deleted by hand, or a purge deletes the expired ones.     *)
Delete ==
  /\ \/ \E i \in Ids : Serves /\ SelectOne(i)
     \/ \E old \in SUBSET Ids : Serves /\ SelectExpired(old)
     \/ \E i \in Ids : pod # None /\ Unlink(i)
     \/ Serves /\ CommitDelete(boot.snapshots)
     \/ deleting # {} /\ AbandonDelete
  /\ UNCHANGED bvars

Work ==
  \/ BeginWrite \/ WriteSnapshotFile \/ IndexSnapshot \/ RecordRun \/ RecordJournal
  \/ Decide \/ Delete

-----------------------------------------------------------------------------
(* Deploys and deaths. *)

(* bootstrap() ends where it stands, and what it has dumped is gone.       *)
CutShort ==
  /\ excused' = IF boot.pc \in {"create", "restore"} THEN excused \cup InMemoryOnly
                ELSE excused
  /\ stale' = IF boot.pc = "clear" \/ (boot.pc = "compare" /\ boot.before # schema.stamp)
              THEN stale \cup scratch ELSE stale
  /\ Retry
  /\ UNCHANGED <<owed, decided>>

(* Another release, newer or rolled back to. *)
Deploy(r) ==
  /\ faults < MaxFaults /\ r # release
  /\ faults' = faults + 1
  /\ release' = r
  /\ CutShort
  /\ UNCHANGED <<schema, tables, pod, writer, svars>>

BootDies ==
  /\ faults < MaxFaults /\ boot.pc \notin {"start", "ready", "up"}
  /\ faults' = faults + 1
  /\ CutShort
  /\ UNCHANGED <<schema, tables, release, pod, writer, svars>>

(* The pod is rescheduled; its init container runs again. *)
PodDies ==
  /\ faults < MaxFaults /\ pod # None
  /\ faults' = faults + 1
  /\ pod' = None
  /\ StopWork
  /\ IF boot.pc = "up" THEN Retry ELSE UNCHANGED boot
  /\ UNCHANGED <<schema, tables, release, ghosts>>

Next ==
  \/ BootStep \/ RollOver \/ Work
  \/ \E r \in Revisions \ {0} : Deploy(r)
  \/ BootDies \/ PodDies

Spec == Init /\ [][Next]_vars

(* Init containers are started again until they succeed, and deploys and   *)
(* deaths come to an end; nobody has to write or decide anything.          *)
FairSpec == Spec /\ WF_vars(BootStep) /\ WF_vars(RollOver)

-----------------------------------------------------------------------------
(* Properties. *)

(* A journaled run is kept with all that undo and resume need: its row,    *)
(* its journal and - unless it was deleted - its snapshot's row, through   *)
(* every restart, migration, adoption and rebuild; while the tables are    *)
(* rebuilt, in the dump.  Excused is what a death between drop and         *)
(* restore, a failing restore or a write beside the dump has lost          *)
(* ("It is never wiped here", bootstrap.py).                               *)
HistoryKept ==
  owed \ excused \subseteq
    {i \in (runs \cup boot.runs) \cap (journals \cup boot.journals) :
       i \in indexed \cup boot.snapshots \cup removed}

(* Decisions in progress survive every restart that applies no migration:  *)
(* all that were made under the columns there are, and not beside a        *)
(* migration, are there ("survive normal restarts", bootstrap.py).         *)
DecisionsSurviveRestarts == decided \subseteq scratch

(* Once a pod serves, no decision is left from before the last migration,  *)
(* adoption or rebuild, but for those a death kept from being cleared      *)
(* ("never kept across a migration or a rebuild", bootstrap.py).           *)
NoDecisionIsMigrated == boot.pc = "up" => scratch \subseteq {schema.cols} \cup stale

(* A stamp the release cannot upgrade from: newer than the release after a *)
(* rollback, or older than the columns of a database that was adopted.     *)
Stuck == schema.stamp # None /\ ~Upgradable

(* A deploy comes up, whatever was interrupted before, unless the stamp is *)
(* one that its release cannot upgrade from.                               *)
ComesUp == <>[](boot.pc = "up" \/ Stuck)
=============================================================================
