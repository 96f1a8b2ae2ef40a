-------------------------- MODULE BootstrapProofs ---------------------------
(***************************************************************************)
(* What a deploy leaves of the database and of the snapshot volume, for    *)
(* any number of revisions, snapshots, deploys and deaths: proofs about    *)
(* Bootstrap and Snapshots.                                                *)
(***************************************************************************)
EXTENDS Bootstrap, TLAPS

-----------------------------------------------------------------------------
(* The inductive invariant. *)

(* bootstrap() is where the schema lets it be. *)
PhaseInv ==
  /\ boot.pc \in {"fresh", "create"} => ~schema.tables
  /\ boot.pc \in {"upgrade", "stamp"} => schema.tables
  /\ boot.pc = "upgrade" => boot.before = schema.stamp

(* Every row, in its table or in the dump, has a file or an excuse; so has *)
(* the one that is about to be inserted, which nobody else knows of.       *)
FilesInv ==
  /\ indexed \cup boot.snapshots \subseteq files \cup deleting \cup torn
  /\ writer.pc \in {"file", "index"} =>
       writer.id \in Ids \ (indexed \cup deleting \cup boot.snapshots)
  /\ writer.pc = "index" => writer.id \in files
  /\ writer.pc # "idle" => writer.id \in Ids

(* A migration has been applied and the clearing is still to come. *)
Clearing ==
  boot.pc = "clear" \/ (boot.pc = "compare" /\ boot.before # schema.stamp)

ScratchInv ==
  /\ ~schema.tables => scratch = {}
  /\ decided \subseteq scratch
  /\ Clearing => decided = {}
  /\ ~Clearing => scratch \subseteq {schema.cols} \cup stale

(* What is committed after its table was dumped is excused. *)
DumpInv ==
  /\ boot.pc \in {"dumpJournals", "dumpSnapshots", "drop"} =>
       runs \subseteq boot.runs \cup excused
  /\ boot.pc \in {"dumpSnapshots", "drop"} => journals \subseteq boot.journals \cup excused
  /\ boot.pc = "drop" => indexed \subseteq boot.snapshots \cup excused

(* Between drop and restore, the rows are in the dump. *)
Rebuilding == boot.pc \in {"create", "restore"}

RunKept(i)      == i \in runs \/ (Rebuilding /\ i \in boot.runs)
JournalKept(i)  == i \in journals \/ (Rebuilding /\ i \in boot.journals)
SnapshotKept(i) == i \in indexed \cup removed \/ (Rebuilding /\ i \in boot.snapshots)

(* No journaled run lacks a row, nor does the one being written lack any   *)
(* of those it has committed.                                              *)
KeptInv ==
  /\ \A i \in owed \ excused : RunKept(i) /\ JournalKept(i) /\ SnapshotKept(i)
  /\ writer.id \notin excused =>
       /\ writer.pc \in {"run", "journal"} => SnapshotKept(writer.id)
       /\ writer.pc = "journal" => RunKept(writer.id)

BootInv ==
  BootstrapTypeOK /\ PhaseInv /\ FilesInv /\ ScratchInv /\ DumpInv /\ KeptInv

-----------------------------------------------------------------------------
(* Types. *)

LEMMA SchemaTypes ==
  /\ Empty \in Schemas /\ ~Empty.tables
  /\ \A c \in Revisions : Unmanaged(c) \in Schemas
  /\ \A c \in Revisions, r \in Revisions :
       /\ Managed(c, r) \in Schemas
       /\ Managed(c, r).tables /\ Managed(c, r).cols = c /\ Managed(c, r).stamp = r
  BY HeadType DEF Schemas, Empty, Unmanaged, Managed, Revisions

LEMMA SchemaStamped ==
  ASSUME NEW s \in Schemas, NEW r \in Revisions
  PROVE  LET t == [s EXCEPT !.stamp = r] IN
         t \in Schemas /\ t.tables = s.tables /\ t.cols = s.cols /\ t.stamp = r
  BY DEF Schemas

LEMMA StartType ==
  /\ Start \in Boot
  /\ Start.pc = "start" /\ Start.before = None
  /\ Start.runs = {} /\ Start.journals = {} /\ Start.snapshots = {}
  BY DEF Start, Boot, Phases

LEMMA Went ==
  ASSUME boot \in Boot, NEW pc \in Phases, Goto(pc)
  PROVE  /\ boot' \in Boot
         /\ boot'.pc = pc /\ boot'.before = boot.before
         /\ boot'.runs = boot.runs /\ boot'.journals = boot.journals
         /\ boot'.snapshots = boot.snapshots
  BY DEF Goto, Boot

LEMMA NoWriteType == NoWrite \in Writer /\ NoWrite.pc = "idle" /\ NoWrite.id = None
  BY DEF NoWrite, Writer

-----------------------------------------------------------------------------
(* What the operations on snapshots do to the listing. *)

LEMMA Inserted ==
  ASSUME SnapshotsTypeOK, NEW i \in Ids, InsertRow(i)
  PROVE  /\ SnapshotsTypeOK'
         /\ indexed' = indexed \cup {i}
         /\ UNCHANGED <<files, deleting, removed, torn>>
  BY DEF InsertRow, SnapshotsTypeOK

LEMMA Committed ==
  ASSUME SnapshotsTypeOK, NEW copied \in SUBSET Ids, CommitDelete(copied)
  PROVE  /\ SnapshotsTypeOK'
         /\ indexed' = indexed \ deleting
         /\ deleting' = {} /\ deleting \cap files = {} /\ files' = files
         /\ removed' = removed \cup deleting
         /\ torn' = torn \cup (deleting \cap copied)
  BY DEF CommitDelete, SnapshotsTypeOK

-----------------------------------------------------------------------------
(* Parts of the invariant that an action leaves alone. *)

LEMMA FilesSame ==
  ASSUME FilesInv, UNCHANGED <<svars, writer>>, boot'.snapshots \subseteq boot.snapshots
  PROVE  FilesInv'
  BY DEF FilesInv, svars

LEMMA ScratchSame ==
  ASSUME ScratchInv, UNCHANGED <<schema, scratch, decided, stale>>, Clearing' = Clearing
  PROVE  ScratchInv'
  BY DEF ScratchInv

(* No row is lost while the tables hold them all, and none of those dumped *)
(* while the dump is kept.                                                 *)
LEMMA KeptSame ==
  ASSUME KeptInv, UNCHANGED <<svars, runs, journals, owed, writer>>, excused \subseteq excused',
         Rebuilding => /\ Rebuilding'
                       /\ boot'.runs = boot.runs /\ boot'.journals = boot.journals
                       /\ boot'.snapshots = boot.snapshots
  PROVE  KeptInv'
  BY DEF KeptInv, RunKept, JournalKept, SnapshotKept, svars

-----------------------------------------------------------------------------
(* The paths of bootstrap(). *)

LEMMA InspectKeeps ==
  ASSUME BootInv, Inspect
  PROVE  BootInv'
  <1> DEFINE pc == IF ~schema.tables THEN "fresh"
                   ELSE IF schema.stamp # None THEN "upgrade"
                   ELSE IF Compatible THEN "stamp" ELSE "dumpRuns"
             b  == [Start EXCEPT !.pc = pc, !.before = schema.stamp]
  <1>1. schema.stamp \in Revisions \cup {None}
    BY DEF BootInv, BootstrapTypeOK, Schemas
  <1>2. pc \in {"fresh", "upgrade", "stamp", "dumpRuns"}
    OBVIOUS
  <1>3. boot.pc = "start" /\ boot' = b
    BY DEF Inspect
  <1>4. UNCHANGED <<schema, tables, release, pod, writer, faults, ghosts, svars>>
    BY DEF Inspect
  <1>5. /\ pc = "fresh" => ~schema.tables
        /\ pc \in {"upgrade", "stamp"} => schema.tables
    OBVIOUS
  <1> HIDE DEF pc
  <1>6. /\ b \in Boot /\ b.pc = pc /\ b.before = schema.stamp
        /\ b.runs = {} /\ b.journals = {} /\ b.snapshots = {}
    BY <1>1, <1>2, StartType DEF Boot, Phases
  <1> HIDE DEF b
  <1>7. BootstrapTypeOK'
    BY <1>3, <1>4, <1>6 DEF BootInv, BootstrapTypeOK, SnapshotsTypeOK, tables, ghosts, svars
  <1>8. PhaseInv'
    BY <1>2, <1>3, <1>4, <1>5, <1>6 DEF PhaseInv
  <1>9. FilesInv'
    BY <1>3, <1>4, <1>6, FilesSame DEF BootInv
  <1>10. ScratchInv'
    BY <1>2, <1>3, <1>4, <1>6, ScratchSame DEF BootInv, Clearing, tables, ghosts
  <1>11. DumpInv'
    BY <1>2, <1>3, <1>6 DEF DumpInv
  <1>12. KeptInv'
    BY <1>3, <1>4, KeptSame DEF BootInv, Rebuilding, tables, ghosts
  <1>13. QED
    BY <1>7, <1>8, <1>9, <1>10, <1>11, <1>12 DEF BootInv

(* Steps that only go from one phase of bootstrap() to another.            *)
LEMMA PhaseKeeps ==
  ASSUME BootInv, UNCHANGED <<schema, tables, release, pod, writer, faults, ghosts, svars>>,
         boot' \in Boot, boot'.snapshots \subseteq boot.snapshots,
         ~Rebuilding, Clearing' = Clearing,
         boot'.pc \in {"start", "clear", "ready", "up"}
  PROVE  BootInv'
  <1>1. BootstrapTypeOK'
    BY DEF BootInv, BootstrapTypeOK, SnapshotsTypeOK, tables, ghosts, svars
  <1>2. PhaseInv' /\ DumpInv'
    BY DEF PhaseInv, DumpInv
  <1>3. FilesInv'
    BY FilesSame DEF BootInv
  <1>4. ScratchInv'
    BY ScratchSame DEF BootInv, tables, ghosts
  <1>5. KeptInv'
    BY KeptSame DEF BootInv, tables, ghosts
  <1>6. QED
    BY <1>1, <1>2, <1>3, <1>4, <1>5 DEF BootInv

LEMMA CompareKeeps ==
  ASSUME BootInv, Compare
  PROVE  BootInv'
  <1> DEFINE pc == IF boot.before # schema.stamp THEN "clear" ELSE "ready"
  <1>1. boot.pc = "compare" /\ Goto(pc) /\ pc \in Phases
    BY DEF Compare, Phases
  <1>2. boot \in Boot
    BY DEF BootInv, BootstrapTypeOK
  <1>3. Clearing' = Clearing
    BY <1>1, <1>2, Went DEF Clearing, Compare
  <1>4. ~Rebuilding
    BY <1>1 DEF Rebuilding
  <1>5. QED
    BY <1>1, <1>2, <1>3, <1>4, Went, PhaseKeeps DEF Compare

LEMMA AdoptKeeps ==
  ASSUME BootInv, Adopt
  PROVE  BootInv'
  <1>1. boot.pc = "adopt" /\ boot \in Boot
    BY DEF Adopt, BootInv, BootstrapTypeOK
  <1>2. /\ boot' \in Boot /\ boot'.snapshots \subseteq boot.snapshots
        /\ boot'.pc \in {"start", "ready"}
    BY <1>1, Went, StartType DEF Adopt, Retry, Phases
  <1>3. ~Rebuilding /\ Clearing' = Clearing
    BY <1>1, <1>2 DEF Rebuilding, Clearing
  <1>4. QED
    BY <1>2, <1>3, PhaseKeeps DEF Adopt

LEMMA InitialUpgradeKeeps ==
  ASSUME BootInv, InitialUpgrade
  PROVE  BootInv'
  <1> DEFINE pc == IF boot.pc = "fresh" THEN "ready" ELSE "restore"
  <1>1. /\ boot.pc \in {"fresh", "create"} /\ Goto(pc) /\ schema' = Managed(release, release)
        /\ UNCHANGED <<tables, release, pod, writer, faults, owed, excused, stale, svars>>
        /\ decided' \in {decided, {}}
    BY DEF InitialUpgrade, Migrated
  <1>2. boot \in Boot /\ release \in Revisions \ {0}
    BY DEF BootInv, BootstrapTypeOK
  <1>3. /\ boot' \in Boot /\ boot'.pc = pc
        /\ boot'.runs = boot.runs /\ boot'.journals = boot.journals
        /\ boot'.snapshots = boot.snapshots
    BY <1>1, <1>2, Went DEF Phases
  <1>4. schema' \in Schemas /\ schema'.tables
    BY <1>1, <1>2, SchemaTypes
  <1>5. BootstrapTypeOK'
    BY <1>1, <1>3, <1>4 DEF BootInv, BootstrapTypeOK, SnapshotsTypeOK, tables, svars
  <1>6. PhaseInv' /\ DumpInv'
    BY <1>1, <1>3 DEF PhaseInv, DumpInv
  <1>7. FilesInv'
    BY <1>1, <1>3, FilesSame DEF BootInv
  <1>8. scratch = {} /\ decided = {}
    BY <1>1 DEF BootInv, PhaseInv, ScratchInv
  <1>9. ScratchInv'
    BY <1>1, <1>3, <1>4, <1>8 DEF ScratchInv, Clearing, tables
  <1>10. KeptInv'
    BY <1>1, <1>3, KeptSame DEF BootInv, Rebuilding, tables
  <1>11. QED
    BY <1>5, <1>6, <1>7, <1>9, <1>10 DEF BootInv

LEMMA UpgradeKeeps ==
  ASSUME BootInv, Upgrade
  PROVE  BootInv'
  <1>1. /\ boot.pc = "upgrade" /\ boot \in Boot /\ schema.tables /\ boot.before = schema.stamp
        /\ schema \in Schemas /\ release \in Revisions
    BY DEF Upgrade, BootInv, BootstrapTypeOK, PhaseInv
  <1>2. UNCHANGED <<tables, release, pod, writer, faults, owed, excused, stale, svars>>
    BY DEF Upgrade
  <1>3. CASE ~Upgradable
    <2>1. boot' = Start /\ UNCHANGED schema /\ UNCHANGED decided
      BY <1>3 DEF Upgrade, Retry, Migrated
    <2>2. ~Rebuilding /\ Clearing' = Clearing
      BY <1>1, <2>1, StartType DEF Rebuilding, Clearing
    <2>3. QED
      BY <1>2, <2>1, <2>2, StartType, PhaseKeeps DEF ghosts
  <1>4. CASE Upgradable
    <2> DEFINE cols == IF schema.stamp = release THEN schema.cols ELSE release
    <2>1. cols \in Revisions
      BY <1>1 DEF Schemas
    <2>2. schema' = [schema EXCEPT !.cols = cols, !.stamp = release] /\ Goto("compare")
      BY <1>4 DEF Upgrade
    <2> HIDE DEF cols
    <2>3. /\ schema' \in Schemas /\ schema'.tables
          /\ schema'.cols = cols /\ schema'.stamp = release
      BY <1>1, <2>1, <2>2 DEF Schemas
    <2>4. /\ boot' \in Boot /\ boot'.pc = "compare" /\ boot'.before = schema.stamp
          /\ boot'.snapshots = boot.snapshots
      BY <1>1, <2>2, Went DEF Phases
    <2>5. schema.stamp = release => schema'.cols = schema.cols /\ decided' = decided
      BY <2>3 DEF Upgrade, Migrated, cols
    <2>6. schema.stamp # release => decided' = {}
      <3> SUFFICES ASSUME schema.stamp # release PROVE decided' = {}
        OBVIOUS
      <3>1. schema.stamp < release /\ schema.cols = schema.stamp /\ schema'.cols = release
        BY <1>4, <2>3 DEF Upgradable, cols
      <3>2. QED
        BY <3>1 DEF Upgrade, Migrated
    <2>7. decided' \subseteq decided
      BY <2>5, <2>6
    <2>8. BootstrapTypeOK'
      BY <1>2, <2>3, <2>4, <2>7
         DEF BootInv, BootstrapTypeOK, SnapshotsTypeOK, tables, svars
    <2>9. PhaseInv' /\ DumpInv'
      BY <2>4 DEF PhaseInv, DumpInv
    <2>10. FilesInv'
      BY <1>2, <2>4, FilesSame DEF BootInv
    <2>11. ScratchInv'
      <3>1. ~Clearing /\ (Clearing' <=> schema.stamp # release)
        BY <1>1, <2>3, <2>4 DEF Clearing
      <3>2. decided' \subseteq scratch'
        BY <1>2, <2>7 DEF BootInv, ScratchInv, tables
      <3>3. ~Clearing' => scratch' \subseteq {schema'.cols} \cup stale'
        BY <1>2, <2>5, <3>1 DEF BootInv, ScratchInv, tables
      <3>4. QED
        BY <2>3, <2>6, <3>1, <3>2, <3>3 DEF ScratchInv
    <2>12. KeptInv'
      BY <1>1, <1>2, KeptSame DEF BootInv, Rebuilding, tables
    <2>13. QED
      BY <2>8, <2>9, <2>10, <2>11, <2>12 DEF BootInv
  <1>5. QED
    BY <1>3, <1>4

LEMMA ClearKeeps ==
  ASSUME BootInv, Clear
  PROVE  BootInv'
  <1>1. /\ boot.pc = "clear" /\ boot \in Boot /\ Goto("ready") /\ scratch' = {}
        /\ UNCHANGED <<schema, runs, journals, release, pod, writer, faults, ghosts, svars>>
    BY DEF Clear, BootInv, BootstrapTypeOK
  <1>2. boot' \in Boot /\ boot'.pc = "ready" /\ boot'.snapshots = boot.snapshots
    BY <1>1, Went DEF Phases
  <1>3. BootstrapTypeOK'
    BY <1>1, <1>2 DEF BootInv, BootstrapTypeOK, SnapshotsTypeOK, ghosts, svars
  <1>4. PhaseInv' /\ DumpInv'
    BY <1>2 DEF PhaseInv, DumpInv
  <1>5. FilesInv'
    BY <1>1, <1>2, FilesSame DEF BootInv
  <1>6. decided = {}
    BY <1>1 DEF BootInv, ScratchInv, Clearing
  <1>7. ScratchInv'
    BY <1>1, <1>2, <1>6 DEF ScratchInv, Clearing, ghosts
  <1>8. KeptInv'
    BY <1>1, KeptSame DEF BootInv, Rebuilding, ghosts
  <1>9. QED
    BY <1>3, <1>4, <1>5, <1>7, <1>8 DEF BootInv

LEMMA StampKeeps ==
  ASSUME BootInv, Stamp
  PROVE  BootInv'
  <1>1. /\ boot.pc = "stamp" /\ boot \in Boot /\ Goto("adopt") /\ schema.tables
        /\ schema \in Schemas /\ release \in Revisions
        /\ schema' = [schema EXCEPT !.stamp = release]
        /\ UNCHANGED <<tables, release, pod, writer, faults, ghosts, svars>>
    BY DEF Stamp, BootInv, BootstrapTypeOK, PhaseInv
  <1>2. boot' \in Boot /\ boot'.pc = "adopt" /\ boot'.snapshots = boot.snapshots
    BY <1>1, Went DEF Phases
  <1>3. schema' \in Schemas /\ schema'.tables /\ schema'.cols = schema.cols
    BY <1>1, SchemaStamped
  <1>4. BootstrapTypeOK'
    BY <1>1, <1>2, <1>3 DEF BootInv, BootstrapTypeOK, SnapshotsTypeOK, tables, ghosts, svars
  <1>5. PhaseInv' /\ DumpInv'
    BY <1>2 DEF PhaseInv, DumpInv
  <1>6. FilesInv'
    BY <1>1, <1>2, FilesSame DEF BootInv
  <1>7. ScratchInv'
    BY <1>1, <1>2, <1>3 DEF BootInv, ScratchInv, Clearing, tables, ghosts
  <1>8. KeptInv'
    BY <1>1, KeptSame DEF BootInv, Rebuilding, tables, ghosts
  <1>9. QED
    BY <1>4, <1>5, <1>6, <1>7, <1>8 DEF BootInv

(* The dump takes one table after the other. *)
LEMMA DumpKeeps ==
  ASSUME BootInv, DumpRuns \/ DumpJournals \/ DumpSnapshots
  PROVE  BootInv'
  <1>1. /\ UNCHANGED <<schema, tables, release, pod, writer, faults, ghosts, svars>>
        /\ boot \in Boot /\ runs \subseteq Ids /\ journals \subseteq Ids /\ indexed \subseteq Ids
        /\ schema \in Schemas
    BY DEF DumpRuns, DumpJournals, DumpSnapshots, BootInv, BootstrapTypeOK, SnapshotsTypeOK
  <1>2. /\ boot' \in Boot
        /\ boot.pc \in {"dumpRuns", "dumpJournals", "dumpSnapshots"}
        /\ boot'.pc \in {"dumpJournals", "dumpSnapshots", "drop"}
        /\ boot'.snapshots \subseteq boot.snapshots \cup indexed
    <2>1. CASE DumpRuns
      BY <1>1, <2>1 DEF DumpRuns, Boot, Phases
    <2>2. CASE DumpJournals
      BY <1>1, <2>2 DEF DumpJournals, Boot, Phases
    <2>3. CASE DumpSnapshots
      BY <1>1, <2>3 DEF DumpSnapshots, Boot, Phases, Schemas
    <2>4. QED
      BY <2>1, <2>2, <2>3
  <1>3. BootstrapTypeOK'
    BY <1>1, <1>2 DEF BootInv, BootstrapTypeOK, SnapshotsTypeOK, tables, ghosts, svars
  <1>4. PhaseInv'
    BY <1>2 DEF PhaseInv
  <1>5. indexed' = indexed
    BY <1>1 DEF svars
  <1>6. FilesInv'
    BY <1>1, <1>2, <1>5 DEF BootInv, FilesInv, svars
  <1>8. ScratchInv'
    BY <1>1, <1>2, ScratchSame DEF BootInv, Clearing, tables, ghosts
  <1>9. DumpInv'
    <2>1. CASE DumpRuns
      <3>1. boot'.pc = "dumpJournals" /\ boot'.runs = runs
        BY <1>1, <2>1 DEF DumpRuns, Boot
      <3>2. QED
        BY <1>1, <3>1 DEF DumpInv, tables
    <2>2. CASE DumpJournals
      <3>1. /\ boot.pc = "dumpJournals" /\ boot'.pc = "dumpSnapshots"
            /\ boot'.runs = boot.runs /\ boot'.journals = journals
        BY <1>1, <2>2 DEF DumpJournals, Boot
      <3>2. QED
        BY <1>1, <3>1 DEF BootInv, DumpInv, tables, ghosts
    <2>3. CASE DumpSnapshots
      <3>1. /\ boot.pc = "dumpSnapshots" /\ boot'.pc = "drop"
            /\ boot'.runs = boot.runs /\ boot'.journals = boot.journals
            /\ boot'.snapshots = indexed
        BY <1>1, <2>3 DEF DumpSnapshots, Boot
      <3>2. QED
        BY <1>1, <1>5, <3>1 DEF BootInv, DumpInv, tables, ghosts
    <2>4. QED
      BY <2>1, <2>2, <2>3
  <1>10. KeptInv'
    BY <1>1, <1>2, KeptSame DEF BootInv, Rebuilding, tables, ghosts
  <1>11. QED
    BY <1>3, <1>4, <1>6, <1>8, <1>9, <1>10 DEF BootInv

LEMMA DropKeeps ==
  ASSUME BootInv, Drop
  PROVE  BootInv'
  <1>1. /\ boot.pc = "drop" /\ Goto("create") /\ schema' = Empty
        /\ runs' = {} /\ journals' = {} /\ scratch' = {} /\ decided' = {}
        /\ indexed' = {}
        /\ UNCHANGED <<release, pod, writer, faults, owed, excused, stale,
                       files, deleting, removed, torn>>
        /\ boot \in Boot
    BY DEF Drop, BootInv, BootstrapTypeOK, SnapshotsTypeOK
  <1>2. /\ boot' \in Boot /\ boot'.pc = "create"
        /\ boot'.runs = boot.runs /\ boot'.journals = boot.journals
        /\ boot'.snapshots = boot.snapshots
    BY <1>1, Went DEF Phases
  <1>3. schema' \in Schemas /\ ~schema'.tables /\ indexed' = {}
    BY <1>1, SchemaTypes
  <1>4. BootstrapTypeOK'
    BY <1>1, <1>2, <1>3 DEF BootInv, BootstrapTypeOK, SnapshotsTypeOK
  <1>5. PhaseInv' /\ DumpInv'
    BY <1>2, <1>3 DEF PhaseInv, DumpInv
  <1>6. FilesInv'
    BY <1>1, <1>2, <1>3 DEF BootInv, FilesInv
  <1>8. ScratchInv'
    BY <1>1, <1>2 DEF ScratchInv, Clearing
  <1>9. KeptInv'
    <2>1. /\ runs \subseteq boot.runs \cup excused
          /\ journals \subseteq boot.journals \cup excused
          /\ indexed \subseteq boot.snapshots \cup excused
      BY <1>1 DEF BootInv, DumpInv
    <2>2. Rebuilding' /\ ~Rebuilding
      BY <1>1, <1>2 DEF Rebuilding
    <2>3. \A i : i \notin excused =>
            /\ RunKept(i) => RunKept(i)'
            /\ JournalKept(i) => JournalKept(i)'
            /\ SnapshotKept(i) => SnapshotKept(i)'
      BY <1>1, <1>2, <2>1, <2>2 DEF RunKept, JournalKept, SnapshotKept
    <2>4. QED
      BY <1>1, <2>3 DEF BootInv, KeptInv
  <1>10. QED
    BY <1>4, <1>5, <1>6, <1>8, <1>9 DEF BootInv

(* What ends with the dump in memory is kept or excused. *)
LEMMA DumpLost ==
  ASSUME KeptInv, UNCHANGED <<svars, runs, journals, owed, writer>>,
         excused' = excused \cup InMemoryOnly, ~Rebuilding', owed \subseteq Ids, FilesInv
  PROVE  KeptInv'
  <1>1. \A i \in owed \ excused' : i \in runs /\ i \in journals /\ i \in indexed
    BY NoneIsNoId DEF InMemoryOnly
  <1>2. writer.pc # "idle" /\ writer.id \notin excused' =>
          writer.id \in runs /\ writer.id \in indexed
    BY NoneIsNoId DEF InMemoryOnly, FilesInv
  <1>3. QED
    BY <1>1, <1>2 DEF KeptInv, RunKept, JournalKept, SnapshotKept, svars

LEMMA RestoreKeeps ==
  ASSUME BootInv, Restore
  PROVE  BootInv'
  <1>1. /\ boot.pc = "restore" /\ boot \in Boot /\ SnapshotsTypeOK
        /\ runs \subseteq Ids /\ journals \subseteq Ids /\ owed \subseteq Ids
        /\ boot.runs \subseteq Ids /\ boot.journals \subseteq Ids /\ boot.snapshots \subseteq Ids
        /\ UNCHANGED <<schema, scratch, release, pod, writer, faults, owed, decided, stale,
                       files, deleting, removed, torn>>
    BY DEF Restore, BootInv, BootstrapTypeOK, Boot
  <1>2. CASE Retry
    <2>1. boot' = Start /\ boot.legacy /\ excused' = excused \cup InMemoryOnly
          /\ UNCHANGED <<runs, journals, indexed>>
      <3>1. Start.pc # "ready"
        BY StartType
      <3>2. [Start EXCEPT !.pc = "ready"].pc = "ready"
        BY DEF Start
      <3>3. QED
        BY <1>2, <3>1, <3>2 DEF Restore, Retry
    <2>2. InMemoryOnly \subseteq Ids
      BY <1>1 DEF InMemoryOnly, BootInv, BootstrapTypeOK, Writer
    <2>3. BootstrapTypeOK'
      BY <1>1, <2>1, <2>2, StartType DEF BootInv, BootstrapTypeOK, SnapshotsTypeOK
    <2>4. PhaseInv' /\ DumpInv' /\ ~Rebuilding'
      BY <2>1, StartType DEF PhaseInv, DumpInv, Rebuilding
    <2>5. FilesInv'
      BY <1>1, <2>1, StartType, FilesSame DEF BootInv, svars
    <2>6. ScratchInv'
      BY <1>1, <2>1, StartType, ScratchSame DEF BootInv, Clearing
    <2>7. KeptInv'
      BY <1>1, <2>1, <2>4, DumpLost DEF BootInv, svars
    <2>8. QED
      BY <2>3, <2>4, <2>5, <2>6, <2>7 DEF BootInv
  <1>3. CASE ~Retry
    <2>1. /\ runs' = runs \cup boot.runs /\ journals' = journals \cup boot.journals
          /\ indexed' = indexed \cup boot.snapshots
          /\ boot' = [Start EXCEPT !.pc = "ready"] /\ UNCHANGED excused
      BY <1>3 DEF Restore
    <2>2. /\ boot' \in Boot /\ boot'.pc = "ready" /\ boot'.snapshots = {}
      BY <2>1 DEF Start, Boot, Phases
    <2>4. SnapshotsTypeOK' /\ indexed' = indexed \cup boot.snapshots
      BY <1>1, <2>1 DEF SnapshotsTypeOK, Boot
    <2>5. BootstrapTypeOK'
      BY <1>1, <2>1, <2>2, <2>4 DEF BootInv, BootstrapTypeOK
    <2>6. PhaseInv' /\ DumpInv'
      BY <2>2 DEF PhaseInv, DumpInv
    <2>7. FilesInv'
      BY <1>1, <2>2, <2>4 DEF BootInv, FilesInv
    <2>9. ScratchInv'
      BY <1>1, <2>2, ScratchSame DEF BootInv, Clearing
    <2>10. KeptInv'
      BY <1>1, <2>1, <2>4 DEF BootInv, KeptInv, RunKept, JournalKept, SnapshotKept
    <2>11. QED
      BY <2>5, <2>6, <2>7, <2>9, <2>10 DEF BootInv
  <1>4. QED
    BY <1>2, <1>3

-----------------------------------------------------------------------------
(* The end of bootstrap(), deploys and deaths. *)

(* What is left when the work of a pod stops. *)
LEMMA Stopped ==
  ASSUME BootInv, StopWork
  PROVE  /\ SnapshotsTypeOK' /\ writer' = NoWrite
         /\ indexed' = indexed /\ removed' = removed
         /\ boot'.snapshots \subseteq boot.snapshots => FilesInv'
  <1>1. /\ writer' = NoWrite /\ torn' = torn \cup deleting /\ deleting' = {}
        /\ UNCHANGED <<files, indexed, removed>>
    BY DEF StopWork, AbandonDelete
  <1>2. SnapshotsTypeOK' /\ indexed' = indexed
    BY <1>1 DEF BootInv, BootstrapTypeOK, SnapshotsTypeOK
  <1>4. boot'.snapshots \subseteq boot.snapshots => FilesInv'
    BY <1>1, <1>2, NoWriteType DEF BootInv, FilesInv
  <1>5. QED
    BY <1>1, <1>2, <1>4

(* An idle writer owes nothing; the rest is kept where it was. *)
LEMMA StoppedKept ==
  ASSUME KeptInv, writer' = NoWrite, indexed' = indexed,
         UNCHANGED <<removed, runs, journals, owed, excused>>,
         \/ ~Rebuilding
         \/ UNCHANGED boot
  PROVE  KeptInv'
  BY NoWriteType DEF KeptInv, RunKept, JournalKept, SnapshotKept, Rebuilding

LEMMA RollOverKeeps ==
  ASSUME BootInv, RollOver
  PROVE  BootInv'
  <1>1. /\ boot.pc = "ready" /\ boot \in Boot /\ Goto("up") /\ pod' = release /\ StopWork
        /\ UNCHANGED <<schema, tables, release, faults, ghosts>>
    BY DEF RollOver, BootInv, BootstrapTypeOK
  <1>2. boot' \in Boot /\ boot'.pc = "up" /\ boot'.snapshots = boot.snapshots
    BY <1>1, Went DEF Phases
  <1>3. BootstrapTypeOK'
    BY <1>1, <1>2, Stopped, NoWriteType DEF BootInv, BootstrapTypeOK, tables, ghosts
  <1>4. PhaseInv' /\ DumpInv'
    BY <1>2 DEF PhaseInv, DumpInv
  <1>5. FilesInv'
    BY <1>1, <1>2, Stopped
  <1>6. ScratchInv'
    BY <1>1, <1>2, ScratchSame DEF BootInv, Clearing, tables, ghosts
  <1>7. KeptInv'
    BY <1>1, Stopped, StoppedKept DEF BootInv, Rebuilding, tables, ghosts
  <1>8. QED
    BY <1>3, <1>4, <1>5, <1>6, <1>7 DEF BootInv

LEMMA PodDiesKeeps ==
  ASSUME BootInv, PodDies
  PROVE  BootInv'
  <1>1. /\ faults < MaxFaults /\ faults' = faults + 1 /\ pod' = None /\ StopWork
        /\ UNCHANGED <<schema, tables, release, ghosts>>
        /\ boot \in Boot
    BY DEF PodDies, BootInv, BootstrapTypeOK
  <1>2. \/ boot.pc = "up" /\ boot' = Start
        \/ UNCHANGED boot
    BY DEF PodDies, Retry
  <1>3. boot' \in Boot /\ boot'.snapshots \subseteq boot.snapshots
    BY <1>1, <1>2, StartType
  <1>4. faults' \in 0..MaxFaults
    BY <1>1, BoundType DEF BootInv, BootstrapTypeOK
  <1>5. BootstrapTypeOK'
    BY <1>1, <1>3, <1>4, Stopped, NoWriteType DEF BootInv, BootstrapTypeOK, tables, ghosts
  <1>6. PhaseInv'
    BY <1>1, <1>2, StartType DEF BootInv, PhaseInv
  <1>7. DumpInv'
    BY <1>1, <1>2, Stopped, StartType DEF BootInv, DumpInv, tables, ghosts
  <1>8. FilesInv'
    BY <1>1, <1>3, Stopped
  <1>9. ScratchInv'
    BY <1>1, <1>2, StartType, ScratchSame DEF BootInv, Clearing, tables, ghosts
  <1>10. KeptInv'
    BY <1>1, <1>2, Stopped, StoppedKept DEF BootInv, Rebuilding, tables, ghosts
  <1>11. QED
    BY <1>5, <1>6, <1>7, <1>8, <1>9, <1>10 DEF BootInv

LEMMA CutShortKeeps ==
  ASSUME BootInv, CutShort, UNCHANGED <<schema, tables, pod, writer, svars>>,
         release' \in Revisions \ {0}, faults' \in 0..MaxFaults
  PROVE  BootInv'
  <1>1. /\ boot' = Start /\ UNCHANGED <<owed, decided>>
        /\ excused' = IF Rebuilding THEN excused \cup InMemoryOnly ELSE excused
        /\ stale' = IF Clearing THEN stale \cup scratch ELSE stale
    BY DEF CutShort, Retry, Rebuilding, Clearing
  <1>2. owed \subseteq Ids /\ scratch \subseteq Revisions
    BY DEF BootInv, BootstrapTypeOK
  <1>3. InMemoryOnly \subseteq Ids
    BY <1>2 DEF InMemoryOnly, BootInv, BootstrapTypeOK, Writer
  <1>4. BootstrapTypeOK'
    BY <1>1, <1>2, <1>3, StartType DEF BootInv, BootstrapTypeOK, SnapshotsTypeOK, tables, svars
  <1>5. PhaseInv' /\ DumpInv' /\ ~Rebuilding' /\ ~Clearing'
    BY <1>1, StartType DEF PhaseInv, DumpInv, Rebuilding, Clearing
  <1>6. FilesInv'
    BY <1>1, StartType, FilesSame DEF BootInv
  <1>7. ScratchInv'
    BY <1>1, <1>5 DEF BootInv, ScratchInv, tables
  <1>8. KeptInv'
    <2>1. CASE Rebuilding
      BY <1>1, <1>2, <1>5, <2>1, DumpLost DEF BootInv, tables
    <2>2. CASE ~Rebuilding
      BY <1>1, <2>2, KeptSame DEF BootInv, tables
    <2>3. QED
      BY <2>1, <2>2
  <1>9. QED
    BY <1>4, <1>5, <1>6, <1>7, <1>8 DEF BootInv

LEMMA DeployKeeps ==
  ASSUME BootInv, NEW r \in Revisions \ {0}, Deploy(r)
  PROVE  BootInv'
  <1>1. faults' \in 0..MaxFaults
    BY BoundType DEF Deploy, BootInv, BootstrapTypeOK
  <1>2. QED
    BY <1>1, CutShortKeeps DEF Deploy

LEMMA BootDiesKeeps ==
  ASSUME BootInv, BootDies
  PROVE  BootInv'
  <1>1. faults' \in 0..MaxFaults /\ release' \in Revisions \ {0}
    BY BoundType DEF BootDies, BootInv, BootstrapTypeOK
  <1>2. QED
    BY <1>1, CutShortKeeps DEF BootDies

-----------------------------------------------------------------------------
(* The pod that serves. *)

(* Rows are added, and what is added beside a dump is excused. *)
LEMMA DumpGrows ==
  ASSUME DumpInv, NEW i, UNCHANGED boot, Excuse(i),
         runs' \subseteq runs \cup {i}, journals' \subseteq journals \cup {i},
         indexed' \subseteq indexed \cup {i}
  PROVE  DumpInv'
  <1>1. CASE Dumping
    <2>1. excused' = excused \cup {i}
      BY <1>1 DEF Excuse
    <2>2. QED
      BY <2>1 DEF DumpInv
  <1>2. CASE ~Dumping
    BY <1>2 DEF DumpInv, Dumping
  <1>3. QED
    BY <1>1, <1>2

LEMMA RowsGrow ==
  ASSUME UNCHANGED boot, runs \subseteq runs', journals \subseteq journals',
         indexed \cup removed \subseteq indexed' \cup removed'
  PROVE  \A i : /\ RunKept(i) => RunKept(i)'
                /\ JournalKept(i) => JournalKept(i)'
                /\ SnapshotKept(i) => SnapshotKept(i)'
  BY DEF RunKept, JournalKept, SnapshotKept, Rebuilding

LEMMA PhaseSame ==
  ASSUME PhaseInv, UNCHANGED <<boot, schema>>
  PROVE  PhaseInv' /\ Clearing' = Clearing
  BY DEF PhaseInv, Clearing

LEMMA WriterFields ==
  ASSUME writer \in Writer, NEW pc \in {"index", "run", "journal"},
         writer' = [writer EXCEPT !.pc = pc]
  PROVE  writer' \in Writer /\ writer'.pc = pc /\ writer'.id = writer.id
  BY DEF Writer

LEMMA ExcuseType ==
  ASSUME NEW i \in Ids, excused \subseteq Ids, Excuse(i)
  PROVE  excused' \subseteq Ids /\ excused \subseteq excused'
  BY DEF Excuse

LEMMA BeginWriteKeeps ==
  ASSUME BootInv, BeginWrite
  PROVE  BootInv'
  <1> DEFINE id == CHOOSE i \in Unused : TRUE
  <1>1. /\ UNCHANGED <<schema, tables, release, boot, pod, faults, ghosts, svars>>
        /\ id \in Unused /\ writer' = [pc |-> "file", id |-> id]
    BY DEF BeginWrite
  <1> HIDE DEF id
  <1>2. id \in Ids \ (indexed \cup deleting \cup boot.snapshots)
    BY <1>1 DEF Unused
  <1>3. writer' \in Writer /\ writer'.pc = "file" /\ writer'.id = id
    BY <1>1, <1>2 DEF Writer
  <1>4. BootstrapTypeOK'
    BY <1>1, <1>3 DEF BootInv, BootstrapTypeOK, SnapshotsTypeOK, tables, ghosts, svars
  <1>5. PhaseInv' /\ Clearing' = Clearing
    BY <1>1, PhaseSame DEF BootInv
  <1>6. indexed' = indexed
    BY <1>1 DEF svars
  <1>7. FilesInv'
    BY <1>1, <1>2, <1>3, <1>6 DEF BootInv, FilesInv, svars
  <1>9. ScratchInv'
    BY <1>1, <1>5, ScratchSame DEF BootInv, tables, ghosts
  <1>10. DumpInv'
    BY <1>1, <1>6 DEF BootInv, DumpInv, tables, ghosts
  <1>11. KeptInv'
    BY <1>1, <1>3, <1>6 DEF BootInv, KeptInv, RunKept, JournalKept, SnapshotKept, Rebuilding,
       tables, ghosts, svars
  <1>12. QED
    BY <1>4, <1>5, <1>7, <1>9, <1>10, <1>11 DEF BootInv

LEMMA WriteSnapshotFileKeeps ==
  ASSUME BootInv, WriteSnapshotFile
  PROVE  BootInv'
  <1>1. /\ UNCHANGED <<schema, tables, release, boot, pod, faults, ghosts>>
        /\ UNCHANGED <<indexed, deleting, removed, torn>>
        /\ files' = files \cup {writer.id} /\ writer.pc = "file"
        /\ writer \in Writer
    BY DEF WriteSnapshotFile, WriteFile, BootInv, BootstrapTypeOK
  <1>2. writer' \in Writer /\ writer'.pc = "index" /\ writer'.id = writer.id
    BY <1>1, WriterFields DEF WriteSnapshotFile
  <1>3. writer.id \in Ids \ (indexed \cup deleting \cup boot.snapshots)
    BY <1>1 DEF BootInv, FilesInv
  <1>4. BootstrapTypeOK'
    BY <1>1, <1>2, <1>3 DEF BootInv, BootstrapTypeOK, SnapshotsTypeOK, tables, ghosts
  <1>5. PhaseInv' /\ Clearing' = Clearing
    BY <1>1, PhaseSame DEF BootInv
  <1>6. indexed' = indexed
    BY <1>1
  <1>7. FilesInv'
    BY <1>1, <1>2, <1>3, <1>6 DEF BootInv, FilesInv
  <1>9. ScratchInv'
    BY <1>1, <1>5, ScratchSame DEF BootInv, tables, ghosts
  <1>10. DumpInv'
    BY <1>1, <1>6 DEF BootInv, DumpInv, tables, ghosts
  <1>11. KeptInv'
    BY <1>1, <1>2, <1>6 DEF BootInv, KeptInv, RunKept, JournalKept, SnapshotKept, Rebuilding,
       tables, ghosts
  <1>12. QED
    BY <1>4, <1>5, <1>7, <1>9, <1>10, <1>11 DEF BootInv

LEMMA IndexSnapshotKeeps ==
  ASSUME BootInv, IndexSnapshot
  PROVE  BootInv'
  <1>1. /\ UNCHANGED <<schema, tables, release, boot, pod, faults, owed, decided, stale>>
        /\ InsertRow(writer.id) /\ Excuse(writer.id) /\ writer.pc = "index"
        /\ writer \in Writer /\ SnapshotsTypeOK /\ excused \subseteq Ids
    BY DEF IndexSnapshot, BootInv, BootstrapTypeOK
  <1>2. writer' \in Writer /\ writer'.pc = "run" /\ writer'.id = writer.id
    BY <1>1, WriterFields DEF IndexSnapshot
  <1>3. writer.id \in Ids \ (indexed \cup deleting \cup boot.snapshots) /\ writer.id \in files
    BY <1>1 DEF BootInv, FilesInv
  <1>4. /\ SnapshotsTypeOK' /\ indexed' = indexed \cup {writer.id}
        /\ UNCHANGED <<files, deleting, removed, torn>>
    BY <1>1, <1>3, Inserted
  <1>5. excused' \subseteq Ids /\ excused \subseteq excused'
    BY <1>1, <1>3, ExcuseType
  <1>6. BootstrapTypeOK'
    BY <1>1, <1>2, <1>4, <1>5 DEF BootInv, BootstrapTypeOK, tables
  <1>7. PhaseInv' /\ Clearing' = Clearing
    BY <1>1, PhaseSame DEF BootInv
  <1>8. FilesInv'
    BY <1>1, <1>2, <1>3, <1>4 DEF BootInv, FilesInv
  <1>10. ScratchInv'
    BY <1>1, <1>7, ScratchSame DEF BootInv, tables
  <1>11. DumpInv'
    BY <1>1, <1>4, DumpGrows DEF BootInv, tables
  <1>12. KeptInv'
    <2>1. \A i : /\ RunKept(i) => RunKept(i)'
                 /\ JournalKept(i) => JournalKept(i)'
                 /\ SnapshotKept(i) => SnapshotKept(i)'
      BY <1>1, <1>4, RowsGrow DEF tables
    <2>2. PICK id : id = writer.id
      OBVIOUS
    <2>3. SnapshotKept(id)'
      BY <1>4, <2>2 DEF SnapshotKept
    <2>4. QED
      BY <1>1, <1>2, <1>5, <2>1, <2>2, <2>3 DEF BootInv, KeptInv
  <1>13. QED
    BY <1>6, <1>7, <1>8, <1>10, <1>11, <1>12 DEF BootInv

LEMMA RecordRunKeeps ==
  ASSUME BootInv, RecordRun
  PROVE  BootInv'
  <1>1. /\ UNCHANGED <<schema, journals, scratch, release, boot, pod, faults, owed,
                       decided, stale, svars>>
        /\ runs' = runs \cup {writer.id} /\ Excuse(writer.id) /\ writer.pc = "run"
        /\ writer \in Writer /\ excused \subseteq Ids
    BY DEF RecordRun, BootInv, BootstrapTypeOK
  <1>2. writer' \in Writer /\ writer'.pc = "journal" /\ writer'.id = writer.id
    BY <1>1, WriterFields DEF RecordRun
  <1>3. writer.id \in Ids
    BY <1>1 DEF BootInv, FilesInv
  <1>4. indexed' = indexed
    BY <1>1 DEF svars
  <1>5. excused' \subseteq Ids /\ excused \subseteq excused'
    BY <1>1, <1>3, ExcuseType
  <1>6. BootstrapTypeOK'
    BY <1>1, <1>2, <1>3, <1>5 DEF BootInv, BootstrapTypeOK, SnapshotsTypeOK, svars
  <1>7. PhaseInv' /\ Clearing' = Clearing
    BY <1>1, PhaseSame DEF BootInv
  <1>8. FilesInv'
    BY <1>1, <1>2, <1>3, <1>4 DEF BootInv, FilesInv, svars
  <1>10. ScratchInv'
    BY <1>1, <1>7, ScratchSame DEF BootInv
  <1>11. DumpInv'
    BY <1>1, <1>4, DumpGrows DEF BootInv
  <1>12. KeptInv'
    <2>1. \A i : /\ RunKept(i) => RunKept(i)'
                 /\ JournalKept(i) => JournalKept(i)'
                 /\ SnapshotKept(i) => SnapshotKept(i)'
      BY <1>1, <1>4, RowsGrow DEF svars
    <2>2. PICK id : id = writer.id
      OBVIOUS
    <2>3. RunKept(id)'
      BY <1>1, <2>2 DEF RunKept
    <2>4. QED
      BY <1>1, <1>2, <1>5, <2>1, <2>2, <2>3 DEF BootInv, KeptInv
  <1>13. QED
    BY <1>6, <1>7, <1>8, <1>10, <1>11, <1>12 DEF BootInv

LEMMA RecordJournalKeeps ==
  ASSUME BootInv, RecordJournal
  PROVE  BootInv'
  <1>1. /\ UNCHANGED <<schema, runs, scratch, release, boot, pod, faults, decided, stale,
                       svars>>
        /\ journals' = journals \cup {writer.id} /\ owed' = owed \cup {writer.id}
        /\ writer' = NoWrite /\ Excuse(writer.id) /\ writer.pc = "journal"
        /\ excused \subseteq Ids
    BY DEF RecordJournal, BootInv, BootstrapTypeOK
  <1>2. writer.id \in Ids
    BY <1>1 DEF BootInv, FilesInv
  <1>3. indexed' = indexed
    BY <1>1 DEF svars
  <1>4. excused' \subseteq Ids /\ excused \subseteq excused'
    BY <1>1, <1>2, ExcuseType
  <1>5. BootstrapTypeOK'
    BY <1>1, <1>2, <1>4, NoWriteType DEF BootInv, BootstrapTypeOK, SnapshotsTypeOK, svars
  <1>6. PhaseInv' /\ Clearing' = Clearing
    BY <1>1, PhaseSame DEF BootInv
  <1>7. FilesInv'
    BY <1>1, <1>3, NoWriteType DEF BootInv, FilesInv, svars
  <1>9. ScratchInv'
    BY <1>1, <1>6, ScratchSame DEF BootInv
  <1>10. DumpInv'
    BY <1>1, <1>3, DumpGrows DEF BootInv
  <1>11. KeptInv'
    <2>1. \A i : /\ RunKept(i) => RunKept(i)'
                 /\ JournalKept(i) => JournalKept(i)'
                 /\ SnapshotKept(i) => SnapshotKept(i)'
      BY <1>1, <1>3, RowsGrow DEF svars
    <2>2. PICK id : id = writer.id
      OBVIOUS
    <2>3. id \notin excused => RunKept(id) /\ SnapshotKept(id)
      BY <1>1, <2>2 DEF BootInv, KeptInv
    <2>4. JournalKept(id)'
      BY <1>1, <2>2 DEF JournalKept
    <2>5. \A i \in owed' \ excused' : (i \in owed \ excused) \/ (i = id /\ id \notin excused)
      BY <1>1, <1>4, <2>2
    <2>6. \A i \in owed' \ excused' : RunKept(i)' /\ JournalKept(i)' /\ SnapshotKept(i)'
      BY <2>1, <2>3, <2>4, <2>5 DEF BootInv, KeptInv
    <2>7. QED
      BY <1>1, <2>6, NoWriteType DEF KeptInv
  <1>12. QED
    BY <1>5, <1>6, <1>7, <1>9, <1>10, <1>11 DEF BootInv

LEMMA DecideKeeps ==
  ASSUME BootInv, Decide
  PROVE  BootInv'
  <1>1. /\ UNCHANGED <<schema, runs, journals, release, boot, pod, writer, faults,
                       owed, excused, stale, svars>>
        /\ scratch' = scratch \cup {schema.cols} /\ schema.tables
        /\ decided' = IF boot.pc \in {"compare", "clear"} THEN decided
                      ELSE decided \cup {schema.cols}
        /\ schema.cols \in Revisions
    BY DEF Decide, Serves, BootInv, BootstrapTypeOK, Schemas
  <1>2. BootstrapTypeOK'
    BY <1>1 DEF BootInv, BootstrapTypeOK, SnapshotsTypeOK, svars
  <1>3. PhaseInv' /\ Clearing' = Clearing
    BY <1>1, PhaseSame DEF BootInv
  <1>4. FilesInv'
    BY <1>1, FilesSame DEF BootInv
  <1>5. Clearing => decided' = {}
    BY <1>1 DEF BootInv, ScratchInv, Clearing
  <1>6. ScratchInv'
    BY <1>1, <1>3, <1>5 DEF BootInv, ScratchInv
  <1>7. DumpInv'
    BY <1>1 DEF BootInv, DumpInv, svars
  <1>8. KeptInv'
    BY <1>1, KeptSame DEF BootInv, Rebuilding
  <1>9. QED
    BY <1>2, <1>3, <1>4, <1>6, <1>7, <1>8 DEF BootInv

(* What deletions and purges leave of the snapshots. *)
LEMMA DeletionKeeps ==
  ASSUME BootInv, Delete
  PROVE  /\ SnapshotsTypeOK' /\ FilesInv'
         /\ indexed' \subseteq indexed
         /\ indexed \cup removed \subseteq indexed' \cup removed'
  <1> DEFINE Result == /\ SnapshotsTypeOK' /\ FilesInv'
                       /\ indexed' \subseteq indexed
                       /\ indexed \cup removed \subseteq indexed' \cup removed'
  <1>1. UNCHANGED <<boot, writer>> /\ SnapshotsTypeOK /\ boot.snapshots \in SUBSET Ids
    BY DEF Delete, bvars, BootInv, BootstrapTypeOK, Boot
  <1>2. ASSUME NEW i \in Ids, SelectOne(i)
        PROVE  Result
    <2>1. /\ UNCHANGED <<files, indexed, removed, torn>> /\ deleting = {} /\ i \in indexed
          /\ deleting' = {i}
      BY <1>2 DEF SelectOne
    <2>3. SnapshotsTypeOK'
      BY <1>1, <2>1 DEF SnapshotsTypeOK
    <2>5. FilesInv'
      BY <1>1, <2>1 DEF BootInv, FilesInv
    <2>6. QED
      BY <2>1, <2>3, <2>5
  <1>3. ASSUME NEW old \in SUBSET Ids, SelectExpired(old)
        PROVE  Result
    <2>1. /\ UNCHANGED <<files, indexed, removed, torn>> /\ deleting = {}
          /\ deleting' = old /\ old \subseteq indexed
      BY <1>3 DEF SelectExpired
    <2>2. SnapshotsTypeOK'
      BY <1>1, <2>1 DEF SnapshotsTypeOK
    <2>3. FilesInv'
      BY <1>1, <2>1 DEF BootInv, FilesInv
    <2>4. QED
      BY <2>1, <2>2, <2>3
  <1>4. ASSUME NEW i \in Ids, Unlink(i)
        PROVE  Result
    <2>1. /\ UNCHANGED <<indexed, deleting, removed, torn>>
          /\ files' = files \ {i} /\ i \in deleting
      BY <1>4 DEF Unlink
    <2>3. SnapshotsTypeOK'
      BY <1>1, <2>1 DEF SnapshotsTypeOK
    <2>5. FilesInv'
      BY <1>1, <2>1 DEF BootInv, FilesInv
    <2>6. QED
      BY <2>1, <2>3, <2>5
  <1>5. ASSUME CommitDelete(boot.snapshots)
        PROVE  Result
    <2>1. /\ SnapshotsTypeOK' /\ indexed' = indexed \ deleting
          /\ deleting' = {} /\ deleting \cap files = {} /\ files' = files
          /\ removed' = removed \cup deleting
          /\ torn' = torn \cup (deleting \cap boot.snapshots)
      BY <1>1, <1>5, Committed
    <2>3. FilesInv'
      BY <1>1, <2>1 DEF BootInv, FilesInv
    <2>4. QED
      BY <2>1, <2>3
  <1>6. ASSUME AbandonDelete
        PROVE  Result
    <2>1. /\ UNCHANGED <<files, indexed, removed>>
          /\ torn' = torn \cup deleting /\ deleting' = {}
      BY <1>6 DEF AbandonDelete
    <2>3. SnapshotsTypeOK'
      BY <1>1, <2>1 DEF SnapshotsTypeOK
    <2>5. FilesInv'
      BY <1>1, <2>1 DEF BootInv, FilesInv
    <2>6. QED
      BY <2>1, <2>3, <2>5
  <1>7. QED
    BY <1>2, <1>3, <1>4, <1>5, <1>6 DEF Delete

LEMMA DeleteKeeps ==
  ASSUME BootInv, Delete
  PROVE  BootInv'
  <1>1. UNCHANGED <<schema, runs, journals, scratch, release, boot, pod, writer, faults,
                    owed, excused, decided, stale>>
    BY DEF Delete, bvars
  <1>2. /\ SnapshotsTypeOK' /\ FilesInv'
        /\ indexed' \subseteq indexed
        /\ indexed \cup removed \subseteq indexed' \cup removed'
    BY DeletionKeeps
  <1>3. BootstrapTypeOK'
    BY <1>1, <1>2 DEF BootInv, BootstrapTypeOK
  <1>4. PhaseInv' /\ ScratchInv'
    BY <1>1, PhaseSame, ScratchSame DEF BootInv
  <1>5. DumpInv'
    BY <1>1, <1>2 DEF BootInv, DumpInv
  <1>6. KeptInv'
    <2>1. \A i : /\ RunKept(i) => RunKept(i)'
                 /\ JournalKept(i) => JournalKept(i)'
                 /\ SnapshotKept(i) => SnapshotKept(i)'
      BY <1>1, <1>2, RowsGrow
    <2>2. QED
      BY <1>1, <2>1 DEF BootInv, KeptInv
  <1>7. QED
    BY <1>2, <1>3, <1>4, <1>5, <1>6 DEF BootInv

-----------------------------------------------------------------------------
(* The invariant is inductive. *)

LEMMA BootStarts == Init => BootInv
  <1> SUFFICES ASSUME Init PROVE BootInv
    OBVIOUS
  <1>1. schema \in Schemas /\ pod \in Revisions \cup {None}
    BY SchemaTypes DEF Init
  <1>2. indexed = {} /\ SnapshotsTypeOK
    BY DEF Init, SnapshotsInit, SnapshotsTypeOK
  <1>3. BootstrapTypeOK
    BY <1>1, <1>2, StartType, NoWriteType, BoundType DEF Init, BootstrapTypeOK
  <1>4. PhaseInv /\ FilesInv
    BY <1>2, StartType, NoWriteType
       DEF Init, SnapshotsInit, PhaseInv, FilesInv
  <1>5. ScratchInv /\ DumpInv /\ KeptInv
    BY StartType, NoWriteType DEF Init, ScratchInv, Clearing, DumpInv, KeptInv
  <1>6. QED
    BY <1>3, <1>4, <1>5 DEF BootInv

LEMMA BootSteps == BootInv /\ [Next]_vars => BootInv'
  <1> SUFFICES ASSUME BootInv, [Next]_vars
               PROVE  BootInv'
    OBVIOUS
  <1>1. CASE BootStep
    BY <1>1, InspectKeeps, InitialUpgradeKeeps, UpgradeKeeps, CompareKeeps, ClearKeeps,
       StampKeeps, AdoptKeeps, DumpKeeps, DropKeeps, RestoreKeeps DEF BootStep
  <1>2. CASE Work
    BY <1>2, BeginWriteKeeps, WriteSnapshotFileKeeps, IndexSnapshotKeeps, RecordRunKeeps,
       RecordJournalKeeps, DecideKeeps, DeleteKeeps DEF Work
  <1>3. CASE RollOver \/ BootDies \/ PodDies
    BY <1>3, RollOverKeeps, BootDiesKeeps, PodDiesKeeps
  <1>4. ASSUME NEW r \in Revisions \ {0}, Deploy(r)
        PROVE  BootInv'
    BY <1>4, DeployKeeps
  <1>5. CASE UNCHANGED vars
    <2>1. UNCHANGED <<schema, runs, journals, scratch, release, boot, pod, writer, faults,
                      owed, excused, decided, stale, svars>>
      BY <1>5 DEF vars, bvars
    <2>2. BootstrapTypeOK'
      BY <2>1 DEF BootInv, BootstrapTypeOK, SnapshotsTypeOK, svars
    <2>3. PhaseInv' /\ ScratchInv'
      BY <2>1, PhaseSame, ScratchSame DEF BootInv
    <2>4. FilesInv'
      BY <2>1, FilesSame DEF BootInv
    <2>5. DumpInv'
      BY <2>1 DEF BootInv, DumpInv, svars
    <2>6. KeptInv'
      BY <2>1, KeptSame DEF BootInv, Rebuilding
    <2>7. QED
      BY <2>2, <2>3, <2>4, <2>5, <2>6 DEF BootInv
  <1>6. QED
    BY <1>1, <1>2, <1>3, <1>4, <1>5 DEF Next

-----------------------------------------------------------------------------
(* The theorems. *)

(* Through every deploy, migration, adoption, rebuild and death, the       *)
(* tables, the volume and the dump in memory stay consistent.              *)
THEOREM DeploysAreSound == Spec => []BootInv
  BY BootStarts, BootSteps, PTL DEF Spec

(* Every variable keeps its type. *)
THEOREM BootstrapTypesCorrect == Spec => []BootstrapTypeOK
  <1>1. BootInv => BootstrapTypeOK
    BY DEF BootInv
  <1>2. QED
    BY <1>1, DeploysAreSound, PTL

(* A snapshot that is listed can be read, unless its deletion broke off or *)
(* met a rebuild (write_snapshot, delete_snapshot, purge_snapshots).       *)
THEOREM ListedSnapshotsHaveFiles == Spec => []IndexHasFile
  <1>1. BootInv => IndexHasFile
    BY DEF BootInv, FilesInv, IndexHasFile
  <1>2. QED
    BY <1>1, DeploysAreSound, PTL

(* No deploy loses a journaled run but in the windows that are named: a    *)
(* death between drop and restore, a failing restore, a write beside the   *)
(* dump (_dump_meaningful, _drop_everything, _restore_meaningful).         *)
THEOREM DeploysKeepHistory == Spec => []HistoryKept
  <1>1. BootInv => HistoryKept
    <2> SUFFICES ASSUME BootInv, NEW i \in owed \ excused
                 PROVE  /\ i \in (runs \cup boot.runs) \cap (journals \cup boot.journals)
                        /\ i \in indexed \cup boot.snapshots \cup removed
      BY DEF HistoryKept
    <2>1. QED
      BY DEF BootInv, KeptInv, RunKept, JournalKept, SnapshotKept
  <1>2. QED
    BY <1>1, DeploysAreSound, PTL

(* A restart that migrates nothing loses no decision (bootstrap).          *)
THEOREM RestartsKeepDecisions == Spec => []DecisionsSurviveRestarts
  <1>1. BootInv => DecisionsSurviveRestarts
    BY DEF BootInv, ScratchInv, DecisionsSurviveRestarts
  <1>2. QED
    BY <1>1, DeploysAreSound, PTL

(* No decision is carried over a migration, unless a death kept the        *)
(* clearing from happening (_clear_uppflyttning).                          *)
THEOREM MigrationsClearDecisions == Spec => []NoDecisionIsMigrated
  <1>1. BootInv => NoDecisionIsMigrated
    BY DEF BootInv, ScratchInv, Clearing, NoDecisionIsMigrated
  <1>2. QED
    BY <1>1, DeploysAreSound, PTL

=============================================================================
