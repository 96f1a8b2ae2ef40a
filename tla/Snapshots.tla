------------------------------ MODULE Snapshots ------------------------------
(***************************************************************************)
(* Recovery snapshots of write/snapshot.py: a file on the volume and a row *)
(* in the table snapshot that points to it.  The file is written before    *)
(* the row is committed and unlinked before the row's deletion is; the     *)
(* volume knows no transactions.  One snapshot belongs to one run and      *)
(* shares its id here.                                                     *)
(*                                                                         *)
(* A row's taken_at is left out.  It is the time its run began, not that   *)
(* of its commit, and a rebuild of the database gives all rows its own     *)
(* time, so that the order of the rows by it is open.                      *)
(***************************************************************************)
EXTENDS Integers

CONSTANTS
  Ids,   \* ids uuid4 may hand out; bounds the number of snapshots
  None   \* Python's None

ASSUME NoneIsNoId == None \notin Ids

VARIABLES
  files,     \* snapshot files on the volume
  indexed,   \* snapshots with a row in the table
  deleting,  \* rows an open session has read and is about to delete
  removed,   \* history: rows whose deletion was committed
  torn       \* history: rows that may have outlived their file

svars == <<files, indexed, deleting, removed, torn>>

SnapshotsTypeOK ==
  /\ files \subseteq Ids /\ indexed \subseteq Ids /\ deleting \subseteq Ids
  /\ removed \subseteq Ids /\ torn \subseteq Ids

SnapshotsInit ==
  files = {} /\ indexed = {} /\ deleting = {} /\ removed = {} /\ torn = {}

-----------------------------------------------------------------------------

(* Mutant: the row comes first, and the file never. *)
WriteNoFile(i) == UNCHANGED svars

WriteFile(i) ==
  /\ files' = files \cup {i}
  /\ UNCHANGED <<indexed, deleting, removed, torn>>

InsertRow(i) ==
  /\ indexed' = indexed \cup {i}
  /\ UNCHANGED <<files, deleting, removed, torn>>

(* delete_snapshot, up to its read of the row. *)
SelectOne(i) ==
  /\ deleting = {} /\ i \in indexed
  /\ deleting' = {i}
  /\ UNCHANGED <<files, indexed, removed, torn>>

(* purge_snapshots, up to its read of the rows: those older than the       *)
(* retention, but never the first of the listing (no caller in src/).      *)
SelectExpired(old) ==
  /\ deleting = {} /\ old # {} /\ old \subseteq indexed
  /\ \E first \in indexed : first \notin old
  /\ deleting' = old
  /\ UNCHANGED <<files, indexed, removed, torn>>

Unlink(i) ==
  /\ i \in deleting \cap files
  /\ files' = files \ {i}
  /\ UNCHANGED <<indexed, deleting, removed, torn>>

(* The session commits.  Rows that a rebuild of the database holds copies  *)
(* of come back without their files.                                       *)
CommitDelete(copied) ==
  /\ deleting # {} /\ deleting \cap files = {}
  /\ indexed' = indexed \ deleting
  /\ removed' = removed \cup deleting
  /\ torn' = torn \cup (deleting \cap copied)
  /\ deleting' = {}
  /\ UNCHANGED files

(* It does not: the rows stay, and the files that are gone stay gone.      *)
AbandonDelete ==
  /\ torn' = torn \cup deleting
  /\ deleting' = {}
  /\ UNCHANGED <<files, indexed, removed>>

-----------------------------------------------------------------------------

(* A row of the listing has its file: whatever is written, deleted, purged *)
(* and rebuilt, an operator who is shown a snapshot can read it, unless a  *)
(* deletion of it broke off or met a rebuild (_unlink before s.delete).    *)
IndexHasFile == indexed \subseteq files \cup deleting \cup torn
=============================================================================
