--------------------------- MODULE ExecutorLedger ---------------------------
(***************************************************************************)
(* The executor implements BulkMove: the journal's rows are the ledger.    *)
(***************************************************************************)
EXTENDS WriteExecutor

ASSUME NoneIsNoRow == None \notin Row

(* A row, but for the progress it records. *)
RowAsMove(row) == IF row.state = "absent" THEN None ELSE Restated(row, "intended")

Ledger == INSTANCE BulkMove WITH
  Places    <- Placements,
  Moved     <- Updated,
  plan      <- [r \in Runs |-> [m \in Members |-> RowAsMove(journal[r][m])]],
  confirmed <- [r \in Runs |-> {m \in Members : journal[r][m].state = "done"}],
  moved     <- applied,
  reported  <- {r \in Runs : run[r].state = "done"},
  reverses  <- [r \in Runs |-> run[r].parent]

(* Chunks, crashes, resumes, failed and lost answers and undos are all     *)
(* hidden by the journal: whatever happens between them, a run moves just  *)
(* the members it recorded beforehand, confirms what it moved, is reported *)
(* done when all of it is, and is taken back row by row (run, resume,      *)
(* undo, _drive).                                                          *)
KeepsTheLedger == Ledger!Spec
=============================================================================
