SPECIFICATION Spec
CONSTANTS
  m1 = m1
  t1 = t1
  t2 = t2
  p1 = p1
  p2 = p2
  None = None
  Members = {m1, m2, m3}
  Troops = {t1}
  Patrols = {}
  Runs = {r1, r2}
  Drivers = {w1}
  Allowlist = {m1}
  ChunkSize = 2
  ForeignEdits = {}
  MaxEdits = 0
  InitialRegisters <- OutsideMixed
INVARIANTS
  TypeOK
  JournalFirst
  DoneRunIsComplete
  UppflyttningSparesLeaders
  DriveLands
  DoneWasApplied
  ChunksInOrder
  Invariant
PROPERTIES
  JournalIsLog
  KeepsTheLedger
SYMMETRY SameOthers
