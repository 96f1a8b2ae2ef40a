SPECIFICATION FairSpecOneFresh
CONSTANTS
  m1 = m1
  t1 = t1
  t2 = t2
  p1 = p1
  p2 = p2
  None = None
  Members = {m1, m2}
  Troops = {t1, t2}
  Patrols = {p1, p2}
  Runs = {r1, r2}
  Drivers = {w1}
  Allowlist = {m1}
  ChunkSize = 1
  ForeignEdits <- SomeEdits
  MaxEdits = 1
  InitialRegisters <- PatrolStart
INVARIANTS
  UndoMirrorsParent
  UndoRestores
  VerifyStaysOnAllowlist
PROPERTIES
  KeepsTheLedger
  JobEnds
