SPECIFICATION Spec
CONSTANTS
  m1 = m1
  t1 = t1
  t2 = t2
  p1 = p1
  p2 = p2
  None = None
  Members = {m1}
  Troops = {t1, t2}
  Patrols = {}
  Runs = {r1}
  Drivers = {w1}
  Allowlist = {}
  ChunkSize = 1
  ForeignEdits = {}
  MaxEdits = 0
  InitialRegisters <- MixedStart
INVARIANTS
  AllowlistBoundsWrites
