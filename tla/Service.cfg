SPECIFICATION FairServiceSpec
CONSTANTS
  k1 = k1
  k2 = k2
  d3 = d3
  None = None
  Members = {m1}
  Troops = {t1}
  Patrols = {}
  Runs = {r1}
  Drivers = {d1, d2, d3}
  Allowlist = {m1}
  ChunkSize = 1
  ForeignEdits <- SomeEdits
  MaxEdits = 1
  InitialRegisters <- OutsideStart
  Workers = {k1, k2}
  Consoles = {k2}
  Home <- ConsoleHome
  Handlers = {h1, h2}
  Serves <- OneServes
INVARIANTS
  OneRunPerWorker
PROPERTIES
  LockIsReleased
