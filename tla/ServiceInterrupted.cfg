SPECIFICATION FairServiceSpec
CONSTANTS
  k1 = k1
  k2 = k2
  d3 = d3
  None = None
  Members = {m1}
  Troops = {t1}
  Patrols = {}
  Runs = {r1}
  Drivers = {d1}
  Allowlist = {m1}
  ChunkSize = 1
  ForeignEdits = {}
  MaxEdits = 0
  InitialRegisters <- OutsideStart
  Workers = {k1}
  Consoles = {}
  Home <- OneHome
  Handlers = {h1}
  Serves <- OneServes
PROPERTY InterruptedRunRecovers
