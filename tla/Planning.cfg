SPECIFICATION DecisionsSpec
CONSTANTS
  s1 = s1
  s2 = s2
  u1 = u1
  u2 = u2
  v1 = v1
  e1 = e1
  e2 = e2
  l1 = l1
  x1 = x1
  moves = moves
  torn = torn
  merges = merges
  waits = waits
  leads = leads
  adult = adult
  lost = lost
  minor = minor
  ageless = ageless
  overage = overage
  placed = placed
  chief = chief
  h1 = h1
  h2 = h2
  i1 = i1
  i2 = i2
  a1 = a1
  a2 = a2
  a3 = a3
  a4 = a4
  a5 = a5
  None = None
  Unset = Unset
  Members = {moves, torn, merges, waits, leads, adult, lost, minor, ageless, overage, placed, chief}
  Troops = {s1, s2, u1, u2, v1, e1, e2, l1, x1}
  BracketOf <- TheBrackets
  Declared <- Configured
  DeclaredAs <- AsScoutnet
  Weekday <- TheDays
  Flow <- TheFlow
  ConfigYear = None
  Handlers = {h1}
  RowIds = {i1, i2}
  Requests <- PlanningRequests
  InitialRosters <- Rosters
  Duties <- TheDuties
  PaidCode <- TheCodes
  Applicants <- Born
  Expected <- ThePosts
  Patrols = {7, 8}
  PatrolOf <- ThePatrols
  Applying = {a1, a2, a3, a4, a5}
  Form <- TheForms
  MailOf <- TheMail
  FoldOf <- Folded
  FirstTerm = 2025
  LastTerm = 2026
INVARIANTS
  NobodyMovesUnasked
  ReadyIsWritable
  GroupsAreStable
  StraysAreFound
  ProjectionIsReached
  PagesAgree
  MovesSettle
  LettersReachTheRightOnes
SYMMETRY Interchangeable
