SPECIFICATION FairSpec
CONSTANTS
  h1 = h1
  h2 = h2
  None = None
  Handlers = {h1, h2}
  Pages = {"check", "write"}
  ListTTL = 2
  OrgTTL = 2
  NegTTL = 2
INVARIANTS
  ShownIsRecent
  FreshIsCurrent
PROPERTIES
  TimeoutsAreForgotten
