SPECIFICATION FairSpec
CONSTANTS
  c1 = c1
  c2 = c2
  r1 = r1
  r2 = r2
  Caller = {c1, c2}
  Replica = {r1, r2}
  Home <- MCHome
  Instance = {1}
  MaxRow = 3
  MaxAsk = 2
INVARIANTS
  OneTopology
  ActiveTogether
PROPERTIES
  StaleDropped
CHECK_DEADLOCK FALSE
