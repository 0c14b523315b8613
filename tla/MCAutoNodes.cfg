SPECIFICATION FairSpec
CONSTANTS
  Handler = {h1, h2}
  h1 = h1
  h2 = h2
  Copied = {u1, u2}
  Member = {u1}
  u1 = u1
  u2 = u2
  Flows <- MCFlows
  Outputs <- MCOutputs
  RowId = {1, 2, 3, 4}
  MaxForm = 2
  MaxCrashes = 2
INVARIANTS
  AnswerFits
  Sparing
PROPERTIES
  GetsOn
CHECK_DEADLOCK FALSE
