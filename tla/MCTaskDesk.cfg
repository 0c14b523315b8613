SPECIFICATION Spec
CONSTANTS
  a = a
  b = b
  c = c
  u1 = u1
  u2 = u2
  u3 = u3
  User <- MCUser
  Nobody = Nobody
  Boss <- MCBoss
  Chief <- MCChief
  Flows <- MCFlows
  End = End
  NoNode = NoNode
  MaxRows = 8
  MaxRecall = 2
INVARIANTS
  OneRound
  OrderKept
  ElectorateWhole
  OffersHonoured
PROPERTIES
  RecallSparesOthers
CHECK_DEADLOCK FALSE
