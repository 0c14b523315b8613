SPECIFICATION MCSpec
CONSTANTS
  p1 = p1
  p2 = p2
  p3 = p3
  child = child
  parent = parent
  g1 = g1
  g2 = g2
  g3 = g3
  NoOne = NoOne
  NoGate = NoGate
  NoInstance = NoInstance
  Goroutine <- MCGoroutine
  Instance <- MCInstance
  Gate <- MCGate
  Nest <- MCNest
  MaxDepth = 2
INVARIANTS
  TypeOK
  MutualExclusion
  NoGateLeak
  NoCrossWait
PROPERTIES
  HandOff
  ImplementsMutex
