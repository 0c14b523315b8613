SPECIFICATION FairSpec
CONSTANTS
  p = p
  c1 = c1
  c2 = c2
  a = a
  a2 = a2
  b = b
  t = t
  log = log
  sub = sub
  end = end
  cu = cu
  Parent = p
  Child <- MCChild
  UserTask <- MCUserTask
  Automatic <- MCAuto
  SubProcess <- MCSubProcess
  End = end
  NoNode = NoNode
  Flows <- MCFlows
  ChildFlow <- MCChildFlow
  Rescue <- MCRescue
  Suspendable <- MCSuspendable
  Terminable <- MCTerminable
  MaxSuspends = 2
  MaxCrashes = 2
INVARIANTS
  JoinComplete
  SyncOnce
PROPERTIES
  JoinPasses
  ParentResumes
CHECK_DEADLOCK FALSE
