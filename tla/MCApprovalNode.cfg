SPECIFICATION FairSpec
CONSTANTS
  a1 = a1
  a2 = a2
  a3 = a3
  p1 = p1
  p2 = p2
  Approver <- MCApprover
  Order <- MCOrder
  Caller <- MCCaller
  Mode = {"single", "any", "sequential", "countersign", "vote"}
  Rules <- MCRules
  Rescue = {"ReDrive", "Restore"}
  MaxTaskSuspends = 1
  MaxInstSuspends = 1
  MaxCrashes = 1
  MaxPasses = 2
INVARIANTS
  TypeOK
  NoBypass
  RejectedByAnswer
  InTurn
  CreatedOnce
  OneVerdict
  NoOrphanTask
PROPERTIES
  LateVoteSilent
  ImplementsBallot
  NeverStuck
  TakesEffect
CHECK_DEADLOCK FALSE
