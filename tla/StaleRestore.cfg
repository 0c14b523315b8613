SPECIFICATION Spec
CONSTANTS
  a1 = a1
  a2 = a2
  a3 = a3
  p1 = p1
  p2 = p2
  Approver <- MCApprover
  Order <- MCOrder
  Caller <- MCCaller
  Mode = {"countersign", "vote"}
  Rules <- MCRules
  Rescue = {"Restore"}
  MaxTaskSuspends = 0
  MaxInstSuspends = 0
  MaxCrashes = 0
  MaxPasses = 2
INVARIANT RejectedByVote
CHECK_DEADLOCK FALSE
