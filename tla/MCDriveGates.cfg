SPECIFICATION FairSpec
CONSTANTS
  p1 = p1
  p2 = p2
  e1 = e1
  e2 = e2
  r1 = r1
  r2 = r2
  gateKey = gateKey
  endKey = endKey
  NoOne = NoOne
  NoLease = NoLease
  Drive <- MCDrive
  EndExec <- MCEndExec
  Client <- MCClient
  Key <- MCKey
  KeyOf <- MCKeyOf
  Ttl <- MCTtl
  Lease <- MCLease
  Drawn <- MCDrawn
  Replica <- MCReplica
  Home = r1
  MaxFaults = 2
  MaxTries = 1
  MaxCrashes = 1
INVARIANTS
  TypeOK
  ExclusiveDrives
PROPERTIES
  LeaseKept
  Resolves
  OrphanReclaimed
CHECK_DEADLOCK FALSE
