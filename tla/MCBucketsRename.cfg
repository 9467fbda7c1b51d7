SPECIFICATION Spec
CONSTANTS
  b1 = b1  b2 = b2  b3 = b3  k1 = k1  k2 = k2  u1 = u1  p1 = p1  p2 = p2
  Buckets <- MC_Buckets3
  Keys <- MC_Keys2
  Folders <- MC_Folders2
  HasShares = FALSE
  Users <- MC_NoUsers
  Reqs <- MC_Reqs2
  PageSize = 2
  Uses <- MC_Hard
  Faulty <- MC_HandlerFaults
  MaxFaults = 1
  MaxEvents = 1
  MaxGen = 1
SYMMETRY MC_SymmetryRename
INVARIANTS ObjectsKept RenamesOrdered
CHECK_DEADLOCK FALSE
