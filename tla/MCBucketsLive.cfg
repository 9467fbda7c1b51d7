SPECIFICATION FairSpec
CONSTANTS
  b1 = b1  b2 = b2  b3 = b3  k1 = k1  k2 = k2  u1 = u1  p1 = p1  p2 = p2
  Buckets <- MC_Buckets1
  Keys <- MC_Keys2
  Folders <- MC_Folders2
  HasShares = TRUE
  Users <- MC_NoUsers
  Reqs <- MC_Reqs1
  PageSize = 1
  Uses <- MC_All
  Faulty <- MC_PurgeFaults
  MaxFaults = 1
  MaxEvents = 1
  MaxGen = 1
PROPERTY PurgeCompletes
CHECK_DEADLOCK FALSE
