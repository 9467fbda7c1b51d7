SPECIFICATION Spec
CONSTANTS
  b1 = b1  b2 = b2  b3 = b3  k1 = k1  k2 = k2  u1 = u1  p1 = p1  p2 = p2
  Buckets <- MC_Buckets2
  Keys <- MC_Keys1
  Folders <- MC_NoFolders
  HasShares = TRUE
  Users <- MC_Users
  Reqs <- MC_Reqs2
  PageSize = 1
  Uses <- MC_Trash
  Faulty <- MC_CheckedFaults
  MaxFaults = 1
  MaxEvents = 1
  MaxGen = 2
SYMMETRY MC_SymmetryPurge
INVARIANTS NoInheritedShares TrashMeansTrashed PurgeInv
PROPERTIES PurgeSpares BucketCustodySpec
CHECK_DEADLOCK FALSE
