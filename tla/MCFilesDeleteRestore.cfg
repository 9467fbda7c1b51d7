SPECIFICATION Spec
CONSTANTS
  k1 = k1  k2 = k2  k3 = k3  f1 = f1  f2 = f2  p1 = p1  p2 = p2
  Keys <- MC_Keys2
  Files <- MC_Files
  FileName <- MC_SameName2
  Reqs <- MC_Reqs2
  MaxFileVersions = 1
  Overlap <- MC_DeleteRestore
  Faulty <- MC_NoFaults
  MaxFaults = 0
  MaxRecords = 2
INVARIANT DataKept
CHECK_DEADLOCK FALSE
