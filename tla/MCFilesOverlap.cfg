SPECIFICATION Spec
CONSTANTS
  k1 = k1  k2 = k2  k3 = k3  f1 = f1  f2 = f2  p1 = p1  p2 = p2
  Keys <- MC_Keys2
  Files <- MC_Files
  FileName <- MC_SameName2
  Reqs <- MC_Reqs2
  MaxFileVersions = 1
  Overlap <- MC_Safe
  Faulty <- MC_Faults
  MaxFaults = 1
  MaxRecords = 2
SYMMETRY MC_Symmetry2
INVARIANTS LifecycleInv
PROPERTY CustodySpec
CHECK_DEADLOCK FALSE
