SPECIFICATION Spec
CONSTANTS
  k1 = k1  k2 = k2  k3 = k3  f1 = f1  f2 = f2  p1 = p1  p2 = p2
  Keys <- MC_Keys3
  Files <- MC_Files2
  FileName <- MC_OtherName3
  Reqs <- MC_Reqs2
  MaxFileVersions = 1
  Overlap <- MC_Serial
  Faulty <- MC_Faults
  MaxFaults = 1
  MaxRecords = 3
SYMMETRY MC_Symmetry2
INVARIANTS SingleHome VersionsMatch EvictsAnother DataKept VersionCap
INVARIANT SerialInv
PROPERTY CustodySpec
CHECK_DEADLOCK FALSE
