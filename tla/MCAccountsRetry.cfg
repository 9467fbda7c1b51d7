SPECIFICATION Spec
CONSTANTS
  a1 = a1  b1 = b1  home = home  other = other
  nobody = nobody  p1 = p1  p2 = p2
  Nobody = nobody
  Users <- MC_Users
  Buckets <- MC_Buckets
  Home <- MC_Home
  Admins <- MC_Users
  Reqs <- MC_Reqs
  Faulty <- MC_Empty
  MaxFaults = 1
  MaxItems = 1
  MaxBegun = 3
  MaxGen = 2
SYMMETRY MC_Symmetry
INVARIANTS RetryFinds
CHECK_DEADLOCK FALSE
