SPECIFICATION Spec
CONSTANTS
  owner = owner  u1 = u1  p1 = p1  p2 = p2
  Owners <- MC_Owners
  Sharees <- MC_Sharees
  Reqs <- MC_Reqs2
  TTL = 1
  Timeout = 1
  Faulty <- MC_AllFaults
  MaxFaults = 1
  MaxChanges = 3
  MaxTime = 4
SYMMETRY MC_Symmetry
INVARIANTS ShareFresh TrashFresh DeniedFresh RevokedUnraced AccessInv
CHECK_DEADLOCK FALSE
