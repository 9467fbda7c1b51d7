------------------------- MODULE MCBucketLifecycle -------------------------
(* Instances of BucketLifecycle for TLC. *)
EXTENDS BucketLifecycle, TLC

CONSTANTS b1, b2, b3, k1, k2, u1, p1, p2

MC_Buckets1 == {b1}
MC_Buckets2 == {b1, b2}
MC_Buckets3 == {b1, b2, b3}
MC_Keys1 == {k1}
MC_Keys2 == {k1, k2}
MC_NoFolders == {}
MC_Folders2 == {k2}
MC_Users == {u1}
MC_NoUsers == {}
MC_Reqs1 == {p1}
MC_Reqs2 == {p1, p2}

MC_Trash == {"trash"}
MC_Rename == {"rename"}
MC_Hard == {"rename", "trash"}
MC_All == ClientUses

MC_NoFaults == {}
MC_HandlerFaults == {"abort", "rule", "objects"}
MC_PurgeFaults ==
  {"abort", "register", "objects", "shares", "record", "deletedCheck", "crash"}
MC_CheckedFaults == {"abort", "register", "objects", "deletedCheck"}

MC_SymmetryRename == Permutations(MC_Buckets3) \cup Permutations(MC_Reqs2)
MC_SymmetryPurge == Permutations(MC_Buckets2) \cup Permutations(MC_Reqs2)
=============================================================================
