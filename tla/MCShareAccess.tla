--------------------------- MODULE MCShareAccess ---------------------------
(* Instances of ShareAccess for TLC: an owner and a sharee. *)
EXTENDS ShareAccess, TLC

CONSTANTS owner, u1, p1, p2

MC_Owners == {owner}
MC_Sharees == {u1}
MC_Reqs2 == {p1, p2}

MC_AllFaults == {"noAnswer", "badAnswer"}

MC_Symmetry == Permutations(MC_Reqs2)
=============================================================================
