-------------------------- MODULE MCFileLifecycle --------------------------
(* Instances of FileLifecycle for TLC: two uploads under one file name, and*)
(* for MCFiles a third under another; two requests at a time.              *)
EXTENDS FileLifecycle, TLC

CONSTANTS k1, k2, k3, f1, f2, p1, p2

MC_Keys2 == {k1, k2}
MC_Keys3 == {k1, k2, k3}
MC_Files == {f1}
MC_Files2 == {f1, f2}
MC_SameName2 == [k \in MC_Keys2 |-> f1]
MC_OtherName3 == [k \in MC_Keys3 |-> IF k = k3 THEN f2 ELSE f1]
MC_Reqs2 == {p1, p2}

MC_Serial == {}
MC_Safe == SafePairs
MC_DeleteRestore == {<<"delete", "restore">>, <<"restore", "delete">>}

MC_NoFaults == {}
MC_Faults ==
  {"abort", "info", "remove", "list", "count", "createRecord", "dropRecord",
   "expiry"}

(* The keys are interchangeable, and so are the slots. *)
MC_Symmetry2 == Permutations(MC_Keys2) \cup Permutations(MC_Reqs2)
=============================================================================
