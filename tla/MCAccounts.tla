----------------------------- MODULE MCAccounts -----------------------------
(* Instances of Accounts for TLC: a1 with a home bucket, b1 without one;   *)
(* both may create the other bucket.                                       *)
EXTENDS Accounts, TLC

CONSTANTS a1, b1, home, other, nobody, p1, p2

MC_Users == {a1, b1}
MC_Buckets == {home, other}
MC_Home == (a1 :> home) @@ (b1 :> nobody)
MC_Reqs == {p1, p2}

MC_AllFaults ==
  {"abort", "key", "encrypt", "register", "registry", "empty", "drop",
   "shred", "shares", "unregister", "user"}
MC_Empty == {"empty"}

MC_Symmetry == Permutations(MC_Reqs)
=============================================================================
