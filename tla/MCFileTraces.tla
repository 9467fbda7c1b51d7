---------------------------- MODULE MCFileTraces ----------------------------
(* Instances of FileTraces for TLC. *)
EXTENDS FileTraces, TLC

CONSTANTS k1, l1, none, p1, p2

MC_Keys == {k1}
MC_Links == {l1}
MC_Reqs == {p1, p2}
MC_Faults == {"redis", "emit", "links", "crash"}

=============================================================================
