---------------------------- MODULE MCFileStream ----------------------------
(* Instances of FileStream for TLC: files of up to four bytes, int64 ends  *)
(* at 6.                                                                   *)
EXTENDS FileStream

MC_Sizes == 0..4
MC_Pieces == {1, 3}

(* Numbers that fit into an int64, one that does not, and what is none.    *)
MC_Numbers == (-1)..7
=============================================================================
