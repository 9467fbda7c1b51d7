---------------------------- MODULE FileCustody ----------------------------
(***************************************************************************)
(* What the file handlers promise to the owner of a file, one key at a     *)
(* time: an uploaded file is active, in the trash or an archived version,  *)
(* it moves between these in one step, and it ceases to exist only from    *)
(* the trash or from the versions, never while it is active, never to come *)
(* back.                                                                   *)
(***************************************************************************)
CONSTANT Keys
VARIABLE where

Moves == {<<"absent",  "active">>,   \* the upload completes
          <<"active",  "trash">>,    \* DELETE of the file
          <<"trash",   "active">>,   \* restore from the trash
          <<"active",  "version">>,  \* archived as a version
          <<"version", "active">>,   \* a version is restored
          <<"trash",   "gone">>,     \* the lifecycle rule expires it
          <<"version", "gone">>,     \* the version is deleted or evicted
          <<"version", "trash">>}    \* as above, but an interrupted request
                                     \* had left a copy in the trash

Init == where = [k \in Keys |-> "absent"]

Move(k) ==
  \E m \in Moves : where[k] = m[1] /\ where' = [where EXCEPT ![k] = m[2]]

Next == \E k \in Keys : Move(k)

Spec == Init /\ [][Next]_where
=============================================================================
