----------------------------- MODULE FileTrash -----------------------------
(***************************************************************************)
(* Soft deletion: DeleteFileHandler moves a file under "__trash__/",       *)
(* RestoreFileHandler moves it back.  Both move by copying and deleting.   *)
(***************************************************************************)
EXTENDS FileStore

(* DELETE /files/<bucket>/<key> *)
BeginDelete(p, k) ==
  /\ k \in uploaded
  /\ Begin(p, [kind |-> "delete", pc |-> "head", key |-> k, other |-> k,
               name |-> k, id |-> 0])
  /\ UNCHANGED <<objects, records, nextId, uploaded, destroyed, faults>>

DeleteHead(p) ==
  /\ At(p, "delete", "head")
  /\ IF Data("active", req[p].key) THEN Goto(p, "copy") ELSE Finish(p)
  /\ UNCHANGED <<objects, records, nextId, uploaded, destroyed, faults>>

(* Mutant: the error of the copy is not checked.                           *)
DeleteCopy_Unchecked(p) ==
  /\ At(p, "delete", "copy")
  /\ TryCopy(p, req[p].key, "data", "active", "trash", "abort", "info")
  /\ UNCHANGED destroyed

DeleteCopy(p) ==
  /\ At(p, "delete", "copy")
  /\ CopyData(p, "active", "trash", "info")

DeleteInfo(p) ==
  /\ At(p, "delete", "info")
  /\ TryCopy(p, req[p].key, "info", "active", "trash", "info", "remove")
  /\ UNCHANGED destroyed

(* The call's error is checked (Abort), the errors of single keys are not. *)
DeleteRemove(p) ==
  /\ At(p, "delete", "remove")
  /\ RemovePair("active", req[p].key)
  /\ Finish(p)
  /\ UNCHANGED <<records, nextId, uploaded, destroyed>>

(* POST /files/<bucket>/trash/<key>/restore *)
BeginRestore(p, k) ==
  /\ k \in uploaded
  /\ Begin(p, [kind |-> "restore", pc |-> "head", key |-> k, other |-> k,
               name |-> k, id |-> 0])
  /\ UNCHANGED <<objects, records, nextId, uploaded, destroyed, faults>>

RestoreHeadTrash(p) ==
  /\ At(p, "restore", "head")
  /\ IF Data("trash", req[p].key) THEN Goto(p, "headActive") ELSE Finish(p)
  /\ UNCHANGED <<objects, records, nextId, uploaded, destroyed, faults>>

(* A file at the original location is a conflict, 409. *)
RestoreHeadActive(p) ==
  /\ At(p, "restore", "headActive")
  /\ IF Data("active", req[p].key) THEN Finish(p) ELSE Goto(p, "copy")
  /\ UNCHANGED <<objects, records, nextId, uploaded, destroyed, faults>>

(* Mutant: the error of the copy is not checked.                           *)
RestoreCopy_Unchecked(p) ==
  /\ At(p, "restore", "copy")
  /\ TryCopy(p, req[p].key, "data", "trash", "active", "abort", "info")
  /\ UNCHANGED destroyed

RestoreCopy(p) ==
  /\ At(p, "restore", "copy")
  /\ CopyData(p, "trash", "active", "info")

RestoreInfo(p) ==
  /\ At(p, "restore", "info")
  /\ TryCopy(p, req[p].key, "info", "trash", "active", "info", "remove")
  /\ UNCHANGED destroyed

RestoreRemove(p) ==
  /\ At(p, "restore", "remove")
  /\ RemovePair("trash", req[p].key)
  /\ Finish(p)
  /\ UNCHANGED <<records, nextId, uploaded, destroyed>>

DeleteStep(p) ==
  \/ \E k \in Keys : BeginDelete(p, k)
  \/ DeleteHead(p)
  \/ DeleteCopy(p)
  \/ DeleteInfo(p)
  \/ DeleteRemove(p)

RestoreStep(p) ==
  \/ \E k \in Keys : BeginRestore(p, k)
  \/ RestoreHeadTrash(p)
  \/ RestoreHeadActive(p)
  \/ RestoreCopy(p)
  \/ RestoreInfo(p)
  \/ RestoreRemove(p)
=============================================================================
