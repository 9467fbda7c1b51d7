------------------------- MODULE FileCustodyProofs -------------------------
(***************************************************************************)
(* FileLifecycle implements FileCustody: the detailed handlers, seen one   *)
(* file at a time, only make the moves of the abstract specification.      *)
(* Each step is first reduced to what it does to the data of files (a file *)
(* copied to a place, or taken from one); what that means for the custody  *)
(* is then a matter of a few cases.                                        *)
(***************************************************************************)
EXTENDS FileLifecycleProofs

(* The data of no file changes. *)
DataStays == \A pl \in Places, j \in Keys : Data(pl, j)' <=> Data(pl, j)

(* Of all data, only the copy of k at one place appears or disappears.     *)
OnlyAt(place, k) ==
  \A pl \in Places, j \in Keys :
    (pl # place \/ j # k) => (Data(pl, j)' <=> Data(pl, j))

(* A copy of k appears at a place; the original is not in a place that     *)
(* FileCustody ranks below, unless the copy makes the file active.         *)
CopyMade(place, k) ==
  /\ OnlyAt(place, k)
  /\ Data(place, k)'
  /\ \/ Data("active", k)
     \/ place = "active" /\ Kept(k)

(* A copy of k goes; when the file was active it stays in the bucket.      *)
CopyTaken(place, k) ==
  /\ OnlyAt(place, k)
  /\ ~ Data(place, k)'
  /\ place = "active" => \/ ~ Data("active", k)
                         \/ Data("trash", k) \/ Data("versions", k)

(* A step that does not upload. *)
CustodyStep ==
  /\ uploaded' = uploaded
  /\ \/ DataStays
     \/ \E k \in uploaded, place \in Places :
          CopyMade(place, k) \/ CopyTaken(place, k)

(* When the custody of one file makes a move of FileCustody and the others *)
(* stay where they are, the abstract specification takes a step.           *)
LEMMA OneMoves ==
  ASSUME NEW k \in Keys,
         <<Where(k), Where(k)'>> \in Custody!Moves \/ Where(k)' = Where(k),
         \A j \in Keys \ {k} : Where(j)' = Where(j)
  PROVE  [Custody!Next]_([j \in Keys |-> Where(j)])
<1> DEFINE W == [j \in Keys |-> Where(j)]
<1>1. CASE Where(k)' = Where(k)
  BY <1>1
<1>2. CASE <<Where(k), Where(k)'>> \in Custody!Moves
  <2>1. W' = [W EXCEPT ![k] = Where(k)'] OBVIOUS
  <2>2. PICK m \in Custody!Moves : m = <<Where(k), Where(k)'>> BY <1>2
  <2>3. W[k] = m[1] /\ W' = [W EXCEPT ![k] = m[2]] BY <2>1, <2>2
  <2>4. Custody!Move(k) BY <2>3 DEF Custody!Move
  <2> QED BY <2>4 DEF Custody!Next
<1> QED BY <1>1, <1>2

(* What a step does to the data decides which move it is.                  *)
LEMMA CustodyMoves ==
  ASSUME TypeOK, CustodyStep
  PROVE  [Custody!Next]_([j \in Keys |-> Where(j)])
<1>0. uploaded \subseteq Keys BY DEF TypeOK
<1>1. CASE DataStays
  BY <1>0, <1>1 DEF CustodyStep, DataStays, Where, Places
<1>2. ASSUME NEW k \in uploaded, NEW place \in Places,
             CopyMade(place, k) \/ CopyTaken(place, k)
      PROVE  [Custody!Next]_([j \in Keys |-> Where(j)])
  <2>1. \A j \in Keys \ {k} : Where(j)' = Where(j)
    BY <1>0, <1>2 DEF CustodyStep, CopyMade, CopyTaken, OnlyAt, Where, Places
  <2>2. CASE CopyMade(place, k)
    <3>1. <<Where(k), Where(k)'>> \in Custody!Moves \/ Where(k)' = Where(k)
      BY <1>0, <2>2 DEF CustodyStep, CopyMade, OnlyAt, Kept, Where, Places,
                        Custody!Moves
    <3> QED BY <1>0, <2>1, <3>1, OneMoves
  <2>3. CASE CopyTaken(place, k)
    <3>1. <<Where(k), Where(k)'>> \in Custody!Moves \/ Where(k)' = Where(k)
      BY <1>0, <2>3 DEF CustodyStep, CopyTaken, OnlyAt, Where, Places,
                        Custody!Moves
    <3> QED BY <1>0, <2>1, <3>1, OneMoves
  <2> QED BY <1>2, <2>2, <2>3
<1> QED BY <1>1, <1>2 DEF CustodyStep

----------------------------------------------------------------------------
(* The calls the handlers are made of. *)

(* A checked copy of the data from or to the active place.                 *)
LEMMA CopyDataCustody ==
  ASSUME LifecycleInv, NEW p \in Reqs, Busy(p), NEW next,
         NEW from \in Places, NEW to \in Places,
         from = "active" \/ to = "active", CopyData(p, from, to, next)
  PROVE  CustodyStep
<1>1. PICK k \in uploaded : k = req[p].key BY DEF LifecycleInv, NamesInv
<1>2. CASE Data(from, k)
  <2>1. objects' = objects \cup {<<to, k, "data">>}
    BY <1>1, <1>2 DEF CopyData
  <2>2. CopyMade(to, k)
    BY <1>2, <2>1 DEF CopyMade, OnlyAt, Data, Kept
  <2> QED BY <2>2 DEF CopyData, CustodyStep
<1>3. CASE ~ Data(from, k)
  BY <1>1, <1>3 DEF CopyData, CustodyStep, DataStays, Data
<1> QED BY <1>2, <1>3

(* A best-effort copy of a sidecar.                                        *)
LEMMA InfoCustody ==
  ASSUME NEW p \in Reqs, NEW k, NEW next, NEW call, NEW from, NEW to,
         TryCopy(p, k, "info", from, to, call, next)
  PROVE  CustodyStep
BY DEF TryCopy, Copied, CustodyStep, DataStays, Data

(* A deletion of data and sidecar, complete or not.                        *)
LEMMA RemoveCustody ==
  ASSUME LifecycleInv, NEW k \in uploaded, NEW place \in Places,
         RemovePair(place, k), uploaded' = uploaded,
         place = "active" => \/ ~ Data("active", k)
                             \/ Data("trash", k) \/ Data("versions", k)
  PROVE  CustodyStep
<1>1. OnlyAt(place, k) BY DEF RemovePair, OnlyAt, Data
<1>2. CASE ~ Data(place, k)'
  <2>1. CopyTaken(place, k) BY <1>1, <1>2 DEF CopyTaken
  <2> QED BY <2>1 DEF CustodyStep
<1>3. CASE Data(place, k)'
  <2>1. Data(place, k) BY <1>3 DEF RemovePair, Data
  <2> QED BY <1>1, <1>3, <2>1 DEF CustodyStep, DataStays, OnlyAt
<1> QED BY <1>2, <1>3

----------------------------------------------------------------------------
(* The handlers, the environment, and the refinement. *)

(* Every step that leaves objects and uploads alone leaves all custody.    *)
LEMMA QuietCustody ==
  ASSUME UNCHANGED <<objects, uploaded>>
  PROVE  CustodyStep
BY DEF CustodyStep, DataStays, Data

(* The soft deletion and the restore from the trash.                       *)
LEMMA TrashCustody ==
  ASSUME LifecycleInv, NEW p \in Reqs, DeleteStep(p) \/ RestoreStep(p)
  PROVE  CustodyStep
<1>1. CASE DeleteCopy(p) \/ RestoreCopy(p)
  BY <1>1, AtBusy, CopyDataCustody
     DEF DeleteCopy, RestoreCopy, LifecycleInv, Labels, Places
<1>2. CASE DeleteInfo(p) \/ RestoreInfo(p)
  BY <1>2, InfoCustody DEF DeleteInfo, RestoreInfo
<1>3. CASE DeleteRemove(p) \/ RestoreRemove(p)
  <2>1. Busy(p) BY <1>3, AtBusy DEF DeleteRemove, RestoreRemove, LifecycleInv, Labels
  <2>2. req[p].key \in uploaded /\ SecondCopy(p)
    BY <2>1 DEF LifecycleInv, NamesInv, CopyInv
  <2> QED BY <1>3, <2>2, RemoveCustody
          DEF DeleteRemove, RestoreRemove, At, SecondCopy, Moving, Places
<1>4. CASE UNCHANGED <<objects, uploaded>>
  BY <1>4, QuietCustody
<1> QED BY <1>1, <1>2, <1>3, <1>4
        DEF DeleteStep, RestoreStep, BeginDelete, DeleteHead,
            BeginRestore, RestoreHeadTrash, RestoreHeadActive

(* Archiving a version, with the eviction of an older one.                 *)
LEMMA ArchiveCustody ==
  ASSUME LifecycleInv, NEW p \in Reqs, ArchiveStep(p)
  PROVE  CustodyStep
<1>1. CASE ArchiveCopy(p)
  BY <1>1, AtBusy, CopyDataCustody DEF ArchiveCopy, LifecycleInv, Labels, Places
<1>2. CASE ArchiveInfo(p)
  BY <1>2, InfoCustody DEF ArchiveInfo
<1>3. CASE ArchiveRemove(p) \/ ArchiveEvict(p)
  <2>1. Busy(p) BY <1>3, AtBusy DEF ArchiveRemove, ArchiveEvict, LifecycleInv, Labels
  <2>2. req[p].key \in uploaded /\ req[p].other \in uploaded /\ SecondCopy(p)
    BY <2>1 DEF LifecycleInv, NamesInv, CopyInv
  <2>3. CASE ArchiveRemove(p)
    BY <2>2, <2>3, RemoveCustody DEF ArchiveRemove, At, SecondCopy, Moving, Places
  <2>4. CASE ArchiveEvict(p)
    BY <2>2, <2>4, RemoveCustody DEF ArchiveEvict, Destroy, Places
  <2> QED BY <1>3, <2>3, <2>4
<1>4. CASE UNCHANGED <<objects, uploaded>>
  BY <1>4, QuietCustody
<1> QED BY <1>1, <1>2, <1>3, <1>4
        DEF ArchiveStep, BeginArchive, ArchiveHead, ArchiveResolve, ArchiveRecord,
            ArchiveCount, ArchiveOldest, ArchiveDrop

(* Restoring a version, after archiving the active file of its name.       *)
LEMMA VRestoreCustody ==
  ASSUME LifecycleInv, NEW p \in Reqs, VRestoreStep(p)
  PROVE  CustodyStep
<1>1. CASE VRestoreCopy(p)
  BY <1>1, AtBusy, CopyDataCustody DEF VRestoreCopy, LifecycleInv, Labels, Places
<1>2. CASE VRestoreInfo(p) \/ VRestoreArchInfo(p)
  BY <1>2, InfoCustody DEF VRestoreInfo, VRestoreArchInfo
<1>3. ASSUME VRestoreArchCopy(p) \/ VRestoreArchRemove(p) \/ VRestoreRemove(p)
      PROVE  CustodyStep
  <2>1. Busy(p)
    BY <1>3, AtBusy DEF VRestoreArchCopy, VRestoreArchRemove, VRestoreRemove,
                        LifecycleInv, Labels
  <2>2. req[p].key \in uploaded /\ req[p].other \in uploaded /\ SecondCopy(p)
    BY <2>1 DEF LifecycleInv, NamesInv, CopyInv
  <2>3. CASE VRestoreArchCopy(p)
    <3>0. PICK k \in uploaded : k = req[p].other BY <2>2
    <3>1. TryCopy(p, k, "data", "active", "versions", "archCopy", "archInfo")
      BY <2>3, <3>0 DEF VRestoreArchCopy
    <3>2. CASE UNCHANGED objects
      BY <3>1, <3>2, QuietCustody DEF TryCopy
    <3>3. CASE objects' = objects \cup {<<"versions", k, "data">>} /\ Data("active", k)
      <4>1. CopyMade("versions", k) BY <3>3 DEF CopyMade, OnlyAt, Data
      <4> QED BY <3>1, <4>1 DEF CustodyStep, TryCopy, Places
    <3> QED BY <3>1, <3>2, <3>3 DEF TryCopy, Copied, Data
  <2>4. CASE VRestoreArchRemove(p)
    BY <2>2, <2>4, RemoveCustody DEF VRestoreArchRemove, At, SecondCopy, Places
  <2>5. CASE VRestoreRemove(p)
    BY <2>2, <2>5, RemoveCustody DEF VRestoreRemove, Places
  <2> QED BY <1>3, <2>3, <2>4, <2>5
<1>4. CASE UNCHANGED <<objects, uploaded>>
  BY <1>4, QuietCustody
<1> QED BY <1>1, <1>2, <1>3, <1>4
        DEF VRestoreStep, BeginVersion, VersionList, VersionFind, VRestoreScan,
            VRestoreArchRecord, VRestoreDrop

(* Deleting a version. *)
LEMMA VDeleteCustody ==
  ASSUME LifecycleInv, NEW p \in Reqs, VDeleteStep(p)
  PROVE  CustodyStep
<1>1. CASE VDeleteRemove(p)
  <2>1. Busy(p) BY <1>1, AtBusy DEF VDeleteRemove, LifecycleInv, Labels
  <2>2. req[p].key \in uploaded BY <2>1 DEF LifecycleInv, NamesInv
  <2> QED BY <1>1, <2>2, RemoveCustody DEF VDeleteRemove, Destroy, Places
<1>2. CASE UNCHANGED <<objects, uploaded>>
  BY <1>2, QuietCustody
<1> QED BY <1>1, <1>2 DEF VDeleteStep, BeginVersion, VersionList, VersionFind, VDeleteDrop

(* An upload completes: the file was absent, and nothing of it is left     *)
(* over that could make it anything but active.                            *)
LEMMA UploadCustody ==
  ASSUME LifecycleInv, NEW k \in Keys, Upload(k)
  PROVE  [Custody!Next]_([j \in Keys |-> Where(j)])
<1>1. Where(k) = "absent" /\ Where(k)' = "active"
  BY DEF Upload, Where, Data, Parts
<1>2. \A j \in Keys \ {k} : Where(j)' = Where(j)
  BY DEF Upload, Where, Data
<1> QED BY <1>1, <1>2, OneMoves DEF Custody!Moves

(* The lifecycle rule expires a file in the trash.                         *)
LEMMA ExpireCustody ==
  ASSUME LifecycleInv, NEW k \in Keys, ExpireTrash(k)
  PROVE  CustodyStep
<1>1. k \in uploaded BY DEF ExpireTrash, LifecycleInv, NamesInv, Data, Info
<1>2. CopyTaken("trash", k) BY DEF ExpireTrash, CopyTaken, OnlyAt, Data, Parts
<1> QED BY <1>1, <1>2 DEF CustodyStep, ExpireTrash, Places

(* Every step of the detailed specification from a state of its inductive  *)
(* invariant is a step of the abstract one, or invisible to it.            *)
LEMMA CustodyRefines ==
  ASSUME LifecycleInv, [Next]_vars
  PROVE  [Custody!Next]_([k \in Keys |-> Where(k)])
<1>0. TypeOK BY DEF LifecycleInv
<1>1. ASSUME NEW k \in Keys, Upload(k) PROVE [Custody!Next]_([j \in Keys |-> Where(j)])
  BY <1>1, UploadCustody
<1>2. ASSUME NEW k \in Keys, ExpireTrash(k) PROVE CustodyStep
  BY <1>2, ExpireCustody
<1>3. ASSUME NEW p \in Reqs, Handle(p) PROVE CustodyStep
  BY <1>3, TrashCustody, ArchiveCustody, VRestoreCustody, VDeleteCustody,
     QuietCustody DEF Handle, Abort
<1>4. CASE UNCHANGED vars
  BY <1>4, QuietCustody, CustodyMoves, <1>0 DEF vars
<1> QED BY <1>0, <1>1, <1>2, <1>3, <1>4, CustodyMoves DEF Next

(* FileLifecycle implements FileCustody: whatever handlers overlap (as     *)
(* SafeUse allows), are interrupted or see calls fail, each file only makes*)
(* the moves of FileCustody; in particular an active file never vanishes   *)
(* in one step, and what is gone never comes back.                         *)
THEOREM CustodyImplemented ==
  ASSUME SafeUse
  PROVE  Spec => CustodySpec
<1>1. Init => Custody!Init
  BY DEF Init, Custody!Init, Where
<1>2. LifecycleInv /\ [Next]_vars => [Custody!Next]_([k \in Keys |-> Where(k)])
  BY CustodyRefines
<1> QED BY <1>1, <1>2, LifecycleInvariant, PTL DEF Spec, CustodySpec, Custody!Spec
=============================================================================
