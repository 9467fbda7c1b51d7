----------------------- MODULE BucketLifecycleProofs -----------------------
(***************************************************************************)
(* Proofs about BucketLifecycle, for any sets of buckets, keys, users and  *)
(* requests, pages of any size, and any bounds.                            *)
(***************************************************************************)
EXTENDS BucketLifecycle, FiniteSetTheorems, TLAPS

(* The bounds of the model are natural numbers. *)
LEMMA Numbers == MaxFaults \in Nat /\ MaxEvents \in Nat /\ MaxGen \in Nat
BY BoundsAssumption

(* A failed call counts, within the bound. *)
LEMMA FaultsType ==
  ASSUME TypeOK, NoFault \/ \E call : Fault(call)
  PROVE  faults' \in 0..MaxFaults
BY Numbers DEF TypeOK, NoFault, Fault

----------------------------------------------------------------------------
(* Requests. *)

(* A request that is under way is a proper request. *)
LEMMA BusyType ==
  ASSUME TypeOK, NEW p \in Reqs, req[p].op # "none"
  PROVE  req[p] \in Requests
BY DEF TypeOK, Idle

(* Moving a request on or ending it keeps the requests typed, and changes  *)
(* nothing of it but its step.                                             *)
LEMMA GotoType ==
  ASSUME TypeOK, NEW p \in Reqs, req[p].op # "none", NEW pc \in ReqLabels,
         Goto(p, pc)
  PROVE  /\ req' \in [Reqs -> Requests \cup {Idle}]
         /\ req'[p] = [req[p] EXCEPT !.pc = pc]
         /\ \A q \in Reqs \ {p} : req'[q] = req[q]
<1>1. req[p] \in Requests BY BusyType
<1>2. [req[p] EXCEPT !.pc = pc] \in Requests BY <1>1 DEF Requests
<1> QED BY <1>2 DEF Goto, TypeOK

(* A request that ends leaves the others as they are.                      *)
LEMMA FinishType ==
  ASSUME TypeOK, NEW p \in Reqs, Finish(p)
  PROVE  /\ req' \in [Reqs -> Requests \cup {Idle}]
         /\ req'[p] = Idle
         /\ \A q \in Reqs \ {p} : req'[q] = req[q]
BY DEF Finish, TypeOK

(* A request begins as a proper request. *)
LEMMA BeginType ==
  ASSUME TypeOK, NEW p \in Reqs, NEW op \in Ops, NEW b \in Buckets,
         NEW to \in Buckets, NEW keys \in SUBSET Keys,
         Begin(p, NewRequest(op, b, to, keys))
  PROVE  /\ TypeOK'
         /\ req[p] = Idle /\ req'[p] = NewRequest(op, b, to, keys)
         /\ \A q \in Reqs \ {p} : req'[q] = req[q]
         /\ UNCHANGED <<s3Vars, sharesVars, events, purge, history, faults>>
<1>1. NewRequest(op, b, to, keys) \in Requests
  BY DEF NewRequest, Requests, ReqLabels
<1>2. req[p] = Idle BY DEF Begin, Busy, TypeOK, Requests, ReqLabels
<1> QED BY <1>1, <1>2 DEF Begin, TypeOK, s3Vars, sharesVars, history

----------------------------------------------------------------------------
(* Types. *)

(* Uploads of objects, and the making of folders. *)
LEMMA StoreType ==
  ASSUME BucketsInv, NEW p \in Reqs,
         \/ PutCheck(p) \/ PutStore(p) \/ FolderCheck(p) \/ FolderStore(p)
  PROVE  TypeOK' /\ \A o \in objects' : o[2] \in uploaded'
<1> USE DEF BucketsInv, s3Vars, sharesVars, history
<1>1. CASE PutCheck(p)
  <2>1. req' \in [Reqs -> Requests \cup {Idle}]
    BY <1>1, GotoType, FinishType DEF PutCheck, At, ReqLabels
  <2>2. faults' \in 0..MaxFaults BY <1>1, FaultsType DEF PutCheck
  <2> QED BY <1>1, <2>1, <2>2 DEF PutCheck, TypeOK
<1>2. CASE FolderCheck(p)
  <2>1. req' \in [Reqs -> Requests \cup {Idle}]
    BY <1>2, GotoType, FinishType DEF FolderCheck, At, ReqLabels
  <2> QED BY <1>2, <2>1 DEF FolderCheck, TypeOK
<1>3. ASSUME Store(p), req[p].op # "none"
      PROVE  TypeOK' /\ \A o \in objects' : o[2] \in uploaded'
  <2>1. req' \in [Reqs -> Requests \cup {Idle}] BY <1>3, FinishType DEF Store
  <2>2. req[p].bucket \in Buckets /\ req[p].keys \subseteq Keys
    BY <1>3, BusyType DEF Requests
  <2>3. /\ objects' \subseteq buckets \X Keys /\ uploaded \subseteq uploaded'
        /\ uploaded' \subseteq Keys /\ \A o \in objects' : o[2] \in uploaded'
    BY <1>3, <2>2 DEF Store, TypeOK
  <2> QED BY <1>3, <2>1, <2>3 DEF Store, TypeOK
<1> QED BY <1>1, <1>2, <1>3 DEF PutStore, FolderStore, At

(* The creation of buckets. *)
LEMMA CreateType ==
  ASSUME BucketsInv, NEW p \in Reqs,
         \/ CreateCheck(p) \/ CreateBucket(p) \/ CreateRegister(p)
         \/ CreateRule(p)
  PROVE  TypeOK'
<1> USE DEF BucketsInv, s3Vars, sharesVars, history
<1>1. req[p] \in Requests /\ req[p].op # "none"
  BY BusyType DEF CreateCheck, CreateBucket, CreateRegister, CreateRule, At
<1>2. req[p].bucket \in Buckets BY <1>1 DEF Requests
<1>3. CASE CreateCheck(p)
  <2>1. req' \in [Reqs -> Requests \cup {Idle}]
    BY <1>1, <1>3, GotoType, FinishType DEF CreateCheck, ReqLabels
  <2> QED BY <1>3, <2>1 DEF CreateCheck, TypeOK
<1>4. CASE CreateBucket(p)
  <2>1. req' \in [Reqs -> Requests \cup {Idle}]
    BY <1>1, <1>4, GotoType, FinishType DEF CreateBucket, ReqLabels
  <2> QED BY <1>2, <1>4, <2>1, Numbers DEF CreateBucket, NewBucket, TypeOK
<1>5. CASE CreateRegister(p)
  <2>1. req' \in [Reqs -> Requests \cup {Idle}]
    BY <1>1, <1>5, GotoType DEF CreateRegister, ReqLabels
  <2>2. faults' \in 0..MaxFaults BY <1>5, FaultsType DEF CreateRegister
  <2> QED BY <1>2, <1>5, <2>1, <2>2 DEF CreateRegister, RegisterBucket, TypeOK
<1>6. CASE CreateRule(p)
  <2>1. req' \in [Reqs -> Requests \cup {Idle}]
    BY <1>6, FinishType DEF CreateRule
  <2>2. faults' \in 0..MaxFaults BY <1>6, FaultsType DEF CreateRule
  <2> QED BY <1>6, <2>1, <2>2 DEF CreateRule, TypeOK
<1> QED BY <1>3, <1>4, <1>5, <1>6

(* The deletion of buckets, with go-shares and without. *)
LEMMA TrashType ==
  ASSUME BucketsInv, NEW p \in Reqs,
         \/ TrashCheck(p) \/ TrashRecord(p) \/ HardDeleteList(p)
         \/ HardDeleteObjects(p) \/ HardDeleteDrop(p)
  PROVE  TypeOK'
<1> USE DEF BucketsInv, s3Vars, sharesVars, history
<1>1. req[p] \in Requests /\ req[p].op = "trash"
  BY BusyType DEF TrashCheck, TrashRecord, HardDeleteList, HardDeleteObjects,
                  HardDeleteDrop, At
<1>2. req[p].bucket \in Buckets /\ req[p].keys \subseteq Keys
  BY <1>1 DEF Requests
<1>3. CASE TrashCheck(p)
  <2>1. req' \in [Reqs -> Requests \cup {Idle}]
    BY <1>1, <1>3, GotoType, FinishType DEF TrashCheck, ReqLabels
  <2> QED BY <1>3, <2>1 DEF TrashCheck, TypeOK
<1>4. CASE TrashRecord(p)
  <2>1. req' \in [Reqs -> Requests \cup {Idle}]
    BY <1>4, FinishType DEF TrashRecord
  <2> QED BY <1>2, <1>4, <2>1 DEF TrashRecord, TrashBucket, TypeOK
<1>5. CASE HardDeleteList(p)
  <2>1. ASSUME NEW page \in Pages(req[p].bucket), NEW pc \in {"drop", "delete"},
               req' = [req EXCEPT ![p].keys = page, ![p].pc = pc]
        PROVE  req' \in [Reqs -> Requests \cup {Idle}]
    <3>1. [req[p] EXCEPT !.keys = page, !.pc = pc] \in Requests
      BY <1>1, <2>1 DEF Requests, ReqLabels, Pages, KeysIn
    <3> QED BY <2>1, <3>1 DEF TypeOK
  <2>2. req' \in [Reqs -> Requests \cup {Idle}]
    BY <1>5, <2>1, FinishType DEF HardDeleteList
  <2> QED BY <1>5, <2>2 DEF HardDeleteList, TypeOK
<1>6. CASE HardDeleteObjects(p)
  <2>1. req' \in [Reqs -> Requests \cup {Idle}]
    BY <1>1, <1>6, GotoType, FinishType DEF HardDeleteObjects, ReqLabels
  <2>2. faults' \in 0..MaxFaults
    BY <1>6, FaultsType DEF HardDeleteObjects, DeleteObjects
  <2>3. objects' \subseteq objects BY <1>6 DEF HardDeleteObjects, DeleteObjects
  <2>4. purged' \subseteq uploaded BY <1>6 DEF HardDeleteObjects, TypeOK
  <2> QED BY <1>6, <2>1, <2>2, <2>3, <2>4 DEF HardDeleteObjects, TypeOK
<1>7. CASE HardDeleteDrop(p)
  <2>1. req' \in [Reqs -> Requests \cup {Idle}]
    BY <1>7, FinishType DEF HardDeleteDrop, Drop
  <2> QED BY <1>7, <2>1 DEF HardDeleteDrop, Drop, DropBucket, CanDropBucket,
                            KeysIn, TypeOK
<1> QED BY <1>3, <1>4, <1>5, <1>6, <1>7

(* Renames. *)
LEMMA RenameType ==
  ASSUME BucketsInv, NEW p \in Reqs,
         \/ RenameCheck(p) \/ RenameCheckNew(p) \/ RenameCreate(p)
         \/ RenameList(p) \/ RenameCopy(p) \/ RenameDelete(p) \/ RenameDrop(p)
  PROVE  TypeOK'
<1> USE DEF BucketsInv, s3Vars, sharesVars, history
<1>1. req[p] \in Requests /\ req[p].op = "rename"
  BY BusyType DEF RenameCheck, RenameCheckNew, RenameCreate, RenameList,
                  RenameCopy, RenameDelete, RenameDrop, At
<1>2. /\ req[p].bucket \in Buckets /\ req[p].to \in Buckets
      /\ req[p].keys \subseteq Keys /\ req[p].todo \subseteq Keys
  BY <1>1 DEF Requests
<1>3. CASE RenameCheck(p) \/ RenameCheckNew(p)
  <2>1. req' \in [Reqs -> Requests \cup {Idle}]
    BY <1>1, <1>3, GotoType, FinishType DEF RenameCheck, RenameCheckNew, ReqLabels
  <2> QED BY <1>3, <2>1 DEF RenameCheck, RenameCheckNew, TypeOK
<1>4. CASE RenameCreate(p)
  <2>1. req' \in [Reqs -> Requests \cup {Idle}]
    BY <1>1, <1>4, GotoType, FinishType DEF RenameCreate, ReqLabels
  <2> QED BY <1>2, <1>4, <2>1, Numbers DEF RenameCreate, NewBucket, TypeOK
<1>5. CASE RenameList(p)
  <2>1. ASSUME NEW page \in Pages(req[p].bucket),
               req' = [req EXCEPT ![p].pc = "copy", ![p].keys = page,
                                  ![p].todo = page]
        PROVE  req' \in [Reqs -> Requests \cup {Idle}]
    <3>1. [req[p] EXCEPT !.pc = "copy", !.keys = page, !.todo = page] \in Requests
      BY <1>1, <2>1 DEF Requests, ReqLabels, Pages, KeysIn
    <3> QED BY <2>1, <3>1 DEF TypeOK
  <2>2. req' \in [Reqs -> Requests \cup {Idle}]
    BY <1>5, <2>1, FinishType DEF RenameList
  <2> QED BY <1>5, <2>2 DEF RenameList, TypeOK
<1>6. CASE RenameCopy(p)
  <2>1. ASSUME NEW k \in req[p].todo,
               req' = [req EXCEPT ![p].todo = @ \ {k}]
        PROVE  req' \in [Reqs -> Requests \cup {Idle}]
    <3>1. [req[p] EXCEPT !.todo = @ \ {k}] \in Requests
      BY <1>1 DEF Requests
    <3> QED BY <2>1, <3>1 DEF TypeOK
  <2>2. req' \in [Reqs -> Requests \cup {Idle}]
    BY <1>1, <1>6, <2>1, GotoType, FinishType DEF RenameCopy, ReqLabels
  <2>3. \/ UNCHANGED objects
        \/ \E k \in req[p].todo :
             req[p].to \in buckets /\ objects' = objects \cup {<<req[p].to, k>>}
    BY <1>6 DEF RenameCopy
  <2>4. objects' \subseteq buckets \X Keys BY <1>2, <2>3 DEF TypeOK
  <2> QED BY <1>6, <2>2, <2>4 DEF RenameCopy, TypeOK
<1>7. CASE RenameDelete(p)
  <2>1. req' \in [Reqs -> Requests \cup {Idle}]
    BY <1>1, <1>7, GotoType, FinishType DEF RenameDelete, ReqLabels
  <2>2. faults' \in 0..MaxFaults
    BY <1>7, FaultsType DEF RenameDelete, DeleteObjects
  <2>3. objects' \subseteq objects BY <1>7 DEF RenameDelete, DeleteObjects
  <2> QED BY <1>7, <2>1, <2>2, <2>3 DEF RenameDelete, TypeOK
<1>8. CASE RenameDrop(p)
  <2>1. req' \in [Reqs -> Requests \cup {Idle}]
    BY <1>8, FinishType DEF RenameDrop, Drop
  <2> QED BY <1>8, <2>1 DEF RenameDrop, Drop, DropBucket, CanDropBucket,
                            KeysIn, TypeOK
<1> QED BY <1>3, <1>4, <1>5, <1>6, <1>7, <1>8

(* What clients begin, and the requests that are one call. *)
LEMMA ClientType ==
  ASSUME BucketsInv, Client
  PROVE  TypeOK'
<1> USE DEF BucketsInv, s3Vars, sharesVars, history
<1>1. ASSUME NEW p \in Reqs, NEW b \in Buckets,
             \/ \E k \in Keys : BeginPut(p, b, k) \/ BeginFolder(p, b, k)
             \/ BeginCreate(p, b) \/ BeginTrash(p, b)
             \/ \E to \in Buckets : BeginRename(p, b, to)
      PROVE  TypeOK'
  <2>1. PICK op \in Ops, to \in Buckets, keys \in SUBSET Keys :
          Begin(p, NewRequest(op, b, to, keys))
    <3>1. ASSUME NEW k \in Keys, BeginPut(p, b, k) \/ BeginFolder(p, b, k)
          PROVE  \E op \in {"put", "folder"} : Begin(p, NewRequest(op, b, b, {k}))
      BY <3>1 DEF BeginPut, BeginFolder
    <3>2. ASSUME BeginCreate(p, b) \/ BeginTrash(p, b)
          PROVE  \E op \in {"create", "trash"} : Begin(p, NewRequest(op, b, b, {}))
      BY <3>2 DEF BeginCreate, BeginTrash
    <3>3. ASSUME NEW to \in Buckets, BeginRename(p, b, to)
          PROVE  Begin(p, NewRequest("rename", b, to, {}))
      BY <3>3 DEF BeginRename
    <3> QED BY <1>1, <3>1, <3>2, <3>3 DEF Ops
  <2> QED BY <2>1, BeginType
<1>2. ASSUME NEW b \in Buckets, RestoreBucketHandler(b) PROVE TypeOK'
  BY <1>2 DEF RestoreBucketHandler, RestoreBucket, TypeOK
<1>3. ASSUME NEW b \in Buckets, NEW u \in Users, HandleCreateShare(b, u)
      PROVE  TypeOK'
  <2>1. <<b, u, SharedGen(b)>> \in Buckets \X Users \X (0..MaxGen)
    BY BoundsAssumption DEF TypeOK, SharedGen
  <2> QED BY <1>3, <2>1 DEF HandleCreateShare, CreateShare, TypeOK
<1>4. ASSUME NEW b \in Buckets, NEW u \in Users, HandleDeleteShare(b, u)
      PROVE  TypeOK'
  BY <1>4 DEF HandleDeleteShare, DeleteShare, TypeOK
<1> QED BY <1>1, <1>2, <1>3, <1>4 DEF Client

(* The purge ticker and the purge consumer. *)
LEMMA PurgeType ==
  ASSUME BucketsInv,
         \/ \E b \in Buckets : MarkDue(b) \/ PublishPurge(b)
         \/ Consume \/ PurgeAbort
  PROVE  TypeOK'
<1> USE DEF BucketsInv, s3Vars, sharesVars, history
<1>1. ASSUME NEW b \in Buckets, MarkDue(b) PROVE TypeOK'
  BY <1>1 DEF MarkDue, TypeOK
<1>2. ASSUME NEW b \in Buckets, PublishPurge(b) PROVE TypeOK'
  BY <1>2, Numbers DEF PublishPurge, TypeOK
<1>3. ASSUME NEW b \in Buckets, PurgeReceive(b) PROVE TypeOK'
  <2>1. purge' \in Purges BY <1>3 DEF PurgeReceive, Purges, PurgeLabels
  <2> QED BY <1>3, <2>1, Numbers DEF PurgeReceive, TypeOK
<1>4. ASSUME NEW pc \in PurgeLabels, PurgeAt(pc)
      PROVE  purge \in Purges /\ purge.bucket \in Buckets
             /\ purge.keys \subseteq Keys
  BY <1>4 DEF PurgeAt, PurgeLabels, TypeOK, Idle, Purges
<1>5. ASSUME NEW pc \in PurgeLabels, purge \in Purges, PurgeGoto(pc)
      PROVE  purge' \in Purges
  BY <1>5 DEF PurgeGoto, Purges
<1>6. CASE PurgeList
  <2>1. purge \in Purges BY <1>4, <1>6 DEF PurgeList, PurgeLabels
  <2>2. purge' \in Purges
    BY <1>6, <2>1 DEF PurgeList, Purges, PurgeLabels, Pages, KeysIn
  <2> QED BY <1>6, <2>2 DEF PurgeList, TypeOK
<1>7. CASE PurgeObjects
  <2>1. purge' \in Purges \cup {Idle}
    BY <1>4, <1>5, <1>7 DEF PurgeObjects, PurgeLabels, PurgeEnd
  <2>2. faults' \in 0..MaxFaults
    BY <1>7, FaultsType DEF PurgeObjects, DeleteObjects
  <2>3. objects' \subseteq objects BY <1>7 DEF PurgeObjects, DeleteObjects
  <2>4. purged' \subseteq uploaded BY <1>7 DEF PurgeObjects, TypeOK
  <2> QED BY <1>7, <2>1, <2>2, <2>3, <2>4 DEF PurgeObjects, TypeOK
<1>8. CASE PurgeBucket
  <2>1. purge' \in Purges \cup {Idle}
    BY <1>4, <1>5, <1>8 DEF PurgeBucket, PurgeLabels, PurgeEnd
  <2> QED BY <1>8, <2>1 DEF PurgeBucket, DropBucket, CanDropBucket, KeysIn, TypeOK
<1>9. CASE PurgeShares
  <2>1. purge' \in Purges
    BY <1>4, <1>5, <1>9 DEF PurgeShares, PurgeLabels
  <2>2. faults' \in 0..MaxFaults BY <1>9, FaultsType DEF PurgeShares
  <2>3. shares' \subseteq shares BY <1>9 DEF PurgeShares, DeleteSharesForBucket
  <2> QED BY <1>9, <2>1, <2>2, <2>3 DEF PurgeShares, TypeOK
<1>10. CASE PurgeRecord
  <2>1. faults' \in 0..MaxFaults BY <1>10, FaultsType DEF PurgeRecord
  <2> QED BY <1>10, <2>1 DEF PurgeRecord, PurgeBucketRecord, PurgeEnd, TypeOK
<1>11. CASE PurgeAbort
  <2>1. faults' \in 0..MaxFaults BY <1>11, FaultsType DEF PurgeAbort
  <2> QED BY <1>11, <2>1 DEF PurgeAbort, PurgeEnd, TypeOK
<1> QED BY <1>1, <1>2, <1>3, <1>6, <1>7, <1>8, <1>9, <1>10, <1>11 DEF Consume

(* Every step keeps the types. *)
LEMMA NextType ==
  ASSUME BucketsInv, [Next]_vars
  PROVE  TypeOK'
<1>1. CASE UNCHANGED vars BY <1>1 DEF vars, TypeOK, BucketsInv
<1>2. ASSUME NEW p \in Reqs, HandlerStep(p) PROVE TypeOK'
  <2>1. CASE Abort(p)
    <3>1. req' \in [Reqs -> Requests \cup {Idle}]
      BY <2>1, FinishType DEF Abort, BucketsInv
    <3>2. faults' \in 0..MaxFaults
      BY <2>1, FaultsType DEF Abort, BucketsInv
    <3> QED BY <2>1, <3>1, <3>2
            DEF Abort, TypeOK, BucketsInv, s3Vars, sharesVars, history
  <2> QED BY <1>2, <2>1, StoreType, CreateType, TrashType, RenameType
          DEF HandlerStep
<1> QED BY <1>1, <1>2, ClientType, PurgeType DEF Next

----------------------------------------------------------------------------
(* The general invariant. *)

(* What clients do begins a request with its check, or touches none.       *)
LEMMA ClientMoves ==
  ASSUME BucketsInv, Client
  PROVE  /\ UNCHANGED <<s3Vars, events, purge, uploaded, purged, faults>>
         /\ \/ UNCHANGED req
            \/ /\ UNCHANGED <<trashRec, shares, condemned>>
               /\ \E p \in Reqs, op \in Ops, b, to \in Buckets, keys \in SUBSET Keys :
                    /\ req[p] = Idle /\ req'[p] = NewRequest(op, b, to, keys)
                    /\ \A q \in Reqs \ {p} : req'[q] = req[q]
                    /\ op = "rename" => b # to /\ "rename" \in Uses
                    /\ op = "trash" /\ "trashAgain" \notin Uses => trashRec[b] = "none"
<1> USE DEF BucketsInv, s3Vars, sharesVars, history
<1>1. ASSUME NEW p \in Reqs, NEW b \in Buckets,
             \/ \E k \in Keys : BeginPut(p, b, k) \/ BeginFolder(p, b, k)
             \/ BeginCreate(p, b) \/ BeginTrash(p, b)
             \/ \E to \in Buckets : BeginRename(p, b, to)
      PROVE  /\ UNCHANGED <<s3Vars, sharesVars, events, purge, history, faults>>
             /\ \E op \in Ops, to \in Buckets, keys \in SUBSET Keys :
                    /\ req[p] = Idle /\ req'[p] = NewRequest(op, b, to, keys)
                    /\ \A q \in Reqs \ {p} : req'[q] = req[q]
                    /\ op = "rename" => b # to /\ "rename" \in Uses
                    /\ op = "trash" /\ "trashAgain" \notin Uses => trashRec[b] = "none"
  <2>1. ASSUME NEW k \in Keys, BeginPut(p, b, k) \/ BeginFolder(p, b, k)
        PROVE  \E op \in {"put", "folder"} : Begin(p, NewRequest(op, b, b, {k}))
    BY <2>1 DEF BeginPut, BeginFolder
  <2>2. ASSUME BeginCreate(p, b) PROVE Begin(p, NewRequest("create", b, b, {}))
    BY <2>2 DEF BeginCreate
  <2>3. ASSUME BeginTrash(p, b)
        PROVE  /\ Begin(p, NewRequest("trash", b, b, {}))
               /\ "trashAgain" \notin Uses => trashRec[b] = "none"
    BY <2>3 DEF BeginTrash
  <2>4. ASSUME NEW to \in Buckets, BeginRename(p, b, to)
        PROVE  /\ Begin(p, NewRequest("rename", b, to, {}))
               /\ b # to /\ "rename" \in Uses
    BY <2>4 DEF BeginRename
  <2>5. PICK op \in Ops, to \in Buckets, keys \in SUBSET Keys :
          /\ Begin(p, NewRequest(op, b, to, keys))
          /\ op = "rename" => b # to /\ "rename" \in Uses
          /\ op = "trash" /\ "trashAgain" \notin Uses => trashRec[b] = "none"
    <3> DEFINE Body(op, to, keys) ==
                 /\ Begin(p, NewRequest(op, b, to, keys))
                 /\ op = "rename" => b # to /\ "rename" \in Uses
                 /\ op = "trash" /\ "trashAgain" \notin Uses => trashRec[b] = "none"
               Some == \E op \in Ops, to \in Buckets, keys \in SUBSET Keys :
                         Body(op, to, keys)
    <3>1. ASSUME NEW k \in Keys, BeginPut(p, b, k) \/ BeginFolder(p, b, k)
          PROVE  Some
      <4>1. PICK op \in {"put", "folder"} : Begin(p, NewRequest(op, b, b, {k}))
        BY <2>1, <3>1
      <4>2. Body(op, b, {k}) BY <4>1
      <4>3. op \in Ops /\ {k} \in SUBSET Keys BY DEF Ops
      <4> QED BY <4>2, <4>3
    <3>2. ASSUME BeginCreate(p, b) PROVE Some
      <4>1. Body("create", b, {}) BY <2>2, <3>2
      <4> HIDE DEF Body
      <4>2. "create" \in Ops /\ {} \in SUBSET Keys BY DEF Ops
      <4> QED BY <4>1, <4>2
    <3>3. ASSUME BeginTrash(p, b) PROVE Some
      <4>1. Body("trash", b, {}) BY <2>3, <3>3
      <4> HIDE DEF Body
      <4>2. "trash" \in Ops /\ {} \in SUBSET Keys BY DEF Ops
      <4> QED BY <4>1, <4>2
    <3>4. ASSUME NEW to \in Buckets, BeginRename(p, b, to) PROVE Some
      <4>1. Body("rename", to, {}) BY <2>4, <3>4
      <4> HIDE DEF Body
      <4>2. "rename" \in Ops /\ {} \in SUBSET Keys BY DEF Ops
      <4> QED BY <4>1, <4>2
    <3> QED BY <1>1, <3>1, <3>2, <3>3, <3>4
  <2> QED BY <2>5, BeginType
<1>2. ASSUME NEW b \in Buckets, RestoreBucketHandler(b)
      PROVE  UNCHANGED <<s3Vars, events, purge, uploaded, purged, faults, req>>
  BY <1>2 DEF RestoreBucketHandler
<1>3. ASSUME NEW b \in Buckets, NEW u \in Users,
             HandleCreateShare(b, u) \/ HandleDeleteShare(b, u)
      PROVE  UNCHANGED <<s3Vars, events, purge, uploaded, purged, faults, req>>
  BY <1>3 DEF HandleCreateShare, HandleDeleteShare
<1> QED BY <1>1, <1>2, <1>3 DEF Client

(* A step of one request leaves the others as they are; the ticker and the *)
(* consumer leave all of them.                                             *)
LEMMA OneMoves ==
  ASSUME TypeOK, NEW p \in Reqs, HandlerStep(p), NEW q \in Reqs \ {p}
  PROVE  req'[q] = req[q]
<1> USE DEF Goto, Finish, TypeOK
<1>1. CASE \/ PutCheck(p) \/ PutStore(p) \/ FolderCheck(p) \/ FolderStore(p)
           \/ CreateCheck(p) \/ CreateBucket(p) \/ CreateRegister(p)
           \/ CreateRule(p) \/ Abort(p)
  BY <1>1 DEF PutCheck, PutStore, FolderCheck, FolderStore, Store, CreateCheck,
              CreateBucket, CreateRegister, CreateRule, Abort
<1>2. CASE \/ TrashCheck(p) \/ TrashRecord(p) \/ HardDeleteObjects(p)
           \/ HardDeleteDrop(p) \/ RenameDrop(p) \/ RenameCheck(p)
           \/ RenameCheckNew(p) \/ RenameCreate(p) \/ RenameDelete(p)
  BY <1>2 DEF TrashCheck, TrashRecord, HardDeleteObjects, HardDeleteDrop,
              RenameDrop, Drop, RenameCheck, RenameCheckNew, RenameCreate,
              RenameDelete
<1>3. CASE HardDeleteList(p) \/ RenameList(p)
  BY <1>3 DEF HardDeleteList, RenameList
<1>4. CASE RenameCopy(p) BY <1>4 DEF RenameCopy
<1> QED BY <1>1, <1>2, <1>3, <1>4 DEF HandlerStep

(* The ticker and the purge touch neither requests nor the history that    *)
(* the handlers write.                                                     *)
LEMMA PurgeFrame ==
  ASSUME \/ \E b \in Buckets : MarkDue(b) \/ PublishPurge(b)
         \/ Consume \/ PurgeAbort
  PROVE  UNCHANGED <<req, gen, uploaded, condemned>>
BY DEF MarkDue, PublishPurge, Consume, PurgeReceive, PurgeList, PurgeObjects,
       PurgeBucket, PurgeShares, PurgeRecord, PurgeAbort, s3Vars, history

(* Buckets come by their creation, each the next of its name. *)
LEMMA BucketsMove ==
  ASSUME BucketsInv, [Next]_vars
  PROVE  \/ buckets' \subseteq buckets /\ UNCHANGED gen
         \/ \E p \in Reqs :
              \/ /\ CreateBucket(p) /\ req[p].bucket \notin buckets
                 /\ NewBucket(req[p].bucket)
              \/ /\ RenameCreate(p) /\ req[p].to \notin buckets
                 /\ NewBucket(req[p].to)
<1> USE DEF s3Vars
<1>1. CASE UNCHANGED vars BY <1>1 DEF vars
<1>2. CASE Client BY <1>2, ClientMoves
<1>3. CASE \/ \E b \in Buckets : MarkDue(b) \/ PublishPurge(b)
           \/ Consume \/ PurgeAbort
  <2>1. buckets' \subseteq buckets
    BY <1>3 DEF MarkDue, PublishPurge, Consume, PurgeReceive, PurgeList,
       PurgeObjects, PurgeBucket, DropBucket, PurgeShares, PurgeRecord, PurgeAbort
  <2> QED BY <1>3, <2>1, PurgeFrame
<1>4. ASSUME NEW p \in Reqs, HandlerStep(p)
      PROVE  \/ buckets' \subseteq buckets /\ UNCHANGED gen
             \/ /\ CreateBucket(p) /\ req[p].bucket \notin buckets
                /\ NewBucket(req[p].bucket)
             \/ /\ RenameCreate(p) /\ req[p].to \notin buckets
                /\ NewBucket(req[p].to)
  <2>1. CASE CreateBucket(p) BY <2>1 DEF CreateBucket
  <2>2. CASE RenameCreate(p) BY <2>2 DEF RenameCreate
  <2>3. CASE \/ PutCheck(p) \/ PutStore(p) \/ FolderCheck(p) \/ FolderStore(p)
             \/ CreateCheck(p) \/ CreateRegister(p) \/ CreateRule(p) \/ Abort(p)
    BY <2>3 DEF PutCheck, PutStore, FolderCheck, FolderStore, Store, CreateCheck,
                CreateRegister, CreateRule, Abort
  <2>4. CASE \/ TrashCheck(p) \/ TrashRecord(p) \/ HardDeleteList(p)
             \/ HardDeleteObjects(p) \/ HardDeleteDrop(p)
    BY <2>4 DEF TrashCheck, TrashRecord, HardDeleteList, HardDeleteObjects,
                HardDeleteDrop, Drop, DropBucket
  <2>5. CASE \/ RenameCheck(p) \/ RenameCheckNew(p) \/ RenameList(p)
             \/ RenameCopy(p) \/ RenameDelete(p) \/ RenameDrop(p)
    BY <2>5 DEF RenameCheck, RenameCheckNew, RenameList, RenameCopy,
                RenameDelete, RenameDrop, Drop, DropBucket
  <2> QED BY <1>4, <2>1, <2>2, <2>3, <2>4, <2>5 DEF HandlerStep
<1> QED BY <1>1, <1>2, <1>3, <1>4 DEF Next

(* The buckets created under a name are counted upwards. *)
LEMMA GenGrows ==
  ASSUME BucketsInv, [Next]_vars, NEW b \in Buckets
  PROVE  gen[b] \in Nat /\ gen'[b] \in Nat /\ gen[b] <= gen'[b]
<1>1. gen \in [Buckets -> 0..MaxGen] /\ gen' \in [Buckets -> 0..MaxGen]
  BY NextType DEF BucketsInv, TypeOK
<1>2. gen[b] <= gen'[b]
  BY <1>1, Numbers, BucketsMove DEF NewBucket
<1> QED BY <1>1, <1>2, Numbers

(* What is stored has been uploaded, wherever it is copied to. *)
LEMMA ObjectsMove ==
  ASSUME BucketsInv, [Next]_vars
  PROVE  /\ uploaded \subseteq uploaded'
         /\ \/ objects' \subseteq objects
            \/ \E p \in Reqs : PutStore(p) \/ FolderStore(p)
            \/ \E p \in Reqs : /\ RenameCopy(p)
                               /\ \E k \in req[p].todo :
                                    /\ <<req[p].bucket, k>> \in objects
                                    /\ req[p].to \in buckets
                                    /\ objects' = objects \cup {<<req[p].to, k>>}
<1> USE DEF s3Vars, history
<1>1. CASE UNCHANGED vars BY <1>1 DEF vars
<1>2. CASE Client BY <1>2, ClientMoves
<1>3. CASE \/ \E b \in Buckets : MarkDue(b) \/ PublishPurge(b)
           \/ Consume \/ PurgeAbort
  <2>1. objects' \subseteq objects
    BY <1>3 DEF MarkDue, PublishPurge, Consume, PurgeReceive, PurgeList,
       PurgeObjects, DeleteObjects, PurgeBucket, PurgeShares, PurgeRecord,
       PurgeAbort
  <2> QED BY <1>3, <2>1, PurgeFrame
<1>4. ASSUME NEW p \in Reqs, HandlerStep(p)
      PROVE  /\ uploaded \subseteq uploaded'
             /\ \/ objects' \subseteq objects
                \/ PutStore(p) \/ FolderStore(p)
                \/ /\ RenameCopy(p)
                   /\ \E k \in req[p].todo :
                        /\ <<req[p].bucket, k>> \in objects
                        /\ req[p].to \in buckets
                        /\ objects' = objects \cup {<<req[p].to, k>>}
  <2>1. CASE PutStore(p) \/ FolderStore(p)
    BY <2>1 DEF PutStore, FolderStore, Store
  <2>2. CASE \/ PutCheck(p) \/ FolderCheck(p) \/ CreateCheck(p)
             \/ CreateBucket(p) \/ CreateRegister(p) \/ CreateRule(p) \/ Abort(p)
    BY <2>2 DEF PutCheck, FolderCheck, CreateCheck, CreateBucket, CreateRegister,
                CreateRule, Abort
  <2>3. CASE \/ TrashCheck(p) \/ TrashRecord(p) \/ HardDeleteList(p)
             \/ HardDeleteObjects(p) \/ HardDeleteDrop(p)
    BY <2>3 DEF TrashCheck, TrashRecord, HardDeleteList, HardDeleteObjects,
                DeleteObjects, HardDeleteDrop, Drop
  <2>4. CASE \/ RenameCheck(p) \/ RenameCheckNew(p) \/ RenameCreate(p)
             \/ RenameList(p) \/ RenameDelete(p) \/ RenameDrop(p)
    BY <2>4 DEF RenameCheck, RenameCheckNew, RenameCreate, RenameList,
                RenameDelete, DeleteObjects, RenameDrop, Drop
  <2>5. CASE RenameCopy(p)
    BY <2>5 DEF RenameCopy
  <2> QED BY <1>4, <2>1, <2>2, <2>3, <2>4, <2>5 DEF HandlerStep
<1> QED BY <1>1, <1>2, <1>3, <1>4 DEF Next

(* The requests keep to their kind's steps. *)
LEMMA HandlerProper ==
  ASSUME BucketsInv, [Next]_vars, NEW p \in Reqs, HandlerStep(p)
  PROVE  Proper(p)'
<1> USE DEF Proper, At
<1>1. TypeOK BY DEF BucketsInv
<1>2. ASSUME NEW op \in {"put", "folder", "create"}, NEW pc \in ReqLabels,
             req[p].op = op, Goto(p, pc)
      PROVE  Proper(p)'
  <2>1. req[p] \in Requests /\ req'[p] = [req[p] EXCEPT !.pc = pc]
    BY <1>1, <1>2, BusyType, GotoType
  <2> QED BY <1>2, <2>1 DEF Requests
<1>3. ASSUME Finish(p) PROVE Proper(p)' BY <1>1, <1>3, FinishType DEF Idle
<1>4. CASE \/ PutCheck(p) \/ PutStore(p) \/ FolderCheck(p) \/ FolderStore(p)
           \/ CreateCheck(p) \/ CreateBucket(p) \/ CreateRegister(p)
           \/ CreateRule(p) \/ Abort(p)
  BY <1>2, <1>3, <1>4 DEF PutCheck, PutStore, FolderCheck, FolderStore, Store,
     CreateCheck, CreateBucket, CreateRegister, CreateRule, Abort, ReqLabels
<1>5. CASE TrashRecord(p) \/ HardDeleteDrop(p) \/ RenameDrop(p)
  BY <1>3, <1>5 DEF TrashRecord, HardDeleteDrop, RenameDrop, Drop
<1>6. CASE TrashCheck(p)
  <2>1. req[p] \in Requests /\ req[p].op = "trash"
    BY <1>1, <1>6, BusyType DEF TrashCheck
  <2>2. ASSUME NEW pc \in {"list", "record"}, Goto(p, pc), HasShares => pc = "record"
        PROVE  Proper(p)'
    <3>1. req'[p] = [req[p] EXCEPT !.pc = pc]
      BY <1>1, <2>1, <2>2, GotoType DEF ReqLabels
    <3> QED BY <2>1, <2>2, <3>1 DEF Requests
  <2> QED BY <1>3, <1>6, <2>2 DEF TrashCheck
<1>7. CASE HardDeleteList(p) \/ HardDeleteObjects(p)
  <2>1. req[p] \in Requests /\ req[p].op = "trash" /\ ~ HasShares
    BY <1>1, <1>7, BusyType DEF HardDeleteList, HardDeleteObjects, BucketsInv
  <2>2. req'[p] = Idle \/ req'[p].op = "trash"
    <3>1. ASSUME Goto(p, "drop") PROVE req'[p].op = "trash"
      BY <1>1, <2>1, <3>1, GotoType DEF ReqLabels, Requests
    <3>2. CASE HardDeleteList(p)
      <4>1. CASE Finish(p) BY <1>1, <4>1, FinishType
      <4>2. ASSUME NEW page \in Pages(req[p].bucket),
                   req' = [req EXCEPT ![p].keys = page,
                             ![p].pc = IF page = {} THEN "drop" ELSE "delete"]
            PROVE  req'[p].op = "trash"
        <5>1. req'[p] = [req[p] EXCEPT !.keys = page,
                           !.pc = IF page = {} THEN "drop" ELSE "delete"]
          BY <1>1, <4>2 DEF TypeOK
        <5> QED BY <2>1, <5>1 DEF Requests
      <4> QED BY <3>2, <4>1, <4>2 DEF HardDeleteList
    <3>3. CASE HardDeleteObjects(p)
      BY <1>1, <3>1, <3>3, FinishType DEF HardDeleteObjects
    <3> QED BY <1>7, <3>2, <3>3
  <2> QED BY <2>1, <2>2 DEF Idle
<1>8. ASSUME req[p].op = "rename"
      PROVE  /\ req[p] \in Requests /\ req[p].bucket # req[p].to
             /\ req[p].bucket \in Buckets /\ req[p].to \in Buckets
             /\ gen[req[p].bucket] > 0 => gen'[req[p].bucket] > 0
             /\ gen[req[p].to] > 0 => gen'[req[p].to] > 0
  <2>1. req[p] \in Requests BY <1>1, <1>8, BusyType
  <2>2. req[p].bucket \in Buckets /\ req[p].to \in Buckets
    BY <2>1 DEF Requests
  <2> QED BY <1>8, <2>1, <2>2, GenGrows DEF BucketsInv
<1>9. ASSUME NEW pc \in ReqLabels, Goto(p, pc), req[p].op = "rename",
             gen[req[p].bucket] > 0,
             pc \in {"list", "copy", "delete", "drop"} => gen'[req[p].to] > 0
      PROVE  Proper(p)'
  <2>1. req'[p] = [req[p] EXCEPT !.pc = pc] BY <1>1, <1>9, GotoType
  <2> QED BY <1>8, <1>9, <2>1 DEF Requests
<1>10. CASE RenameCheck(p)
  <2>1. req[p].bucket \in buckets => gen[req[p].bucket] > 0 BY DEF BucketsInv
  <2> QED BY <1>3, <1>9, <1>10, <2>1 DEF RenameCheck, ReqLabels
<1>11. CASE RenameCheckNew(p)
  BY <1>3, <1>9, <1>11 DEF RenameCheckNew, ReqLabels, BucketsInv
<1>12. CASE RenameCreate(p)
  <2>1. ASSUME NewBucket(req[p].to) PROVE gen'[req[p].to] > 0
    BY <1>1, <1>8, <1>12, <2>1, Numbers DEF RenameCreate, NewBucket, TypeOK
  <2> QED BY <1>3, <1>9, <1>12, <2>1 DEF RenameCreate, ReqLabels, BucketsInv
<1>13. CASE RenameDelete(p)
  BY <1>3, <1>8, <1>9, <1>13 DEF RenameDelete, ReqLabels, BucketsInv
<1>14. CASE RenameList(p)
  <2>1. ASSUME NEW page,
               req' = [req EXCEPT ![p].pc = "copy", ![p].keys = page,
                                  ![p].todo = page]
        PROVE  Proper(p)'
    <3>1. req'[p] = [req[p] EXCEPT !.pc = "copy", !.keys = page, !.todo = page]
      BY <1>1, <2>1 DEF TypeOK
    <3> QED BY <1>8, <1>14, <3>1 DEF RenameList, Requests, BucketsInv
  <2> QED BY <1>3, <1>14, <2>1 DEF RenameList
<1>15. CASE RenameCopy(p)
  <2>1. ASSUME NEW k, req' = [req EXCEPT ![p].todo = @ \ {k}]
        PROVE  Proper(p)'
    <3>1. req'[p] = [req[p] EXCEPT !.todo = @ \ {k}]
      BY <1>1, <2>1 DEF TypeOK
    <3> QED BY <1>8, <1>15, <3>1 DEF RenameCopy, Requests, BucketsInv
  <2> QED BY <1>3, <1>8, <1>9, <1>15, <2>1 DEF RenameCopy, ReqLabels, BucketsInv
<1> QED BY <1>4, <1>5, <1>6, <1>7, <1>10, <1>11, <1>12, <1>13, <1>14, <1>15
        DEF HandlerStep

(* Every step keeps the general invariant. *)
LEMMA NextBuckets ==
  ASSUME BucketsInv, [Next]_vars
  PROVE  BucketsInv'
<1>1. TypeOK' BY NextType
<1>2. TypeOK BY DEF BucketsInv
<1>3. ASSUME NEW q \in Reqs PROVE Proper(q)'
  <2>1. ASSUME req'[q] = req[q] PROVE Proper(q)'
    <3>1. CASE req[q].op = "rename"
      <4>1. req[q] \in Requests BY <1>2, <3>1, BusyType
      <4>2. req[q].bucket \in Buckets /\ req[q].to \in Buckets
        BY <4>1 DEF Requests
      <4> QED BY <2>1, <3>1, <4>2, GenGrows DEF BucketsInv, Proper
    <3> QED BY <2>1, <3>1 DEF BucketsInv, Proper
  <2>2. CASE UNCHANGED vars BY <2>1, <2>2 DEF vars
  <2>3. CASE Client
    <3>1. CASE UNCHANGED req BY <2>1, <3>1
    <3>2. CASE ~ UNCHANGED req
      <4>1. PICK p \in Reqs, op \in Ops, b \in Buckets, to \in Buckets,
                 keys \in SUBSET Keys :
              /\ req'[p] = NewRequest(op, b, to, keys)
              /\ \A r \in Reqs \ {p} : req'[r] = req[r]
              /\ op = "rename" => b # to
        BY <2>3, <3>2, ClientMoves
      <4>2. CASE q = p BY <4>1, <4>2 DEF NewRequest, Proper
      <4> QED BY <2>1, <4>1, <4>2
    <3> QED BY <3>1, <3>2
  <2>4. ASSUME NEW p \in Reqs, HandlerStep(p) PROVE Proper(q)'
    BY <1>2, <2>1, <2>4, OneMoves, HandlerProper
  <2> QED BY <2>1, <2>2, <2>3, <2>4, PurgeFrame DEF Next
<1>4. ASSUME NEW b \in buckets' PROVE gen'[b] > 0
  <2>1. b \in Buckets BY <1>1 DEF TypeOK
  <2>2. CASE b \in buckets BY <2>1, <2>2, GenGrows DEF BucketsInv
  <2>3. CASE b \notin buckets
    BY <1>2, <2>1, <2>3, BucketsMove, Numbers DEF NewBucket, TypeOK
  <2> QED BY <2>2, <2>3
<1>5. ASSUME NEW o \in objects' PROVE o[2] \in uploaded'
  <2>1. CASE o \in objects BY <2>1, ObjectsMove DEF BucketsInv
  <2>2. ASSUME NEW p \in Reqs, PutStore(p) \/ FolderStore(p)
        PROVE  o[2] \in uploaded'
    BY <2>2, StoreType
  <2>3. ASSUME NEW p \in Reqs, NEW k, <<req[p].bucket, k>> \in objects,
               o = <<req[p].to, k>>
        PROVE  o[2] \in uploaded'
    BY <2>3, ObjectsMove DEF BucketsInv
  <2> QED BY <2>1, <2>2, <2>3, ObjectsMove
<1> QED BY <1>1, <1>3, <1>4, <1>5 DEF BucketsInv

(* ... which holds initially. *)
LEMMA InitBuckets ==
  ASSUME Init
  PROVE  BucketsInv
BY Numbers DEF Init, BucketsInv, TypeOK, Proper, Idle

(* What has existed was created, what is stored was uploaded, and the state*)
(* has its type, whatever requests overlap, fail or crash.                 *)
THEOREM BucketsInvariant == Spec => []BucketsInv
<1>1. Init => BucketsInv BY InitBuckets
<1>2. BucketsInv /\ [Next]_vars => BucketsInv' BY NextBuckets
<1> QED BY <1>1, <1>2, PTL DEF Spec

(* The state of the buckets has its type. *)
THEOREM TypeCorrect == Spec => []TypeOK
<1>1. BucketsInv => TypeOK BY DEF BucketsInv
<1> QED BY <1>1, BucketsInvariant, PTL

----------------------------------------------------------------------------
(* Nothing is lost. *)

(* The rename p has made its new bucket and not deleted from the old one. *)
Moving(p) == req[p].op = "rename" /\ req[p].pc \in {"list", "copy", "delete"}

(* An object that is in a bucket stays there or is purged, but for the     *)
(* deletions of renames.                                                   *)
LEMMA HoldersStay ==
  ASSUME BucketsInv, [Next]_vars, \A p \in Reqs : ~ RenameDelete(p)
  PROVE  /\ purged \subseteq purged'
         /\ \A b \in buckets, k \in Keys :
              <<b, k>> \in objects
                => k \in purged' \/ (b \in buckets' /\ <<b, k>> \in objects')
<1> USE DEF s3Vars, history
<1>1. CASE UNCHANGED vars BY <1>1 DEF vars
<1>2. CASE Client BY <1>2, ClientMoves
<1>3. CASE \/ \E b \in Buckets : MarkDue(b) \/ PublishPurge(b)
           \/ \E b \in Buckets : PurgeReceive(b)
           \/ PurgeList \/ PurgeShares \/ PurgeRecord \/ PurgeAbort
  BY <1>3 DEF MarkDue, PublishPurge, PurgeReceive, PurgeList, PurgeShares,
              PurgeRecord, PurgeAbort
<1>4. CASE PurgeObjects BY <1>4 DEF PurgeObjects, DeleteObjects
<1>5. CASE PurgeBucket
  BY <1>5 DEF PurgeBucket, DropBucket, CanDropBucket, KeysIn
<1>6. ASSUME NEW p \in Reqs, HandlerStep(p)
      PROVE  /\ purged \subseteq purged'
             /\ \A b \in buckets, k \in Keys :
                  <<b, k>> \in objects
                    => k \in purged' \/ (b \in buckets' /\ <<b, k>> \in objects')
  <2>1. CASE \/ PutCheck(p) \/ PutStore(p) \/ FolderCheck(p) \/ FolderStore(p)
             \/ CreateCheck(p) \/ CreateRegister(p) \/ CreateRule(p) \/ Abort(p)
    BY <2>1 DEF PutCheck, PutStore, FolderCheck, FolderStore, Store, CreateCheck,
                CreateRegister, CreateRule, Abort
  <2>2. CASE CreateBucket(p) \/ RenameCreate(p)
    BY <2>2 DEF CreateBucket, RenameCreate, NewBucket
  <2>3. CASE TrashCheck(p) \/ TrashRecord(p) \/ HardDeleteList(p)
    BY <2>3 DEF TrashCheck, TrashRecord, HardDeleteList
  <2>4. CASE HardDeleteObjects(p)
    BY <2>4 DEF HardDeleteObjects, DeleteObjects
  <2>5. CASE HardDeleteDrop(p) \/ RenameDrop(p)
    BY <2>5 DEF HardDeleteDrop, RenameDrop, Drop, DropBucket, CanDropBucket, KeysIn
  <2>6. CASE RenameCheck(p) \/ RenameCheckNew(p) \/ RenameList(p)
    BY <2>6 DEF RenameCheck, RenameCheckNew, RenameList
  <2>7. CASE RenameCopy(p) BY <2>7 DEF RenameCopy
  <2> QED BY <1>6, <2>1, <2>2, <2>3, <2>4, <2>5, <2>6, <2>7 DEF HandlerStep
<1> QED BY <1>1, <1>2, <1>3, <1>4, <1>5, <1>6 DEF Next, Consume

(* What is uploaded goes into a bucket. *)
LEMMA UploadsStored ==
  ASSUME BucketsInv, [Next]_vars, NEW k \in uploaded', k \notin uploaded
  PROVE  \E b \in buckets' : <<b, k>> \in objects'
<1> USE DEF s3Vars, history
<1>1. CASE UNCHANGED vars BY <1>1 DEF vars
<1>2. CASE Client BY <1>2, ClientMoves
<1>3. ASSUME NEW p \in Reqs, Store(p)
      PROVE  \E b \in buckets' : <<b, k>> \in objects'
  BY <1>3 DEF Store
<1>4. ASSUME NEW p \in Reqs, HandlerStep(p), ~ PutStore(p), ~ FolderStore(p)
      PROVE  uploaded' = uploaded
  <2>1. CASE \/ PutCheck(p) \/ FolderCheck(p) \/ CreateCheck(p)
             \/ CreateBucket(p) \/ CreateRegister(p) \/ CreateRule(p) \/ Abort(p)
    BY <2>1 DEF PutCheck, FolderCheck, CreateCheck, CreateBucket, CreateRegister,
                CreateRule, Abort
  <2>2. CASE \/ TrashCheck(p) \/ TrashRecord(p) \/ HardDeleteList(p)
             \/ HardDeleteObjects(p) \/ HardDeleteDrop(p)
    BY <2>2 DEF TrashCheck, TrashRecord, HardDeleteList, HardDeleteObjects,
                HardDeleteDrop, Drop
  <2>3. CASE \/ RenameCheck(p) \/ RenameCheckNew(p) \/ RenameCreate(p)
             \/ RenameList(p) \/ RenameCopy(p) \/ RenameDelete(p) \/ RenameDrop(p)
    BY <2>3 DEF RenameCheck, RenameCheckNew, RenameCreate, RenameList,
                RenameCopy, RenameDelete, RenameDrop, Drop
  <2> QED BY <1>4, <2>1, <2>2, <2>3 DEF HandlerStep
<1> QED BY <1>1, <1>2, <1>3, <1>4, PurgeFrame DEF Next, PutStore, FolderStore

(* A rename comes to move objects when it has made its new bucket.         *)
Comes(p) ==
  /\ Moving(p)' /\ Copied(p)' = {}
  /\ RenameCreate(p) /\ req[p].op = "rename"
  /\ req'[p].bucket = req[p].bucket /\ req'[p].to = req[p].to
  /\ gen[req[p].bucket] > 0 /\ req[p].bucket # req[p].to
  /\ req[p].bucket \in Buckets /\ req[p].to \in Buckets
  /\ req[p].to \notin buckets /\ NewBucket(req[p].to)

(* It goes on moving; what it copies is in its new bucket.                 *)
Stays(p) ==
  /\ Moving(p) /\ Moving(p)'
  /\ req'[p].bucket = req[p].bucket /\ req'[p].to = req[p].to
  /\ \A k \in Copied(p)' \ Copied(p) :
       /\ req[p].to \in buckets
       /\ <<req[p].to, k>> \in objects'

(* A step of the gateway leaves a request without copies to account for,   *)
(* brings a rename, or takes one a copy further.                           *)
LEMMA RenameMoves ==
  ASSUME BucketsInv, [Next]_vars, NEW p \in Reqs
  PROVE  \/ ~ Moving(p)' /\ Copied(p)' = {}
         \/ Comes(p)
         \/ Stays(p)
<1> DEFINE Goal == (~ Moving(p)' /\ Copied(p)' = {}) \/ Comes(p) \/ Stays(p)
<1> USE DEF At
<1>1. TypeOK BY DEF BucketsInv
<1>2. ASSUME req'[p] = req[p] PROVE Goal
  BY <1>2 DEF Moving, Copied, Stays
<1>3. ASSUME \/ req'[p].op # "rename"
             \/ req'[p].pc \notin {"list", "copy", "delete"}
      PROVE  Goal
  BY <1>3 DEF Moving, Copied
<1>4. CASE UNCHANGED vars BY <1>2, <1>4 DEF vars
<1>5. CASE Client
  <2>1. CASE UNCHANGED req BY <1>2, <2>1
  <2>2. CASE ~ UNCHANGED req
    <3>1. PICK r \in Reqs, op \in Ops, b \in Buckets, to \in Buckets,
               keys \in SUBSET Keys :
            /\ req'[r] = NewRequest(op, b, to, keys)
            /\ \A q \in Reqs \ {r} : req'[q] = req[q]
      BY <1>5, <2>2, ClientMoves
    <3>2. req'[p] = req[p] \/ req'[p].pc = "check" BY <3>1 DEF NewRequest
    <3> QED BY <1>2, <1>3, <3>2
  <2> QED BY <2>1, <2>2
<1>6. CASE \/ \E b \in Buckets : MarkDue(b) \/ PublishPurge(b)
           \/ Consume \/ PurgeAbort
  BY <1>2, <1>6, PurgeFrame
<1>7. ASSUME HandlerStep(p) PROVE Goal
  <2> HIDE DEF Goal
  <2>1. ASSUME Finish(p) PROVE Goal BY <1>1, <1>3, <2>1, FinishType DEF Idle
  <2>2. ASSUME NEW pc \in ReqLabels, Goto(p, pc), req[p].op # "none",
               req[p].op # "rename" \/ pc \notin {"list", "copy", "delete"}
        PROVE  Goal
    <3>1. req[p] \in Requests /\ req'[p] = [req[p] EXCEPT !.pc = pc]
      BY <1>1, <2>2, BusyType, GotoType
    <3>2. req'[p].op = req[p].op /\ req'[p].pc = pc BY <3>1 DEF Requests
    <3> QED BY <1>3, <2>2, <3>2
  <2>3. CASE \/ PutCheck(p) \/ PutStore(p) \/ FolderCheck(p) \/ FolderStore(p)
             \/ CreateCheck(p) \/ CreateBucket(p) \/ CreateRegister(p)
             \/ CreateRule(p) \/ Abort(p)
    BY <2>1, <2>2, <2>3 DEF PutCheck, PutStore, FolderCheck, FolderStore, Store,
       CreateCheck, CreateBucket, CreateRegister, CreateRule, Abort, ReqLabels
  <2>4. CASE \/ TrashCheck(p) \/ TrashRecord(p) \/ HardDeleteObjects(p)
             \/ HardDeleteDrop(p) \/ RenameDrop(p)
    BY <2>1, <2>2, <2>4 DEF TrashCheck, TrashRecord, HardDeleteObjects,
       HardDeleteDrop, RenameDrop, Drop, ReqLabels
  <2>5. CASE RenameCheck(p) \/ RenameCheckNew(p) \/ RenameDelete(p)
    BY <2>1, <2>2, <2>5 DEF RenameCheck, RenameCheckNew, RenameDelete, ReqLabels
  <2>6. CASE HardDeleteList(p)
    <3>1. req[p] \in Requests BY <1>1, <2>6, BusyType DEF HardDeleteList
    <3>2. ASSUME NEW page \in Pages(req[p].bucket),
                 req' = [req EXCEPT ![p].keys = page,
                           ![p].pc = IF page = {} THEN "drop" ELSE "delete"]
          PROVE  req'[p].op # "rename"
      <4>1. req'[p] = [req[p] EXCEPT !.keys = page,
                         !.pc = IF page = {} THEN "drop" ELSE "delete"]
        BY <1>1, <3>2 DEF TypeOK
      <4> QED BY <2>6, <3>1, <4>1 DEF HardDeleteList, Requests
    <3> QED BY <1>3, <2>1, <2>6, <3>2 DEF HardDeleteList
  <2>7. ASSUME req[p].op = "rename"
        PROVE  /\ req[p] \in Requests /\ req[p].bucket \in Buckets
               /\ req[p].to \in Buckets /\ req[p].bucket # req[p].to
    BY <1>1, <2>7, BusyType DEF Requests, BucketsInv, Proper
  <2>8. CASE RenameCreate(p)
    <3>1. CASE Finish(p) BY <2>1, <3>1
    <3>2. CASE ~ Finish(p)
      <4>1. /\ req[p].op = "rename" /\ req[p].pc = "create"
            /\ req[p].to \notin buckets /\ NewBucket(req[p].to)
            /\ Goto(p, "list")
        BY <2>8, <3>2 DEF RenameCreate
      <4>2. req'[p] = [req[p] EXCEPT !.pc = "list"]
        BY <1>1, <4>1, GotoType DEF ReqLabels
      <4>3. /\ req'[p].op = "rename" /\ req'[p].pc = "list"
            /\ req'[p].bucket = req[p].bucket /\ req'[p].to = req[p].to
        BY <2>7, <4>1, <4>2 DEF Requests
      <4>4. gen[req[p].bucket] > 0 BY <4>1 DEF BucketsInv, Proper
      <4>5. Comes(p)
        BY <2>7, <2>8, <4>1, <4>3, <4>4 DEF Comes, Moving, Copied
      <4> QED BY <4>5 DEF Goal
    <3> QED BY <3>1, <3>2
  <2>9. CASE RenameList(p)
    <3>1. ASSUME NEW page \in Pages(req[p].bucket),
                 req' = [req EXCEPT ![p].pc = "copy", ![p].keys = page,
                                    ![p].todo = page]
          PROVE  Goal
      <4>1. req'[p] = [req[p] EXCEPT !.pc = "copy", !.keys = page, !.todo = page]
        BY <1>1, <3>1 DEF TypeOK
      <4>2. /\ req'[p].op = "rename" /\ req'[p].pc = "copy"
            /\ req'[p].bucket = req[p].bucket /\ req'[p].to = req[p].to
            /\ req'[p].keys = req'[p].todo
        BY <2>7, <2>9, <4>1 DEF RenameList, Requests
      <4>3. Stays(p) BY <2>9, <4>2 DEF RenameList, Stays, Moving, Copied
      <4> QED BY <4>3 DEF Goal
    <3> QED BY <2>1, <2>9, <3>1 DEF RenameList
  <2>10. CASE RenameCopy(p)
    <3>1. ASSUME NEW k \in req[p].todo,
                 /\ <<req[p].bucket, k>> \in objects /\ req[p].to \in buckets
                 /\ objects' = objects \cup {<<req[p].to, k>>}
                 /\ req' = [req EXCEPT ![p].todo = @ \ {k}]
          PROVE  Goal
      <4>1. req'[p] = [req[p] EXCEPT !.todo = req[p].todo \ {k}]
        BY <1>1, <3>1 DEF TypeOK
      <4>2. /\ req'[p].op = "rename" /\ req'[p].pc = "copy"
            /\ req'[p].bucket = req[p].bucket /\ req'[p].to = req[p].to
            /\ req'[p].keys = req[p].keys /\ req'[p].todo = req[p].todo \ {k}
        BY <2>7, <2>10, <4>1 DEF RenameCopy, Requests
      <4>3. req[p].op = "rename" /\ req[p].pc = "copy" BY <2>10 DEF RenameCopy
      <4>4. Copied(p)' \subseteq Copied(p) \cup {k}
        BY <4>2, <4>3 DEF Copied
      <4>5. Stays(p) BY <3>1, <4>2, <4>3, <4>4 DEF Stays, Moving
      <4> QED BY <4>5 DEF Goal
    <3>2. ASSUME req[p].todo = {}, Goto(p, "delete")
          PROVE  Goal
      <4>1. req'[p] = [req[p] EXCEPT !.pc = "delete"]
        BY <1>1, <2>10, <3>2, GotoType DEF RenameCopy, ReqLabels
      <4>2. /\ req'[p].op = "rename" /\ req'[p].pc = "delete"
            /\ req'[p].bucket = req[p].bucket /\ req'[p].to = req[p].to
            /\ req'[p].keys = req[p].keys
        BY <2>7, <2>10, <4>1 DEF RenameCopy, Requests
      <4>3. Copied(p)' \subseteq Copied(p)
        BY <2>10, <3>2, <4>2 DEF RenameCopy, Copied
      <4>4. Stays(p) BY <2>10, <4>2, <4>3 DEF RenameCopy, Stays, Moving
      <4> QED BY <4>4 DEF Goal
    <3> QED BY <2>1, <2>10, <3>1, <3>2 DEF RenameCopy
  <2> QED BY <1>7, <2>3, <2>4, <2>5, <2>6, <2>8, <2>9, <2>10 DEF HandlerStep
<1>8. ASSUME NEW q \in Reqs \ {p}, HandlerStep(q) PROVE Goal
  BY <1>1, <1>2, <1>8, OneMoves
<1> QED BY <1>4, <1>5, <1>6, <1>7, <1>8 DEF Next

(* While no name is used again, what a bucket holds is, after any step,    *)
(* purged or held by that bucket or a later one.                           *)
LEMMA HoldersFollow ==
  ASSUME BucketsInv, [Next]_vars, NEW rank \in [Buckets -> Nat], Later(rank)
  PROVE  /\ purged \subseteq purged'
         /\ \A b \in buckets, k \in Keys :
              <<b, k>> \in objects
                => \/ k \in purged'
                   \/ \E d \in buckets' :
                        <<d, k>> \in objects' /\ rank[d] >= rank[b]
<1>1. buckets \subseteq Buckets BY DEF BucketsInv, TypeOK
<1>2. CASE \A p \in Reqs : ~ RenameDelete(p)
  <2>1. ASSUME NEW b \in buckets PROVE rank[b] >= rank[b] BY <1>1, <2>1
  <2> QED BY <1>2, <2>1, HoldersStay
<1>3. ASSUME NEW q \in Reqs, RenameDelete(q)
      PROVE  /\ purged' = purged /\ buckets' = buckets
             /\ \A b \in buckets, k \in Keys :
                  <<b, k>> \in objects
                    => \/ k \in purged
                       \/ \E d \in buckets :
                            <<d, k>> \in objects' /\ rank[d] >= rank[b]
  <2> DEFINE c == req[q].bucket
  <2>1. /\ purged' = purged /\ buckets' = buckets
        /\ req[q].op = "rename" /\ req[q].pc = "delete"
        /\ objects' = objects \/ objects' = objects \ ({c} \X req[q].keys)
    BY <1>3 DEF RenameDelete, DeleteObjects, At, history
  <2>2. c \in Buckets BY <2>1, BusyType DEF BucketsInv, Requests
  <2> HIDE DEF c
  <2>3. ASSUME NEW b \in buckets, NEW k \in Keys, <<b, k>> \in objects
        PROVE  \/ k \in purged
               \/ \E d \in buckets :
                    <<d, k>> \in objects' /\ rank[d] >= rank[b]
    <3>1. CASE <<b, k>> \in objects' BY <1>1, <3>1
    <3>2. CASE <<b, k>> \notin objects'
      <4>1. b = c /\ k \in req[q].keys BY <2>1, <2>3, <3>2
      <4>2. k \in Copied(q) BY <2>1, <4>1 DEF Copied
      <4>3. \/ k \in purged
            \/ \E d \in buckets : k \in KeysIn(d) /\ rank[d] > rank[c]
        BY <4>2 DEF Later, c
      <4>4. ASSUME NEW d \in buckets, k \in KeysIn(d), rank[d] > rank[c]
            PROVE  <<d, k>> \in objects' /\ rank[d] >= rank[b]
        BY <1>1, <2>1, <2>2, <4>1, <4>4 DEF KeysIn
      <4> QED BY <4>3, <4>4
    <3> QED BY <3>1, <3>2
  <2> QED BY <2>1, <2>3
<1> QED BY <1>2, <1>3

(* A rename that goes on keeps to the order of the buckets, and one that   *)
(* puts new buckets last.                                                  *)
LEMMA StaysLater ==
  ASSUME BucketsInv, [Next]_vars, NEW rank \in [Buckets -> Nat], Later(rank),
         NEW next \in [Buckets -> Nat],
         \A b \in Buckets : /\ rank[b] <= next[b]
                            /\ gen[b] > 0 => next[b] = rank[b],
         NEW p \in Reqs, Stays(p)
  PROVE  /\ next[req'[p].bucket] < next[req'[p].to]
         /\ \A k \in Copied(p)' :
              \/ k \in purged'
              \/ \E d \in buckets' :
                   k \in KeysIn(d)' /\ next[d] > next[req'[p].bucket]
<1> DEFINE c == req[p].bucket
           e == req[p].to
<1>1. /\ req[p].op = "rename" /\ req[p].pc \in {"list", "copy", "delete"}
      /\ req'[p].bucket = c /\ req'[p].to = e
  BY DEF Stays, Moving
<1>2. c \in Buckets /\ e \in Buckets
  BY <1>1, BusyType DEF BucketsInv, Requests
<1>3. gen[c] > 0 /\ gen[e] > 0 BY <1>1 DEF BucketsInv, Proper
<1>4. rank[c] < rank[e] BY <1>1 DEF Later
<1>5. buckets' \subseteq Buckets /\ objects' \subseteq buckets' \X Keys
  BY NextType DEF TypeOK
<1>6. ASSUME NEW k \in Copied(p)'
      PROVE  \/ k \in purged'
             \/ \E d \in buckets' : <<d, k>> \in objects' /\ rank[d] > rank[c]
  <2>1. CASE k \notin Copied(p)
    <3>1. <<e, k>> \in objects' BY <2>1 DEF Stays
    <3> QED BY <1>4, <1>5, <3>1
  <2>2. CASE k \in Copied(p)
    <3>1. \/ k \in purged
          \/ \E b \in buckets : k \in KeysIn(b) /\ rank[b] > rank[c]
      BY <2>2 DEF Later
    <3>2. CASE k \in purged BY <3>2, HoldersFollow
    <3>3. ASSUME NEW b \in buckets, k \in KeysIn(b), rank[b] > rank[c]
          PROVE  \/ k \in purged'
                 \/ \E d \in buckets' : <<d, k>> \in objects' /\ rank[d] > rank[c]
      <4>1. b \in Buckets BY DEF BucketsInv, TypeOK
      <4>2. \/ k \in purged'
            \/ \E d \in buckets' : <<d, k>> \in objects' /\ rank[d] >= rank[b]
        BY <3>3, HoldersFollow DEF KeysIn
      <4>3. ASSUME NEW d \in buckets', rank[d] >= rank[b] PROVE rank[d] > rank[c]
        BY <1>2, <1>5, <3>3, <4>1, <4>3
      <4> QED BY <4>2, <4>3
    <3> QED BY <3>1, <3>2, <3>3
  <2> QED BY <2>1, <2>2
<1> HIDE DEF c, e
<1>7. next[c] = rank[c] /\ next[e] = rank[e] BY <1>2, <1>3
<1>8. ASSUME NEW k \in Copied(p)', k \notin purged'
      PROVE  \E d \in buckets' : k \in KeysIn(d)' /\ next[d] > next[c]
  <2>1. PICK d \in buckets' : <<d, k>> \in objects' /\ rank[d] > rank[c]
    BY <1>6, <1>8
  <2>2. d \in Buckets BY <1>5
  <2>3. next[d] > next[c] BY <1>2, <1>7, <2>1, <2>2
  <2>4. k \in KeysIn(d)' BY <1>5, <2>1 DEF KeysIn
  <2> QED BY <2>3, <2>4
<1> QED BY <1>1, <1>4, <1>7, <1>8

(* If no name has been used again by now, none had been before. *)
LEMMA OnceBefore ==
  ASSUME BucketsInv, [Next]_vars, Once'
  PROVE  Once
BY GenGrows DEF Once

(* While no name is used again, the buckets keep such an order; it takes   *)
(* another rank only for a bucket with a name that has not been used.      *)
LEMMA NextLater ==
  ASSUME BucketsInv, [Next]_vars, Once', NEW n \in Nat, LaterWithin(n)
  PROVE  \/ UNCHANGED gen /\ LaterWithin(n)'
         \/ \E c \in Buckets : /\ gen[c] = 0
                               /\ gen' = [gen EXCEPT ![c] = @ + 1]
                               /\ LaterWithin(n + 1)'
<1>1. PICK rank \in [Buckets -> 0..n] : Later(rank)
  BY OnceBefore DEF LaterWithin
<1>2. rank \in [Buckets -> Nat] BY <1>1
<1>3. CASE buckets' \subseteq buckets /\ UNCHANGED gen
  <2>1. ASSUME NEW p \in Reqs
        PROVE  /\ Moving(p)' => rank[req'[p].bucket] < rank[req'[p].to]
               /\ \A k \in Copied(p)' :
                    \/ k \in purged'
                    \/ \E d \in buckets' :
                         k \in KeysIn(d)' /\ rank[d] > rank[req'[p].bucket]
    <3>1. ~ Comes(p) BY <1>3 DEF Comes, NewBucket
    <3>2. CASE Stays(p)
      <4>1. \A b \in Buckets : /\ rank[b] <= rank[b]
                               /\ gen[b] > 0 => rank[b] = rank[b]
        BY <1>2
      <4> QED BY <1>1, <1>2, <3>2, <4>1, StaysLater
    <3> QED BY <3>1, <3>2, RenameMoves
  <2>2. Later(rank)' BY <2>1 DEF Later, Moving
  <2>3. LaterWithin(n)' BY <1>1, <2>2 DEF LaterWithin
  <2> QED BY <1>3, <2>3
<1>4. ASSUME NEW c \in Buckets, c \notin buckets, NewBucket(c)
      PROVE  /\ gen[c] = 0 /\ gen' = [gen EXCEPT ![c] = @ + 1]
             /\ LaterWithin(n + 1)'
  <2> DEFINE next == [rank EXCEPT ![c] = n + 1]
  <2>1. next \in [Buckets -> 0..(n + 1)] BY <1>1
  <2>2. next \in [Buckets -> Nat] BY <1>1
  <2>3. gen[c] = 0
    <3>1. gen[c] \in Nat /\ gen'[c] = gen[c] + 1
      BY <1>4, Numbers DEF NewBucket, BucketsInv, TypeOK
    <3>2. gen'[c] <= 1 BY DEF Once
    <3> QED BY <3>1, <3>2
  <2>4. /\ next[c] = n + 1
        /\ \A b \in Buckets \ {c} : next[b] = rank[b]
    BY <1>1
  <2>5. \A b \in Buckets : /\ rank[b] <= next[b]
                           /\ gen[b] > 0 => next[b] = rank[b]
    BY <1>1, <2>3, <2>4
  <2> HIDE DEF next
  <2>6. ASSUME NEW p \in Reqs
        PROVE  /\ Moving(p)' => next[req'[p].bucket] < next[req'[p].to]
               /\ \A k \in Copied(p)' :
                    \/ k \in purged'
                    \/ \E d \in buckets' :
                         k \in KeysIn(d)' /\ next[d] > next[req'[p].bucket]
    <3>1. CASE Comes(p)
      <4>1. req[p].to = c BY <1>4, <3>1 DEF Comes, NewBucket
      <4>2. next[req[p].bucket] < n + 1
        BY <1>1, <2>4, <3>1, <4>1 DEF Comes
      <4> QED BY <2>4, <3>1, <4>1, <4>2 DEF Comes
    <3>2. CASE Stays(p) BY <1>1, <1>2, <2>2, <2>5, <3>2, StaysLater
    <3> QED BY <3>1, <3>2, RenameMoves
  <2>7. Later(next)' BY <2>6 DEF Later, Moving
  <2>8. LaterWithin(n + 1)' BY <2>1, <2>7 DEF LaterWithin
  <2> QED BY <1>4, <2>3, <2>8 DEF NewBucket
<1>5. ASSUME NEW p \in Reqs, CreateBucket(p) \/ RenameCreate(p)
      PROVE  req[p].bucket \in Buckets /\ req[p].to \in Buckets
  BY <1>5, BusyType DEF CreateBucket, RenameCreate, At, BucketsInv, Requests
<1> QED BY <1>3, <1>4, <1>5, BucketsMove

(* The inductive invariant behind ObjectsKept. *)
KeptInv ==
  /\ BucketsInv
  /\ ObjectsKept
  /\ \E n \in Nat : LaterWithin(n)

(* It holds initially, ... *)
LEMMA InitKept ==
  ASSUME Init
  PROVE  KeptInv
<1>1. BucketsInv BY InitBuckets
<1>2. ObjectsKept BY DEF Init, ObjectsKept
<1>3. [b \in Buckets |-> 0] \in [Buckets -> 0..0] OBVIOUS
<1>4. Later([b \in Buckets |-> 0]) BY DEF Init, Later, Copied, Idle
<1>5. LaterWithin(0) BY <1>3, <1>4 DEF LaterWithin
<1> QED BY <1>1, <1>2, <1>5 DEF KeptInv

(* ... and every step keeps it. *)
LEMMA NextKept ==
  ASSUME KeptInv, [Next]_vars
  PROVE  KeptInv'
<1>1. BucketsInv' BY NextBuckets DEF KeptInv
<1>2. PICK n \in Nat : LaterWithin(n) BY DEF KeptInv
<1>3. ObjectsKept'
  <2> SUFFICES ASSUME Once', NEW k \in uploaded', k \notin purged'
               PROVE  \E b \in buckets' : k \in KeysIn(b)'
    BY DEF ObjectsKept
  <2>1. k \in Keys BY <1>1 DEF BucketsInv, TypeOK
  <2>2. PICK rank \in [Buckets -> 0..n] : Later(rank)
    BY <1>2, OnceBefore DEF LaterWithin, KeptInv
  <2>3. rank \in [Buckets -> Nat] BY <2>2
  <2>4. CASE k \notin uploaded
    BY <2>1, <2>4, UploadsStored DEF KeptInv, KeysIn
  <2>5. CASE k \in uploaded
    <3>1. k \notin purged BY <2>2, <2>3, HoldersFollow DEF KeptInv
    <3>2. PICK b \in buckets : k \in KeysIn(b)
      BY <2>5, <3>1, OnceBefore DEF KeptInv, ObjectsKept
    <3>3. \E d \in buckets' : <<d, k>> \in objects'
      BY <2>1, <2>2, <2>3, <3>2, HoldersFollow DEF KeptInv, KeysIn
    <3> QED BY <2>1, <3>3 DEF KeysIn
  <2> QED BY <2>4, <2>5
<1>4. \E m \in Nat : LaterWithin(m)'
  <2>1. CASE Once'
    <3>1. LaterWithin(n)' \/ LaterWithin(n + 1)'
      BY <1>2, <2>1, NextLater DEF KeptInv
    <3> QED BY <3>1
  <2>2. CASE ~ Once' BY <1>2, <2>2 DEF LaterWithin
  <2> QED BY <2>1, <2>2
<1> QED BY <1>1, <1>3, <1>4 DEF KeptInv

(* No object is lost by a rename, whatever fails and whatever overlaps: it *)
(* is in some bucket until it is deleted with its bucket, as long as no    *)
(* name is used for a second bucket.                                       *)
THEOREM NothingDropped == Spec => []ObjectsKept
<1>1. Init => KeptInv BY InitKept
<1>2. KeptInv /\ [Next]_vars => KeptInv' BY NextKept
<1>3. KeptInv => ObjectsKept BY DEF KeptInv
<1> QED BY <1>1, <1>2, <1>3, PTL DEF Spec

(* The names that have been used. *)
Used == {b \in Buckets : gen[b] > 0}

(* A larger rank is never needed than a smaller one that will do. *)
LEMMA LaterMore ==
  ASSUME NEW m \in Nat, NEW n \in Nat, m <= n, LaterWithin(m)
  PROVE  LaterWithin(n)
<1> SUFFICES ASSUME Once PROVE \E rank \in [Buckets -> 0..n] : Later(rank)
  BY DEF LaterWithin
<1>1. PICK rank \in [Buckets -> 0..m] : Later(rank) BY DEF LaterWithin
<1>2. rank \in [Buckets -> 0..n] BY <1>1
<1> QED BY <1>1, <1>2

(* The renames are ordered within as many ranks as names have been used.   *)
RanksInv ==
  /\ BucketsInv
  /\ \E n \in Nat : n = Cardinality(Used) /\ LaterWithin(n)

(* They are initially, ... *)
LEMMA InitRanks ==
  ASSUME Init
  PROVE  RanksInv
<1>1. BucketsInv BY InitBuckets
<1>2. Cardinality(Used) = 0
  <2>1. Used = {} BY DEF Init, Used
  <2> QED BY <2>1, FS_EmptySet
<1>3. [b \in Buckets |-> 0] \in [Buckets -> 0..0] OBVIOUS
<1>4. Later([b \in Buckets |-> 0]) BY DEF Init, Later, Copied, Idle
<1>5. LaterWithin(0) BY <1>3, <1>4 DEF LaterWithin
<1> QED BY <1>1, <1>2, <1>5 DEF RanksInv

(* ... and every step keeps them so. *)
LEMMA NextRanks ==
  ASSUME IsFiniteSet(Buckets), RanksInv, [Next]_vars
  PROVE  RanksInv'
<1>1. BucketsInv' BY NextBuckets DEF RanksInv
<1>2. PICK n \in Nat : n = Cardinality(Used) /\ LaterWithin(n) BY DEF RanksInv
<1>3. IsFiniteSet(Used) BY FS_Subset DEF Used
<1>4. CASE UNCHANGED gen
  <2>1. Used' = Used BY <1>4 DEF Used
  <2>2. LaterWithin(n)'
    <3>1. CASE Once'
      <4>1. \A c \in Buckets : gen'[c] # gen[c] + 1
        BY <1>4, Numbers DEF RanksInv, BucketsInv, TypeOK
      <4> QED BY <1>2, <1>4, <3>1, <4>1, NextLater
              DEF RanksInv, BucketsInv, TypeOK
    <3>2. CASE ~ Once' BY <3>2 DEF LaterWithin
    <3> QED BY <3>1, <3>2
  <2> QED BY <1>1, <1>2, <2>1, <2>2 DEF RanksInv
<1>5. CASE gen' # gen /\ Once'
  <2>1. PICK c \in Buckets : /\ gen[c] = 0
                             /\ gen' = [gen EXCEPT ![c] = @ + 1]
                             /\ LaterWithin(n + 1)'
    BY <1>2, <1>5, NextLater DEF RanksInv
  <2>2. Used' = Used \cup {c} /\ c \notin Used
    BY <2>1 DEF Used, RanksInv, BucketsInv, TypeOK
  <2>3. Cardinality(Used') = n + 1
    BY <1>2, <1>3, <2>2, FS_AddElement
  <2> QED BY <1>1, <2>1, <2>3 DEF RanksInv
<1>6. CASE ~ Once'
  <2>1. Cardinality(Used') \in Nat
    <3>1. IsFiniteSet(Used') BY FS_Subset DEF Used
    <3> QED BY <3>1, FS_CardinalityType
  <2>2. \A m \in Nat : LaterWithin(m)' BY <1>6 DEF LaterWithin
  <2> QED BY <1>1, <2>1, <2>2 DEF RanksInv
<1> QED BY <1>4, <1>5, <1>6

(* With finitely many names, renames are ordered within as many ranks:     *)
(* what one of them is about to delete is always in a bucket further on.   *)
THEOREM OrderHolds ==
  ASSUME IsFiniteSet(Buckets)
  PROVE  Spec => []RenamesOrdered
<1>1. Init => RanksInv BY InitRanks
<1>2. RanksInv /\ [Next]_vars => RanksInv' BY NextRanks
<1>3. ASSUME RanksInv PROVE RenamesOrdered
  <2>1. PICK n \in Nat : n = Cardinality(Used) /\ LaterWithin(n)
    BY <1>3 DEF RanksInv
  <2>2. n <= Cardinality(Buckets) /\ Cardinality(Buckets) \in Nat
    BY <2>1, FS_Subset, FS_CardinalityType DEF Used
  <2> QED BY <2>1, <2>2, LaterMore DEF RenamesOrdered
<1>4. RanksInv => RenamesOrdered BY <1>3
<1> QED BY <1>1, <1>2, <1>4, PTL DEF Spec

----------------------------------------------------------------------------
(* What the trash record says.  The assumption PurgeUse is in force: no    *)
(* renames, one event at a time, no failure late in the purge.             *)

(* The handlers of the use assumed: no bucket is renamed, and with go-shares*)
(* none is deleted at once.                                                 *)
LEMMA HandlersUsed ==
  ASSUME PurgeUse, PurgeInv, NEW p \in Reqs, HandlerStep(p)
  PROVE  \/ PutCheck(p) \/ PutStore(p) \/ FolderCheck(p) \/ FolderStore(p)
         \/ CreateCheck(p) \/ CreateBucket(p) \/ CreateRegister(p) \/ CreateRule(p)
         \/ TrashCheck(p) \/ TrashRecord(p) \/ Abort(p)
<1>1. req[p].op # "rename" BY DEF PurgeInv, TrashRequest
<1>2. req[p].op = "trash" => req[p].pc \in {"check", "record"}
  BY DEF PurgeInv, PurgeUse, BucketsInv, Proper
<1>3. /\ ~ HardDeleteList(p) /\ ~ HardDeleteObjects(p) /\ ~ HardDeleteDrop(p)
  BY <1>2 DEF HardDeleteList, HardDeleteObjects, HardDeleteDrop, At
<1>4. /\ ~ RenameCheck(p) /\ ~ RenameCheckNew(p) /\ ~ RenameCreate(p)
      /\ ~ RenameList(p) /\ ~ RenameCopy(p) /\ ~ RenameDelete(p)
      /\ ~ RenameDrop(p)
  BY <1>1 DEF RenameCheck, RenameCheckNew, RenameCreate, RenameList,
              RenameCopy, RenameDelete, RenameDrop, At
<1> QED BY <1>3, <1>4 DEF HandlerStep

(* Which handlers touch buckets, trash records and shares, and how. *)
LEMMA RecordsMove ==
  ASSUME PurgeUse, PurgeInv, NEW p \in Reqs, HandlerStep(p)
  PROVE  /\ UNCHANGED <<shares, events, purge>>
         /\ \/ UNCHANGED <<buckets, gen, trashRec, condemned>>
            \/ \E b \in Buckets \ buckets : NewBucket(b) /\ UNCHANGED trashRec
            \/ \E b \in buckets :
                 /\ trashRec[b] = "none"
                 /\ trashRec' = [trashRec EXCEPT ![b] = "trash"]
                 /\ condemned' = condemned \cup {b}
                 /\ UNCHANGED <<buckets, gen>>
<1> USE DEF s3Vars, sharesVars, history
<1>1. CASE \/ PutCheck(p) \/ PutStore(p) \/ FolderCheck(p) \/ FolderStore(p)
           \/ CreateCheck(p) \/ CreateRegister(p) \/ CreateRule(p)
           \/ TrashCheck(p) \/ Abort(p)
  BY <1>1 DEF PutCheck, PutStore, FolderCheck, FolderStore, Store, CreateCheck,
              CreateRegister, CreateRule, TrashCheck, Abort
<1>2. CASE CreateBucket(p)
  <2>1. req[p].bucket \in Buckets
    BY <1>2, BusyType DEF CreateBucket, At, PurgeInv, BucketsInv, Requests
  <2> QED BY <1>2, <2>1 DEF CreateBucket
<1>3. CASE TrashRecord(p)
  <2>1. req[p].bucket \in buckets
    BY <1>3 DEF TrashRecord, At, PurgeInv, TrashRequest
  <2> QED BY <1>3, <2>1 DEF TrashRecord, TrashBucket
<1> QED BY <1>1, <1>2, <1>3, HandlersUsed

(* Requests: none is a rename, and none trashes a bucket past due.         *)
LEMMA NextTrashRequest ==
  ASSUME PurgeUse, PurgeInv, [Next]_vars, NEW q \in Reqs
  PROVE  TrashRequest(q)'
<1>1. TypeOK BY DEF PurgeInv, BucketsInv
<1>2. TrashRequest(q) BY DEF PurgeInv
<1>3. ASSUME req'[q] = req[q],
             req[q].op = "trash" =>
               /\ trashRec[req[q].bucket] # "due" => trashRec'[req[q].bucket] # "due"
               /\ req[q].bucket \in buckets => req[q].bucket \in buckets'
      PROVE  TrashRequest(q)'
  BY <1>2, <1>3 DEF TrashRequest
<1>4. req[q].op = "trash" => Busy(q) /\ req[q].bucket \in Buckets
  BY <1>1, BusyType DEF Busy, Requests, ReqLabels
<1>5. CASE UNCHANGED vars BY <1>3, <1>5 DEF vars
<1>6. CASE Client
  <2>1. ASSUME NEW b \in Buckets, RestoreBucketHandler(b)
        PROVE  /\ UNCHANGED <<buckets, req>>
               /\ \A c \in Buckets : trashRec[c] # "due" => trashRec'[c] # "due"
    BY <1>1, <2>1 DEF RestoreBucketHandler, RestoreBucket, s3Vars, TypeOK
  <2>2. CASE UNCHANGED <<req, trashRec>>
    BY <1>3, <1>6, <2>2, ClientMoves DEF PurgeInv, s3Vars
  <2>3. ASSUME NEW p \in Reqs, NEW op \in Ops, NEW b \in Buckets,
               NEW to \in Buckets, NEW keys \in SUBSET Keys,
               UNCHANGED <<trashRec, buckets>>,
               req'[p] = NewRequest(op, b, to, keys),
               \A r \in Reqs \ {p} : req'[r] = req[r],
               op # "rename", op = "trash" => trashRec[b] = "none"
        PROVE  TrashRequest(q)'
    <3>1. CASE q = p BY <2>3, <3>1 DEF TrashRequest, NewRequest
    <3> QED BY <1>3, <2>3, <3>1
  <2>4. \/ \E b \in Buckets : RestoreBucketHandler(b)
        \/ UNCHANGED <<req, trashRec>>
        \/ ~ UNCHANGED req
    BY <1>6 DEF Client, HandleCreateShare, HandleDeleteShare, BeginPut,
       BeginFolder, BeginCreate, BeginTrash, BeginRename, Begin, sharesVars
  <2>5. CASE ~ UNCHANGED req
    <3>1. UNCHANGED <<trashRec, buckets>>
      BY <1>6, <2>5, ClientMoves DEF PurgeInv, s3Vars
    <3>2. PICK p \in Reqs, op \in Ops, b \in Buckets, to \in Buckets,
               keys \in SUBSET Keys :
            /\ req'[p] = NewRequest(op, b, to, keys)
            /\ \A r \in Reqs \ {p} : req'[r] = req[r]
            /\ op = "rename" => "rename" \in Uses
            /\ op = "trash" /\ "trashAgain" \notin Uses => trashRec[b] = "none"
      BY <1>6, <2>5, ClientMoves DEF PurgeInv
    <3> QED BY <2>3, <3>1, <3>2 DEF PurgeUse
  <2> QED BY <1>3, <1>4, <2>1, <2>2, <2>4, <2>5
<1>7. ASSUME NEW b \in Buckets, MarkDue(b) PROVE TrashRequest(q)'
  BY <1>1, <1>3, <1>4, <1>7 DEF MarkDue, s3Vars, TypeOK
<1>8. CASE \/ \E b \in Buckets : PublishPurge(b) \/ PurgeReceive(b)
           \/ PurgeList \/ PurgeObjects \/ PurgeShares \/ PurgeAbort
  BY <1>3, <1>8 DEF PublishPurge, PurgeReceive, PurgeList, PurgeObjects,
     PurgeShares, PurgeAbort, s3Vars, sharesVars
<1>9. CASE PurgeBucket
  <2>1. purge # Idle /\ purge.bucket \in Buckets
    BY <1>1, <1>9 DEF PurgeBucket, PurgeAt, Idle, TypeOK, Purges
  <2>2. trashRec[purge.bucket] = "due" BY <2>1 DEF PurgeInv
  <2>3. req[q].op = "trash" => req[q].bucket # purge.bucket
    BY <1>2, <2>2 DEF TrashRequest
  <2> QED BY <1>3, <1>9, <2>3 DEF PurgeBucket, DropBucket, sharesVars
<1>10. CASE PurgeRecord
  <2>1. trashRec' = [trashRec EXCEPT ![purge.bucket] = "none"]
    BY <1>10 DEF PurgeRecord, Fault, PurgeUse, PurgeBucketRecord
  <2> QED BY <1>1, <1>3, <1>4, <1>10, <2>1 DEF PurgeRecord, s3Vars, TypeOK
<1>11. ASSUME NEW p \in Reqs, HandlerStep(p) PROVE TrashRequest(q)'
  <2>1. /\ buckets \subseteq buckets'
        /\ \A b \in Buckets : trashRec[b] # "due" => trashRec'[b] # "due"
    BY <1>1, <1>11, RecordsMove DEF NewBucket, TypeOK
  <2>2. CASE q # p BY <1>1, <1>3, <1>4, <1>11, <2>1, <2>2, OneMoves
  <2>3. CASE q = p
    <3>1. ASSUME Finish(p) PROVE TrashRequest(q)'
      BY <1>1, <2>3, <3>1, FinishType DEF TrashRequest, Idle
    <3>2. ASSUME NEW pc \in ReqLabels, Goto(p, pc), req[p].op # "none",
                 req[p].op = "trash" /\ pc = "record" => req[p].bucket \in buckets
          PROVE  TrashRequest(q)'
      <4>1. req[p] \in Requests /\ req'[p] = [req[p] EXCEPT !.pc = pc]
        BY <1>1, <3>2, BusyType, GotoType
      <4>2. /\ req'[p].op = req[p].op /\ req'[p].pc = pc
            /\ req'[p].bucket = req[p].bucket
        BY <4>1 DEF Requests
      <4> QED BY <1>2, <1>4, <2>1, <2>3, <3>2, <4>2 DEF TrashRequest
    <3>3. CASE \/ PutCheck(p) \/ PutStore(p) \/ FolderCheck(p) \/ FolderStore(p)
               \/ CreateCheck(p) \/ CreateBucket(p) \/ CreateRegister(p)
               \/ CreateRule(p) \/ Abort(p)
      BY <3>1, <3>2, <3>3 DEF PutCheck, PutStore, FolderCheck, FolderStore,
         Store, CreateCheck, CreateBucket, CreateRegister, CreateRule, Abort, At,
         ReqLabels
    <3>4. CASE TrashCheck(p) \/ TrashRecord(p)
      BY <3>1, <3>2, <3>4 DEF TrashCheck, TrashRecord, At, PurgeUse, ReqLabels
    <3> QED BY <1>11, <3>3, <3>4, HandlersUsed
  <2> QED BY <2>2, <2>3
<1> QED BY <1>5, <1>6, <1>7, <1>8, <1>9, <1>10, <1>11 DEF Next, Consume

(* What PurgeInv says of the record, the events and the purge of bucket b, *)
RecordOf(b) ==
  /\ trashRec[b] # "none" => b \in buckets \cap condemned \/ Dropped(b)
  /\ events[b] > 0 => trashRec[b] = "due"
  /\ purge # Idle /\ purge.bucket = b => trashRec[b] = "due" /\ events[b] = 0

(* ... and of the share s.                                                 *)
Current(s) ==
  \/ ~ SharesUse
  \/ s[3] = 0
  \/ s[1] \in buckets /\ s[3] = gen[s[1]]
  \/ purge.pc = "shares" /\ purge.bucket = s[1]

(* The records, events and shares at the steps of clients. *)
LEMMA ClientRecords ==
  ASSUME PurgeUse, PurgeInv, Client
  PROVE  (\A b \in Buckets : RecordOf(b)') /\ (\A s \in shares' : Current(s)')
<1>1. TypeOK BY DEF PurgeInv, BucketsInv
<1>2. /\ UNCHANGED <<buckets, gen, events, purge>>
      /\ UNCHANGED req \/ UNCHANGED <<trashRec, shares, condemned>>
  BY ClientMoves DEF PurgeInv, s3Vars
<1>3. /\ \A b \in Buckets : RecordOf(b)
      /\ \A s \in shares : Current(s)
  BY DEF PurgeInv, RecordOf, Current
<1>4. CASE UNCHANGED <<trashRec, shares, condemned>>
  BY <1>2, <1>3, <1>4 DEF RecordOf, Dropped, Current
<1>5. ASSUME NEW c \in Buckets, RestoreBucketHandler(c)
      PROVE  (\A b \in Buckets : RecordOf(b)') /\ (\A s \in shares' : Current(s)')
  <2>1. /\ trashRec[c] = "trash"
        /\ trashRec' = [trashRec EXCEPT ![c] = "none"]
        /\ condemned' = condemned \ {c} /\ UNCHANGED shares
    BY <1>5 DEF RestoreBucketHandler, RestoreBucket, PurgeUse
  <2>2. \A s \in shares' : Current(s)' BY <1>2, <1>3, <2>1 DEF Current
  <2>3. ASSUME NEW b \in Buckets PROVE RecordOf(b)'
    <3>1. CASE b = c
      BY <1>1, <1>2, <1>3, <2>1, <3>1 DEF RecordOf, TypeOK
    <3>2. CASE b # c
      BY <1>1, <1>2, <1>3, <2>1, <3>2 DEF RecordOf, Dropped, TypeOK
    <3> QED BY <3>1, <3>2
  <2> QED BY <2>2, <2>3
<1>6. ASSUME NEW c \in Buckets, NEW u \in Users,
             HandleCreateShare(c, u) \/ HandleDeleteShare(c, u)
      PROVE  (\A b \in Buckets : RecordOf(b)') /\ (\A s \in shares' : Current(s)')
  <2>1. UNCHANGED <<trashRec, condemned>>
    BY <1>6 DEF HandleCreateShare, HandleDeleteShare, history
  <2>2. \A b \in Buckets : RecordOf(b)'
    BY <1>2, <1>3, <2>1 DEF RecordOf, Dropped
  <2>3. \/ shares' \subseteq shares
        \/ c \in buckets /\ shares' = shares \cup {<<c, u, gen[c]>>}
        \/ shares' = shares \cup {<<c, u, 0>>}
    BY <1>6 DEF HandleCreateShare, CreateShare, SharedGen, HandleDeleteShare,
                DeleteShare
  <2>4. \A s \in shares' : Current(s)' BY <1>2, <1>3, <2>3 DEF Current
  <2> QED BY <2>2, <2>4
<1>7. \/ UNCHANGED <<trashRec, shares, condemned>>
      \/ \E c \in Buckets : RestoreBucketHandler(c)
      \/ \E c \in Buckets, u \in Users :
           HandleCreateShare(c, u) \/ HandleDeleteShare(c, u)
  BY DEF Client, BeginPut, BeginFolder, BeginCreate, BeginTrash, BeginRename,
         Begin, sharesVars, history
<1> QED BY <1>4, <1>5, <1>6, <1>7

(* The records, events and shares at the steps of handlers. *)
LEMMA HandlerRecords ==
  ASSUME PurgeUse, PurgeInv, NEW p \in Reqs, HandlerStep(p)
  PROVE  (\A b \in Buckets : RecordOf(b)') /\ (\A s \in shares' : Current(s)')
<1>1. TypeOK BY DEF PurgeInv, BucketsInv
<1>2. UNCHANGED <<shares, events, purge>> BY RecordsMove
<1>3. /\ \A b \in Buckets : RecordOf(b)
      /\ \A s \in shares : Current(s)
  BY DEF PurgeInv, RecordOf, Current
<1>4. CASE UNCHANGED <<buckets, gen, trashRec, condemned>>
  BY <1>2, <1>3, <1>4 DEF RecordOf, Dropped, Current
<1>5. ASSUME NEW c \in Buckets \ buckets, NewBucket(c), UNCHANGED trashRec
      PROVE  (\A b \in Buckets : RecordOf(b)') /\ (\A s \in shares' : Current(s)')
  <2>1. \A b \in Buckets : RecordOf(b)'
    BY <1>2, <1>3, <1>5 DEF RecordOf, Dropped, NewBucket
  <2>2. \A b \in buckets : b \in buckets' /\ gen'[b] = gen[b]
    BY <1>1, <1>5 DEF NewBucket, TypeOK
  <2>3. \A s \in shares' : Current(s)' BY <1>2, <1>3, <2>2 DEF Current
  <2> QED BY <2>1, <2>3
<1>6. ASSUME NEW c \in buckets, trashRec[c] = "none",
             trashRec' = [trashRec EXCEPT ![c] = "trash"],
             condemned' = condemned \cup {c}, UNCHANGED <<buckets, gen>>
      PROVE  (\A b \in Buckets : RecordOf(b)') /\ (\A s \in shares' : Current(s)')
  <2>1. \A s \in shares' : Current(s)' BY <1>2, <1>3, <1>6 DEF Current
  <2>2. ASSUME NEW b \in Buckets PROVE RecordOf(b)'
    <3>1. CASE b = c
      BY <1>1, <1>2, <1>3, <1>6, <3>1 DEF RecordOf, TypeOK
    <3>2. CASE b # c
      BY <1>1, <1>2, <1>3, <1>6, <3>2 DEF RecordOf, Dropped, TypeOK
    <3> QED BY <3>1, <3>2
  <2> QED BY <2>1, <2>2
<1> QED BY <1>4, <1>5, <1>6, RecordsMove

(* The records, events and shares at the steps of the purge. *)
LEMMA PurgeRecords ==
  ASSUME PurgeUse, PurgeInv,
         \/ \E b \in Buckets : MarkDue(b) \/ PublishPurge(b)
         \/ Consume \/ PurgeAbort
  PROVE  (\A b \in Buckets : RecordOf(b)') /\ (\A s \in shares' : Current(s)')
<1> DEFINE Goal ==
      (\A b \in Buckets : RecordOf(b)') /\ (\A s \in shares' : Current(s)')
<1> USE DEF s3Vars, sharesVars, history
<1>1. TypeOK BY DEF PurgeInv, BucketsInv
<1>2. /\ \A b \in Buckets : RecordOf(b)
      /\ \A s \in shares : Current(s)
  BY DEF PurgeInv, RecordOf, Current
<1>3. UNCHANGED <<gen, condemned>> BY PurgeFrame
<1>4. ASSUME NEW c \in Buckets, MarkDue(c) PROVE Goal
  <2>1. /\ trashRec[c] = "trash"
        /\ trashRec' = [trashRec EXCEPT ![c] = "due"]
        /\ UNCHANGED <<buckets, shares, events, purge>>
    BY <1>4 DEF MarkDue
  <2>2. \A s \in shares' : Current(s)' BY <1>2, <1>3, <2>1 DEF Current
  <2>3. ASSUME NEW b \in Buckets PROVE RecordOf(b)'
    <3>1. CASE b = c
      BY <1>1, <1>2, <1>3, <2>1, <3>1 DEF RecordOf, Dropped, TypeOK
    <3>2. CASE b # c
      BY <1>1, <1>2, <1>3, <2>1, <3>2 DEF RecordOf, Dropped, TypeOK
    <3> QED BY <3>1, <3>2
  <2> QED BY <2>2, <2>3
<1>5. ASSUME NEW c \in Buckets, PublishPurge(c) PROVE Goal
  <2>1. /\ trashRec[c] = "due"
        /\ purge # Idle => purge.bucket # c
        /\ events' = [events EXCEPT ![c] = @ + 1]
        /\ UNCHANGED <<buckets, shares, trashRec, purge>>
    BY <1>5 DEF PublishPurge, PurgeUse
  <2>2. \A s \in shares' : Current(s)' BY <1>2, <1>3, <2>1 DEF Current
  <2>3. ASSUME NEW b \in Buckets PROVE RecordOf(b)'
    <3>1. CASE b = c BY <1>2, <1>3, <2>1, <3>1 DEF RecordOf, Dropped
    <3>2. CASE b # c
      BY <1>1, <1>2, <1>3, <2>1, <3>2 DEF RecordOf, Dropped, TypeOK
    <3> QED BY <3>1, <3>2
  <2> QED BY <2>2, <2>3
<1>6. ASSUME NEW c \in Buckets, PurgeReceive(c) PROVE Goal
  <2>1. /\ purge = Idle /\ events[c] > 0
        /\ events' = [events EXCEPT ![c] = @ - 1]
        /\ purge' = [op |-> "purge", pc |-> "list", bucket |-> c, keys |-> {}]
        /\ UNCHANGED <<buckets, shares, trashRec>>
    BY <1>6 DEF PurgeReceive
  <2>2. events[c] = 1 /\ events'[c] = 0
    BY <1>1, <2>1 DEF TypeOK, PurgeUse
  <2>3. trashRec[c] = "due" BY <1>2, <2>1 DEF RecordOf
  <2>4. \A s \in shares' : Current(s)' BY <1>2, <1>3, <2>1 DEF Current, Idle
  <2>5. ASSUME NEW b \in Buckets PROVE RecordOf(b)'
    <3>1. trashRec[b] # "none" => b \in buckets \cap condemned
      BY <1>2, <2>1 DEF RecordOf, Dropped, Idle
    <3>2. CASE b = c
      BY <1>3, <2>1, <2>2, <2>3, <3>1, <3>2 DEF RecordOf
    <3>3. CASE b # c
      BY <1>1, <1>2, <1>3, <2>1, <3>1, <3>3 DEF RecordOf, TypeOK
    <3> QED BY <3>2, <3>3
  <2> QED BY <2>4, <2>5
<1>7. ASSUME NEW pc \in PurgeLabels, PurgeAt(pc)
      PROVE  /\ purge \in Purges /\ purge # Idle /\ purge.bucket \in Buckets
             /\ trashRec[purge.bucket] = "due" /\ events[purge.bucket] = 0
  <2>1. purge \in Purges /\ purge # Idle /\ purge.bucket \in Buckets
    BY <1>1, <1>7 DEF PurgeAt, PurgeLabels, Idle, TypeOK, Purges
  <2> QED BY <1>2, <2>1 DEF RecordOf
<1>8. ASSUME purge.pc \in {"list", "objects", "bucket"},
             UNCHANGED <<buckets, shares, trashRec, events>>,
             \/ purge' = Idle
             \/ purge' # Idle /\ purge'.bucket = purge.bucket
      PROVE  Goal
  <2>1. purge # Idle BY <1>8 DEF Idle
  <2>2. \A s \in shares : SharesUse =>
        s[3] = 0 \/ (s[1] \in buckets /\ s[3] = gen[s[1]])
    BY <1>2, <1>8 DEF Current
  <2>3. \A b \in Buckets : trashRec[b] # "none" => b \in buckets \cap condemned
    BY <1>2, <1>8 DEF RecordOf, Dropped
  <2>4. \A s \in shares' : Current(s)' BY <1>3, <1>8, <2>2 DEF Current
  <2>5. \A b \in Buckets : RecordOf(b)'
    BY <1>2, <1>3, <1>8, <2>1, <2>3 DEF RecordOf
  <2> QED BY <2>4, <2>5
<1>9. CASE PurgeList
  <2>1. purge \in Purges BY <1>7, <1>9 DEF PurgeList, PurgeLabels
  <2>2. purge' # Idle /\ purge'.bucket = purge.bucket
    BY <1>9, <2>1 DEF PurgeList, Purges, PurgeLabels, Idle
  <2> QED BY <1>8, <1>9, <2>2 DEF PurgeList, PurgeAt
<1>10. CASE PurgeObjects
  <2>1. purge \in Purges BY <1>7, <1>10 DEF PurgeObjects, PurgeLabels
  <2>2. purge' = Idle \/ (purge' # Idle /\ purge'.bucket = purge.bucket)
    BY <1>10, <2>1 DEF PurgeObjects, PurgeGoto, PurgeEnd, Purges, PurgeLabels, Idle
  <2> QED BY <1>8, <1>10, <2>2 DEF PurgeObjects, PurgeAt
<1>11. CASE PurgeBucket
  <2> DEFINE c == purge.bucket
  <2>1. /\ purge \in Purges /\ purge # Idle /\ c \in Buckets
        /\ trashRec[c] = "due" /\ events[c] = 0
    BY <1>7, <1>11 DEF PurgeBucket, PurgeLabels
  <2>2. CASE c \in buckets /\ ~ CanDropBucket(c)
    BY <1>8, <1>11, <2>2 DEF PurgeBucket, PurgeAt, PurgeEnd
  <2>3. CASE ~ (c \in buckets /\ ~ CanDropBucket(c))
    <3>1. /\ purge.pc = "bucket" /\ purge' = [purge EXCEPT !.pc = "shares"]
          /\ buckets' = buckets \ {c}
          /\ UNCHANGED <<trashRec, shares, events>>
      BY <1>11, <2>3 DEF PurgeBucket, PurgeAt, PurgeGoto, DropBucket
    <3>2. purge'.pc = "shares" /\ purge'.bucket = c /\ purge' # Idle
      BY <2>1, <3>1 DEF Purges, Idle
    <3>3. \A s \in shares : SharesUse =>
        s[3] = 0 \/ (s[1] \in buckets /\ s[3] = gen[s[1]])
      BY <1>2, <3>1 DEF Current
    <3>4. \A b \in Buckets : trashRec[b] # "none" => b \in buckets \cap condemned
      BY <1>2, <3>1 DEF RecordOf, Dropped
    <3>5. \A s \in shares' : Current(s)'
      BY <1>3, <3>1, <3>2, <3>3 DEF Current
    <3>6. \A b \in Buckets : RecordOf(b)'
      BY <1>2, <1>3, <2>1, <3>1, <3>2, <3>4 DEF RecordOf, Dropped
    <3> QED BY <3>5, <3>6
  <2> QED BY <2>2, <2>3
<1>12. CASE PurgeShares
  <2> DEFINE c == purge.bucket
  <2>1. /\ purge \in Purges /\ purge # Idle /\ c \in Buckets
        /\ trashRec[c] = "due" /\ events[c] = 0
    BY <1>7, <1>12 DEF PurgeShares, PurgeLabels
  <2>2. /\ purge.pc = "shares" /\ purge' = [purge EXCEPT !.pc = "record"]
        /\ shares' \subseteq shares
        /\ SharesUse => shares' = {s \in shares : s[1] # c}
        /\ UNCHANGED <<buckets, trashRec, events>>
    BY <1>12 DEF PurgeShares, PurgeAt, PurgeGoto, Fault, SharesUse,
                 DeleteSharesForBucket
  <2>3. purge'.pc = "record" /\ purge'.bucket = c /\ purge' # Idle
    BY <2>1, <2>2 DEF Purges, Idle
  <2>4. \A s \in shares' : Current(s)' BY <1>2, <1>3, <2>2 DEF Current
  <2>5. \A b \in Buckets : RecordOf(b)'
    BY <1>2, <1>3, <2>1, <2>2, <2>3 DEF RecordOf, Dropped
  <2> QED BY <2>4, <2>5
<1>13. CASE PurgeRecord
  <2> DEFINE c == purge.bucket
  <2>1. /\ purge \in Purges /\ purge # Idle /\ c \in Buckets
        /\ trashRec[c] = "due" /\ events[c] = 0
    BY <1>7, <1>13 DEF PurgeRecord, PurgeLabels
  <2>2. /\ purge.pc = "record" /\ purge' = Idle
        /\ trashRec' = [trashRec EXCEPT ![c] = "none"]
        /\ UNCHANGED <<buckets, shares, events>>
    BY <1>13 DEF PurgeRecord, PurgeAt, PurgeEnd, Fault, PurgeUse,
                 PurgeBucketRecord
  <2>3. \A s \in shares' : Current(s)' BY <1>2, <1>3, <2>2 DEF Current
  <2>4. ASSUME NEW b \in Buckets PROVE RecordOf(b)'
    <3>1. CASE b = c
      BY <1>1, <1>2, <1>3, <2>1, <2>2, <3>1 DEF RecordOf, TypeOK
    <3>2. CASE b # c
      BY <1>1, <1>2, <1>3, <2>2, <3>2 DEF RecordOf, Dropped, TypeOK
    <3> QED BY <3>1, <3>2
  <2> QED BY <2>3, <2>4
<1>14. CASE PurgeAbort
  BY <1>8, <1>14 DEF PurgeAbort, PurgeEnd, Fault, PurgeUse
<1> QED BY <1>4, <1>5, <1>6, <1>9, <1>10, <1>11, <1>12, <1>13, <1>14 DEF Consume

(* Every step keeps the invariant of trash records and shares, ... *)
LEMMA NextPurge ==
  ASSUME PurgeUse, PurgeInv, [Next]_vars
  PROVE  PurgeInv'
<1>1. BucketsInv' BY NextBuckets DEF PurgeInv
<1>2. \A q \in Reqs : TrashRequest(q)' BY NextTrashRequest
<1>3. (\A b \in Buckets : RecordOf(b)') /\ (\A s \in shares' : Current(s)')
  <2>1. CASE UNCHANGED vars
    BY <2>1 DEF vars, PurgeInv, RecordOf, Dropped, Current
  <2> QED BY <2>1, ClientRecords, HandlerRecords, PurgeRecords DEF Next
<1> QED BY <1>1, <1>2, <1>3 DEF PurgeInv, RecordOf, Current

(* ... which holds initially. *)
LEMMA InitPurge ==
  ASSUME Init
  PROVE  PurgeInv
<1>1. BucketsInv BY InitBuckets
<1>2. \A p \in Reqs : TrashRequest(p) BY DEF Init, TrashRequest, Idle
<1> QED BY <1>1, <1>2 DEF Init, PurgeInv, Dropped, Idle

(* When the records can be relied on, a record is that of the bucket there *)
(* is, its owner's; purges and their events are of buckets past due; shares*)
(* are of the present bucket, about to be deleted, or were made for a name *)
(* that no bucket had.                                                     *)
THEOREM PurgeInvariant == ASSUME PurgeUse PROVE Spec => []PurgeInv
<1>1. Init => PurgeInv BY InitPurge
<1>2. PurgeInv /\ [Next]_vars => PurgeInv' BY NextPurge
<1> QED BY <1>1, <1>2, PTL DEF Spec

(* When shares do not stay behind either, nobody has access to a new bucket*)
(* because an earlier one of its name had been shared with them: a share   *)
(* that was made for a bucket is never in force for a later one.  (A share *)
(* of a name that no bucket had is, as nobody checks that there is one.)   *)
THEOREM SharesEnd == ASSUME SharesUse PROVE Spec => []NoInheritedShares
<1>1. PurgeUse BY DEF SharesUse
<1>2. PurgeInv => NoInheritedShares
  BY DEF PurgeInv, NoInheritedShares, Idle
<1> QED BY <1>1, <1>2, PurgeInvariant, PTL

(* Under that use, a trash record never hides a bucket but the one that its*)
(* owner trashed.                                                          *)
THEOREM RecordsEnd == ASSUME PurgeUse PROVE Spec => []TrashMeansTrashed
<1>1. PurgeInv => TrashMeansTrashed
  BY DEF PurgeInv, TrashMeansTrashed, BucketsInv, TypeOK, Dropped, Idle
<1> QED BY <1>1, PurgeInvariant, PTL

(* Under that use, the purge deletes objects only of a bucket that its     *)
(* owner trashed and did not take back.                                    *)
THEOREM OnlyTrashPurged == ASSUME PurgeUse PROVE Spec => PurgeSpares
<1>1. ASSUME PurgeInv, [Next]_vars, HasShares, purged' # purged
      PROVE  purge.bucket \in condemned
  <2>1. ~ (UNCHANGED vars) BY <1>1 DEF vars
  <2>2. ~ Client BY <1>1, ClientMoves DEF PurgeInv
  <2>3. ASSUME NEW p \in Reqs PROVE ~ HandlerStep(p)
    BY <1>1, HandlersUsed DEF PutCheck, PutStore, FolderCheck, FolderStore,
       Store, CreateCheck, CreateBucket, CreateRegister, CreateRule, TrashCheck,
       TrashRecord, Abort, history
  <2>4. PurgeObjects
    BY <1>1, <2>1, <2>2, <2>3 DEF Next, MarkDue, PublishPurge, Consume,
       PurgeReceive, PurgeList, PurgeBucket, PurgeShares, PurgeRecord,
       PurgeAbort, history
  <2>5. purge.pc = "objects" /\ purge # Idle /\ purge.bucket \in Buckets
    BY <1>1, <2>4 DEF PurgeObjects, PurgeAt, PurgeInv, BucketsInv, TypeOK,
       Purges, Idle
  <2> QED BY <1>1, <2>5 DEF PurgeInv, Dropped
<1>2. PurgeInv /\ [Next]_vars
        => [HasShares /\ purged' # purged => purge.bucket \in condemned]_vars
  BY <1>1
<1> QED BY <1>2, PurgeInvariant, PTL DEF Spec, PurgeSpares

----------------------------------------------------------------------------
(* BucketLifecycle implements BucketCustody, under PurgeUse. *)

(* A step that concerns no bucket is invisible. *)
LEMMA QuietCustody ==
  ASSUME \A b \in Buckets : Life(b)' = Life(b), UNCHANGED objects
  PROVE  UNCHANGED Custody!custody
BY DEF Custody!custody, KeysIn

(* A step that takes one bucket from one state to another, and leaves what *)
(* is stored alone, does just that to the abstract state.                  *)
LEMMA LifeCustody ==
  ASSUME NEW c \in Buckets, NEW from, NEW to, Life(c) = from, Life(c)' = to,
         \A b \in Buckets \ {c} : Life(b)' = Life(b), UNCHANGED objects
  PROVE  /\ Custody!Become(c, from, to)
         /\ UNCHANGED [b \in Buckets |-> KeysIn(b)]
<1>1. [b \in Buckets |-> Life(b)'] = [[b \in Buckets |-> Life(b)] EXCEPT ![c] = to]
  OBVIOUS
<1> QED BY <1>1 DEF Custody!Become, KeysIn

(* A step that changes what is stored in one bucket only. *)
LEMMA ContentCustody ==
  ASSUME NEW c \in Buckets, NEW keys \in SUBSET Keys, Life(c) # "absent",
         \A b \in Buckets : Life(b)' = Life(b),
         \/ objects' = objects \cup ({c} \X keys)
         \/ objects' = objects \ ({c} \X keys) /\ Life(c) = "due"
  PROVE  Custody!Next
<1> DEFINE content == [b \in Buckets |-> KeysIn(b)]
<1>1. UNCHANGED [b \in Buckets |-> Life(b)] OBVIOUS
<1>2. CASE objects' = objects \cup ({c} \X keys)
  <2>1. [b \in Buckets |-> KeysIn(b)'] = [content EXCEPT ![c] = @ \cup keys]
    BY <1>2 DEF KeysIn
  <2> QED BY <1>1, <2>1 DEF Custody!Next, Custody!Store
<1>3. CASE objects' = objects \ ({c} \X keys) /\ Life(c) = "due"
  <2>1. [b \in Buckets |-> KeysIn(b)'] = [content EXCEPT ![c] = @ \ keys]
    BY <1>3 DEF KeysIn
  <2> QED BY <1>1, <1>3, <2>1 DEF Custody!Next, Custody!Purge
<1> QED BY <1>2, <1>3

(* Where a bucket that is in the trash or past due is in its life. *)
LEMMA LifeOf ==
  ASSUME PurgeInv, NEW b \in Buckets
  PROVE  /\ Life(b) = "absent" <=> b \notin buckets
         /\ trashRec[b] = "trash" => Life(b) = "trash"
         /\ trashRec[b] = "none" /\ b \in buckets => Life(b) = "live"
         /\ trashRec[b] = "due" /\ ~ Dropped(b) => Life(b) = "due"
         /\ trashRec[b] = "trash" => ~ Dropped(b)
<1>1. trashRec[b] \in {"none", "trash", "due"}
  BY DEF PurgeInv, BucketsInv, TypeOK
<1>2. Dropped(b) => trashRec[b] = "due" BY DEF PurgeInv, Dropped, Idle
<1>3. trashRec[b] # "none" => b \in buckets \/ Dropped(b) BY DEF PurgeInv
<1> QED BY <1>1, <1>2, <1>3 DEF Life

(* Clients restore buckets from the trash, and begin requests. *)
LEMMA ClientCustody ==
  ASSUME PurgeUse, PurgeInv, Client
  PROVE  [Custody!Next]_(Custody!custody)
<1>1. TypeOK BY DEF PurgeInv, BucketsInv
<1>2. UNCHANGED <<buckets, objects, purge>> BY ClientMoves DEF PurgeInv, s3Vars
<1>3. CASE UNCHANGED trashRec
  BY <1>2, <1>3, QuietCustody DEF Life, Dropped
<1>4. ASSUME NEW c \in Buckets, RestoreBucketHandler(c) PROVE Custody!Next
  <2>1. trashRec[c] = "trash" /\ trashRec' = [trashRec EXCEPT ![c] = "none"]
    BY <1>4 DEF RestoreBucketHandler, RestoreBucket, PurgeUse
  <2>2. Life(c) = "trash" /\ c \in buckets /\ ~ Dropped(c)
    BY <2>1, LifeOf
  <2>3. Life(c)' = "live" BY <1>1, <1>2, <2>1, <2>2 DEF Life, TypeOK
  <2>4. \A b \in Buckets \ {c} : Life(b)' = Life(b)
    BY <1>1, <1>2, <2>1 DEF Life, Dropped, TypeOK
  <2>5. Custody!Restore(c)
    BY <1>2, <2>2, <2>3, <2>4, LifeCustody DEF Custody!Restore
  <2> QED BY <2>5 DEF Custody!Next
<1>5. \/ UNCHANGED trashRec
      \/ \E c \in Buckets : RestoreBucketHandler(c)
  BY DEF Client, BeginPut, BeginFolder, BeginCreate, BeginTrash, BeginRename,
         Begin, HandleCreateShare, HandleDeleteShare, sharesVars
<1> QED BY <1>3, <1>4, <1>5

(* Handlers create buckets, store objects in them and trash them. *)
LEMMA HandlerCustody ==
  ASSUME PurgeUse, PurgeInv, NEW p \in Reqs, HandlerStep(p)
  PROVE  [Custody!Next]_(Custody!custody)
<1>1. TypeOK BY DEF PurgeInv, BucketsInv
<1>2. UNCHANGED purge BY RecordsMove
<1>3. CASE PutStore(p) \/ FolderStore(p)
  <2> DEFINE c == req[p].bucket
  <2>1. c \in Buckets /\ req[p].keys \in SUBSET Keys
    BY <1>1, <1>3, BusyType DEF PutStore, FolderStore, At, Requests
  <2>2. /\ UNCHANGED <<buckets, trashRec>>
        /\ \/ UNCHANGED objects
           \/ c \in buckets /\ objects' = objects \cup ({c} \X req[p].keys)
    BY <1>3 DEF PutStore, FolderStore, Store, sharesVars
  <2>3. \A b \in Buckets : Life(b)' = Life(b)
    BY <1>2, <2>2 DEF Life, Dropped
  <2> QED BY <2>1, <2>2, <2>3, QuietCustody, ContentCustody, LifeOf
<1>4. CASE ~ (PutStore(p) \/ FolderStore(p))
  <2>1. UNCHANGED objects
    BY <1>4, HandlersUsed DEF PutCheck, FolderCheck, CreateCheck, CreateBucket,
       CreateRegister, CreateRule, TrashCheck, TrashRecord, Abort, s3Vars
  <2>2. CASE UNCHANGED <<buckets, trashRec>>
    BY <1>2, <2>1, <2>2, QuietCustody DEF Life, Dropped
  <2>3. ASSUME NEW c \in Buckets \ buckets, NewBucket(c), UNCHANGED trashRec
        PROVE  Custody!Next
    <3>1. buckets' = buckets \cup {c} BY <2>3 DEF NewBucket
    <3>2. trashRec[c] = "none" \/ Dropped(c) BY <2>3 DEF PurgeInv
    <3>3. Life(c) = "absent" /\ Life(c)' = "live"
      BY <1>2, <2>3, <3>1, <3>2 DEF Life, Dropped
    <3>4. \A b \in Buckets \ {c} : Life(b)' = Life(b)
      BY <1>2, <2>3, <3>1 DEF Life, Dropped
    <3>5. Custody!Create(c)
      BY <2>1, <3>3, <3>4, LifeCustody DEF Custody!Create
    <3> QED BY <3>5 DEF Custody!Next
  <2>4. ASSUME NEW c \in buckets, trashRec[c] = "none",
               trashRec' = [trashRec EXCEPT ![c] = "trash"], UNCHANGED buckets
        PROVE  Custody!Next
    <3>1. c \in Buckets BY <1>1 DEF TypeOK
    <3>2. ~ Dropped(c) BY <2>4, <3>1 DEF PurgeInv, Dropped, Idle
    <3>3. Life(c) = "live" /\ Life(c)' = "trash"
      BY <1>1, <1>2, <2>4, <3>1, <3>2 DEF Life, Dropped, TypeOK
    <3>4. \A b \in Buckets \ {c} : Life(b)' = Life(b)
      BY <1>1, <1>2, <2>4 DEF Life, Dropped, TypeOK
    <3>5. Custody!Trash(c)
      BY <2>1, <3>1, <3>3, <3>4, LifeCustody DEF Custody!Trash
    <3> QED BY <3>1, <3>5 DEF Custody!Next
  <2> QED BY <2>2, <2>3, <2>4, RecordsMove
<1> QED BY <1>3, <1>4

(* The ticker finds records past due; the purge empties a bucket and then  *)
(* deletes it, and what it does to the record afterwards is invisible.     *)
LEMMA PurgeCustody ==
  ASSUME PurgeUse, PurgeInv,
         \/ \E b \in Buckets : MarkDue(b) \/ PublishPurge(b)
         \/ Consume \/ PurgeAbort
  PROVE  [Custody!Next]_(Custody!custody)
<1> USE DEF s3Vars, sharesVars, history
<1>1. TypeOK BY DEF PurgeInv, BucketsInv
<1>2. ASSUME NEW c \in Buckets, MarkDue(c) PROVE Custody!Next
  <2>1. /\ trashRec[c] = "trash"
        /\ trashRec' = [trashRec EXCEPT ![c] = "due"]
        /\ UNCHANGED <<buckets, objects, purge>>
    BY <1>2 DEF MarkDue
  <2>2. Life(c) = "trash" /\ c \in buckets /\ ~ Dropped(c)
    BY <2>1, LifeOf
  <2>3. Life(c)' = "due" BY <1>1, <2>1, <2>2 DEF Life, Dropped, TypeOK
  <2>4. \A b \in Buckets \ {c} : Life(b)' = Life(b)
    BY <1>1, <2>1 DEF Life, Dropped, TypeOK
  <2>5. Custody!Expire(c)
    BY <2>1, <2>2, <2>3, <2>4, LifeCustody DEF Custody!Expire
  <2> QED BY <2>5 DEF Custody!Next
<1>3. ASSUME UNCHANGED <<buckets, objects, trashRec>>,
             purge.pc \notin {"shares", "record"},
             purge'.pc \notin {"shares", "record"}
      PROVE  UNCHANGED Custody!custody
  BY <1>3, QuietCustody DEF Life, Dropped
<1>4. ASSUME NEW c \in Buckets, PublishPurge(c)
      PROVE  UNCHANGED Custody!custody
  BY <1>4, QuietCustody DEF PublishPurge, Life, Dropped
<1>5. ASSUME NEW c \in Buckets, PurgeReceive(c)
      PROVE  UNCHANGED Custody!custody
  BY <1>3, <1>5 DEF PurgeReceive, Idle
<1>6. ASSUME NEW pc \in PurgeLabels, PurgeAt(pc)
      PROVE  /\ purge \in Purges /\ purge # Idle /\ purge.bucket \in Buckets
             /\ purge.keys \in SUBSET Keys
             /\ trashRec[purge.bucket] = "due"
             /\ pc \notin {"shares", "record"} =>
                  purge.bucket \in buckets /\ Life(purge.bucket) = "due"
  <2>1. /\ purge \in Purges /\ purge # Idle /\ purge.bucket \in Buckets
        /\ purge.keys \in SUBSET Keys
    BY <1>1, <1>6 DEF PurgeAt, PurgeLabels, Idle, TypeOK, Purges
  <2>2. trashRec[purge.bucket] = "due" BY <2>1 DEF PurgeInv
  <2>3. pc \notin {"shares", "record"} => ~ Dropped(purge.bucket)
    BY <1>6 DEF PurgeAt, Dropped
  <2> QED BY <2>1, <2>2, <2>3, LifeOf
<1>7. CASE PurgeList
  <2>1. purge \in Purges BY <1>6, <1>7 DEF PurgeList, PurgeLabels
  <2>2. purge.pc = "list" /\ purge'.pc \in {"bucket", "objects"}
    BY <1>7, <2>1 DEF PurgeList, PurgeAt, Purges
  <2> QED BY <1>3, <1>7, <2>2 DEF PurgeList
<1>8. CASE PurgeObjects
  <2>0. PICK c \in Buckets : c = purge.bucket
    BY <1>6, <1>8 DEF PurgeObjects, PurgeAt, PurgeLabels
  <2>1. /\ purge \in Purges /\ c \in Buckets /\ purge.keys \in SUBSET Keys
        /\ Life(c) = "due"
    BY <2>0, <1>6, <1>8 DEF PurgeObjects, PurgeLabels
  <2>2. /\ purge.pc = "objects" /\ purge'.pc \notin {"shares", "record"}
        /\ UNCHANGED <<buckets, trashRec>>
    BY <2>0, <1>8, <2>1 DEF PurgeObjects, PurgeAt, PurgeGoto, PurgeEnd, Purges, Idle
  <2>3. UNCHANGED objects \/ objects' = objects \ ({c} \X purge.keys)
    BY <2>0, <1>8 DEF PurgeObjects, DeleteObjects
  <2>4. \A b \in Buckets : Life(b)' = Life(b) BY <2>0, <2>2 DEF Life, Dropped
  <2> QED BY <2>0, <2>1, <2>3, <2>4, QuietCustody, ContentCustody
<1>9. CASE PurgeBucket
  <2>0. PICK c \in Buckets : c = purge.bucket
    BY <1>6, <1>9 DEF PurgeBucket, PurgeAt, PurgeLabels
  <2>1. /\ purge \in Purges /\ c \in Buckets /\ c \in buckets
        /\ Life(c) = "due" /\ purge.pc = "bucket"
        /\ UNCHANGED <<objects, trashRec>>
    BY <2>0, <1>6, <1>9 DEF PurgeBucket, PurgeAt, PurgeLabels
  <2>2. CASE ~ CanDropBucket(c)
    BY <2>0, <1>3, <1>9, <2>1, <2>2 DEF PurgeBucket, PurgeEnd, Idle
  <2>3. CASE CanDropBucket(c)
    <3>1. buckets' = buckets \ {c} /\ purge' = [purge EXCEPT !.pc = "shares"]
      BY <2>0, <1>9, <2>3 DEF PurgeBucket, PurgeGoto, DropBucket
    <3>2. purge'.pc = "shares" /\ purge'.bucket = c
      BY <2>0, <2>1, <3>1 DEF Purges
    <3>3. Life(c)' = "absent" BY <2>0, <3>1 DEF Life
    <3>4. \A b \in Buckets \ {c} : Life(b)' = Life(b)
      BY <2>0, <2>1, <3>1, <3>2 DEF Life, Dropped
    <3>5. KeysIn(c) = {} BY <2>0, <2>3 DEF CanDropBucket
    <3>6. Custody!Drop(c)
      BY <2>0, <2>1, <3>3, <3>4, <3>5, LifeCustody DEF Custody!Drop
    <3> QED BY <2>0, <2>1, <3>6 DEF Custody!Next
  <2> QED BY <2>0, <2>2, <2>3
<1>10. CASE PurgeShares
  <2>1. purge \in Purges BY <1>6, <1>10 DEF PurgeShares, PurgeLabels
  <2>2. /\ purge.pc = "shares" /\ purge'.pc = "record"
        /\ purge'.bucket = purge.bucket
        /\ UNCHANGED <<buckets, objects, trashRec>>
    BY <1>10, <2>1 DEF PurgeShares, PurgeAt, PurgeGoto, Purges
  <2> QED BY <2>2, QuietCustody DEF Life, Dropped
<1>11. CASE PurgeRecord
  <2>0. PICK c \in Buckets : c = purge.bucket
    BY <1>6, <1>11 DEF PurgeRecord, PurgeAt, PurgeLabels
  <2>1. purge \in Purges /\ c \in Buckets BY <2>0, <1>6, <1>11 DEF PurgeRecord, PurgeLabels
  <2>2. /\ purge.pc = "record" /\ purge' = Idle
        /\ trashRec' = [trashRec EXCEPT ![c] = "none"]
        /\ UNCHANGED <<buckets, objects>>
    BY <2>0, <1>11 DEF PurgeRecord, PurgeAt, PurgeEnd, Fault, PurgeUse,
                 PurgeBucketRecord
  <2>3. Dropped(c) /\ trashRec'[c] = "none"
    BY <2>0, <1>1, <2>1, <2>2 DEF Dropped, TypeOK
  <2>4. Life(c)' = Life(c) BY <2>0, <2>2, <2>3 DEF Life, Dropped, Idle
  <2>5. \A b \in Buckets \ {c} : Life(b)' = Life(b)
    BY <2>0, <1>1, <2>2 DEF Life, Dropped, TypeOK, Idle
  <2> QED BY <2>0, <2>1, <2>2, <2>4, <2>5, QuietCustody
<1>12. CASE PurgeAbort
  BY <1>3, <1>12 DEF PurgeAbort, PurgeEnd, Fault, PurgeUse, Idle
<1> QED BY <1>2, <1>4, <1>5, <1>7, <1>8, <1>9, <1>10, <1>11, <1>12 DEF Consume

(* The handlers, the ticker and the purge implement BucketCustody: objects *)
(* are deleted only from buckets past their retention time in the trash, a *)
(* bucket ceases to exist only when it is empty, and the next of its name  *)
(* starts over, also while the purge of the earlier one is still going on. *)
THEOREM CustodyImplemented ==
  ASSUME PurgeUse
  PROVE  Spec => BucketCustodySpec
<1>1. ASSUME Init PROVE Custody!Init
  BY <1>1 DEF Init, Custody!Init, Life, KeysIn
<1>2. ASSUME PurgeInv, [Next]_vars PROVE [Custody!Next]_(Custody!custody)
  <2>1. CASE UNCHANGED vars
    BY <2>1, QuietCustody DEF vars, Life, Dropped
  <2> QED BY <1>2, <2>1, ClientCustody, HandlerCustody, PurgeCustody DEF Next
<1>3. Init => Custody!Init BY <1>1
<1>4. PurgeInv /\ [Next]_vars => [Custody!Next]_(Custody!custody) BY <1>2
<1> QED BY <1>3, <1>4, PurgeInvariant, PTL DEF Spec, BucketCustodySpec, Custody!Spec
=============================================================================
