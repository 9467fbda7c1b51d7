--------------------------- MODULE BucketHandlers ---------------------------
(***************************************************************************)
(* The requests that concern whole buckets: create, trash, restore, rename,*)
(* sharing, folders, and, for the races with these, the upload of an       *)
(* object.                                                                 *)
(***************************************************************************)
EXTENDS BucketStore

Begin(p, r) ==
  /\ ~ Busy(p)
  /\ req' = [req EXCEPT ![p] = r]
  /\ UNCHANGED <<s3Vars, sharesVars, events, purge, history, faults>>

(* The last call of a request: DeleteBucket, which may fail. *)
Drop(p) ==
  /\ IF CanDropBucket(req[p].bucket) THEN DropBucket(req[p].bucket)
                                     ELSE UNCHANGED <<buckets, expiring>>
  /\ Finish(p)
  /\ UNCHANGED <<objects, gen, sharesVars, events, purge, history, faults>>

----------------------------------------------------------------------------
(* Uploading: canAccessBucket, then the object is stored.  The check fails *)
(* open: when go-shares does not answer, the bucket counts as not deleted. *)

BeginPut(p, b, k) ==
  /\ k \notin uploaded \cup Folders
  /\ \A q \in Reqs : Busy(q) /\ req[q].op = "put" => k \notin req[q].keys
  /\ Begin(p, NewRequest("put", b, b, {k}))

PutCheck(p) ==
  /\ At(p, "put", "check")
  /\ \/ /\ NoFault
        /\ IF trashRec[req[p].bucket] = "none" THEN Goto(p, "store")
                                               ELSE Finish(p)
     \/ HasShares /\ Fault("deletedCheck") /\ Goto(p, "store")
  /\ UNCHANGED <<s3Vars, sharesVars, events, purge, history>>

Store(p) ==
  LET b == req[p].bucket IN
  /\ IF b \in buckets
     THEN /\ objects' = objects \cup ({b} \X req[p].keys)
          /\ uploaded' = uploaded \cup req[p].keys
     ELSE UNCHANGED <<objects, uploaded>>
  /\ Finish(p)
  /\ UNCHANGED <<buckets, gen, expiring, sharesVars, events, purge, condemned,
                 purged, faults>>

PutStore(p) == At(p, "put", "store") /\ Store(p)

----------------------------------------------------------------------------
(* POST /buckets with a parent: a folder of the parent, which is the       *)
(* caller's own.  Its marker is stored unless it is there; whether the     *)
(* bucket is in the trash is not asked.  (A folder that has been deleted   *)
(* is not made again: a bound.)                                            *)

BeginFolder(p, b, k) ==
  /\ k \in Folders \ uploaded
  /\ Begin(p, NewRequest("folder", b, b, {k}))

FolderCheck(p) ==
  /\ At(p, "folder", "check")
  /\ IF req[p].keys \subseteq KeysIn(req[p].bucket)
     THEN Finish(p) ELSE Goto(p, "store")
  /\ UNCHANGED <<s3Vars, sharesVars, events, purge, history, faults>>

FolderStore(p) == At(p, "folder", "store") /\ Store(p)

----------------------------------------------------------------------------
(* POST /buckets *)

BeginCreate(p, b) ==
  /\ gen[b] < MaxGen
  /\ Begin(p, NewRequest("create", b, b, {}))

CreateCheck(p) ==
  /\ At(p, "create", "check")
  /\ IF req[p].bucket \in buckets THEN Finish(p) ELSE Goto(p, "create")
  /\ UNCHANGED <<s3Vars, sharesVars, events, purge, history, faults>>

(* The check may be stale by now: the store refuses the second creation.   *)
CreateBucket(p) ==
  LET b == req[p].bucket IN
  /\ At(p, "create", "create")
  /\ IF b \in buckets \/ gen[b] = MaxGen
     THEN Finish(p) /\ UNCHANGED <<buckets, gen, condemned>>
     ELSE NewBucket(b) /\ Goto(p, "register")
  /\ UNCHANGED <<objects, expiring, sharesVars, events, purge, uploaded,
                 purged, faults>>

(* The errors of the last two calls are ignored. *)
CreateRegister(p) ==
  /\ At(p, "create", "register")
  /\ \/ /\ NoFault
        /\ IF HasShares THEN RegisterBucket(req[p].bucket)
                        ELSE UNCHANGED registry
     \/ HasShares /\ Fault("register") /\ UNCHANGED registry
  /\ Goto(p, "rule")
  /\ UNCHANGED <<s3Vars, trashRec, shares, events, purge, history>>

CreateRule(p) ==
  /\ At(p, "create", "rule")
  /\ \/ NoFault /\ expiring' = expiring \cup ({req[p].bucket} \cap buckets)
     \/ Fault("rule") /\ UNCHANGED expiring
  /\ Finish(p)
  /\ UNCHANGED <<buckets, objects, gen, sharesVars, events, purge, history>>

----------------------------------------------------------------------------
(* DELETE /buckets/{name}.  With go-shares configured, the bucket stays in *)
(* the store, a trash record makes it inaccessible; whether clients also   *)
(* trash what is in the trash already is a parameter.  Without go-shares,  *)
(* one page of objects is deleted, then the bucket.                        *)

BeginTrash(p, b) ==
  /\ \/ trashRec[b] = "none" /\ "trash" \in Uses
     \/ trashRec[b] # "none" /\ "trashAgain" \in Uses
  /\ Begin(p, NewRequest("trash", b, b, {}))

(* Mutant: a bucket is deleted at once, go-shares or not.                  *)
TrashCheck_Hard(p) ==
  /\ At(p, "trash", "check")
  /\ IF req[p].bucket \in buckets THEN Goto(p, "list") ELSE Finish(p)
  /\ UNCHANGED <<s3Vars, sharesVars, events, purge, history, faults>>

TrashCheck(p) ==
  /\ At(p, "trash", "check")
  /\ IF req[p].bucket \in buckets
     THEN Goto(p, IF HasShares THEN "record" ELSE "list")
     ELSE Finish(p)
  /\ UNCHANGED <<s3Vars, sharesVars, events, purge, history, faults>>

TrashRecord(p) ==
  /\ At(p, "trash", "record")
  /\ TrashBucket(req[p].bucket)
  /\ Finish(p)
  /\ UNCHANGED <<s3Vars, registry, shares, events, purge, uploaded, purged,
                 faults>>

HardDeleteList(p) ==
  LET b == req[p].bucket IN
  /\ At(p, "trash", "list")
  /\ \/ /\ b \in buckets
        /\ \E page \in Pages(b) :
             req' = [req EXCEPT ![p].keys = page,
                       ![p].pc = IF page = {} THEN "drop" ELSE "delete"]
     \/ b \notin buckets /\ Finish(p)
  /\ UNCHANGED <<s3Vars, sharesVars, events, purge, history, faults>>

(* What it deletes counts as purged. *)
HardDeleteObjects(p) ==
  LET b == req[p].bucket IN
  /\ At(p, "trash", "delete")
  /\ DeleteObjects(b, req[p].keys)
  /\ purged' = purged \cup {o[2] : o \in objects \ objects'}
  /\ IF b \in buckets THEN Goto(p, "drop") ELSE Finish(p)
  /\ UNCHANGED <<buckets, gen, expiring, sharesVars, events, purge, condemned,
                 uploaded>>

HardDeleteDrop(p) == At(p, "trash", "drop") /\ Drop(p)

(* POST /buckets/{name}/restore, one call to go-shares. *)
RestoreBucketHandler(b) ==
  /\ RestoreBucket(b)
  /\ UNCHANGED <<s3Vars, registry, shares, events, req, purge, uploaded,
                 purged, faults>>

----------------------------------------------------------------------------
(* POST /buckets/{name}/rename: create, copy, delete.  Neither the trash   *)
(* record, nor the shares, nor the registry, nor the lifecycle rule move.  *)

BeginRename(p, b, to) ==
  /\ "rename" \in Uses
  /\ b # to
  /\ gen[to] < MaxGen
  /\ Begin(p, NewRequest("rename", b, to, {}))

RenameCheck(p) ==
  /\ At(p, "rename", "check")
  /\ IF req[p].bucket \in buckets THEN Goto(p, "checkNew") ELSE Finish(p)
  /\ UNCHANGED <<s3Vars, sharesVars, events, purge, history, faults>>

RenameCheckNew(p) ==
  /\ At(p, "rename", "checkNew")
  /\ IF req[p].to \in buckets THEN Finish(p) ELSE Goto(p, "create")
  /\ UNCHANGED <<s3Vars, sharesVars, events, purge, history, faults>>

RenameCreate(p) ==
  /\ At(p, "rename", "create")
  /\ IF req[p].to \in buckets \/ gen[req[p].to] = MaxGen
     THEN Finish(p) /\ UNCHANGED <<buckets, gen, condemned>>
     ELSE NewBucket(req[p].to) /\ Goto(p, "list")
  /\ UNCHANGED <<objects, expiring, sharesVars, events, purge, uploaded,
                 purged, faults>>

RenameList(p) ==
  /\ At(p, "rename", "list")
  /\ \/ /\ req[p].bucket \in buckets
        /\ \E page \in Pages(req[p].bucket) :
             req' = [req EXCEPT ![p].pc = "copy", ![p].keys = page,
                                ![p].todo = page]
     \/ req[p].bucket \notin buckets /\ Finish(p)
  /\ UNCHANGED <<s3Vars, sharesVars, events, purge, history, faults>>

(* Mutant: the error of a copy is not checked.                             *)
RenameCopy_Unchecked(p) ==
  LET from == req[p].bucket  to == req[p].to IN
  /\ At(p, "rename", "copy")
  /\ \/ \E k \in req[p].todo :
          /\ \/ NoFault /\ objects' = objects \cup {<<to, k>>}
             \/ Fault("abort") /\ UNCHANGED objects
          /\ req' = [req EXCEPT ![p].todo = @ \ {k}]
     \/ req[p].todo = {} /\ Goto(p, "delete") /\ UNCHANGED <<objects, faults>>
  /\ UNCHANGED <<buckets, gen, expiring, sharesVars, events, purge, history>>

(* One CopyObject after the other; the first that fails ends the request.  *)
RenameCopy(p) ==
  LET from == req[p].bucket  to == req[p].to IN
  /\ At(p, "rename", "copy")
  /\ \/ \E k \in req[p].todo :
          IF <<from, k>> \in objects /\ to \in buckets
          THEN /\ objects' = objects \cup {<<to, k>>}
               /\ req' = [req EXCEPT ![p].todo = @ \ {k}]
          ELSE UNCHANGED objects /\ Finish(p)
     \/ req[p].todo = {} /\ Goto(p, "delete") /\ UNCHANGED objects
  /\ UNCHANGED <<buckets, gen, expiring, sharesVars, events, purge, history,
                 faults>>

(* The page that was listed is deleted. *)
RenameDelete(p) ==
  /\ At(p, "rename", "delete")
  /\ DeleteObjects(req[p].bucket, req[p].keys)
  /\ IF req[p].bucket \in buckets THEN Goto(p, "drop") ELSE Finish(p)
  /\ UNCHANGED <<buckets, gen, expiring, sharesVars, events, purge, history>>

RenameDrop(p) == At(p, "rename", "drop") /\ Drop(p)

----------------------------------------------------------------------------
(* POST and DELETE /buckets/{bucket}/shares, one call to go-shares each.   *)
(* The caller is asked to own the name, by the claims of its JWT; nobody   *)
(* asks whether there is a bucket of that name, or it is in the trash.     *)

HandleCreateShare(b, u) ==
  /\ HasShares
  /\ CreateShare(b, u)
  /\ UNCHANGED <<s3Vars, registry, trashRec, events, req, purge, history,
                 faults>>

HandleDeleteShare(b, u) ==
  /\ DeleteShare(b, u)
  /\ UNCHANGED <<s3Vars, registry, trashRec, events, req, purge, history,
                 faults>>

----------------------------------------------------------------------------
HandlerStep(p) ==
  \/ PutCheck(p) \/ PutStore(p) \/ FolderCheck(p) \/ FolderStore(p)
  \/ CreateCheck(p) \/ CreateBucket(p) \/ CreateRegister(p) \/ CreateRule(p)
  \/ TrashCheck(p) \/ TrashRecord(p)
  \/ HardDeleteList(p) \/ HardDeleteObjects(p) \/ HardDeleteDrop(p)
  \/ RenameCheck(p) \/ RenameCheckNew(p) \/ RenameCreate(p) \/ RenameList(p)
  \/ RenameCopy(p) \/ RenameDelete(p) \/ RenameDrop(p)
  \/ Abort(p)

Client ==
  \/ \E p \in Reqs, b \in Buckets :
       \/ \E k \in Keys : BeginPut(p, b, k) \/ BeginFolder(p, b, k)
       \/ BeginCreate(p, b)
       \/ BeginTrash(p, b)
       \/ \E to \in Buckets : BeginRename(p, b, to)
  \/ \E b \in Buckets : RestoreBucketHandler(b)
  \/ \E b \in Buckets, u \in Users :
       HandleCreateShare(b, u) \/ HandleDeleteShare(b, u)
=============================================================================
