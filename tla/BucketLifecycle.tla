-------------------------- MODULE BucketLifecycle --------------------------
(***************************************************************************)
(* The life of buckets: the handlers, go-shares' purge ticker and the purge*)
(* consumer together.                                                      *)
(***************************************************************************)
EXTENDS BucketHandlers, BucketPurge

Next ==
  \/ Client
  \/ \E p \in Reqs : HandlerStep(p)
  \/ \E b \in Buckets : MarkDue(b) \/ PublishPurge(b)
  \/ Consume
  \/ PurgeAbort

Spec == Init /\ [][Next]_vars

(* The ticker goes on ticking, and the consumer goroutine goes on reading  *)
(* events and making its calls, which all have time limits.                *)
Fairness ==
  /\ \A b \in Buckets : WF_vars(PublishPurge(b))
  /\ \A b \in Buckets : SF_vars(PurgeReceive(b))
  /\ WF_vars(PurgeList \/ PurgeObjects \/ PurgeBucket \/ PurgeShares
             \/ PurgeRecord)

FairSpec == Spec /\ Fairness

----------------------------------------------------------------------------
(* The purge deletes data only of a bucket that its owner put in the trash *)
(* and did not take back: not of one that was restored meanwhile, and not  *)
(* of another bucket that has come to bear the name.                       *)
PurgeSpares ==
  [][HasShares /\ purged' # purged => purge.bucket \in condemned]_vars

(* No name has been used for a second bucket yet. *)
Once == \A b \in Buckets : gen[b] <= 1

(* An object that was stored is in some bucket until it is deleted with a  *)
(* bucket: renames that fail half-way, run concurrently or race with       *)
(* uploads and deletions leave copies, never gaps.  (Once names are used   *)
(* again, two renames may go on in opposite directions, and each delete    *)
(* what the other relies on.)                                              *)
ObjectsKept ==
  Once => \A k \in uploaded : k \in purged \/ \E b \in buckets : k \in KeysIn(b)

(* A new bucket inherits no share: nobody has access to it because an      *)
(* earlier bucket of that name had been shared with them.  (While the purge*)
(* of the earlier bucket is under way the shares may still be there.  What *)
(* is excepted is a share made while no bucket had the name, s[3] = 0: the *)
(* owner of a bucket that has been purged may go on sharing its name, and  *)
(* the next bucket of that name starts with that share.)                   *)
NoInheritedShares ==
  \A s \in shares :
    s[1] \in buckets /\ (purge = Idle \/ purge.bucket # s[1])
      => s[3] \in {0, gen[s[1]]}

(* A bucket that is treated as deleted was deleted by its owner: a trash   *)
(* record never outlives the bucket it was made for to hide a later one.   *)
TrashMeansTrashed ==
  \A b \in buckets :
    trashRec[b] # "none" /\ (purge = Idle \/ purge.bucket # b)
      => b \in condemned

(* When a rename comes to delete the old bucket, it has moved everything   *)
(* that was in it.                                                         *)
RenameEmpties ==
  \A p \in Reqs :
    At(p, "rename", "drop") /\ faults = 0 => KeysIn(req[p].bucket) = {}

(* A bucket past its retention time is purged in the end, record and all,  *)
(* even if deleting takes several events and calls fail on the way (or its *)
(* owner restores it).                                                     *)
PurgeCompletes ==
  \A b \in Buckets : trashRec[b] = "due" ~> trashRec[b] = "none"

----------------------------------------------------------------------------
(* The inductive invariants behind these. *)

(* What has existed was created; a request has the names it has looked for.*)
Proper(p) ==
  LET r == req[p] IN
  /\ r.op = "trash" /\ HasShares => r.pc \in {"check", "record"}
  /\ r.op = "rename" =>
       /\ r.bucket # r.to
       /\ r.pc # "check" => gen[r.bucket] > 0
       /\ r.pc \in {"list", "copy", "delete", "drop"} => gen[r.to] > 0

BucketsInv ==
  /\ TypeOK
  /\ \A p \in Reqs : Proper(p)
  /\ \A b \in buckets : gen[b] > 0
  /\ \A o \in objects : o[2] \in uploaded

(* The keys that a rename may delete: copied, and not deleted yet. *)
Copied(p) ==
  {k \in Keys :
     /\ req[p].op = "rename" /\ k \in req[p].keys
     /\ req[p].pc = "delete" \/ (req[p].pc = "copy" /\ k \notin req[p].todo)}

(* While no name is used again, renames go from buckets to later ones; what*)
(* one of them is about to delete is in a bucket that is later still.      *)
Later(rank) ==
  \A p \in Reqs :
    /\ req[p].op = "rename" /\ req[p].pc \in {"list", "copy", "delete"}
         => rank[req[p].bucket] < rank[req[p].to]
    /\ \A k \in Copied(p) :
         \/ k \in purged
         \/ \E b \in buckets :
              k \in KeysIn(b) /\ rank[b] > rank[req[p].bucket]

LaterWithin(n) == Once => \E rank \in [Buckets -> 0..n] : Later(rank)

(* However many renames have gone on, the order needs no more ranks than   *)
(* there are names: nothing is about to be deleted in a circle.            *)
RenamesOrdered == LaterWithin(Cardinality(Buckets))

(* The use under which the trash record of a bucket can be relied on: no   *)
(* rename, nothing restored when it is past due or trashed when it is in   *)
(* the trash, one event at a time, and no crash in the purge once it has   *)
(* deleted the bucket, nor a record that stays behind.  The shares can be  *)
(* relied on when they do not stay behind either.                          *)
PurgeUse ==
  /\ HasShares
  /\ Uses \subseteq {"trash"}
  /\ MaxEvents = 1
  /\ {"crash", "record"} \cap Faulty = {}

SharesUse == PurgeUse /\ "shares" \notin Faulty

(* The purge of b is past the deletion of the bucket. *)
Dropped(b) == purge.pc \in {"shares", "record"} /\ purge.bucket = b

(* What BucketCustody sees of a bucket: one that has been created again    *)
(* under the name of one being purged is live, though the old record is    *)
(* still there to hide it.                                                 *)
Life(b) ==
  IF b \notin buckets THEN "absent"
  ELSE IF Dropped(b) \/ trashRec[b] = "none" THEN "live"
  ELSE trashRec[b]

Custody == INSTANCE BucketCustody
             WITH life <- [b \in Buckets |-> Life(b)],
                  content <- [b \in Buckets |-> KeysIn(b)]

(* Under PurgeUse the handlers, the ticker and the purge together implement*)
(* BucketCustody: whatever requests race with the purge, fail or crash, no *)
(* object is deleted but from a bucket whose trashing stood for the whole  *)
(* retention time, and a new bucket of the name inherits nothing from that.*)
BucketCustodySpec == Custody!Spec

TrashRequest(p) ==
  LET r == req[p] IN
  /\ r.op # "rename"
  /\ r.op = "trash" => trashRec[r.bucket] # "due"
  /\ r.op = "trash" /\ r.pc = "record" => r.bucket \in buckets

PurgeInv ==
  /\ BucketsInv
  /\ \A p \in Reqs : TrashRequest(p)
  /\ \A b \in Buckets :
       /\ trashRec[b] # "none" => b \in buckets \cap condemned \/ Dropped(b)
       /\ events[b] > 0 => trashRec[b] = "due"
       /\ purge # Idle /\ purge.bucket = b
            => trashRec[b] = "due" /\ events[b] = 0
  /\ SharesUse =>
       \A s \in shares :
         \/ s[3] = 0
         \/ s[1] \in buckets /\ s[3] = gen[s[1]]
         \/ purge.pc = "shares" /\ purge.bucket = s[1]
=============================================================================
