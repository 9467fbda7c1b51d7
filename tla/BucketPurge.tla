---------------------------- MODULE BucketPurge ----------------------------
(***************************************************************************)
(* The purge of trashed buckets.  go-shares finds the trash records that   *)
(* are past due at every tick of its purge ticker and publishes an event   *)
(* for each; the gateway's purge consumer deletes the bucket, the shares   *)
(* and the record.  The offset is committed as the event is read, so an    *)
(* event is delivered at most once, and nothing looks at the trash record  *)
(* again before deleting.                                                  *)
(***************************************************************************)
EXTENDS BucketStore

PurgeAt(pc) == purge.pc = pc
PurgeGoto(pc) == purge' = [purge EXCEPT !.pc = pc]
PurgeEnd == purge' = Idle

(* External: the retention time of a trashed bucket has passed, days in    *)
(* which the requests that were under way when it was trashed have ended.  *)
MarkDue(b) ==
  /\ trashRec[b] = "trash"
  /\ \A p \in Reqs :
       Busy(p) /\ req[p].op \in {"put", "trash"} => req[p].bucket # b
  /\ trashRec' = [trashRec EXCEPT ![b] = "due"]
  /\ UNCHANGED <<s3Vars, registry, shares, events, req, purge, history, faults>>

(* External: the ticker publishes an event for a record that is past due.  *)
(* With MaxEvents = 1 it ticks too slowly to publish a second one while the*)
(* first is on its way or being processed.                                 *)
PublishPurge(b) ==
  /\ trashRec[b] = "due"
  /\ events[b] < MaxEvents
  /\ MaxEvents = 1 /\ purge # Idle => purge.bucket # b
  /\ events' = [events EXCEPT ![b] = @ + 1]
  /\ UNCHANGED <<s3Vars, sharesVars, req, purge, history, faults>>

(* The consumer reads the next event. *)
PurgeReceive(b) ==
  /\ purge = Idle
  /\ events[b] > 0
  /\ events' = [events EXCEPT ![b] = @ - 1]
  /\ purge' = [op |-> "purge", pc |-> "list", bucket |-> b, keys |-> {}]
  /\ UNCHANGED <<s3Vars, sharesVars, req, history, faults>>

(* Mutant: a bucket that is gone already is an error like any other.       *)
PurgeList_GoneIsError ==
  /\ PurgeAt("list")
  /\ IF purge.bucket \in buckets
     THEN \E page \in Pages(purge.bucket) :
            purge' = [purge EXCEPT !.keys = page,
                        !.pc = IF page = {} THEN "bucket" ELSE "objects"]
     ELSE PurgeEnd
  /\ UNCHANGED <<s3Vars, sharesVars, events, req, history, faults>>

(* A bucket that is gone already counts as empty. *)
PurgeList ==
  /\ PurgeAt("list")
  /\ \E page \in Pages(purge.bucket) :
       purge' = [purge EXCEPT !.keys = page,
                   !.pc = IF page = {} THEN "bucket" ELSE "objects"]
  /\ UNCHANGED <<s3Vars, sharesVars, events, req, history, faults>>

PurgeObjects ==
  LET b == purge.bucket IN
  /\ PurgeAt("objects")
  /\ DeleteObjects(b, purge.keys)
  /\ purged' = purged \cup {o[2] : o \in objects \ objects'}
  /\ IF b \in buckets THEN PurgeGoto("bucket") ELSE PurgeEnd
  /\ UNCHANGED <<buckets, gen, expiring, sharesVars, events, req, condemned,
                 uploaded>>

(* Mutant: the error of DeleteBucket is ignored and the bucket taken for   *)
(* deleted.                                                                *)
PurgeBucket_Unchecked ==
  /\ PurgeAt("bucket")
  /\ PurgeGoto("shares")
  /\ DropBucket(purge.bucket)
  /\ UNCHANGED <<objects, gen, sharesVars, events, req, history, faults>>

(* Mutant: the shares are forgotten.                                       *)
PurgeBucket_SkipShares ==
  LET b == purge.bucket IN
  /\ PurgeAt("bucket")
  /\ IF b \in buckets /\ ~ CanDropBucket(b)
     THEN PurgeEnd /\ UNCHANGED <<buckets, expiring>>
     ELSE PurgeGoto("record") /\ DropBucket(b)
  /\ UNCHANGED <<objects, gen, sharesVars, events, req, history, faults>>

(* A bucket that is not empty ends the purge, until the next event; one    *)
(* that is gone already does not.                                          *)
PurgeBucket ==
  LET b == purge.bucket IN
  /\ PurgeAt("bucket")
  /\ IF b \in buckets /\ ~ CanDropBucket(b)
     THEN PurgeEnd /\ UNCHANGED <<buckets, expiring>>
     ELSE PurgeGoto("shares") /\ DropBucket(b)
  /\ UNCHANGED <<objects, gen, sharesVars, events, req, history, faults>>

(* Non-fatal. *)
PurgeShares ==
  /\ PurgeAt("shares")
  /\ \/ NoFault /\ DeleteSharesForBucket(purge.bucket)
     \/ Fault("shares") /\ UNCHANGED shares
  /\ PurgeGoto("record")
  /\ UNCHANGED <<s3Vars, registry, trashRec, events, req, history>>

(* Mutant: the trash record is never removed.                              *)
PurgeRecord_Forgotten ==
  /\ PurgeAt("record")
  /\ PurgeEnd
  /\ UNCHANGED <<s3Vars, sharesVars, events, req, history, faults>>

(* Non-fatal: the ticker will find the record again. *)
PurgeRecord ==
  /\ PurgeAt("record")
  /\ \/ NoFault /\ PurgeBucketRecord(purge.bucket)
     \/ Fault("record") /\ UNCHANGED trashRec
  /\ PurgeEnd
  /\ UNCHANGED <<s3Vars, registry, shares, events, req, history>>

(* A checked call fails, or the process crashes, and the event is lost.    *)
(* Once the bucket has been deleted no call is checked any more.           *)
PurgeAbort ==
  /\ \/ purge.pc \in {"list", "objects", "bucket"} /\ Fault("abort")
     \/ purge # Idle /\ Fault("crash")
  /\ PurgeEnd
  /\ UNCHANGED <<s3Vars, sharesVars, events, req, history>>

Consume ==
  \/ \E b \in Buckets : PurgeReceive(b)
  \/ PurgeList
  \/ PurgeObjects
  \/ PurgeBucket
  \/ PurgeShares
  \/ PurgeRecord
=============================================================================
