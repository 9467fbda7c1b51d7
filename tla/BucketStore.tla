---------------------------- MODULE BucketStore ----------------------------
(***************************************************************************)
(* The state behind the life of whole buckets: the buckets and objects in  *)
(* the S3 store; the trash records, the shares and the ownership registry  *)
(* that go-shares keeps by bucket NAME; the purge topic between go-shares  *)
(* and the gateway; the requests in the gateway's handlers and its purge   *)
(* consumer.  A name may be used again after its bucket is gone: gen       *)
(* counts the buckets a name has stood for.                                *)
(***************************************************************************)
EXTENDS Naturals, FiniteSets

CONSTANTS
  Buckets,     \* bucket names
  Keys,        \* object keys
  Folders,     \* the keys that mark a folder, .../.keep
  HasShares,   \* whether go-shares is configured
  Users,       \* users a bucket can be shared with
  Reqs,        \* slots for concurrent requests
  PageSize,    \* objects in one ListObjectsV2 answer (1000 in S3)
  Uses,        \* what clients do: some of ClientUses
  Faulty,      \* the calls that may fail
  MaxFaults,   \* bound on the number of failed calls
  MaxEvents,   \* bound on the undelivered purge events of one bucket
  MaxGen       \* bound on the buckets created under one name

ClientUses == {"trash", "trashAgain", "lateRestore", "rename"}

ASSUME KeysAssumption == Folders \subseteq Keys
ASSUME SharesAssumption == HasShares \in BOOLEAN
ASSUME PageAssumption == PageSize \in Nat \ {0}
ASSUME BoundsAssumption == {MaxFaults, MaxEvents, MaxGen} \subseteq Nat
ASSUME UsesAssumption == Uses \subseteq ClientUses

VARIABLES
  buckets,    \* the buckets that exist in the S3 store
  objects,    \* their content, a set of <<bucket, key>>
  gen,        \* how many buckets have been created under each name
  expiring,   \* the buckets that have the trash lifecycle rule
  registry,   \* the names go-shares has an owner for
  trashRec,   \* the trash record of each name: none, in trash, or past due
  shares,     \* the shares, <<bucket, user, gen of the bucket shared>>; 0 for
              \* a name that stood for no bucket when it was shared
  events,     \* undelivered purge events per bucket name
  req,        \* the request in each slot
  purge,      \* the purge consumer
  condemned,  \* history: the names whose present bucket its owner trashed
  uploaded,   \* history: the keys that have been stored
  purged,     \* history: the keys deleted with their bucket
  faults      \* the number of calls that have failed

vars == <<buckets, objects, gen, expiring, registry, trashRec, shares, events,
          req, purge, condemned, uploaded, purged, faults>>

s3Vars     == <<buckets, objects, gen, expiring>>
sharesVars == <<registry, trashRec, shares>>
history    == <<condemned, uploaded, purged>>

Idle == [op |-> "none", pc |-> "idle"]

Ops == {"put", "folder", "create", "trash", "rename"}
ReqLabels == {"check", "store", "create", "register", "rule", "record",
              "checkNew", "list", "copy", "delete", "drop"}
PurgeLabels == {"list", "objects", "bucket", "shares", "record"}

(* A request: the bucket and, for a rename, the new name; the keys it is   *)
(* about, the one a put stores or those a rename has listed; and the keys  *)
(* a rename has still to copy.                                             *)
Requests == [op : Ops, pc : ReqLabels, bucket : Buckets, to : Buckets,
             keys : SUBSET Keys, todo : SUBSET Keys]

Purges == [op : {"purge"}, pc : PurgeLabels, bucket : Buckets,
           keys : SUBSET Keys]

TypeOK ==
  /\ buckets \subseteq Buckets
  /\ objects \subseteq buckets \X Keys
  /\ gen \in [Buckets -> 0..MaxGen]
  /\ expiring \subseteq buckets
  /\ registry \subseteq Buckets
  /\ trashRec \in [Buckets -> {"none", "trash", "due"}]
  /\ shares \subseteq Buckets \X Users \X (0..MaxGen)
  /\ events \in [Buckets -> 0..MaxEvents]
  /\ req \in [Reqs -> Requests \cup {Idle}]
  /\ purge \in Purges \cup {Idle}
  /\ condemned \subseteq Buckets
  /\ uploaded \subseteq Keys
  /\ purged \subseteq uploaded
  /\ faults \in 0..MaxFaults

----------------------------------------------------------------------------
Init ==
  /\ buckets = {} /\ objects = {} /\ expiring = {} /\ registry = {}
  /\ gen = [b \in Buckets |-> 0]
  /\ trashRec = [b \in Buckets |-> "none"]
  /\ shares = {}
  /\ events = [b \in Buckets |-> 0]
  /\ req = [p \in Reqs |-> Idle]
  /\ purge = Idle
  /\ condemned = {} /\ uploaded = {} /\ purged = {}
  /\ faults = 0

NoFault == UNCHANGED faults

Fault(call) ==
  /\ call \in Faulty
  /\ faults < MaxFaults
  /\ faults' = faults + 1

----------------------------------------------------------------------------
(* The S3 store. *)

KeysIn(b) == {k \in Keys : <<b, k>> \in objects}

(* ListObjectsV2 answers with one page; no handler asks for the next one.  *)
IsPage(page, b) ==
  /\ page \subseteq KeysIn(b)
  /\ \/ page = KeysIn(b) /\ Cardinality(page) <= PageSize
     \/ page # KeysIn(b) /\ Cardinality(page) = PageSize

Pages(b) == {page \in SUBSET KeysIn(b) : IsPage(page, b)}

(* CreateBucket of a name that is free: a bucket of its own, under no      *)
(* lifecycle rule, that nobody has trashed.                                *)
NewBucket(b) ==
  /\ buckets' = buckets \cup {b}
  /\ gen' = [gen EXCEPT ![b] = @ + 1]
  /\ condemned' = condemned \ {b}

(* DeleteObjects; errors of single keys go unnoticed by all callers.       *)
DeleteObjects(b, keys) ==
  \/ NoFault /\ objects' = objects \ ({b} \X keys)
  \/ Fault("objects") /\ UNCHANGED objects

(* DeleteBucket succeeds on an empty bucket only. *)
CanDropBucket(b) == b \in buckets /\ KeysIn(b) = {}
DropBucket(b) ==
  /\ buckets' = buckets \ {b}
  /\ expiring' = expiring \ {b}

----------------------------------------------------------------------------
(* go-shares: what the calls of SharesClient do when they succeed. *)

RegisterBucket(b) == registry' = registry \cup {b}

(* 409 when the name is in the trash already. *)
TrashBucket(b) ==
  IF trashRec[b] = "none"
  THEN /\ trashRec' = [trashRec EXCEPT ![b] = "trash"]
       /\ condemned' = condemned \cup {b}
  ELSE UNCHANGED <<trashRec, condemned>>

(* 404 when it is not in the trash.  Whether go-shares still restores a    *)
(* bucket that is past due is a parameter.                                 *)
RestoreBucket(b) ==
  /\ trashRec[b] = "trash" \/ (trashRec[b] = "due" /\ "lateRestore" \in Uses)
  /\ trashRec' = [trashRec EXCEPT ![b] = "none"]
  /\ condemned' = condemned \ {b}

PurgeBucketRecord(b) == trashRec' = [trashRec EXCEPT ![b] = "none"]

(* One share per bucket name and user; a second one is a conflict.  Which  *)
(* bucket the name stands for, if any, go-shares does not know.            *)
SharedGen(b) == IF b \in buckets THEN gen[b] ELSE 0

CreateShare(b, u) ==
  /\ \A s \in shares : <<s[1], s[2]>> # <<b, u>>
  /\ shares' = shares \cup {<<b, u, SharedGen(b)>>}

DeleteShare(b, u) ==
  /\ \E s \in shares : <<s[1], s[2]>> = <<b, u>>
  /\ shares' = {s \in shares : <<s[1], s[2]>> # <<b, u>>}

DeleteSharesForBucket(b) == shares' = {s \in shares : s[1] # b}

----------------------------------------------------------------------------
(* Requests. *)

Busy(p) == req[p].pc # "idle"
At(p, op, pc) == req[p].op = op /\ req[p].pc = pc
Goto(p, pc) == req' = [req EXCEPT ![p].pc = pc]
Finish(p) == req' = [req EXCEPT ![p] = Idle]

NewRequest(op, b, to, keys) ==
  [op |-> op, pc |-> "check", bucket |-> b, to |-> to, keys |-> keys,
   todo |-> {}]

(* A checked call failed, the client went away or the process crashed.     *)
Abort(p) ==
  /\ Busy(p)
  /\ Fault("abort")
  /\ Finish(p)
  /\ UNCHANGED <<s3Vars, sharesVars, events, purge, history>>
=============================================================================
