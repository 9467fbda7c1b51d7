--------------------------- MODULE AccountStore ---------------------------
(***************************************************************************)
(* What belongs to a user account, and where it is kept: the account and   *)
(* its list of allowed buckets in Keycloak, the user's key in Vault, the   *)
(* buckets and the data in them in the S3 store, the owners of buckets, the*)
(* trash records and the shares in go-shares.                              *)
(***************************************************************************)
EXTENDS Naturals, FiniteSets

CONSTANTS
  Users,     \* accounts, by their subject in Keycloak
  Buckets,   \* bucket names
  Home,      \* the home bucket of each user, or none
  Admins,    \* the users who may create other buckets
  Nobody,    \* no user, no bucket
  Reqs,      \* slots for concurrent requests
  Faulty,    \* the calls that may fail
  MaxFaults, \* bound on the number of failed calls
  MaxBegun,  \* bound on the number of requests
  MaxItems,  \* bound on the items of data at one time
  MaxGen     \* bound on the buckets created under one name

ASSUME NobodyAssumption == Nobody \notin Users \cup Buckets
ASSUME HomeAssumption == Home \in [Users -> Buckets \cup {Nobody}]
ASSUME AdminsAssumption == Admins \subseteq Users
ASSUME BoundsAssumption ==
  {MaxFaults, MaxBegun, MaxItems, MaxGen} \subseteq Nat

Homes == {Home[u] : u \in Users} \ {Nobody}
Extra == Buckets \ Homes

VARIABLES
  erased,    \* the accounts that are no longer in Keycloak
  granted,   \* allowed_buckets of each account
  token,     \* AllowedBuckets in the JWT each user holds
  keys,      \* the users who have a key in Vault
  buckets,   \* the buckets in the S3 store
  sse,       \* whose key each bucket is encrypted with by default, or none
  data,      \* what is stored in the buckets
  registry,  \* the owner of each bucket name, in go-shares
  trashRec,  \* the trash record of each name: 0, or the bucket it is about
  shares,    \* the users with share records, as owner or as sharee
  gen,       \* how many buckets have been created under each name
  acked,     \* history: <<user, bucket>> whose set-up was reported done
  req,       \* the request in each slot
  faults,    \* the number of calls that have failed
  begun      \* the number of requests that have begun

vars == <<erased, granted, token, keys, buckets, sse, data,
          registry, trashRec, shares, gen, acked, req, faults, begun>>

keycloak   == <<erased, granted>>
s3Vars     == <<buckets, sse, data, gen, acked>>
sharesVars == <<registry, trashRec, shares>>

(* An item of data: where it is, whose it is, the key it is encrypted with,*)
(* and whether it was stored in a bucket that its owner had been told was  *)
(* ready, at a time when no request was changing the owner's buckets.      *)
Items == [bucket : Buckets, owner : Users, key : Users \cup {Nobody},
          calm : BOOLEAN]

Idle == [op |-> "none", pc |-> "idle"]

Requests ==
  [op : {"provision", "create", "erase"},
   pc : {"check", "create", "key", "encrypt", "read", "write", "register",
         "list", "empty", "drop", "shares", "unregister", "user"},
   user : Users, bucket : Buckets \cup {Nobody}, held : SUBSET Buckets,
   todo : SUBSET Buckets]

TypeOK ==
  /\ erased \subseteq Users
  /\ granted \in [Users -> SUBSET Buckets]
  /\ token \in [Users -> SUBSET Buckets]
  /\ keys \subseteq Users
  /\ buckets \subseteq Buckets
  /\ sse \in [Buckets -> Users \cup {Nobody}]
  /\ data \subseteq Items /\ \A d \in data : d.bucket \in buckets
  /\ registry \in [Buckets -> Users \cup {Nobody}]
  /\ trashRec \in [Buckets -> 0..MaxGen]
  /\ shares \subseteq Users
  /\ gen \in [Buckets -> 0..MaxGen]
  /\ acked \subseteq Users \X Buckets
  /\ req \in [Reqs -> Requests \cup {Idle}]
  /\ faults \in 0..MaxFaults
  /\ begun \in 0..MaxBegun

Init ==
  /\ erased = {}
  /\ shares = Users
  /\ granted = [u \in Users |-> {}] /\ token = [u \in Users |-> {}]
  /\ keys = {} /\ buckets = {} /\ data = {} /\ acked = {}
  /\ sse = [b \in Buckets |-> Nobody]
  /\ registry = [b \in Buckets |-> Nobody]
  /\ trashRec = [b \in Buckets |-> 0]
  /\ gen = [b \in Buckets |-> 0]
  /\ req = [p \in Reqs |-> Idle]
  /\ faults = 0
  /\ begun = 0

----------------------------------------------------------------------------
(* Requests and failures. *)

Busy(p) == req[p].pc # "idle"
At(p, op, pc) == req[p].op = op /\ req[p].pc = pc
Goto(p, pc) == req' = [req EXCEPT ![p].pc = pc]
Finish(p) == req' = [req EXCEPT ![p] = Idle]

(* A JWT is good until it expires, also that of an erased account. *)
Start(p, op, pc, u, b) ==
  /\ ~ Busy(p)
  /\ begun < MaxBegun
  /\ begun' = begun + 1
  /\ req' = [req EXCEPT ![p] =
               [op |-> op, pc |-> pc, user |-> u, bucket |-> b, held |-> {},
                todo |-> {}]]

NoFault == UNCHANGED <<faults, begun>>

Fault(call) ==
  /\ call \in Faulty
  /\ faults < MaxFaults
  /\ faults' = faults + 1
  /\ UNCHANGED begun

(* A checked call failed, the client went away or the process crashed.     *)
Abort(p) ==
  /\ Busy(p)
  /\ Fault("abort")
  /\ Finish(p)
  /\ UNCHANGED <<keycloak, token, keys, s3Vars, sharesVars>>

----------------------------------------------------------------------------
(* The calls that requests share. *)

(* CreateBucket fails when the name is taken.  (So it does at the bound.)  *)
CanCreate(b) == b \notin buckets /\ gen[b] < MaxGen
NewBucket(b) ==
  /\ buckets' = buckets \cup {b}
  /\ gen' = [gen EXCEPT ![b] = @ + 1]
  /\ UNCHANGED <<sse, data, acked>>

DataIn(b) == {d \in data : d.bucket = b}

DropBucket(b) ==
  /\ buckets' = buckets \ {b}
  /\ sse' = [sse EXCEPT ![b] = Nobody]
  /\ acked' = {a \in acked : a[2] # b}

(* Mutant: a name that has an owner keeps it.                              *)
RegisterBucket_First(b, u) ==
  \/ NoFault
     /\ registry' = IF registry[b] = Nobody THEN [registry EXCEPT ![b] = u]
                                            ELSE registry
  \/ UNCHANGED registry /\ Fault("register")

(* SharesClient.RegisterBucket: the last to register a name owns it.  The  *)
(* handlers ignore its errors.                                             *)
RegisterBucket(b, u) ==
  \/ registry' = [registry EXCEPT ![b] = u] /\ NoFault
  \/ UNCHANGED registry /\ Fault("register")

(* The last step of setting up a bucket, and the answer.                   *)
RegisterAndAnswer(p, op) ==
  /\ At(p, op, "register")
  /\ RegisterBucket(req[p].bucket, req[p].user)
  /\ acked' = acked \cup
       {a \in {<<req[p].user, req[p].bucket>>} : a[2] \in buckets}
  /\ Finish(p)
  /\ UNCHANGED <<keycloak, token, keys, buckets, sse, data, gen, trashRec,
                 shares>>

----------------------------------------------------------------------------
(* What happens outside these requests. *)

(* The user's JWT is issued anew. *)
Refresh(u) ==
  /\ u \notin erased
  /\ token[u] # granted[u]
  /\ token' = [token EXCEPT ![u] = granted[u]]
  /\ UNCHANGED <<keycloak, keys, s3Vars, sharesVars, req, faults, begun>>

Calm(u, b) ==
  /\ <<u, b>> \in acked /\ u \notin erased
  /\ \A p \in Reqs : Busy(p) => req[p].user # u

(* A user stores something in a bucket that the access check lets through; *)
(* the store encrypts it with the bucket's default key, if it can.         *)
Upload(u, b) ==
  /\ b \in buckets /\ trashRec[b] = 0
  /\ b = Home[u] \/ b \in token[u] \/ <<u, b>> \in acked
  /\ sse[b] # Nobody => sse[b] \in keys
  /\ Cardinality(data) < MaxItems
  /\ data' = data \cup
       {[bucket |-> b, owner |-> u, key |-> sse[b], calm |-> Calm(u, b)]}
  /\ UNCHANGED <<keycloak, token, keys, buckets, sse, gen, acked, sharesVars,
                 req, faults, begun>>

(* Requests that BucketHandlers and BucketPurge model in detail, here as   *)
(* one step each: a bucket goes to the trash and is purged.                *)
Trash(u, b) ==
  /\ <<u, b>> \in acked
  /\ b \in buckets /\ trashRec[b] = 0
  /\ trashRec' = [trashRec EXCEPT ![b] = gen[b]]
  /\ UNCHANGED <<keycloak, token, keys, s3Vars, registry, shares, req, faults,
                 begun>>

Purge(b) ==
  /\ trashRec[b] # 0
  /\ trashRec' = [trashRec EXCEPT ![b] = 0]
  /\ data' = data \ DataIn(b)
  /\ DropBucket(b)
  /\ UNCHANGED <<keycloak, token, keys, gen, registry, shares, req, faults,
                 begun>>

(* Renames, which BucketHandlers models, sign-ups and share records that   *)
(* are made later are left out here.                                       *)
Outside ==
  \E u \in Users, b \in Buckets :
    Refresh(u) \/ Upload(u, b) \/ Trash(u, b) \/ Purge(b)
=============================================================================
