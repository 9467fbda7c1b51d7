------------------------------ MODULE Accounts ------------------------------
(* The life of user accounts: provisioning, other buckets, erasure. *)
EXTENDS Provisioning, AccountErasure

Step(p) == Provision(p) \/ Create(p) \/ Erase(p) \/ Abort(p)

Next == Outside \/ \E p \in Reqs : Step(p)

Spec == Init /\ [][Next]_vars

----------------------------------------------------------------------------
Erasing(u) == \E p \in Reqs : req[p].op = "erase" /\ req[p].user = u

Readable(d) == d.key = Nobody \/ d.key \in keys

(* The names of home buckets come from user names, and two user names may  *)
(* give one bucket name.                                                   *)
OwnHome(u) == \A v \in Users \ {u} : Home[v] # Home[u]

(* Nobody but u has been told that the bucket is set up.  Two are told when*)
(* they share a home, or when a creation registers its bucket only after   *)
(* another user has deleted it and a third has created it again.           *)
Alone(u, b) == \A v \in Users : <<v, b>> \in acked => v = u

(* Deleting the key makes the data inaccessible "even if the MinIO deletion*)
(* above failed": no single failing call or crash, in the erasure or in    *)
(* what set up the bucket, repeated or not, leaves data in the home bucket *)
(* of an erased user that can still be read.  (Data that was stored before *)
(* the bucket was reported ready, or during the erasure, may be.)          *)
ErasedUnreadable ==
  faults <= 1 =>
    \A d \in data :
      /\ d.owner \in erased /\ d.calm
      /\ d.bucket = Home[d.owner] /\ OwnHome(d.owner)
      => ~ Readable(d)

(* "Hard-deletes all owned MinIO buckets": as long as no call has failed,  *)
(* once the user is gone, so is all that was stored in buckets set up for  *)
(* or by the user and nobody else, whatever the JWT said and whatever other*)
(* users did at the same time.                                             *)
ErasedGone ==
  faults = 0 =>
    \A d \in data :
      d.owner \in erased /\ d.calm => ~ Alone(d.owner, d.bucket)

(* "a transient downstream error never leaves the user in a half-deleted   *)
(* state that they cannot retry": what is left of an erased user's data is *)
(* in buckets that another erasure, with the same JWT, would find.         *)
RetryFinds ==
  \A d \in data :
    d.owner \in erased /\ d.calm =>
      d.bucket \in token[d.owner] \/ registry[d.bucket] = d.owner

(* The registry, "the source of truth" of an erasure, names the present    *)
(* owner of every bucket that has been set up for one user, though nothing *)
(* removes the entry of a bucket that is purged: the next owner of the name*)
(* takes it over.  (Not after a failed call: RegisterBucket's errors are   *)
(* ignored.)                                                               *)
RegistryCurrent ==
  faults = 0 =>
    \A u \in Users, b \in Buckets :
      /\ <<u, b>> \in acked /\ Alone(u, b)
      /\ u \notin erased /\ ~ Erasing(u)
      => registry[b] = u

(* A provisioning that has answered 2xx has had its effect, even where it  *)
(* repeated one that failed half-way or ran beside another: the account    *)
(* has its home bucket among its allowed buckets.                          *)
GrantHeld ==
  \A u \in Users :
    <<u, Home[u]>> \in acked /\ u \notin erased => Home[u] \in granted[u]

(* What is <<whose, where>>: the data that a step deletes, and the buckets *)
(* set up for a user that a step deletes.                                  *)
Lost ==
  {<<d.owner, d.bucket>> : d \in data \ data'} \cup (acked \ acked')

(* An erasure goes by what it was told of the buckets when it began, and   *)
(* deletes them one by one long after; nobody asks again whose they are.   *)
(* Still it deletes nobody else's bucket and nobody else's data, whatever  *)
(* fails, crashes, is repeated or goes on at the same time: but for a home *)
(* that two users share, and a bucket whose name has been used before.     *)
EraseSpares ==
  [][\A p \in Reqs : req'[p] # req[p] =>
       \A l \in Lost :
         \/ l[1] = req[p].user
         \/ Home[l[1]] = l[2] /\ ~ OwnHome(l[1])
         \/ l[2] \in Extra /\ gen[l[2]] > 1]_vars

----------------------------------------------------------------------------
(* The inductive invariant behind these. *)

(* What a request at a step has with it, and has done. *)
Prepared(p) ==
  LET r == req[p] IN
  /\ r.op = "provision" =>
       /\ r.pc \in {"check", "create", "key", "encrypt", "read", "write",
                    "register"}
       /\ r.bucket = Home[r.user] /\ r.bucket \in Buckets
       /\ r.pc = "register" /\ r.user \notin erased
            => r.bucket \in granted[r.user]
  /\ r.op = "create" =>
       r.pc \in {"check", "create", "register"} /\ r.bucket \in Extra
  /\ r.op = "erase" =>
       /\ r.pc \in {"list", "empty", "drop", "shares", "unregister", "user"}
       /\ r.pc = "drop" => r.bucket \in Buckets

AckInv ==
  \A a \in acked :
    a[2] \in buckets /\ (a[2] = Home[a[1]] \/ a[2] \in Extra)

(* Every erasure of the owner, begun or still to come, empties the bucket. *)
Doomed(u, b) ==
  /\ u \notin erased /\ registry[b] = u
  /\ \A p \in Reqs :
       req[p].op = "erase" /\ req[p].user = u =>
         \/ req[p].pc = "list"
         \/ req[p].pc = "empty" /\ b \in req[p].todo
         \/ req[p].pc = "drop" /\ b \in req[p].todo \ {req[p].bucket}

(* No erasure of u is or comes past the key before the key is deleted.     *)
Shredded(u) ==
  /\ u \in erased => u \notin keys
  /\ \A p \in Reqs :
       /\ req[p].op = "erase" /\ req[p].user = u
       /\ req[p].pc \in {"shares", "unregister", "user"}
       => u \notin keys

Keying(u) ==
  \E p \in Reqs : At(p, "provision", "key") /\ req[p].user = u
Encrypting(u) ==
  \E p \in Reqs : At(p, "provision", "encrypt") /\ req[p].user = u

(* What is stored is deleted with the account as long as no call fails...  *)
StoredInv ==
  \A d \in data :
    d.calm =>
      /\ <<d.owner, d.bucket>> \in acked
      /\ faults = 0 /\ Alone(d.owner, d.bucket) => Doomed(d.owner, d.bucket)

(* ... a home bucket is encrypted, or the one failure has been and its     *)
(* owner is registered...                                                  *)
SealedInv ==
  \A u \in Users :
    OwnHome(u) /\ Home[u] \in buckets /\ faults <= 1 =>
      \/ sse[Home[u]] = u
      \/ Keying(u) \/ Encrypting(u)
      \/ /\ faults = 1
         /\ <<u, Home[u]>> \in acked /\ u \notin erased /\ ~ Erasing(u)
              => registry[Home[u]] = u

(* ... and what is in it is deleted, or cannot be read without a key that  *)
(* the erasure deletes and nothing makes again.                            *)
HomeInv ==
  \A d \in data :
    d.calm /\ d.bucket = Home[d.owner] /\ OwnHome(d.owner) =>
      /\ ~ Keying(d.owner)
      /\ faults = 0 => d.key = d.owner
      /\ faults <= 1 =>
           \/ Doomed(d.owner, d.bucket)
           \/ faults = 1 /\ d.key = d.owner /\ Shredded(d.owner)

(* What a request under way has been told of, or has set up itself. *)
InHand(p, u, b) ==
  /\ Busy(p) /\ req[p].user = u
  /\ \/ req[p].op = "provision" /\ b \in req[p].held \cup {req[p].bucket}
     \/ At(p, "create", "register") /\ b = req[p].bucket
     \/ req[p].op = "erase" /\ b \in req[p].todo
     \/ At(p, "erase", "drop") /\ b = req[p].bucket

(* Whoever may come to delete, fill or register a bucket has a claim to it.*)
Claims(u, b) ==
  \/ registry[b] = u
  \/ b \in granted[u] \cup token[u]
  \/ <<u, b>> \in acked
  \/ \E d \in data : d.owner = u /\ d.bucket = b
  \/ \E p \in Reqs : InHand(p, u, b)

(* A home bucket has no claims but those of the users whose home it is; a  *)
(* name that was used once has those of one user, and none before that.    *)
ClaimsInv ==
  /\ \A u \in Users, b \in Homes : Claims(u, b) => Home[u] = b
  /\ \A b \in Extra :
       /\ gen[b] = 0 => \A u \in Users : ~ Claims(u, b)
       /\ gen[b] = 1 => \A u, v \in Users : Claims(u, b) /\ Claims(v, b) => u = v

AccountsInv ==
  /\ TypeOK /\ \A p \in Reqs : Prepared(p)
  /\ AckInv /\ GrantHeld /\ RegistryCurrent
  /\ StoredInv /\ SealedInv /\ HomeInv /\ ClaimsInv
=============================================================================
