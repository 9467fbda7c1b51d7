-------------------------- MODULE AccountErasure --------------------------
(***************************************************************************)
(* DeleteAccountHandler: everything a user has is deleted, bucket by bucket*)
(* and service by service.  The handler goes on over errors, except that a *)
(* crash, or a client that goes away, ends it (Abort).                     *)
(***************************************************************************)
EXTENDS AccountStore

BeginErase(p, u) ==
  /\ Start(p, "erase", "list", u, Nobody)
  /\ UNCHANGED <<keycloak, token, keys, s3Vars, sharesVars, faults>>

(* Mutant: the JWT alone says what is to be deleted.                       *)
Found_Token(u, registered) == token[u]

(* The buckets of the registry, if it answers, and those of the JWT, but   *)
(* for an administrator's "*", which token leaves out.                     *)
Found(u, registered) == registered \cup token[u]

EraseList(p) ==
  LET u == req[p].user
      Registered == {b \in Buckets : registry[b] = u} IN
  /\ At(p, "erase", "list")
  /\ \E registered \in {Registered, {}} :
       /\ IF registered = Registered THEN NoFault ELSE Fault("registry")
       /\ req' = [req EXCEPT ![p].todo = Found(u, registered),
                             ![p].pc = "empty"]
  /\ UNCHANGED <<keycloak, token, keys, s3Vars, sharesVars>>

(* hardDeleteBucket: the objects, page by page, then the bucket.  After an *)
(* error, and for a bucket that is not there, comes the next bucket.       *)
NextBucket(p, b) ==
  req' = [req EXCEPT ![p].todo = @ \ {b}, ![p].pc = "empty"]

EraseEmpty(p, b) ==
  /\ At(p, "erase", "empty")
  /\ b \in req[p].todo
  /\ \/ b \notin buckets /\ UNCHANGED data /\ NextBucket(p, b) /\ NoFault
     \/ /\ b \in buckets
        /\ data' = data \ DataIn(b)
        /\ req' = [req EXCEPT ![p].bucket = b, ![p].pc = "drop"]
        /\ NoFault
     \/ b \in buckets /\ UNCHANGED data /\ NextBucket(p, b) /\ Fault("empty")
  /\ UNCHANGED <<keycloak, token, keys, buckets, sse, gen, acked, sharesVars>>

(* DeleteBucket is an error when something has come into the bucket. *)
Droppable(b) == DataIn(b) = {}

EraseDrop(p) ==
  LET b == req[p].bucket IN
  /\ At(p, "erase", "drop")
  /\ \/ Droppable(b) /\ DropBucket(b) /\ NoFault
     \/ ~ Droppable(b) /\ UNCHANGED <<buckets, sse, acked>> /\ NoFault
     \/ UNCHANGED <<buckets, sse, acked>> /\ Fault("drop")
  /\ NextBucket(p, b)
  /\ UNCHANGED <<keycloak, token, keys, data, gen, sharesVars>>

(* Mutant: the key outlives the account.                                   *)
Shred_Not(u) == UNCHANGED keys

(* VaultClient.DeleteKey *)
Shred(u) == keys' = keys \ {u}

EraseKey(p) ==
  /\ At(p, "erase", "empty") /\ req[p].todo = {}
  /\ \/ Shred(req[p].user) /\ NoFault
     \/ UNCHANGED keys /\ Fault("shred")
  /\ Goto(p, "shares")
  /\ UNCHANGED <<keycloak, token, s3Vars, sharesVars>>

(* DeleteUserShares: two calls, by subject and by e-mail address; when     *)
(* either fails, some records stay.                                        *)
EraseShares(p) ==
  /\ At(p, "erase", "shares")
  /\ \/ shares' = shares \ {req[p].user} /\ NoFault
     \/ UNCHANGED shares /\ Fault("shares")
  /\ Goto(p, "unregister")
  /\ UNCHANGED <<keycloak, token, keys, s3Vars, registry, trashRec>>

(* DeleteUserBuckets *)
Unregister(u) ==
  registry' = [b \in Buckets |-> IF registry[b] = u THEN Nobody
                                                    ELSE registry[b]]

EraseUnregister(p) ==
  /\ At(p, "erase", "unregister")
  /\ \/ Unregister(req[p].user) /\ NoFault
     \/ UNCHANGED registry /\ Fault("unregister")
  /\ Goto(p, "user")
  /\ UNCHANGED <<keycloak, token, keys, s3Vars, trashRec, shares>>

(* KeycloakGranter.DeleteUser, and 204 whatever has become of the rest.    *)
EraseUser(p) ==
  LET u == req[p].user IN
  /\ At(p, "erase", "user")
  /\ \/ /\ erased' = erased \cup {u}
        /\ granted' = [granted EXCEPT ![u] = {}]
        /\ NoFault
     \/ UNCHANGED <<erased, granted>> /\ Fault("user")
  /\ Finish(p)
  /\ UNCHANGED <<token, keys, s3Vars, sharesVars>>

Erase(p) ==
  \/ \E u \in Users : BeginErase(p, u)
  \/ EraseList(p) \/ \E b \in Buckets : EraseEmpty(p, b)
  \/ EraseDrop(p) \/ EraseKey(p)
  \/ EraseShares(p) \/ EraseUnregister(p) \/ EraseUser(p)
=============================================================================
