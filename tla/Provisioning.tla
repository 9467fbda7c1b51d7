--------------------------- MODULE Provisioning ---------------------------
(***************************************************************************)
(* Setting up buckets: ProvisionUserHandler creates a user's home bucket,  *)
(* encrypts it with the user's key, grants it in Keycloak and registers its*)
(* owner; CreateBucketHandler creates another bucket for an administrator. *)
(***************************************************************************)
EXTENDS AccountStore

BeginProvision(p, u) ==
  /\ Home[u] # Nobody
  /\ Start(p, "provision", "check", u, Home[u])
  /\ UNCHANGED <<keycloak, token, keys, s3Vars, sharesVars, faults>>

(* A bucket that exists is not encrypted any more, only granted. *)
ProvisionCheck(p) ==
  /\ At(p, "provision", "check")
  /\ Goto(p, IF req[p].bucket \in buckets THEN "read" ELSE "create")
  /\ UNCHANGED <<keycloak, token, keys, s3Vars, sharesVars, faults, begun>>

ProvisionCreate(p) ==
  /\ At(p, "provision", "create")
  /\ IF CanCreate(req[p].bucket)
     THEN NewBucket(req[p].bucket) /\ Goto(p, "key")
     ELSE UNCHANGED s3Vars /\ Finish(p)
  /\ UNCHANGED <<keycloak, token, keys, sharesVars, faults, begun>>

(* provisionSSEKey: VaultClient.ProvisionKey, then PutBucketEncryption;    *)
(* errors are logged.                                                      *)
ProvisionKey(p) ==
  /\ At(p, "provision", "key")
  /\ \/ keys' = keys \cup {req[p].user} /\ Goto(p, "encrypt") /\ NoFault
     \/ UNCHANGED keys /\ Goto(p, "read") /\ Fault("key")
  /\ UNCHANGED <<keycloak, token, s3Vars, sharesVars>>

(* Mutant: the bucket is left as it was created.                           *)
Encrypt_Not(b, u) == UNCHANGED sse

Encrypt(b, u) ==
  sse' = IF b \in buckets THEN [sse EXCEPT ![b] = u] ELSE sse

ProvisionEncrypt(p) ==
  /\ At(p, "provision", "encrypt")
  /\ \/ Encrypt(req[p].bucket, req[p].user) /\ NoFault
     \/ UNCHANGED sse /\ Fault("encrypt")
  /\ Goto(p, "read")
  /\ UNCHANGED <<keycloak, token, keys, buckets, data, gen, acked, sharesVars>>

(* GrantBucket, with the attribute allowed_buckets declared in the realm.  *)
(* The user's attributes are read, by e-mail address: no user is an error. *)
(* A bucket that is among them needs no more.                              *)
GrantRead(p) ==
  LET u == req[p].user IN
  /\ At(p, "provision", "read")
  /\ IF u \in erased THEN Finish(p)
     ELSE IF req[p].bucket \in granted[u] THEN Goto(p, "register")
     ELSE req' = [req EXCEPT ![p].held = granted[u], ![p].pc = "write"]
  /\ UNCHANGED <<keycloak, token, keys, s3Vars, sharesVars, faults, begun>>

(* Mutant: the list read before is written back without the bucket.        *)
Extended_Not(p) == req[p].held

(* All of the attributes as they were read, with the bucket. *)
Extended(p) == req[p].held \cup {req[p].bucket}

GrantWrite(p) ==
  LET u == req[p].user IN
  /\ At(p, "provision", "write")
  /\ IF u \in erased
     THEN UNCHANGED granted /\ Finish(p)
     ELSE granted' = [granted EXCEPT ![u] = Extended(p)] /\ Goto(p, "register")
  /\ UNCHANGED <<erased, token, keys, s3Vars, sharesVars, faults, begun>>

ProvisionRegister(p) == RegisterAndAnswer(p, "provision")

Provision(p) ==
  \/ \E u \in Users : BeginProvision(p, u)
  \/ ProvisionCheck(p) \/ ProvisionCreate(p) \/ ProvisionKey(p)
  \/ ProvisionEncrypt(p) \/ GrantRead(p) \/ GrantWrite(p)
  \/ ProvisionRegister(p)

----------------------------------------------------------------------------
(* A bucket without a parent, for an administrator: it is registered, but  *)
(* neither encrypted nor granted.                                          *)

BeginCreate(p, u, b) ==
  /\ u \in Admins /\ b \in Extra
  /\ Start(p, "create", "check", u, b)
  /\ UNCHANGED <<keycloak, token, keys, s3Vars, sharesVars, faults>>

(* Mutant: a bucket that is there counts as created, as a home bucket does.*)
CreateCheck_Adopt(p) ==
  /\ At(p, "create", "check")
  /\ Goto(p, IF req[p].bucket \in buckets THEN "register" ELSE "create")
  /\ UNCHANGED <<keycloak, token, keys, s3Vars, sharesVars, faults, begun>>

CreateCheck(p) ==
  /\ At(p, "create", "check")
  /\ IF req[p].bucket \in buckets THEN Finish(p) ELSE Goto(p, "create")
  /\ UNCHANGED <<keycloak, token, keys, s3Vars, sharesVars, faults, begun>>

CreateBucket(p) ==
  /\ At(p, "create", "create")
  /\ IF CanCreate(req[p].bucket)
     THEN NewBucket(req[p].bucket) /\ Goto(p, "register")
     ELSE UNCHANGED s3Vars /\ Finish(p)
  /\ UNCHANGED <<keycloak, token, keys, sharesVars, faults, begun>>

CreateRegister(p) == RegisterAndAnswer(p, "create")

Create(p) ==
  \/ \E u \in Users, b \in Buckets : BeginCreate(p, u, b)
  \/ CreateCheck(p) \/ CreateBucket(p) \/ CreateRegister(p)
=============================================================================
