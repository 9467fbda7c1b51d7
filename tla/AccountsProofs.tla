--------------------------- MODULE AccountsProofs ---------------------------
(***************************************************************************)
(* Proofs about Accounts, for any sets of users, buckets and requests, any *)
(* home buckets, shared ones among them, any failing calls and any bounds. *)
(***************************************************************************)
EXTENDS Accounts, TLAPS

(* The bounds of the model are natural numbers. *)
LEMMA Numbers ==
  MaxFaults \in Nat /\ MaxBegun \in Nat /\ MaxItems \in Nat /\ MaxGen \in Nat
BY BoundsAssumption

(* No other bucket is a home, and every home is a bucket. *)
LEMMA HomesOrExtra ==
  /\ \A u \in Users : Home[u] \in Buckets \cup {Nobody}
  /\ \A u \in Users, b \in Extra : b \in Buckets /\ b # Home[u]
<1>1. Home \in [Users -> Buckets \cup {Nobody}] BY HomeAssumption
<1> QED BY <1>1, NobodyAssumption DEF Extra, Homes

----------------------------------------------------------------------------
(* Types. *)

(* A request that is under way is a proper request. *)
LEMMA BusyType ==
  ASSUME TypeOK, NEW p \in Reqs, req[p].op # "none"
  PROVE  req[p] \in Requests
BY DEF TypeOK, Idle

(* Moving a request on or ending it keeps the requests typed. *)
LEMMA GotoType ==
  ASSUME TypeOK, NEW p \in Reqs, req[p] \in Requests,
         NEW pc \in {"check", "create", "key", "encrypt", "read", "write",
                     "register", "list", "empty", "drop", "shares",
                     "unregister", "user"},
         Goto(p, pc)
  PROVE  req' \in [Reqs -> Requests \cup {Idle}]
<1>1. [req[p] EXCEPT !.pc = pc] \in Requests BY DEF Requests
<1> QED BY <1>1 DEF Goto, TypeOK

(* Ending a request keeps the requests typed.                              *)
LEMMA FinishType ==
  ASSUME TypeOK, NEW p \in Reqs, Finish(p)
  PROVE  req' \in [Reqs -> Requests \cup {Idle}]
BY DEF Finish, TypeOK

(* Requests begin within the bound, properly. *)
LEMMA StartType ==
  ASSUME TypeOK, NEW p \in Reqs,
         NEW op \in {"provision", "create", "erase"},
         NEW pc \in {"check", "list"},
         NEW u \in Users, NEW b \in Buckets \cup {Nobody},
         Start(p, op, pc, u, b)
  PROVE  req' \in [Reqs -> Requests \cup {Idle}] /\ begun' \in 0..MaxBegun
<1>1. [op |-> op, pc |-> pc, user |-> u, bucket |-> b, held |-> {},
       todo |-> {}] \in Requests
  BY DEF Requests
<1> QED BY <1>1, Numbers DEF Start, TypeOK

(* A call that fails counts, within the bound. *)
LEMMA CountersType ==
  ASSUME TypeOK, NoFault \/ \E call : Fault(call)
  PROVE  faults' \in 0..MaxFaults /\ begun' \in 0..MaxBegun
BY Numbers DEF TypeOK, NoFault, Fault

(* What happens outside the requests. *)
LEMMA OutsideType ==
  ASSUME TypeOK, Outside
  PROVE  TypeOK'
<1> USE DEF keycloak, s3Vars, sharesVars
<1>1. PICK u \in Users, b \in Buckets :
        Refresh(u) \/ Upload(u, b) \/ Trash(u, b) \/ Purge(b)
  BY DEF Outside
<1>2. CASE Refresh(u) BY <1>2 DEF Refresh, TypeOK
<1>3. CASE Upload(u, b)
  <2>1. [bucket |-> b, owner |-> u, key |-> sse[b], calm |-> Calm(u, b)] \in Items
    BY DEF TypeOK, Items, Calm
  <2> QED BY <1>3, <2>1 DEF Upload, TypeOK
<1>4. CASE Trash(u, b) BY <1>4 DEF Trash, TypeOK
<1>5. CASE Purge(b)
  BY <1>5, Numbers DEF Purge, DropBucket, DataIn, TypeOK
<1> QED BY <1>1, <1>2, <1>3, <1>4, <1>5

(* The provisioning of home buckets. *)
LEMMA ProvisionType ==
  ASSUME TypeOK, NEW p \in Reqs, Prepared(p), Provision(p)
  PROVE  TypeOK'
<1> USE DEF keycloak, s3Vars, sharesVars
<1>1. ASSUME req[p].op = "provision"
      PROVE  /\ req[p] \in Requests /\ req[p].bucket \in Buckets
             /\ req[p].user \in Users /\ req[p].held \subseteq Buckets
  BY <1>1, BusyType DEF Prepared, Requests
<1>2. ASSUME NEW u \in Users, BeginProvision(p, u) PROVE TypeOK'
  <2>1. req' \in [Reqs -> Requests \cup {Idle}] /\ begun' \in 0..MaxBegun
    BY <1>2, StartType, HomesOrExtra DEF BeginProvision
  <2> QED BY <1>2, <2>1 DEF BeginProvision, TypeOK
<1>3. CASE ProvisionCheck(p)
  <2>1. req' \in [Reqs -> Requests \cup {Idle}]
    BY <1>1, <1>3, GotoType DEF ProvisionCheck, At
  <2> QED BY <1>3, <2>1 DEF ProvisionCheck, TypeOK
<1>4. CASE ProvisionCreate(p)
  <2>1. req' \in [Reqs -> Requests \cup {Idle}]
    BY <1>1, <1>4, GotoType, FinishType DEF ProvisionCreate, At
  <2> QED BY <1>1, <1>4, <2>1, Numbers
          DEF ProvisionCreate, NewBucket, CanCreate, At, TypeOK
<1>5. CASE ProvisionKey(p)
  <2>1. req' \in [Reqs -> Requests \cup {Idle}]
    BY <1>1, <1>5, GotoType DEF ProvisionKey, At
  <2> QED BY <1>1, <1>5, <2>1, CountersType DEF ProvisionKey, At, TypeOK
<1>6. CASE ProvisionEncrypt(p)
  <2>1. req' \in [Reqs -> Requests \cup {Idle}]
    BY <1>1, <1>6, GotoType DEF ProvisionEncrypt, At
  <2> QED BY <1>1, <1>6, <2>1, CountersType
          DEF ProvisionEncrypt, Encrypt, At, TypeOK
<1>7. CASE GrantRead(p)
  <2>1. [req[p] EXCEPT !.held = granted[req[p].user], !.pc = "write"] \in Requests
    BY <1>1, <1>7 DEF GrantRead, At, Requests, TypeOK
  <2>2. req' \in [Reqs -> Requests \cup {Idle}]
    BY <1>1, <1>7, <2>1, GotoType, FinishType DEF GrantRead, At, TypeOK
  <2> QED BY <1>7, <2>2 DEF GrantRead, TypeOK
<1>8. CASE GrantWrite(p)
  <2>1. req' \in [Reqs -> Requests \cup {Idle}]
    BY <1>1, <1>8, GotoType, FinishType DEF GrantWrite, At
  <2>2. Extended(p) \in SUBSET Buckets
    BY <1>1, <1>8 DEF GrantWrite, At, Extended
  <2> QED BY <1>8, <2>1, <2>2 DEF GrantWrite, TypeOK
<1>9. CASE ProvisionRegister(p)
  <2>1. req' \in [Reqs -> Requests \cup {Idle}]
    BY <1>9, FinishType DEF ProvisionRegister, RegisterAndAnswer
  <2> QED BY <1>1, <1>9, <2>1, CountersType
          DEF ProvisionRegister, RegisterAndAnswer, RegisterBucket, At, TypeOK
<1> QED BY <1>2, <1>3, <1>4, <1>5, <1>6, <1>7, <1>8, <1>9 DEF Provision

(* The creation of other buckets. *)
LEMMA CreateType ==
  ASSUME TypeOK, NEW p \in Reqs, Prepared(p), Create(p)
  PROVE  TypeOK'
<1> USE DEF keycloak, s3Vars, sharesVars
<1>1. ASSUME req[p].op = "create"
      PROVE  /\ req[p] \in Requests /\ req[p].bucket \in Buckets
             /\ req[p].user \in Users
  BY <1>1, BusyType DEF Prepared, Requests, Extra
<1>2. ASSUME NEW u \in Users, NEW b \in Buckets, BeginCreate(p, u, b)
      PROVE  TypeOK'
  <2>1. req' \in [Reqs -> Requests \cup {Idle}] /\ begun' \in 0..MaxBegun
    BY <1>2, StartType DEF BeginCreate
  <2> QED BY <1>2, <2>1 DEF BeginCreate, TypeOK
<1>3. CASE CreateCheck(p)
  <2>1. req' \in [Reqs -> Requests \cup {Idle}]
    BY <1>1, <1>3, GotoType, FinishType DEF CreateCheck, At
  <2> QED BY <1>3, <2>1 DEF CreateCheck, TypeOK
<1>4. CASE CreateBucket(p)
  <2>1. req' \in [Reqs -> Requests \cup {Idle}]
    BY <1>1, <1>4, GotoType, FinishType DEF CreateBucket, At
  <2> QED BY <1>1, <1>4, <2>1, Numbers
          DEF CreateBucket, NewBucket, CanCreate, At, TypeOK
<1>5. CASE CreateRegister(p)
  <2>1. req' \in [Reqs -> Requests \cup {Idle}]
    BY <1>5, FinishType DEF CreateRegister, RegisterAndAnswer
  <2> QED BY <1>1, <1>5, <2>1, CountersType
          DEF CreateRegister, RegisterAndAnswer, RegisterBucket, At, TypeOK
<1> QED BY <1>2, <1>3, <1>4, <1>5 DEF Create

(* The erasure of accounts. *)
LEMMA EraseType ==
  ASSUME TypeOK, NEW p \in Reqs, Prepared(p), Erase(p)
  PROVE  TypeOK'
<1> USE DEF keycloak, s3Vars, sharesVars
<1>1. ASSUME req[p].op = "erase"
      PROVE  /\ req[p] \in Requests /\ req[p].user \in Users
             /\ req[p].todo \subseteq Buckets
             /\ req[p].pc = "drop" => req[p].bucket \in Buckets
  BY <1>1, BusyType DEF Prepared, Requests
<1>2. ASSUME NEW u \in Users, BeginErase(p, u) PROVE TypeOK'
  <2>1. req' \in [Reqs -> Requests \cup {Idle}] /\ begun' \in 0..MaxBegun
    BY <1>2, StartType DEF BeginErase
  <2> QED BY <1>2, <2>1 DEF BeginErase, TypeOK
<1>3. CASE EraseList(p)
  <2>1. PICK registered \in SUBSET Buckets :
          req' = [req EXCEPT ![p] = [req[p] EXCEPT
                    !.todo = Found(req[p].user, registered), !.pc = "empty"]]
    BY <1>3 DEF EraseList
  <2>2. Found(req[p].user, registered) \subseteq Buckets
    BY <1>1, <1>3 DEF EraseList, At, Found, TypeOK
  <2>3. req' \in [Reqs -> Requests \cup {Idle}]
    <3>1. [req[p] EXCEPT !.todo = Found(req[p].user, registered), !.pc = "empty"]
            \in Requests
      BY <1>1, <1>3, <2>2 DEF EraseList, At, Requests
    <3> QED BY <2>1, <3>1 DEF TypeOK
  <2>4. faults' \in 0..MaxFaults /\ begun' \in 0..MaxBegun
    BY <1>3, CountersType DEF EraseList
  <2> QED BY <1>3, <2>3, <2>4 DEF EraseList, TypeOK
<1>4. ASSUME NEW b \in Buckets, req[p].op = "erase", NextBucket(p, b)
      PROVE  req' \in [Reqs -> Requests \cup {Idle}]
  <2>1. [req[p] EXCEPT !.todo = @ \ {b}, !.pc = "empty"] \in Requests
    BY <1>1, <1>4 DEF Requests
  <2> QED BY <1>4, <2>1 DEF NextBucket, TypeOK
<1>5. ASSUME NEW b \in Buckets, EraseEmpty(p, b) PROVE TypeOK'
  <2>1. [req[p] EXCEPT !.bucket = b, !.pc = "drop"] \in Requests
    BY <1>1, <1>5 DEF EraseEmpty, At, Requests
  <2>2. req' \in [Reqs -> Requests \cup {Idle}]
    BY <1>4, <1>5, <2>1 DEF EraseEmpty, At, TypeOK
  <2>3. faults' \in 0..MaxFaults /\ begun' \in 0..MaxBegun
    BY <1>5, CountersType DEF EraseEmpty
  <2>4. data' \subseteq data BY <1>5 DEF EraseEmpty, DataIn
  <2> QED BY <1>5, <2>2, <2>3, <2>4 DEF EraseEmpty, TypeOK
<1>6. CASE EraseDrop(p)
  <2>1. req' \in [Reqs -> Requests \cup {Idle}]
    BY <1>1, <1>4, <1>6 DEF EraseDrop, At
  <2>2. faults' \in 0..MaxFaults /\ begun' \in 0..MaxBegun
    BY <1>6, CountersType DEF EraseDrop
  <2>3. /\ buckets' \subseteq Buckets
        /\ sse' \in [Buckets -> Users \cup {Nobody}]
        /\ acked' \subseteq Users \X Buckets
        /\ \A d \in data : d.bucket \in buckets'
    BY <1>6 DEF EraseDrop, DropBucket, Droppable, DataIn, TypeOK
  <2> QED BY <1>6, <2>1, <2>2, <2>3 DEF EraseDrop, TypeOK
<1>7. CASE EraseKey(p)
  <2>1. req' \in [Reqs -> Requests \cup {Idle}]
    BY <1>1, <1>7, GotoType DEF EraseKey, At
  <2> QED BY <1>7, <2>1, CountersType DEF EraseKey, Shred, TypeOK
<1>8. CASE EraseShares(p)
  <2>1. req' \in [Reqs -> Requests \cup {Idle}]
    BY <1>1, <1>8, GotoType DEF EraseShares, At
  <2> QED BY <1>8, <2>1, CountersType DEF EraseShares, TypeOK
<1>9. CASE EraseUnregister(p)
  <2>1. req' \in [Reqs -> Requests \cup {Idle}]
    BY <1>1, <1>9, GotoType DEF EraseUnregister, At
  <2> QED BY <1>9, <2>1, CountersType DEF EraseUnregister, Unregister, TypeOK
<1>10. CASE EraseUser(p)
  <2>1. req' \in [Reqs -> Requests \cup {Idle}]
    BY <1>10, FinishType DEF EraseUser
  <2> QED BY <1>1, <1>10, <2>1, CountersType DEF EraseUser, At, TypeOK
<1> QED BY <1>2, <1>3, <1>5, <1>6, <1>7, <1>8, <1>9, <1>10 DEF Erase

(* Every step keeps the types. *)
LEMMA NextType ==
  ASSUME TypeOK, \A p \in Reqs : Prepared(p), [Next]_vars
  PROVE  TypeOK'
<1>1. CASE UNCHANGED vars BY <1>1 DEF vars, TypeOK
<1>2. CASE Outside BY <1>2, OutsideType
<1>3. ASSUME NEW p \in Reqs, Abort(p) PROVE TypeOK'
  <2>1. req' \in [Reqs -> Requests \cup {Idle}]
    BY <1>3, FinishType DEF Abort
  <2>2. faults' \in 0..MaxFaults /\ begun' \in 0..MaxBegun
    BY <1>3, CountersType DEF Abort
  <2> QED BY <1>3, <2>1, <2>2 DEF Abort, TypeOK, keycloak, s3Vars, sharesVars
<1> QED BY <1>1, <1>2, <1>3, ProvisionType, CreateType, EraseType
        DEF Next, Step

----------------------------------------------------------------------------
(* What the steps of the families of requests may change. *)

(* The number of failed calls never goes down. *)
LEMMA FaultsStay ==
  ASSUME TypeOK, \A p \in Reqs : Prepared(p), [Next]_vars
  PROVE  faults \in Nat /\ faults' \in Nat /\ faults <= faults'
<1>1. faults \in Nat BY Numbers DEF TypeOK
<1>2. faults' \in Nat BY NextType, Numbers DEF TypeOK
<1>3. CASE UNCHANGED vars BY <1>1, <1>3 DEF vars
<1>4. CASE Outside
  BY <1>1, <1>4 DEF Outside, Refresh, Upload, Trash, Purge
<1>5. ASSUME NEW p \in Reqs, Step(p) PROVE faults <= faults'
  <2> USE <1>1 DEF NoFault, Fault
  <2>1. CASE Provision(p)
    BY <2>1 DEF Provision, BeginProvision, ProvisionCheck, ProvisionCreate,
                ProvisionKey, ProvisionEncrypt, GrantRead, GrantWrite,
                ProvisionRegister, RegisterAndAnswer, RegisterBucket
  <2>2. CASE Create(p)
    BY <2>2 DEF Create, BeginCreate, CreateCheck, CreateBucket,
                CreateRegister, RegisterAndAnswer, RegisterBucket
  <2>3. CASE Erase(p)
    <3>1. CASE EraseList(p) BY <3>1 DEF EraseList
    <3>2. ASSUME NEW u \in Users, BeginErase(p, u) PROVE faults <= faults'
      BY <3>2 DEF BeginErase
    <3>3. ASSUME NEW b \in Buckets, EraseEmpty(p, b) PROVE faults <= faults'
      BY <3>3 DEF EraseEmpty
    <3>4. CASE EraseDrop(p) BY <3>4 DEF EraseDrop
    <3>5. CASE EraseKey(p) \/ EraseShares(p) \/ EraseUnregister(p) \/ EraseUser(p)
      BY <3>5 DEF EraseKey, EraseShares, EraseUnregister, EraseUser
    <3> QED BY <2>3, <3>1, <3>2, <3>3, <3>4, <3>5 DEF Erase
  <2>4. CASE Abort(p) BY <2>4 DEF Abort
  <2> QED BY <1>5, <2>1, <2>2, <2>3, <2>4 DEF Step
<1> QED BY <1>1, <1>2, <1>3, <1>4, <1>5 DEF Next

(* A step of one request leaves the others as they are. *)
LEMMA OneMoves ==
  ASSUME TypeOK, NEW p \in Reqs, Step(p), NEW q \in Reqs \ {p}
  PROVE  req'[q] = req[q]
<1> USE DEF TypeOK, Start, Goto, Finish
<1>1. CASE Provision(p)
  BY <1>1 DEF Provision, BeginProvision, ProvisionCheck, ProvisionCreate,
              ProvisionKey, ProvisionEncrypt, GrantRead, GrantWrite,
              ProvisionRegister, RegisterAndAnswer
<1>2. CASE Create(p)
  BY <1>2 DEF Create, BeginCreate, CreateCheck, CreateBucket, CreateRegister,
              RegisterAndAnswer
<1>3. CASE Erase(p)
  BY <1>3 DEF Erase, BeginErase, EraseList, EraseEmpty, NextBucket, EraseDrop,
              EraseKey, EraseShares, EraseUnregister, EraseUser
<1>4. CASE Abort(p) BY <1>4 DEF Abort
<1> QED BY <1>1, <1>2, <1>3, <1>4 DEF Step

(* What goes on outside touches neither requests nor accounts, owners or   *)
(* keys.                                                                   *)
LEMMA OutsideFrame ==
  ASSUME Outside
  PROVE  UNCHANGED <<req, erased, granted, keys, registry, faults>>
BY DEF Outside, Refresh, Upload, Trash, Purge, keycloak, sharesVars, s3Vars

(* Setting up a bucket removes nothing, and erases nobody. *)
LEMMA SetUpFrame ==
  ASSUME TypeOK, NEW p \in Reqs, Prepared(p), Provision(p) \/ Create(p)
  PROVE  /\ UNCHANGED <<erased, data>>
         /\ buckets \subseteq buckets' /\ acked \subseteq acked'
         /\ req[p].op # "erase" /\ req'[p].op # "erase"
<1> USE DEF TypeOK, Start, Goto, Finish, At, Busy, Idle, keycloak, s3Vars,
            sharesVars
<1>1. ASSUME req[p].op \in {"provision", "create"}, NEW pc, Goto(p, pc)
      PROVE  req'[p].op = req[p].op
  <2>1. req[p] \in Requests BY <1>1, BusyType
  <2> QED BY <1>1, <2>1 DEF Requests
<1>2. ASSUME Finish(p) PROVE req'[p].op = "none" BY <1>2
<1>3. ASSUME NEW u \in Users, BeginProvision(p, u)
      PROVE  /\ UNCHANGED <<erased, data, buckets, acked>>
             /\ req[p].op # "erase" /\ req'[p].op = "provision"
  <2>1. req[p] = Idle BY <1>3 DEF BeginProvision, Requests
  <2> QED BY <1>3, <2>1 DEF BeginProvision
<1>4. CASE ProvisionCheck(p) BY <1>1, <1>4 DEF ProvisionCheck
<1>5. CASE ProvisionCreate(p)
  BY <1>1, <1>2, <1>5 DEF ProvisionCreate, NewBucket
<1>6. CASE ProvisionKey(p) BY <1>1, <1>6 DEF ProvisionKey
<1>7. CASE ProvisionEncrypt(p) BY <1>1, <1>7 DEF ProvisionEncrypt
<1>8. CASE GrantRead(p)
  <2>1. CASE req' = [req EXCEPT ![p].held = granted[req[p].user], ![p].pc = "write"]
    <3>1. req[p] \in Requests BY <1>8, BusyType DEF GrantRead
    <3> QED BY <1>8, <2>1, <3>1 DEF GrantRead, Requests
  <2> QED BY <1>1, <1>2, <1>8, <2>1 DEF GrantRead
<1>9. CASE GrantWrite(p) BY <1>1, <1>2, <1>9 DEF GrantWrite
<1>10. CASE ProvisionRegister(p)
  BY <1>2, <1>10 DEF ProvisionRegister, RegisterAndAnswer
<1>11. ASSUME NEW u \in Users, NEW b \in Buckets, BeginCreate(p, u, b)
       PROVE  /\ UNCHANGED <<erased, data, buckets, acked>>
              /\ req[p].op # "erase" /\ req'[p].op = "create"
  <2>1. req[p] = Idle BY <1>11 DEF BeginCreate, Requests
  <2> QED BY <1>11, <2>1 DEF BeginCreate
<1>12. CASE CreateCheck(p) BY <1>1, <1>2, <1>12 DEF CreateCheck
<1>13. CASE CreateBucket(p) BY <1>1, <1>2, <1>13 DEF CreateBucket, NewBucket
<1>14. CASE CreateRegister(p)
  BY <1>2, <1>14 DEF CreateRegister, RegisterAndAnswer
<1>15. CASE Provision(p)
  BY <1>3, <1>4, <1>5, <1>6, <1>7, <1>8, <1>9, <1>10, <1>15 DEF Provision
<1>16. CASE Create(p) BY <1>11, <1>12, <1>13, <1>14, <1>16 DEF Create
<1> QED BY <1>15, <1>16

(* Nothing that AccountsInv relates changes.                               *)
Unmoved == UNCHANGED <<erased, granted, keys, buckets, sse, data, acked, registry>>

(* The steps that only read or move a request on do not touch the accounts, *)
(* the keys, the buckets, the data, what was answered or the registry.     *)
LEMMA QuietSteps ==
  ASSUME NEW p \in Reqs,
         \/ \E u \in Users : BeginProvision(p, u) \/ BeginErase(p, u)
         \/ \E u \in Users, b \in Buckets : BeginCreate(p, u, b)
         \/ ProvisionCheck(p) \/ GrantRead(p) \/ CreateCheck(p)
         \/ EraseList(p) \/ EraseShares(p) \/ Abort(p)
  PROVE  Unmoved
<1> USE DEF Unmoved, keycloak, s3Vars, sharesVars
<1>1. CASE \E u \in Users : BeginProvision(p, u) \/ BeginErase(p, u)
  BY <1>1 DEF BeginProvision, BeginErase
<1>2. CASE \E u \in Users, b \in Buckets : BeginCreate(p, u, b)
  BY <1>2 DEF BeginCreate
<1>3. CASE ProvisionCheck(p) \/ GrantRead(p) \/ CreateCheck(p)
  BY <1>3 DEF ProvisionCheck, GrantRead, CreateCheck
<1>4. CASE EraseList(p) BY <1>4 DEF EraseList
<1>5. CASE EraseShares(p) \/ Abort(p) BY <1>5 DEF EraseShares, Abort
<1> QED BY <1>1, <1>2, <1>3, <1>4, <1>5

(* The accounts change at the grant and at the end of an erasure only. *)
LEMMA AccountsMove ==
  ASSUME TypeOK, [Next]_vars
  PROVE  \/ UNCHANGED <<erased, granted>>
         \/ \E p \in Reqs : GrantWrite(p) \/ EraseUser(p)
<1> USE DEF keycloak, s3Vars, sharesVars
<1>1. CASE UNCHANGED vars BY <1>1 DEF vars
<1>2. CASE Outside BY <1>2, OutsideFrame
<1>3. ASSUME NEW p \in Reqs, Step(p)
      PROVE  UNCHANGED <<erased, granted>> \/ GrantWrite(p) \/ EraseUser(p)
  <2>1. CASE Provision(p)
    BY <2>1, QuietSteps DEF Provision, ProvisionCreate, ProvisionKey,
         ProvisionEncrypt, ProvisionRegister, RegisterAndAnswer, Unmoved
  <2>2. CASE Create(p)
    BY <2>2, QuietSteps DEF Create, CreateBucket, CreateRegister,
         RegisterAndAnswer, Unmoved
  <2>3. CASE Erase(p)
    BY <2>3, QuietSteps DEF Erase, EraseEmpty, EraseDrop, EraseKey,
         EraseUnregister, Unmoved
  <2>4. CASE Abort(p) BY <2>4, QuietSteps DEF Unmoved
  <2> QED BY <1>3, <2>1, <2>2, <2>3, <2>4 DEF Step
<1> QED BY <1>1, <1>2, <1>3 DEF Next

(* Accounts that are gone stay gone; the others keep their home buckets.   *)
LEMMA GrantsStay ==
  ASSUME TypeOK, \A p \in Reqs : Prepared(p), [Next]_vars,
         NEW u \in Users
  PROVE  /\ u \in erased => u \in erased'
         /\ u \notin erased' /\ Home[u] \in granted[u] => Home[u] \in granted'[u]
<1>1. CASE UNCHANGED <<erased, granted>> BY <1>1
<1>2. ASSUME NEW p \in Reqs, GrantWrite(p)
      PROVE  /\ erased' = erased
             /\ Home[u] \in granted[u] => Home[u] \in granted'[u]
  <2>1. /\ req[p] \in Requests
        /\ req[p].bucket = Home[req[p].user]
    BY <1>2, BusyType DEF GrantWrite, At, Prepared
  <2> QED BY <1>2, <2>1 DEF GrantWrite, Extended, Requests, TypeOK
<1>3. ASSUME NEW p \in Reqs, EraseUser(p)
      PROVE  /\ u \in erased => u \in erased'
             /\ u \notin erased' => granted'[u] = granted[u]
  BY <1>3 DEF EraseUser, TypeOK
<1> QED BY <1>1, <1>2, <1>3, AccountsMove

----------------------------------------------------------------------------
(* Requests go prepared from step to step. *)

(* The steps of the set-up of a bucket. *)
LEMMA SetUpPrepared ==
  ASSUME TypeOK, NEW p \in Reqs, Prepared(p), Provision(p) \/ Create(p)
  PROVE  Prepared(p)'
<1> USE DEF Prepared, At
<1>1. ASSUME NEW pc, Goto(p, pc), req[p] \in Requests
      PROVE  req'[p] = [req[p] EXCEPT !.pc = pc]
  BY <1>1 DEF Goto, TypeOK
<1>2. ASSUME Finish(p) PROVE Prepared(p)'
  BY <1>2 DEF Finish, Idle, TypeOK
<1>3. ASSUME NEW pc \in {"check", "create", "key", "encrypt", "read", "write"},
             Goto(p, pc), req[p].op = "provision"
      PROVE  Prepared(p)'
  <2>1. req[p] \in Requests BY <1>3, BusyType
  <2>2. req'[p] = [req[p] EXCEPT !.pc = pc] BY <1>1, <1>3, <2>1
  <2> QED BY <1>3, <2>1, <2>2 DEF Requests
<1>4. ASSUME NEW pc \in {"check", "create", "register"}, Goto(p, pc),
             req[p].op = "create"
      PROVE  Prepared(p)'
  <2>1. req[p] \in Requests BY <1>4, BusyType
  <2>2. req'[p] = [req[p] EXCEPT !.pc = pc] BY <1>1, <1>4, <2>1
  <2> QED BY <1>4, <2>1, <2>2 DEF Requests
<1>5. ASSUME NEW u \in Users, BeginProvision(p, u) PROVE Prepared(p)'
  BY <1>5, HomesOrExtra DEF BeginProvision, Start, TypeOK
<1>6. CASE ProvisionCheck(p) BY <1>3, <1>6 DEF ProvisionCheck
<1>7. CASE ProvisionCreate(p) BY <1>2, <1>3, <1>7 DEF ProvisionCreate
<1>8. CASE ProvisionKey(p) BY <1>3, <1>8 DEF ProvisionKey
<1>9. CASE ProvisionEncrypt(p) BY <1>3, <1>9 DEF ProvisionEncrypt
<1>10. CASE GrantRead(p)
  <2>1. req[p] \in Requests BY <1>10, BusyType DEF GrantRead
  <2>2. UNCHANGED <<erased, granted>> BY <1>10 DEF GrantRead, keycloak
  <2>3. CASE req' = [req EXCEPT ![p].held = granted[req[p].user], ![p].pc = "write"]
    <3>1. req'[p] = [req[p] EXCEPT !.held = granted[req[p].user], !.pc = "write"]
      BY <2>1, <2>3 DEF TypeOK
    <3> QED BY <1>10, <2>1, <3>1 DEF GrantRead, Requests
  <2>4. CASE Goto(p, "register") /\ req[p].bucket \in granted[req[p].user]
    <3>1. req'[p] = [req[p] EXCEPT !.pc = "register"] BY <1>1, <2>1, <2>4
    <3> QED BY <1>10, <2>1, <2>2, <2>4, <3>1 DEF GrantRead, Requests
  <2> QED BY <1>2, <1>10, <2>3, <2>4 DEF GrantRead
<1>11. CASE GrantWrite(p)
  <2>1. req[p] \in Requests BY <1>11, BusyType DEF GrantWrite
  <2>2. CASE /\ granted' = [granted EXCEPT ![req[p].user] = Extended(p)]
             /\ Goto(p, "register")
    <3>1. req'[p] = [req[p] EXCEPT !.pc = "register"] BY <1>1, <2>1, <2>2
    <3>2. req[p].bucket \in granted'[req[p].user]
      BY <2>1, <2>2 DEF Extended, Requests, TypeOK
    <3> QED BY <1>11, <2>1, <3>1, <3>2 DEF GrantWrite, Requests
  <2> QED BY <1>2, <1>11, <2>2 DEF GrantWrite
<1>12. CASE ProvisionRegister(p) \/ CreateRegister(p)
  BY <1>2, <1>12 DEF ProvisionRegister, CreateRegister, RegisterAndAnswer
<1>13. ASSUME NEW u \in Users, NEW b \in Buckets, BeginCreate(p, u, b)
       PROVE  Prepared(p)'
  BY <1>13 DEF BeginCreate, Start, TypeOK
<1>14. CASE CreateCheck(p) BY <1>2, <1>4, <1>14 DEF CreateCheck
<1>15. CASE CreateBucket(p) BY <1>2, <1>4, <1>15 DEF CreateBucket
<1> QED BY <1>5, <1>6, <1>7, <1>8, <1>9, <1>10, <1>11, <1>12, <1>13, <1>14,
           <1>15 DEF Provision, Create

(* What an erasure does to its own request: it moves on for the same user, *)
(* starts with the list, or ends.                                          *)
LEMMA EraseMoves ==
  ASSUME TypeOK, NEW p \in Reqs, Prepared(p), Erase(p)
  PROVE  \/ req'[p] = Idle /\ req[p].op = "erase"
         \/ /\ req[p] = Idle
            /\ req'[p].op = "erase" /\ req'[p].pc = "list"
         \/ /\ req[p].op = "erase"
            /\ req'[p].op = "erase" /\ req'[p].user = req[p].user
            /\ req'[p].pc \in {"empty", "drop", "shares", "unregister", "user"}
            /\ req'[p].pc = "drop" => req'[p].bucket \in Buckets
<1> USE DEF At, TypeOK
<1>1. ASSUME NEW pc \in {"empty", "shares", "unregister", "user"}, Goto(p, pc),
             req[p].op = "erase"
      PROVE  /\ req'[p].op = "erase" /\ req'[p].user = req[p].user
             /\ req'[p].pc = pc
  <2>1. req[p] \in Requests BY <1>1, BusyType
  <2> QED BY <1>1, <2>1 DEF Goto, Requests
<1>2. ASSUME NEW b, NextBucket(p, b), req[p].op = "erase"
      PROVE  /\ req'[p].op = "erase" /\ req'[p].user = req[p].user
             /\ req'[p].pc = "empty"
  <2>1. req[p] \in Requests BY <1>2, BusyType
  <2> QED BY <1>2, <2>1 DEF NextBucket, Requests
<1>3. ASSUME NEW u \in Users, BeginErase(p, u)
      PROVE  /\ req[p] = Idle
             /\ req'[p].op = "erase" /\ req'[p].pc = "list"
  BY <1>3 DEF BeginErase, Start, Busy, Requests
<1>4. CASE EraseList(p)
  <2>1. req[p] \in Requests BY <1>4, BusyType DEF EraseList
  <2>2. PICK registered :
          req' = [req EXCEPT ![p].todo = Found(req[p].user, registered),
                             ![p].pc = "empty"]
    BY <1>4 DEF EraseList
  <2> QED BY <1>4, <2>1, <2>2 DEF EraseList, Requests
<1>5. ASSUME NEW b \in Buckets, EraseEmpty(p, b)
      PROVE  /\ req[p].op = "erase"
             /\ req'[p].op = "erase" /\ req'[p].user = req[p].user
             /\ req'[p].pc \in {"empty", "drop"}
             /\ req'[p].pc = "drop" => req'[p].bucket \in Buckets
  <2>1. req[p] \in Requests BY <1>5, BusyType DEF EraseEmpty
  <2>2. CASE req' = [req EXCEPT ![p].bucket = b, ![p].pc = "drop"]
    BY <1>5, <2>1, <2>2 DEF EraseEmpty, Requests
  <2> QED BY <1>2, <1>5, <2>2 DEF EraseEmpty
<1>6. CASE EraseDrop(p) BY <1>2, <1>6 DEF EraseDrop
<1>7. CASE EraseKey(p) BY <1>1, <1>7 DEF EraseKey
<1>8. CASE EraseShares(p) BY <1>1, <1>8 DEF EraseShares
<1>9. CASE EraseUnregister(p) BY <1>1, <1>9 DEF EraseUnregister
<1>10. CASE EraseUser(p) BY <1>10 DEF EraseUser, Finish
<1> QED BY <1>3, <1>4, <1>5, <1>6, <1>7, <1>8, <1>9, <1>10 DEF Erase

(* All requests are prepared after every step. *)
LEMMA PreparedNext ==
  ASSUME TypeOK, \A p \in Reqs : Prepared(p), [Next]_vars, NEW q \in Reqs
  PROVE  Prepared(q)'
<1>1. ASSUME req'[q] = req[q] PROVE Prepared(q)'
  <2>1. CASE req[q].op = "provision"
    <3>1. req[q] \in Requests BY <2>1, BusyType
    <3> QED BY <1>1, <2>1, <3>1, GrantsStay DEF Prepared, Requests
  <2> QED BY <1>1, <2>1 DEF Prepared
<1>2. CASE UNCHANGED vars BY <1>1, <1>2 DEF vars
<1>3. CASE Outside BY <1>1, <1>3, OutsideFrame
<1>4. ASSUME NEW p \in Reqs, Step(p) PROVE Prepared(q)'
  <2>1. CASE q # p BY <1>1, <1>4, <2>1, OneMoves
  <2>2. CASE q = p /\ Erase(p)
    BY <2>2, EraseMoves DEF Prepared, Idle
  <2>3. CASE q = p /\ Abort(p)
    BY <2>3 DEF Abort, Finish, Prepared, Idle, TypeOK
  <2> QED BY <1>4, <2>1, <2>2, <2>3, SetUpPrepared DEF Step
<1> QED BY <1>2, <1>3, <1>4 DEF Next

----------------------------------------------------------------------------
(* Which steps touch what the invariants relate. *)

Registers(p) == ProvisionRegister(p) \/ CreateRegister(p)

(* A bucket changes, and with it its key and who was told about it, where  *)
(* it is created, encrypted, registered or dropped.                        *)
LEMMA BucketsMove ==
  ASSUME TypeOK, \A p \in Reqs : Prepared(p), [Next]_vars
  PROVE  \/ UNCHANGED <<buckets, sse, acked>>
         \/ \E p \in Reqs : \/ ProvisionCreate(p) \/ CreateBucket(p)
                            \/ ProvisionEncrypt(p) \/ Registers(p)
         \/ \E b \in Buckets : DropBucket(b)
<1> USE DEF keycloak, s3Vars, sharesVars
<1>1. CASE UNCHANGED vars BY <1>1 DEF vars
<1>2. CASE Outside
  BY <1>2 DEF Outside, Refresh, Upload, Trash, Purge
<1>3. ASSUME NEW p \in Reqs, Step(p)
      PROVE  \/ UNCHANGED <<buckets, sse, acked>>
             \/ ProvisionCreate(p) \/ CreateBucket(p)
             \/ ProvisionEncrypt(p) \/ Registers(p)
             \/ EraseDrop(p)
  <2>1. CASE Provision(p)
    BY <2>1, QuietSteps DEF Provision, ProvisionKey, GrantWrite, Registers,
         Unmoved
  <2>2. CASE Create(p)
    BY <2>2, QuietSteps DEF Create, Registers, Unmoved
  <2>3. CASE Erase(p)
    BY <2>3, QuietSteps DEF Erase, EraseEmpty, EraseKey, EraseUnregister,
         EraseUser, Unmoved
  <2>4. CASE Abort(p) BY <2>4, QuietSteps DEF Unmoved
  <2> QED BY <1>3, <2>1, <2>2, <2>3, <2>4 DEF Step
<1>4. ASSUME NEW p \in Reqs, EraseDrop(p), Prepared(p)
      PROVE  \/ UNCHANGED <<buckets, sse, acked>>
             \/ \E b \in Buckets : DropBucket(b)
  BY <1>4 DEF EraseDrop, At, Prepared
<1> QED BY <1>1, <1>2, <1>3, <1>4 DEF Next

(* The registry changes where a bucket is registered, or a user's buckets  *)
(* are unregistered.                                                       *)
LEMMA RegistryMoves ==
  ASSUME TypeOK, [Next]_vars
  PROVE  \/ UNCHANGED registry
         \/ \E p \in Reqs : Registers(p) \/ EraseUnregister(p)
<1> USE DEF keycloak, s3Vars, sharesVars
<1>1. CASE UNCHANGED vars BY <1>1 DEF vars
<1>2. CASE Outside BY <1>2, OutsideFrame
<1>3. ASSUME NEW p \in Reqs, Step(p)
      PROVE  UNCHANGED registry \/ Registers(p) \/ EraseUnregister(p)
  <2>1. CASE Provision(p)
    BY <2>1, QuietSteps DEF Provision, ProvisionCreate, ProvisionKey,
         ProvisionEncrypt, GrantWrite, Registers, Unmoved
  <2>2. CASE Create(p)
    BY <2>2, QuietSteps DEF Create, CreateBucket, Registers, Unmoved
  <2>3. CASE Erase(p)
    BY <2>3, QuietSteps DEF Erase, EraseEmpty, EraseDrop, EraseKey, EraseUser,
         Unmoved
  <2>4. CASE Abort(p) BY <2>4, QuietSteps DEF Unmoved
  <2> QED BY <1>3, <2>1, <2>2, <2>3, <2>4 DEF Step
<1> QED BY <1>1, <1>2, <1>3 DEF Next

(* Keys are made by a provisioning and deleted by an erasure. *)
LEMMA KeysMove ==
  ASSUME TypeOK, [Next]_vars
  PROVE  \/ UNCHANGED keys
         \/ \E p \in Reqs : ProvisionKey(p) \/ EraseKey(p)
<1> USE DEF keycloak, s3Vars, sharesVars
<1>1. CASE UNCHANGED vars BY <1>1 DEF vars
<1>2. CASE Outside BY <1>2, OutsideFrame
<1>3. ASSUME NEW p \in Reqs, Step(p)
      PROVE  UNCHANGED keys \/ ProvisionKey(p) \/ EraseKey(p)
  <2>1. CASE Provision(p)
    BY <2>1, QuietSteps DEF Provision, ProvisionCreate, ProvisionEncrypt,
         GrantWrite, ProvisionRegister, RegisterAndAnswer, Unmoved
  <2>2. CASE Create(p)
    BY <2>2, QuietSteps DEF Create, CreateBucket, CreateRegister,
         RegisterAndAnswer, Unmoved
  <2>3. CASE Erase(p)
    BY <2>3, QuietSteps DEF Erase, EraseEmpty, EraseDrop, EraseUnregister,
         EraseUser, Unmoved
  <2>4. CASE Abort(p) BY <2>4, QuietSteps DEF Unmoved
  <2> QED BY <1>3, <2>1, <2>2, <2>3, <2>4 DEF Step
<1> QED BY <1>1, <1>2, <1>3 DEF Next

(* Data comes by uploads only. *)
LEMMA DataMoves ==
  ASSUME TypeOK, \A p \in Reqs : Prepared(p), [Next]_vars
  PROVE  \/ data' \subseteq data
         \/ \E u \in Users, b \in Buckets : Upload(u, b)
<1> USE DEF keycloak, s3Vars, sharesVars
<1>1. CASE UNCHANGED vars BY <1>1 DEF vars
<1>2. CASE Outside
  BY <1>2 DEF Outside, Refresh, Trash, Purge
<1>3. ASSUME NEW p \in Reqs, Step(p) PROVE data' \subseteq data
  <2>1. CASE Provision(p) \/ Create(p) BY <2>1, SetUpFrame
  <2>2. CASE Erase(p)
    BY <2>2, QuietSteps DEF Erase, EraseEmpty, EraseDrop, EraseKey,
         EraseUnregister, EraseUser, Unmoved
  <2>3. CASE Abort(p) BY <2>3, QuietSteps DEF Unmoved
  <2> QED BY <1>3, <2>1, <2>2, <2>3 DEF Step
<1> QED BY <1>1, <1>2, <1>3 DEF Next

----------------------------------------------------------------------------
(* Who was told that a bucket is set up. *)

(* One is told about a bucket of one's own that is there, by the step that *)
(* registers it; all is forgotten about a bucket that is dropped.          *)
LEMMA AckedMove ==
  ASSUME TypeOK, \A p \in Reqs : Prepared(p), AckInv, [Next]_vars,
         NEW a \in acked'
  PROVE  /\ a[2] \in buckets'
         /\ \/ a \in acked
            \/ \E p \in Reqs : /\ Registers(p)
                               /\ a = <<req[p].user, req[p].bucket>>
                               /\ a[2] = Home[a[1]] \/ a[2] \in Extra
<1>1. CASE UNCHANGED <<buckets, sse, acked>> BY <1>1 DEF AckInv
<1>2. ASSUME NEW p \in Reqs,
             ProvisionCreate(p) \/ CreateBucket(p) \/ ProvisionEncrypt(p)
      PROVE  acked' = acked /\ buckets \subseteq buckets'
  BY <1>2 DEF ProvisionCreate, CreateBucket, ProvisionEncrypt, NewBucket, s3Vars
<1>3. ASSUME NEW p \in Reqs, Registers(p), a \notin acked
      PROVE  /\ a = <<req[p].user, req[p].bucket>> /\ a[2] \in buckets'
             /\ a[2] = Home[a[1]] \/ a[2] \in Extra
  <2>1. a = <<req[p].user, req[p].bucket>> /\ a[2] \in buckets'
    BY <1>3 DEF Registers, ProvisionRegister, CreateRegister, RegisterAndAnswer
  <2> QED BY <1>3, <2>1 DEF Registers, ProvisionRegister, CreateRegister,
                            RegisterAndAnswer, At, Prepared
<1>4. ASSUME NEW p \in Reqs, Registers(p), a \in acked PROVE a[2] \in buckets'
  BY <1>4 DEF Registers, ProvisionRegister, CreateRegister, RegisterAndAnswer,
              AckInv
<1>5. ASSUME NEW b \in Buckets, DropBucket(b)
      PROVE  a \in acked /\ a[2] \in buckets'
  BY <1>5 DEF DropBucket, AckInv
<1> QED BY <1>1, <1>2, <1>3, <1>4, <1>5, BucketsMove DEF AckInv

(* Those who were told about a bucket that stays remain told. *)
LEMMA AckedStay ==
  ASSUME TypeOK, \A p \in Reqs : Prepared(p), [Next]_vars,
         NEW u \in Users, NEW b \in Buckets, <<u, b>> \in acked,
         b \in buckets'
  PROVE  <<u, b>> \in acked'
<1>1. ASSUME NEW p \in Reqs, ProvisionCreate(p) \/ CreateBucket(p)
             \/ ProvisionEncrypt(p) \/ Registers(p)
      PROVE  acked \subseteq acked'
  BY <1>1 DEF ProvisionCreate, CreateBucket, ProvisionEncrypt, NewBucket, s3Vars,
       Registers, ProvisionRegister, CreateRegister, RegisterAndAnswer
<1>2. ASSUME NEW c \in Buckets, DropBucket(c) PROVE <<u, b>> \in acked'
  BY <1>2 DEF DropBucket
<1> QED BY <1>1, <1>2, BucketsMove

(* A bucket that was dropped is not one anybody was told about. *)
LEMMA AloneBefore ==
  ASSUME TypeOK, \A p \in Reqs : Prepared(p), [Next]_vars,
         NEW u \in Users, NEW b \in Buckets, b \in buckets', Alone(u, b)'
  PROVE  Alone(u, b)
BY AckedStay DEF Alone

(* AckInv is preserved. *)
LEMMA AckNext ==
  ASSUME TypeOK, \A p \in Reqs : Prepared(p), AckInv, [Next]_vars
  PROVE  AckInv'
BY AckedMove DEF AckInv

(* GrantHeld is preserved: the step that answers a provisioning is taken by*)
(* a request whose grant has been written.                                 *)
LEMMA GrantNext ==
  ASSUME TypeOK, \A p \in Reqs : Prepared(p), AckInv, GrantHeld, [Next]_vars
  PROVE  GrantHeld'
<1> SUFFICES ASSUME NEW u \in Users, <<u, Home[u]>> \in acked', u \notin erased'
             PROVE  Home[u] \in granted'[u]
  BY DEF GrantHeld
<1>1. u \notin erased BY GrantsStay
<1>2. CASE <<u, Home[u]>> \in acked BY <1>1, <1>2, GrantsStay DEF GrantHeld
<1>3. ASSUME NEW p \in Reqs, Registers(p),
             <<u, Home[u]>> = <<req[p].user, req[p].bucket>>
      PROVE  Home[u] \in granted[u]
  <2>1. req[p].op # "create"
    BY <1>3, HomesOrExtra DEF Prepared
  <2> QED BY <1>1, <1>3, <2>1 DEF Registers, ProvisionRegister, CreateRegister,
                                  RegisterAndAnswer, At, Prepared
<1> QED BY <1>2, <1>3, AckedMove, GrantsStay

----------------------------------------------------------------------------
(* Registration. *)

(* A registration either names the user it tells, or fails. *)
LEMMA RegistersEffect ==
  ASSUME TypeOK, NEW p \in Reqs, Prepared(p), Registers(p)
  PROVE  /\ req[p] \in Requests /\ req[p].bucket \in Buckets
         /\ \/ registry' = [registry EXCEPT ![req[p].bucket] = req[p].user]
            \/ UNCHANGED registry /\ faults' = faults + 1
         /\ req[p].bucket \in buckets =>
              <<req[p].user, req[p].bucket>> \in acked'
BY BusyType DEF Registers, ProvisionRegister, CreateRegister, RegisterAndAnswer,
   RegisterBucket, Fault, At, Prepared, Extra

(* An erasure that has begun ends with the account, or by a failure. *)
LEMMA ErasingEnds ==
  ASSUME TypeOK, \A p \in Reqs : Prepared(p), [Next]_vars, faults' = faults,
         NEW u \in Users, Erasing(u), u \notin erased'
  PROVE  Erasing(u)'
<1>1. PICK q \in Reqs : req[q].op = "erase" /\ req[q].user = u BY DEF Erasing
<1>2. ASSUME req'[q] = req[q] PROVE Erasing(u)' BY <1>1, <1>2 DEF Erasing
<1>3. CASE UNCHANGED vars BY <1>2, <1>3 DEF vars
<1>4. CASE Outside BY <1>2, <1>4, OutsideFrame
<1>5. ASSUME NEW p \in Reqs, Step(p) PROVE Erasing(u)'
  <2>1. CASE p # q BY <1>2, <1>5, <2>1, OneMoves
  <2>2. CASE p = q /\ Erase(p)
    <3>1. CASE req'[q].op = "erase" /\ req'[q].user = u BY <3>1 DEF Erasing
    <3>2. CASE EraseUser(q)
      BY <1>1, <3>2, FaultsStay DEF EraseUser, Fault
    <3>3. req[q] \in Requests BY <1>1, BusyType
    <3>4. req[q] # Idle BY <1>1 DEF Idle
    <3>5. CASE req'[q] = Idle /\ ~ EraseUser(q)
      <4>1. req'[q].op = "none" BY <3>5 DEF Idle
      <4>2. ASSUME NEW pc, Goto(q, pc) PROVE FALSE
        BY <1>1, <3>3, <4>1, <4>2 DEF Goto, Requests, TypeOK
      <4>3. ASSUME NEW b, NextBucket(q, b) PROVE FALSE
        BY <1>1, <3>3, <4>1, <4>3 DEF NextBucket, Requests, TypeOK
      <4>4. ASSUME NEW v \in Users, BeginErase(q, v) PROVE FALSE
        BY <3>3, <4>4 DEF BeginErase, Start, Busy, Requests
      <4>5. CASE EraseList(q)
        BY <1>1, <3>3, <4>1, <4>5 DEF EraseList, Requests, TypeOK
      <4>6. ASSUME NEW b \in Buckets, EraseEmpty(q, b) PROVE FALSE
        BY <1>1, <3>3, <4>1, <4>3, <4>6 DEF EraseEmpty, Requests, TypeOK
      <4> QED BY <2>2, <3>5, <4>2, <4>3, <4>4, <4>5, <4>6
              DEF Erase, EraseDrop, EraseKey, EraseShares, EraseUnregister
    <3> QED BY <1>1, <2>2, <3>1, <3>2, <3>4, <3>5, EraseMoves
  <2>3. CASE Abort(p) BY <2>3, FaultsStay DEF Abort, Fault
  <2>4. CASE p = q /\ (Provision(p) \/ Create(p)) BY <1>1, <2>4, SetUpFrame
  <2> QED BY <1>5, <2>1, <2>2, <2>3, <2>4 DEF Step
<1> QED BY <1>3, <1>4, <1>5 DEF Next

(* As long as no call fails, the one user who was told about a bucket stays*)
(* registered, unless an erasure of this user is on the way.               *)
LEMMA RegisteredStays ==
  ASSUME TypeOK, \A p \in Reqs : Prepared(p), [Next]_vars, faults' = faults,
         NEW u \in Users, NEW b \in Buckets, b \in buckets, registry[b] = u,
         ~ Erasing(u)', Alone(u, b)'
  PROVE  registry'[b] = u
<1>1. ASSUME NEW p \in Reqs, Registers(p) PROVE registry'[b] = u
  <2>1. CASE req[p].bucket = b /\ req[p].user # u
    BY <1>1, <2>1, RegistersEffect DEF Alone, Requests
  <2> QED BY <1>1, <2>1, RegistersEffect DEF TypeOK
<1>2. ASSUME NEW p \in Reqs, EraseUnregister(p) PROVE registry'[b] = u
  <2>1. req[p] \in Requests BY <1>2, BusyType DEF EraseUnregister, At
  <2>2. req'[p].op = "erase" /\ req'[p].user = req[p].user
    BY <1>2, <2>1 DEF EraseUnregister, At, Goto, Requests, TypeOK
  <2>3. req[p].user # u BY <2>2 DEF Erasing
  <2> QED BY <1>2, <2>3 DEF EraseUnregister, Unregister
<1> QED BY <1>1, <1>2, RegistryMoves

(* The step that tells a user alone about a bucket registers it, and what  *)
(* was registered before stays, as long as the step does not fail.         *)
LEMMA RegistryKept ==
  ASSUME TypeOK, \A p \in Reqs : Prepared(p), AckInv, [Next]_vars,
         faults' = faults, NEW u \in Users, NEW b \in Buckets,
         /\ <<u, b>> \in acked /\ Alone(u, b)
         /\ u \notin erased /\ ~ Erasing(u)
         => registry[b] = u,
         <<u, b>> \in acked', Alone(u, b)', u \notin erased', ~ Erasing(u)'
  PROVE  registry'[b] = u
<1>1. u \notin erased BY GrantsStay
<1>2. b \in buckets' BY AckedMove
<1>3. CASE <<u, b>> \in acked
  <2>1. registry[b] = u BY <1>1, <1>2, <1>3, AloneBefore, ErasingEnds
  <2>2. b \in buckets BY <1>3 DEF AckInv
  <2> QED BY <2>1, <2>2, RegisteredStays
<1>4. ASSUME NEW p \in Reqs, Registers(p), <<u, b>> = <<req[p].user, req[p].bucket>>
      PROVE  registry'[b] = u
  BY <1>4, RegistersEffect, FaultsStay DEF TypeOK
<1> QED BY <1>3, <1>4, AckedMove

(* RegistryCurrent is preserved. *)
LEMMA RegistryNext ==
  ASSUME TypeOK, \A p \in Reqs : Prepared(p), AckInv, RegistryCurrent,
         [Next]_vars
  PROVE  RegistryCurrent'
<1> SUFFICES ASSUME faults' = 0, NEW u \in Users, NEW b \in Buckets,
                    <<u, b>> \in acked', Alone(u, b)', u \notin erased',
                    ~ Erasing(u)'
             PROVE  registry'[b] = u
  BY DEF RegistryCurrent
<1>1. faults = 0 /\ faults' = faults BY FaultsStay
<1> QED BY <1>1, RegistryKept DEF RegistryCurrent

----------------------------------------------------------------------------
(* What is stored. *)

(* What each step of an erasure of its owner means for a bucket that the   *)
(* erasure is going to empty, and that something is in all along: it is    *)
(* still going to, or a call has failed before the key is deleted.         *)
LEMMA EraseDoomed ==
  ASSUME TypeOK, NEW p \in Reqs, Prepared(p), Erase(p),
         NEW u \in Users, NEW b \in Buckets, Doomed(u, b),
         b \in buckets, \E d \in data' : d.bucket = b
  PROVE  \/ /\ u \notin erased' /\ registry'[b] = u
            /\ req'[p].op = "erase" /\ req'[p].user = u =>
                 \/ req'[p].pc = "list"
                 \/ req'[p].pc = "empty" /\ b \in req'[p].todo
                 \/ req'[p].pc = "drop" /\ b \in req'[p].todo \ {req'[p].bucket}
         \/ /\ faults' = faults + 1 /\ u \notin erased'
            /\ req'[p].pc = "empty"
<1> USE DEF TypeOK
<1>1. CASE req[p].op = "erase" /\ req[p].user = u
  <2>1. req[p] \in Requests BY <1>1, BusyType
  <2>2. /\ u \notin erased /\ registry[b] = u
        /\ \/ req[p].pc = "list"
           \/ req[p].pc = "empty" /\ b \in req[p].todo
           \/ req[p].pc = "drop" /\ b \in req[p].todo \ {req[p].bucket}
    BY <1>1 DEF Doomed
  <2>3. CASE EraseList(p)
    <3>1. erased' = erased /\ registry' = registry
      BY <2>3, QuietSteps DEF Unmoved
    <3>2. PICK registered \in {{c \in Buckets : registry[c] = u}, {}} :
            /\ IF registered = {c \in Buckets : registry[c] = u}
               THEN NoFault ELSE Fault("registry")
            /\ req' = [req EXCEPT ![p].todo = Found(u, registered),
                                  ![p].pc = "empty"]
      BY <1>1, <2>3 DEF EraseList
    <3>3. req'[p] = [req[p] EXCEPT !.todo = Found(u, registered), !.pc = "empty"]
      BY <3>2
    <3>4. req'[p].pc = "empty" /\ req'[p].todo = Found(u, registered)
      BY <2>1, <3>3 DEF Requests
    <3>5. CASE registered = {c \in Buckets : registry[c] = u}
      BY <2>2, <3>1, <3>4, <3>5 DEF Found
    <3>6. CASE registered # {c \in Buckets : registry[c] = u}
      BY <2>2, <3>1, <3>2, <3>4, <3>6 DEF Fault
    <3> QED BY <3>5, <3>6
  <2>4. ASSUME NEW c \in Buckets, NextBucket(p, c)
        PROVE  req'[p].pc = "empty" /\ req'[p].todo = req[p].todo \ {c}
    BY <2>1, <2>4 DEF NextBucket, Requests
  <2>5. ASSUME NEW c \in Buckets, EraseEmpty(p, c) PROVE
             \/ /\ u \notin erased' /\ registry'[b] = u
                /\ \/ req'[p].pc = "empty" /\ b \in req'[p].todo
                   \/ req'[p].pc = "drop" /\ b \in req'[p].todo \ {req'[p].bucket}
             \/ /\ faults' = faults + 1 /\ u \notin erased'
                /\ req'[p].pc = "empty"
    <3>1. erased' = erased /\ registry' = registry
      BY <2>5 DEF EraseEmpty, keycloak, sharesVars
    <3>2. b \in req[p].todo BY <2>2, <2>5 DEF EraseEmpty, At
    <3>3. CASE c \notin buckets /\ NextBucket(p, c)
      BY <2>2, <2>4, <3>1, <3>2, <3>3
    <3>4. CASE /\ data' = data \ DataIn(c)
               /\ req' = [req EXCEPT ![p].bucket = c, ![p].pc = "drop"]
      <4>1. c # b BY <3>4 DEF DataIn
      <4>2. req'[p] = [req[p] EXCEPT !.bucket = c, !.pc = "drop"] BY <3>4
      <4> QED BY <2>1, <2>2, <3>1, <3>2, <4>1, <4>2 DEF Requests
    <3>5. CASE NextBucket(p, c) /\ Fault("empty")
      BY <2>2, <2>4, <3>1, <3>5 DEF Fault
    <3> QED BY <2>5, <3>3, <3>4, <3>5 DEF EraseEmpty
  <2>6. CASE EraseDrop(p)
    <3>1. erased' = erased /\ registry' = registry
      BY <2>6 DEF EraseDrop, keycloak, sharesVars
    <3>2. req[p].bucket \in Buckets BY <2>6 DEF EraseDrop, At, Prepared
    <3> QED BY <2>2, <2>4, <2>6, <3>1, <3>2 DEF EraseDrop, At
  <2>7. ~ (EraseKey(p) \/ EraseShares(p) \/ EraseUnregister(p) \/ EraseUser(p))
    BY <2>2 DEF EraseKey, EraseShares, EraseUnregister, EraseUser, At
  <2>8. ASSUME NEW v \in Users PROVE ~ BeginErase(p, v)
    BY <2>1 DEF BeginErase, Start, Busy, Requests
  <2> QED BY <2>3, <2>5, <2>6, <2>7, <2>8 DEF Erase
<1>2. CASE req[p].op = "erase" /\ req[p].user # u
  <2>1. ~ (req'[p].op = "erase" /\ req'[p].user = u)
    <3>1. req[p] # Idle BY <1>2 DEF Idle
    <3> QED BY <1>2, <3>1, EraseMoves DEF Idle
  <2>2. u \notin erased'
    <3>1. CASE EraseUser(p) BY <1>2, <3>1 DEF EraseUser, Doomed
    <3> QED BY <3>1, QuietSteps DEF Erase, EraseEmpty, EraseDrop, EraseKey,
            EraseUnregister, Unmoved, keycloak, Doomed
  <2>3. registry'[b] = u
    <3>1. CASE EraseUnregister(p)
      BY <1>2, <3>1 DEF EraseUnregister, Unregister, Doomed
    <3> QED BY <3>1, QuietSteps DEF Erase, EraseEmpty, EraseDrop, EraseKey,
            EraseUser, Unmoved, sharesVars, Doomed
  <2> QED BY <2>1, <2>2, <2>3
<1>3. CASE req[p] = Idle
  <2>1. PICK v \in Users : BeginErase(p, v)
    BY <1>3 DEF Erase, EraseList, EraseEmpty, EraseDrop, EraseKey, EraseShares,
                EraseUnregister, EraseUser, At, Idle
  <2>2. erased' = erased /\ registry' = registry
    BY <2>1, QuietSteps DEF Unmoved
  <2>3. req'[p].pc = "list" BY <2>1 DEF BeginErase, Start
  <2> QED BY <2>2, <2>3 DEF Doomed
<1> QED BY <1>1, <1>2, <1>3, EraseMoves

(* What a registered owner has stored stays doomed, unless another user is *)
(* told that the bucket is set up, or a call fails in an erasure that is   *)
(* not past the key.                                                       *)
LEMMA DoomedStays ==
  ASSUME TypeOK, \A p \in Reqs : Prepared(p), [Next]_vars,
         NEW u \in Users, NEW b \in Buckets, Doomed(u, b),
         b \in buckets, \E d \in data' : d.bucket = b
  PROVE  \/ Doomed(u, b)'
         \/ \E v \in Users \ {u} : <<v, b>> \in acked'
         \/ faults' = faults + 1 /\ Shredded(u)'
<1>1. CASE UNCHANGED vars BY <1>1 DEF vars, Doomed
<1>2. CASE Outside BY <1>2, OutsideFrame DEF Doomed
<1>3. ASSUME NEW p \in Reqs, Erase(p)
      PROVE  Doomed(u, b)' \/ (faults' = faults + 1 /\ Shredded(u)')
  <2>1. \A q \in Reqs \ {p} : req'[q] = req[q] BY <1>3, OneMoves DEF Step
  <2>2. CASE /\ faults' = faults + 1 /\ u \notin erased'
             /\ req'[p].pc = "empty"
    BY <2>1, <2>2 DEF Doomed, Shredded
  <2> QED BY <1>3, <2>1, <2>2, EraseDoomed DEF Doomed
<1>4. ASSUME NEW p \in Reqs, Abort(p) PROVE Doomed(u, b)'
  <2>1. erased' = erased /\ registry' = registry
    BY <1>4, QuietSteps DEF Unmoved
  <2>2. \A q \in Reqs \ {p} : req'[q] = req[q] BY <1>4, OneMoves DEF Step
  <2>3. req'[p].op = "none" BY <1>4 DEF Abort, Finish, Idle, TypeOK
  <2> QED BY <2>1, <2>2, <2>3 DEF Doomed
<1>5. ASSUME NEW p \in Reqs, Provision(p) \/ Create(p)
      PROVE  Doomed(u, b)' \/ \E v \in Users \ {u} : <<v, b>> \in acked'
  <2>1. erased' = erased /\ req'[p].op # "erase" BY <1>5, SetUpFrame
  <2>2. \A q \in Reqs \ {p} : req'[q] = req[q] BY <1>5, OneMoves DEF Step
  <2>3. CASE registry'[b] = u BY <2>1, <2>2, <2>3 DEF Doomed
  <2>4. CASE registry'[b] # u
    <3>1. CASE Registers(p)
      <4>1. registry[b] = u BY DEF Doomed
      <4>2. registry' = [registry EXCEPT ![req[p].bucket] = req[p].user]
        BY <2>4, <3>1, <4>1, RegistersEffect
      <4>3. req[p].bucket = b /\ req[p].user # u
        BY <2>4, <4>1, <4>2 DEF TypeOK
      <4> QED BY <3>1, <4>3, RegistersEffect DEF Requests
    <3>2. CASE ~ Registers(p)
      <4>1. UNCHANGED registry
        BY <1>5, <3>2, QuietSteps DEF Provision, ProvisionCreate, ProvisionKey,
           ProvisionEncrypt, GrantWrite, Create, CreateBucket, Registers,
           Unmoved, sharesVars
      <4> QED BY <2>4, <4>1 DEF Doomed
    <3> QED BY <3>1, <3>2
  <2> QED BY <2>3, <2>4
<1> QED BY <1>1, <1>2, <1>3, <1>4, <1>5 DEF Next, Step

(* What is stored at a calm time is stored by an owner who was told, with  *)
(* no request under way.                                                   *)
LEMMA CalmUpload ==
  ASSUME TypeOK, \A p \in Reqs : Prepared(p), NEW u \in Users,
         NEW b \in Buckets, Upload(u, b), Calm(u, b)
  PROVE  /\ <<u, b>> \in acked' /\ <<u, b>> \in acked /\ u \notin erased
         /\ ~ Erasing(u) /\ ~ Keying(u) /\ ~ Keying(u)' /\ ~ Encrypting(u)
         /\ ~ Shredded(u)' => u \in erased'
         /\ registry[b] = u => Doomed(u, b)'
<1>1. UNCHANGED <<erased, keys, acked, registry, req>>
  BY DEF Upload, keycloak, sharesVars
<1>2. \A p \in Reqs : req[p].op # "none" => req[p].user # u
  BY BusyType DEF Calm, Busy, Requests
<1> QED BY <1>1, <1>2 DEF Calm, Erasing, Keying, Encrypting, At, Shredded, Doomed,
                          Prepared

(* StoredInv is preserved. *)
LEMMA StoredNext ==
  ASSUME TypeOK, \A p \in Reqs : Prepared(p), AckInv, RegistryCurrent, StoredInv,
         [Next]_vars
  PROVE  StoredInv'
<1> SUFFICES ASSUME NEW d \in data', d.calm
             PROVE  /\ <<d.owner, d.bucket>> \in acked'
                    /\ faults' = 0 /\ Alone(d.owner, d.bucket)'
                         => Doomed(d.owner, d.bucket)'
  BY DEF StoredInv
<1>1. d \in Items /\ d.bucket \in buckets' BY NextType DEF TypeOK
<1>2. d.owner \in Users /\ d.bucket \in Buckets BY <1>1 DEF Items
<1>3. CASE d \in data
  <2>1. <<d.owner, d.bucket>> \in acked BY <1>3 DEF StoredInv
  <2>2. <<d.owner, d.bucket>> \in acked' BY <1>1, <1>2, <2>1, AckedStay
  <2>3. ASSUME faults' = 0, Alone(d.owner, d.bucket)'
        PROVE  Doomed(d.owner, d.bucket)'
    <3>1. faults = 0 BY <2>3, FaultsStay
    <3>2. Doomed(d.owner, d.bucket)
      BY <1>1, <1>2, <1>3, <2>3, <3>1, AloneBefore DEF StoredInv
    <3>3. d.bucket \in buckets BY <1>3 DEF TypeOK
    <3>4. \A v \in Users \ {d.owner} : <<v, d.bucket>> \notin acked'
      BY <2>3 DEF Alone
    <3>5. faults' # faults + 1 BY <2>3, <3>1
    <3> QED BY <1>2, <3>2, <3>3, <3>4, <3>5, DoomedStays
  <2> QED BY <2>2, <2>3
<1>4. ASSUME NEW u \in Users, NEW b \in Buckets, Upload(u, b), d \notin data
      PROVE  /\ <<d.owner, d.bucket>> \in acked'
             /\ faults' = 0 /\ Alone(d.owner, d.bucket)'
                  => Doomed(d.owner, d.bucket)'
  <2>1. d = [bucket |-> b, owner |-> u, key |-> sse[b], calm |-> Calm(u, b)]
    BY <1>4 DEF Upload
  <2>2. d.owner = u /\ d.bucket = b /\ Calm(u, b) BY <2>1
  <2>3. faults = faults' /\ (Alone(u, b)' => Alone(u, b))
    BY <1>4 DEF Upload, Alone
  <2> QED BY <1>4, <2>2, <2>3, CalmUpload DEF RegistryCurrent
<1> QED BY <1>3, <1>4, DataMoves

----------------------------------------------------------------------------
(* Home buckets: their keys. *)

(* Of a home that nobody shares, only the owner can have been told.        *)
LEMMA OwnAlone ==
  ASSUME AckInv, NEW u \in Users, OwnHome(u), TypeOK
  PROVE  Alone(u, Home[u])
BY HomesOrExtra DEF Alone, AckInv, OwnHome

(* It is created, encrypted and given a key by its owner's requests only.  *)
LEMMA OwnRequests ==
  ASSUME TypeOK, NEW p \in Reqs, Prepared(p), NEW u \in Users, OwnHome(u),
         req[p].op \in {"provision", "create"}, req[p].bucket = Home[u]
  PROVE  req[p].op = "provision" /\ req[p].user = u
<1>1. req[p] \in Requests BY BusyType
<1>2. req[p].op = "provision" BY HomesOrExtra DEF Prepared
<1> QED BY <1>1, <1>2 DEF Prepared, OwnHome, Requests

(* Where a failing call or a crash stops the encryption of a home bucket,  *)
(* its owner is and stays registered.                                      *)
LEMMA UnsealedRegistered ==
  ASSUME TypeOK, \A p \in Reqs : Prepared(p), AckInv, RegistryCurrent,
         NEW u \in Users, Home[u] \in Buckets, OwnHome(u), faults = 0,
         NEW p \in Reqs, req[p].op = "provision",
         ProvisionKey(p) \/ ProvisionEncrypt(p) \/ Abort(p),
         <<u, Home[u]>> \in acked', u \notin erased', ~ Erasing(u)'
  PROVE  registry'[Home[u]] = u
<1> USE DEF keycloak, s3Vars, sharesVars
<1>1. UNCHANGED <<acked, erased, registry>>
  <2>1. CASE ProvisionKey(p) BY <2>1 DEF ProvisionKey
  <2>2. CASE ProvisionEncrypt(p) BY <2>2 DEF ProvisionEncrypt
  <2>3. CASE Abort(p) BY <2>3 DEF Abort
  <2> QED BY <2>1, <2>2, <2>3
<1>2. ~ Erasing(u)
  <2>1. \A q \in Reqs \ {p} : req'[q] = req[q]
    BY OneMoves DEF Step, Provision
  <2> QED BY <2>1 DEF Erasing
<1> QED BY <1>1, <1>2, OwnAlone DEF RegistryCurrent

(* SealedInv is preserved. *)
LEMMA SealedNext ==
  ASSUME TypeOK, \A p \in Reqs : Prepared(p), AckInv, RegistryCurrent, SealedInv,
         [Next]_vars
  PROVE  SealedInv'
<1> SUFFICES ASSUME NEW u \in Users, OwnHome(u), Home[u] \in buckets',
                    faults' <= 1
             PROVE  \/ sse'[Home[u]] = u
                    \/ Keying(u)' \/ Encrypting(u)'
                    \/ /\ faults' = 1
                       /\ <<u, Home[u]>> \in acked' /\ u \notin erased'
                            /\ ~ Erasing(u)'
                            => registry'[Home[u]] = u
  BY DEF SealedInv, OwnHome
<1> DEFINE b == Home[u]
<1>1. b \in Buckets BY NextType DEF TypeOK
<1>2. faults <= 1 /\ faults \in Nat /\ (faults' # faults => faults = 0 /\ faults' = 1)
  BY FaultsStay
<1>3. CASE b \notin buckets
  <2>1. PICK p \in Reqs : ProvisionCreate(p) \/ CreateBucket(p)
    BY <1>3, BucketsMove DEF DropBucket, ProvisionEncrypt, Registers,
       ProvisionRegister, CreateRegister, RegisterAndAnswer
  <2>2. req[p].bucket = b /\ (ProvisionCreate(p) => Goto(p, "key"))
    BY <1>3, <2>1 DEF ProvisionCreate, CreateBucket, NewBucket, s3Vars
  <2>3. req[p].op = "provision" /\ req[p].user = u
    BY <2>1, <2>2, OwnRequests DEF ProvisionCreate, CreateBucket, At
  <2>4. req[p] \in Requests BY <2>3, BusyType
  <2>5. ProvisionCreate(p) BY <2>1, <2>3 DEF CreateBucket, At
  <2>6. req'[p] = [req[p] EXCEPT !.pc = "key"]
    BY <2>2, <2>4, <2>5 DEF Goto, TypeOK
  <2> QED BY <2>3, <2>4, <2>6 DEF Keying, At, Requests
<1>4. CASE b \in buckets /\ sse[b] = u
  <2>1. ASSUME NEW p \in Reqs, ProvisionEncrypt(p) PROVE sse'[b] = u
    BY <1>1, <1>4, <2>1, OwnRequests
       DEF ProvisionEncrypt, Encrypt, At, TypeOK
  <2>2. ASSUME NEW p \in Reqs,
               ProvisionCreate(p) \/ CreateBucket(p) \/ Registers(p)
        PROVE  sse'[b] = u
    BY <1>4, <2>2 DEF ProvisionCreate, CreateBucket, NewBucket, s3Vars, Registers,
       ProvisionRegister, CreateRegister, RegisterAndAnswer
  <2>3. ASSUME NEW c \in Buckets, DropBucket(c) PROVE sse'[b] = u
    BY <1>1, <1>4, <2>3 DEF DropBucket, TypeOK
  <2> QED BY <1>4, <2>1, <2>2, <2>3, BucketsMove
<1>5. ASSUME NEW q \in Reqs, req[q].op = "provision", req[q].user = u,
             req[q].pc \in {"key", "encrypt"}, b \in buckets
      PROVE  \/ sse'[b] = u \/ Keying(u)' \/ Encrypting(u)'
             \/ /\ faults' = 1
                /\ <<u, b>> \in acked' /\ u \notin erased' /\ ~ Erasing(u)'
                     => registry'[b] = u
  <2>1. ASSUME req'[q] = req[q] PROVE Keying(u)' \/ Encrypting(u)'
    BY <1>5, <2>1 DEF Keying, Encrypting, At
  <2>2. CASE UNCHANGED vars BY <2>1, <2>2 DEF vars
  <2>3. CASE Outside BY <2>1, <2>3, OutsideFrame
  <2>4. req[q] \in Requests /\ req[q].bucket = b
    BY <1>5, BusyType DEF Prepared
  <2>5. ASSUME ProvisionKey(q) \/ ProvisionEncrypt(q) \/ Abort(q),
               faults' = faults + 1
        PROVE  /\ faults' = 1
               /\ <<u, b>> \in acked' /\ u \notin erased' /\ ~ Erasing(u)'
                     => registry'[b] = u
    BY <1>1, <1>2, <1>5, <2>5, UnsealedRegistered
  <2>6. CASE ProvisionKey(q) /\ Goto(q, "encrypt")
    <3>1. req'[q] = [req[q] EXCEPT !.pc = "encrypt"]
      BY <2>4, <2>6 DEF Goto, TypeOK
    <3> QED BY <1>5, <2>4, <3>1 DEF Encrypting, At, Requests
  <2>7. CASE ProvisionEncrypt(q) /\ Encrypt(b, u)
    BY <1>1, <1>5, <2>7 DEF Encrypt, TypeOK
  <2>8. ASSUME NEW p \in Reqs, Step(p), p # q PROVE req'[q] = req[q]
    BY <2>8, OneMoves
  <2>9. CASE Step(q)
    <3>1. CASE ProvisionKey(q) BY <2>5, <2>6, <3>1 DEF ProvisionKey, Fault
    <3>2. CASE ProvisionEncrypt(q)
      BY <1>5, <2>4, <2>5, <2>7, <3>2 DEF ProvisionEncrypt, Fault
    <3>3. CASE Abort(q) BY <2>5, <3>3 DEF Abort, Fault
    <3> QED BY <1>5, <2>4, <2>9, <3>1, <3>2, <3>3
            DEF Step, Provision, BeginProvision, ProvisionCheck, ProvisionCreate,
                GrantRead, GrantWrite, ProvisionRegister, RegisterAndAnswer,
                Create, BeginCreate, CreateCheck, CreateBucket, CreateRegister,
                Erase, BeginErase, EraseList, EraseEmpty, EraseDrop, EraseKey,
                EraseShares, EraseUnregister, EraseUser, Start, Busy, At, Requests
  <2> QED BY <2>1, <2>2, <2>3, <2>8, <2>9 DEF Next
<1>6. ASSUME faults = 1,
             <<u, b>> \in acked /\ u \notin erased /\ ~ Erasing(u)
               => registry[b] = u
      PROVE  /\ faults' = 1
             /\ <<u, b>> \in acked' /\ u \notin erased' /\ ~ Erasing(u)'
                  => registry'[b] = u
  <2>1. faults' = faults BY <1>2, <1>6
  <2>2. Alone(u, b)' BY AckNext, HomesOrExtra DEF Alone, AckInv, OwnHome
  <2> QED BY <1>1, <1>6, <2>1, <2>2, RegistryKept
<1> QED BY <1>2, <1>3, <1>4, <1>5, <1>6 DEF SealedInv, Keying, Encrypting, At

(* Nobody makes a key for a user whose home bucket is there. *)
LEMMA KeyingStarts ==
  ASSUME TypeOK, \A p \in Reqs : Prepared(p), [Next]_vars,
         NEW u \in Users, Home[u] \in buckets, ~ Keying(u)
  PROVE  ~ Keying(u)'
<1> SUFFICES ASSUME NEW q \in Reqs, At(q, "provision", "key")', req'[q].user = u
             PROVE  FALSE
  BY DEF Keying
<1>1. ASSUME req'[q] = req[q] PROVE FALSE BY <1>1 DEF Keying, At
<1>2. CASE UNCHANGED vars BY <1>1, <1>2 DEF vars
<1>3. CASE Outside BY <1>1, <1>3, OutsideFrame
<1>4. ASSUME NEW p \in Reqs, Step(p), p # q PROVE FALSE
  BY <1>1, <1>4, OneMoves
<1>5. CASE Erase(q) \/ Abort(q)
  BY <1>5, EraseMoves DEF Abort, Finish, Idle, At, TypeOK
<1>6. ASSUME NEW pc, Goto(q, pc), req[q] \in Requests PROVE pc = "key"
  BY <1>6 DEF Goto, At, Requests, TypeOK
<1>7. ASSUME Finish(q) PROVE FALSE BY <1>7 DEF Finish, Idle, At, TypeOK
<1>8. ASSUME NEW op, NEW pc, NEW v, NEW b, Start(q, op, pc, v, b) PROVE pc = "key"
  BY <1>8 DEF Start, At, TypeOK
<1>9. CASE ProvisionCreate(q)
  <2>1. req[q] \in Requests /\ req[q].bucket = Home[req[q].user]
    BY <1>9, BusyType DEF ProvisionCreate, At, Prepared
  <2>2. req[q].bucket \notin buckets /\ Goto(q, "key")
    BY <1>7, <1>9 DEF ProvisionCreate, CanCreate
  <2>3. req[q].user = u
    BY <2>1, <2>2 DEF Goto, Requests, TypeOK
  <2> QED BY <2>1, <2>2, <2>3
<1>10. CASE GrantRead(q)
  <2>1. req[q] \in Requests BY <1>10, BusyType DEF GrantRead, At
  <2>2. req' # [req EXCEPT ![q].held = granted[req[q].user], ![q].pc = "write"]
    BY <2>1 DEF At, Requests, TypeOK
  <2> QED BY <1>6, <1>7, <1>10, <2>1, <2>2 DEF GrantRead
<1>11. ASSUME ~ ProvisionCreate(q), ~ GrantRead(q), Provision(q) \/ Create(q)
       PROVE  FALSE
  <2>1. ASSUME req[q].op # "none" PROVE req[q] \in Requests BY <2>1, BusyType
  <2>2. ASSUME NEW v \in Users, BeginProvision(q, v) PROVE FALSE
    BY <1>8, <2>2 DEF BeginProvision
  <2>3. ASSUME NEW v \in Users, NEW b \in Buckets, BeginCreate(q, v, b) PROVE FALSE
    BY <1>8, <2>3 DEF BeginCreate
  <2>4. ~ (ProvisionCheck(q) \/ ProvisionKey(q) \/ ProvisionEncrypt(q))
    BY <1>6, <2>1 DEF ProvisionCheck, ProvisionKey, ProvisionEncrypt, At
  <2>5. ~ (GrantWrite(q) \/ Registers(q))
    BY <1>6, <1>7, <2>1 DEF GrantWrite, Registers, ProvisionRegister,
       CreateRegister, RegisterAndAnswer, At
  <2>6. ~ (CreateCheck(q) \/ CreateBucket(q))
    BY <1>6, <1>7, <2>1 DEF CreateCheck, CreateBucket, At
  <2> QED BY <1>11, <2>2, <2>3, <2>4, <2>5, <2>6 DEF Provision, Create, Registers
<1> QED BY <1>2, <1>3, <1>4, <1>5, <1>9, <1>10, <1>11 DEF Next, Step

(* A user whose key is gone, or will be before the user is, has no key     *)
(* again while nobody makes one.                                           *)
LEMMA ShreddedStays ==
  ASSUME TypeOK, \A p \in Reqs : Prepared(p), [Next]_vars, faults' = faults,
         NEW u \in Users, ~ Keying(u), Shredded(u)
  PROVE  Shredded(u)'
<1>1. ASSUME u \notin keys PROVE u \notin keys'
  <2>1. ASSUME NEW p \in Reqs, ProvisionKey(p) PROVE u \notin keys'
    BY <1>1, <2>1 DEF ProvisionKey, Keying
  <2>2. ASSUME NEW p \in Reqs, EraseKey(p) PROVE u \notin keys'
    BY <1>1, <2>2 DEF EraseKey, Shred
  <2> QED BY <1>1, <2>1, <2>2, KeysMove
<1>2. ASSUME u \in erased' PROVE u \notin keys'
  <2>1. CASE u \in erased BY <1>1, <2>1 DEF Shredded
  <2>2. CASE u \notin erased
    <3>1. PICK p \in Reqs : GrantWrite(p) \/ EraseUser(p)
      BY <1>2, <2>2, AccountsMove
    <3>2. EraseUser(p) /\ req[p].user = u
      BY <1>2, <2>2, <3>1 DEF GrantWrite, EraseUser
    <3> QED BY <1>1, <3>2 DEF EraseUser, At, Shredded
  <2> QED BY <2>1, <2>2
<1>3. ASSUME NEW q \in Reqs, req'[q].op = "erase", req'[q].user = u,
             req'[q].pc \in {"shares", "unregister", "user"}
      PROVE  u \notin keys'
  <2>1. ASSUME req'[q] = req[q] PROVE u \notin keys'
    BY <1>1, <1>3, <2>1 DEF Shredded
  <2>2. CASE UNCHANGED vars BY <2>1, <2>2 DEF vars
  <2>3. CASE Outside BY <2>1, <2>3, OutsideFrame
  <2>4. ASSUME NEW p \in Reqs, Step(p), p # q PROVE u \notin keys'
    BY <2>1, <2>4, OneMoves
  <2>5. CASE Provision(q) \/ Create(q) BY <1>3, <2>5, SetUpFrame
  <2>6. CASE Abort(q)
    BY <1>3, <2>6 DEF Abort, Finish, Idle, TypeOK
  <2>7. CASE Erase(q)
    <3>1. req[q].op = "erase" /\ req[q].user = u
      BY <1>3, <2>7, EraseMoves DEF Idle
    <3>2. req[q] \in Requests BY <3>1, BusyType
    <3>3. CASE EraseKey(q)
      BY <3>1, <3>3, FaultsStay DEF EraseKey, Shred, Fault
    <3>4. CASE EraseShares(q) \/ EraseUnregister(q) \/ EraseUser(q)
      BY <1>1, <3>1, <3>4 DEF EraseShares, EraseUnregister, EraseUser, At, Shredded
    <3>5. CASE EraseList(q)
      <4>1. PICK registered :
              req' = [req EXCEPT ![q].todo = Found(req[q].user, registered),
                                 ![q].pc = "empty"]
        BY <3>5 DEF EraseList
      <4> QED BY <1>3, <3>2, <4>1 DEF Requests, TypeOK
    <3>6. ASSUME NEW b, NextBucket(q, b) PROVE FALSE
      BY <1>3, <3>2, <3>6 DEF NextBucket, Requests, TypeOK
    <3>7. ASSUME NEW b \in Buckets, EraseEmpty(q, b) PROVE FALSE
      BY <1>3, <3>2, <3>6, <3>7 DEF EraseEmpty, Requests, TypeOK
    <3>8. ~ EraseDrop(q) BY <3>6 DEF EraseDrop
    <3>9. ASSUME NEW v \in Users PROVE ~ BeginErase(q, v)
      BY <3>2 DEF BeginErase, Start, Busy, Requests
    <3> QED BY <2>7, <3>3, <3>4, <3>5, <3>7, <3>8, <3>9 DEF Erase
  <2> QED BY <2>2, <2>3, <2>4, <2>5, <2>6, <2>7 DEF Next, Step
<1> QED BY <1>2, <1>3 DEF Shredded

(* HomeInv is preserved: what is in the home bucket was encrypted, or the  *)
(* one failure has been and the erasure empties the bucket; a failure that *)
(* keeps the bucket comes before the key is deleted, and is the only one.  *)
LEMMA HomeNext ==
  ASSUME TypeOK, \A p \in Reqs : Prepared(p), AckInv, RegistryCurrent, SealedInv,
         HomeInv, [Next]_vars
  PROVE  HomeInv'
<1> SUFFICES ASSUME NEW d \in data', d.calm, d.bucket = Home[d.owner],
                    OwnHome(d.owner)
             PROVE  /\ ~ Keying(d.owner)'
                    /\ faults' = 0 => d.key = d.owner
                    /\ faults' <= 1 =>
                         \/ Doomed(d.owner, d.bucket)'
                         \/ /\ faults' = 1 /\ d.key = d.owner
                            /\ Shredded(d.owner)'
  BY DEF HomeInv, OwnHome
<1> DEFINE u == d.owner
           b == d.bucket
<1>1. d \in Items /\ b \in buckets' BY NextType DEF TypeOK
<1>2. u \in Users /\ b \in Buckets BY <1>1 DEF Items
<1>3. \A v \in Users \ {u} : <<v, b>> \notin acked'
  BY <1>2, AckNext, HomesOrExtra DEF AckInv, OwnHome
<1>4. CASE d \in data
  <2>1. b \in buckets BY <1>4 DEF TypeOK
  <2>2. ~ Keying(u) /\ ~ Keying(u)'
    BY <1>2, <1>4, <2>1, KeyingStarts DEF HomeInv
  <2>3. faults' = 0 => faults = 0 /\ d.key = u BY <1>4, FaultsStay DEF HomeInv
  <2>4. ASSUME faults' <= 1, Doomed(u, b)
        PROVE  Doomed(u, b)' \/ (faults' = 1 /\ d.key = u /\ Shredded(u)')
    <3>1. Doomed(u, b)' \/ (faults' = faults + 1 /\ Shredded(u)')
      BY <1>2, <1>3, <2>1, <2>4, DoomedStays
    <3>2. faults' = faults + 1 => faults = 0 BY <2>4, FaultsStay
    <3> QED BY <1>4, <3>1, <3>2 DEF HomeInv
  <2>5. ASSUME faults' <= 1, faults = 1, d.key = u, Shredded(u)
        PROVE  faults' = 1 /\ Shredded(u)'
    <3>1. faults' = faults BY <2>5, FaultsStay
    <3> QED BY <1>2, <2>2, <2>5, <3>1, ShreddedStays
  <2>6. faults' <= 1 => faults <= 1 BY FaultsStay
  <2> QED BY <1>4, <2>2, <2>3, <2>4, <2>5, <2>6 DEF HomeInv
<1>5. ASSUME NEW v \in Users, NEW c \in Buckets, Upload(v, c), d \notin data
      PROVE  /\ ~ Keying(u)'
             /\ faults' = 0 => d.key = u
             /\ faults' <= 1 =>
                  Doomed(u, b)' \/ (faults' = 1 /\ d.key = u /\ Shredded(u)')
  <2>1. d = [bucket |-> c, owner |-> v, key |-> sse[c], calm |-> Calm(v, c)]
    BY <1>5 DEF Upload
  <2>2. v = u /\ c = b /\ d.key = sse[b] /\ Calm(u, b) BY <2>1
  <2>3. /\ faults' = faults /\ b \in buckets
    BY <1>5, <2>2 DEF Upload
  <2>4. /\ <<u, b>> \in acked /\ u \notin erased /\ ~ Erasing(u)
        /\ ~ Keying(u) /\ ~ Keying(u)' /\ ~ Encrypting(u)
        /\ ~ Shredded(u)' => u \in erased'
        /\ registry[b] = u => Doomed(u, b)'
    BY <1>2, <1>5, <2>2, CalmUpload
  <2>5. u \notin erased'
    BY <1>5, <2>4 DEF Upload, keycloak
  <2>6. faults = 0 => registry[b] = u
    BY <1>2, <2>4, OwnAlone DEF RegistryCurrent
  <2>7. faults <= 1 => sse[b] = u \/ (faults = 1 /\ registry[b] = u)
    BY <1>2, <2>3, <2>4 DEF SealedInv
  <2>8. faults \in Nat BY FaultsStay
  <2> QED BY <2>2, <2>3, <2>4, <2>5, <2>6, <2>7, <2>8
<1> QED BY <1>4, <1>5, DataMoves

----------------------------------------------------------------------------
(* Claims to buckets. *)

(* A JWT changes where it is issued anew. *)
LEMMA TokensMove ==
  ASSUME TypeOK, [Next]_vars
  PROVE  UNCHANGED token \/ \E u \in Users : Refresh(u)
<1>1. CASE UNCHANGED vars BY <1>1 DEF vars
<1>2. CASE Outside BY <1>2 DEF Outside, Upload, Trash, Purge
<1>3. ASSUME NEW p \in Reqs, Step(p) PROVE UNCHANGED token
  <2>1. CASE Provision(p)
    BY <2>1 DEF Provision, BeginProvision, ProvisionCheck, ProvisionCreate,
                ProvisionKey, ProvisionEncrypt, GrantRead, GrantWrite,
                ProvisionRegister, RegisterAndAnswer
  <2>2. CASE Create(p)
    BY <2>2 DEF Create, BeginCreate, CreateCheck, CreateBucket, CreateRegister,
                RegisterAndAnswer
  <2>3. CASE Erase(p)
    BY <2>3 DEF Erase, BeginErase, EraseList, EraseEmpty, EraseDrop, EraseKey,
                EraseShares, EraseUnregister, EraseUser
  <2>4. CASE Abort(p) BY <2>4 DEF Abort
  <2> QED BY <1>3, <2>1, <2>2, <2>3, <2>4 DEF Step
<1> QED BY <1>1, <1>2, <1>3 DEF Next

(* How many buckets a name has had grows where one is created.             *)
LEMMA GenMoves ==
  ASSUME TypeOK, \A p \in Reqs : Prepared(p), [Next]_vars, NEW b \in Extra
  PROVE  \/ gen'[b] = gen[b]
         \/ /\ gen'[b] = gen[b] + 1
            /\ \E p \in Reqs : CreateBucket(p) /\ req[p].bucket = b
<1> USE DEF s3Vars
<1>1. CASE UNCHANGED vars BY <1>1 DEF vars
<1>2. CASE Outside BY <1>2 DEF Outside, Refresh, Upload, Trash, Purge
<1>3. ASSUME NEW p \in Reqs, Step(p)
      PROVE  \/ gen'[b] = gen[b]
             \/ /\ gen'[b] = gen[b] + 1
                /\ CreateBucket(p) /\ req[p].bucket = b
  <2>1. CASE ProvisionCreate(p)
    <3>1. req[p] \in Requests /\ req[p].bucket # b
      BY <2>1, BusyType, HomesOrExtra DEF ProvisionCreate, At, Prepared, Requests
    <3> QED BY <2>1, <3>1 DEF ProvisionCreate, NewBucket, Extra, TypeOK
  <2>2. CASE CreateBucket(p)
    BY <2>2 DEF CreateBucket, NewBucket, Extra, TypeOK
  <2>3. CASE Provision(p) /\ ~ ProvisionCreate(p)
    BY <2>3 DEF Provision, BeginProvision, ProvisionCheck, ProvisionKey,
                ProvisionEncrypt, GrantRead, GrantWrite, ProvisionRegister,
                RegisterAndAnswer
  <2>4. CASE Create(p) /\ ~ CreateBucket(p)
    BY <2>4 DEF Create, BeginCreate, CreateCheck, CreateRegister,
                RegisterAndAnswer
  <2>5. CASE Erase(p)
    BY <2>5 DEF Erase, BeginErase, EraseList, EraseEmpty, EraseDrop, EraseKey,
                EraseShares, EraseUnregister, EraseUser
  <2>6. CASE Abort(p) BY <2>6 DEF Abort
  <2> QED BY <1>3, <2>1, <2>2, <2>3, <2>4, <2>5, <2>6 DEF Step
<1> QED BY <1>1, <1>2, <1>3 DEF Next

(* A provisioning has in hand what it had, and what it reads in the account.*)
LEMMA ProvisionInHand ==
  ASSUME TypeOK, NEW p \in Reqs, Prepared(p), Provision(p),
         NEW u \in Users, NEW b \in Buckets, InHand(p, u, b)'
  PROVE  Claims(u, b) \/ b = Home[u]
<1> USE DEF Busy, At, Idle
<1>1. ASSUME NEW pc \in {"create", "key", "encrypt", "read", "write", "register"},
             Goto(p, pc), req[p].op = "provision", Busy(p)
      PROVE  InHand(p, u, b)
  <2>1. req[p] \in Requests BY <1>1, BusyType
  <2>2. req'[p] = [req[p] EXCEPT !.pc = pc] BY <1>1 DEF Goto, TypeOK
  <2> QED BY <1>1, <2>1, <2>2 DEF InHand, Requests
<1>2. ASSUME Finish(p) PROVE FALSE BY <1>2 DEF Finish, InHand, TypeOK
<1>3. ASSUME NEW v \in Users, BeginProvision(p, v) PROVE b = Home[u]
  BY <1>3 DEF BeginProvision, Start, InHand, TypeOK
<1>4. CASE GrantRead(p)
  <2>1. req[p] \in Requests BY <1>4, BusyType DEF GrantRead
  <2>2. CASE req' = [req EXCEPT ![p].held = granted[req[p].user], ![p].pc = "write"]
    <3>1. req'[p] = [req[p] EXCEPT !.held = granted[req[p].user], !.pc = "write"]
      BY <2>1, <2>2 DEF TypeOK
    <3>2. /\ req[p].user = u /\ req[p].op = "provision"
          /\ b \in granted[u] \/ b = req[p].bucket
      BY <1>4, <2>1, <3>1 DEF InHand, GrantRead, Requests
    <3> QED BY <1>4, <3>2 DEF Claims, InHand, GrantRead
  <2> QED BY <1>1, <1>2, <1>4, <2>2 DEF GrantRead, Claims
<1>5. ASSUME InHand(p, u, b) PROVE Claims(u, b) BY <1>5 DEF Claims
<1>6. CASE ProvisionCheck(p) BY <1>1, <1>5, <1>6 DEF ProvisionCheck
<1>7. CASE ProvisionCreate(p) BY <1>1, <1>2, <1>5, <1>7 DEF ProvisionCreate
<1>8. CASE ProvisionKey(p) BY <1>1, <1>5, <1>8 DEF ProvisionKey
<1>9. CASE ProvisionEncrypt(p) BY <1>1, <1>5, <1>9 DEF ProvisionEncrypt
<1>10. CASE GrantWrite(p) BY <1>1, <1>2, <1>5, <1>10 DEF GrantWrite
<1>11. CASE ProvisionRegister(p)
  BY <1>2, <1>11 DEF ProvisionRegister, RegisterAndAnswer
<1> QED BY <1>3, <1>4, <1>6, <1>7, <1>8, <1>9, <1>10, <1>11 DEF Provision

(* A creation has in hand the bucket that it has made itself.              *)
LEMMA CreateInHand ==
  ASSUME TypeOK, NEW p \in Reqs, Prepared(p), Create(p),
         NEW u \in Users, NEW b \in Buckets, InHand(p, u, b)'
  PROVE  CreateBucket(p) /\ NewBucket(b) /\ b = req[p].bucket /\ u = req[p].user
<1> USE DEF Busy, At, Idle
<1>1. ASSUME Finish(p) PROVE FALSE BY <1>1 DEF Finish, InHand, TypeOK
<1>2. ASSUME NEW v \in Users, NEW c \in Buckets, BeginCreate(p, v, c) PROVE FALSE
  BY <1>2 DEF BeginCreate, Start, InHand, TypeOK
<1>3. CASE CreateCheck(p)
  <2>1. req[p] \in Requests BY <1>3, BusyType DEF CreateCheck
  <2>2. req'[p] = [req[p] EXCEPT !.pc = "create"]
    BY <1>1, <1>3 DEF CreateCheck, Goto, TypeOK
  <2> QED BY <1>3, <2>1, <2>2 DEF CreateCheck, InHand, Requests
<1>4. CASE CreateBucket(p)
  <2>1. req[p] \in Requests BY <1>4, BusyType DEF CreateBucket
  <2>2. NewBucket(req[p].bucket) /\ req'[p] = [req[p] EXCEPT !.pc = "register"]
    BY <1>1, <1>4 DEF CreateBucket, Goto, TypeOK
  <2> QED BY <1>4, <2>1, <2>2 DEF CreateBucket, InHand, Requests
<1>5. CASE CreateRegister(p) BY <1>1, <1>5 DEF CreateRegister, RegisterAndAnswer
<1> QED BY <1>2, <1>3, <1>4, <1>5 DEF Create

(* An erasure has in hand what it found in the registry and in the JWT.    *)
LEMMA EraseInHand ==
  ASSUME TypeOK, NEW p \in Reqs, Prepared(p), Erase(p),
         NEW u \in Users, NEW b \in Buckets, InHand(p, u, b)'
  PROVE  Claims(u, b)
<1> USE DEF Busy, At, Idle
<1>1. req[p].op = "erase" /\ req[p].user = u /\ req'[p].op = "erase"
  <2>1. ASSUME NEW v \in Users, BeginErase(p, v) PROVE FALSE
    BY <2>1 DEF BeginErase, Start, InHand, TypeOK
  <2>2. ASSUME req'[p].op = "erase", req'[p].pc = "list", Busy(p) PROVE FALSE
    <3>1. req[p] \in Requests BY <2>2 DEF TypeOK
    <3> QED BY <2>1, <2>2, <3>1, EraseMoves DEF Requests
  <2>3. req'[p] # Idle BY DEF InHand
  <2>4. ASSUME req[p] = Idle PROVE FALSE
    BY <2>1, <2>4 DEF Erase, EraseList, EraseEmpty, EraseDrop, EraseKey,
       EraseShares, EraseUnregister, EraseUser
  <2> QED BY <2>3, <2>4, EraseMoves DEF InHand
<1>2. req[p] \in Requests BY <1>1, BusyType
<1>3. ASSUME b \in req[p].todo \/ (req[p].pc = "drop" /\ b = req[p].bucket)
      PROVE  Claims(u, b)
  <2>1. InHand(p, u, b) BY <1>1, <1>2, <1>3 DEF InHand, Requests
  <2> QED BY <2>1 DEF Claims
<1>4. ASSUME NEW pc \in {"shares", "unregister", "user"}, Goto(p, pc)
      PROVE  Claims(u, b)
  <2>1. req'[p] = [req[p] EXCEPT !.pc = pc] BY <1>4 DEF Goto, TypeOK
  <2> QED BY <1>1, <1>2, <1>3, <1>4, <2>1 DEF InHand, Requests
<1>5. ASSUME NEW c \in Buckets, NextBucket(p, c) PROVE Claims(u, b)
  <2>1. req'[p] = [req[p] EXCEPT !.todo = req[p].todo \ {c}, !.pc = "empty"]
    BY <1>2, <1>5 DEF NextBucket, TypeOK
  <2> QED BY <1>1, <1>2, <1>3, <2>1 DEF InHand, Requests
<1>6. CASE EraseList(p)
  <2>1. PICK registered \in {{c \in Buckets : registry[c] = u}, {}} :
          req' = [req EXCEPT ![p].todo = Found(u, registered), ![p].pc = "empty"]
    BY <1>1, <1>6 DEF EraseList
  <2>2. req'[p] = [req[p] EXCEPT !.todo = Found(u, registered), !.pc = "empty"]
    BY <1>2, <2>1 DEF TypeOK
  <2>3. b \in Found(u, registered) BY <1>1, <1>2, <2>2 DEF InHand, Requests
  <2> QED BY <2>1, <2>3 DEF Found, Claims
<1>7. ASSUME NEW c \in Buckets, EraseEmpty(p, c) PROVE Claims(u, b)
  <2>1. CASE req' = [req EXCEPT ![p].bucket = c, ![p].pc = "drop"]
    <3>1. req'[p] = [req[p] EXCEPT !.bucket = c, !.pc = "drop"]
      BY <1>2, <2>1 DEF TypeOK
    <3>2. b \in req[p].todo \/ b = c
      BY <1>1, <1>2, <3>1 DEF InHand, Requests
    <3> QED BY <1>3, <1>7, <3>2 DEF EraseEmpty
  <2> QED BY <1>5, <1>7, <2>1 DEF EraseEmpty
<1>8. CASE EraseDrop(p) BY <1>1, <1>5, <1>8 DEF EraseDrop, Prepared
<1>9. CASE EraseKey(p) \/ EraseShares(p) \/ EraseUnregister(p)
  BY <1>4, <1>9 DEF EraseKey, EraseShares, EraseUnregister
<1>10. CASE EraseUser(p) BY <1>10 DEF EraseUser, Finish, InHand, TypeOK
<1>11. ASSUME NEW v \in Users, BeginErase(p, v) PROVE FALSE
  BY <1>2, <1>11 DEF BeginErase, Start, Requests
<1> QED BY <1>6, <1>7, <1>8, <1>9, <1>10, <1>11 DEF Erase

(* Registering a bucket, or filling one, takes a claim to it.              *)
LEMMA EffectsClaimed ==
  ASSUME TypeOK, \A p \in Reqs : Prepared(p), NEW u \in Users, NEW b \in Buckets
  PROVE  /\ \A p \in Reqs :
              Registers(p) /\ req[p].user = u /\ req[p].bucket = b => Claims(u, b)
         /\ \A p \in Reqs :
              GrantWrite(p) /\ req[p].user = u /\ b \in Extended(p) => Claims(u, b)
         /\ Upload(u, b) => Claims(u, b) \/ b = Home[u]
         /\ \A p \in Reqs : EraseEmpty(p, b) /\ req[p].user = u => Claims(u, b)
         /\ \A p \in Reqs :
              EraseDrop(p) /\ req[p].user = u /\ req[p].bucket = b => Claims(u, b)
<1> USE DEF Busy, At
<1>1. ASSUME NEW p \in Reqs, InHand(p, u, b) PROVE Claims(u, b)
  BY <1>1 DEF Claims
<1>2. ASSUME NEW p \in Reqs, Registers(p), req[p].user = u, req[p].bucket = b
      PROVE  InHand(p, u, b)
  BY <1>2 DEF Registers, ProvisionRegister, CreateRegister, RegisterAndAnswer, InHand
<1>3. ASSUME NEW p \in Reqs, GrantWrite(p), req[p].user = u, b \in Extended(p)
      PROVE  InHand(p, u, b)
  BY <1>3 DEF GrantWrite, Extended, InHand
<1>4. ASSUME Upload(u, b) PROVE Claims(u, b) \/ b = Home[u]
  BY <1>4 DEF Upload, Claims
<1>5. ASSUME NEW p \in Reqs, EraseEmpty(p, b), req[p].user = u
      PROVE  InHand(p, u, b)
  BY <1>5 DEF EraseEmpty, InHand
<1>6. ASSUME NEW p \in Reqs, EraseDrop(p), req[p].user = u, req[p].bucket = b
      PROVE  InHand(p, u, b)
  BY <1>6 DEF EraseDrop, InHand
<1> QED BY <1>1, <1>2, <1>3, <1>4, <1>5, <1>6

(* Nobody comes by a claim but to one's own home bucket, and to a bucket   *)
(* that one has just created.                                              *)
LEMMA ClaimsMove ==
  ASSUME TypeOK, \A p \in Reqs : Prepared(p), AckInv, [Next]_vars,
         NEW u \in Users, NEW b \in Buckets, Claims(u, b)'
  PROVE  \/ Claims(u, b) \/ b = Home[u]
         \/ \E p \in Reqs : /\ CreateBucket(p) /\ NewBucket(b)
                            /\ b = req[p].bucket /\ u = req[p].user
<1>1. ASSUME registry'[b] = u PROVE Claims(u, b)
  <2>1. CASE UNCHANGED registry BY <1>1, <2>1 DEF Claims
  <2>2. ASSUME NEW p \in Reqs, Registers(p), registry' # registry
        PROVE  Claims(u, b)
    <3>1. /\ req[p] \in Requests /\ req[p].bucket \in Buckets
          /\ registry' = [registry EXCEPT ![req[p].bucket] = req[p].user]
      BY <2>2, RegistersEffect
    <3>2. registry[b] = u \/ (req[p].bucket = b /\ req[p].user = u)
      BY <1>1, <3>1 DEF TypeOK
    <3> QED BY <2>2, <3>2, EffectsClaimed DEF Claims
  <2>3. ASSUME NEW p \in Reqs, EraseUnregister(p), registry' # registry
        PROVE  Claims(u, b)
    BY <1>1, <2>3, NobodyAssumption DEF EraseUnregister, Unregister, Claims
  <2> QED BY <2>1, <2>2, <2>3, RegistryMoves
<1>2. ASSUME b \in granted'[u] PROVE Claims(u, b)
  <2>1. CASE UNCHANGED <<erased, granted>> BY <1>2, <2>1 DEF Claims
  <2>2. ASSUME NEW p \in Reqs, GrantWrite(p) PROVE Claims(u, b)
    <3>1. b \in granted[u] \/ (req[p].user = u /\ b \in Extended(p))
      BY <1>2, <2>2 DEF GrantWrite, TypeOK
    <3> QED BY <2>2, <3>1, EffectsClaimed DEF Claims
  <2>3. ASSUME NEW p \in Reqs, EraseUser(p) PROVE Claims(u, b)
    BY <1>2, <2>3 DEF EraseUser, Claims, TypeOK
  <2> QED BY <2>1, <2>2, <2>3, AccountsMove
<1>3. ASSUME b \in token'[u] PROVE Claims(u, b)
  BY <1>3, TokensMove DEF Refresh, Claims, TypeOK
<1>4. ASSUME <<u, b>> \in acked' PROVE Claims(u, b)
  <2>1. ASSUME NEW p \in Reqs, Registers(p),
               <<u, b>> = <<req[p].user, req[p].bucket>>
        PROVE  Claims(u, b)
    BY <2>1, EffectsClaimed
  <2> QED BY <1>4, <2>1, AckedMove DEF Claims
<1>5. ASSUME NEW d \in data', d.owner = u, d.bucket = b
      PROVE  Claims(u, b) \/ b = Home[u]
  <2>1. CASE d \in data BY <1>5, <2>1 DEF Claims
  <2>2. ASSUME NEW v \in Users, NEW c \in Buckets, Upload(v, c), d \notin data
        PROVE  Claims(u, b) \/ b = Home[u]
    <3>1. d = [bucket |-> c, owner |-> v, key |-> sse[c], calm |-> Calm(v, c)]
      BY <2>2 DEF Upload
    <3>2. v = u /\ c = b BY <1>5, <3>1
    <3> QED BY <2>2, <3>2, EffectsClaimed
  <2> QED BY <2>1, <2>2, DataMoves
<1>6. ASSUME NEW q \in Reqs, InHand(q, u, b)'
      PROVE  \/ Claims(u, b) \/ b = Home[u]
             \/ /\ CreateBucket(q) /\ NewBucket(b)
                /\ b = req[q].bucket /\ u = req[q].user
  <2>1. ASSUME req'[q] = req[q] PROVE Claims(u, b)
    BY <1>6, <2>1 DEF Claims, InHand, Busy, At
  <2>2. CASE UNCHANGED vars BY <2>1, <2>2 DEF vars
  <2>3. CASE Outside BY <2>1, <2>3, OutsideFrame
  <2>4. ASSUME NEW p \in Reqs, Step(p), p # q PROVE Claims(u, b)
    BY <2>1, <2>4, OneMoves
  <2>5. ~ Abort(q)
    BY <1>6 DEF Abort, Finish, Idle, InHand, Busy, TypeOK
  <2> QED BY <1>6, <2>2, <2>3, <2>4, <2>5, ProvisionInHand, CreateInHand,
             EraseInHand DEF Next, Step
<1> QED BY <1>1, <1>2, <1>3, <1>4, <1>5, <1>6 DEF Claims

(* ClaimsInv is preserved. *)
LEMMA ClaimsNext ==
  ASSUME TypeOK, \A p \in Reqs : Prepared(p), AckInv, ClaimsInv, [Next]_vars
  PROVE  ClaimsInv'
<1>1. ASSUME NEW u \in Users, NEW b \in Homes, Claims(u, b)'
      PROVE  Home[u] = b
  <2>1. b \in Buckets /\ b \notin Extra BY <1>1, HomesOrExtra DEF Homes, Extra
  <2>2. ~ \E p \in Reqs : CreateBucket(p) /\ b = req[p].bucket
    BY <2>1 DEF CreateBucket, At, Prepared
  <2> QED BY <1>1, <2>1, <2>2, ClaimsMove DEF ClaimsInv
<1>2. ASSUME NEW b \in Extra, NEW u \in Users, Claims(u, b)'
      PROVE  /\ b \in Buckets /\ gen[b] \in Nat
             /\ Claims(u, b)
                \/ \E p \in Reqs : /\ CreateBucket(p) /\ NewBucket(b)
                                   /\ b = req[p].bucket /\ u = req[p].user
  BY <1>2, HomesOrExtra, Numbers, ClaimsMove DEF TypeOK
<1>3. ASSUME NEW b \in Extra, NewBucket(b)
      PROVE  gen[b] \in Nat /\ gen'[b] = gen[b] + 1
  BY <1>3, Numbers DEF NewBucket, Extra, TypeOK
<1>4. ASSUME NEW b \in Extra, gen'[b] = 0, NEW u \in Users, Claims(u, b)'
      PROVE  FALSE
  <2>1. ~ NewBucket(b) /\ gen[b] = 0
    BY <1>3, <1>4, GenMoves, HomesOrExtra, Numbers DEF TypeOK
  <2> QED BY <1>2, <1>4, <2>1 DEF ClaimsInv
<1>5. ASSUME NEW b \in Extra, gen'[b] = 1, NEW u \in Users, NEW v \in Users,
             Claims(u, b)', Claims(v, b)'
      PROVE  u = v
  <2>1. CASE Claims(u, b)
    <3>1. gen[b] # 0 BY <2>1 DEF ClaimsInv
    <3>2. ~ NewBucket(b) /\ gen[b] = 1
      BY <1>2, <1>3, <1>5, <3>1, GenMoves
    <3> QED BY <1>2, <1>5, <2>1, <3>2 DEF ClaimsInv
  <2>2. CASE ~ Claims(u, b)
    <3>1. PICK p \in Reqs : /\ CreateBucket(p) /\ NewBucket(b)
                            /\ b = req[p].bucket /\ u = req[p].user
      BY <1>2, <1>5, <2>2
    <3>2. gen[b] = 0 BY <1>3, <1>5, <3>1
    <3>3. PICK q \in Reqs : CreateBucket(q) /\ NewBucket(b) /\ v = req[q].user
      BY <1>2, <1>5, <3>2 DEF ClaimsInv
    <3>4. Step(q) BY <3>3 DEF Step, Create
    <3>5. req'[p] # req[p]
      <4>1. req[p] \in Requests BY <3>1, BusyType DEF CreateBucket, At
      <4> QED BY <3>1, <4>1 DEF CreateBucket, Goto, Finish, Idle, At, Requests, TypeOK
    <3> QED BY <3>1, <3>3, <3>4, <3>5, OneMoves
  <2> QED BY <2>1, <2>2
<1> QED BY <1>1, <1>4, <1>5 DEF ClaimsInv

----------------------------------------------------------------------------
(* The theorems. *)

(* The inductive invariant holds initially... *)
LEMMA InitAccounts ==
  ASSUME Init
  PROVE  AccountsInv
<1>1. TypeOK BY Numbers DEF Init, TypeOK
<1>2. \A p \in Reqs : Prepared(p) BY DEF Init, Prepared, Idle
<1>3. ClaimsInv
  BY NobodyAssumption, HomesOrExtra
     DEF Init, ClaimsInv, Claims, InHand, Busy, Idle, Homes
<1> QED BY <1>1, <1>2, <1>3
        DEF Init, AccountsInv, AckInv, GrantHeld, RegistryCurrent, StoredInv,
            SealedInv, HomeInv

(* ... and every step keeps it. *)
LEMMA NextAccounts ==
  ASSUME AccountsInv, [Next]_vars
  PROVE  AccountsInv'
<1> USE DEF AccountsInv
<1>1. TypeOK' BY NextType
<1>2. \A p \in Reqs : Prepared(p)' BY PreparedNext
<1>3. AckInv' BY AckNext
<1>4. GrantHeld' BY GrantNext
<1>5. RegistryCurrent' BY RegistryNext
<1>6. StoredInv' BY StoredNext
<1>7. SealedInv' BY SealedNext
<1>8. HomeInv' BY HomeNext
<1>9. ClaimsInv' BY ClaimsNext
<1> QED BY <1>1, <1>2, <1>3, <1>4, <1>5, <1>6, <1>7, <1>8, <1>9

(* Whatever requests overlap, fail or crash, whoever shares a home bucket  *)
(* and however often names are used again: what belongs to an account and  *)
(* what each request has done of its work fit together, the typing of the  *)
(* state included.                                                         *)
THEOREM AccountsInvariant == Spec => []AccountsInv
<1>1. Init => AccountsInv BY InitAccounts
<1>2. AccountsInv /\ [Next]_vars => AccountsInv' BY NextAccounts
<1> QED BY <1>1, <1>2, PTL DEF Spec

(* The state has its type. *)
THEOREM TypeCorrect == Spec => []TypeOK
<1>1. AccountsInv => TypeOK BY DEF AccountsInv
<1> QED BY <1>1, AccountsInvariant, PTL

(* A provisioning that was answered has granted the home bucket: no lost   *)
(* update of the attributes that GrantBucket reads and writes back.        *)
THEOREM GrantsHeld == Spec => []GrantHeld
<1>1. AccountsInv => GrantHeld BY DEF AccountsInv
<1> QED BY <1>1, AccountsInvariant, PTL

(* The registry names the one user who was told that a bucket is set up,   *)
(* as long as no call has failed.                                          *)
THEOREM RegistryNames == Spec => []RegistryCurrent
<1>1. AccountsInv => RegistryCurrent BY DEF AccountsInv
<1> QED BY <1>1, AccountsInvariant, PTL

(* An erasure in which no call failed leaves nothing of what its user had  *)
(* stored in buckets of the user's own.                                    *)
THEOREM NothingLeft == Spec => []ErasedGone
<1>1. AccountsInv => ErasedGone
  <2> SUFFICES ASSUME AccountsInv, faults = 0, NEW d \in data,
                      d.owner \in erased, d.calm
               PROVE  ~ Alone(d.owner, d.bucket)
    BY DEF ErasedGone
  <2> QED BY DEF AccountsInv, StoredInv, Doomed
<1> QED BY <1>1, AccountsInvariant, PTL

(* One failing call or crash, wherever it comes, leaves nothing readable   *)
(* in the home bucket of an erased user that nobody shares.                *)
THEOREM NothingReadable == Spec => []ErasedUnreadable
<1>1. AccountsInv => ErasedUnreadable
  <2> SUFFICES ASSUME AccountsInv, faults <= 1, NEW d \in data,
                      d.owner \in erased, d.calm,
                      d.bucket = Home[d.owner], OwnHome(d.owner)
               PROVE  ~ Readable(d)
    BY DEF ErasedUnreadable
  <2>1. d.key = d.owner /\ d.owner \notin keys
    BY DEF AccountsInv, HomeInv, Doomed, Shredded
  <2>2. d.owner # Nobody
    BY NobodyAssumption DEF AccountsInv, TypeOK, Items
  <2> QED BY <2>1, <2>2 DEF Readable
<1> QED BY <1>1, AccountsInvariant, PTL

(* What a step deletes is in a bucket that its request's user has a claim  *)
(* to, as has whoever loses it.                                            *)
LEMMA LossClaimed ==
  ASSUME TypeOK, \A q \in Reqs : Prepared(q), [Next]_vars,
         NEW p \in Reqs, req'[p] # req[p], NEW l \in Lost
  PROVE  /\ req[p].user \in Users /\ l[1] \in Users /\ l[2] \in Buckets
         /\ Claims(req[p].user, l[2]) /\ Claims(l[1], l[2])
<1> USE DEF keycloak, s3Vars, sharesVars
<1>1. /\ l[1] \in Users /\ l[2] \in Buckets /\ Claims(l[1], l[2])
      /\ \/ \E d \in data : d \notin data' /\ l[2] = d.bucket
         \/ l \in acked /\ l \notin acked'
  <2>1. CASE \E d \in data \ data' : l = <<d.owner, d.bucket>>
    BY <2>1 DEF TypeOK, Items, Claims
  <2>2. CASE l \in acked \ acked'
    <3>1. l = <<l[1], l[2]>> /\ l[1] \in Users /\ l[2] \in Buckets
      BY <2>2 DEF TypeOK
    <3> QED BY <2>2, <3>1 DEF Claims
  <2> QED BY <2>1, <2>2 DEF Lost
<1>2. ~ UNCHANGED vars /\ ~ Outside BY OutsideFrame DEF vars
<1>3. Step(p) BY <1>2, OneMoves DEF Next
<1>4. ~ (Provision(p) \/ Create(p)) BY <1>1, SetUpFrame
<1>5. ~ Abort(p) BY <1>1, QuietSteps DEF Unmoved
<1>6. ASSUME NEW b \in Buckets, EraseEmpty(p, b)
      PROVE  req[p].user \in Users /\ Claims(req[p].user, l[2])
  <2>1. req[p] \in Requests BY <1>6, BusyType DEF EraseEmpty, At
  <2>2. l[2] = b BY <1>1, <1>6 DEF EraseEmpty, DataIn
  <2> QED BY <1>6, <2>1, <2>2, EffectsClaimed DEF Requests
<1>7. ASSUME EraseDrop(p)
      PROVE  req[p].user \in Users /\ Claims(req[p].user, l[2])
  <2>1. req[p] \in Requests BY <1>7, BusyType DEF EraseDrop, At
  <2>2. l[2] = req[p].bucket BY <1>1, <1>7 DEF EraseDrop, DropBucket
  <2> QED BY <1>1, <1>7, <2>1, <2>2, EffectsClaimed DEF Requests
<1>8. ~ (EraseList(p) \/ EraseShares(p) \/ \E u \in Users : BeginErase(p, u))
  BY <1>1, QuietSteps DEF Unmoved
<1>9. ~ (EraseKey(p) \/ EraseUnregister(p) \/ EraseUser(p))
  BY <1>1 DEF EraseKey, EraseUnregister, EraseUser
<1> QED BY <1>1, <1>3, <1>4, <1>5, <1>6, <1>7, <1>8, <1>9 DEF Step, Erase

(* An erasure, whatever it overlaps with, fails at or was told, deletes    *)
(* nothing of another user's: only what is in a home the two share, or in  *)
(* a bucket whose name was used before.                                    *)
THEOREM ErasureSpares == Spec => EraseSpares
<1>1. ASSUME AccountsInv, [Next]_vars, NEW p \in Reqs, req'[p] # req[p],
             NEW l \in Lost
      PROVE  \/ l[1] = req[p].user
             \/ Home[l[1]] = l[2] /\ ~ OwnHome(l[1])
             \/ l[2] \in Extra /\ gen[l[2]] > 1
  <2>1. /\ req[p].user \in Users /\ l[1] \in Users /\ l[2] \in Buckets
        /\ Claims(req[p].user, l[2]) /\ Claims(l[1], l[2])
    BY <1>1, LossClaimed DEF AccountsInv
  <2>2. CASE l[2] \in Homes
    BY <1>1, <2>1, <2>2 DEF AccountsInv, ClaimsInv, OwnHome
  <2>3. CASE l[2] \in Extra
    <3>1. gen[l[2]] \in Nat BY <1>1, <2>1, Numbers DEF AccountsInv, TypeOK
    <3> QED BY <1>1, <2>1, <2>3, <3>1 DEF AccountsInv, ClaimsInv
  <2> QED BY <2>1, <2>2, <2>3 DEF Extra
<1>2. AccountsInv /\ [Next]_vars =>
        [\A p \in Reqs : req'[p] # req[p] =>
           \A l \in Lost :
             \/ l[1] = req[p].user
             \/ Home[l[1]] = l[2] /\ ~ OwnHome(l[1])
             \/ l[2] \in Extra /\ gen[l[2]] > 1]_vars
  BY <1>1
<1> QED BY <1>2, AccountsInvariant, PTL DEF Spec, EraseSpares
=============================================================================
