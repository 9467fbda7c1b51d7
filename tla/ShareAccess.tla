---------------------------- MODULE ShareAccess ----------------------------
(***************************************************************************)
(* Who gets at a bucket, and how soon that changes.  canAccessBucket asks  *)
(* go-shares whether the bucket is in the trash and whether it is shared   *)
(* with the caller, through a cache in the gateway's memory with a time to *)
(* live; the calls that take access away drop the bucket's entries.  Only  *)
(* one bucket: entries of different buckets do not meet.                   *)
(***************************************************************************)
EXTENDS Integers, FiniteSets

CONSTANTS
  Owners,     \* users with the bucket in their JWT, or whose home it is
  Sharees,    \* users the bucket may be shared with
  Reqs,       \* slots for concurrent requests
  TTL,        \* sharesCacheTTL
  Timeout,    \* the time limit of the HTTP client for go-shares
  Faulty,     \* how calls to go-shares may fail
  MaxFaults,  \* bound on the number of failed calls
  MaxChanges, \* bound on the number of changes in go-shares
  MaxTime     \* bound on the clock

Users == Owners \cup Sharees

(* What go-shares is asked: is the bucket in the trash, has this user a    *)
(* share.                                                                  *)
Facts == {"deleted"} \cup Sharees
YesNo == {"yes", "no"}

ASSUME UsersAssumption == Owners \cap Sharees = {} /\ "deleted" \notin Users
ASSUME TimesAssumption == {TTL, Timeout} \subseteq Nat \ {0}
ASSUME BoundsAssumption == {MaxFaults, MaxChanges, MaxTime} \subseteq Nat

VARIABLES
  now,      \* the clock
  truth,    \* the facts in go-shares
  since,    \* history: when each fact last changed
  settled,  \* history: the facts that have taken access away by a request
            \* that has returned, and whether it raced with a check
  cache,    \* the cached facts
  req,      \* the request in each slot
  changes,  \* the number of changes in go-shares
  faults    \* the number of failed calls

vars == <<now, truth, since, settled, cache, req, changes, faults>>

Idle == [op |-> "none", pc |-> "idle"]
NoEntry == [value |-> "no", expires |-> 0]

(* The longest that a cached answer can be behind go-shares, and the       *)
(* longest before the decision that the first of two answers was used.     *)
MaxAge == TTL + Timeout
MaxDelay == Timeout

(* A settled fact is raced when a check held an answer that was already out*)
(* of date as the request came to drop that fact from the cache, or when   *)
(* the fact changed once more before the request returned.                 *)
Settled == Facts \X YesNo

(* An access check: the fact it is looking up, when it asked go-shares, the*)
(* answer, and the facts that have been settled since before it began.     *)
Checks ==
  [op : {"access"}, pc : {"lookup", "ask", "store", "granted", "denied"},
   user : Users, fact : Facts, asked : 0..MaxTime, value : YesNo,
   sure : SUBSET Settled]

OwnerOps == {"share", "unshare", "trash", "restore", "purged"}
OwnerCalls ==
  [op : OwnerOps, pc : {"change", "invalidate"}, fact : Facts,
   todo : SUBSET Facts, raced : YesNo]

TypeOK ==
  /\ now \in 0..MaxTime
  /\ truth \in [Facts -> YesNo]
  /\ since \in [Facts -> Int]
  /\ settled \subseteq Settled
  /\ cache \in [Facts -> [value : YesNo, expires : 0..(MaxTime + TTL)]]
  /\ req \in [Reqs -> Checks \cup OwnerCalls \cup {Idle}]
  /\ changes \in 0..MaxChanges
  /\ faults \in 0..MaxFaults

Init ==
  /\ now = 0
  /\ truth = [f \in Facts |-> "no"]
  /\ since = [f \in Facts |-> -(MaxAge + MaxDelay) - 1]
  /\ settled = {}
  /\ cache = [f \in Facts |-> NoEntry]
  /\ req = [p \in Reqs |-> Idle]
  /\ changes = 0
  /\ faults = 0

Fault(kind) ==
  /\ kind \in Faulty
  /\ faults < MaxFaults
  /\ faults' = faults + 1

At(p, pc) == req[p].pc = pc
Finish(p) == req' = [req EXCEPT ![p] = Idle]

goShares == <<truth, since, changes>>

(* The JWT lists the bucket, or it is the user's home bucket. *)
ClaimsAllow(u) == u \in Owners

----------------------------------------------------------------------------
(* canAccessBucket *)

BeginAccess(p, u) ==
  /\ At(p, "idle")
  /\ req' = [req EXCEPT ![p] =
               [op |-> "access", pc |-> "lookup", user |-> u,
                fact |-> "deleted", asked |-> 0, value |-> "no",
                sure |-> settled]]
  /\ UNCHANGED <<now, goShares, settled, cache, faults>>

(* The check goes on, to a decision or to another fact, and forgets the    *)
(* answer it had.                                                          *)
Proceed(p, pc, fact) ==
  req' = [req EXCEPT ![p].pc = pc, ![p].fact = fact,
                     ![p].asked = 0, ![p].value = "no"]

(* Mutant: without an answer the share counts as granted.                  *)
Decide_FailOpen(p, answer) ==
  LET r == req[p] IN
  IF r.fact = "deleted"
  THEN IF answer = "yes" THEN Proceed(p, "denied", r.fact)
       ELSE IF ClaimsAllow(r.user) THEN Proceed(p, "granted", r.fact)
       ELSE Proceed(p, "lookup", r.user)
  ELSE Proceed(p, IF answer # "no" THEN "granted" ELSE "denied", r.fact)

(* What the handler does with an answer, or without one: a bucket in the   *)
(* trash is closed to everybody; then the JWT or the home bucket decide,   *)
(* then the share.                                                         *)
Decide(p, answer) ==
  LET r == req[p] IN
  IF r.fact = "deleted"
  THEN IF answer = "yes" THEN Proceed(p, "denied", r.fact)
       ELSE IF ClaimsAllow(r.user) THEN Proceed(p, "granted", r.fact)
       ELSE Proceed(p, "lookup", r.user)
  ELSE Proceed(p, IF answer = "yes" THEN "granted" ELSE "denied", r.fact)

(* Mutant: nobody looks when an entry expires.                             *)
LookUp_NoExpiry(p) ==
  LET entry == cache[req[p].fact] IN
  /\ At(p, "lookup")
  /\ IF entry.expires > 0
     THEN Decide(p, entry.value)
     ELSE req' = [req EXCEPT ![p].pc = "ask", ![p].asked = now]
  /\ UNCHANGED <<now, goShares, settled, cache, faults>>

LookUp(p) ==
  LET entry == cache[req[p].fact] IN
  /\ At(p, "lookup")
  /\ IF now < entry.expires
     THEN Decide(p, entry.value)
     ELSE req' = [req EXCEPT ![p].pc = "ask", ![p].asked = now]
  /\ UNCHANGED <<now, goShares, settled, cache, faults>>

(* go-shares answers.  An error status or a body that cannot be parsed     *)
(* reads as no, and is cached like an answer.                              *)
Ask(p) ==
  LET f == req[p].fact IN
  /\ At(p, "ask")
  /\ \/ UNCHANGED faults
        /\ req' = [req EXCEPT ![p].pc = "store", ![p].value = truth[f]]
     \/ Fault("badAnswer")
        /\ req' = [req EXCEPT ![p].pc = "store", ![p].value = "no"]
     \/ Fault("noAnswer") /\ Decide(p, "unknown")
  /\ UNCHANGED <<now, goShares, settled, cache>>

(* Mutant: the time to live is added twice.                                *)
Store_TwiceTTL(p) ==
  /\ At(p, "store")
  /\ cache' = [cache EXCEPT ![req[p].fact] =
                 [value |-> req[p].value, expires |-> now + TTL + TTL]]
  /\ Decide(p, req[p].value)
  /\ UNCHANGED <<now, goShares, settled, faults>>

Store(p) ==
  /\ At(p, "store")
  /\ cache' = [cache EXCEPT ![req[p].fact] =
                 [value |-> req[p].value, expires |-> now + TTL]]
  /\ Decide(p, req[p].value)
  /\ UNCHANGED <<now, goShares, settled, faults>>

EndAccess(p) ==
  /\ At(p, "granted") \/ At(p, "denied")
  /\ Finish(p)
  /\ UNCHANGED <<now, goShares, settled, cache, faults>>

----------------------------------------------------------------------------
(* The requests of the owner, and the end of the purge, that change the    *)
(* facts.                                                                  *)

NewValue(op) == IF op \in {"share", "trash"} THEN "yes" ELSE "no"

(* The calls that invalidate the cache when they succeed. *)
Invalidating == {"unshare", "trash", "restore"}

(* The changes that take access away. *)
Closing == {"unshare", "trash"}

(* Mutant: only the shares are dropped from the cache, not the trash.      *)
Entries_SharesOnly == Sharees

(* The cache entries that InvalidateCache drops, all of the bucket's.      *)
Entries == Facts

BeginChange(p, op, f) ==
  /\ At(p, "idle")
  /\ op \in {"share", "unshare"} <=> f \in Sharees
  /\ changes < MaxChanges
  /\ req' = [req EXCEPT ![p] =
               [op |-> op, pc |-> "change", fact |-> f, todo |-> Entries,
                raced |-> "no"]]
  /\ UNCHANGED <<now, goShares, settled, cache, faults>>

(* The requests, as f changes under them: what they have noted of f before *)
(* no longer counts.                                                       *)
Overtaken(f) ==
  [q \in Reqs |->
     IF req[q].op = "access"
     THEN [req[q] EXCEPT !.sure = {s \in @ : s[1] # f}]
     ELSE IF At(q, "invalidate") /\ req[q].fact = f
          THEN [req[q] EXCEPT !.raced = "yes"] ELSE req[q]]

(* The call to go-shares.  When nothing is to be changed it answers with an*)
(* error; when its answer is lost the change has been made all the same.   *)
(* (The bound on changes counts as an error, too.)                         *)
Change(p) ==
  LET f == req[p].fact  value == NewValue(req[p].op) IN
  /\ At(p, "change")
  /\ IF truth[f] = value \/ changes = MaxChanges
     THEN UNCHANGED <<goShares, settled, faults>> /\ Finish(p)
     ELSE /\ truth' = [truth EXCEPT ![f] = value]
          /\ since' = [since EXCEPT ![f] = now]
          /\ changes' = changes + 1
          /\ settled' = {s \in settled : s[1] # f}
          /\ \/ UNCHANGED faults
                /\ req' = [Overtaken(f) EXCEPT ![p] =
                             IF req[p].op \in Invalidating
                             THEN [req[p] EXCEPT !.pc = "invalidate"] ELSE Idle]
             \/ Fault("noAnswer") /\ req' = [Overtaken(f) EXCEPT ![p] = Idle]
  /\ UNCHANGED <<now, cache>>

(* A check is about to store an answer that is out of date. *)
Outdated(f) ==
  \E q \in Reqs : At(q, "store") /\ req[q].fact = f /\ req[q].value # truth[f]

(* InvalidateCache walks over the map, entry by entry. *)
Invalidate(p) ==
  LET r == req[p] IN
  /\ At(p, "invalidate")
  /\ \/ \E f \in r.todo :
          /\ cache' = [cache EXCEPT ![f] = NoEntry]
          /\ req' = [req EXCEPT ![p].todo = @ \ {f},
                       ![p].raced = IF f = r.fact /\ Outdated(f)
                                    THEN "yes" ELSE @]
          /\ UNCHANGED settled
     \/ /\ r.todo = {}
        /\ Finish(p)
        /\ settled' = IF r.op \in Closing /\ truth[r.fact] = NewValue(r.op)
                      THEN settled \cup {<<r.fact, r.raced>>} ELSE settled
        /\ UNCHANGED cache
  /\ UNCHANGED <<now, goShares, faults>>

----------------------------------------------------------------------------
(* Time passes while a request waits for go-shares, up to the client's time*)
(* limit; what the gateway does by itself takes no time.                   *)
Tick ==
  /\ now < MaxTime
  /\ \A p \in Reqs :
       \/ At(p, "idle") \/ At(p, "change")
       \/ (At(p, "ask") \/ At(p, "store")) /\ now < req[p].asked + Timeout
  /\ now' = now + 1
  /\ UNCHANGED <<goShares, settled, cache, req, faults>>

Step(p) ==
  \/ \E u \in Users : BeginAccess(p, u)
  \/ \E op \in OwnerOps, f \in Facts : BeginChange(p, op, f)
  \/ LookUp(p) \/ Ask(p) \/ Store(p) \/ EndAccess(p)
  \/ Change(p) \/ Invalidate(p)

Next == Tick \/ \E p \in Reqs : Step(p)

Spec == Init /\ [][Next]_vars

----------------------------------------------------------------------------
(* The fact has, or had at most age ago, that value. *)
Recently(f, value, age) == truth[f] = value \/ since[f] >= now - age

(* A share that has been revoked grants access for sharesCacheTTL and the  *)
(* time of one call to go-shares, at most, whatever overlaps or fails:     *)
(* invalidation lost to a concurrent check, unanswered calls, errors.      *)
ShareFresh ==
  \A p \in Reqs :
    At(p, "granted") /\ req[p].user \in Sharees
      => Recently(req[p].user, "yes", MaxAge)

(* As long as go-shares answers, a bucket in the trash is accessible at    *)
(* most for sharesCacheTTL and the time of two calls: the look-up of the   *)
(* share may delay the decision that the look-up of the trash allowed.     *)
(* (Without an answer canAccessBucket takes it for not deleted.)           *)
TrashFresh ==
  faults = 0 =>
    \A p \in Reqs :
      At(p, "granted") => Recently("deleted", "no", MaxAge + MaxDelay)

(* As long as go-shares answers, nobody is turned away from a bucket that  *)
(* has been theirs and out of the trash for that long.                     *)
DeniedFresh ==
  faults = 0 =>
    \A p \in Reqs :
      At(p, "denied") =>
        \/ Recently("deleted", "yes", MaxAge)
        \/ req[p].user \in Sharees /\ Recently(req[p].user, "no", MaxAge)

Concerns(s, p) == s[1] \in {"deleted", req[p].user}

(* When the request that takes access away has returned, a check that      *)
(* begins afterwards is refused, unless, when the entry was dropped,       *)
(* another check was about to store an answer that was out of date, or     *)
(* access has been given back or is about to be, in the meantime.          *)
RevokedUnraced ==
  faults = 0 =>
    \A p \in Reqs :
      At(p, "granted") =>
        \A s \in req[p].sure : Concerns(s, p) => s[2] = "yes"

----------------------------------------------------------------------------
(* The inductive invariant behind these. *)

(* What was learnt of f from an answer that was asked for at that time.    *)
Known(f, value, asked) ==
  \/ truth[f] = value
  \/ since[f] >= asked
  \/ value = "no" /\ faults > 0

(* The value of a fact that takes access away. *)
Shutting(f) == IF f = "deleted" THEN "yes" ELSE "no"

(* Access has been taken away, and neither the cache nor a check says      *)
(* otherwise.                                                              *)
Shut(f) ==
  /\ truth[f] = Shutting(f)
  /\ now < cache[f].expires => cache[f].value = Shutting(f)
  /\ \A p \in Reqs :
       At(p, "store") /\ req[p].fact = f => req[p].value = Shutting(f)

(* A check looks up the trash, then the share, and waits for one answer for*)
(* the client's time limit at most.                                        *)
CheckInv(p) ==
  LET r == req[p] IN
  r.op = "access" =>
    /\ r.fact \in {"deleted", r.user}
    /\ r.pc \in {"ask", "store"} => r.asked <= now /\ now <= r.asked + Timeout
    /\ r.pc = "store" => Known(r.fact, r.value, r.asked)
    /\ faults = 0 /\ r.fact = r.user =>
         /\ r.pc = "lookup" => Recently("deleted", "no", MaxAge)
         /\ r.pc \in {"ask", "store"} => Known("deleted", "no", r.asked - MaxAge)

(* A request that takes access away, while nothing races with it, has done *)
(* so for good when the entry is dropped.                                  *)
OwnerInv(p) ==
  LET r == req[p] IN
  r.op \in OwnerOps =>
    /\ r.op \in {"share", "unshare"} <=> r.fact \in Sharees
    /\ r.pc = "change" => r.todo = Entries /\ r.raced = "no"
    /\ r.pc = "invalidate" /\ r.op \in Closing /\ r.raced = "no" =>
         /\ truth[r.fact] = Shutting(r.fact)
         /\ faults = 0 /\ r.fact \notin r.todo => Shut(r.fact)

(* A check that began when access had been taken away for good does not get*)
(* past that.                                                              *)
SureInv(p) ==
  LET r == req[p] IN
  r.op = "access" =>
    /\ r.sure \subseteq settled
    /\ faults = 0 =>
         /\ <<"deleted", "no">> \in r.sure => r.fact = "deleted" /\ r.pc # "granted"
         /\ <<r.user, "no">> \in r.sure => r.pc # "granted"

AccessInv ==
  /\ TypeOK
  /\ \A f \in Facts :
       /\ since[f] <= now
       /\ cache[f].expires <= now + TTL
       /\ now < cache[f].expires
            => Known(f, cache[f].value, cache[f].expires - MaxAge)
       /\ faults = 0 /\ <<f, "no">> \in settled => Shut(f)
  /\ \A p \in Reqs : CheckInv(p) /\ OwnerInv(p) /\ SureInv(p)
  /\ ShareFresh /\ TrashFresh /\ DeniedFresh
=============================================================================
