------------------------- MODULE ShareAccessProofs -------------------------
(***************************************************************************)
(* Proofs about ShareAccess, for any users and number of concurrent        *)
(* requests, any time to live and time limit, any failures and changes.    *)
(***************************************************************************)
EXTENDS ShareAccess, TLAPS

(* Times are natural numbers, and so are the bounds. *)
LEMMA Numbers ==
  /\ TTL \in Nat /\ TTL > 0 /\ Timeout \in Nat /\ Timeout > 0
  /\ MaxFaults \in Nat /\ MaxChanges \in Nat /\ MaxTime \in Nat
  /\ MaxAge = TTL + Timeout /\ MaxDelay = Timeout
BY TimesAssumption, BoundsAssumption DEF MaxAge, MaxDelay

(* No user is called deleted, and no owner needs a share.                  *)
LEMMA Names ==
  /\ "deleted" \in Facts /\ Sharees \subseteq Facts
  /\ "deleted" \notin Users
  /\ \A u \in Users : u \in Sharees <=> u \notin Owners
  /\ \A u \in Owners : u \notin Facts
  /\ \A f \in Facts : f = "deleted" \/ f \in Sharees
BY UsersAssumption DEF Facts, Users

----------------------------------------------------------------------------
(* Requests. *)

(* A request at a step of a check is a check, at one of a change an owner's.*)
LEMMA RequestType ==
  ASSUME TypeOK, NEW p \in Reqs
  PROVE  /\ req[p].op = "access" => req[p] \in Checks
         /\ req[p].op \in OwnerOps => req[p] \in OwnerCalls
         /\ req[p].pc \in {"lookup", "ask", "store", "granted", "denied"}
              => req[p].op = "access"
         /\ req[p].pc \in {"change", "invalidate"} => req[p].op \in OwnerOps
         /\ req[p] = Idle \/ req[p].op = "access" \/ req[p].op \in OwnerOps
BY DEF TypeOK, Checks, OwnerCalls, OwnerOps, Idle

(* Ending a request. *)
LEMMA FinishType ==
  ASSUME TypeOK, NEW p \in Reqs, Finish(p)
  PROVE  /\ req' \in [Reqs -> Checks \cup OwnerCalls \cup {Idle}]
         /\ req'[p] = Idle
         /\ \A q \in Reqs \ {p} : req'[q] = req[q]
BY DEF Finish, TypeOK

(* A check goes on to a decision or another fact. *)
LEMMA ProceedType ==
  ASSUME TypeOK, NEW p \in Reqs, req[p].op = "access",
         NEW pc \in {"lookup", "granted", "denied"}, NEW f \in Facts,
         Proceed(p, pc, f)
  PROVE  /\ req' \in [Reqs -> Checks \cup OwnerCalls \cup {Idle}]
         /\ req'[p].op = "access" /\ req'[p].pc = pc /\ req'[p].fact = f
         /\ req'[p].user = req[p].user /\ req'[p].sure = req[p].sure
         /\ \A q \in Reqs \ {p} : req'[q] = req[q]
<1>1. req[p] \in Checks BY RequestType
<1>2. req'[p] = [req[p] EXCEPT !.pc = pc, !.fact = f, !.asked = 0,
                               !.value = "no"]
  BY DEF Proceed, TypeOK
<1>3. [req[p] EXCEPT !.pc = pc, !.fact = f, !.asked = 0, !.value = "no"]
        \in Checks
  <2>1. 0 \in 0..MaxTime /\ "no" \in YesNo BY Numbers DEF YesNo
  <2>2. req[p] = [op |-> req[p].op, pc |-> req[p].pc, user |-> req[p].user,
                  fact |-> req[p].fact, asked |-> req[p].asked,
                  value |-> req[p].value, sure |-> req[p].sure]
    BY <1>1 DEF Checks
  <2> QED BY <1>1, <2>1, <2>2 DEF Checks
<1>4. req' \in [Reqs -> Checks \cup OwnerCalls \cup {Idle}]
  BY <1>2, <1>3 DEF Proceed, TypeOK
<1>5. /\ req'[p].op = "access" /\ req'[p].pc = pc /\ req'[p].fact = f
      /\ req'[p].user = req[p].user /\ req'[p].sure = req[p].sure
  BY <1>1, <1>2 DEF Checks
<1>6. \A q \in Reqs \ {p} : req'[q] = req[q] BY DEF Proceed, TypeOK
<1> QED BY <1>4, <1>5, <1>6

(* What the handler decides from an answer. *)
LEMMA DecideMoves ==
  ASSUME AccessInv, NEW p \in Reqs, req[p].op = "access",
         NEW answer \in {"yes", "no", "unknown"}, Decide(p, answer)
  PROVE  /\ req' \in [Reqs -> Checks \cup OwnerCalls \cup {Idle}]
         /\ req'[p].op = "access"
         /\ req'[p].user = req[p].user /\ req'[p].sure = req[p].sure
         /\ \A q \in Reqs \ {p} : req'[q] = req[q]
         /\ req[p].user \in Users
         /\ \/ /\ req[p].fact = "deleted" /\ answer = "yes"
               /\ req'[p].pc = "denied" /\ req'[p].fact = "deleted"
            \/ /\ req[p].fact = "deleted" /\ answer # "yes"
               /\ req[p].user \in Owners
               /\ req'[p].pc = "granted" /\ req'[p].fact = "deleted"
            \/ /\ req[p].fact = "deleted" /\ answer # "yes"
               /\ req[p].user \in Sharees
               /\ req'[p].pc = "lookup" /\ req'[p].fact = req[p].user
            \/ /\ req[p].fact = req[p].user /\ req[p].user \in Sharees
               /\ answer = "yes"
               /\ req'[p].pc = "granted" /\ req'[p].fact = req[p].user
            \/ /\ req[p].fact = req[p].user /\ req[p].user \in Sharees
               /\ answer # "yes"
               /\ req'[p].pc = "denied" /\ req'[p].fact = req[p].user
<1>1. TypeOK BY DEF AccessInv
<1>2. req[p] \in Checks BY <1>1, RequestType
<1>3. req[p].user \in Users /\ req[p].fact \in Facts BY <1>2 DEF Checks
<1>4. req[p].fact \in {"deleted", req[p].user} BY DEF AccessInv, CheckInv
<1>5. ASSUME NEW pc \in {"lookup", "granted", "denied"}, NEW f \in Facts,
             Proceed(p, pc, f)
      PROVE  /\ req' \in [Reqs -> Checks \cup OwnerCalls \cup {Idle}]
             /\ req'[p].op = "access" /\ req'[p].pc = pc /\ req'[p].fact = f
             /\ req'[p].user = req[p].user /\ req'[p].sure = req[p].sure
             /\ \A q \in Reqs \ {p} : req'[q] = req[q]
  <2>1. Proceed(p, pc, f) BY <1>5
  <2> QED BY <1>1, <2>1, ProceedType
<1>6. CASE req[p].fact = "deleted"
  <2>1. CASE answer = "yes"
    <3>1. Proceed(p, "denied", "deleted") BY <1>6, <2>1 DEF Decide
    <3> QED BY <1>3, <1>5, <1>6, <2>1, <3>1
  <2>2. CASE answer # "yes" /\ req[p].user \in Owners
    <3>1. Proceed(p, "granted", "deleted")
      BY <1>6, <2>2 DEF Decide, ClaimsAllow
    <3> QED BY <1>3, <1>5, <1>6, <2>2, <3>1
  <2>3. CASE answer # "yes" /\ req[p].user \notin Owners
    <3>1. Proceed(p, "lookup", req[p].user)
      BY <1>6, <2>3 DEF Decide, ClaimsAllow
    <3>2. req[p].user \in Sharees /\ req[p].user \in Facts BY <1>3, <2>3, Names
    <3> QED BY <1>3, <1>5, <1>6, <2>3, <3>1, <3>2
  <2> QED BY <2>1, <2>2, <2>3
<1>7. CASE req[p].fact # "deleted"
  <2>1. req[p].fact = req[p].user /\ req[p].user \in Sharees
    BY <1>3, <1>4, <1>7, Names
  <2>2. CASE answer = "yes"
    <3>1. Proceed(p, "granted", req[p].user) BY <1>7, <2>1, <2>2 DEF Decide
    <3> QED BY <1>3, <1>5, <2>1, <2>2, <3>1
  <2>3. CASE answer # "yes"
    <3>1. Proceed(p, "denied", req[p].user) BY <1>7, <2>1, <2>3 DEF Decide
    <3> QED BY <1>3, <1>5, <2>1, <2>3, <3>1
  <2> QED BY <2>2, <2>3
<1> QED BY <1>6, <1>7

----------------------------------------------------------------------------
(* Types. *)

(* A failed call counts, within the bound. *)
LEMMA FaultsType ==
  ASSUME TypeOK, UNCHANGED faults \/ \E kind : Fault(kind)
  PROVE  faults' \in 0..MaxFaults /\ faults \in Nat /\ faults <= faults'
BY Numbers DEF TypeOK, Fault

(* Every step keeps the types. *)
LEMMA NextType ==
  ASSUME AccessInv, [Next]_vars
  PROVE  TypeOK'
<1> DEFINE Slots == [Reqs -> Checks \cup OwnerCalls \cup {Idle}]
<1>1. TypeOK BY DEF AccessInv
<1>2. CASE UNCHANGED vars BY <1>1, <1>2 DEF vars, TypeOK
<1>3. CASE Tick BY <1>1, <1>3, Numbers DEF Tick, goShares, TypeOK
<1>4. ASSUME NEW p \in Reqs, NEW r \in Checks \cup OwnerCalls \cup {Idle},
             req' = [req EXCEPT ![p] = r]
      PROVE  req' \in Slots
  BY <1>1, <1>4 DEF TypeOK
<1>5. ASSUME NEW p \in Reqs, NEW u \in Users, BeginAccess(p, u) PROVE TypeOK'
  <2>1. [op |-> "access", pc |-> "lookup", user |-> u, fact |-> "deleted",
         asked |-> 0, value |-> "no", sure |-> settled] \in Checks
    BY <1>1, Names, Numbers DEF Checks, YesNo, TypeOK
  <2>2. req' \in Slots BY <1>4, <1>5, <2>1 DEF BeginAccess
  <2> QED BY <1>1, <1>5, <2>2 DEF BeginAccess, goShares, TypeOK
<1>6. ASSUME NEW p \in Reqs, NEW op \in OwnerOps, NEW f \in Facts,
             BeginChange(p, op, f)
      PROVE  TypeOK'
  <2>1. [op |-> op, pc |-> "change", fact |-> f, todo |-> Entries,
         raced |-> "no"] \in OwnerCalls
    BY DEF OwnerCalls, Entries, YesNo
  <2>2. req' \in Slots BY <1>4, <1>6, <2>1 DEF BeginChange
  <2> QED BY <1>1, <1>6, <2>2 DEF BeginChange, goShares, TypeOK
<1>7. ASSUME NEW p \in Reqs, NEW pc \in {"ask", "store"}, NEW asked \in 0..MaxTime,
             NEW value \in YesNo, req[p].op = "access",
             req' = [req EXCEPT ![p].pc = pc, ![p].asked = asked,
                                ![p].value = value]
      PROVE  req' \in Slots
  <2>1. req[p] \in Checks BY <1>1, <1>7, RequestType
  <2>2. req[p] = [op |-> req[p].op, pc |-> req[p].pc, user |-> req[p].user,
                  fact |-> req[p].fact, asked |-> req[p].asked,
                  value |-> req[p].value, sure |-> req[p].sure]
    BY <2>1 DEF Checks
  <2>3. [req[p] EXCEPT !.pc = pc, !.asked = asked, !.value = value] \in Checks
    BY <1>7, <2>1, <2>2 DEF Checks
  <2> QED BY <1>1, <1>7, <2>3 DEF TypeOK
<1>8. ASSUME NEW p \in Reqs, LookUp(p) PROVE TypeOK'
  <2>1. req[p] \in Checks /\ req[p].op = "access" /\ req[p].fact \in Facts
    BY <1>1, <1>8, RequestType DEF LookUp, At, Checks
  <2>2. cache[req[p].fact].value \in {"yes", "no", "unknown"}
    BY <1>1, <2>1 DEF TypeOK, YesNo
  <2>3. req' = [req EXCEPT ![p].pc = "ask", ![p].asked = now]
          => req' \in Slots
    <3>1. [req[p] EXCEPT !.pc = "ask", !.asked = now] \in Checks
      BY <1>1, <2>1 DEF Checks, TypeOK
    <3> QED BY <1>1, <3>1 DEF TypeOK
  <2>4. req' \in Slots BY <1>8, <2>1, <2>2, <2>3, DecideMoves DEF LookUp
  <2> QED BY <1>1, <1>8, <2>4 DEF LookUp, goShares, TypeOK
<1>9. ASSUME NEW p \in Reqs, Ask(p) PROVE TypeOK'
  <2>1. req[p] \in Checks /\ req[p].op = "access" /\ req[p].fact \in Facts
    BY <1>1, <1>9, RequestType DEF Ask, At, Checks
  <2>2. ASSUME NEW value \in YesNo,
               req' = [req EXCEPT ![p].pc = "store", ![p].value = value]
        PROVE  req' \in Slots
    <3>1. [req[p] EXCEPT !.pc = "store", !.value = value] \in Checks
      BY <2>1 DEF Checks
    <3> QED BY <1>1, <2>2, <3>1 DEF TypeOK
  <2>3. truth[req[p].fact] \in YesNo /\ "no" \in YesNo
    BY <1>1, <2>1 DEF TypeOK, YesNo
  <2>4. req' \in Slots BY <1>9, <2>1, <2>2, <2>3, DecideMoves DEF Ask
  <2>5. faults' \in 0..MaxFaults BY <1>1, <1>9, FaultsType DEF Ask
  <2> QED BY <1>1, <1>9, <2>4, <2>5 DEF Ask, goShares, TypeOK
<1>10. ASSUME NEW p \in Reqs, Store(p) PROVE TypeOK'
  <2>1. /\ req[p] \in Checks /\ req[p].op = "access" /\ req[p].fact \in Facts
        /\ req[p].value \in YesNo
    BY <1>1, <1>10, RequestType DEF Store, At, Checks
  <2>2. req' \in Slots
    BY <1>10, <2>1, DecideMoves DEF Store, YesNo
  <2>3. now + TTL \in 0..(MaxTime + TTL) BY <1>1, Numbers DEF TypeOK
  <2>4. [value |-> req[p].value, expires |-> now + TTL]
          \in [value : YesNo, expires : 0..(MaxTime + TTL)]
    BY <2>1, <2>3
  <2>5. cache' \in [Facts -> [value : YesNo, expires : 0..(MaxTime + TTL)]]
    BY <1>1, <1>10, <2>4 DEF Store, TypeOK
  <2> QED BY <1>1, <1>10, <2>2, <2>5 DEF Store, goShares, TypeOK
<1>11. ASSUME NEW p \in Reqs, EndAccess(p) PROVE TypeOK'
  BY <1>1, <1>11, FinishType DEF EndAccess, goShares, TypeOK
<1>12. ASSUME NEW p \in Reqs, Change(p) PROVE TypeOK'
  <2>1. CASE Finish(p) /\ UNCHANGED <<goShares, settled, faults>>
    BY <1>1, <1>12, <2>1, FinishType DEF Change, goShares, TypeOK
  <2>2. CASE ~ (Finish(p) /\ UNCHANGED <<goShares, settled, faults>>)
    <3> DEFINE f == req[p].fact
    <3>1. req[p] \in OwnerCalls /\ f \in Facts
      BY <1>1, <1>12, RequestType DEF Change, At, OwnerCalls
    <3>2. /\ truth' = [truth EXCEPT ![f] = NewValue(req[p].op)]
          /\ since' = [since EXCEPT ![f] = now]
          /\ changes # MaxChanges /\ changes' = changes + 1
          /\ settled' \subseteq settled
          /\ UNCHANGED <<now, cache>>
          /\ \/ req' = [Overtaken(f) EXCEPT ![p] = [req[p] EXCEPT !.pc = "invalidate"]]
             \/ req' = [Overtaken(f) EXCEPT ![p] = Idle]
      BY <1>12, <2>2 DEF Change
    <3>3. \A q \in Reqs : Overtaken(f)[q] \in Checks \cup OwnerCalls \cup {Idle}
      <4> TAKE q \in Reqs
      <4>1. CASE req[q].op = "access"
        <5>1. req[q] \in Checks BY <1>1, <4>1, RequestType
        <5>2. [req[q] EXCEPT !.sure = {s \in @ : s[1] # f}] \in Checks
          BY <5>1 DEF Checks
        <5> QED BY <4>1, <5>2 DEF Overtaken
      <4>2. CASE req[q].op # "access" /\ At(q, "invalidate") /\ req[q].fact = f
        <5>1. req[q] \in OwnerCalls BY <1>1, <4>2, RequestType DEF At
        <5>2. [req[q] EXCEPT !.raced = "yes"] \in OwnerCalls
          BY <5>1 DEF OwnerCalls, YesNo
        <5> QED BY <4>2, <5>2 DEF Overtaken
      <4>3. CASE req[q].op # "access" /\ ~ (At(q, "invalidate") /\ req[q].fact = f)
        BY <1>1, <4>3 DEF Overtaken, TypeOK
      <4> QED BY <4>1, <4>2, <4>3
    <3>4. [req[p] EXCEPT !.pc = "invalidate"] \in OwnerCalls
      BY <3>1 DEF OwnerCalls
    <3>5. Overtaken(f) \in Slots BY <3>3 DEF Overtaken
    <3> HIDE DEF f
    <3>6. req' \in Slots BY <3>2, <3>4, <3>5
    <3>7. faults' \in 0..MaxFaults
      BY <1>1, <1>12, FaultsType DEF Change
    <3>8. NewValue(req[p].op) \in YesNo BY DEF NewValue, YesNo
    <3>9. changes' \in 0..MaxChanges
      <4>1. changes \in 0..MaxChanges BY <1>1 DEF TypeOK
      <4>2. changes # MaxChanges /\ changes' = changes + 1 BY <3>2
      <4> QED BY <4>1, <4>2, Numbers
    <3> QED BY <1>1, <3>1, <3>2, <3>6, <3>7, <3>8, <3>9 DEF TypeOK
  <2> QED BY <2>1, <2>2
<1>13. ASSUME NEW p \in Reqs, Invalidate(p) PROVE TypeOK'
  <2>1. req[p] \in OwnerCalls /\ req[p].fact \in Facts /\ req[p].raced \in YesNo
    BY <1>1, <1>13, RequestType DEF Invalidate, At, OwnerCalls
  <2>2. ASSUME NEW f \in req[p].todo, cache' = [cache EXCEPT ![f] = NoEntry],
               NEW raced \in YesNo,
               req' = [req EXCEPT ![p].todo = @ \ {f}, ![p].raced = raced],
               UNCHANGED <<settled, now, goShares, faults>>
        PROVE  TypeOK'
    <3>1. [req[p] EXCEPT !.todo = @ \ {f}, !.raced = raced] \in OwnerCalls
      BY <2>1 DEF OwnerCalls
    <3>2. req' \in Slots BY <1>1, <2>2, <3>1 DEF TypeOK
    <3>3. NoEntry \in [value : YesNo, expires : 0..(MaxTime + TTL)]
      BY Numbers DEF NoEntry, YesNo
    <3>4. cache' \in [Facts -> [value : YesNo, expires : 0..(MaxTime + TTL)]]
      BY <1>1, <2>2, <3>3 DEF TypeOK
    <3> QED BY <1>1, <2>2, <3>2, <3>4 DEF TypeOK, goShares
  <2>3. CASE Finish(p) /\ UNCHANGED <<cache, now, goShares, faults>>
    <3>1. settled' \subseteq settled \cup {<<req[p].fact, req[p].raced>>}
      <4>1. settled' = settled \/ settled' = settled \cup {<<req[p].fact, req[p].raced>>}
              \/ \E f \in req[p].todo : cache' = [cache EXCEPT ![f] = NoEntry]
                                        /\ settled' = settled
        BY <1>13 DEF Invalidate
      <4> QED BY <4>1
    <3>2. settled' \subseteq Settled BY <1>1, <2>1, <3>1 DEF TypeOK, Settled
    <3> QED BY <1>1, <2>3, <3>2, FinishType DEF TypeOK, goShares
  <2>4. \A f : (IF f = req[p].fact /\ Outdated(f) THEN "yes" ELSE req[p].raced)
                 \in YesNo
    BY <2>1 DEF YesNo
  <2>5. \/ Finish(p) /\ UNCHANGED <<cache, now, goShares, faults>>
        \/ \E f \in req[p].todo, raced \in YesNo :
             /\ cache' = [cache EXCEPT ![f] = NoEntry]
             /\ req' = [req EXCEPT ![p].todo = @ \ {f}, ![p].raced = raced]
             /\ UNCHANGED <<settled, now, goShares, faults>>
    <3>1. CASE req[p].todo = {} /\ Finish(p) BY <1>13, <3>1 DEF Invalidate
    <3>2. ASSUME NEW f \in req[p].todo,
                 cache' = [cache EXCEPT ![f] = NoEntry],
                 req' = [req EXCEPT ![p].todo = @ \ {f},
                           ![p].raced = IF f = req[p].fact /\ Outdated(f)
                                        THEN "yes" ELSE @],
                 UNCHANGED <<settled, now, goShares, faults>>
          PROVE  \E raced \in YesNo :
                   req' = [req EXCEPT ![p].todo = @ \ {f}, ![p].raced = raced]
      <4> DEFINE raced == IF f = req[p].fact /\ Outdated(f) THEN "yes"
                          ELSE req[p].raced
      <4>1. raced \in YesNo BY <2>4
      <4>2. req' = [req EXCEPT ![p].todo = @ \ {f}, ![p].raced = raced]
        BY <3>2
      <4> QED BY <4>1, <4>2
    <3> QED BY <1>13, <3>1, <3>2 DEF Invalidate
  <2> QED BY <2>2, <2>3, <2>5
<1> QED BY <1>2, <1>3, <1>5, <1>6, <1>8, <1>9, <1>10, <1>11, <1>12, <1>13
        DEF Next, Step

----------------------------------------------------------------------------
(* The invariant, request by request and entry by entry. *)

(* What the three freshness properties say of one request.                 *)
Fresh(p) ==
  /\ At(p, "granted") /\ req[p].user \in Sharees
       => Recently(req[p].user, "yes", MaxAge)
  /\ faults = 0 /\ At(p, "granted")
       => Recently("deleted", "no", MaxAge + MaxDelay)
  /\ faults = 0 /\ At(p, "denied") =>
       \/ Recently("deleted", "yes", MaxAge)
       \/ req[p].user \in Sharees /\ Recently(req[p].user, "no", MaxAge)

(* What was learnt of f holds after the step.                              *)
StillKnown(f, value, asked) ==
  \/ truth'[f] = value
  \/ since'[f] >= asked
  \/ value = "no" /\ faults' > 0

(* What the invariant says of one entry.                                   *)
Cached(f) ==
  /\ since[f] <= now
  /\ cache[f].expires <= now + TTL
  /\ now < cache[f].expires
       => Known(f, cache[f].value, cache[f].expires - MaxAge)

(* The invariant falls into its parts, and is put together from them.      *)
LEMMA Parts ==
  /\ AccessInv => /\ TypeOK
                  /\ \A f \in Facts : Cached(f)
                  /\ \A f \in Facts : faults = 0 /\ <<f, "no">> \in settled => Shut(f)
                  /\ \A p \in Reqs : CheckInv(p) /\ OwnerInv(p) /\ SureInv(p)
                                     /\ Fresh(p)
  /\ /\ TypeOK
     /\ \A f \in Facts : Cached(f)
     /\ \A f \in Facts : faults = 0 /\ <<f, "no">> \in settled => Shut(f)
     /\ \A p \in Reqs : CheckInv(p) /\ OwnerInv(p) /\ SureInv(p) /\ Fresh(p)
     => AccessInv
BY DEF AccessInv, ShareFresh, TrashFresh, DeniedFresh, Fresh, Cached

(* A step of one request at which go-shares stays as it is leaves what the *)
(* invariant says of the others, if it spoils no entry and no fact that has*)
(* taken access away.                                                      *)
LEMMA OthersStay ==
  ASSUME AccessInv, TypeOK', NEW p \in Reqs,
         UNCHANGED <<now, truth, since>>,
         settled \subseteq settled', faults <= faults',
         \A q \in Reqs \ {p} : req'[q] = req[q],
         \A f \in Facts : Cached(f)',
         \A f \in Facts : faults' = 0 /\ Shut(f) => Shut(f)',
         \A f \in Facts : faults' = 0 /\ <<f, "no">> \in settled' \ settled
                            => Shut(f)',
         CheckInv(p)', OwnerInv(p)', SureInv(p)', Fresh(p)'
  PROVE  AccessInv'
<1>1. TypeOK BY Parts
<1>2. faults \in Nat /\ faults' \in Nat /\ (faults' = 0 => faults = 0)
      /\ (faults > 0 => faults' > 0)
  BY <1>1, Numbers DEF TypeOK
<1>3. \A f \in Facts : faults' = 0 /\ <<f, "no">> \in settled' => Shut(f)'
  BY <1>2, Parts
<1>4. \A q \in Reqs : CheckInv(q)' /\ OwnerInv(q)' /\ SureInv(q)' /\ Fresh(q)'
  <2> SUFFICES ASSUME NEW q \in Reqs \ {p}
               PROVE  CheckInv(q)' /\ OwnerInv(q)' /\ SureInv(q)' /\ Fresh(q)'
    OBVIOUS
  <2>1. CheckInv(q) /\ OwnerInv(q) /\ SureInv(q) /\ Fresh(q) BY Parts
  <2>2. req'[q] = req[q] OBVIOUS
  <2>3. CheckInv(q)' BY <1>2, <2>1, <2>2 DEF CheckInv, Known, Recently
  <2>4. OwnerInv(q)'
    <3>1. req[q].op \in OwnerOps => req[q].fact \in Facts
      BY <1>1, RequestType DEF OwnerCalls
    <3> QED BY <1>2, <2>1, <2>2, <3>1 DEF OwnerInv
  <2>5. SureInv(q)' BY <1>2, <2>1, <2>2 DEF SureInv
  <2>6. Fresh(q)' BY <1>2, <2>1, <2>2 DEF Fresh, Recently, At
  <2> QED BY <2>3, <2>4, <2>5, <2>6
<1>5. \A f \in Facts : Cached(f)' OBVIOUS
<1> QED BY <1>3, <1>4, <1>5
        DEF AccessInv, ShareFresh, TrashFresh, DeniedFresh, Fresh, Cached

(* A decision keeps the invariant of its request, if what is known of the  *)
(* answer bounds its age and does not contradict a fact that has taken     *)
(* access away.                                                            *)
LEMMA DecideInv ==
  ASSUME AccessInv, TypeOK', NEW p \in Reqs, req[p].op = "access",
         UNCHANGED <<now, truth, since>>, settled' = settled,
         faults <= faults',
         NEW answer \in {"yes", "no", "unknown"}, Decide(p, answer),
         answer = "unknown" => faults' > 0,
         answer # "unknown" => \/ Recently(req[p].fact, answer, MaxAge)
                               \/ answer = "no" /\ faults' > 0,
         req[p].pc \in {"lookup", "ask", "store"},
         faults' = 0 /\ Shut(req[p].fact) => answer = Shutting(req[p].fact)
  PROVE  CheckInv(p)' /\ OwnerInv(p)' /\ SureInv(p)' /\ Fresh(p)'
<1> DEFINE u == req[p].user
<1>1. TypeOK /\ CheckInv(p) /\ SureInv(p) BY Parts
<1>2. faults \in Nat /\ faults' \in Nat /\ (faults' = 0 => faults = 0)
  BY <1>1, Numbers DEF TypeOK
<1>3. now \in Nat /\ \A f \in Facts : since[f] \in Int /\ truth[f] \in YesNo
  BY <1>1, Numbers DEF TypeOK
<1>4. /\ req'[p].op = "access"
      /\ req'[p].user = u /\ req'[p].sure = req[p].sure /\ u \in Users
      /\ \/ /\ req[p].fact = "deleted" /\ answer = "yes"
            /\ req'[p].pc = "denied" /\ req'[p].fact = "deleted"
         \/ /\ req[p].fact = "deleted" /\ answer # "yes" /\ u \in Owners
            /\ req'[p].pc = "granted" /\ req'[p].fact = "deleted"
         \/ /\ req[p].fact = "deleted" /\ answer # "yes" /\ u \in Sharees
            /\ req'[p].pc = "lookup" /\ req'[p].fact = u
         \/ /\ req[p].fact = u /\ u \in Sharees /\ answer = "yes"
            /\ req'[p].pc = "granted" /\ req'[p].fact = u
         \/ /\ req[p].fact = u /\ u \in Sharees /\ answer # "yes"
            /\ req'[p].pc = "denied" /\ req'[p].fact = u
  BY DecideMoves
<1>5. u # "deleted" /\ (u \in Sharees <=> u \notin Owners)
      /\ (u \in Sharees => u \in Facts) /\ (u \in Owners => u \notin Facts)
      /\ "deleted" \in Facts
  BY <1>4, Names
<1>6. \A f, value : Recently(f, value, MaxAge)' <=> Recently(f, value, MaxAge)
  BY DEF Recently
<1>7. \* what the share look-up still knows of the trash
      faults' = 0 /\ req[p].fact = u => Recently("deleted", "no", MaxAge + MaxDelay)
  <2> SUFFICES ASSUME faults = 0, req[p].fact = u
               PROVE  Recently("deleted", "no", MaxAge + MaxDelay)
    BY <1>2
  <2>1. CASE req[p].pc = "lookup"
    <3>1. Recently("deleted", "no", MaxAge) BY <1>1, <2>1 DEF CheckInv
    <3> QED BY <1>3, <1>5, <3>1, Numbers DEF Recently
  <2>2. CASE req[p].pc \in {"ask", "store"}
    <3>1. /\ Known("deleted", "no", req[p].asked - MaxAge)
          /\ now <= req[p].asked + Timeout
      BY <1>1, <2>2 DEF CheckInv
    <3>2. req[p].asked \in Nat
      BY <1>1, RequestType, Numbers DEF Checks
    <3> QED BY <1>3, <1>5, <3>1, <3>2, Numbers DEF Known, Recently
  <2> QED BY <2>1, <2>2
<1>8. CheckInv(p)'
  <2>1. req'[p].fact \in {"deleted", u} BY <1>4
  <2>2. req'[p].pc \in {"lookup", "granted", "denied"} BY <1>4
  <2>3. faults' = 0 /\ req'[p].fact = u /\ req'[p].pc = "lookup"
          => Recently("deleted", "no", MaxAge)
    BY <1>4, <1>5
  <2> QED BY <1>4, <1>6, <2>1, <2>2, <2>3 DEF CheckInv
<1>9. OwnerInv(p)' BY <1>4 DEF OwnerInv, OwnerOps
<1>10. SureInv(p)'
  <2>1. req[p].sure \subseteq settled /\ settled \subseteq Settled
    BY <1>1 DEF SureInv, TypeOK
  <2> SUFFICES ASSUME faults' = 0
               PROVE  /\ <<"deleted", "no">> \in req[p].sure
                           => req'[p].fact = "deleted" /\ req'[p].pc # "granted"
                      /\ <<u, "no">> \in req[p].sure => req'[p].pc # "granted"
    BY <1>4, <2>1 DEF SureInv
  <2>2. ASSUME <<"deleted", "no">> \in req[p].sure
        PROVE  req'[p].fact = "deleted" /\ req'[p].pc # "granted"
    <3>1. req[p].fact = "deleted" BY <1>1, <1>2, <2>2 DEF SureInv
    <3>2. Shut("deleted") BY <1>2, <1>5, <2>1, <2>2, Parts
    <3>3. answer = "yes" BY <3>1, <3>2 DEF Shutting
    <3> QED BY <1>4, <1>5, <3>1, <3>3
  <2>3. ASSUME <<u, "no">> \in req[p].sure PROVE req'[p].pc # "granted"
    <3>1. u \in Facts BY <2>1, <2>3 DEF Settled
    <3>2. Shut(u) BY <1>2, <2>1, <2>3, <3>1, Parts
    <3>3. req[p].fact = u => answer = "no" BY <1>5, <3>2 DEF Shutting
    <3> QED BY <1>4, <1>5, <3>1, <3>3
  <2> QED BY <2>2, <2>3
<1>11. Fresh(p)'
  <2>1. req'[p].pc = "granted" /\ u \in Sharees => Recently(u, "yes", MaxAge)
    BY <1>4, <1>5
  <2>2. faults' = 0 /\ req'[p].pc = "granted"
          => Recently("deleted", "no", MaxAge + MaxDelay)
    <3>1. CASE req[p].fact = "deleted"
      <4>1. faults' = 0 /\ req'[p].pc = "granted" => answer = "no"
        BY <1>4, <1>5, <3>1
      <4> QED BY <1>3, <1>5, <3>1, <4>1, Numbers DEF Recently
    <3>2. CASE req[p].fact = u BY <1>7, <3>2
    <3> QED BY <1>4, <3>1, <3>2
  <2>3. faults' = 0 /\ req'[p].pc = "denied" =>
          \/ Recently("deleted", "yes", MaxAge)
          \/ u \in Sharees /\ Recently(u, "no", MaxAge)
    BY <1>2, <1>4, <1>5
  <2>4. Recently("deleted", "no", MaxAge + MaxDelay)'
          <=> Recently("deleted", "no", MaxAge + MaxDelay)
    BY DEF Recently
  <2> QED BY <1>4, <1>6, <2>1, <2>2, <2>3, <2>4 DEF Fresh, At
<1> QED BY <1>8, <1>9, <1>10, <1>11

----------------------------------------------------------------------------
(* The steps of a check keep the invariant. *)

(* A request that is not at the point of storing an answer, and an entry   *)
(* that stays, change nothing for a fact that has taken access away.       *)
LEMMA ShutStays ==
  ASSUME NEW p \in Reqs, NEW f \in Facts, UNCHANGED <<now, truth>>,
         cache'[f] = cache[f], Shut(f),
         \A q \in Reqs \ {p} : req'[q] = req[q],
         req'[p].pc = "store" /\ req'[p].fact = f => req'[p].value = Shutting(f)
  PROVE  Shut(f)'
<1>1. \A q \in Reqs : req'[q].pc = "store" /\ req'[q].fact = f
                        => req'[q].value = Shutting(f)
  BY DEF Shut, At
<1> QED BY <1>1 DEF Shut, At, Shutting

(* An entry that stays goes on telling what is known of its fact.          *)
LEMMA CachedStays ==
  ASSUME TypeOK, NEW f \in Facts, UNCHANGED <<now, truth, since>>, Cached(f),
         cache'[f] = cache[f], faults <= faults', faults' \in Nat
  PROVE  Cached(f)'
BY Numbers DEF Cached, Known, TypeOK

(* The beginning of a check. *)
LEMMA BeginAccessInv ==
  ASSUME AccessInv, TypeOK', NEW p \in Reqs, NEW u \in Users, BeginAccess(p, u)
  PROVE  AccessInv'
<1>1. TypeOK BY Parts
<1>2. /\ req'[p] = [op |-> "access", pc |-> "lookup", user |-> u,
                    fact |-> "deleted", asked |-> 0, value |-> "no",
                    sure |-> settled]
      /\ \A q \in Reqs \ {p} : req'[q] = req[q]
      /\ UNCHANGED <<now, truth, since, settled, cache, faults>>
  BY <1>1 DEF BeginAccess, goShares, TypeOK
<1>3. u # "deleted" BY Names
<1>4. faults \in Nat /\ faults' \in Nat /\ faults <= faults'
  BY <1>1, <1>2, Numbers DEF TypeOK
<1>5. \A f \in Facts : Cached(f)' BY <1>1, <1>2, <1>4, CachedStays, Parts
<1>6. \A f \in Facts : Shut(f) => Shut(f)' BY <1>2, ShutStays
<1>7. CheckInv(p)' BY <1>2, <1>3 DEF CheckInv
<1>8. OwnerInv(p)' BY <1>2 DEF OwnerInv, OwnerOps
<1>9. SureInv(p)' BY <1>2 DEF SureInv
<1>10. Fresh(p)' BY <1>2 DEF Fresh, At
<1> QED BY <1>2, <1>4, <1>5, <1>6, <1>7, <1>8, <1>9, <1>10, OthersStay

(* An answer out of the cache, or the question to go-shares.               *)
LEMMA LookUpInv ==
  ASSUME AccessInv, TypeOK', NEW p \in Reqs, LookUp(p)
  PROVE  AccessInv'
<1> DEFINE f == req[p].fact
<1>1. TypeOK /\ CheckInv(p) /\ OwnerInv(p) /\ SureInv(p) BY Parts
<1>2. req[p] \in Checks /\ req[p].op = "access" /\ f \in Facts
      /\ req[p].pc = "lookup"
  BY <1>1, RequestType DEF LookUp, At, Checks
<1>3. UNCHANGED <<now, truth, since, settled, cache, faults>>
  BY DEF LookUp, goShares
<1>4. /\ faults \in Nat /\ faults' \in Nat /\ faults <= faults' /\ now \in Nat
      /\ cache[f].expires \in Nat /\ cache[f].value \in YesNo
      /\ \A g \in Facts : since[g] \in Int
  BY <1>1, <1>2, <1>3, Numbers DEF TypeOK
<1>5. \A g \in Facts : Cached(g)' BY <1>1, <1>3, <1>4, CachedStays, Parts
<1>6. CASE now < cache[f].expires
  <2>1. PICK answer \in YesNo : answer = cache[f].value BY <1>4
  <2>2. Decide(p, answer) BY <1>6, <2>1 DEF LookUp
  <2>3. answer \in {"yes", "no", "unknown"} /\ answer # "unknown" BY DEF YesNo
  <2>4. Recently(f, answer, MaxAge) \/ (answer = "no" /\ faults' > 0)
    <3>1. Known(f, answer, cache[f].expires - MaxAge)
      BY <1>2, <1>6, <2>1, Parts DEF Cached
    <3> QED BY <1>2, <1>3, <1>4, <1>6, <3>1, Numbers DEF Known, Recently
  <2>5. Shut(f) => answer = Shutting(f) BY <1>6, <2>1 DEF Shut
  <2>6. CheckInv(p)' /\ OwnerInv(p)' /\ SureInv(p)' /\ Fresh(p)'
    BY <1>2, <1>3, <1>4, <2>2, <2>3, <2>4, <2>5, DecideInv
  <2>7. req'[p].pc # "store" /\ \A q \in Reqs \ {p} : req'[q] = req[q]
    BY <1>2, <2>2, <2>3, DecideMoves
  <2>8. \A g \in Facts : Shut(g) => Shut(g)' BY <1>3, <2>7, ShutStays
  <2> QED BY <1>3, <1>4, <1>5, <2>6, <2>7, <2>8, OthersStay
<1>7. CASE ~ (now < cache[f].expires)
  <2>1. /\ req'[p] = [req[p] EXCEPT !.pc = "ask", !.asked = now]
        /\ \A q \in Reqs \ {p} : req'[q] = req[q]
    BY <1>1, <1>7 DEF LookUp, TypeOK
  <2>2. /\ req'[p].op = "access" /\ req'[p].pc = "ask" /\ req'[p].asked = now
        /\ req'[p].fact = f /\ req'[p].user = req[p].user
        /\ req'[p].sure = req[p].sure
    BY <1>2, <2>1 DEF Checks
  <2>3. CheckInv(p)'
    <3>1. f \in {"deleted", req[p].user} BY <1>1, <1>2 DEF CheckInv
    <3>2. faults = 0 /\ f = req[p].user => Known("deleted", "no", now - MaxAge)
      BY <1>1, <1>2 DEF CheckInv, Known, Recently
    <3>3. now <= now + Timeout BY <1>4, Numbers
    <3>4. faults = 0 /\ f = req[p].user
            => StillKnown("deleted", "no", now - MaxAge)
      BY <1>3, <3>2 DEF Known, StillKnown
    <3> QED BY <1>3, <1>4, <2>2, <3>1, <3>3, <3>4 DEF CheckInv, Known, StillKnown
  <2>4. OwnerInv(p)' BY <2>2 DEF OwnerInv, OwnerOps
  <2>5. SureInv(p)' BY <1>1, <1>2, <1>3, <2>2 DEF SureInv
  <2>6. Fresh(p)' BY <2>2 DEF Fresh, At
  <2>7. \A g \in Facts : Shut(g) => Shut(g)' BY <1>3, <2>1, <2>2, ShutStays
  <2> QED BY <1>3, <1>4, <1>5, <2>1, <2>3, <2>4, <2>5, <2>6, <2>7, OthersStay
<1> QED BY <1>6, <1>7

(* The answer of go-shares, an error that reads as no, or no answer.       *)
LEMMA AskInv ==
  ASSUME AccessInv, TypeOK', NEW p \in Reqs, Ask(p)
  PROVE  AccessInv'
<1> DEFINE f == req[p].fact
<1>1. TypeOK /\ CheckInv(p) /\ OwnerInv(p) /\ SureInv(p) BY Parts
<1>2. req[p] \in Checks /\ req[p].op = "access" /\ f \in Facts
      /\ req[p].pc = "ask"
  BY <1>1, RequestType DEF Ask, At, Checks
<1>3. UNCHANGED <<now, truth, since, settled, cache>>
  BY DEF Ask, goShares
<1>4. /\ faults \in Nat /\ faults' \in Nat /\ faults <= faults' /\ now \in Nat
      /\ truth[f] \in YesNo
      /\ (faults' = 0 => faults = 0)
  BY <1>1, <1>2, FaultsType, Numbers DEF TypeOK, Ask
<1>5. \A g \in Facts : Cached(g)' BY <1>1, <1>3, <1>4, CachedStays, Parts
<1>6. ASSUME Fault("noAnswer"), Decide(p, "unknown") PROVE AccessInv'
  <2>1. faults' > 0 /\ faults' # 0 BY <1>4, <1>6 DEF Fault
  <2>2. CheckInv(p)' /\ OwnerInv(p)' /\ SureInv(p)' /\ Fresh(p)'
    BY <1>2, <1>3, <1>4, <1>6, <2>1, DecideInv
  <2>3. \A q \in Reqs \ {p} : req'[q] = req[q]
    BY <1>2, <1>6, DecideMoves
  <2> QED BY <1>3, <1>4, <1>5, <2>1, <2>2, <2>3, OthersStay
<1>7. ASSUME NEW value \in YesNo,
             req' = [req EXCEPT ![p].pc = "store", ![p].value = value],
             value = truth[f] \/ (value = "no" /\ faults' > 0)
      PROVE  AccessInv'
  <2>1. /\ req'[p] = [req[p] EXCEPT !.pc = "store", !.value = value]
        /\ \A q \in Reqs \ {p} : req'[q] = req[q]
    BY <1>1, <1>7 DEF TypeOK
  <2>2. /\ req'[p].op = "access" /\ req'[p].pc = "store"
        /\ req'[p].asked = req[p].asked /\ req'[p].value = value
        /\ req'[p].fact = f /\ req'[p].user = req[p].user
        /\ req'[p].sure = req[p].sure
    BY <1>2, <2>1 DEF Checks
  <2>3. CheckInv(p)'
    <3>1. f \in {"deleted", req[p].user} /\ req[p].asked <= now
          /\ now <= req[p].asked + Timeout
      BY <1>1, <1>2 DEF CheckInv
    <3>2. faults = 0 /\ f = req[p].user
            => Known("deleted", "no", req[p].asked - MaxAge)
      BY <1>1, <1>2 DEF CheckInv
    <3>3. faults' = 0 /\ f = req[p].user
            => StillKnown("deleted", "no", req[p].asked - MaxAge)
      BY <1>3, <1>4, <3>2 DEF Known, StillKnown
    <3>4. StillKnown(f, value, req[p].asked) BY <1>3, <1>7 DEF StillKnown
    <3> QED BY <1>3, <2>2, <3>1, <3>3, <3>4 DEF CheckInv, Known, StillKnown
  <2>4. OwnerInv(p)' BY <2>2 DEF OwnerInv, OwnerOps
  <2>5. SureInv(p)' BY <1>1, <1>2, <1>3, <1>4, <2>2 DEF SureInv
  <2>6. Fresh(p)' BY <2>2 DEF Fresh, At
  <2>7. \A g \in Facts : faults' = 0 /\ Shut(g) => Shut(g)'
    <3> SUFFICES ASSUME NEW g \in Facts, faults' = 0, Shut(g) PROVE Shut(g)'
      OBVIOUS
    <3>1. g = f => value = Shutting(g) BY <1>4, <1>7 DEF Shut
    <3> QED BY <1>3, <2>1, <2>2, <3>1, ShutStays
  <2> QED BY <1>3, <1>4, <1>5, <2>1, <2>3, <2>4, <2>5, <2>6, <2>7, OthersStay
<1>8. ASSUME Fault("badAnswer") PROVE faults' > 0 BY <1>4, <1>8 DEF Fault
<1>9. "no" \in YesNo BY DEF YesNo
<1>10. CASE Fault("noAnswer") /\ Decide(p, "unknown") BY <1>6, <1>10
<1>11. CASE req' = [req EXCEPT ![p].pc = "store", ![p].value = truth[f]]
  <2>1. PICK value \in YesNo : value = truth[f] BY <1>4
  <2>2. req' = [req EXCEPT ![p].pc = "store", ![p].value = value]
    BY <1>11, <2>1
  <2> QED BY <1>7, <2>1, <2>2
<1>12. CASE /\ Fault("badAnswer")
            /\ req' = [req EXCEPT ![p].pc = "store", ![p].value = "no"]
  BY <1>7, <1>8, <1>9, <1>12
<1> QED BY <1>10, <1>11, <1>12 DEF Ask

(* The entry for an answer. *)
LEMMA StoreInv ==
  ASSUME AccessInv, TypeOK', NEW p \in Reqs, Store(p)
  PROVE  AccessInv'
<1> DEFINE f == req[p].fact
<1>1. TypeOK /\ CheckInv(p) BY Parts
<1>2. req[p] \in Checks /\ req[p].op = "access" /\ f \in Facts
      /\ req[p].pc = "store" /\ req[p].value \in YesNo /\ req[p].asked \in Nat
  BY <1>1, RequestType, Numbers DEF Store, At, Checks
<1>3. UNCHANGED <<now, truth, since, settled, faults>>
  BY DEF Store, goShares
<1>4. faults \in Nat /\ faults' \in Nat /\ faults <= faults' /\ now \in Nat
      /\ \A g \in Facts : since[g] \in Int
  BY <1>1, <1>3, Numbers DEF TypeOK
<1>5. /\ Known(f, req[p].value, req[p].asked)
      /\ now <= req[p].asked + Timeout
  BY <1>1, <1>2 DEF CheckInv
<1>6. /\ cache'[f] = [value |-> req[p].value, expires |-> now + TTL]
      /\ \A g \in Facts \ {f} : cache'[g] = cache[g]
  BY <1>1, <1>2 DEF Store, TypeOK
<1>7. \A g \in Facts : Cached(g)'
  <2>1. \A g \in Facts \ {f} : Cached(g)'
    BY <1>1, <1>3, <1>4, <1>6, CachedStays, Parts
  <2>2. Known(f, req[p].value, now + TTL - MaxAge)
    BY <1>2, <1>4, <1>5, Numbers DEF Known
  <2>3. StillKnown(f, req[p].value, now + TTL - MaxAge)
    BY <1>3, <2>2 DEF Known, StillKnown
  <2>4. since[f] <= now BY <1>2, Parts DEF Cached
  <2>5. cache'[f].value = req[p].value /\ cache'[f].expires = now + TTL
    BY <1>6
  <2>6. now + TTL <= now + TTL BY <1>4, Numbers
  <2>7. /\ since'[f] <= now' /\ cache'[f].expires <= now' + TTL
        /\ StillKnown(f, cache'[f].value, cache'[f].expires - MaxAge)
    <3>1. since'[f] <= now' BY <1>3, <2>4
    <3>2. cache'[f].expires <= now' + TTL BY <1>3, <2>5, <2>6
    <3>3. StillKnown(f, cache'[f].value, cache'[f].expires - MaxAge)
      BY <1>2, <1>3, <1>4, <2>3, <2>5, Numbers DEF StillKnown
    <3> QED BY <3>1, <3>2, <3>3
  <2>8. \A g \in Facts : g = f => Cached(g)'
    BY <2>7 DEF Cached, Known, StillKnown
  <2> QED BY <2>1, <2>8
<1>8. PICK answer \in YesNo : answer = req[p].value BY <1>2
<1>9. /\ Decide(p, answer) /\ answer # "unknown"
      /\ answer \in {"yes", "no", "unknown"}
  BY <1>8 DEF Store, YesNo
<1>10. CheckInv(p)' /\ OwnerInv(p)' /\ SureInv(p)' /\ Fresh(p)'
  <2>1. Recently(f, answer, MaxAge) \/ (answer = "no" /\ faults' > 0)
    BY <1>2, <1>3, <1>4, <1>5, <1>8, Numbers DEF Known, Recently
  <2>2. Shut(f) => answer = Shutting(f) BY <1>2, <1>8 DEF Shut, At
  <2> QED BY <1>2, <1>3, <1>4, <1>9, <2>1, <2>2, DecideInv
<1>11. req'[p].pc # "store" /\ \A q \in Reqs \ {p} : req'[q] = req[q]
  BY <1>2, <1>9, DecideMoves
<1>12. \A g \in Facts : Shut(g) => Shut(g)'
  <2> SUFFICES ASSUME NEW g \in Facts, Shut(g) PROVE Shut(g)' OBVIOUS
  <2>1. CASE g # f BY <1>3, <1>6, <1>11, <2>1, ShutStays
  <2>2. CASE g = f
    <3>1. cache'[g].value = Shutting(g) BY <1>2, <1>6, <2>2 DEF Shut, At
    <3>2. truth'[g] = Shutting(g) BY <1>3 DEF Shut
    <3>3. \A q \in Reqs : req'[q].pc = "store" /\ req'[q].fact = g
                            => req'[q].value = Shutting(g)
      BY <1>11 DEF Shut, At
    <3> QED BY <3>1, <3>2, <3>3 DEF Shut, At, Shutting
  <2> QED BY <2>1, <2>2
<1> QED BY <1>3, <1>4, <1>7, <1>10, <1>11, <1>12, OthersStay

(* The end of a check. *)
LEMMA EndAccessInv ==
  ASSUME AccessInv, TypeOK', NEW p \in Reqs, EndAccess(p)
  PROVE  AccessInv'
<1>1. TypeOK BY Parts
<1>2. /\ req'[p] = Idle /\ \A q \in Reqs \ {p} : req'[q] = req[q]
      /\ UNCHANGED <<now, truth, since, settled, cache, faults>>
  BY <1>1, FinishType DEF EndAccess, goShares
<1>3. faults \in Nat /\ faults' \in Nat /\ faults <= faults'
  BY <1>1, <1>2, Numbers DEF TypeOK
<1>4. \A f \in Facts : Cached(f)' BY <1>1, <1>2, <1>3, CachedStays, Parts
<1>5. \A f \in Facts : Shut(f) => Shut(f)' BY <1>2, ShutStays DEF Idle
<1>6. CheckInv(p)' /\ OwnerInv(p)' /\ SureInv(p)' /\ Fresh(p)'
  BY <1>2 DEF CheckInv, OwnerInv, SureInv, Fresh, At, Idle, OwnerOps
<1> QED BY <1>2, <1>3, <1>4, <1>5, <1>6, OthersStay

----------------------------------------------------------------------------
(* The steps of a change keep the invariant. *)

(* The beginning of a request of the owner. *)
LEMMA BeginChangeInv ==
  ASSUME AccessInv, TypeOK', NEW p \in Reqs, NEW op \in OwnerOps,
         NEW f \in Facts, BeginChange(p, op, f)
  PROVE  AccessInv'
<1>1. TypeOK BY Parts
<1>2. /\ req'[p] = [op |-> op, pc |-> "change", fact |-> f, todo |-> Entries,
                    raced |-> "no"]
      /\ \A q \in Reqs \ {p} : req'[q] = req[q]
      /\ UNCHANGED <<now, truth, since, settled, cache, faults>>
      /\ op \in {"share", "unshare"} <=> f \in Sharees
  BY <1>1 DEF BeginChange, goShares, TypeOK
<1>3. faults \in Nat /\ faults' \in Nat /\ faults <= faults'
  BY <1>1, <1>2, Numbers DEF TypeOK
<1>4. \A g \in Facts : Cached(g)' BY <1>1, <1>2, <1>3, CachedStays, Parts
<1>5. \A g \in Facts : Shut(g) => Shut(g)' BY <1>2, ShutStays
<1>6. op # "access" BY DEF OwnerOps
<1>7. CheckInv(p)' /\ SureInv(p)' /\ Fresh(p)'
  BY <1>2, <1>6 DEF CheckInv, SureInv, Fresh, At
<1>8. OwnerInv(p)'
  <2>1. req'[p].op = op /\ req'[p].fact = f /\ req'[p].pc = "change"
        /\ req'[p].todo = Entries /\ req'[p].raced = "no"
    BY <1>2
  <2> QED BY <1>2, <2>1 DEF OwnerInv, Entries
<1> QED BY <1>2, <1>3, <1>4, <1>5, <1>7, <1>8, OthersStay

(* What the others are, and what they still note, when f has changed.      *)
LEMMA OvertakenKeeps ==
  ASSUME TypeOK, NEW q \in Reqs, NEW f \in Facts
  PROVE  LET o == Overtaken(f)[q] IN
         /\ o.pc = req[q].pc /\ o.op = req[q].op
         /\ req[q].op = "access" =>
              /\ o.fact = req[q].fact /\ o.user = req[q].user
              /\ o.asked = req[q].asked /\ o.value = req[q].value
              /\ o.sure = {s \in req[q].sure : s[1] # f}
         /\ req[q].op \in OwnerOps =>
              /\ o.fact = req[q].fact /\ o.todo = req[q].todo
              /\ o.raced = IF At(q, "invalidate") /\ req[q].fact = f
                           THEN "yes" ELSE req[q].raced
<1>1. CASE req[q].op = "access"
  <2>1. req[q] \in Checks BY <1>1, RequestType
  <2>2. Overtaken(f)[q] = [req[q] EXCEPT !.sure = {s \in @ : s[1] # f}]
    BY <1>1 DEF Overtaken
  <2> QED BY <1>1, <2>1, <2>2 DEF Checks, OwnerOps
<1>2. CASE req[q].op # "access" /\ At(q, "invalidate") /\ req[q].fact = f
  <2>1. req[q] \in OwnerCalls BY <1>2, RequestType DEF At
  <2>2. Overtaken(f)[q] = [req[q] EXCEPT !.raced = "yes"]
    BY <1>2 DEF Overtaken
  <2> QED BY <1>2, <2>1, <2>2 DEF OwnerCalls
<1>3. CASE req[q].op # "access" /\ ~ (At(q, "invalidate") /\ req[q].fact = f)
  <2>1. Overtaken(f)[q] = req[q] BY <1>3 DEF Overtaken
  <2> QED BY <1>3, <2>1
<1> QED BY <1>1, <1>2, <1>3

(* A change makes everything that was learnt of the fact recent enough, and*)
(* takes back what had been noted of it.                                   *)
LEMMA ChangeInv ==
  ASSUME AccessInv, TypeOK', NEW p \in Reqs, Change(p)
  PROVE  AccessInv'
<1> DEFINE f == req[p].fact
<1>1. TypeOK /\ OwnerInv(p) BY Parts
<1>2. req[p] \in OwnerCalls /\ req[p].op \in OwnerOps /\ f \in Facts
      /\ req[p].pc = "change"
  BY <1>1, RequestType DEF Change, At, OwnerCalls
<1>3. faults \in Nat /\ faults' \in Nat /\ faults <= faults'
      /\ (faults' = 0 => faults = 0) /\ (faults > 0 => faults' > 0)
  BY <1>1, FaultsType, Numbers DEF Change
<1>4. UNCHANGED <<now, cache>> BY DEF Change
<1>5. ASSUME Finish(p), UNCHANGED <<goShares, settled, faults>>
      PROVE  AccessInv'
  <2>1. req'[p] = Idle /\ \A q \in Reqs \ {p} : req'[q] = req[q]
    BY <1>1, <1>5, FinishType
  <2>2. UNCHANGED <<now, truth, since, settled, cache, faults>>
    BY <1>4, <1>5 DEF goShares
  <2>3. \A g \in Facts : Cached(g)'
    BY <1>1, <1>3, <2>2, CachedStays, Parts
  <2>4. \A g \in Facts : Shut(g) => Shut(g)' BY <2>1, <2>2, ShutStays DEF Idle
  <2>5. CheckInv(p)' /\ OwnerInv(p)' /\ SureInv(p)' /\ Fresh(p)'
    BY <2>1 DEF CheckInv, OwnerInv, SureInv, Fresh, At, Idle, OwnerOps
  <2> QED BY <1>3, <2>1, <2>2, <2>3, <2>4, <2>5, OthersStay
<1>6. ASSUME truth' = [truth EXCEPT ![f] = NewValue(req[p].op)],
             since' = [since EXCEPT ![f] = now],
             settled' = {s \in settled : s[1] # f},
             NEW r \in OwnerCalls \cup {Idle},
             req' = [Overtaken(f) EXCEPT ![p] = r],
             r = [req[p] EXCEPT !.pc = "invalidate"] \/ r = Idle
      PROVE  AccessInv'
  <2>1. /\ truth'[f] = NewValue(req[p].op) /\ since'[f] = now
        /\ \A g \in Facts \ {f} : truth'[g] = truth[g] /\ since'[g] = since[g]
    BY <1>1, <1>2, <1>6 DEF TypeOK
  <2>2. req'[p] = r /\ \A q \in Reqs \ {p} : req'[q] = Overtaken(f)[q]
    BY <1>6 DEF Overtaken
  <2>3. now \in Nat /\ \A g \in Facts : since[g] \in Int /\ since'[g] \in Int
        /\ cache[g].expires \in Nat /\ since[g] <= now
        /\ cache[g].expires <= now + TTL
    BY <1>1, <2>1, Numbers, Parts DEF TypeOK, Cached
  <2>6. r.pc \notin {"store", "granted", "denied"} /\ r.op # "access"
    BY <1>2, <1>6 DEF OwnerCalls, Idle, OwnerOps
  <2>7. \A g \in Facts \ {f} : Shut(g) => Shut(g)'
    <3> SUFFICES ASSUME NEW g \in Facts \ {f}, Shut(g) PROVE Shut(g)' OBVIOUS
    <3>1. \A q \in Reqs : req'[q].pc = "store" /\ req'[q].fact = g
                            => req'[q].value = Shutting(g)
      <4> SUFFICES ASSUME NEW q \in Reqs \ {p}, req'[q].pc = "store",
                          req'[q].fact = g
                   PROVE  req'[q].value = Shutting(g)
        BY <2>2, <2>6
      <4>1. req[q].pc = "store" /\ req[q].op = "access"
        BY <1>1, <1>2, <2>2, OvertakenKeeps, RequestType
      <4>2. req[q].fact = g /\ req'[q].value = req[q].value
        BY <1>1, <1>2, <2>2, <4>1, OvertakenKeeps
      <4> QED BY <4>1, <4>2 DEF Shut, At
    <3> QED BY <1>4, <2>1, <3>1 DEF Shut, At, Shutting
  <2>8. \A g \in Facts : Cached(g)'
    <3> SUFFICES ASSUME NEW g \in Facts PROVE Cached(g)' OBVIOUS
    <3>1. Cached(g) BY Parts
    <3>2. since'[g] <= now BY <2>1, <2>3
    <3>3. now < cache[g].expires
            => \/ truth'[g] = cache[g].value
               \/ since'[g] >= cache[g].expires - MaxAge
               \/ cache[g].value = "no" /\ faults' > 0
      BY <1>3, <2>1, <2>3, <3>1, Numbers DEF Cached, Known
    <3> QED BY <1>4, <2>3, <3>2, <3>3 DEF Cached, Known
  <2>9. \A g \in Facts : faults' = 0 /\ <<g, "no">> \in settled' => Shut(g)'
    <3> SUFFICES ASSUME NEW g \in Facts, faults' = 0, <<g, "no">> \in settled'
                 PROVE  Shut(g)'
      OBVIOUS
    <3>1. <<g, "no">> \in settled /\ <<g, "no">>[1] # f BY <1>6
    <3>2. g # f /\ Shut(g) BY <1>3, <3>1, Parts
    <3> QED BY <2>7, <3>2
  <2>10. CheckInv(p)' /\ SureInv(p)' /\ Fresh(p)'
    BY <2>2, <2>6 DEF CheckInv, SureInv, Fresh, At
  <2>11. OwnerInv(p)'
    <3>1. CASE r = Idle BY <2>2, <3>1 DEF OwnerInv, Idle, OwnerOps
    <3>2. CASE r = [req[p] EXCEPT !.pc = "invalidate"]
      <4>1. /\ r.op = req[p].op /\ r.fact = f /\ r.pc = "invalidate"
            /\ r.todo = req[p].todo
        BY <1>2, <3>2 DEF OwnerCalls
      <4>2. r.todo = Facts /\ (r.op \in {"share", "unshare"} <=> f \in Sharees)
        BY <1>1, <1>2, <4>1 DEF OwnerInv, Entries
      <4>3. r.op \in Closing => truth'[f] = Shutting(f)
        BY <2>1, <4>1, <4>2, <1>2, Names DEF Closing, NewValue, Shutting, Users
      <4> QED BY <1>2, <2>2, <4>1, <4>2, <4>3 DEF OwnerInv, Shutting
    <3> QED BY <1>6, <3>1, <3>2
  <2>12. \A q \in Reqs \ {p} :
           CheckInv(q)' /\ OwnerInv(q)' /\ SureInv(q)' /\ Fresh(q)'
    <3> SUFFICES ASSUME NEW q \in Reqs \ {p}
                 PROVE  CheckInv(q)' /\ OwnerInv(q)' /\ SureInv(q)' /\ Fresh(q)'
      OBVIOUS
    <3>1. CheckInv(q) /\ OwnerInv(q) /\ SureInv(q) /\ Fresh(q) BY Parts
    <3>2. req'[q] = Overtaken(f)[q] BY <2>2
    <3>3. req'[q].pc = req[q].pc /\ req'[q].op = req[q].op
      BY <1>1, <1>2, <3>2, OvertakenKeeps
    <3>4. CASE req[q].op = "access"
      <4>1. /\ req'[q].fact = req[q].fact /\ req'[q].user = req[q].user
            /\ req'[q].asked = req[q].asked /\ req'[q].value = req[q].value
            /\ req'[q].sure = {s \in req[q].sure : s[1] # f}
        BY <1>1, <1>2, <3>2, <3>4, OvertakenKeeps
      <4>2. req[q].asked \in Nat /\ req[q].fact \in Facts /\ req[q].user \in Users
        BY <1>1, <3>4, RequestType, Numbers DEF Checks
      <4>3. CheckInv(q)'
        <5>1. req[q].pc \in {"ask", "store"}
                => req[q].asked <= now /\ now <= req[q].asked + Timeout
          BY <3>1, <3>4 DEF CheckInv
        <5>2. req[q].pc = "store"
                => StillKnown(req[q].fact, req[q].value, req[q].asked)
          BY <1>3, <2>1, <2>3, <3>1, <3>4, <4>2, <5>1
             DEF CheckInv, Known, StillKnown
        <5>3. faults' = 0 /\ req[q].fact = req[q].user /\ req[q].pc = "lookup"
                => truth'["deleted"] = "no" \/ since'["deleted"] >= now - MaxAge
          BY <1>3, <2>1, <2>3, <3>1, <3>4, Names, Numbers DEF CheckInv, Recently
        <5>4. faults' = 0 /\ req[q].fact = req[q].user
                /\ req[q].pc \in {"ask", "store"}
                => StillKnown("deleted", "no", req[q].asked - MaxAge)
          BY <1>3, <2>1, <2>3, <3>1, <3>4, <4>2, <5>1, Names, Numbers
             DEF CheckInv, Known, StillKnown
        <5>5. req[q].fact \in {"deleted", req[q].user}
          BY <3>1, <3>4 DEF CheckInv
        <5> QED BY <1>4, <3>3, <4>1, <5>1, <5>2, <5>3, <5>4, <5>5
                DEF CheckInv, Known, StillKnown, Recently
      <4>4. OwnerInv(q)' BY <3>3, <3>4 DEF OwnerInv, OwnerOps
      <4>5. SureInv(q)'
        <5>1. {s \in req[q].sure : s[1] # f} \subseteq settled'
          BY <1>6, <3>1, <3>4 DEF SureInv
        <5> QED BY <1>3, <3>1, <3>3, <3>4, <4>1, <5>1 DEF SureInv
      <4>6. Fresh(q)'
        <5>1. req[q].pc = "granted" /\ req[q].user \in Sharees
                => Recently(req[q].user, "yes", MaxAge)
          BY <3>1 DEF Fresh, At
        <5> QED
          BY <1>3, <1>4, <2>1, <2>3, <3>1, <3>3, <4>1, Names, Numbers
             DEF Fresh, At, Recently
      <4> QED BY <4>3, <4>4, <4>5, <4>6
    <3>5. CASE req[q].op \in OwnerOps
      <4>1. /\ req'[q].fact = req[q].fact /\ req'[q].todo = req[q].todo
            /\ req'[q].raced = IF At(q, "invalidate") /\ req[q].fact = f
                               THEN "yes" ELSE req[q].raced
        BY <1>1, <1>2, <3>2, <3>5, OvertakenKeeps
      <4>2. req[q] \in OwnerCalls /\ req[q].fact \in Facts
        BY <1>1, <3>5, RequestType DEF OwnerCalls
      <4>3. req[q].op # "access" /\ req[q].pc \in {"change", "invalidate"}
        BY <3>5, <4>2 DEF OwnerOps, OwnerCalls
      <4>4. CheckInv(q)' /\ SureInv(q)' /\ Fresh(q)'
        BY <3>3, <4>3 DEF CheckInv, SureInv, Fresh, At
      <4>5. OwnerInv(q)'
        <5>1. CASE At(q, "invalidate") /\ req[q].fact = f
          <6>1. req'[q].raced = "yes" /\ req'[q].pc = "invalidate"
            BY <3>3, <4>1, <5>1 DEF At
          <6> QED BY <3>1, <3>3, <3>5, <4>1, <6>1 DEF OwnerInv
        <5>2. CASE ~ (At(q, "invalidate") /\ req[q].fact = f)
          <6>1. req'[q].raced = req[q].raced BY <4>1, <5>2
          <6>2. PICK g \in Facts : g = req[q].fact BY <4>2
          <6>3. req[q].pc = "invalidate"
                  => truth'[g] = truth[g] /\ (Shut(g) => Shut(g)')
            BY <2>1, <2>7, <5>2, <6>2 DEF At
          <6>4. req'[q].fact = g BY <4>1, <6>2
          <6> QED BY <1>3, <3>1, <3>3, <3>5, <4>1, <6>1, <6>2, <6>3, <6>4
                  DEF OwnerInv
        <5> QED BY <5>1, <5>2
      <4> QED BY <4>4, <4>5
    <3>6. CASE req[q] = Idle
      BY <3>3, <3>6 DEF CheckInv, OwnerInv, SureInv, Fresh, At, Idle, OwnerOps
    <3> QED BY <1>1, <3>4, <3>5, <3>6, RequestType
  <2>13. \A q \in Reqs :
           CheckInv(q)' /\ OwnerInv(q)' /\ SureInv(q)' /\ Fresh(q)'
    BY <2>10, <2>11, <2>12
  <2> QED BY <2>8, <2>9, <2>13
          DEF AccessInv, ShareFresh, TrashFresh, DeniedFresh, Fresh, Cached
<1>7. [req[p] EXCEPT !.pc = "invalidate"] \in OwnerCalls
  BY <1>2 DEF OwnerCalls
<1>8. CASE Finish(p) /\ UNCHANGED <<goShares, settled, faults>> BY <1>5, <1>8
<1>9. CASE ~ (Finish(p) /\ UNCHANGED <<goShares, settled, faults>>)
  BY <1>6, <1>7, <1>9 DEF Change
<1> QED BY <1>8, <1>9

(* One entry dropped, or the end of the request: what has been taken away  *)
(* while nothing raced with it is now taken away for good.                 *)
LEMMA InvalidateInv ==
  ASSUME AccessInv, TypeOK', NEW p \in Reqs, Invalidate(p)
  PROVE  AccessInv'
<1> DEFINE fact == req[p].fact
<1>1. TypeOK /\ OwnerInv(p) BY Parts
<1>2. req[p] \in OwnerCalls /\ req[p].op \in OwnerOps /\ fact \in Facts
      /\ req[p].pc = "invalidate" /\ req[p].raced \in YesNo
      /\ (req[p].op \in {"share", "unshare"} <=> fact \in Sharees)
  BY <1>1, RequestType DEF Invalidate, At, OwnerCalls, OwnerInv
<1>3. UNCHANGED <<now, truth, since, faults>> BY DEF Invalidate, goShares
<1>4. faults \in Nat /\ faults' \in Nat /\ faults <= faults' /\ now \in Nat
      /\ \A g \in Facts : since[g] \in Int
  BY <1>1, <1>3, Numbers DEF TypeOK
<1>5. ASSUME NEW f \in req[p].todo, cache' = [cache EXCEPT ![f] = NoEntry],
             NEW raced \in YesNo,
             req' = [req EXCEPT ![p].todo = @ \ {f}, ![p].raced = raced],
             raced = IF f = fact /\ Outdated(f) THEN "yes" ELSE req[p].raced,
             UNCHANGED settled
      PROVE  AccessInv'
  <2>1. f \in Facts BY <1>2 DEF OwnerCalls
  <2>2. /\ cache'[f] = NoEntry /\ \A g \in Facts \ {f} : cache'[g] = cache[g]
        /\ req'[p] = [req[p] EXCEPT !.todo = @ \ {f}, !.raced = raced]
        /\ \A q \in Reqs \ {p} : req'[q] = req[q]
    BY <1>1, <1>5, <2>1 DEF TypeOK
  <2>3. /\ req'[p].op = req[p].op /\ req'[p].pc = "invalidate"
        /\ req'[p].fact = fact /\ req'[p].todo = req[p].todo \ {f}
        /\ req'[p].raced = raced
    BY <1>2, <2>2 DEF OwnerCalls
  <2>4. \A g \in Facts : Cached(g)'
    <3>1. \A g \in Facts \ {f} : Cached(g)'
      BY <1>1, <1>3, <1>4, <2>2, CachedStays, Parts
    <3>2. cache'[f].expires = 0 BY <2>2 DEF NoEntry
    <3>3. since[f] <= now BY <2>1, Parts DEF Cached
    <3>4. \A g \in Facts : g = f => Cached(g)'
      BY <1>3, <1>4, <3>2, <3>3, Numbers DEF Cached
    <3> QED BY <3>1, <3>4
  <2>5. \A q \in Reqs, g \in Facts :
          req'[q].pc = "store" /\ req'[q].fact = g
            => req[q].pc = "store" /\ req[q].fact = g
               /\ req'[q].value = req[q].value
    BY <2>2, <2>3
  <2>6. \A g \in Facts : now' < cache'[g].expires
          => now < cache[g].expires /\ cache'[g].value = cache[g].value
    BY <1>3, <1>4, <2>2 DEF NoEntry
  <2>7. \A g \in Facts : Shut(g) => Shut(g)'
    BY <1>3, <2>5, <2>6 DEF Shut, At, Shutting
  <2>8. req[p].op # "access" BY <1>2 DEF OwnerOps
  <2>9. CheckInv(p)' /\ SureInv(p)' /\ Fresh(p)'
    BY <2>3, <2>8 DEF CheckInv, SureInv, Fresh, At
  <2>10. OwnerInv(p)'
    <3> SUFFICES ASSUME req[p].op \in Closing, raced = "no"
                 PROVE  /\ truth[fact] = Shutting(fact)
                        /\ \A g \in Facts : g = fact /\ faults = 0
                             /\ fact \notin req[p].todo \ {f} => Shut(g)'
      BY <1>2, <1>3, <2>3 DEF OwnerInv, Shutting
    <3>1. req[p].raced = "no" /\ ~ (f = fact /\ Outdated(f)) BY <1>5
    <3>2. /\ truth[fact] = Shutting(fact)
          /\ faults = 0 /\ fact \notin req[p].todo => Shut(fact)
      BY <1>1, <1>2, <3>1 DEF OwnerInv
    <3>3. f = fact => \A g \in Facts : g = f => Shut(g)'
      <4> SUFFICES ASSUME f = fact, NEW g \in Facts, g = f PROVE Shut(g)'
        OBVIOUS
      <4>1. truth'[g] = Shutting(g) BY <1>3, <3>2
      <4>2. ~ (now' < cache'[g].expires) BY <1>3, <1>4, <2>2 DEF NoEntry
      <4>3. \A q \in Reqs : req'[q].pc = "store" /\ req'[q].fact = g
                              => req'[q].value = Shutting(g)
        BY <2>5, <3>1, <3>2 DEF Outdated, At
      <4> QED BY <4>1, <4>2, <4>3 DEF Shut, At, Shutting
    <3> QED BY <2>7, <3>2, <3>3
  <2> QED BY <1>3, <1>4, <1>5, <2>2, <2>4, <2>7, <2>9, <2>10, OthersStay
<1>6. ASSUME req[p].todo = {}, Finish(p), UNCHANGED cache,
             settled' = IF req[p].op \in Closing
                             /\ truth[fact] = NewValue(req[p].op)
                        THEN settled \cup {<<fact, req[p].raced>>} ELSE settled
      PROVE  AccessInv'
  <2>1. req'[p] = Idle /\ \A q \in Reqs \ {p} : req'[q] = req[q]
    BY <1>1, <1>6, FinishType
  <2>2. \A g \in Facts : Cached(g)'
    BY <1>1, <1>3, <1>4, <1>6, CachedStays, Parts
  <2>3. \A g \in Facts : Shut(g) => Shut(g)'
    BY <1>3, <1>6, <2>1, ShutStays DEF Idle
  <2>4. CheckInv(p)' /\ OwnerInv(p)' /\ SureInv(p)' /\ Fresh(p)'
    BY <2>1 DEF CheckInv, OwnerInv, SureInv, Fresh, At, Idle, OwnerOps
  <2>5. \A g \in Facts : faults' = 0 /\ <<g, "no">> \in settled' \ settled
                           => Shut(g)'
    <3> SUFFICES ASSUME NEW g \in Facts, faults = 0,
                        <<g, "no">> \in settled' \ settled
                 PROVE  Shut(g)
      BY <1>3, <2>3
    <3>1. req[p].op \in Closing /\ <<g, "no">> = <<fact, req[p].raced>>
      BY <1>6
    <3>2. g = fact /\ req[p].raced = "no" BY <3>1
    <3> QED BY <1>1, <1>2, <1>6, <3>1, <3>2 DEF OwnerInv
  <2>6. settled \subseteq settled' BY <1>6
  <2> QED BY <1>3, <1>4, <2>1, <2>2, <2>3, <2>4, <2>5, <2>6, OthersStay
<1>7. CASE \E f \in req[p].todo :
             /\ cache' = [cache EXCEPT ![f] = NoEntry]
             /\ req' = [req EXCEPT ![p].todo = @ \ {f},
                          ![p].raced = IF f = fact /\ Outdated(f)
                                       THEN "yes" ELSE @]
             /\ UNCHANGED settled
  <2>1. PICK f \in req[p].todo :
          /\ cache' = [cache EXCEPT ![f] = NoEntry]
          /\ req' = [req EXCEPT ![p].todo = @ \ {f},
                       ![p].raced = IF f = fact /\ Outdated(f)
                                    THEN "yes" ELSE @]
          /\ UNCHANGED settled
    BY <1>7
  <2>2. PICK raced \in YesNo :
          raced = IF f = fact /\ Outdated(f) THEN "yes" ELSE req[p].raced
    BY <1>2 DEF YesNo
  <2>3. req' = [req EXCEPT ![p].todo = @ \ {f}, ![p].raced = raced]
    BY <2>1, <2>2
  <2> QED BY <1>5, <2>1, <2>2, <2>3
<1> QED BY <1>6, <1>7 DEF Invalidate

----------------------------------------------------------------------------
(* Time may pass when nobody decides and no call is over its limit. *)
LEMMA TickInv ==
  ASSUME AccessInv, TypeOK', Tick
  PROVE  AccessInv'
<1>1. TypeOK BY Parts
<1>2. UNCHANGED <<truth, since, settled, cache, req, faults>> /\ now' = now + 1
  BY DEF Tick, goShares
<1>3. now \in Nat /\ \A f \in Facts : since[f] \in Int /\ cache[f].expires \in Nat
  BY <1>1, Numbers DEF TypeOK
<1>4. \A f \in Facts : Cached(f)'
  <2> SUFFICES ASSUME NEW f \in Facts PROVE Cached(f)' OBVIOUS
  <2>1. Cached(f) BY Parts
  <2> QED BY <1>2, <1>3, <2>1, Numbers DEF Cached, Known
<1>5. \A f \in Facts : Shut(f) => Shut(f)'
  BY <1>2, <1>3 DEF Shut, At, Shutting
<1>6. \A p \in Reqs : CheckInv(p)' /\ OwnerInv(p)' /\ SureInv(p)' /\ Fresh(p)'
  <2> SUFFICES ASSUME NEW p \in Reqs
               PROVE  CheckInv(p)' /\ OwnerInv(p)' /\ SureInv(p)' /\ Fresh(p)'
    OBVIOUS
  <2>1. CheckInv(p) /\ OwnerInv(p) /\ SureInv(p) BY Parts
  <2>2. \/ req[p].pc \in {"idle", "change"}
        \/ req[p].pc \in {"ask", "store"} /\ now < req[p].asked + Timeout
    BY DEF Tick, At
  <2>3. req[p].pc \in {"ask", "store"} => req[p].asked \in Nat
    BY <1>1, RequestType, Numbers DEF Checks
  <2>4. CheckInv(p)'
    <3>1. req[p].pc \in {"ask", "store"} /\ req[p].asked <= now
            => req[p].asked <= now + 1 /\ now + 1 <= req[p].asked + Timeout
      BY <1>3, <2>2, <2>3, Numbers
    <3> QED BY <1>2, <2>1, <2>2, <3>1 DEF CheckInv, Known
  <2>5. OwnerInv(p)' BY <1>2, <2>1, <2>2 DEF OwnerInv, Shutting
  <2>6. SureInv(p)' BY <1>2, <2>1 DEF SureInv
  <2>7. Fresh(p)' BY <1>2, <2>2 DEF Fresh, At
  <2> QED BY <2>4, <2>5, <2>6, <2>7
<1>7. \A f \in Facts : faults' = 0 /\ <<f, "no">> \in settled' => Shut(f)'
  BY <1>2, <1>5, Parts
<1> QED BY <1>4, <1>6, <1>7
        DEF AccessInv, ShareFresh, TrashFresh, DeniedFresh, Fresh, Cached

----------------------------------------------------------------------------
(* The theorems. *)

(* At the start nothing is shared or in the trash and nobody has asked.    *)
LEMMA InitAccess ==
  ASSUME Init
  PROVE  AccessInv
<1>1. NoEntry \in [value : YesNo, expires : 0..(MaxTime + TTL)]
  BY Numbers DEF NoEntry, YesNo
<1>2. -(MaxAge + MaxDelay) - 1 \in Int /\ -(MaxAge + MaxDelay) - 1 <= 0
  BY Numbers
<1>3. TypeOK
  BY <1>1, <1>2, Numbers DEF Init, TypeOK, YesNo
<1>4. \A f \in Facts : Cached(f)
  BY <1>2, Numbers DEF Init, Cached, NoEntry
<1>5. \A p \in Reqs : CheckInv(p) /\ OwnerInv(p) /\ SureInv(p) /\ Fresh(p)
  BY DEF Init, CheckInv, OwnerInv, SureInv, Fresh, At, Idle, OwnerOps
<1>6. settled = {} BY DEF Init
<1> QED BY <1>3, <1>4, <1>5, <1>6, Parts

(* Every step keeps the invariant. *)
LEMMA NextAccess ==
  ASSUME AccessInv, [Next]_vars
  PROVE  AccessInv'
<1>1. TypeOK' BY NextType
<1>2. CASE UNCHANGED vars
  <2>1. UNCHANGED <<now, truth, since, settled, cache, req, changes, faults>>
    BY <1>2 DEF vars
  <2>2. \A f \in Facts : Cached(f)' BY <2>1, Parts DEF Cached, Known
  <2>3. \A f \in Facts : Shut(f) => Shut(f)' BY <2>1 DEF Shut, At, Shutting
  <2>4. \A p \in Reqs : CheckInv(p)' BY <2>1, Parts DEF CheckInv, Known, Recently
  <2>5. \A p \in Reqs : OwnerInv(p)' BY <2>1, <2>3, Parts DEF OwnerInv, Shutting, Shut, At
  <2>6. \A p \in Reqs : SureInv(p)' BY <2>1, Parts DEF SureInv
  <2>7. \A p \in Reqs : Fresh(p)' BY <2>1, Parts DEF Fresh, At, Recently
  <2>8. \A f \in Facts : faults' = 0 /\ <<f, "no">> \in settled' => Shut(f)'
    BY <2>1, <2>3, Parts
  <2> QED BY <1>1, <2>2, <2>4, <2>5, <2>6, <2>7, <2>8
          DEF AccessInv, ShareFresh, TrashFresh, DeniedFresh, Fresh, Cached
<1>3. CASE Tick BY <1>1, <1>3, TickInv
<1>4. ASSUME NEW p \in Reqs, Step(p) PROVE AccessInv'
  <2>1. CASE \E u \in Users : BeginAccess(p, u) BY <1>1, <2>1, BeginAccessInv
  <2>2. CASE \E op \in OwnerOps, f \in Facts : BeginChange(p, op, f)
    BY <1>1, <2>2, BeginChangeInv
  <2>3. CASE LookUp(p) BY <1>1, <2>3, LookUpInv
  <2>4. CASE Ask(p) BY <1>1, <2>4, AskInv
  <2>5. CASE Store(p) BY <1>1, <2>5, StoreInv
  <2>6. CASE EndAccess(p) BY <1>1, <2>6, EndAccessInv
  <2>7. CASE Change(p) BY <1>1, <2>7, ChangeInv
  <2>8. CASE Invalidate(p) BY <1>1, <2>8, InvalidateInv
  <2> QED BY <1>4, <2>1, <2>2, <2>3, <2>4, <2>5, <2>6, <2>7, <2>8 DEF Step
<1> QED BY <1>2, <1>3, <1>4 DEF Next

(* The inductive invariant: what the cache, the checks and the requests of *)
(* the owner know of go-shares.                                            *)
THEOREM AccessInvariant == Spec => []AccessInv
<1>1. Init => AccessInv BY InitAccess
<1>2. AccessInv /\ [Next]_vars => AccessInv' BY NextAccess
<1> QED BY <1>1, <1>2, PTL DEF Spec

(* TypeOK: the types. *)
THEOREM TypeCorrect == Spec => []TypeOK
<1>1. AccessInv => TypeOK BY Parts
<1> QED BY <1>1, AccessInvariant, PTL

(* ShareFresh: for any time to live and time limit, whatever overlaps or   *)
(* fails, a share grants access for no longer than their sum after it has  *)
(* been revoked.                                                           *)
THEOREM SharesFresh == Spec => []ShareFresh
<1>1. AccessInv => ShareFresh BY DEF AccessInv
<1> QED BY <1>1, AccessInvariant, PTL

(* TrashFresh: as long as go-shares answers, a bucket in the trash is      *)
(* accessible for that long and one more call at most.                     *)
THEOREM TrashedSoonShut == Spec => []TrashFresh
<1>1. AccessInv => TrashFresh BY DEF AccessInv
<1> QED BY <1>1, AccessInvariant, PTL

(* DeniedFresh: as long as go-shares answers, nobody is turned away for    *)
(* longer than an entry may be behind.                                     *)
THEOREM DenialsFresh == Spec => []DeniedFresh
<1>1. AccessInv => DeniedFresh BY DEF AccessInv
<1> QED BY <1>1, AccessInvariant, PTL

(* RevokedUnraced: a check that begins when a share or the bucket has been *)
(* taken away, and the request for that has returned without a race, is    *)
(* refused.                                                                *)
THEOREM RevocationHolds == Spec => []RevokedUnraced
<1>1. AccessInv => RevokedUnraced
  <2> SUFFICES ASSUME AccessInv, faults = 0, NEW p \in Reqs, At(p, "granted"),
                      NEW s \in req[p].sure, Concerns(s, p)
               PROVE  s[2] = "yes"
    BY DEF RevokedUnraced
  <2>1. TypeOK /\ SureInv(p) BY Parts
  <2>2. req[p].op = "access" BY <2>1, RequestType DEF At
  <2>3. s \in Settled BY <2>1, <2>2 DEF SureInv, TypeOK
  <2>4. PICK f \in Facts, raced \in YesNo : s = <<f, raced>>
    BY <2>3 DEF Settled
  <2>5. f \in {"deleted", req[p].user} BY <2>4 DEF Concerns
  <2>6. raced # "no" BY <2>1, <2>2, <2>4, <2>5 DEF SureInv, At
  <2> QED BY <2>4, <2>6 DEF YesNo
<1> QED BY <1>1, AccessInvariant, PTL
=============================================================================
