------------------------- MODULE FileTracesProofs -------------------------
(***************************************************************************)
(* Proofs about FileTraces, for any sets of files, links and requests, any *)
(* durations and any bounds.                                               *)
(***************************************************************************)
EXTENDS FileTraces, TLAPS

(* The numbers of the model are natural numbers. *)
LEMMA Numbers ==
  /\ Expiry \in Nat /\ TTL \in Nat /\ Wait \in Nat /\ MaxNow \in Nat
  /\ MaxFaults \in Nat /\ MaxBegun \in Nat
BY TimesAssumption, BoundsAssumption

(* The names of different files, and the two names of one, are different.  *)
LEMMA NamesDiffer ==
  /\ \A k \in Keys : {ObjectKey(k), UploadID(k)} \subseteq Names
  /\ \A j, k : UploadID(j) = UploadID(k) => j = k
  /\ \A j, k : ObjectKey(j) = ObjectKey(k) => j = k
  /\ \A j, k : UploadID(j) # ObjectKey(k)
BY DEF UploadID, ObjectKey, Names

----------------------------------------------------------------------------
(* Types. *)

(* A request that is under way is a proper request. *)
LEMMA BusyType ==
  ASSUME TypeOK, NEW p \in Reqs, req[p] # Idle
  PROVE  req[p] \in Requests
BY DEF TypeOK

(* Moving a request on keeps the requests typed.                           *)
LEMMA GotoType ==
  ASSUME TypeOK, NEW p \in Reqs, req[p] \in Requests, NEW pc \in Labels, Goto(p, pc)
  PROVE  req' \in [Reqs -> {Idle} \cup Requests]
<1>1. [req[p] EXCEPT !.pc = pc] \in Requests BY DEF Requests
<1> QED BY <1>1 DEF Goto, TypeOK

(* So does ending one.                                                     *)
LEMMA FinishType ==
  ASSUME TypeOK, NEW p \in Reqs, Finish(p)
  PROVE  req' \in [Reqs -> {Idle} \cup Requests]
BY DEF Finish, TypeOK

(* A request that starts is typed, and no other state changes with it.     *)
LEMMA StartType ==
  ASSUME TypeOK, NEW p \in Reqs,
         NEW op \in {"tus", "delete", "read", "share", "download"},
         NEW pc \in Labels, NEW k \in Keys \cup {None}, NEW l \in Links \cup {None},
         Start(p, op, pc, k, l), UNCHANGED traceVars
  PROVE  TypeOK'
<1>1. begun' \in 0..MaxBegun /\ faults' = faults BY Numbers DEF Start, TypeOK
<1> DEFINE r == [op |-> op, pc |-> pc, key |-> k, handler |-> None, link |-> l,
                 since |-> IF l = None THEN 0 ELSE now,
                 id |-> IF op = "delete" THEN begun + 1 ELSE 0]
<1>2. r \in Requests BY Numbers DEF Start, TypeOK, Requests
<1>3. req' = [req EXCEPT ![p] = r] BY DEF Start
<1>4. req' \in [Reqs -> {Idle} \cup Requests] BY <1>2, <1>3 DEF TypeOK
<1> QED BY <1>1, <1>4
        DEF TypeOK, traceVars, uploadVars, eventVars, cacheVars, linkVars

(* A call that fails counts, within the bound. *)
LEMMA CountersType ==
  ASSUME TypeOK, NoFault \/ \E call : Fault(call)
  PROVE  faults' \in 0..MaxFaults /\ begun' \in 0..MaxBegun
BY Numbers DEF TypeOK, NoFault, Fault, counters

(* Requests for uploads, and the goroutine that takes their announcements. *)
LEMMA UploadsType ==
  ASSUME TypeOK, WorkInv, NEW p \in Reqs, TusStep(p) \/ Forward(p)
  PROVE  TypeOK'
<1> USE DEF uploadVars, eventVars, cacheVars, linkVars, counters, traceVars
<1>1. ASSUME At(p, "tus", req[p].pc)
      PROVE  req[p] \in Requests /\ req[p].key \in Keys
  BY <1>1, BusyType DEF At, Idle, WorkInv, Equipped, Busy
<1>2. CASE TusLoad(p)
  <2>1. CASE stored = None
    BY <1>1, <1>2, <2>1, GotoType DEF TusLoad, At, TypeOK, Labels
  <2>2. CASE stored # None
    <3>1. [req[p] EXCEPT !.handler = stored, !.pc = "serve"] \in Requests
      BY <1>1, <1>2 DEF TusLoad, At, TypeOK, Requests, Labels
    <3> QED BY <1>2, <2>2, <3>1 DEF TusLoad, TypeOK
  <2> QED BY <2>1, <2>2
<1>3. CASE TusMake(p)
  <2>1. Actual(p) \in Reqs BY DEF Actual, TypeOK
  <2>2. [req[p] EXCEPT !.handler = Actual(p), !.pc = "serve"] \in Requests
    BY <1>1, <1>3, <2>1 DEF TusMake, At, Requests, Labels
  <2>3. req' \in [Reqs -> {Idle} \cup Requests]
    BY <1>3, <2>2 DEF TusMake, TypeOK
  <2>4. /\ forwarder' \in [Reqs -> {Off, Reading} \cup Announced]
        /\ \A h \in Reqs : forwarder'[h] # Off <=> h = stored'
    BY <1>3, NoneAssumption DEF TusMake, Listening, TypeOK, Off, Reading
  <2> QED BY <1>3, <2>3, <2>4 DEF TusMake, TypeOK
<1>4. CASE TusServe(p)
  <2>1. req' \in [Reqs -> {Idle} \cup Requests]
    BY <1>1, <1>4, GotoType, FinishType DEF TusServe, Completed, At, Labels
  <2>2. file' \in [Keys -> {"none", "active", "trash", "version"}]
    BY <1>4 DEF TusServe, TypeOK
  <2> QED BY <1>4, <2>1, <2>2 DEF TusServe, TypeOK
<1>5. CASE TusNotify(p)
  <2>1. req' \in [Reqs -> {Idle} \cup Requests]
    BY <1>5, FinishType DEF TusNotify
  <2>2. [pc |-> "invalidate", key |-> req[p].key] \in Announced
    BY <1>1, <1>5 DEF TusNotify, At, Announced
  <2>3. /\ forwarder' \in [Reqs -> {Off, Reading} \cup Announced]
        /\ \A h \in Reqs : forwarder'[h] # Off <=> h = stored'
    <3>1. req[p].handler = stored /\ stored \in Reqs
      BY <1>5 DEF TusNotify, WorkInv, Equipped, TypeOK
    <3>2. [pc |-> "invalidate", key |-> req[p].key] # Off BY DEF Off
    <3> QED BY <1>5, <2>2, <3>1, <3>2 DEF TusNotify, TypeOK
  <2> QED BY <1>5, <2>1, <2>3 DEF TusNotify, TypeOK
<1>6. ASSUME forwarder[p].pc \in {"invalidate", "emit"}
      PROVE  forwarder[p] \in Announced
  BY <1>6 DEF TypeOK, Off, Reading
<1>7. CASE ForwardInvalidate(p)
  <2>1. [forwarder[p] EXCEPT !.pc = "emit"] \in Announced
    BY <1>6, <1>7 DEF ForwardInvalidate, Announced
  <2>2. /\ forwarder' \in [Reqs -> {Off, Reading} \cup Announced]
        /\ \A h \in Reqs : forwarder'[h] # Off <=> h = stored'
    <3>1. forwarder[p] # Off /\ [forwarder[p] EXCEPT !.pc = "emit"] # Off
      BY <1>6, <1>7, <2>1 DEF ForwardInvalidate, Off, Announced
    <3>2. forwarder' = [forwarder EXCEPT ![p] = [forwarder[p] EXCEPT !.pc = "emit"]]
      BY <1>7 DEF ForwardInvalidate
    <3> QED BY <1>7, <2>1, <3>1, <3>2 DEF ForwardInvalidate, TypeOK
  <2>3. cache' \subseteq Names /\ late' \subseteq Names
    BY <1>7 DEF ForwardInvalidate, Invalidate, TypeOK
  <2>4. faults' \in 0..MaxFaults /\ begun' \in 0..MaxBegun
    BY <1>7, CountersType DEF ForwardInvalidate, Invalidate
  <2> QED BY <1>7, <2>2, <2>3, <2>4 DEF ForwardInvalidate, TypeOK
<1>8. CASE ForwardEmit(p)
  <2>1. /\ forwarder' \in [Reqs -> {Off, Reading} \cup Announced]
        /\ \A h \in Reqs : forwarder'[h] # Off <=> h = stored'
    BY <1>6, <1>8 DEF ForwardEmit, TypeOK, Off, Reading, Announced
  <2>2. [action |-> "index", key |-> UploadID(forwarder[p].key), id |-> 0] \in Events
    BY <1>6, <1>8 DEF ForwardEmit, Announced, Events
  <2>3. topic' \subseteq Events
    BY <1>8, <2>2 DEF ForwardEmit, Emit, TypeOK
  <2>4. faults' \in 0..MaxFaults /\ begun' \in 0..MaxBegun
    BY <1>8, CountersType DEF ForwardEmit, Emit
  <2> QED BY <1>8, <2>1, <2>3, <2>4 DEF ForwardEmit, TypeOK
<1> QED BY <1>2, <1>3, <1>4, <1>5, <1>7, <1>8 DEF TusStep, Forward

(* Requests for shared links. *)
LEMMA LinksType ==
  ASSUME TypeOK, WorkInv, NEW p \in Reqs, LinkStep(p)
  PROVE  TypeOK'
<1> USE DEF uploadVars, eventVars, cacheVars, linkVars, counters, traceVars
<1>1. ASSUME req[p].op \in {"share", "download"}
      PROVE  req[p] \in Requests /\ req[p].link \in Links
             /\ (req[p].op = "share" => req[p].key \in Keys)
  BY <1>1, BusyType DEF Idle, WorkInv, Equipped, Busy
<1>2. CASE ShareHead(p)
  <2>1. [req[p] EXCEPT !.since = now, !.pc = "create"] \in Requests
    BY <1>1, <1>2 DEF ShareHead, At, Requests, Labels, TypeOK
  <2> QED BY <1>2, <2>1, FinishType DEF ShareHead, TypeOK
<1>3. CASE ShareCreate(p)
  <2>1. [state |-> "live", key |-> req[p].key, end |-> req[p].since + Expiry]
          \in SharedBy
    BY <1>1, <1>3, Numbers DEF ShareCreate, At, Requests, SharedBy
  <2>2. link' \in [Links -> {NoLink} \cup SharedBy] /\ raced' \subseteq Links
    BY <1>1, <1>3, <2>1 DEF ShareCreate, At, TypeOK
  <2> QED BY <1>3, <2>2, FinishType DEF ShareCreate, TypeOK
<1>4. CASE DownloadGet(p)
  BY <1>1, <1>4, GotoType, FinishType DEF DownloadGet, At, TypeOK, Labels
<1>5. CASE DownloadSign(p)
  <2>1. url' \in [Links -> 0..MaxNow + TTL]
    BY <1>5, Numbers DEF DownloadSign, TypeOK
  <2> QED BY <1>5, <2>1, FinishType DEF DownloadSign, TypeOK
<1> QED BY <1>2, <1>3, <1>4, <1>5 DEF LinkStep

(* A link that ends keeps its key, and ends no later than it would have.   *)
LEMMA EndedType ==
  ASSUME TypeOK, NEW l \in Links, link[l].state = "live"
  PROVE  Ended(link[l]) \in SharedBy
<1>1. link[l] \in SharedBy BY DEF TypeOK, NoLink
<1> DEFINE end == IF link[l].end < now THEN link[l].end ELSE now
<1>2. end \in 0..MaxNow + Expiry
  BY <1>1, Numbers DEF SharedBy, TypeOK
<1>3. Ended(link[l]) = [link[l] EXCEPT !.state = "gone", !.end = end]
  BY DEF Ended
<1> QED BY <1>1, <1>2, <1>3 DEF SharedBy

(* Deletions and reads. *)
LEMMA FilesType ==
  ASSUME TypeOK, WorkInv, NEW p \in Reqs, DeleteStep(p) \/ ReadStep(p)
  PROVE  TypeOK'
<1> USE DEF uploadVars, eventVars, cacheVars, linkVars, counters, traceVars
<1>1. ASSUME req[p].op \in {"delete", "read"}
      PROVE  req[p] \in Requests /\ req[p].key \in Keys
             /\ (req[p].op = "delete" => req[p].id \in 1..MaxBegun)
  <2>1. req[p] \in Requests /\ Busy(p) BY <1>1, BusyType DEF Idle, Busy
  <2> QED BY <1>1, <2>1, Numbers DEF Requests, WorkInv, Equipped
<1>2. CASE DeleteCopy(p)
  BY <1>1, <1>2, GotoType, FinishType DEF DeleteCopy, At, TypeOK, Labels
<1>3. CASE DeleteRemove(p)
  <2>1. file' \in [Keys -> {"none", "active", "trash", "version"}]
    BY <1>3 DEF DeleteRemove, TypeOK
  <2>2. told' \subseteq Names BY <1>3 DEF DeleteRemove, TypeOK
  <2> QED BY <1>1, <1>3, <2>1, <2>2, GotoType DEF DeleteRemove, At, TypeOK, Labels
<1>4. CASE DeleteInvalidate(p)
  <2>1. Cleanups(req[p]) \subseteq Jobs
    BY <1>1, <1>4 DEF DeleteInvalidate, At, Cleanups, Jobs
  <2>2. cache' \subseteq Names /\ late' \subseteq Names
    BY <1>4 DEF DeleteInvalidate, Invalidate, TypeOK
  <2>3. faults' \in 0..MaxFaults /\ begun' \in 0..MaxBegun
    BY <1>4, CountersType DEF DeleteInvalidate, Invalidate
  <2> QED BY <1>4, <2>1, <2>2, <2>3, FinishType DEF DeleteInvalidate, TypeOK
<1>5. CASE ReadLookup(p) \/ ReadFetch(p)
  BY <1>1, <1>5, GotoType, FinishType DEF ReadLookup, ReadFetch, At, TypeOK, Labels
<1>6. CASE ReadStore(p)
  <2>1. ObjectKey(req[p].key) \in Names
    BY <1>1, <1>6, NamesDiffer DEF ReadStore, At
  <2>2. cache' \subseteq Names /\ late' \subseteq Names
    BY <1>6, <2>1 DEF ReadStore, TypeOK
  <2> QED BY <1>6, <2>2, FinishType DEF ReadStore, TypeOK
<1> QED BY <1>2, <1>3, <1>4, <1>5, <1>6 DEF DeleteStep, ReadStep

(* Every step keeps the types. *)
LEMMA TypeStep ==
  ASSUME TypeOK, WorkInv, [Next]_vars
  PROVE  TypeOK'
<1> USE DEF uploadVars, eventVars, cacheVars, linkVars, counters, traceVars
<1>1. ASSUME NEW p \in Reqs, Begin(p) PROVE TypeOK'
  <2>1. ASSUME NEW k \in Keys, BeginTus(p, k) \/ BeginDelete(p, k) \/ BeginRead(p, k)
        PROVE  TypeOK'
    BY <2>1, StartType DEF BeginTus, BeginDelete, BeginRead, Labels
  <2>2. ASSUME NEW l \in Links, NEW k \in Keys,
               BeginDownload(p, l) \/ BeginShare(p, l, k)
        PROVE  TypeOK'
    BY <2>2, StartType DEF BeginDownload, BeginShare, Labels
  <2> QED BY <1>1, <2>1, <2>2 DEF Begin
<1>2. ASSUME NEW p \in Reqs, Step(p) \/ Forward(p) PROVE TypeOK'
  BY <1>2, UploadsType, LinksType, FilesType DEF Step
<1>3. ASSUME NEW j \in jobs, EmitDelete(j) PROVE TypeOK'
  <2>1. [action |-> "delete", key |-> ObjectKey(j.key), id |-> j.id] \in Events
    BY DEF TypeOK, Jobs, Events
  <2>2. topic' \subseteq Events BY <1>3, <2>1 DEF EmitDelete, Emit, TypeOK
  <2>3. faults' \in 0..MaxFaults /\ begun' \in 0..MaxBegun
    BY <1>3, CountersType DEF EmitDelete, Emit
  <2> QED BY <1>3, <2>2, <2>3 DEF EmitDelete, TypeOK
<1>4. ASSUME NEW j \in jobs, RemoveLinks(j) PROVE TypeOK'
  <2>1. link' \in [Links -> {NoLink} \cup SharedBy]
    BY <1>4, EndedType DEF RemoveLinks, TypeOK
  <2>2. faults' \in 0..MaxFaults /\ begun' \in 0..MaxBegun
    BY <1>4, CountersType DEF RemoveLinks
  <2> QED BY <1>4, <2>1, <2>2 DEF RemoveLinks, TypeOK
<1>5. ASSUME NEW m \in topic, Deliver(m) PROVE TypeOK'
  <2>1. m.key \in Names BY NamesDiffer DEF TypeOK, Events
  <2> QED BY <1>5, <2>1 DEF Deliver, TypeOK
<1>6. ASSUME NEW k \in Keys, Archive(k) \/ Restore(k) PROVE TypeOK'
  BY <1>6 DEF Archive, Restore, Move, TypeOK
<1>7. ASSUME NEW n \in cache, Expire(n) PROVE TypeOK'
  BY <1>7 DEF Expire, TypeOK
<1>8. ASSUME NEW l \in Links, Revoke(l) PROVE TypeOK'
  <2>1. link' \in [Links -> {NoLink} \cup SharedBy]
    BY <1>8, EndedType DEF Revoke, TypeOK
  <2> QED BY <1>8, <2>1 DEF Revoke, TypeOK
<1>9. CASE Tick
  <2>1. now' \in 0..MaxNow BY <1>9, Numbers DEF Tick, TypeOK
  <2> QED BY <1>9, <2>1 DEF Tick, TypeOK
<1>10. CASE Crash
  <2>1. faults' \in 0..MaxFaults /\ begun' \in 0..MaxBegun
    BY <1>10, CountersType DEF Crash
  <2>2. /\ forwarder' \in [Reqs -> {Off, Reading} \cup Announced]
        /\ \A h \in Reqs : forwarder'[h] # Off <=> h = stored'
    BY <1>10, NoneAssumption DEF Crash
  <2> QED BY <1>10, <2>1, <2>2 DEF Crash, TypeOK
<1>11. CASE UNCHANGED vars
  BY <1>11 DEF TypeOK, vars
<1> QED BY <1>1, <1>2, <1>3, <1>4, <1>5, <1>6, <1>7, <1>8, <1>9, <1>10, <1>11 DEF Next

----------------------------------------------------------------------------
(* What requests have. *)

(* Files only come, go to the trash or to the versions, and come back.     *)
LEMMA FileMoves ==
  ASSUME TypeOK, WorkInv, [Next]_vars
  PROVE  \/ UNCHANGED file
         \/ \E k \in Keys : file' = [file EXCEPT ![k] = "active"]
         \/ \E k \in Keys : file[k] = "active" /\ file' = [file EXCEPT ![k] = "version"]
         \/ \E p \in Reqs : DeleteRemove(p)
<1>1. ASSUME NEW p \in Reqs, Begin(p) \/ Forward(p) \/ Step(p), ~ DeleteRemove(p)
      PROVE  UNCHANGED file \/ \E k \in Keys : file' = [file EXCEPT ![k] = "active"]
  <2>1. CASE Begin(p) \/ Forward(p)
    BY <2>1 DEF Begin, BeginTus, BeginDelete, BeginRead, BeginDownload, BeginShare,
                Forward, ForwardInvalidate, ForwardEmit, traceVars
  <2>2. CASE Step(p) /\ ~ TusServe(p)
    BY <1>1, <2>2
       DEF Step, TusStep, TusLoad, TusMake, TusNotify, DeleteStep,
           DeleteCopy, DeleteInvalidate, ReadStep, ReadLookup, ReadFetch,
           ReadStore, LinkStep, ShareHead, ShareCreate, DownloadGet,
           DownloadSign, traceVars
  <2>3. CASE TusServe(p)
    <3>1. req[p].key \in Keys
      BY <2>3 DEF TusServe, At, WorkInv, Equipped, Busy, Idle
    <3> QED BY <2>3, <3>1 DEF TusServe
  <2> QED BY <1>1, <2>1, <2>2, <2>3
<1>2. ASSUME NEW k \in Keys, Archive(k) \/ Restore(k)
      PROVE  \/ file' = [file EXCEPT ![k] = "active"]
             \/ file[k] = "active" /\ file' = [file EXCEPT ![k] = "version"]
  BY <1>2 DEF Archive, Restore, Move
<1>3. ASSUME ~ \E p \in Reqs : Begin(p) \/ Forward(p) \/ Step(p),
             ~ \E k \in Keys : Archive(k) \/ Restore(k)
      PROVE  UNCHANGED file
  BY <1>3 DEF Next, EmitDelete, RemoveLinks, Deliver, Expire, Revoke, Tick,
              Crash, vars, traceVars
<1> QED BY <1>1, <1>2, <1>3 DEF Step, DeleteStep

(* A file that was uploaded stays somewhere.                               *)
FilesStay == \A k \in Keys : file[k] # "none" => file'[k] # "none"

(* It does so in every step. *)
LEMMA FilesKept ==
  ASSUME TypeOK, WorkInv, [Next]_vars
  PROVE  FilesStay
BY FileMoves DEF FilesStay, TypeOK, DeleteRemove

(* It is enough to look at the request that took the step, as long as the  *)
(* handler that is stored stays, and the files.                            *)
LEMMA WorkFrame ==
  ASSUME WorkInv, NEW p \in Reqs, \A q \in Reqs \ {p} : req'[q] = req[q],
         stored # None => stored' = stored, FilesStay, Equipped(p)'
  PROVE  WorkInv'
<1>1. ASSUME NEW q \in Reqs, q # p PROVE Equipped(q)'
  BY <1>1 DEF WorkInv, Equipped, Busy, At, FilesStay, Idle
<1> QED BY <1>1 DEF WorkInv

(* A request that moves on, or ends, keeps what it had.                    *)
LEMMA GotoWork ==
  ASSUME TypeOK, WorkInv, NEW p \in Reqs, NEW op, NEW from, At(p, op, from),
         from \in Labels, NEW pc \in Labels, Goto(p, pc),
         op = "tus" /\ pc \in {"serve", "notify"} => from = "serve",
         stored' = stored, FilesStay
  PROVE  WorkInv'
<1>1. req[p] \in Requests BY BusyType DEF At, Idle, Labels
<1>2. /\ req'[p] = [req[p] EXCEPT !.pc = pc]
      /\ \A q \in Reqs \ {p} : req'[q] = req[q]
  BY DEF Goto, TypeOK
<1>3. /\ req'[p].op = req[p].op /\ req'[p].key = req[p].key
      /\ req'[p].link = req[p].link /\ req'[p].id = req[p].id
      /\ req'[p].handler = req[p].handler /\ req'[p].pc = pc
  BY <1>1, <1>2 DEF Requests
<1>4. Busy(p) BY <1>1 DEF Busy, Idle, Requests
<1>5. Equipped(p)' BY <1>3, <1>4 DEF WorkInv, Equipped, At, Busy, FilesStay
<1> QED BY <1>2, <1>5, WorkFrame

(* A request that ends needs nothing any more.                             *)
LEMMA FinishWork ==
  ASSUME TypeOK, WorkInv, NEW p \in Reqs, Finish(p), stored' = stored, FilesStay
  PROVE  WorkInv'
<1>1. req'[p] = Idle /\ \A q \in Reqs \ {p} : req'[q] = req[q]
  BY DEF Finish, TypeOK
<1>2. Equipped(p)' BY <1>1 DEF Equipped, At, Busy, Idle
<1> QED BY <1>1, <1>2, WorkFrame

(* A request that starts is given what it needs.                           *)
LEMMA BeginWork ==
  ASSUME TypeOK, WorkInv, NEW p \in Reqs, Begin(p)
  PROVE  WorkInv'
<1> USE DEF traceVars, uploadVars
<1>1. ASSUME NEW op, NEW pc, NEW k, NEW l, Start(p, op, pc, k, l), stored' = stored,
             op # "download" => k \in Keys,
             op \in {"share", "download"} => l \in Links,
             op = "delete" => file[k] # "none",
             pc \notin {"serve", "notify"}, UNCHANGED file
      PROVE  WorkInv'
  <2>1. begun + 1 # 0 BY Numbers DEF TypeOK
  <2>2. /\ req'[p].op = op /\ req'[p].pc = pc /\ req'[p].key = k /\ req'[p].link = l
        /\ op = "delete" => req'[p].id # 0
        /\ \A q \in Reqs \ {p} : req'[q] = req[q]
    BY <1>1, <2>1 DEF Start, TypeOK
  <2>3. Equipped(p)' BY <1>1, <2>2 DEF Equipped, At, Busy
  <2> QED BY <1>1, <2>2, <2>3, WorkFrame DEF FilesStay
<1>2. ASSUME NEW k \in Keys, BeginTus(p, k) \/ BeginDelete(p, k) \/ BeginRead(p, k)
      PROVE  WorkInv'
  BY <1>1, <1>2 DEF BeginTus, BeginDelete, BeginRead
<1>3. ASSUME NEW l \in Links, NEW k \in Keys,
             BeginDownload(p, l) \/ BeginShare(p, l, k)
      PROVE  WorkInv'
  BY <1>1, <1>3 DEF BeginDownload, BeginShare
<1> QED BY <1>2, <1>3 DEF Begin

(* Every step keeps what requests have. *)
LEMMA WorkStep ==
  ASSUME TypeOK, WorkInv, [Next]_vars
  PROVE  WorkInv'
<1> USE DEF uploadVars, eventVars, cacheVars, linkVars, counters, traceVars
<1>0. FilesStay BY FilesKept
<1>1. ASSUME NEW p \in Reqs, TusLoad(p) \/ TusMake(p) PROVE WorkInv'
  <2>1. req[p] \in Requests BY <1>1, BusyType DEF TusLoad, TusMake, At, Idle
  <2>2. CASE TusLoad(p) /\ stored = None
    BY <2>2, <1>0, GotoWork DEF TusLoad, Labels
  <2>3. CASE ~ (TusLoad(p) /\ stored = None)
    <3>1. PICK h \in Reqs :
            /\ req' = [req EXCEPT ![p].handler = h, ![p].pc = "serve"]
            /\ stored' = h /\ (stored # None => stored = h)
      BY <1>1, <2>3 DEF TusLoad, TusMake, Actual, TypeOK
    <3>2. /\ req'[p] = [req[p] EXCEPT !.handler = h, !.pc = "serve"]
          /\ \A q \in Reqs \ {p} : req'[q] = req[q]
      BY <3>1 DEF TypeOK
    <3>3. /\ req'[p].op = req[p].op /\ req'[p].key = req[p].key
          /\ req'[p].link = req[p].link /\ req'[p].id = req[p].id
          /\ req'[p].handler = h
      BY <2>1, <3>2 DEF Requests
    <3>4. Busy(p) BY <2>1 DEF Busy, Idle, Requests
    <3>5. Equipped(p)'
      BY <1>0, <3>1, <3>3, <3>4, NoneAssumption DEF WorkInv, Equipped, At, Busy, FilesStay
    <3> QED BY <3>1, <3>2, <3>5, <1>0, WorkFrame
  <2> QED BY <2>2, <2>3
<1>2. ASSUME NEW p \in Reqs, TusServe(p) \/ TusNotify(p) \/ ReadStep(p)
      PROVE  WorkInv'
  BY <1>2, <1>0, GotoWork, FinishWork
     DEF TusServe, TusNotify, Completed, ReadStep, ReadLookup, ReadFetch, ReadStore,
         Labels
<1>3. ASSUME NEW p \in Reqs, DeleteStep(p) PROVE WorkInv'
  BY <1>3, <1>0, GotoWork, FinishWork
     DEF DeleteStep, DeleteCopy, DeleteRemove, DeleteInvalidate, Labels
<1>4. ASSUME NEW p \in Reqs, LinkStep(p) PROVE WorkInv'
  <2>1. CASE ShareHead(p) /\ ~ Finish(p)
    <3>1. req[p] \in Requests BY <2>1, BusyType DEF ShareHead, At, Idle
    <3>2. /\ req'[p] = [req[p] EXCEPT !.since = now, !.pc = "create"]
          /\ \A q \in Reqs \ {p} : req'[q] = req[q]
      BY <2>1 DEF ShareHead, TypeOK
    <3>3. /\ req'[p].op = req[p].op /\ req'[p].key = req[p].key
          /\ req'[p].link = req[p].link /\ req'[p].id = req[p].id
          /\ req'[p].pc = "create"
      BY <3>1, <3>2 DEF Requests
    <3>4. Busy(p) /\ stored' = stored
      BY <2>1, <3>1 DEF ShareHead, Busy, Idle, Requests
    <3>5. Equipped(p)' BY <1>0, <3>3, <3>4 DEF WorkInv, Equipped, At, Busy, FilesStay
    <3> QED BY <3>2, <3>4, <3>5, <1>0, WorkFrame
  <2>2. CASE Finish(p)
    BY <1>4, <2>2, <1>0, FinishWork
       DEF LinkStep, ShareHead, ShareCreate, DownloadGet, DownloadSign
  <2>3. CASE DownloadGet(p) /\ ~ Finish(p)
    BY <2>3, <1>0, GotoWork DEF DownloadGet, Labels
  <2> QED BY <1>4, <2>1, <2>2, <2>3 DEF LinkStep, ShareCreate, DownloadSign
<1>5. CASE Crash
  BY <1>5 DEF Crash, WorkInv, Equipped, At, Busy, Idle
<1>6. CASE UNCHANGED <<req, stored>>
  BY <1>0, <1>6 DEF WorkInv, Equipped, At, Busy, FilesStay, Idle
<1>7. ASSUME NEW p \in Reqs, Forward(p) PROVE UNCHANGED <<req, stored>>
  BY <1>7 DEF Forward, ForwardInvalidate, ForwardEmit
<1>8. ASSUME NEW j \in jobs, EmitDelete(j) \/ RemoveLinks(j)
      PROVE  UNCHANGED <<req, stored>>
  BY <1>8 DEF EmitDelete, RemoveLinks
<1>9. ASSUME \/ \E m \in topic : Deliver(m)
             \/ \E k \in Keys : Archive(k) \/ Restore(k)
             \/ \E n \in cache : Expire(n)
             \/ \E l \in Links : Revoke(l)
             \/ Tick
      PROVE  UNCHANGED <<req, stored>>
  BY <1>9 DEF Deliver, Archive, Restore, Move, Expire, Revoke, Tick
<1> QED BY <1>1, <1>2, <1>3, <1>4, <1>5, <1>6, <1>7, <1>8, <1>9, BeginWork
        DEF Next, Step, TusStep, vars

----------------------------------------------------------------------------
(* Links and URLs. *)

(* The times of the model are natural numbers. *)
LEMMA Times ==
  ASSUME TypeOK
  PROVE  /\ now \in Nat
         /\ \A l \in Links : url[l] \in Nat /\ link[l].end \in Nat
         /\ \A p \in Reqs : Busy(p) => req[p].since \in Nat
<1>1. \A l \in Links : link[l].end \in Nat
  BY Numbers DEF TypeOK, NoLink, SharedBy
<1>2. \A p \in Reqs : Busy(p) => req[p].since \in Nat
  BY Numbers, BusyType DEF Requests, Busy
<1> QED BY <1>1, <1>2, Numbers DEF TypeOK

(* A step of one request that leaves links, URLs and the clock alone.      *)
LEMMA LinkFrame ==
  ASSUME LinkInv, UrlBounded, NEW p \in Reqs,
         \A q \in Reqs \ {p} : req'[q] = req[q], UNCHANGED <<link, url, now>>,
         Linked(p)',
         req'[p].op = "share" =>
           \A q \in Reqs \ {p} : req[q].op = "share" => req[q].link # req'[p].link
  PROVE  LinkInv' /\ UrlBounded'
<1>1. ASSUME NEW q \in Reqs, q # p PROVE Linked(q)'
  BY <1>1 DEF LinkInv, Linked, At
<1> QED BY <1>1 DEF LinkInv, UrlBounded

(* A request that goes on for the same link, not yet to sign a URL.        *)
LEMMA SameLink ==
  ASSUME TypeOK, LinkInv, UrlBounded, NEW p \in Reqs,
         \A q \in Reqs \ {p} : req'[q] = req[q], UNCHANGED <<link, url, now>>,
         req'[p].op = req[p].op, req'[p].link = req[p].link,
         req[p].op = "download" => req'[p].since = req[p].since,
         req'[p].op # "download" \/ req'[p].pc # "sign"
  PROVE  LinkInv' /\ UrlBounded'
<1>1. Linked(p)' BY DEF LinkInv, Linked, At
<1> QED BY <1>1, LinkFrame DEF LinkInv

(* The same for a request that only changes its place in the handler.      *)
LEMMA GotoLink ==
  ASSUME TypeOK, LinkInv, UrlBounded, NEW p \in Reqs, Busy(p),
         NEW pc \in Labels, Goto(p, pc), UNCHANGED <<link, url, now>>,
         req[p].op # "download" \/ pc # "sign"
  PROVE  LinkInv' /\ UrlBounded'
<1>1. /\ req'[p] = [req[p] EXCEPT !.pc = pc] /\ req[p] \in Requests
      /\ \A q \in Reqs \ {p} : req'[q] = req[q]
  BY BusyType DEF Goto, TypeOK, Busy
<1>2. /\ req'[p].op = req[p].op /\ req'[p].link = req[p].link
      /\ req'[p].since = req[p].since /\ req'[p].pc = pc
  BY <1>1 DEF Requests
<1> QED BY <1>1, <1>2, SameLink

(* The same for a request that ends. *)
LEMMA FinishLink ==
  ASSUME TypeOK, LinkInv, UrlBounded, NEW p \in Reqs, Finish(p),
         UNCHANGED <<link, url, now>>
  PROVE  LinkInv' /\ UrlBounded'
<1>1. req'[p] = Idle /\ \A q \in Reqs \ {p} : req'[q] = req[q]
  BY DEF Finish, TypeOK
<1>2. Linked(p)' BY <1>1 DEF Linked, At, Idle
<1> QED BY <1>1, <1>2, LinkFrame DEF Idle

(* A request that starts makes a link nobody else makes, or uses one that  *)
(* has been made.                                                          *)
LEMMA BeginLink ==
  ASSUME TypeOK, LinkInv, UrlBounded, NEW p \in Reqs, Begin(p)
  PROVE  LinkInv' /\ UrlBounded'
<1> USE DEF traceVars, linkVars
<1>1. ASSUME NEW op, NEW pc, NEW k, NEW l, Start(p, op, pc, k, l), pc # "sign",
             UNCHANGED <<link, url, now>>,
             op = "share" => link[l] = NoLink /\ \A q \in Reqs : req[q].link # l,
             op = "download" => link[l] # NoLink /\ l \in Links
      PROVE  LinkInv' /\ UrlBounded'
  <2>1. /\ req'[p].op = op /\ req'[p].link = l /\ req'[p].pc = pc
        /\ l # None => req'[p].since = now
        /\ \A q \in Reqs \ {p} : req'[q] = req[q]
    BY <1>1 DEF Start, TypeOK
  <2>2. now <= now /\ now <= now + Wait
    BY Numbers, Times
  <2>3. Linked(p)' BY <1>1, <2>1, <2>2, NoneAssumption DEF Linked, At
  <2> QED BY <1>1, <2>1, <2>3, LinkFrame
<1>2. ASSUME NEW k \in Keys, BeginTus(p, k) \/ BeginDelete(p, k) \/ BeginRead(p, k)
      PROVE  LinkInv' /\ UrlBounded'
  BY <1>1, <1>2 DEF BeginTus, BeginDelete, BeginRead
<1>3. ASSUME NEW l \in Links, NEW k \in Keys,
             BeginDownload(p, l) \/ BeginShare(p, l, k)
      PROVE  LinkInv' /\ UrlBounded'
  BY <1>1, <1>3 DEF BeginDownload, BeginShare
<1> QED BY <1>2, <1>3 DEF Begin

(* A link that ends now does so no sooner than the downloads that use it   *)
(* began, and its URLs were signed before.                                 *)
LEMMA EndLinks ==
  ASSUME TypeOK, WorkInv, LinkInv, UrlBounded, UNCHANGED <<req, url, now>>,
         \A l \in Links :
           \/ link'[l] = link[l]
           \/ link[l].state = "live" /\ link'[l] = Ended(link[l])
  PROVE  LinkInv' /\ UrlBounded'
<1>1. ASSUME NEW l \in Links
      PROVE  /\ link[l] = NoLink <=> link'[l] = NoLink
             /\ link'[l].end = link[l].end \/ link'[l].end = now
             /\ link'[l].end <= link[l].end
  <2>1. CASE link'[l] = link[l] BY <2>1, Times
  <2>2. CASE link[l].state = "live" /\ link'[l] = Ended(link[l])
    <3>1. link[l] \in SharedBy BY <2>2 DEF TypeOK, NoLink
    <3>2. /\ link'[l].state = "gone"
          /\ link'[l].end = IF link[l].end < now THEN link[l].end ELSE now
      BY <2>2, <3>1 DEF Ended, SharedBy
    <3> QED BY <2>2, <3>2, Times DEF NoLink
  <2> QED BY <1>1, <2>1, <2>2
<1>2. UrlBounded'
  BY <1>1, Times, Numbers DEF LinkInv, UrlBounded
<1>3. ASSUME NEW p \in Reqs PROVE Linked(p)'
  <2>1. CASE req[p].link \in Links
    BY <1>1, <2>1, Times DEF LinkInv, Linked, At
  <2>2. CASE req[p].op \notin {"share", "download"}
    BY <2>2 DEF Linked, At
  <2> QED BY <2>1, <2>2 DEF WorkInv, Equipped
<1> QED BY <1>2, <1>3 DEF LinkInv

(* Every step keeps links and URLs in order. *)
LEMMA LinkKept ==
  ASSUME TypeOK, WorkInv, LinkInv, UrlBounded, [Next]_vars
  PROVE  LinkInv' /\ UrlBounded'
<1> USE DEF uploadVars, eventVars, cacheVars, linkVars, counters, traceVars
<1>1. ASSUME NEW p \in Reqs, TusStep(p) PROVE LinkInv' /\ UrlBounded'
  <2>1. req[p] \in Requests /\ Busy(p) /\ req[p].op = "tus"
    BY <1>1, BusyType DEF TusStep, TusLoad, TusMake, TusServe, TusNotify, At, Idle, Busy
  <2>2. CASE \E h : req' = [req EXCEPT ![p].handler = h, ![p].pc = "serve"]
    <3>1. PICK h : req' = [req EXCEPT ![p].handler = h, ![p].pc = "serve"] BY <2>2
    <3>2. /\ req'[p] = [req[p] EXCEPT !.handler = h, !.pc = "serve"]
          /\ \A q \in Reqs \ {p} : req'[q] = req[q]
      BY <3>1 DEF TypeOK
    <3>3. req'[p].op = req[p].op /\ req'[p].link = req[p].link
      BY <2>1, <3>2 DEF Requests
    <3>4. UNCHANGED <<link, url, now>>
      BY <1>1 DEF TusStep, TusLoad, TusMake, TusServe, TusNotify
    <3> QED BY <2>1, <3>2, <3>3, <3>4, SameLink
  <2>3. CASE ~ \E h : req' = [req EXCEPT ![p].handler = h, ![p].pc = "serve"]
    BY <1>1, <2>1, <2>3, GotoLink, FinishLink
       DEF TusStep, TusLoad, TusMake, TusServe, TusNotify, Completed, Labels
  <2> QED BY <2>2, <2>3
<1>2. ASSUME NEW p \in Reqs, DeleteStep(p) \/ ReadStep(p)
      PROVE  LinkInv' /\ UrlBounded'
  <2>1. Busy(p) /\ req[p].op # "download"
    BY <1>2 DEF DeleteStep, DeleteCopy, DeleteRemove, DeleteInvalidate,
                ReadStep, ReadLookup, ReadFetch, ReadStore, At, Busy, Idle
  <2> QED BY <1>2, <2>1, GotoLink, FinishLink
          DEF DeleteStep, DeleteCopy, DeleteRemove, DeleteInvalidate,
              ReadStep, ReadLookup, ReadFetch, ReadStore, Labels
<1>3. ASSUME NEW p \in Reqs, ShareHead(p) PROVE LinkInv' /\ UrlBounded'
  <2>1. req[p] \in Requests /\ req[p].op = "share"
    BY <1>3, BusyType DEF ShareHead, At, Idle
  <2>2. CASE Finish(p) BY <1>3, <2>2, FinishLink DEF ShareHead
  <2>3. CASE req' = [req EXCEPT ![p].since = now, ![p].pc = "create"]
    <3>1. /\ req'[p] = [req[p] EXCEPT !.since = now, !.pc = "create"]
          /\ \A q \in Reqs \ {p} : req'[q] = req[q]
      BY <2>3 DEF TypeOK
    <3>2. req'[p].op = "share" /\ req'[p].link = req[p].link
      BY <2>1, <3>1 DEF Requests
    <3> QED BY <1>3, <2>1, <3>1, <3>2, SameLink DEF ShareHead
  <2> QED BY <1>3, <2>2, <2>3 DEF ShareHead
<1>4. ASSUME NEW p \in Reqs, ShareCreate(p) PROVE LinkInv' /\ UrlBounded'
  <2>1. req[p] \in Requests /\ req[p].op = "share" /\ req[p].link \in Links
    BY <1>4, BusyType DEF ShareCreate, At, Idle, WorkInv, Equipped
  <2>2. PICK l \in Links : l = req[p].link BY <2>1
  <2>3. link[l] = NoLink BY <2>1, <2>2 DEF LinkInv, Linked
  <2>4. /\ link'[l] # NoLink /\ link'[l].end \in Nat
        /\ \A m \in Links \ {l} : link'[m] = link[m]
        /\ UNCHANGED <<url, now>>
    BY <1>4, <2>1, <2>2, Numbers DEF ShareCreate, TypeOK, Requests, NoLink
  <2>5. req'[p] = Idle /\ \A q \in Reqs \ {p} : req'[q] = req[q]
    BY <1>4 DEF ShareCreate, Finish, TypeOK
  <2>6. UrlBounded'
    BY <2>3, <2>4, Times, Numbers DEF UrlBounded, NoLink
  <2>7. ASSUME NEW q \in Reqs PROVE Linked(q)'
    <3>1. CASE q = p BY <2>5, <3>1 DEF Linked, At, Idle
    <3>2. CASE q # p /\ req[q].op = "share"
      <4>1. req[q].link \in Links \ {l}
        BY <2>1, <2>2, <3>2 DEF LinkInv, WorkInv, Equipped
      <4> QED BY <2>4, <2>5, <3>2, <4>1 DEF LinkInv, Linked, At
    <3>3. CASE q # p /\ req[q].op = "download"
      <4>1. req[q].link \in Links \ {l}
        BY <2>3, <3>3 DEF LinkInv, Linked, WorkInv, Equipped
      <4> QED BY <2>4, <2>5, <3>3, <4>1 DEF LinkInv, Linked, At
    <3>4. CASE q # p /\ req[q].op \notin {"share", "download"}
      BY <2>5, <3>4 DEF Linked, At
    <3> QED BY <3>1, <3>2, <3>3, <3>4
  <2> QED BY <2>4, <2>5, <2>6, <2>7 DEF LinkInv, Idle
<1>5. ASSUME NEW p \in Reqs, DownloadGet(p) PROVE LinkInv' /\ UrlBounded'
  <2>1. req[p] \in Requests /\ req[p].op = "download" /\ req[p].link \in Links
    BY <1>5, BusyType DEF DownloadGet, At, Idle, WorkInv, Equipped
  <2>2. CASE Finish(p) BY <1>5, <2>2, FinishLink DEF DownloadGet
  <2>3. CASE Good(req[p].link) /\ Goto(p, "sign")
    <3>1. /\ req'[p] = [req[p] EXCEPT !.pc = "sign"]
          /\ \A q \in Reqs \ {p} : req'[q] = req[q]
      BY <2>3 DEF Goto, TypeOK
    <3>2. /\ req'[p].op = req[p].op /\ req'[p].link = req[p].link
          /\ req'[p].since = req[p].since
      BY <2>1, <3>1 DEF Requests
    <3>3. UNCHANGED <<link, url, now>> BY <1>5 DEF DownloadGet
    <3>4. Busy(p) /\ req[p].since <= now /\ now <= link[req[p].link].end
      BY <2>1, <2>3 DEF LinkInv, Linked, Good, Busy, Idle
    <3>5. req[p].since <= link[req[p].link].end
      BY <2>1, <3>4, Times
    <3>6. Linked(p)'
      BY <2>1, <3>2, <3>3, <3>5 DEF LinkInv, Linked, At
    <3> QED BY <2>1, <3>1, <3>2, <3>3, <3>6, LinkFrame
  <2> QED BY <1>5, <2>2, <2>3 DEF DownloadGet
<1>6. ASSUME NEW p \in Reqs, DownloadSign(p) PROVE LinkInv' /\ UrlBounded'
  <2>1. /\ req[p] \in Requests /\ req[p].op = "download" /\ req[p].link \in Links
        /\ At(p, "download", "sign") /\ Busy(p)
    BY <1>6, BusyType DEF DownloadSign, At, Idle, WorkInv, Equipped, Busy
  <2>2. CASE UNCHANGED url BY <1>6, <2>2, FinishLink DEF DownloadSign
  <2>3. CASE url' = [url EXCEPT ![req[p].link] = now + TTL]
    <3>1. /\ req'[p] = Idle /\ \A q \in Reqs \ {p} : req'[q] = req[q]
          /\ UNCHANGED <<link, now>>
      BY <1>6 DEF DownloadSign, Finish, TypeOK
    <3>2. now <= link[req[p].link].end + Wait
      BY <2>1, Times, Numbers DEF LinkInv, Linked
    <3>3. UrlBounded'
      BY <2>1, <2>3, <3>1, <3>2, Times, Numbers DEF UrlBounded, TypeOK
    <3>4. \A l \in Links : url'[l] <= now + TTL
      BY <2>1, <2>3, Times, Numbers DEF LinkInv, TypeOK
    <3>5. \A q \in Reqs : Linked(q)'
      BY <3>1 DEF LinkInv, Linked, At, Idle
    <3> QED BY <3>1, <3>3, <3>4, <3>5 DEF LinkInv, Idle
  <2> QED BY <1>6, <2>2, <2>3 DEF DownloadSign
<1>7. ASSUME NEW l \in Links, Revoke(l) PROVE LinkInv' /\ UrlBounded'
  <2>1. \A m \in Links :
          \/ link'[m] = link[m]
          \/ link[m].state = "live" /\ link'[m] = Ended(link[m])
    BY <1>7 DEF Revoke, TypeOK
  <2> QED BY <1>7, <2>1, EndLinks DEF Revoke
<1>8. ASSUME NEW j \in jobs, RemoveLinks(j) PROVE LinkInv' /\ UrlBounded'
  <2>1. \A m \in Links :
          \/ link'[m] = link[m]
          \/ link[m].state = "live" /\ link'[m] = Ended(link[m])
    BY <1>8 DEF RemoveLinks
  <2> QED BY <1>8, <2>1, EndLinks DEF RemoveLinks
<1>9. CASE Tick
  <2>1. \A p \in Reqs : req[p].op = "download" => now + 1 <= req[p].since + Wait
    BY <1>9, Times, Numbers DEF Tick, Busy, Idle
  <2>2. \A p \in Reqs : req[p].op = "download" => req[p].since <= now + 1
    BY Times DEF LinkInv, Linked, Busy, Idle
  <2>3. \A l \in Links : url[l] <= now + 1 + TTL
    BY Times, Numbers DEF LinkInv
  <2> QED BY <1>9, <2>1, <2>2, <2>3 DEF Tick, LinkInv, Linked, UrlBounded, At
<1>10. CASE Crash
  BY <1>10 DEF Crash, LinkInv, Linked, UrlBounded, At, Idle
<1>11. CASE UNCHANGED <<req, link, url, now>>
  BY <1>11 DEF LinkInv, Linked, UrlBounded, At
<1>12. ASSUME NEW p \in Reqs, Forward(p) PROVE UNCHANGED <<req, link, url, now>>
  BY <1>12 DEF Forward, ForwardInvalidate, ForwardEmit
<1>13. ASSUME \/ \E j \in jobs : EmitDelete(j)
              \/ \E m \in topic : Deliver(m)
              \/ \E k \in Keys : Archive(k) \/ Restore(k)
              \/ \E n \in cache : Expire(n)
       PROVE  UNCHANGED <<req, link, url, now>>
  BY <1>13 DEF EmitDelete, Deliver, Archive, Restore, Move, Expire
<1> QED BY <1>1, <1>2, <1>3, <1>4, <1>5, <1>6, <1>7, <1>8, <1>9, <1>10, <1>11,
           <1>12, <1>13, BeginLink DEF Next, Step, LinkStep, vars

----------------------------------------------------------------------------
(* What is on its way: deletions, announcements, events. *)

(* A deletion that waits to invalidate does so until it takes that step.   *)
LEMMA DeletingKept ==
  ASSUME NEW p \in Reqs, \A q \in Reqs \ {p} : req'[q] = req[q],
         ~ At(p, "delete", "invalidate"), NEW k, Deleting(k)
  PROVE  Deleting(k)'
BY DEF Deleting, At

(* A step with a fault makes the premise of the properties false.          *)
LEMMA FaultCounts ==
  ASSUME TypeOK, NEW call, Fault(call)
  PROVE  faults' # 0
BY Numbers DEF Fault, TypeOK

(* The requests of the other slots are not touched by a step of a slot.    *)
LEMMA OthersStay ==
  ASSUME TypeOK, NEW p \in Reqs, Begin(p) \/ Step(p)
  PROVE  \A q \in Reqs \ {p} : req'[q] = req[q]
<1>1. CASE Begin(p)
  BY <1>1 DEF Begin, BeginTus, BeginDelete, BeginRead, BeginDownload, BeginShare,
              Start, TypeOK
<1>2. CASE TusStep(p)
  BY <1>2 DEF TusStep, TusLoad, TusMake, TusServe, TusNotify, Completed, Goto,
              Finish, TypeOK
<1>3. CASE DeleteStep(p)
  BY <1>3 DEF DeleteStep, DeleteCopy, DeleteRemove, DeleteInvalidate, Goto,
              Finish, TypeOK
<1>4. CASE ReadStep(p)
  BY <1>4 DEF ReadStep, ReadLookup, ReadFetch, ReadStore, Goto, Finish, TypeOK
<1>5. CASE LinkStep(p)
  BY <1>5 DEF LinkStep, ShareHead, ShareCreate, DownloadGet, DownloadSign, Goto,
              Finish, TypeOK
<1> QED BY <1>1, <1>2, <1>3, <1>4, <1>5 DEF Step

(* No step but the invalidation itself, and a crash, ends the wait of a    *)
(* deletion.                                                               *)
LEMMA DeletingEnds ==
  ASSUME TypeOK, [Next]_vars, ~ Crash, NEW k, Deleting(k),
         \A p \in Reqs : ~ DeleteInvalidate(p)
  PROVE  Deleting(k)'
<1>1. CASE \E p \in Reqs : Begin(p) \/ Step(p)
  <2>1. PICK p \in Reqs : Begin(p) \/ Step(p) BY <1>1
  <2>2. ~ At(p, "delete", "invalidate")
    <3>1. CASE Begin(p)
      BY <3>1 DEF Begin, BeginTus, BeginDelete, BeginRead, BeginDownload,
                  BeginShare, Start, Busy, At, Idle
    <3>2. CASE Step(p)
      BY <3>2 DEF Step, TusStep, TusLoad, TusMake, TusServe, TusNotify, DeleteStep,
                  DeleteCopy, DeleteRemove, ReadStep, ReadLookup, ReadFetch,
                  ReadStore, LinkStep, ShareHead, ShareCreate, DownloadGet,
                  DownloadSign, At
    <3> QED BY <2>1, <3>1, <3>2
  <2> QED BY <2>1, <2>2, OthersStay, DeletingKept
<1>2. CASE UNCHANGED req
  BY <1>2 DEF Deleting, At
<1>3. ASSUME ~ \E p \in Reqs : Begin(p) \/ Step(p)
      PROVE  UNCHANGED req
  BY <1>3 DEF Next, Forward, ForwardInvalidate, ForwardEmit, EmitDelete, RemoveLinks,
              Deliver, Archive, Restore, Move, Expire, Revoke, Tick, vars
<1> QED BY <1>1, <1>2, <1>3

----------------------------------------------------------------------------
(* What follows the deletion of a file. *)

(* The job that removes the links of k has not run. *)
Unremoved(k) == \E j \in jobs : j.job = "links" /\ j.key = k

(* A deletion moves its file to the trash, and is then known to do so.     *)
LEMMA RemoveDeletes ==
  ASSUME TypeOK, WorkInv, NEW p \in Reqs, DeleteRemove(p)
  PROVE  \E k \in Keys : file' = [file EXCEPT ![k] = "trash"] /\ Deleting(k)'
<1>1. req[p] \in Requests /\ req[p].key \in Keys /\ req[p].op = "delete"
  BY BusyType DEF DeleteRemove, At, Idle, WorkInv, Equipped, Busy
<1>2. PICK k \in Keys : k = req[p].key BY <1>1
<1>3. req'[p] = [req[p] EXCEPT !.pc = "invalidate"]
  BY DEF DeleteRemove, Goto, TypeOK
<1>4. req'[p].op = "delete" /\ req'[p].pc = "invalidate" /\ req'[p].key = k
  BY <1>1, <1>2, <1>3 DEF Requests
<1> QED BY <1>2, <1>4 DEF DeleteRemove, Deleting, At

(* A deletion that invalidates leaves its two jobs behind, and, unless     *)
(* Redis fails, nothing in the cache.                                      *)
LEMMA InvalidateLeaves ==
  ASSUME TypeOK, NEW p \in Reqs, DeleteInvalidate(p), NEW k, Deleting(k)
  PROVE  \/ Deleting(k)'
         \/ /\ Unremoved(k)'
            /\ \E j \in jobs' : j.job = "emit" /\ j.key = k
            /\ ObjectKey(k) \notin cache' \/ faults' # 0
<1>1. PICK q \in Reqs : At(q, "delete", "invalidate") /\ req[q].key = k
  BY DEF Deleting
<1>2. CASE q # p
  <2>1. req'[q] = req[q] BY <1>2 DEF DeleteInvalidate, Finish, TypeOK
  <2> QED BY <1>1, <2>1 DEF Deleting, At
<1>3. CASE q = p
  <2>1. ObjectKey(k) \notin cache' \/ faults' # 0
    BY <1>1, <1>3, FaultCounts DEF DeleteInvalidate, Invalidate
  <2>2. [job |-> "links", key |-> k, id |-> req[p].id] \in jobs'
        /\ [job |-> "emit", key |-> k, id |-> req[p].id] \in jobs'
    BY <1>1, <1>3 DEF DeleteInvalidate, Cleanups
  <2> QED BY <2>1, <2>2 DEF Unremoved
<1> QED BY <1>2, <1>3

(* Failures are not forgotten. *)
LEMMA FaultsStay ==
  ASSUME TypeOK, [Next]_vars, faults' = 0
  PROVE  faults = 0
<1>1. ASSUME NEW call, Fault(call) PROVE FALSE BY <1>1, FaultCounts
<1> USE DEF counters, traceVars
<1>2. ASSUME NEW p \in Reqs, Begin(p) PROVE faults' = faults
  BY <1>2 DEF Begin, BeginTus, BeginDelete, BeginRead, BeginDownload, BeginShare, Start
<1>3. ASSUME NEW p \in Reqs, TusStep(p) \/ Forward(p) PROVE faults' = faults
  BY <1>1, <1>3 DEF TusStep, TusLoad, TusMake, TusServe, TusNotify, Forward,
                    ForwardInvalidate, ForwardEmit, Invalidate, Emit, NoFault
<1>4. ASSUME NEW p \in Reqs, DeleteStep(p) \/ ReadStep(p) PROVE faults' = faults
  BY <1>1, <1>4 DEF DeleteStep, DeleteCopy, DeleteRemove, DeleteInvalidate,
                    Invalidate, ReadStep, ReadLookup, ReadFetch, ReadStore, NoFault
<1>5. ASSUME NEW p \in Reqs, LinkStep(p) PROVE faults' = faults
  BY <1>5 DEF LinkStep, ShareHead, ShareCreate, DownloadGet, DownloadSign
<1>6. ASSUME NEW j \in jobs, EmitDelete(j) \/ RemoveLinks(j) PROVE faults' = faults
  BY <1>1, <1>6 DEF EmitDelete, RemoveLinks, Emit, NoFault
<1>7. ASSUME \/ \E m \in topic : Deliver(m)
             \/ \E k \in Keys : Archive(k) \/ Restore(k)
             \/ \E n \in cache : Expire(n)
             \/ \E l \in Links : Revoke(l)
             \/ Tick
      PROVE  faults' = faults
  BY <1>7 DEF Deliver, Archive, Restore, Move, Expire, Revoke, Tick
<1>8. CASE UNCHANGED vars BY <1>8 DEF vars
<1> QED BY <1>1, <1>2, <1>3, <1>4, <1>5, <1>6, <1>7, <1>8 DEF Next, Step, Crash

(* When nothing fails, what is said about the links of a file whose        *)
(* deletion is under way or has left its job behind stays said until the   *)
(* job has run: the steps that change links, jobs or files one by one.     *)
LEMMA LinksStep ==
  ASSUME TypeOK, WorkInv, LinksFollow, [Next]_vars
  PROVE  LinksFollow'
<1> DEFINE Removed(l) == /\ link[l].state = "live"
                         /\ file[link[l].key] = "trash"
                         /\ l \notin raced
                         => Unremoved(link[l].key) \/ Deleting(link[l].key)
<1> SUFFICES ASSUME faults' = 0, NEW l \in Links PROVE Removed(l)'
  BY DEF LinksFollow, Unremoved
<1> USE DEF uploadVars, eventVars, cacheVars, linkVars, counters, traceVars
<1>1. ~ Crash BY FaultCounts DEF Crash
<1>2. Removed(l) BY FaultsStay DEF LinksFollow, Unremoved
<1>3. link[l].state = "live" => link[l].key \in Keys
  BY DEF TypeOK, SharedBy, NoLink
<1>4. ASSUME NEW p \in Reqs, DeleteInvalidate(p) PROVE Removed(l)'
  <2>1. UNCHANGED <<link, file, raced>> /\ jobs \subseteq jobs'
    BY <1>4 DEF DeleteInvalidate
  <2>2. Unremoved(link[l].key) => Unremoved(link[l].key)'
    BY <2>1 DEF Unremoved
  <2> QED BY <1>2, <1>4, <2>1, <2>2, InvalidateLeaves DEF Unremoved, Deleting, At
<1>5. PICK key : key = link[l].key OBVIOUS
<1>6. ASSUME NEW p \in Reqs, DeleteRemove(p) PROVE Removed(l)'
  <2>1. PICK k \in Keys : file' = [file EXCEPT ![k] = "trash"] /\ Deleting(k)'
    BY <1>6, RemoveDeletes
  <2>2. UNCHANGED <<link, raced, jobs>> BY <1>6 DEF DeleteRemove
  <2>3. CASE key = k BY <1>5, <2>1, <2>2, <2>3
  <2>4. CASE key # k
    <3>1. Deleting(key) => Deleting(key)'
      <4>1. ~ At(p, "delete", "invalidate") BY <1>6 DEF DeleteRemove, At
      <4> QED BY <1>6, <4>1, OthersStay, DeletingKept DEF Step, DeleteStep
    <3>2. Unremoved(key) => Unremoved(key)' BY <2>2 DEF Unremoved
    <3>3. key \in Keys => file'[key] = file[key] BY <2>1, <2>4 DEF TypeOK
    <3> QED BY <1>2, <1>3, <1>5, <2>2, <3>1, <3>2, <3>3
  <2> QED BY <2>3, <2>4
<1>7. ASSUME \A p \in Reqs : ~ DeleteRemove(p) /\ ~ DeleteInvalidate(p),
             link'[l] = link[l], raced' = raced, Unremoved(key) => Unremoved(key)'
      PROVE  Removed(l)'
  <2>1. key \in Keys /\ file'[key] = "trash" => file[key] = "trash"
    BY <1>7, FileMoves DEF TypeOK
  <2>2. Deleting(key) => Deleting(key)' BY <1>1, <1>7, DeletingEnds
  <2> QED BY <1>2, <1>3, <1>5, <1>7, <2>1, <2>2
<1>8. ASSUME NEW p \in Reqs, ShareCreate(p) PROVE Removed(l)'
  <2>1. req[p].link \in Links /\ UNCHANGED <<file, jobs>>
    BY <1>8 DEF ShareCreate, At, WorkInv, Equipped
  <2>2. CASE l = req[p].link
    BY <1>8, <2>1, <2>2 DEF ShareCreate, TypeOK
  <2>3. CASE l # req[p].link
    <3>1. /\ link'[l] = link[l] /\ (l \in raced' <=> l \in raced)
          /\ Unremoved(key) => Unremoved(key)'
      BY <1>8, <2>1, <2>3 DEF ShareCreate, TypeOK, Unremoved
    <3>2. ~ At(p, "delete", "invalidate") BY <1>8 DEF ShareCreate, At
    <3>3. Deleting(key) => Deleting(key)'
      BY <1>8, <3>2, OthersStay, DeletingKept DEF Step, LinkStep
    <3> QED BY <1>2, <1>5, <2>1, <3>1, <3>3
  <2> QED BY <2>2, <2>3
<1>9. ASSUME NEW j \in jobs, RemoveLinks(j) PROVE Removed(l)'
  <2>1. /\ j.job = "links" /\ jobs' = jobs \ {j} /\ UNCHANGED <<file, raced, req>>
        /\ link' = [m \in Links |->
                      IF link[m].state = "live" /\ link[m].key = j.key
                      THEN Ended(link[m]) ELSE link[m]]
    BY <1>9, FaultCounts DEF RemoveLinks
  <2>2. CASE link[l].state = "live" /\ key = j.key
    <3>1. link[l] \in SharedBy BY <2>2 DEF TypeOK, NoLink
    <3> QED BY <1>5, <2>1, <2>2, <3>1 DEF Ended, SharedBy
  <2>3. CASE ~ (link[l].state = "live" /\ key = j.key)
    <3>1. link'[l] = link[l] BY <1>5, <2>1, <2>3
    <3>2. link[l].state = "live" /\ Unremoved(key) => Unremoved(key)'
      BY <2>1, <2>3 DEF Unremoved
    <3>3. Deleting(key) => Deleting(key)' BY <2>1 DEF Deleting, At
    <3> QED BY <1>2, <1>5, <2>1, <3>1, <3>2, <3>3
  <2> QED BY <2>2, <2>3
<1>10. ASSUME NEW m \in Links, Revoke(m) PROVE Removed(l)'
  <2>1. link[m] \in SharedBy BY <1>10 DEF Revoke, TypeOK, NoLink
  <2>2. CASE l = m
    BY <1>10, <2>1, <2>2 DEF Revoke, TypeOK, Ended, SharedBy
  <2>3. CASE l # m
    <3>1. link'[l] = link[l] /\ UNCHANGED <<file, raced, req, jobs>>
      BY <1>10, <2>3 DEF Revoke, TypeOK
    <3>2. Deleting(key) => Deleting(key)' BY <3>1 DEF Deleting, At
    <3> QED BY <1>2, <1>5, <3>1, <3>2 DEF Unremoved
  <2> QED BY <2>2, <2>3
<1>11. ASSUME NEW j \in jobs, EmitDelete(j)
       PROVE  UNCHANGED <<link, raced>> /\ (Unremoved(key) => Unremoved(key)')
  BY <1>11 DEF EmitDelete, Unremoved
<1>12. ASSUME UNCHANGED <<link, raced, jobs>>
       PROVE  UNCHANGED <<link, raced>> /\ (Unremoved(key) => Unremoved(key)')
  BY <1>12 DEF Unremoved
<1>13. ASSUME NEW p \in Reqs, Begin(p) \/ Forward(p) \/ Step(p),
              ~ ShareCreate(p), ~ DeleteInvalidate(p)
       PROVE  UNCHANGED <<link, raced, jobs>>
  BY <1>13 DEF Begin, BeginTus, BeginDelete, BeginRead, BeginDownload, BeginShare,
       Forward, ForwardInvalidate, ForwardEmit, Step, TusStep, TusLoad, TusMake,
       TusServe, TusNotify, DeleteStep, DeleteCopy, DeleteRemove, ReadStep,
       ReadLookup, ReadFetch, ReadStore, LinkStep, ShareHead, DownloadGet, DownloadSign
<1>14. ASSUME \/ \E m \in topic : Deliver(m)
              \/ \E k \in Keys : Archive(k) \/ Restore(k)
              \/ \E n \in cache : Expire(n)
              \/ Tick \/ UNCHANGED vars
       PROVE  UNCHANGED <<link, raced, jobs>>
  BY <1>14 DEF Deliver, Archive, Restore, Move, Expire, Tick, vars
<1> QED BY <1>1, <1>4, <1>6, <1>7, <1>8, <1>9, <1>10, <1>11, <1>12, <1>13, <1>14
        DEF Next

(* When nothing fails, what the cache holds of a file that is being deleted*)
(* goes with the deletion.                                                 *)
LEMMA CacheStep ==
  ASSUME TypeOK, WorkInv, CacheFollows, [Next]_vars
  PROVE  CacheFollows'
<1> DEFINE Apart(k) == file[k] # "trash" \/ Deleting(k)
<1> SUFFICES ASSUME faults' = 0, NEW k \in Keys, ObjectKey(k) \in cache' \ late'
             PROVE  Apart(k)'
  BY DEF CacheFollows
<1> USE DEF uploadVars, eventVars, cacheVars, linkVars, counters, traceVars
<1>1. ~ Crash BY FaultCounts DEF Crash
<1>3. ObjectKey(k) \in cache \ late => Apart(k)
  BY FaultsStay DEF CacheFollows
<1>4. ASSUME NEW p \in Reqs, DeleteInvalidate(p)
      PROVE  Apart(k)'
  <2>1. ObjectKey(k) \in cache \ late /\ file' = file
    BY <1>4, FaultCounts DEF DeleteInvalidate, Invalidate
  <2> QED BY <1>3, <1>4, <2>1, InvalidateLeaves
<1>5. ASSUME NEW p \in Reqs, DeleteRemove(p)
      PROVE  Apart(k)'
  <2>1. PICK j \in Keys : file' = [file EXCEPT ![j] = "trash"] /\ Deleting(j)'
    BY <1>5, RemoveDeletes
  <2>2. ObjectKey(k) \in cache \ late /\ ~ At(p, "delete", "invalidate")
    BY <1>5 DEF DeleteRemove, At
  <2>3. Deleting(k) => Deleting(k)'
    BY <1>5, <2>2, OthersStay, DeletingKept DEF Step, DeleteStep
  <2> QED BY <1>3, <2>1, <2>2, <2>3 DEF TypeOK
<1>6. ASSUME \A p \in Reqs : ~ DeleteRemove(p) /\ ~ DeleteInvalidate(p),
             ObjectKey(k) \in cache \ late
      PROVE  Apart(k)'
  <2>1. file[k] # "trash" => file'[k] # "trash"
    BY <1>6, FileMoves DEF TypeOK
  <2>2. Deleting(k) => Deleting(k)' BY <1>1, <1>6, DeletingEnds
  <2> QED BY <1>3, <1>6, <2>1, <2>2
<1>7. ASSUME NEW p \in Reqs, ReadStore(p)
      PROVE  ObjectKey(k) \in cache \ late \/ file'[k] # "trash"
  BY <1>7 DEF ReadStore, ObjectKey
<1>8. ASSUME NEW p \in Reqs, ForwardInvalidate(p) PROVE ObjectKey(k) \in cache \ late
  BY <1>8, FaultCounts DEF ForwardInvalidate, Invalidate
<1>9. ASSUME NEW n \in cache, Expire(n) PROVE ObjectKey(k) \in cache \ late
  BY <1>9 DEF Expire
<1>10. CASE UNCHANGED cacheVars
  BY <1>10, <1>4, <1>5, <1>6
<1>11. ASSUME NEW p \in Reqs, Begin(p) \/ Forward(p) \/ Step(p),
              ~ ReadStore(p), ~ DeleteInvalidate(p), ~ ForwardInvalidate(p)
       PROVE  UNCHANGED cacheVars
  BY <1>11 DEF Begin, BeginTus, BeginDelete, BeginRead, BeginDownload, BeginShare,
       Forward, ForwardEmit, Step, TusStep, TusLoad, TusMake,
       TusServe, TusNotify, DeleteStep, DeleteCopy, DeleteRemove, ReadStep,
       ReadLookup, ReadFetch, LinkStep, ShareHead, ShareCreate, DownloadGet,
       DownloadSign
<1>12. ASSUME \/ \E j \in jobs : EmitDelete(j) \/ RemoveLinks(j)
              \/ \E m \in topic : Deliver(m)
              \/ \E j \in Keys : Archive(j) \/ Restore(j)
              \/ \E l \in Links : Revoke(l)
              \/ Tick \/ UNCHANGED vars
       PROVE  UNCHANGED cacheVars
  BY <1>12 DEF EmitDelete, RemoveLinks, Deliver, Archive, Restore, Move, Revoke, Tick, vars
<1> QED BY <1>1, <1>4, <1>5, <1>6, <1>7, <1>8, <1>9, <1>10, <1>11, <1>12 DEF Next

----------------------------------------------------------------------------
(* Events and the index. *)

(* What the three invariants of events and index say of one file. *)
Traced(k) ==
  /\ Unindexed(k) \/ UploadID(k) \in indexed => file[k] # "none"
  /\ faults = 0 =>
       /\ file[k] # "none" => UploadID(k) \in indexed \/ Unindexed(k)
       /\ file[k] = "trash" /\ ObjectKey(k) \notin told => Undeleted(k)

(* Together that is all they say.                                          *)
LEMMA TracedAll ==
  EventInv /\ IndexComplete /\ DeletionsTold <=> \A k \in Keys : Traced(k)
<1>1. ASSUME NEW k \in Keys, file[k] = "active" PROVE file[k] # "none" BY <1>1
<1> QED BY <1>1 DEF EventInv, IndexComplete, DeletionsTold, Traced

(* Events that stay on their way keep what is said of a file.              *)
LEMMA TracedFrame ==
  ASSUME NEW k \in Keys, Traced(k), file'[k] = file[k],
         UploadID(k) \in indexed' <=> UploadID(k) \in indexed,
         ObjectKey(k) \in told => ObjectKey(k) \in told',
         faults' = 0 => faults = 0,
         Unindexed(k)' <=> Unindexed(k), Undeleted(k) => Undeleted(k)'
  PROVE  Traced(k)'
BY DEF Traced

(* Events that are lost take a failure. *)
LEMMA TracedLoss ==
  ASSUME NEW k \in Keys, Traced(k), file'[k] = file[k],
         UploadID(k) \in indexed' => UploadID(k) \in indexed, faults' # 0,
         Unindexed(k)' => Unindexed(k)
  PROVE  Traced(k)'
BY DEF Traced

(* The request of one slot moves on without an announcement or a deletion. *)
LEMMA SameEvents ==
  ASSUME NEW p \in Reqs, \A q \in Reqs \ {p} : req'[q] = req[q], UNCHANGED topic,
         \A h \in Reqs : forwarder'[h].key = forwarder[h].key,
         \A j : j.job = "emit" => (j \in jobs' <=> j \in jobs),
         ~ At(p, "tus", "notify"), ~ At(p, "tus", "notify")',
         ~ At(p, "delete", "invalidate"), ~ At(p, "delete", "invalidate")', NEW k
  PROVE  /\ Unindexed(k)' <=> Unindexed(k)
         /\ Undeleted(k)' <=> Undeleted(k)
<1>1. Announcing(k)' <=> Announcing(k) BY DEF Announcing, At
<1>2. Deleting(k)' <=> Deleting(k) BY DEF Deleting, At
<1> QED BY <1>1, <1>2 DEF Unindexed, Undeleted

(* The steps of a TUS request and of the goroutine that listens to it.     *)
LEMMA UploadEvents ==
  ASSUME TypeOK, WorkInv, NEW p \in Reqs, TusStep(p) \/ Forward(p),
         NEW k \in Keys, Traced(k)
  PROVE  Traced(k)'
<1> USE DEF uploadVars, eventVars, cacheVars, linkVars, counters, traceVars
<1>0. k # None BY NoneAssumption
<1>1. CASE TusLoad(p)
  <2>1. ~ At(p, "tus", "notify") /\ ~ At(p, "delete", "invalidate")
    BY <1>1 DEF TusLoad, At
  <2>2. req[p] \in Requests /\ req[p].op = "tus"
    BY <1>1, BusyType DEF TusLoad, At, Idle
  <2>3. req'[p].pc \in {"make", "serve"}
    BY <1>1, <2>2 DEF TusLoad, Goto, TypeOK, Requests
  <2>4. ~ At(p, "tus", "notify")' /\ ~ At(p, "delete", "invalidate")'
    BY <2>3 DEF At
  <2> QED BY <1>1, <2>1, <2>4, OthersStay, SameEvents, TracedFrame
          DEF TusLoad, Step, TusStep
<1>2. CASE TusMake(p)
  <2>1. ~ At(p, "tus", "notify") /\ ~ At(p, "delete", "invalidate")
    BY <1>2 DEF TusMake, At
  <2>2. req[p] \in Requests BY <1>2, BusyType DEF TusMake, At, Idle
  <2>3. req'[p].pc = "serve"
    BY <1>2, <2>2 DEF TusMake, TypeOK, Requests
  <2>4. ~ At(p, "tus", "notify")' /\ ~ At(p, "delete", "invalidate")'
    BY <2>3 DEF At
  <2>5. \A h \in Reqs : forwarder'[h].key = forwarder[h].key
    <3>1. stored = None => forwarder[p] = Off BY NoneAssumption DEF TypeOK
    <3> QED BY <1>2, <3>1 DEF TusMake, Listening, TypeOK, Off, Reading
  <2> QED BY <1>2, <2>1, <2>4, <2>5, OthersStay, SameEvents, TracedFrame
          DEF TusMake, Step, TusStep
<1>3. CASE TusServe(p)
  <2>1. ~ At(p, "tus", "notify") /\ ~ At(p, "delete", "invalidate")
    BY <1>3 DEF TusServe, At
  <2>2. req[p] \in Requests /\ req[p].key \in Keys
    BY <1>3, BusyType DEF TusServe, At, Idle, WorkInv, Equipped, Busy
  <2>3. CASE Finish(p) /\ UNCHANGED file
    <3>1. ~ At(p, "tus", "notify")' /\ ~ At(p, "delete", "invalidate")'
      BY <2>3 DEF At, Finish, TypeOK, Idle
    <3> QED BY <1>3, <2>1, <2>3, <3>1, OthersStay, SameEvents, TracedFrame
            DEF TusServe, Step, TusStep
  <2>4. CASE Goto(p, "notify") /\ file[req[p].key] = "none"
             /\ file' = [file EXCEPT ![req[p].key] = "active"]
    <3>1. /\ req'[p].op = "tus" /\ req'[p].pc = "notify" /\ req'[p].key = req[p].key
          /\ \A q \in Reqs \ {p} : req'[q] = req[q]
      BY <1>3, <2>2, <2>4 DEF Goto, TypeOK, Requests, TusServe, At
    <3>2. UNCHANGED <<topic, jobs, forwarder, indexed, told, faults>>
      BY <1>3 DEF TusServe
    <3>3. Undeleted(k)' <=> Undeleted(k)
      <4>1. Deleting(k)' <=> Deleting(k) BY <2>1, <3>1 DEF Deleting, At
      <4> QED BY <3>2, <4>1 DEF Undeleted
    <3>4. CASE k = req[p].key
      <4>1. Unindexed(k)' BY <3>1, <3>4 DEF Unindexed, Announcing, At
      <4> QED BY <2>4, <3>2, <3>3, <3>4, <4>1 DEF Traced, TypeOK
    <3>5. CASE k # req[p].key
      <4>1. Unindexed(k)' <=> Unindexed(k)
        <5>1. Announcing(k)' <=> Announcing(k) BY <2>1, <3>1, <3>5 DEF Announcing, At
        <5> QED BY <3>2, <5>1 DEF Unindexed
      <4> QED BY <2>4, <3>2, <3>3, <3>5, <4>1, TracedFrame DEF TypeOK
    <3> QED BY <3>4, <3>5
  <2> QED BY <1>3, <2>3, <2>4 DEF TusServe, Completed
<1>4. CASE TusNotify(p)
  <2>1. req[p].handler = stored /\ stored \in Reqs /\ req[p].op = "tus"
    BY <1>4 DEF TusNotify, At, WorkInv, Equipped, TypeOK
  <2>2. PICK h \in Reqs : h = req[p].handler BY <2>1
  <2>3. /\ forwarder[h].key = None /\ forwarder'[h].key = req[p].key
        /\ \A g \in Reqs \ {h} : forwarder'[g] = forwarder[g]
        /\ req'[p] = Idle /\ \A q \in Reqs \ {p} : req'[q] = req[q]
        /\ UNCHANGED <<topic, jobs, file, indexed, told, faults>>
    BY <1>4, <2>2 DEF TusNotify, Finish, TypeOK, Reading
  <2>4. Undeleted(k)' <=> Undeleted(k)
    <3>1. Deleting(k)' <=> Deleting(k) BY <2>1, <2>3 DEF Deleting, At, Idle
    <3> QED BY <2>3, <3>1 DEF Undeleted
  <2>5. Unindexed(k)' <=> Unindexed(k)
    <3>1. Announcing(k)' => Announcing(k) BY <2>3 DEF Announcing, At, Idle
    <3>2. Announcing(k) => Announcing(k)' \/ forwarder'[h].key = k
      BY <2>3 DEF Announcing, At
    <3>3. At(p, "tus", "notify") BY <1>4 DEF TusNotify
    <3>4. ASSUME NEW g \in Reqs, forwarder'[g].key = k PROVE Unindexed(k)
      BY <2>3, <3>3, <3>4 DEF Unindexed, Announcing
    <3>5. ASSUME NEW g \in Reqs, forwarder[g].key = k PROVE Unindexed(k)'
      BY <1>0, <2>3, <3>5 DEF Unindexed
    <3>6. topic' = topic BY <2>3
    <3>7. Unindexed(k)' => Unindexed(k)
      BY <3>1, <3>4, <3>6 DEF Unindexed
    <3>8. Unindexed(k) => Unindexed(k)'
      BY <3>2, <3>5, <3>6 DEF Unindexed
    <3> QED BY <3>7, <3>8
  <2> QED BY <2>3, <2>4, <2>5, TracedFrame
<1>5. CASE ForwardInvalidate(p)
  <2>1. forwarder[p] \in Announced
    BY <1>5 DEF ForwardInvalidate, TypeOK, Off, Reading
  <2>2. \A h \in Reqs : forwarder'[h].key = forwarder[h].key
    BY <1>5, <2>1 DEF ForwardInvalidate, TypeOK, Announced
  <2>3. UNCHANGED <<topic, jobs, req, file, indexed, told>>
    BY <1>5 DEF ForwardInvalidate
  <2>4. faults' = 0 => faults = 0
    BY <1>5, FaultCounts DEF ForwardInvalidate, Invalidate, NoFault
  <2>5. Unindexed(k)' <=> Unindexed(k)
    BY <2>2, <2>3 DEF Unindexed, Announcing, At
  <2>6. Undeleted(k)' <=> Undeleted(k) BY <2>3 DEF Undeleted, Deleting, At
  <2> QED BY <2>3, <2>4, <2>5, <2>6, TracedFrame
<1>6. CASE ForwardEmit(p)
  <2>1. forwarder[p] \in Announced
    BY <1>6 DEF ForwardEmit, TypeOK, Off, Reading
  <2>2. /\ forwarder'[p].key = None
        /\ \A g \in Reqs \ {p} : forwarder'[g] = forwarder[g]
        /\ UNCHANGED <<jobs, req, file, indexed, told>>
    BY <1>6 DEF ForwardEmit, TypeOK, Reading
  <2>3. Announcing(k)' <=> Announcing(k) BY <2>2 DEF Announcing, At
  <2>4. CASE topic' = topic \cup
               {[action |-> "index", key |-> UploadID(forwarder[p].key), id |-> 0]}
             /\ NoFault
    <3>1. Undeleted(k) => Undeleted(k)'
      BY <2>2, <2>4 DEF Undeleted, Deleting, At
    <3>2. Unindexed(k)' => Unindexed(k)
      <4>1. ASSUME NEW m \in topic', m.action = "index", m.key = UploadID(k)
            PROVE  Unindexed(k)
        <5>1. CASE m \in topic BY <4>1, <5>1 DEF Unindexed
        <5>2. CASE m \notin topic
          <6>1. m.key = UploadID(forwarder[p].key) BY <2>4, <4>1, <5>2
          <6>2. UploadID(forwarder[p].key) = UploadID(k) BY <4>1, <6>1
          <6>3. forwarder[p].key = k BY <6>2, NamesDiffer
          <6> QED BY <6>3 DEF Unindexed
        <5> QED BY <5>1, <5>2
      <4> QED BY <1>0, <2>2, <2>3, <4>1 DEF Unindexed
    <3>3. Unindexed(k) => Unindexed(k)'
      <4>1. ASSUME forwarder[p].key = k
            PROVE  \E m \in topic' : m.action = "index" /\ m.key = UploadID(k)
        <5>1. [action |-> "index", key |-> UploadID(k), id |-> 0] \in topic'
          BY <2>4, <4>1
        <5> QED BY <5>1
      <4> QED BY <2>2, <2>3, <2>4, <4>1 DEF Unindexed
    <3> QED BY <2>2, <2>4, <3>1, <3>2, <3>3, TracedFrame DEF NoFault
  <2>5. CASE UNCHANGED topic /\ Fault("emit")
    <3>1. Unindexed(k)' => Unindexed(k)
      BY <1>0, <2>2, <2>3, <2>5 DEF Unindexed
    <3> QED BY <2>2, <2>5, <3>1, FaultCounts, TracedLoss
  <2> QED BY <1>6, <2>4, <2>5 DEF ForwardEmit, Emit
<1> QED BY <1>1, <1>2, <1>3, <1>4, <1>5, <1>6 DEF TusStep, Forward

(* The steps of a deletion. *)
LEMMA DeleteEvents ==
  ASSUME TypeOK, WorkInv, NEW p \in Reqs, DeleteStep(p), NEW k \in Keys, Traced(k)
  PROVE  Traced(k)'
<1> USE DEF uploadVars, eventVars, cacheVars, linkVars, counters, traceVars
<1>0. req[p] \in Requests /\ req[p].key \in Keys /\ req[p].op = "delete"
  BY BusyType DEF DeleteStep, DeleteCopy, DeleteRemove, DeleteInvalidate, At, Idle,
                  WorkInv, Equipped, Busy
<1>1. \A q \in Reqs \ {p} : req'[q] = req[q] BY OthersStay DEF Step
<1>2. CASE DeleteCopy(p)
  <2>1. ~ At(p, "tus", "notify") /\ ~ At(p, "delete", "invalidate")
    BY <1>2 DEF DeleteCopy, At
  <2>2. req'[p].pc \in {"remove", "idle"}
    BY <1>0, <1>2 DEF DeleteCopy, Goto, Finish, Idle, TypeOK, Requests
  <2>3. ~ At(p, "tus", "notify")' /\ ~ At(p, "delete", "invalidate")'
    BY <2>2 DEF At
  <2> QED BY <1>1, <1>2, <2>1, <2>3, SameEvents, TracedFrame DEF DeleteCopy
<1>3. CASE DeleteRemove(p)
  <2>1. PICK j \in Keys : j = req[p].key BY <1>0
  <2>2. req'[p].op = "delete" /\ req'[p].pc = "invalidate" /\ req'[p].key = j
    BY <1>0, <1>3, <2>1 DEF DeleteRemove, Goto, TypeOK, Requests
  <2>3. /\ file' = [file EXCEPT ![j] = "trash"] /\ told' = told \ {ObjectKey(j)}
        /\ UNCHANGED <<topic, jobs, forwarder, indexed, faults>>
    BY <1>3, <2>1 DEF DeleteRemove
  <2>4. req[p].pc = "remove" BY <1>3 DEF DeleteRemove, At
  <2>5. Unindexed(k)' <=> Unindexed(k)
    <3>1. Announcing(k)' <=> Announcing(k) BY <1>0, <1>1, <2>2 DEF Announcing, At
    <3> QED BY <2>3, <3>1 DEF Unindexed
  <2>6. CASE k = j
    <3>1. Undeleted(k)' BY <2>2, <2>6 DEF Undeleted, Deleting, At
    <3>2. file[k] # "none" /\ file'[k] = "trash"
      BY <1>0, <2>1, <2>3, <2>6 DEF WorkInv, Equipped, TypeOK
    <3> QED BY <2>3, <2>5, <3>1, <3>2 DEF Traced
  <2>7. CASE k # j
    <3>1. Undeleted(k)' <=> Undeleted(k)
      <4>1. Deleting(k)' <=> Deleting(k)
        BY <1>1, <2>2, <2>4, <2>7 DEF Deleting, At
      <4> QED BY <2>3, <4>1 DEF Undeleted
    <3>2. ObjectKey(k) \in told => ObjectKey(k) \in told'
      <4>1. told' = told \ {ObjectKey(j)} BY <2>3
      <4>2. ObjectKey(k) # ObjectKey(j) BY <2>7, NamesDiffer
      <4> QED BY <4>1, <4>2
    <3> QED BY <2>3, <2>5, <2>7, <3>1, <3>2, TracedFrame DEF TypeOK
  <2> QED BY <2>6, <2>7
<1>4. CASE DeleteInvalidate(p)
  <2>1. /\ req'[p] = Idle /\ jobs' = jobs \cup Cleanups(req[p])
        /\ UNCHANGED <<topic, forwarder, file, indexed, told>>
    BY <1>4 DEF DeleteInvalidate, Finish, TypeOK
  <2>2. faults' = 0 => faults = 0
    BY <1>4, FaultCounts DEF DeleteInvalidate, Invalidate, NoFault
  <2>3. Unindexed(k)' <=> Unindexed(k)
    <3>1. Announcing(k)' <=> Announcing(k)
      BY <1>0, <1>1, <2>1 DEF Announcing, At, Idle
    <3> QED BY <2>1, <3>1 DEF Unindexed
  <2>4. Undeleted(k) => Undeleted(k)'
    <3>1. Deleting(k) => Deleting(k)' \/ \E j \in jobs' : j.job = "emit" /\ j.key = k
      BY <1>4, InvalidateLeaves
    <3> QED BY <2>1, <3>1 DEF Undeleted
  <2>5. Undeleted(k)' => Undeleted(k)
    <3>1. Deleting(k)' => Deleting(k) BY <1>1, <2>1 DEF Deleting, At, Idle
    <3>2. ASSUME NEW j \in Cleanups(req[p]), j.key = k PROVE Deleting(k)
      BY <1>4, <3>2 DEF Cleanups, Deleting, DeleteInvalidate
    <3> QED BY <2>1, <3>1, <3>2 DEF Undeleted
  <2> QED BY <2>1, <2>2, <2>3, <2>4, <2>5, TracedFrame
<1> QED BY <1>2, <1>3, <1>4 DEF DeleteStep

(* The goroutine that sends the delete event. *)
LEMMA EmitEvents ==
  ASSUME TypeOK, NEW j \in jobs, EmitDelete(j), NEW k \in Keys, Traced(k)
  PROVE  Traced(k)'
<1> USE DEF uploadVars, eventVars, cacheVars, linkVars, counters, traceVars
<1>1. /\ j.job = "emit" /\ jobs' = jobs \ {j}
      /\ UNCHANGED <<req, forwarder, file, indexed, told>>
  BY DEF EmitDelete
<1>2. /\ Announcing(k)' <=> Announcing(k)
      /\ Deleting(k)' <=> Deleting(k)
  BY <1>1 DEF Announcing, Deleting, At
<1> DEFINE e == [action |-> "delete", key |-> ObjectKey(j.key), id |-> j.id]
<1>3. CASE topic' = topic \cup {e} /\ NoFault
  <2>1. Unindexed(k)' <=> Unindexed(k) BY <1>1, <1>2, <1>3 DEF Unindexed
  <2>2. Undeleted(k) => Undeleted(k)'
    <3>1. e \in topic' /\ e.action = "delete" /\ e.key = ObjectKey(j.key) BY <1>3
    <3>2. ASSUME j.key = k PROVE Undeleted(k)' BY <3>1, <3>2 DEF Undeleted
    <3>3. topic \subseteq topic' BY <1>3
    <3> QED BY <1>1, <1>2, <3>2, <3>3 DEF Undeleted
  <2> QED BY <1>1, <1>3, <2>1, <2>2, TracedFrame DEF NoFault
<1>4. CASE UNCHANGED topic /\ Fault("emit")
  <2>1. Unindexed(k)' => Unindexed(k) BY <1>1, <1>2, <1>4 DEF Unindexed
  <2> QED BY <1>1, <1>4, <2>1, FaultCounts, TracedLoss
<1> QED BY <1>3, <1>4 DEF EmitDelete, Emit

(* The consumer that feeds the index. *)
LEMMA DeliverEvents ==
  ASSUME TypeOK, NEW m \in topic, Deliver(m), NEW k \in Keys, Traced(k)
  PROVE  Traced(k)'
<1> USE DEF uploadVars, eventVars, cacheVars, linkVars, counters, traceVars
<1>1. /\ topic' = topic \ {m}
      /\ UNCHANGED <<req, forwarder, jobs, file, faults>>
  BY DEF Deliver
<1>2. /\ Announcing(k)' <=> Announcing(k)
      /\ Deleting(k)' <=> Deleting(k)
  BY <1>1 DEF Announcing, Deleting, At
<1>3. /\ m.action = "index" => m.key # ObjectKey(k)
      /\ m.action # "index" => m.key # UploadID(k)
  <2>1. /\ m.action = "index" => \E j \in Keys : m.key = UploadID(j)
        /\ m.action # "index" => \E j \in Keys : m.key = ObjectKey(j)
    <3>1. m \in Events BY DEF TypeOK
    <3> QED BY <3>1 DEF Events
  <2> QED BY <2>1, NamesDiffer
<1>4. CASE m.action = "index"
  <2>1. /\ UploadID(k) \in indexed' <=> UploadID(k) \in indexed \/ m.key = UploadID(k)
        /\ told' = told
    BY <1>4 DEF Deliver
  <2>2. Undeleted(k) => Undeleted(k)' BY <1>1, <1>2, <1>3, <1>4 DEF Undeleted
  <2>3. Unindexed(k)' => Unindexed(k) BY <1>1, <1>2 DEF Unindexed
  <2>4. Unindexed(k) => Unindexed(k)' \/ m.key = UploadID(k)
    BY <1>1, <1>2, <1>4 DEF Unindexed
  <2>5. m.key = UploadID(k) => Unindexed(k) BY <1>4 DEF Unindexed
  <2> QED BY <1>1, <2>1, <2>2, <2>3, <2>4, <2>5 DEF Traced
<1>5. CASE m.action # "index"
  <2>1. /\ UploadID(k) \in indexed' <=> UploadID(k) \in indexed
        /\ ObjectKey(k) \in told' <=> ObjectKey(k) \in told \/ m.key = ObjectKey(k)
    BY <1>3, <1>5 DEF Deliver
  <2>2. Unindexed(k)' <=> Unindexed(k) BY <1>1, <1>2, <1>5 DEF Unindexed
  <2>3. Undeleted(k) => Undeleted(k)' \/ m.key = ObjectKey(k)
    BY <1>1, <1>2 DEF Undeleted
  <2> QED BY <1>1, <2>1, <2>2, <2>3 DEF Traced
<1> QED BY <1>4, <1>5

(* The steps that have nothing to do with events, and those that lose them.*)
LEMMA OtherEvents ==
  ASSUME TypeOK, [Next]_vars, NEW k \in Keys, Traced(k),
         \A p \in Reqs : ~ TusStep(p) /\ ~ Forward(p) /\ ~ DeleteStep(p),
         \A j \in jobs : ~ EmitDelete(j), \A m \in topic : ~ Deliver(m)
  PROVE  Traced(k)'
<1> USE DEF uploadVars, eventVars, cacheVars, linkVars, counters, traceVars
<1>1. ASSUME NEW p \in Reqs, Begin(p) PROVE Traced(k)'
  <2>1. req[p] = Idle /\ req'[p].pc \notin {"notify", "invalidate"}
    BY <1>1 DEF Begin, BeginTus, BeginDelete, BeginRead, BeginDownload, BeginShare,
                Start, Busy, TypeOK
  <2>2. /\ ~ At(p, "tus", "notify") /\ ~ At(p, "delete", "invalidate")
        /\ ~ At(p, "tus", "notify")' /\ ~ At(p, "delete", "invalidate")'
    BY <2>1 DEF At, Idle
  <2>3. UNCHANGED <<traceVars, faults>>
    BY <1>1 DEF Begin, BeginTus, BeginDelete, BeginRead, BeginDownload, BeginShare,
                Start
  <2>4. \A q \in Reqs \ {p} : req'[q] = req[q] BY <1>1, OthersStay
  <2> QED BY <2>2, <2>3, <2>4, SameEvents, TracedFrame
<1>2. ASSUME NEW p \in Reqs, ReadStep(p) \/ LinkStep(p) PROVE Traced(k)'
  <2>1. req[p].op \in {"read", "share", "download"} /\ req[p] \in Requests
    BY <1>2, BusyType
       DEF ReadStep, ReadLookup, ReadFetch, ReadStore, LinkStep, ShareHead,
           ShareCreate, DownloadGet, DownloadSign, At, Idle
  <2>2. req'[p].op \in {"read", "share", "download", "none"}
    BY <1>2, <2>1
       DEF ReadStep, ReadLookup, ReadFetch, ReadStore, LinkStep, ShareHead,
           ShareCreate, DownloadGet, DownloadSign, Goto, Finish, Idle, TypeOK,
           Requests
  <2>3. /\ ~ At(p, "tus", "notify") /\ ~ At(p, "delete", "invalidate")
        /\ ~ At(p, "tus", "notify")' /\ ~ At(p, "delete", "invalidate")'
    BY <2>1, <2>2 DEF At
  <2>4. UNCHANGED <<uploadVars, eventVars, file, faults>>
    BY <1>2 DEF ReadStep, ReadLookup, ReadFetch, ReadStore, LinkStep, ShareHead,
                ShareCreate, DownloadGet, DownloadSign
  <2>5. \A q \in Reqs \ {p} : req'[q] = req[q] BY <1>2, OthersStay DEF Step
  <2> QED BY <2>3, <2>4, <2>5, SameEvents, TracedFrame
<1>3. ASSUME NEW j \in jobs, RemoveLinks(j) PROVE Traced(k)'
  <2>1. /\ j.job = "links" /\ jobs' = jobs \ {j}
        /\ UNCHANGED <<req, forwarder, topic, indexed, told, file>>
        /\ faults' = 0 => faults = 0
    BY <1>3, FaultCounts DEF RemoveLinks, NoFault
  <2>2. Unindexed(k)' <=> Unindexed(k) BY <2>1 DEF Unindexed, Announcing, At
  <2>3. Undeleted(k)' <=> Undeleted(k) BY <2>1 DEF Undeleted, Deleting, At
  <2> QED BY <2>1, <2>2, <2>3, TracedFrame
<1>4. ASSUME NEW j \in Keys, Archive(j) \/ Restore(j) PROVE Traced(k)'
  <2>1. /\ file[j] # "none" /\ file' \in {[file EXCEPT ![j] = "active"],
                                        [file EXCEPT ![j] = "version"]}
        /\ UNCHANGED <<req, forwarder, topic, jobs, indexed, told, faults>>
    BY <1>4 DEF Archive, Restore, Move
  <2>2. Unindexed(k)' <=> Unindexed(k) BY <2>1 DEF Unindexed, Announcing, At
  <2>3. Undeleted(k)' <=> Undeleted(k) BY <2>1 DEF Undeleted, Deleting, At
  <2>4. CASE k = j
    <3>1. file'[k] \in {"active", "version"} BY <2>1, <2>4 DEF TypeOK
    <3> QED BY <2>1, <2>2, <2>4, <3>1 DEF Traced
  <2>5. CASE k # j BY <2>1, <2>2, <2>3, <2>5, TracedFrame DEF TypeOK
  <2> QED BY <2>4, <2>5
<1>5. CASE Crash
  <2>1. /\ faults' # 0 /\ UNCHANGED <<topic, indexed, file>>
        /\ \A p \in Reqs : req'[p] = Idle /\ forwarder'[p].key = None
    BY <1>5, FaultCounts DEF Crash, Off
  <2>2. k # None BY NoneAssumption
  <2>3. Unindexed(k)' => Unindexed(k)
    BY <2>1, <2>2 DEF Unindexed, Announcing, At, Idle
  <2> QED BY <2>1, <2>3, TracedLoss
<1>6. CASE UNCHANGED <<req, uploadVars, eventVars, file, faults>>
  <2>1. Unindexed(k)' <=> Unindexed(k) BY <1>6 DEF Unindexed, Announcing, At
  <2>2. Undeleted(k)' <=> Undeleted(k) BY <1>6 DEF Undeleted, Deleting, At
  <2> QED BY <1>6, <2>1, <2>2, TracedFrame
<1>7. ASSUME \/ \E n \in cache : Expire(n)
             \/ \E l \in Links : Revoke(l)
             \/ Tick \/ UNCHANGED vars
      PROVE  UNCHANGED <<req, uploadVars, eventVars, file, faults>>
  BY <1>7 DEF Expire, Revoke, Tick, vars
<1> QED BY <1>1, <1>2, <1>3, <1>4, <1>5, <1>6, <1>7 DEF Next, Step

(* Every step keeps events, index and files in line. *)
LEMMA EventStep ==
  ASSUME TypeOK, WorkInv, EventInv, IndexComplete, DeletionsTold, [Next]_vars
  PROVE  EventInv' /\ IndexComplete' /\ DeletionsTold'
<1>1. ASSUME NEW k \in Keys PROVE Traced(k)'
  <2>1. Traced(k) BY TracedAll
  <2> QED BY <2>1, UploadEvents, DeleteEvents, EmitEvents, DeliverEvents, OtherEvents
<1>2. ASSUME NEW k \in Keys, file'[k] = "active" PROVE file'[k] # "none" BY <1>2
<1>3. (\A k \in Keys : Traced(k)') => EventInv' /\ IndexComplete' /\ DeletionsTold'
  BY <1>2 DEF EventInv, IndexComplete, DeletionsTold, Traced
<1> QED BY <1>1, <1>3

----------------------------------------------------------------------------
(* The theorems. *)

(* The process starts in order, whichever files are there already.         *)
LEMMA InitInv == Init => TracesInv
<1> SUFFICES ASSUME Init PROVE TracesInv OBVIOUS
<1>1. TypeOK
  <2>1. /\ file \in [Keys -> {"none", "active", "trash", "version"}]
        /\ \A h \in Reqs : forwarder[h] # Off <=> h = stored
        /\ indexed \subseteq Names
    BY NoneAssumption, NamesDiffer DEF Init
  <2>2. /\ url \in [Links -> 0..MaxNow + TTL] /\ now \in 0..MaxNow
        /\ faults \in 0..MaxFaults /\ begun \in 0..MaxBegun
    BY Numbers DEF Init
  <2> QED BY <2>1, <2>2 DEF Init, TypeOK
<1>2. WorkInv BY DEF Init, WorkInv, Equipped, Busy, At, Idle
<1>3. LinkInv BY Numbers DEF Init, LinkInv, Linked, At, Idle
<1>4. \A k \in Keys : ~ Unindexed(k) /\ ~ Undeleted(k)
  BY NoneAssumption
     DEF Init, Unindexed, Undeleted, Announcing, Deleting, At, Idle, Off
<1>5. EventInv /\ IndexComplete /\ DeletionsTold
  <2>1. \A k \in Keys : file[k] \in {"none", "active"} BY DEF Init
  <2>2. \A k \in Keys : UploadID(k) \in indexed <=> file[k] = "active"
    <3>1. indexed = {UploadID(k) : k \in {i \in Keys : file[i] = "active"}}
      BY DEF Init
    <3>2. ASSUME NEW k \in Keys, UploadID(k) \in indexed PROVE file[k] = "active"
      <4>1. PICK i \in Keys : file[i] = "active" /\ UploadID(k) = UploadID(i)
        BY <3>1, <3>2
      <4> QED BY <4>1, NamesDiffer
    <3> QED BY <3>1, <3>2
  <2> QED BY <1>4, <2>1, <2>2 DEF EventInv, IndexComplete, DeletionsTold
<1>6. LinksFollow /\ UrlBounded /\ CacheFollows
  BY Numbers DEF Init, LinksFollow, UrlBounded, CacheFollows, NoLink
<1> QED BY <1>1, <1>2, <1>3, <1>5, <1>6 DEF TracesInv

(* The traces of files stay in order for ever, however requests, jobs,     *)
(* consumers, failures and crashes interleave.                             *)
THEOREM TracesInvariant == Spec => []TracesInv
<1>1. TracesInv /\ [Next]_vars => TracesInv'
  BY TypeStep, WorkStep, LinkKept, EventStep, LinksStep, CacheStep DEF TracesInv
<1> QED BY <1>1, InitInv, PTL DEF Spec

(* The variables keep their types. *)
THEOREM TypeCorrect == Spec => []TypeOK
<1>1. TracesInv => TypeOK BY DEF TracesInv
<1> QED BY <1>1, TracesInvariant, PTL

(* An announcement that waits is waited for: NotifyCompleteUploads has a   *)
(* reader, although every request may have made a handler of its own.      *)
THEOREM AnnouncementsHeard == Spec => []AnnounceHeard
<1>1. TracesInv => AnnounceHeard
  BY DEF TracesInv, TypeOK, WorkInv, Equipped, AnnounceHeard
<1> QED BY <1>1, TracesInvariant, PTL

(* When nothing fails, no link stays live to a file that was deleted after *)
(* the link was made, once the deletion's goroutine has run.               *)
THEOREM LinksRemoved == Spec => []LinksFollow
<1>1. TracesInv => LinksFollow BY DEF TracesInv
<1> QED BY <1>1, TracesInvariant, PTL

(* A signed URL outlives its link by TTL + Wait at most.                   *)
THEOREM UrlsExpire == Spec => []UrlBounded
<1>1. TracesInv => UrlBounded BY DEF TracesInv
<1> QED BY <1>1, TracesInvariant, PTL

(* When nothing fails, every file that is there is in the index, or an     *)
(* event on its way to it says so, and the index has uploaded files only.  *)
THEOREM IndexCompletes == Spec => []IndexComplete
<1>1. TracesInv => IndexComplete BY DEF TracesInv
<1> QED BY <1>1, TracesInvariant, PTL

(* When nothing fails, no file gets into the trash without the consumer of *)
(* content events being told, in whatever order the events arrive.         *)
THEOREM DeletionsAnnounced == Spec => []DeletionsTold
<1>1. TracesInv => DeletionsTold BY DEF TracesInv
<1> QED BY <1>1, TracesInvariant, PTL

(* When nothing fails, what is cached of a file in the trash was stored    *)
(* late, or is about to be dropped.                                        *)
THEOREM CacheCatchesUp == Spec => []CacheFollows
<1>1. TracesInv => CacheFollows BY DEF TracesInv
<1> QED BY <1>1, TracesInvariant, PTL
=============================================================================
