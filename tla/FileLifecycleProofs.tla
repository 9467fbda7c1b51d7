------------------------ MODULE FileLifecycleProofs ------------------------
(***************************************************************************)
(* Proofs about FileLifecycle, for any sets of keys, names and requests,   *)
(* any MaxFileVersions and any bounds.                                     *)
(***************************************************************************)
EXTENDS FileLifecycle, TLAPS

(* A request in a handler is a proper request. *)
LEMMA BusyType ==
  ASSUME TypeOK, NEW p \in Reqs, Busy(p)
  PROVE  req[p] \in Requests
BY DEF TypeOK, Busy, Idle

(* Moving a request on keeps the requests well-typed.                      *)
LEMMA GotoType ==
  ASSUME TypeOK, NEW p \in Reqs, Busy(p), NEW pc \in Labels, Goto(p, pc)
  PROVE  req' \in [Reqs -> Requests \cup {Idle}]
<1>1. req[p] \in Requests BY BusyType
<1>2. [req[p] EXCEPT !.pc = pc] \in Requests BY <1>1 DEF Requests
<1> QED BY <1>2 DEF Goto, TypeOK

(* Ending a request keeps the requests well-typed.                         *)
LEMMA FinishType ==
  ASSUME TypeOK, NEW p \in Reqs, Finish(p)
  PROVE  req' \in [Reqs -> Requests \cup {Idle}]
BY DEF Finish, TypeOK

(* A request at a label is in a handler.                                   *)
LEMMA AtBusy ==
  ASSUME TypeOK, NEW p \in Reqs, NEW kind, NEW pc \in Labels, At(p, kind, pc)
  PROVE  Busy(p) /\ req[p] \in Requests
BY BusyType DEF At, Busy, Labels

(* A call fails for a file name, or none does.                             *)
LEMMA FaultType ==
  ASSUME TypeOK
  PROVE  /\ NoFault => faults' \in Seq(Files)
         /\ \A k \in Keys : \A call : Fault(call, k) => faults' \in Seq(Files)
         /\ \A p \in Reqs : \A call : Busy(p) /\ Fault(call, req[p].key)
                                    => faults' \in Seq(Files)
<1>1. ASSUME NEW k \in Keys, NEW call, Fault(call, k) PROVE faults' \in Seq(Files)
  <2>1. FileName[k] \in Files BY NamesAssumption
  <2> QED BY <1>1, <2>1 DEF Fault, TypeOK
<1>2. \A p \in Reqs : Busy(p) => req[p].key \in Keys BY BusyType DEF Requests
<1> QED BY <1>1, <1>2 DEF NoFault, TypeOK

----------------------------------------------------------------------------
(* The effects of a handler's step, in three parts: what it does to the    *)
(* request, to the records, and to the objects.                            *)

(* The request goes on for the same file name, or ends. *)
Continues(p) ==
  /\ req' = [req EXCEPT ![p] = req'[p]]
  /\ \/ req'[p] = Idle
     \/ /\ req'[p] \in Requests
        /\ req'[p].kind = req[p].kind
        /\ req'[p].key = req[p].key
        /\ req'[p].other \in uploaded
        /\ FileName[req'[p].other] = FileName[req[p].key]
        /\ req'[p].name \in NamesOf(req[p].key)
        /\ req[p].kind = "vrestore" => req'[p].name \in NamesOf(req'[p].other)

Recorded ==
  /\ nextId' \in Nat
  /\ \A r \in records' :
       \/ r \in records
       \/ r \in Records /\ r.key \in uploaded /\ r.name \in NamesOf(r.key)

(* Objects appear, or disappear, only at one place and for one key. *)
Grows(place, k) ==
  /\ objects \subseteq objects'
  /\ objects' \subseteq objects \cup {<<place, k, part>> : part \in Parts}

Shrinks(place, k) ==
  /\ objects' \subseteq objects
  /\ objects \subseteq objects' \cup {<<place, k, part>> : part \in Parts}

(* The assumptions on the use of the gateway: overlaps only as SafePairs   *)
(* allows, and the copy that a version restore makes of the active file    *)
(* does not fail (its error is not checked).                               *)
SafeUse == Overlap \subseteq SafePairs /\ "archCopy" \notin Faulty

(* TypeOK, put together from what a step does to each variable.            *)
LEMMA TypeFrame ==
  ASSUME TypeOK, NEW p \in Reqs, Continues(p), Recorded,
         uploaded' = uploaded, destroyed' \subseteq Keys, faults' \in Seq(Files),
         objects' \subseteq Objects
  PROVE  TypeOK'
BY DEF TypeOK, Continues, Recorded

(* NamesInv survives a step that adds objects of uploaded keys only.       *)
LEMMA NamesFrame ==
  ASSUME TypeOK, NamesInv, NEW p \in Reqs, Busy(p), Continues(p), Recorded,
         uploaded' = uploaded, \A o \in objects' : o[2] \in uploaded
  PROVE  NamesInv'
BY DEF TypeOK, NamesInv, Continues, Recorded, Busy, Idle

(* OverlapInv survives a step of a request that is under way.              *)
LEMMA OverlapFrame ==
  ASSUME TypeOK, OverlapInv, NEW p \in Reqs, Busy(p), Continues(p)
  PROVE  OverlapInv'
BY DEF TypeOK, OverlapInv, Continues, Busy, Idle

(* Two requests for the same name are of kinds that may safely overlap.    *)
LEMMA SafeTogether ==
  ASSUME SafeUse, OverlapInv, NEW p \in Reqs, NEW q \in Reqs, p # q,
         Busy(p), Busy(q), FileName[req[p].key] = FileName[req[q].key]
  PROVE  <<req[p].kind, req[q].kind>> \in SafePairs
BY DEF SafeUse, OverlapInv

(* A step that only adds objects takes no copy away from another request;  *)
(* adding an active file could break the promise a version restore relies  *)
(* on, but the kinds that do so never overlap with one.                    *)
LEMMA GrowFrame ==
  ASSUME LifecycleInv, SafeUse, NEW p \in Reqs, Busy(p), Continues(p),
         NEW place \in Places, Grows(place, req[p].key) \/ Grows(place, req[p].other),
         place = "active" => req[p].kind \in {"restore", "vrestore"},
         NEW q \in Reqs, q # p
  PROVE  SecondCopy(q)'
<1>1. req'[q] = req[q] BY DEF Continues, LifecycleInv, TypeOK
<1>2. ASSUME NEW pl, NEW k, Data(pl, k) PROVE Data(pl, k)'
  BY <1>2 DEF Data, Grows
<1>3. ASSUME req[q].kind = "vrestore", req[q].pc \in {"archInfo", "archRemove"},
             Data("active", req[q].other)'
      PROVE  Data("active", req[q].other)
  <2>1. Busy(q) BY <1>3 DEF Busy
  <2>2. FileName[req[q].key] # FileName[req[p].key] \/ place # "active"
    BY <2>1, <1>3, SafeTogether DEF LifecycleInv, SafePairs, OneWay
  <2>3. /\ FileName[req[p].other] = FileName[req[p].key]
        /\ FileName[req[q].other] = FileName[req[q].key]
    BY <2>1 DEF LifecycleInv, NamesInv
  <2>4. PICK k \in {req[p].key, req[p].other} : Grows(place, k)
    OBVIOUS
  <2>5. place # "active" \/ k # req[q].other
    BY <2>2, <2>3
  <2> QED BY <2>4, <2>5, <1>1, <1>3 DEF Data, Grows
<1> QED BY <1>1, <1>2, <1>3 DEF LifecycleInv, CopyInv, SecondCopy, Moving

(* A step that deletes objects takes from another request no copy it       *)
(* relies on: the kinds of request that would do so never overlap with it. *)
LEMMA ShrinkFrame ==
  ASSUME LifecycleInv, SafeUse, NEW p \in Reqs, Busy(p), Continues(p),
         NEW place \in Places, NEW k \in Keys, Shrinks(place, k),
         FileName[k] = FileName[req[p].key],
         <<req[p].kind, place>> \in
           {<<"delete", "active">>, <<"archive", "active">>,
            <<"vrestore", "active">>, <<"restore", "trash">>,
            <<"archive", "versions">>, <<"vrestore", "versions">>,
            <<"vdelete", "versions">>},
         req[p].kind = "delete" => Data("trash", k),
         NEW q \in Reqs, q # p
  PROVE  SecondCopy(q)'
<1>1. req'[q] = req[q] BY DEF Continues, LifecycleInv, TypeOK
<1>2. ASSUME NEW pl, NEW j, Data(pl, j), pl # place \/ j # k PROVE Data(pl, j)'
  BY <1>2 DEF Data, Shrinks
<1>3. ASSUME NEW pl, NEW j, Data(pl, j)' PROVE Data(pl, j)
  BY <1>3 DEF Data, Shrinks
<1>4. CASE ~ Busy(q)
  BY <1>1, <1>4 DEF SecondCopy, Moving, Busy
<1>5. CASE Busy(q) /\ FileName[req[q].key] # FileName[k]
  <2>1. FileName[req[q].other] = FileName[req[q].key]
    BY <1>5 DEF LifecycleInv, NamesInv
  <2> QED BY <2>1, <1>1, <1>2, <1>3, <1>5
          DEF LifecycleInv, CopyInv, SecondCopy, Moving
<1>6. CASE Busy(q) /\ FileName[req[q].key] = FileName[k]
  <2>1. <<req[p].kind, req[q].kind>> \in SafePairs
    BY <1>6, SafeTogether DEF LifecycleInv
  <2>2. SecondCopy(q) BY DEF LifecycleInv, CopyInv
  <2> QED BY <2>1, <2>2, <1>1, <1>2, <1>3 DEF SecondCopy, Moving, SafePairs, OneWay
<1> QED BY <1>4, <1>5, <1>6

(* Put together: a step that adds objects, or leaves them alone.           *)
LEMMA GrowStep ==
  ASSUME LifecycleInv, SafeUse, NEW p \in Reqs, Busy(p), Continues(p), Recorded,
         NEW place \in Places, Grows(place, req[p].key) \/ Grows(place, req[p].other),
         place = "active" => req[p].kind \in {"restore", "vrestore"},
         UNCHANGED <<uploaded, destroyed>>, faults' \in Seq(Files),
         SecondCopy(p)'
  PROVE  LifecycleInv'
<1>0. /\ req[p].key \in uploaded /\ req[p].other \in uploaded
      /\ uploaded \subseteq Keys /\ destroyed \subseteq Keys
  BY DEF LifecycleInv, NamesInv, TypeOK
<1>1. objects' \subseteq Objects /\ \A o \in objects' : o[2] \in uploaded
  BY <1>0 DEF LifecycleInv, NamesInv, TypeOK, Grows, Objects
<1>2. TypeOK' BY <1>0, <1>1, TypeFrame DEF LifecycleInv
<1>3. NamesInv' BY <1>1, NamesFrame DEF LifecycleInv
<1>4. OverlapInv' BY OverlapFrame DEF LifecycleInv
<1>5. CopyInv' BY GrowFrame DEF CopyInv
<1>6. DataKept' BY DEF LifecycleInv, DataKept, Kept, Data, Grows
<1> QED BY <1>2, <1>3, <1>4, <1>5, <1>6 DEF LifecycleInv

(* A step that deletes objects. *)
LEMMA ShrinkStep ==
  ASSUME LifecycleInv, SafeUse, NEW p \in Reqs, Busy(p), Continues(p), Recorded,
         NEW place \in Places, NEW k \in uploaded, Shrinks(place, k),
         FileName[k] = FileName[req[p].key],
         <<req[p].kind, place>> \in
           {<<"delete", "active">>, <<"archive", "active">>,
            <<"vrestore", "active">>, <<"restore", "trash">>,
            <<"archive", "versions">>, <<"vrestore", "versions">>,
            <<"vdelete", "versions">>},
         req[p].kind = "delete" => Data("trash", k),
         uploaded' = uploaded, faults' \in Seq(Files),
         destroyed \subseteq destroyed', destroyed' \subseteq Keys,
         k \in destroyed' \/ Kept(k)' \/ ~ Kept(k),
         SecondCopy(p)'
  PROVE  LifecycleInv'
<1>0. k \in Keys BY DEF LifecycleInv, TypeOK
<1>1. objects' \subseteq Objects /\ \A o \in objects' : o[2] \in uploaded
  BY DEF LifecycleInv, NamesInv, TypeOK, Shrinks
<1>2. TypeOK' BY <1>1, TypeFrame DEF LifecycleInv
<1>3. NamesInv' BY <1>1, NamesFrame DEF LifecycleInv
<1>4. OverlapInv' BY OverlapFrame DEF LifecycleInv
<1>5. CopyInv' BY <1>0, ShrinkFrame DEF CopyInv
<1>6. DataKept'
  <2>1. ASSUME NEW j \in uploaded, j # k, Kept(j) PROVE Kept(j)'
    BY <2>1 DEF Kept, Data, Shrinks
  <2> QED BY <2>1 DEF LifecycleInv, DataKept
<1> QED BY <1>2, <1>3, <1>4, <1>5, <1>6 DEF LifecycleInv

(* A step that leaves the objects alone. *)
LEMMA QuietStep ==
  ASSUME LifecycleInv, SafeUse, NEW p \in Reqs, Busy(p), Continues(p), Recorded,
         UNCHANGED <<objects, uploaded, destroyed>>, faults' \in Seq(Files),
         \/ req'[p].pc \notin {"info", "remove", "archInfo", "archRemove"}
         \/ req'[p].kind = "vdelete"
  PROVE  LifecycleInv'
<1>1. SecondCopy(p)' BY DEF SecondCopy, Moving
<1>2. Grows("trash", req[p].key) BY DEF Grows
<1> QED BY <1>1, <1>2, GrowStep DEF Places

(* A request enters a handler. *)
LEMMA BeginStep ==
  ASSUME LifecycleInv, NEW p \in Reqs, NEW r \in Requests, Begin(p, r),
         r.pc \in {"head", "list"}, r.key \in uploaded, r.other = r.key,
         r.name \in NamesOf(r.key),
         UNCHANGED <<objects, records, nextId, uploaded, destroyed, faults>>
  PROVE  LifecycleInv'
<1>1. /\ req'[p] = r /\ ~ Busy(p)
      /\ \A q \in Reqs \ {p} : req'[q] = req[q]
  BY DEF LifecycleInv, TypeOK, Begin
<1>2. TypeOK' BY DEF LifecycleInv, TypeOK, Begin
<1>3. NamesInv' BY <1>1 DEF LifecycleInv, NamesInv, Busy
<1>4. OverlapInv'
  <2>1. ASSUME NEW q \in Reqs, q # p, Busy(q), FileName[req[q].key] = FileName[r.key]
        PROVE  /\ <<r.kind, req[q].kind>> \in Overlap
               /\ <<req[q].kind, r.kind>> \in Overlap
    BY <2>1, OverlapAssumption DEF Begin, Compatible
  <2>2. ASSUME NEW q \in Reqs, NEW s \in Reqs, q # s, Busy(q)', Busy(s)',
               FileName[req'[q].key] = FileName[req'[s].key]
        PROVE  <<req'[q].kind, req'[s].kind>> \in Overlap
    <3>1. CASE q = p BY <1>1, <2>1, <2>2, <3>1 DEF Busy
    <3>2. CASE s = p BY <1>1, <2>1, <2>2, <3>2 DEF Busy
    <3>3. CASE q # p /\ s # p
      BY <1>1, <2>2, <3>3 DEF LifecycleInv, OverlapInv, Busy
    <3> QED BY <3>1, <3>2, <3>3
  <2> QED BY <2>2 DEF OverlapInv
<1>5. CopyInv'
  <2>1. ASSUME NEW q \in Reqs PROVE SecondCopy(q)'
    <3>1. CASE q = p BY <1>1, <3>1 DEF SecondCopy, Moving
    <3>2. CASE q # p
      BY <1>1, <3>2 DEF LifecycleInv, CopyInv, SecondCopy, Moving, Data
    <3> QED BY <3>1, <3>2
  <2> QED BY <2>1 DEF CopyInv
<1>6. DataKept' BY DEF LifecycleInv, DataKept, Kept, Data
<1> QED BY <1>2, <1>3, <1>4, <1>5, <1>6 DEF LifecycleInv

(* A request that moves on works on the same keys as before.               *)
LEMMA GotoContinues ==
  ASSUME LifecycleInv, NEW p \in Reqs, Busy(p), NEW pc \in Labels, Goto(p, pc)
  PROVE  /\ Continues(p)
         /\ req'[p].pc = pc
         /\ req'[p].kind = req[p].kind
         /\ req'[p].key = req[p].key
         /\ req'[p].other = req[p].other
<1>1. req[p] \in Requests BY BusyType DEF LifecycleInv
<1>2. /\ req[p].other \in uploaded
      /\ FileName[req[p].other] = FileName[req[p].key]
      /\ req[p].name \in NamesOf(req[p].key)
      /\ req[p].kind = "vrestore" => req[p].name \in NamesOf(req[p].other)
  BY DEF LifecycleInv, NamesInv
<1> QED BY <1>1, <1>2 DEF LifecycleInv, TypeOK, Goto, Continues, Requests

(* A request that ends counts as continuing, into idleness.                *)
LEMMA FinishContinues ==
  ASSUME LifecycleInv, NEW p \in Reqs, Finish(p)
  PROVE  Continues(p) /\ req'[p].pc = "idle" /\ req'[p] = Idle
BY DEF LifecycleInv, TypeOK, Finish, Continues, Idle

(* A step that adds no record keeps the records in order.                  *)
LEMMA RecordsKept ==
  ASSUME LifecycleInv, records' \subseteq records, nextId' = nextId
  PROVE  Recorded
BY DEF LifecycleInv, TypeOK, Recorded

(* A record added for an uploaded key and one of its names is in order.    *)
LEMMA RecordAdded ==
  ASSUME LifecycleInv, NEW k \in uploaded, NEW name \in NamesOf(k),
         AddRecord(name, k)
  PROVE  Recorded
<1>1. k \in Keys /\ name \in Files \cup Keys
  BY NamesAssumption DEF LifecycleInv, TypeOK, NamesOf
<1> QED BY <1>1 DEF LifecycleInv, TypeOK, Recorded, AddRecord, Records

(* A step that only moves the request on. *)
LEMMA ReplyStep ==
  ASSUME LifecycleInv, SafeUse, NEW p \in Reqs, Busy(p),
         NEW pc \in Labels \ {"info", "remove", "archInfo", "archRemove"},
         Goto(p, pc) \/ Finish(p), records' \subseteq records, nextId' = nextId,
         UNCHANGED <<objects, uploaded, destroyed>>, faults' \in Seq(Files)
  PROVE  LifecycleInv'
<1>1. Recorded BY RecordsKept
<1>2. Continues(p) /\ req'[p].pc \in {pc, "idle"}
  BY GotoContinues, FinishContinues
<1> QED BY <1>1, <1>2, QuietStep

(* CopyData makes the copy that the next steps rely on. *)
LEMMA CopyDataStep ==
  ASSUME LifecycleInv, SafeUse, NEW p \in Reqs, Busy(p),
         NEW from \in Places, NEW to \in Places, CopyData(p, from, to, "info"),
         <<req[p].kind, to>> \in
           {<<"delete", "trash">>, <<"restore", "active">>,
            <<"archive", "versions">>, <<"vrestore", "active">>}
  PROVE  LifecycleInv'
<1>1. Recorded BY RecordsKept DEF CopyData
<1>2. faults' \in Seq(Files) BY DEF LifecycleInv, TypeOK, CopyData, NoFault
<1>3. CASE Data(from, req[p].key)
  <2>1. /\ objects' = objects \cup {<<to, req[p].key, "data">>}
        /\ Goto(p, "info")
    BY <1>3 DEF CopyData
  <2>2. Continues(p) /\ req'[p].pc = "info" /\ req'[p].kind = req[p].kind
        /\ req'[p].key = req[p].key
    BY <2>1, GotoContinues DEF Labels
  <2>3. Grows(to, req[p].key) BY <2>1 DEF Grows, Parts
  <2>4. SecondCopy(p)' BY <2>1, <2>2 DEF SecondCopy, Moving, Data
  <2> QED BY <1>1, <1>2, <2>2, <2>3, <2>4, GrowStep DEF CopyData
<1>4. CASE ~ Data(from, req[p].key)
  <2>1. Finish(p) /\ UNCHANGED <<objects, uploaded, destroyed>>
    BY <1>4 DEF CopyData
  <2> QED BY <1>1, <1>2, <2>1, FinishContinues, QuietStep
<1> QED BY <1>3, <1>4

(* A best-effort copy of a sidecar keeps what the request knows. *)
LEMMA TryInfoStep ==
  ASSUME LifecycleInv, SafeUse, NEW p \in Reqs, Busy(p),
         NEW from \in Places, NEW to \in Places,
         NEW pc, <<req[p].pc, pc>> \in {<<"info", "remove">>,
                                       <<"archInfo", "archRemove">>},
         NEW k \in {req[p].key, req[p].other},
         TryCopy(p, k, "info", from, to, "info", pc), destroyed' = destroyed,
         to = "active" => req[p].kind \in {"restore", "vrestore"}
  PROVE  LifecycleInv'
<1>1. Recorded BY RecordsKept DEF TryCopy
<1>2. faults' \in Seq(Files)
  <2>1. k \in Keys BY BusyType DEF LifecycleInv, Requests
  <2> QED BY <2>1, FaultType DEF LifecycleInv, TryCopy
<1>3. /\ Continues(p) /\ req'[p].pc = pc /\ req'[p].kind = req[p].kind
      /\ req'[p].key = req[p].key /\ req'[p].other = req[p].other
  BY GotoContinues DEF TryCopy, Labels
<1>4. Grows(to, k) BY DEF TryCopy, Grows, Copied, Parts
<1>5. ASSUME NEW pl, NEW j PROVE Data(pl, j)' <=> Data(pl, j)
  BY DEF TryCopy, Copied, Data
<1>6. SecondCopy(p) BY DEF LifecycleInv, CopyInv
<1>7. SecondCopy(p)' BY <1>3, <1>5, <1>6 DEF SecondCopy, Moving
<1> QED BY <1>1, <1>2, <1>3, <1>4, <1>7, GrowStep DEF TryCopy

(* RemovePair takes away objects of one place and key, no others.          *)
LEMMA RemovePairEffect ==
  ASSUME LifecycleInv, NEW place \in Places, NEW k \in Keys, RemovePair(place, k)
  PROVE  /\ Shrinks(place, k) /\ faults' \in Seq(Files)
         /\ \A pl, j : Data(pl, j) /\ (pl # place \/ j # k) => Data(pl, j)'
         /\ \A pl, j : Data(pl, j)' => Data(pl, j)
<1>1. Shrinks(place, k) BY DEF RemovePair, Shrinks, Parts
<1>2. faults' \in Seq(Files) BY FaultType DEF LifecycleInv, RemovePair
<1> QED BY <1>1, <1>2 DEF Shrinks, Data

(* A move deletes the original when its other copy is there to stay. *)
LEMMA RemoveStep ==
  ASSUME LifecycleInv, SafeUse, NEW p \in Reqs, Busy(p), Continues(p), Recorded,
         NEW place \in Places, NEW k \in uploaded, RemovePair(place, k),
         FileName[k] = FileName[req[p].key],
         <<req[p].kind, place>> \in
           {<<"delete", "active">>, <<"archive", "active">>,
            <<"vrestore", "active">>, <<"restore", "trash">>,
            <<"vrestore", "versions">>},
         (\E pl \in Places \ {place} : Data(pl, k)) \/ ~ Data(place, k),
         req[p].kind = "delete" => Data("trash", k),
         UNCHANGED <<uploaded, destroyed>>,
         req'[p].pc \in {"idle", "record", "archRecord", "dropRecord"}
  PROVE  LifecycleInv'
<1>0. k \in Keys /\ destroyed \subseteq Keys BY DEF LifecycleInv, TypeOK
<1>1. Kept(k)' \/ ~ Kept(k) BY <1>0, RemovePairEffect DEF Kept
<1>2. SecondCopy(p)' BY DEF SecondCopy, Moving
<1> QED BY <1>0, <1>1, <1>2, RemovePairEffect, ShrinkStep

(* A permanent deletion is entered in destroyed. *)
LEMMA DestroyStep ==
  ASSUME LifecycleInv, SafeUse, NEW p \in Reqs, Busy(p),
         NEW k \in uploaded, Destroy("versions", k), Goto(p, "dropRecord"),
         FileName[k] = FileName[req[p].key],
         req[p].kind \in {"archive", "vdelete"},
         UNCHANGED <<uploaded, records, nextId>>
  PROVE  LifecycleInv'
<1>0. k \in Keys /\ destroyed \subseteq Keys BY DEF LifecycleInv, TypeOK
<1>1. /\ destroyed \subseteq destroyed' /\ destroyed' \subseteq Keys
      /\ k \in destroyed' \/ Kept(k)'
  BY <1>0 DEF Destroy
<1>2. Continues(p) /\ req'[p].pc = "dropRecord" /\ Recorded
  BY GotoContinues, RecordsKept DEF Labels
<1>3. SecondCopy(p)' BY <1>2 DEF SecondCopy, Moving
<1>4. Shrinks("versions", k) /\ faults' \in Seq(Files)
  BY <1>0, RemovePairEffect DEF Destroy, Places
<1> QED BY <1>1, <1>2, <1>3, <1>4, ShrinkStep DEF Places

(* The last step of three handlers. *)
LEMMA DropStep ==
  ASSUME LifecycleInv, SafeUse, NEW p \in Reqs, Busy(p), DropRecord(p),
         Finish(p), UNCHANGED <<objects, nextId, uploaded, destroyed>>
  PROVE  LifecycleInv'
<1>1. records' \subseteq records /\ faults' \in Seq(Files)
  BY FaultType DEF DropRecord, LifecycleInv
<1> QED BY <1>1, RecordsKept, FinishContinues, QuietStep

----------------------------------------------------------------------------
(* The handlers. *)

(* Every step of DeleteFileHandler preserves LifecycleInv.                 *)
LEMMA DeleteInv ==
  ASSUME LifecycleInv, SafeUse, NEW p \in Reqs, DeleteStep(p)
  PROVE  LifecycleInv'
<1>1. ASSUME NEW k \in Keys, BeginDelete(p, k) PROVE LifecycleInv'
  BY <1>1, BeginStep DEF BeginDelete, Requests, Kinds, Labels, NamesOf
<1>2. CASE DeleteHead(p)
  <2>1. Busy(p) BY <1>2, AtBusy DEF DeleteHead, LifecycleInv, Labels
  <2> QED BY <1>2, <2>1, ReplyStep DEF DeleteHead, LifecycleInv, TypeOK, Labels
<1>3. CASE DeleteCopy(p)
  BY <1>3, AtBusy, CopyDataStep DEF DeleteCopy, At, Labels, LifecycleInv, Places
<1>4. CASE DeleteInfo(p)
  BY <1>4, AtBusy, TryInfoStep DEF DeleteInfo, At, Labels, LifecycleInv, Places
<1>5. CASE DeleteRemove(p)
  <2>1. Busy(p) /\ At(p, "delete", "remove")
    BY <1>5, AtBusy DEF DeleteRemove, LifecycleInv, Labels
  <2>2. PICK k \in uploaded : k = req[p].key
    BY <2>1 DEF LifecycleInv, NamesInv
  <2>3. /\ RemovePair("active", k) /\ Finish(p) /\ Recorded
        /\ UNCHANGED <<uploaded, destroyed>>
    BY <1>5, <2>2, RecordsKept DEF DeleteRemove
  <2>4. Data("trash", k)
    BY <2>1, <2>2 DEF LifecycleInv, CopyInv, SecondCopy, Moving, At
  <2> QED BY <2>1, <2>2, <2>3, <2>4, FinishContinues, RemoveStep DEF At, Places
<1> QED BY <1>1, <1>2, <1>3, <1>4, <1>5 DEF DeleteStep

(* Every step of RestoreFileHandler preserves LifecycleInv.                *)
LEMMA RestoreInv ==
  ASSUME LifecycleInv, SafeUse, NEW p \in Reqs, RestoreStep(p)
  PROVE  LifecycleInv'
<1>1. ASSUME NEW k \in Keys, BeginRestore(p, k) PROVE LifecycleInv'
  BY <1>1, BeginStep DEF BeginRestore, Requests, Kinds, Labels, NamesOf
<1>2. CASE RestoreHeadTrash(p)
  <2>1. Busy(p) BY <1>2, AtBusy DEF RestoreHeadTrash, LifecycleInv, Labels
  <2> QED BY <1>2, <2>1, ReplyStep DEF RestoreHeadTrash, LifecycleInv, TypeOK, Labels
<1>3. CASE RestoreHeadActive(p)
  <2>1. Busy(p) BY <1>3, AtBusy DEF RestoreHeadActive, LifecycleInv, Labels
  <2> QED BY <1>3, <2>1, ReplyStep DEF RestoreHeadActive, LifecycleInv, TypeOK, Labels
<1>4. CASE RestoreCopy(p)
  BY <1>4, AtBusy, CopyDataStep DEF RestoreCopy, At, Labels, LifecycleInv, Places
<1>5. CASE RestoreInfo(p)
  BY <1>5, AtBusy, TryInfoStep DEF RestoreInfo, At, Labels, LifecycleInv, Places
<1>6. CASE RestoreRemove(p)
  <2>1. Busy(p) /\ At(p, "restore", "remove")
    BY <1>6, AtBusy DEF RestoreRemove, LifecycleInv, Labels
  <2>2. PICK k \in uploaded : k = req[p].key
    BY <2>1 DEF LifecycleInv, NamesInv
  <2>3. /\ RemovePair("trash", k) /\ Finish(p) /\ Recorded
        /\ UNCHANGED <<uploaded, destroyed>>
    BY <1>6, <2>2, RecordsKept DEF RestoreRemove
  <2>4. Data("active", k)
    BY <2>1, <2>2 DEF LifecycleInv, CopyInv, SecondCopy, Moving, At
  <2> QED BY <2>1, <2>2, <2>3, <2>4, FinishContinues, RemoveStep DEF At, Places
<1> QED BY <1>1, <1>2, <1>3, <1>4, <1>5, <1>6 DEF RestoreStep

(* Records of a name the request works under are records of its file name. *)
LEMMA SameFile ==
  ASSUME LifecycleInv, NEW p \in Reqs, Busy(p), NEW k \in uploaded,
         NEW name, name \in NamesOf(k), name = req[p].name
  PROVE  FileName[k] = FileName[req[p].key]
<1>1. req[p].name \in NamesOf(req[p].key) /\ req[p].key \in Keys /\ k \in Keys
  BY DEF LifecycleInv, NamesInv, TypeOK
<1> QED BY <1>1, NamesAssumption DEF NamesOf

(* Every step of ArchiveFileVersionHandler preserves LifecycleInv.         *)
LEMMA ArchiveInv ==
  ASSUME LifecycleInv, SafeUse, NEW p \in Reqs, ArchiveStep(p)
  PROVE  LifecycleInv'
<1>1. ASSUME NEW k \in Keys, BeginArchive(p, k) PROVE LifecycleInv'
  BY <1>1, BeginStep DEF BeginArchive, Requests, Kinds, Labels, NamesOf
<1>2. CASE ArchiveHead(p)
  <2>1. Busy(p) BY <1>2, AtBusy DEF ArchiveHead, LifecycleInv, Labels
  <2> QED BY <1>2, <2>1, ReplyStep DEF ArchiveHead, LifecycleInv, TypeOK, Labels
<1>3. CASE ArchiveResolve(p)
  <2>1. Busy(p) /\ req[p] \in Requests /\ req[p].other \in uploaded
        /\ FileName[req[p].other] = FileName[req[p].key]
        /\ req[p].kind = "archive"
    BY <1>3, AtBusy DEF ArchiveResolve, At, LifecycleInv, NamesInv, Labels
  <2>2. PICK name \in NamesOf(req[p].key) :
          req' = [req EXCEPT ![p].pc = "copy", ![p].name = name]
    BY <1>3 DEF ArchiveResolve, ResolvedName, NamesOf
  <2>3. name \in Files \cup Keys
    BY <2>1, NamesAssumption DEF NamesOf, Requests
  <2>4. Continues(p) /\ req'[p].pc = "copy"
    BY <2>1, <2>2, <2>3 DEF Continues, LifecycleInv, TypeOK, Requests, Labels
  <2>5. Recorded /\ UNCHANGED <<objects, uploaded, destroyed>> /\ faults' \in Seq(Files)
    BY <1>3, <2>1, AtBusy, RecordsKept, FaultType
       DEF ArchiveResolve, LifecycleInv, Labels
  <2> QED BY <2>1, <2>4, <2>5, QuietStep
<1>4. CASE ArchiveCopy(p)
  BY <1>4, AtBusy, CopyDataStep DEF ArchiveCopy, At, Labels, LifecycleInv, Places
<1>5. CASE ArchiveInfo(p)
  BY <1>5, AtBusy, TryInfoStep DEF ArchiveInfo, At, Labels, LifecycleInv, Places
<1>6. CASE ArchiveRemove(p)
  <2>1. Busy(p) /\ At(p, "archive", "remove")
    BY <1>6, AtBusy DEF ArchiveRemove, LifecycleInv, Labels
  <2>2. PICK k \in uploaded : k = req[p].key
    BY <2>1 DEF LifecycleInv, NamesInv
  <2>3. /\ RemovePair("active", k) /\ Goto(p, "record") /\ Recorded
        /\ UNCHANGED <<uploaded, destroyed>>
    BY <1>6, <2>2, RecordsKept DEF ArchiveRemove
  <2>4. Data("versions", k)
    BY <2>1, <2>2 DEF LifecycleInv, CopyInv, SecondCopy, Moving, At
  <2> QED BY <2>1, <2>2, <2>3, <2>4, GotoContinues, RemoveStep DEF At, Places, Labels
<1>7. CASE ArchiveRecord(p)
  <2>1. Busy(p) BY <1>7, AtBusy DEF ArchiveRecord, LifecycleInv, Labels
  <2>2. Recorded
    BY <1>7, <2>1, RecordAdded DEF ArchiveRecord, LifecycleInv, NamesInv
  <2>3. Continues(p) /\ req'[p].pc \in {"count", "idle"}
    BY <1>7, <2>1, GotoContinues, FinishContinues DEF ArchiveRecord, Labels
  <2> QED BY <1>7, <2>1, <2>2, <2>3, QuietStep DEF ArchiveRecord, LifecycleInv, TypeOK
<1>8. CASE ArchiveCount(p)
  <2>1. Busy(p) BY <1>8, AtBusy DEF ArchiveCount, LifecycleInv, Labels
  <2>2. faults' \in Seq(Files) /\ (Goto(p, "oldest") \/ Finish(p))
    BY <1>8, <2>1, FaultType DEF ArchiveCount, LifecycleInv
  <2> QED BY <1>8, <2>1, <2>2, ReplyStep DEF ArchiveCount, Labels
<1>9. CASE ArchiveOldest(p)
  <2>1. Busy(p) /\ req[p] \in Requests /\ req[p].kind = "archive"
    BY <1>9, AtBusy DEF ArchiveOldest, At, LifecycleInv, Labels
  <2>2. Recorded /\ UNCHANGED <<objects, uploaded, destroyed>> /\ faults' \in Seq(Files)
    BY <1>9, RecordsKept DEF ArchiveOldest, LifecycleInv, TypeOK
  <2>3. ASSUME NEW r \in Oldest(req[p].name),
               req' = [req EXCEPT ![p].pc = "evict", ![p].other = r.key,
                                  ![p].id = r.id]
        PROVE  LifecycleInv'
    <3>1. r \in records /\ r.name = req[p].name BY DEF Oldest, Named
    <3>2. r \in Records /\ r.key \in uploaded /\ r.name \in NamesOf(r.key)
      BY <3>1 DEF LifecycleInv, TypeOK, NamesInv
    <3>3. FileName[r.key] = FileName[req[p].key] BY <2>1, <3>1, <3>2, SameFile
    <3>4. req[p].name \in NamesOf(req[p].key) BY <2>1 DEF LifecycleInv, NamesInv
    <3>5. r.key \in Keys /\ r.id \in Nat BY <3>2 DEF Records
    <3>6. Continues(p) /\ req'[p].pc = "evict"
      BY <2>1, <2>3, <3>2, <3>3, <3>4, <3>5
         DEF Continues, LifecycleInv, TypeOK, Requests, Labels
    <3> QED BY <2>1, <2>2, <3>6, QuietStep
  <2>4. CASE Finish(p)
    BY <2>1, <2>2, <2>4, FinishContinues, QuietStep
  <2> QED BY <1>9, <2>3, <2>4 DEF ArchiveOldest
<1>10. CASE ArchiveEvict(p)
  <2>1. Busy(p) /\ req[p].kind = "archive"
    BY <1>10, AtBusy DEF ArchiveEvict, At, LifecycleInv, Labels
  <2>2. PICK k \in uploaded : k = req[p].other
    BY <2>1 DEF LifecycleInv, NamesInv
  <2>3. FileName[k] = FileName[req[p].key]
    BY <2>1, <2>2 DEF LifecycleInv, NamesInv
  <2> QED BY <1>10, <2>1, <2>2, <2>3, DestroyStep DEF ArchiveEvict
<1>11. CASE ArchiveDrop(p)
  BY <1>11, AtBusy, DropStep DEF ArchiveDrop, LifecycleInv, Labels
<1> QED BY <1>1, <1>2, <1>3, <1>4, <1>5, <1>6, <1>7, <1>8, <1>9, <1>10, <1>11
        DEF ArchiveStep

(* Finding a version by id, for both handlers that do.                     *)
LEMMA FindVersionInv ==
  ASSUME LifecycleInv, SafeUse, NEW p \in Reqs,
         NEW kind, NEW found, <<kind, found>> \in {<<"vrestore", "scan">>,
                                                 <<"vdelete", "remove">>},
         \/ \E r \in records : BeginVersion(p, kind, r)
         \/ VersionList(p, kind)
         \/ VersionFind(p, kind, found)
  PROVE  LifecycleInv'
<1>1. ASSUME NEW r \in records, BeginVersion(p, kind, r) PROVE LifecycleInv'
  <2>1. r \in Records /\ r.key \in uploaded /\ r.name \in NamesOf(r.key)
    BY DEF LifecycleInv, TypeOK, NamesInv
  <2> DEFINE new == [kind |-> kind, pc |-> "list", key |-> r.key,
                     other |-> r.key, name |-> r.name, id |-> r.id]
  <2>2. new \in Requests BY <2>1 DEF Records, Requests, Kinds, Labels
  <2>3. Begin(p, new)
        /\ UNCHANGED <<objects, records, nextId, uploaded, destroyed, faults>>
    BY <1>1 DEF BeginVersion
  <2> QED BY <2>1, <2>2, <2>3, BeginStep
<1>2. CASE VersionList(p, kind)
  <2>1. Busy(p) BY <1>2, AtBusy DEF VersionList, LifecycleInv, Labels
  <2> QED BY <1>2, <2>1, ReplyStep DEF VersionList, LifecycleInv, TypeOK, Labels
<1>3. CASE VersionFind(p, kind, found)
  <2>1. Busy(p) /\ req[p].kind = kind
    BY <1>3, AtBusy DEF VersionFind, At, LifecycleInv, Labels
  <2>2. Continues(p) /\ (req'[p].pc \in {"scan", "idle"} \/ req'[p].kind = "vdelete")
    BY <1>3, <2>1, GotoContinues, FinishContinues DEF VersionFind, Labels
  <2>3. Recorded BY <1>3, RecordsKept DEF VersionFind
  <2> QED BY <1>3, <2>1, <2>2, <2>3, QuietStep DEF VersionFind, LifecycleInv, TypeOK
<1> QED BY <1>1, <1>2, <1>3

(* Every step of RestoreFileVersionHandler preserves LifecycleInv.         *)
LEMMA VRestoreInv ==
  ASSUME LifecycleInv, SafeUse, NEW p \in Reqs, VRestoreStep(p)
  PROVE  LifecycleInv'
<1>1. CASE \/ \E r \in records : BeginVersion(p, "vrestore", r)
           \/ VersionList(p, "vrestore")
           \/ VersionFind(p, "vrestore", "scan")
  BY <1>1, FindVersionInv
<1>2. CASE VRestoreScan(p)
  <2>1. Busy(p) /\ req[p] \in Requests
    BY <1>2, AtBusy DEF VRestoreScan, LifecycleInv, Labels
  <2>2. Recorded /\ UNCHANGED <<objects, uploaded, destroyed>> /\ faults' \in Seq(Files)
    BY <1>2, <2>1, RecordsKept, FaultType DEF VRestoreScan, LifecycleInv
  <2>3. ASSUME NEW k \in Keys, Data("active", k),
               ResolvedName("active", k) = req[p].name,
               req' = [req EXCEPT ![p].pc = "archCopy", ![p].other = k]
        PROVE  LifecycleInv'
    <3>1. k \in uploaded BY <2>3 DEF LifecycleInv, NamesInv, Data
    <3>2. ResolvedName("active", k) \in NamesOf(k) BY DEF ResolvedName, NamesOf
    <3>3. FileName[k] = FileName[req[p].key] BY <2>1, <2>3, <3>1, <3>2, SameFile
    <3>4. req[p].name \in NamesOf(req[p].key) BY <2>1 DEF LifecycleInv, NamesInv
    <3>5. Continues(p) /\ req'[p].pc = "archCopy"
      BY <2>1, <2>3, <3>1, <3>2, <3>3, <3>4
         DEF Continues, LifecycleInv, TypeOK, Requests, Labels
    <3> QED BY <2>1, <2>2, <3>5, QuietStep
  <2>4. CASE Goto(p, "copy")
    BY <2>1, <2>2, <2>4, GotoContinues, QuietStep DEF Labels
  <2> QED BY <1>2, <2>3, <2>4 DEF VRestoreScan
<1>3. CASE VRestoreArchCopy(p)
  <2> DEFINE k == req[p].other
  <2>1. Busy(p) /\ req[p].kind = "vrestore"
    BY <1>3, AtBusy DEF VRestoreArchCopy, At, LifecycleInv, Labels
  <2>2. /\ Goto(p, "archInfo") /\ Recorded /\ UNCHANGED <<uploaded, destroyed>>
        /\ objects' = objects \cup Copied("active", "versions", k, "data")
        /\ faults' \in Seq(Files)
    BY <1>3, RecordsKept
       DEF VRestoreArchCopy, TryCopy, NoFault, Fault, SafeUse, LifecycleInv, TypeOK
  <2>3. /\ Continues(p) /\ req'[p].pc = "archInfo" /\ req'[p].kind = "vrestore"
        /\ req'[p].other = k
    BY <2>1, <2>2, GotoContinues DEF Labels
  <2>4. Grows("versions", k) BY <2>2 DEF Grows, Copied, Parts
  <2>5. SecondCopy(p)' BY <2>2, <2>3 DEF SecondCopy, Moving, Data, Copied
  <2> QED BY <2>1, <2>2, <2>3, <2>4, <2>5, GrowStep DEF Places
<1>4. CASE VRestoreArchInfo(p)
  BY <1>4, AtBusy, TryInfoStep DEF VRestoreArchInfo, At, Labels, LifecycleInv, Places
<1>5. CASE VRestoreArchRemove(p)
  <2>1. Busy(p) /\ At(p, "vrestore", "archRemove")
    BY <1>5, AtBusy DEF VRestoreArchRemove, LifecycleInv, Labels
  <2>2. PICK k \in uploaded : k = req[p].other
    BY <2>1 DEF LifecycleInv, NamesInv
  <2>3. /\ RemovePair("active", k) /\ Goto(p, "archRecord") /\ Recorded
        /\ UNCHANGED <<uploaded, destroyed>>
    BY <1>5, <2>2, RecordsKept DEF VRestoreArchRemove
  <2>4. Data("active", k) => Data("versions", k)
    BY <2>1, <2>2 DEF LifecycleInv, CopyInv, SecondCopy, Moving, At
  <2>5. FileName[k] = FileName[req[p].key]
    BY <2>1, <2>2 DEF LifecycleInv, NamesInv
  <2> QED BY <2>1, <2>2, <2>3, <2>4, <2>5, GotoContinues, RemoveStep
          DEF At, Places, Labels
<1>6. CASE VRestoreArchRecord(p)
  <2>1. Busy(p) /\ req[p].name \in NamesOf(req[p].other) /\ req[p].other \in uploaded
    BY <1>6, AtBusy DEF VRestoreArchRecord, At, LifecycleInv, NamesInv, Labels
  <2>2. Recorded
    BY <1>6, <2>1, RecordAdded, RecordsKept DEF VRestoreArchRecord
  <2>3. Continues(p) /\ req'[p].pc = "copy"
    BY <1>6, <2>1, GotoContinues DEF VRestoreArchRecord, Labels
  <2>4. faults' \in Seq(Files)
    BY <1>6, <2>1, FaultType DEF VRestoreArchRecord, LifecycleInv
  <2> QED BY <1>6, <2>1, <2>2, <2>3, <2>4, QuietStep DEF VRestoreArchRecord
<1>7. CASE VRestoreCopy(p)
  BY <1>7, AtBusy, CopyDataStep DEF VRestoreCopy, At, Labels, LifecycleInv, Places
<1>8. CASE VRestoreInfo(p)
  BY <1>8, AtBusy, TryInfoStep DEF VRestoreInfo, At, Labels, LifecycleInv, Places
<1>9. CASE VRestoreRemove(p)
  <2>1. Busy(p) /\ At(p, "vrestore", "remove")
    BY <1>9, AtBusy DEF VRestoreRemove, LifecycleInv, Labels
  <2>2. PICK k \in uploaded : k = req[p].key
    BY <2>1 DEF LifecycleInv, NamesInv
  <2>3. /\ RemovePair("versions", k) /\ Goto(p, "dropRecord") /\ Recorded
        /\ UNCHANGED <<uploaded, destroyed>>
    BY <1>9, <2>2, RecordsKept DEF VRestoreRemove
  <2>4. Data("active", k) \/ Data("trash", k)
    BY <2>1, <2>2 DEF LifecycleInv, CopyInv, SecondCopy, Moving, At
  <2> QED BY <2>1, <2>2, <2>3, <2>4, GotoContinues, RemoveStep DEF At, Places, Labels
<1>10. CASE VRestoreDrop(p)
  BY <1>10, AtBusy, DropStep DEF VRestoreDrop, LifecycleInv, Labels
<1> QED BY <1>1, <1>2, <1>3, <1>4, <1>5, <1>6, <1>7, <1>8, <1>9, <1>10
        DEF VRestoreStep

(* Every step of DeleteFileVersionHandler preserves LifecycleInv.          *)
LEMMA VDeleteInv ==
  ASSUME LifecycleInv, SafeUse, NEW p \in Reqs, VDeleteStep(p)
  PROVE  LifecycleInv'
<1>1. CASE \/ \E r \in records : BeginVersion(p, "vdelete", r)
           \/ VersionList(p, "vdelete")
           \/ VersionFind(p, "vdelete", "remove")
  BY <1>1, FindVersionInv
<1>2. CASE VDeleteRemove(p)
  <2>1. Busy(p) /\ req[p].kind = "vdelete"
    BY <1>2, AtBusy DEF VDeleteRemove, At, LifecycleInv, Labels
  <2>2. PICK k \in uploaded : k = req[p].key
    BY <2>1 DEF LifecycleInv, NamesInv
  <2> QED BY <1>2, <2>1, <2>2, DestroyStep DEF VDeleteRemove
<1>3. CASE VDeleteDrop(p)
  BY <1>3, AtBusy, DropStep DEF VDeleteDrop, LifecycleInv, Labels
<1> QED BY <1>1, <1>2, <1>3 DEF VDeleteStep

(* A request that is cut short leaves LifecycleInv intact.                 *)
LEMMA AbortInv ==
  ASSUME LifecycleInv, SafeUse, NEW p \in Reqs, Abort(p)
  PROVE  LifecycleInv'
<1>1. Busy(p) /\ Finish(p) /\ faults' \in Seq(Files)
  BY FaultType DEF Abort, LifecycleInv
<1> QED BY <1>1, FinishContinues, RecordsKept, QuietStep DEF Abort

----------------------------------------------------------------------------
(* The environment. *)

(* A completed upload preserves LifecycleInv.                              *)
LEMMA UploadInv ==
  ASSUME LifecycleInv, NEW k \in Keys, Upload(k)
  PROVE  LifecycleInv'
<1>1. TypeOK' BY DEF LifecycleInv, TypeOK, Upload, Objects, Places
<1>2. NamesInv' BY DEF LifecycleInv, NamesInv, Upload, Busy
<1>3. OverlapInv' BY DEF LifecycleInv, OverlapInv, Upload, Busy
<1>4. ASSUME NEW q \in Reqs PROVE SecondCopy(q)'
  <2>1. SecondCopy(q) /\ (Busy(q) => req[q].other # k)
    BY DEF LifecycleInv, CopyInv, NamesInv, Upload
  <2> QED BY <2>1 DEF SecondCopy, Moving, Data, Upload, Busy
<1>5. DataKept' BY DEF LifecycleInv, DataKept, Kept, Data, Upload, Places, Parts
<1> QED BY <1>1, <1>2, <1>3, <1>4, <1>5 DEF LifecycleInv, CopyInv

(* The expiry of trash preserves LifecycleInv.                             *)
LEMMA ExpireInv ==
  ASSUME LifecycleInv, NEW k \in Keys, ExpireTrash(k)
  PROVE  LifecycleInv'
<1>1. /\ objects' = objects \ {<<"trash", k, part>> : part \in Parts}
      /\ UNCHANGED <<records, nextId, req, uploaded>>
      /\ destroyed \subseteq destroyed' /\ destroyed' \subseteq Keys
      /\ k \in uploaded => k \in destroyed' \/ Kept(k)'
  BY DEF ExpireTrash, LifecycleInv, TypeOK
<1>2. faults' \in Seq(Files) BY FaultType DEF ExpireTrash, LifecycleInv
<1>3. TypeOK' BY <1>1, <1>2 DEF LifecycleInv, TypeOK
<1>4. NamesInv' BY <1>1 DEF LifecycleInv, NamesInv, Busy
<1>5. OverlapInv' BY <1>1 DEF LifecycleInv, OverlapInv, Busy
<1>6. ASSUME NEW q \in Reqs PROVE SecondCopy(q)'
  <2>1. Busy(q) => req[q].kind = "restore" \/ req[q].key # k
    BY DEF ExpireTrash, QuietName
  <2>2. SecondCopy(q) BY DEF LifecycleInv, CopyInv
  <2>3. ASSUME NEW pl, NEW j, pl # "trash" \/ j # k PROVE Data(pl, j)' <=> Data(pl, j)
    BY <1>1, <2>3 DEF Data
  <2> QED BY <1>1, <2>1, <2>2, <2>3 DEF SecondCopy, Moving, Busy
<1>7. ASSUME NEW j \in uploaded, j # k, Kept(j) PROVE Kept(j)'
  BY <1>1, <1>7 DEF Kept, Data
<1>8. DataKept' BY <1>1, <1>7 DEF LifecycleInv, DataKept
<1> QED BY <1>3, <1>4, <1>5, <1>6, <1>8 DEF LifecycleInv, CopyInv

----------------------------------------------------------------------------
(* LifecycleInv holds at the start.                                        *)
LEMMA InitInv == Init => LifecycleInv
<1> SUFFICES ASSUME Init PROVE LifecycleInv
  OBVIOUS
<1>1. TypeOK BY DEF Init, TypeOK
<1>2. \A p \in Reqs : req[p] = Idle BY DEF Init
<1>3. NamesInv /\ OverlapInv
  BY <1>2 DEF Init, NamesInv, OverlapInv, Busy, Idle
<1>4. CopyInv BY <1>2 DEF CopyInv, SecondCopy, Moving, Idle
<1>5. DataKept BY DEF Init, DataKept
<1> QED BY <1>1, <1>3, <1>4, <1>5 DEF LifecycleInv

(* LifecycleInv is inductive.                                              *)
LEMMA NextInv ==
  ASSUME LifecycleInv, SafeUse, [Next]_vars
  PROVE  LifecycleInv'
<1>1. CASE UNCHANGED vars
  BY <1>1 DEF vars, LifecycleInv, TypeOK, NamesInv, OverlapInv, CopyInv,
              SecondCopy, Moving, Busy, DataKept, Kept, Data
<1>2. ASSUME NEW k \in Keys, Upload(k) \/ ExpireTrash(k) PROVE LifecycleInv'
  BY <1>2, UploadInv, ExpireInv
<1>3. ASSUME NEW p \in Reqs, Handle(p) PROVE LifecycleInv'
  BY <1>3, DeleteInv, RestoreInv, ArchiveInv, VRestoreInv, VDeleteInv, AbortInv
     DEF Handle
<1> QED BY <1>1, <1>2, <1>3 DEF Next

(* The invariant holds of every behaviour in which requests for one name   *)
(* overlap only as SafePairs allows and the unchecked archiving copy of a  *)
(* version restore does not fail.                                          *)
THEOREM LifecycleInvariant ==
  ASSUME SafeUse
  PROVE  Spec => []LifecycleInv
<1>1. LifecycleInv /\ [Next]_vars => LifecycleInv' BY NextInv
<1> QED BY <1>1, InitInv, PTL DEF Spec

(* No upload is ever lost, for any number of files, names and concurrent   *)
(* requests, and whatever other calls fail, crash or are cancelled.        *)
THEOREM NothingLost ==
  ASSUME SafeUse
  PROVE  Spec => []DataKept
<1>1. LifecycleInv => DataKept BY DEF LifecycleInv
<1> QED BY <1>1, LifecycleInvariant, PTL

----------------------------------------------------------------------------
(* Type correctness needs none of the assumptions on the use of the API.   *)

(* Beginning a request preserves TypeOK.                                   *)
LEMMA BeginType ==
  ASSUME TypeOK, NEW p \in Reqs, NEW r \in Requests, Begin(p, r),
         UNCHANGED <<objects, records, nextId, uploaded, destroyed, faults>>
  PROVE  TypeOK'
BY DEF TypeOK, Begin

(* Copying preserves TypeOK.                                               *)
LEMMA CopyType ==
  ASSUME TypeOK, NEW p \in Reqs, Busy(p), NEW pc \in Labels,
         NEW from \in Places, NEW to \in Places, NEW k \in Keys,
         destroyed' = destroyed,
         \/ k = req[p].key /\ CopyData(p, from, to, pc)
         \/ \E part \in Parts : \E call :
              TryCopy(p, k, part, from, to, call, pc)
  PROVE  TypeOK'
<1>1. objects' \subseteq Objects
  BY DEF TypeOK, CopyData, TryCopy, Copied, Objects, Parts
<1>2. Goto(p, pc) \/ Finish(p) BY DEF CopyData, TryCopy
<1>3. faults' \in Seq(Files) BY FaultType DEF CopyData, TryCopy
<1> QED BY <1>1, <1>2, <1>3, GotoType, FinishType DEF TypeOK, CopyData, TryCopy

(* Deleting objects preserves TypeOK.                                      *)
LEMMA RemoveType ==
  ASSUME TypeOK, NEW p \in Reqs, Busy(p), NEW pc \in Labels,
         NEW place \in Places, NEW k \in Keys, Goto(p, pc) \/ Finish(p),
         RemovePair(place, k), UNCHANGED <<records, nextId, uploaded>>,
         destroyed' \subseteq Keys
  PROVE  TypeOK'
<1>1. faults' \in Seq(Files) BY FaultType DEF RemovePair
<1>2. objects' \subseteq objects BY DEF RemovePair
<1> QED BY <1>1, <1>2, GotoType, FinishType DEF TypeOK

(* Deleting a version record preserves TypeOK.                             *)
LEMMA DropType ==
  ASSUME TypeOK, NEW p \in Reqs, Busy(p), Finish(p), DropRecord(p),
         UNCHANGED <<objects, nextId, uploaded, destroyed>>
  PROVE  TypeOK'
<1>1. faults' \in Seq(Files) /\ records' \subseteq records
  BY FaultType DEF DropRecord
<1> QED BY <1>1, FinishType DEF TypeOK

(* TypeOK is inductive by itself.                                          *)
LEMMA TypeStep ==
  ASSUME TypeOK, [Next]_vars
  PROVE  TypeOK'
<1>1. CASE UNCHANGED vars
  BY <1>1 DEF vars, TypeOK
<1>2. ASSUME NEW k \in Keys, Upload(k) \/ ExpireTrash(k) PROVE TypeOK'
  <2>1. faults' \in Seq(Files) BY <1>2, FaultType DEF Upload, ExpireTrash, TypeOK
  <2> QED BY <1>2, <2>1 DEF Upload, ExpireTrash, TypeOK, Objects, Places
<1>3. ASSUME NEW p \in Reqs, DeleteStep(p) PROVE TypeOK'
  <2>1. ASSUME NEW k \in Keys, BeginDelete(p, k) PROVE TypeOK'
    BY <2>1, BeginType DEF BeginDelete, Requests, Kinds, Labels
  <2>2. CASE DeleteHead(p)
    BY <2>2, AtBusy, GotoType, FinishType DEF DeleteHead, TypeOK, Labels
  <2>3. CASE DeleteCopy(p) \/ DeleteInfo(p)
    BY <2>3, AtBusy, CopyType
       DEF DeleteCopy, DeleteInfo, Requests, CopyData, Labels, Places, Parts
  <2>4. CASE DeleteRemove(p)
    BY <2>4, AtBusy, RemoveType DEF DeleteRemove, Requests, TypeOK, Labels, Places
  <2> QED BY <1>3, <2>1, <2>2, <2>3, <2>4 DEF DeleteStep
<1>4. ASSUME NEW p \in Reqs, RestoreStep(p) PROVE TypeOK'
  <2>1. ASSUME NEW k \in Keys, BeginRestore(p, k) PROVE TypeOK'
    BY <2>1, BeginType DEF BeginRestore, Requests, Kinds, Labels
  <2>2. CASE RestoreHeadTrash(p) \/ RestoreHeadActive(p)
    BY <2>2, AtBusy, GotoType, FinishType
       DEF RestoreHeadTrash, RestoreHeadActive, TypeOK, Labels
  <2>3. CASE RestoreCopy(p) \/ RestoreInfo(p)
    BY <2>3, AtBusy, CopyType
       DEF RestoreCopy, RestoreInfo, Requests, CopyData, Labels, Places, Parts
  <2>4. CASE RestoreRemove(p)
    BY <2>4, AtBusy, RemoveType DEF RestoreRemove, Requests, TypeOK, Labels, Places
  <2> QED BY <1>4, <2>1, <2>2, <2>3, <2>4 DEF RestoreStep
<1>5. ASSUME NEW p \in Reqs, ArchiveStep(p) PROVE TypeOK'
  <2>1. ASSUME NEW k \in Keys, BeginArchive(p, k) PROVE TypeOK'
    BY <2>1, BeginType DEF BeginArchive, Requests, Kinds, Labels
  <2>2. CASE ArchiveHead(p) \/ ArchiveCount(p)
    <3>1. Busy(p) BY <2>2, AtBusy DEF ArchiveHead, ArchiveCount, Labels
    <3>2. faults' \in Seq(Files)
      BY <2>2, <3>1, FaultType DEF ArchiveHead, ArchiveCount, TypeOK
    <3> QED BY <2>2, <3>1, <3>2, GotoType, FinishType
            DEF ArchiveHead, ArchiveCount, TypeOK, Labels
  <2>3. CASE ArchiveResolve(p)
    <3>1. Busy(p) /\ req[p] \in Requests
      BY <2>3, AtBusy DEF ArchiveResolve, Labels
    <3>2. PICK name \in Files \cup Keys :
            req' = [req EXCEPT ![p].pc = "copy", ![p].name = name]
      BY <2>3, <3>1, NamesAssumption DEF ArchiveResolve, ResolvedName, Requests
    <3>3. req' \in [Reqs -> Requests \cup {Idle}]
      BY <3>1, <3>2 DEF TypeOK, Requests, Labels
    <3>4. faults' \in Seq(Files) BY <2>3, <3>1, FaultType DEF ArchiveResolve
    <3> QED BY <2>3, <3>3, <3>4 DEF ArchiveResolve, TypeOK
  <2>4. CASE ArchiveCopy(p) \/ ArchiveInfo(p)
    BY <2>4, AtBusy, CopyType
       DEF ArchiveCopy, ArchiveInfo, Requests, CopyData, Labels, Places, Parts
  <2>5. CASE ArchiveRemove(p)
    BY <2>5, AtBusy, RemoveType DEF ArchiveRemove, Requests, TypeOK, Labels, Places
  <2>6. CASE ArchiveRecord(p)
    BY <2>6, AtBusy, GotoType, FinishType
       DEF ArchiveRecord, AddRecord, Records, Requests, TypeOK, Labels
  <2>7. CASE ArchiveOldest(p)
    <3>1. req[p] \in Requests BY <2>7, AtBusy DEF ArchiveOldest, Labels
    <3>2. ASSUME NEW r \in Oldest(req[p].name),
                 req' = [req EXCEPT ![p].pc = "evict", ![p].other = r.key,
                                    ![p].id = r.id]
          PROVE  req' \in [Reqs -> Requests \cup {Idle}]
      <4>1. r.key \in Keys /\ r.id \in Nat
        BY DEF Oldest, Named, TypeOK, Records
      <4> QED BY <3>1, <3>2, <4>1 DEF TypeOK, Requests, Labels
    <3> QED BY <2>7, <3>2, FinishType DEF ArchiveOldest, TypeOK
  <2>8. CASE ArchiveEvict(p)
    <3>1. req[p].other \in Keys BY <2>8, AtBusy DEF ArchiveEvict, Labels, Requests
    <3>2. destroyed' \subseteq Keys BY <2>8, <3>1 DEF ArchiveEvict, Destroy, TypeOK
    <3> QED BY <2>8, <3>1, <3>2, AtBusy, RemoveType DEF ArchiveEvict, Destroy, Labels, Places
  <2>9. CASE ArchiveDrop(p)
    BY <2>9, AtBusy, DropType DEF ArchiveDrop, Labels
  <2> QED BY <1>5, <2>1, <2>2, <2>3, <2>4, <2>5, <2>6, <2>7, <2>8, <2>9 DEF ArchiveStep
<1>6. ASSUME NEW p \in Reqs, NEW kind, NEW found,
             <<kind, found>> \in {<<"vrestore", "scan">>, <<"vdelete", "remove">>},
             \/ \E r \in records : BeginVersion(p, kind, r)
             \/ VersionList(p, kind)
             \/ VersionFind(p, kind, found)
      PROVE  TypeOK'
  <2>1. ASSUME NEW r \in records, BeginVersion(p, kind, r) PROVE TypeOK'
    <3>1. r \in Records BY DEF TypeOK
    <3> DEFINE new == [kind |-> kind, pc |-> "list", key |-> r.key,
                       other |-> r.key, name |-> r.name, id |-> r.id]
    <3>2. new \in Requests BY <1>6, <3>1 DEF Records, Requests, Kinds, Labels
    <3>3. Begin(p, new)
          /\ UNCHANGED <<objects, records, nextId, uploaded, destroyed, faults>>
      BY <2>1 DEF BeginVersion
    <3> QED BY <3>2, <3>3, BeginType
  <2>2. CASE VersionList(p, kind)
    BY <2>2, AtBusy, GotoType, FinishType DEF VersionList, TypeOK, Labels
  <2>3. CASE VersionFind(p, kind, found)
    BY <1>6, <2>3, AtBusy, GotoType, FinishType DEF VersionFind, TypeOK, Labels
  <2> QED BY <1>6, <2>1, <2>2, <2>3
<1>7. ASSUME NEW p \in Reqs, VRestoreStep(p) PROVE TypeOK'
  <2>1. CASE VRestoreScan(p)
    <3>1. Busy(p) /\ req[p] \in Requests
      BY <2>1, AtBusy DEF VRestoreScan, Labels
    <3>2. ASSUME NEW k \in Keys,
                 req' = [req EXCEPT ![p].pc = "archCopy", ![p].other = k]
          PROVE  req' \in [Reqs -> Requests \cup {Idle}]
      BY <3>1, <3>2 DEF TypeOK, Requests, Labels
    <3>3. faults' \in Seq(Files) BY <2>1, <3>1, FaultType DEF VRestoreScan
    <3>4. CASE Goto(p, "copy")
      BY <2>1, <3>1, <3>3, <3>4, GotoType DEF VRestoreScan, TypeOK, Labels
    <3> QED BY <2>1, <3>2, <3>3, <3>4 DEF VRestoreScan, TypeOK
  <2>2. CASE VRestoreArchCopy(p) \/ VRestoreArchInfo(p)
    BY <2>2, AtBusy, CopyType
       DEF VRestoreArchCopy, VRestoreArchInfo, Requests, Labels, Places, Parts
  <2>3. CASE VRestoreCopy(p) \/ VRestoreInfo(p)
    BY <2>3, AtBusy, CopyType
       DEF VRestoreCopy, VRestoreInfo, Requests, CopyData, Labels, Places, Parts
  <2>4. CASE VRestoreArchRemove(p) \/ VRestoreRemove(p)
    BY <2>4, AtBusy, RemoveType
       DEF VRestoreArchRemove, VRestoreRemove, Requests, TypeOK, Labels, Places
  <2>5. CASE VRestoreArchRecord(p)
    <3>1. Busy(p) /\ req[p] \in Requests
      BY <2>5, AtBusy DEF VRestoreArchRecord, Labels
    <3>2. records' \subseteq Records /\ nextId' \in Nat
      BY <2>5, <3>1 DEF VRestoreArchRecord, AddRecord, Records, Requests, TypeOK
    <3>3. faults' \in Seq(Files) BY <2>5, <3>1, FaultType DEF VRestoreArchRecord
    <3> QED BY <2>5, <3>1, <3>2, <3>3, GotoType DEF VRestoreArchRecord, TypeOK, Labels
  <2>6. CASE VRestoreDrop(p)
    BY <2>6, AtBusy, DropType DEF VRestoreDrop, Labels
  <2> QED BY <1>6, <1>7, <2>1, <2>2, <2>3, <2>4, <2>5, <2>6 DEF VRestoreStep
<1>8. ASSUME NEW p \in Reqs, VDeleteStep(p) PROVE TypeOK'
  <2>1. CASE VDeleteRemove(p)
    <3>1. req[p].key \in Keys BY <2>1, AtBusy DEF VDeleteRemove, Labels, Requests
    <3>2. destroyed' \subseteq Keys BY <2>1, <3>1 DEF VDeleteRemove, Destroy, TypeOK
    <3> QED BY <2>1, <3>1, <3>2, AtBusy, RemoveType DEF VDeleteRemove, Destroy, Labels, Places
  <2>2. CASE VDeleteDrop(p)
    BY <2>2, AtBusy, DropType DEF VDeleteDrop, Labels
  <2> QED BY <1>6, <1>8, <2>1, <2>2 DEF VDeleteStep
<1>9. ASSUME NEW p \in Reqs, Abort(p) PROVE TypeOK'
  BY <1>9, FinishType, FaultType DEF Abort, TypeOK
<1> QED BY <1>1, <1>2, <1>3, <1>4, <1>5, <1>7, <1>8, <1>9 DEF Next, Handle

(* The variables keep their types, however the requests overlap and        *)
(* whatever fails.                                                         *)
THEOREM TypeCorrect == Spec => []TypeOK
<1>1. Init => TypeOK BY DEF Init, TypeOK
<1>2. TypeOK /\ [Next]_vars => TypeOK' BY TypeStep
<1> QED BY <1>1, <1>2, PTL DEF Spec
=============================================================================
