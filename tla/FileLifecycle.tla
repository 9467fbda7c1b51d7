--------------------------- MODULE FileLifecycle ---------------------------
(***************************************************************************)
(* The life of the files of one bucket: uploads, the trash, the versions,  *)
(* every handler in small steps, failing calls, and what must nevertheless *)
(* be true of the objects and the records.                                 *)
(***************************************************************************)
EXTENDS FileTrash, FileVersions

Handle(p) ==
  \/ DeleteStep(p)
  \/ RestoreStep(p)
  \/ ArchiveStep(p)
  \/ VRestoreStep(p)
  \/ VDeleteStep(p)
  \/ Abort(p)

Next ==
  \/ \E k \in Keys : Upload(k) \/ ExpireTrash(k)
  \/ \E p \in Reqs : Handle(p)

Spec == Init /\ [][Next]_vars

----------------------------------------------------------------------------
(* Which kinds of request may safely overlap on one file name. *)

OneWay == {<<"delete", "delete">>, <<"restore", "restore">>,
           <<"vdelete", "vdelete">>, <<"delete", "archive">>,
           <<"delete", "vrestore">>, <<"delete", "vdelete">>,
           <<"restore", "vdelete">>}

SafePairs == OneWay \cup {<<pair[2], pair[1]>> : pair \in OneWay}

----------------------------------------------------------------------------
(* Safety. *)

(* A completed upload is not lost: until it is destroyed on purpose (its   *)
(* version deleted or evicted, its trash expired) its data is somewhere in *)
(* the bucket, whichever handlers are interrupted on the way and whichever *)
(* of their calls fail.                                                    *)
DataKept == \A k \in uploaded : Kept(k) \/ k \in destroyed

HomeAt(place, k) ==
  \A pl \in Places, part \in Parts :
    <<pl, k, part>> \in objects <=> pl = place

(* Nobody works on the name, and no call of those who did has failed; what *)
(* failed for other names makes no difference.                             *)
Settled(f) == QuietName(f) /\ Spared(f)

(* A file whose name is settled is in one place, data and sidecar together,*)
(* or, once destroyed, nowhere: the moves by copy and delete leave no      *)
(* second copy and no sidecar behind.                                      *)
SingleHome ==
  \A k \in uploaded : Settled(FileName[k]) =>
    IF k \in destroyed
    THEN \A pl \in Places, part \in Parts : <<pl, k, part>> \notin objects
    ELSE \E place \in Places : HomeAt(place, k)

(* The version records in go-shares and the objects under "__versions__/"  *)
(* describe the same versions: when the name is settled, a key has version *)
(* data exactly if it has a record, the record is the only one of the key  *)
(* and bears the file's name.                                              *)
VersionsMatch ==
  \A k \in uploaded : Settled(FileName[k]) =>
    LET Of == {r \in records : r.key = k} IN
    IF Data("versions", k)
    THEN \E r \in Of : Of = {r} /\ r.name = FileName[k]
    ELSE Of = {}

(* MaxFileVersions is enforced: a settled name has at most that many       *)
(* version records.  (A record whose version is gone, left by a failed     *)
(* call, can be restored again and again: each time the active file is     *)
(* archived before the handler finds that out, and nothing is evicted.)    *)
VersionCap ==
  MaxFileVersions > 0 =>
    \A f \in Files : Settled(f) => Cardinality(Named(f)) <= MaxFileVersions

(* The eviction that follows an archive deletes an older version, never    *)
(* the one that was just archived.  (After a call for that name has failed,*)
(* the record of an evicted version may have stayed and stand for that one *)
(* by now.)                                                                *)
EvictsAnother ==
  \A p \in Reqs :
    At(p, "archive", "evict") /\ Spared(FileName[req[p].key])
      => req[p].other # req[p].key

----------------------------------------------------------------------------
(* The inductive invariant behind DataKept.                                *)

NamesOf(k) == {FileName[k], k}

(* Objects and records belong to uploads, a record bears its file's name or*)
(* (fallback of resolveFileName) its key, and a request only ever touches  *)
(* keys of the file name it was made for.                                  *)
NamesInv ==
  /\ \A o \in objects : o[2] \in uploaded
  /\ \A r \in records : r.key \in uploaded /\ r.name \in NamesOf(r.key)
  /\ \A p \in Reqs : Busy(p) =>
       /\ req[p].key \in uploaded
       /\ req[p].other \in uploaded
       /\ req[p].name \in NamesOf(req[p].key)
       /\ FileName[req[p].other] = FileName[req[p].key]
       /\ req[p].kind = "vrestore" => req[p].name \in NamesOf(req[p].other)

(* Requests overlap on a name only as Overlap allows. *)
OverlapInv ==
  \A p, q \in Reqs :
    p # q /\ Busy(p) /\ Busy(q) /\ FileName[req[p].key] = FileName[req[q].key]
      => <<req[p].kind, req[q].kind>> \in Overlap

(* A request that is about to delete an object knows a second copy of it.  *)
Moving(p, kind) == req[p].kind = kind /\ req[p].pc \in {"info", "remove"}

SecondCopy(p) ==
  /\ Moving(p, "delete") => Data("trash", req[p].key)
  /\ Moving(p, "archive") => Data("versions", req[p].key)
  /\ Moving(p, "restore") => Data("active", req[p].key)
  /\ Moving(p, "vrestore") => \/ Data("active", req[p].key)
                              \/ Data("trash", req[p].key)
  /\ (req[p].kind = "vrestore" /\ req[p].pc \in {"archInfo", "archRemove"})
       => (Data("active", req[p].other) => Data("versions", req[p].other))

CopyInv == \A p \in Reqs : SecondCopy(p)

(* The inductive strengthening of DataKept, for requests that overlap only *)
(* as SafePairs allows.                                                    *)
LifecycleInv == TypeOK /\ NamesInv /\ OverlapInv /\ CopyInv /\ DataKept

----------------------------------------------------------------------------
(* The inductive invariant behind SingleHome, VersionsMatch, EvictsAnother *)
(* and VersionCap, for requests of one name that come one after the other. *)

SerialUse == Overlap = {}

(* Data and sidecar of k are in the places of full, the data alone in those*)
(* of half, and nothing of it is elsewhere.                                *)
Lies(k, full, half) ==
  \A place \in Places : /\ Data(place, k) <=> place \in full \cup half
                        /\ Info(place, k) <=> place \in full

Alive(k, full, half) == k \notin destroyed /\ Lies(k, full, half)
Dead(k) == k \in destroyed /\ Lies(k, {}, {})

Unrecorded(k) == \A r \in records : r.key # k

(* k has one record, with that id. *)
RecordIs(k, id) ==
  /\ [id |-> id, name |-> FileName[k], key |-> k] \in records
  /\ \A r \in records : r.key = k <=> r.id = id

Version(k, id) == Alive(k, {"versions"}, {}) /\ RecordIs(k, id)

(* k is as no request leaves it unfinished. *)
Tidy(k) ==
  \/ Dead(k) /\ Unrecorded(k)
  \/ \E place \in {"active", "trash"} : Alive(k, {place}, {}) /\ Unrecorded(k)
  \/ \E r \in records : Version(k, r.id)

(* How far the move of k has come at the steps of a handler that moves it. *)
Transfer(k, from, to, pc, copy, info, remove) ==
  /\ pc = copy => Alive(k, {from}, {})
  /\ pc = info => Alive(k, {from}, {to})
  /\ pc = remove => Alive(k, {from, to}, {})

(* What each handler has done, and not yet done, to the file it works on,  *)
(* and to the other file that an archive evicts or a restore archives.     *)
DeleteStage(r) ==
  /\ r.pc = "head" => Tidy(r.key)
  /\ r.pc # "head" => Unrecorded(r.key)
  /\ Transfer(r.key, "active", "trash", r.pc, "copy", "info", "remove")

RestoreStage(r) ==
  /\ r.pc = "head" => Tidy(r.key)
  /\ r.pc # "head" => Unrecorded(r.key)
  /\ r.pc = "headActive" => Alive(r.key, {"trash"}, {})
  /\ Transfer(r.key, "trash", "active", r.pc, "copy", "info", "remove")

Newest(k, name) ==
  \E r \in records :
    Version(k, r.id) /\ \A s \in Named(name) : s.id <= r.id

ArchiveStage(r) ==
  /\ r.pc = "head" => Tidy(r.key)
  /\ r.pc \notin {"head", "resolve"} => r.name = FileName[r.key]
  /\ r.pc \in {"resolve", "copy", "info", "remove", "record"} => Unrecorded(r.key)
  /\ r.pc = "resolve" => Alive(r.key, {"active"}, {})
  /\ Transfer(r.key, "active", "versions", r.pc, "copy", "info", "remove")
  /\ r.pc = "record" => Alive(r.key, {"versions"}, {})
  /\ r.pc \in {"count", "oldest", "evict", "dropRecord"} =>
       MaxFileVersions > 0 /\ Newest(r.key, r.name)
  /\ r.pc = "oldest" => \E s \in Named(r.name) : s.key # r.key
  /\ r.pc \in {"evict", "dropRecord"} => r.other # r.key
  /\ r.pc = "evict" => Version(r.other, r.id)
  /\ r.pc = "dropRecord" => Dead(r.other) /\ RecordIs(r.other, r.id)
  /\ r.pc \notin {"evict", "dropRecord"} => r.other = r.key

Archiving == {"archCopy", "archInfo", "archRemove", "archRecord"}

VRestoreStage(r) ==
  /\ r.name = FileName[r.key]
  /\ r.pc \in {"list", "find", "scan"} \cup Archiving => Version(r.key, r.id)
  /\ r.pc \in {"list", "find", "scan"} => r.other = r.key
  /\ r.pc \in Archiving => r.other # r.key /\ Unrecorded(r.other)
  /\ Transfer(r.other, "active", "versions", r.pc, "archCopy", "archInfo",
              "archRemove")
  /\ r.pc = "archRecord" => Alive(r.other, {"versions"}, {})
  /\ r.pc \in {"copy", "info", "remove", "dropRecord"} =>
       /\ RecordIs(r.key, r.id)
       /\ r.other # r.key => Tidy(r.other)
  /\ Transfer(r.key, "versions", "active", r.pc, "copy", "info", "remove")
  /\ r.pc = "dropRecord" => Alive(r.key, {"active"}, {})

VDeleteStage(r) ==
  /\ r.name = FileName[r.key] /\ r.other = r.key
  /\ r.pc # "dropRecord" => Version(r.key, r.id)
  /\ r.pc = "dropRecord" => Dead(r.key) /\ RecordIs(r.key, r.id)

Stage(r) ==
  /\ r.kind = "delete" => DeleteStage(r)
  /\ r.kind = "restore" => RestoreStage(r)
  /\ r.kind = "archive" => ArchiveStage(r)
  /\ r.kind = "vrestore" => VRestoreStage(r)
  /\ r.kind = "vdelete" => VDeleteStage(r)
  /\ r.kind \in {"delete", "restore"} => r.other = r.key

Touched(k) == \E p \in Reqs : Busy(p) /\ k \in {req[p].key, req[p].other}

(* A request that has added a record and may still have to drop one. *)
Adding(p) ==
  \/ req[p].kind = "archive"
     /\ req[p].pc \in {"count", "oldest", "evict", "dropRecord"}
  \/ req[p].kind = "vrestore"
     /\ req[p].pc \in {"copy", "info", "remove", "dropRecord"}

CapInv ==
  MaxFileVersions > 0 =>
    \A f \in Files : Spared(f) =>
      LET adding == \E p \in Reqs : Adding(p) /\ FileName[req[p].key] = f IN
      Cardinality(Named(f)) <= MaxFileVersions + IF adding THEN 1 ELSE 0

(* The history and the record ids are in order. *)
BooksInv ==
  /\ destroyed \subseteq uploaded
  /\ IsFiniteSet(records)
  /\ \A r \in records : r.id < nextId
  /\ \A r, s \in records : r.id = s.id => r = s

(* A request that has the id of a record, which it may come to drop.       *)
Holding(p) ==
  \/ req[p].kind \in {"vrestore", "vdelete"}
  \/ req[p].kind = "archive" /\ req[p].pc \in {"evict", "dropRecord"}

(* The record that it drops is none of another name, whatever has failed.  *)
HeldInv ==
  \A p \in Reqs : Holding(p) =>
    /\ req[p].id < nextId
    /\ \A r \in records :
         r.id = req[p].id => FileName[r.key] = FileName[req[p].key]

(* Every request has come as far as its stage says, and left the rest tidy,*)
(* of the names for which no call has failed.                              *)
StageInv ==
  /\ \A p \in Reqs : Busy(p) /\ Spared(FileName[req[p].key]) => Stage(req[p])
  /\ \A k \in uploaded : Spared(FileName[k]) /\ ~ Touched(k) => Tidy(k)

SerialInv == LifecycleInv /\ BooksInv /\ HeldInv /\ StageInv /\ CapInv

----------------------------------------------------------------------------
(* The detailed specification implements the custody of each file. *)

Where(k) ==
  IF k \notin uploaded THEN "absent"
  ELSE IF Data("active", k) THEN "active"
  ELSE IF Data("versions", k) THEN "version"
  ELSE IF Data("trash", k) THEN "trash"
  ELSE "gone"

Custody == INSTANCE FileCustody WITH where <- [k \in Keys |-> Where(k)]

(* Every step of every handler moves at most one file, along the arrows of *)
(* FileCustody: an active file never vanishes in one step, and what is     *)
(* gone stays gone.                                                        *)
CustodySpec == Custody!Spec
=============================================================================
