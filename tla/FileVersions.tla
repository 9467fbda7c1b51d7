---------------------------- MODULE FileVersions ----------------------------
(***************************************************************************)
(* File versions: ArchiveFileVersionHandler moves the active file under    *)
(* "__versions__/" and records it in go-shares, RestoreFileVersionHandler  *)
(* swaps a recorded version with the active file of the same name,         *)
(* DeleteFileVersionHandler removes a version for good.                    *)
(***************************************************************************)
EXTENDS FileStore

Named(name) == {r \in records : r.name = name}

(* Mutant: the newest version instead.                                     *)
Oldest_Newest(name) ==
  {r \in Named(name) : \A s \in Named(name) : r.id >= s.id}

CountFileVersions(name) == Cardinality(Named(name))

(* GetOldestFileVersion: go-shares numbers the versions as they come. *)
Oldest(name) == {r \in Named(name) : \A s \in Named(name) : r.id <= s.id}

----------------------------------------------------------------------------
(* POST /files/{bucket}/{key}/version *)

BeginArchive(p, k) ==
  /\ k \in uploaded
  /\ Begin(p, [kind |-> "archive", pc |-> "head", key |-> k, other |-> k,
               name |-> k, id |-> 0])
  /\ UNCHANGED <<objects, records, nextId, uploaded, destroyed, faults>>

ArchiveHead(p) ==
  /\ At(p, "archive", "head")
  /\ IF Data("active", req[p].key) THEN Goto(p, "resolve") ELSE Finish(p)
  /\ UNCHANGED <<objects, records, nextId, uploaded, destroyed, faults>>

ArchiveResolve(p) ==
  /\ At(p, "archive", "resolve")
  /\ \E name \in {ResolvedName("active", req[p].key), req[p].key} :
       /\ IF name = ResolvedName("active", req[p].key) THEN NoFault
                                                       ELSE Fault("info", req[p].key)
       /\ req' = [req EXCEPT ![p].pc = "copy", ![p].name = name]
  /\ UNCHANGED <<objects, records, nextId, uploaded, destroyed>>

(* Mutant: the error of the copy is not checked.                           *)
ArchiveCopy_Unchecked(p) ==
  /\ At(p, "archive", "copy")
  /\ TryCopy(p, req[p].key, "data", "active", "versions", "abort", "info")
  /\ UNCHANGED destroyed

ArchiveCopy(p) ==
  /\ At(p, "archive", "copy")
  /\ CopyData(p, "active", "versions", "info")

ArchiveInfo(p) ==
  /\ At(p, "archive", "info")
  /\ TryCopy(p, req[p].key, "info", "active", "versions", "info", "remove")
  /\ UNCHANGED destroyed

ArchiveRemove(p) ==
  /\ At(p, "archive", "remove")
  /\ RemovePair("active", req[p].key)
  /\ Goto(p, "record")
  /\ UNCHANGED <<records, nextId, uploaded, destroyed>>

ArchiveRecord(p) ==
  /\ At(p, "archive", "record")
  /\ AddRecord(req[p].name, req[p].key)
  /\ IF MaxFileVersions > 0 THEN Goto(p, "count") ELSE Finish(p)
  /\ UNCHANGED <<objects, uploaded, destroyed, faults>>

(* Mutant: one version too many is let through.                            *)
ArchiveCount_OffByOne(p) ==
  /\ At(p, "archive", "count")
  /\ NoFault
  /\ IF CountFileVersions(req[p].name) > MaxFileVersions + 1
     THEN Goto(p, "oldest") ELSE Finish(p)
  /\ UNCHANGED <<objects, records, nextId, uploaded, destroyed>>

(* When go-shares does not answer, nothing is evicted. *)
ArchiveCount(p) ==
  /\ At(p, "archive", "count")
  /\ \/ /\ NoFault
        /\ IF CountFileVersions(req[p].name) > MaxFileVersions
           THEN Goto(p, "oldest") ELSE Finish(p)
     \/ Fault("count", req[p].key) /\ Finish(p)
  /\ UNCHANGED <<objects, records, nextId, uploaded, destroyed>>

ArchiveOldest(p) ==
  /\ At(p, "archive", "oldest")
  /\ \/ \E r \in Oldest(req[p].name) :
          req' = [req EXCEPT ![p].pc = "evict", ![p].other = r.key,
                             ![p].id = r.id]
     \/ Named(req[p].name) = {} /\ Finish(p)
  /\ UNCHANGED <<objects, records, nextId, uploaded, destroyed, faults>>

ArchiveEvict(p) ==
  /\ At(p, "archive", "evict")
  /\ Destroy("versions", req[p].other)
  /\ Goto(p, "dropRecord")
  /\ UNCHANGED <<records, nextId, uploaded>>

ArchiveDrop(p) ==
  /\ At(p, "archive", "dropRecord")
  /\ DropRecord(p)
  /\ Finish(p)
  /\ UNCHANGED <<objects, nextId, uploaded, destroyed>>

----------------------------------------------------------------------------
(* Finding a version by its id.  The request names only the id; the        *)
(* handler lists the sidecars under "__versions__/", and asks go-shares for*)
(* the records of each file name it finds in them.  The record of an id    *)
(* never changes, so the model lets the request carry it from the start.   *)

BeginVersion(p, kind, r) ==
  /\ r \in records
  /\ Begin(p, [kind |-> kind, pc |-> "list", key |-> r.key, other |-> r.key,
               name |-> r.name, id |-> r.id])
  /\ UNCHANGED <<objects, records, nextId, uploaded, destroyed, faults>>

VersionList(p, kind) ==
  /\ At(p, kind, "list")
  /\ IF \E k \in Keys : Info("versions", k) /\ FileName[k] = req[p].name
     THEN Goto(p, "find") ELSE Finish(p)
  /\ UNCHANGED <<objects, records, nextId, uploaded, destroyed, faults>>

VersionFind(p, kind, found) ==
  /\ At(p, kind, "find")
  /\ IF \E r \in records : r.id = req[p].id
     THEN Goto(p, found) ELSE Finish(p)
  /\ UNCHANGED <<objects, records, nextId, uploaded, destroyed, faults>>

----------------------------------------------------------------------------
(* POST /files/{bucket}/versions/{id}/restore *)

(* The first active file that resolves to the version's name; the listing  *)
(* is ordered by key, which says nothing about the files.  When the listing*)
(* fails the handler goes on without archiving anything.                   *)
VRestoreScan(p) ==
  LET Same == {k \in Keys : Data("active", k)
                            /\ ResolvedName("active", k) = req[p].name} IN
  /\ At(p, "vrestore", "scan")
  /\ \/ /\ NoFault
        /\ \E k \in Same :
             req' = [req EXCEPT ![p].pc = "archCopy", ![p].other = k]
     \/ NoFault /\ Same = {} /\ Goto(p, "copy")
     \/ Fault("list", req[p].key) /\ Goto(p, "copy")
  /\ UNCHANGED <<objects, records, nextId, uploaded, destroyed>>

(* The errors of all three calls that archive the active file are ignored. *)
VRestoreArchCopy(p) ==
  /\ At(p, "vrestore", "archCopy")
  /\ TryCopy(p, req[p].other, "data", "active", "versions", "archCopy",
             "archInfo")
  /\ UNCHANGED destroyed

VRestoreArchInfo(p) ==
  /\ At(p, "vrestore", "archInfo")
  /\ TryCopy(p, req[p].other, "info", "active", "versions", "info",
             "archRemove")
  /\ UNCHANGED destroyed

VRestoreArchRemove(p) ==
  /\ At(p, "vrestore", "archRemove")
  /\ RemovePair("active", req[p].other)
  /\ Goto(p, "archRecord")
  /\ UNCHANGED <<records, nextId, uploaded, destroyed>>

VRestoreArchRecord(p) ==
  /\ At(p, "vrestore", "archRecord")
  /\ \/ NoFault /\ AddRecord(req[p].name, req[p].other)
     \/ Fault("createRecord", req[p].key) /\ UNCHANGED <<records, nextId>>
  /\ Goto(p, "copy")
  /\ UNCHANGED <<objects, uploaded, destroyed>>

VRestoreCopy(p) ==
  /\ At(p, "vrestore", "copy")
  /\ CopyData(p, "versions", "active", "info")

VRestoreInfo(p) ==
  /\ At(p, "vrestore", "info")
  /\ TryCopy(p, req[p].key, "info", "versions", "active", "info", "remove")
  /\ UNCHANGED destroyed

VRestoreRemove(p) ==
  /\ At(p, "vrestore", "remove")
  /\ RemovePair("versions", req[p].key)
  /\ Goto(p, "dropRecord")
  /\ UNCHANGED <<records, nextId, uploaded, destroyed>>

(* Mutant: the record of the restored version stays.                       *)
VRestoreDrop_Forgotten(p) ==
  /\ At(p, "vrestore", "dropRecord")
  /\ Finish(p)
  /\ UNCHANGED <<objects, records, nextId, uploaded, destroyed, faults>>

VRestoreDrop(p) ==
  /\ At(p, "vrestore", "dropRecord")
  /\ DropRecord(p)
  /\ Finish(p)
  /\ UNCHANGED <<objects, nextId, uploaded, destroyed>>

----------------------------------------------------------------------------
(* DELETE /files/{bucket}/versions/{id} *)

VDeleteRemove(p) ==
  /\ At(p, "vdelete", "remove")
  /\ Destroy("versions", req[p].key)
  /\ Goto(p, "dropRecord")
  /\ UNCHANGED <<records, nextId, uploaded>>

(* Here a failure is an error answer, after the objects are gone. *)
VDeleteDrop(p) ==
  /\ At(p, "vdelete", "dropRecord")
  /\ DropRecord(p)
  /\ Finish(p)
  /\ UNCHANGED <<objects, nextId, uploaded, destroyed>>

----------------------------------------------------------------------------
(* Requests that create a record begin only while MaxRecords allows it.    *)
RecordsLeft == nextId + Cardinality({p \in Reqs : Busy(p)}) < MaxRecords

ArchiveStep(p) ==
  \/ RecordsLeft /\ \E k \in Keys : BeginArchive(p, k)
  \/ ArchiveHead(p)
  \/ ArchiveResolve(p)
  \/ ArchiveCopy(p)
  \/ ArchiveInfo(p)
  \/ ArchiveRemove(p)
  \/ ArchiveRecord(p)
  \/ ArchiveCount(p)
  \/ ArchiveOldest(p)
  \/ ArchiveEvict(p)
  \/ ArchiveDrop(p)

VRestoreStep(p) ==
  \/ RecordsLeft /\ \E r \in records : BeginVersion(p, "vrestore", r)
  \/ VersionList(p, "vrestore")
  \/ VersionFind(p, "vrestore", "scan")
  \/ VRestoreScan(p)
  \/ VRestoreArchCopy(p)
  \/ VRestoreArchInfo(p)
  \/ VRestoreArchRemove(p)
  \/ VRestoreArchRecord(p)
  \/ VRestoreCopy(p)
  \/ VRestoreInfo(p)
  \/ VRestoreRemove(p)
  \/ VRestoreDrop(p)

VDeleteStep(p) ==
  \/ \E r \in records : BeginVersion(p, "vdelete", r)
  \/ VersionList(p, "vdelete")
  \/ VersionFind(p, "vdelete", "remove")
  \/ VDeleteRemove(p)
  \/ VDeleteDrop(p)
=============================================================================
