----------------------------- MODULE FileStore -----------------------------
(***************************************************************************)
(* What the file handlers of the gateway work on: the objects of one user  *)
(* bucket in the S3 store, the version records go-shares keeps for that    *)
(* bucket, and the requests that are inside a handler.                     *)
(*                                                                         *)
(* A file that was uploaded under a TUS id (its key) is up to six objects: *)
(* the data and the ".info" sidecar, each possibly at the key itself, under*)
(* "__trash__/" and under "__versions__/".  No handler holds a lock and    *)
(* there is no transaction: each S3 or go-shares call of a handler is a    *)
(* step of its own and the steps of concurrent requests interleave.        *)
(***************************************************************************)
EXTENDS Naturals, FiniteSets, Sequences

CONSTANTS
  Keys,             \* TUS ids, the object keys of uploaded files
  Files,            \* user-visible file names
  FileName,         \* the "filename" metadata of each upload
  Reqs,             \* slots for concurrent requests (goroutines of net/http)
  MaxFileVersions,  \* App.MaxFileVersions, 0 is "unlimited"
  Overlap,          \* which kinds of request may overlap on one file name
  Faulty,           \* the calls that may fail
  MaxFaults,        \* bound on the number of failed calls
  MaxRecords        \* bound on the number of version records ever created

Kinds  == {"delete", "restore", "archive", "vrestore", "vdelete"}
Places == {"active", "trash", "versions"}
Parts  == {"data", "info"}

ASSUME NamesAssumption ==
  /\ FileName \in [Keys -> Files]
  /\ Keys \cap Files = {}
ASSUME NumbersAssumption ==
  /\ MaxFileVersions \in Nat
  /\ MaxFaults \in Nat
  /\ MaxRecords \in Nat
ASSUME OverlapAssumption ==
  /\ Overlap \subseteq Kinds \X Kinds
  /\ \A pair \in Overlap : <<pair[2], pair[1]>> \in Overlap

VARIABLES
  objects,    \* the objects in the bucket, a set of <<place, key, part>>
  records,    \* the version records of the bucket in go-shares
  nextId,     \* the id the next version record gets
  req,        \* the request in each slot, or Idle
  uploaded,   \* history: the keys whose upload has completed
  destroyed,  \* history: the keys whose last copy was deleted on purpose
  faults      \* history: the file names of the calls that have failed

vars == <<objects, records, nextId, req, uploaded, destroyed, faults>>

----------------------------------------------------------------------------
(* The types of the state. *)

Objects == Places \X Keys \X Parts

(* A version record: the name is the one resolveFileName found, which is   *)
(* the key itself when the sidecar could not be read.                      *)
Records == [id : Nat, name : Files \cup Keys, key : Keys]

Labels == {"head", "headActive", "resolve", "copy", "info", "remove",
           "record", "count", "oldest", "evict", "list", "find", "scan",
           "archCopy", "archInfo", "archRemove", "archRecord", "dropRecord"}

(* A request inside a handler: the call it makes next, the key it works on,*)
(* the name and id of the version record in its hands, and a second key:   *)
(* the version to evict, or the active file that a restore archives first. *)
Requests == [kind : Kinds, pc : Labels, key : Keys, other : Keys,
             name : Files \cup Keys, id : Nat]

Idle == [kind |-> "none", pc |-> "idle"]

TypeOK ==
  /\ objects \subseteq Objects
  /\ records \subseteq Records
  /\ nextId \in Nat
  /\ req \in [Reqs -> Requests \cup {Idle}]
  /\ uploaded \subseteq Keys
  /\ destroyed \subseteq Keys
  /\ faults \in Seq(Files)

----------------------------------------------------------------------------
(* The S3 store. *)

Data(place, k) == <<place, k, "data">> \in objects
Info(place, k) == <<place, k, "info">> \in objects

Kept(k) == \E place \in Places : Data(place, k)

(* An object copied within the bucket: nothing when there is no source.    *)
Copied(from, to, k, part) ==
  IF <<from, k, part>> \in objects THEN {<<to, k, part>>} ELSE {}

(* resolveFileName: the name in the sidecar, the key without a sidecar.    *)
ResolvedName(place, k) == IF Info(place, k) THEN FileName[k] ELSE k

----------------------------------------------------------------------------
(* Requests. *)

Busy(p) == req[p].pc # "idle"

At(p, kind, pc) == req[p].kind = kind /\ req[p].pc = pc

(* Nobody is working on the file name. *)
QuietName(f) == \A p \in Reqs : Busy(p) => FileName[req[p].key] # f

Goto(p, pc) == req' = [req EXCEPT ![p].pc = pc]

(* The handler returns, with success or with an error answer. *)
Finish(p) == req' = [req EXCEPT ![p] = Idle]

(* Nothing in the gateway keeps two requests for the same file apart; which*)
(* kinds of request the clients let overlap on one file name is a parameter*)
(* of the model.                                                           *)
Compatible(kind, k) ==
  \A q \in Reqs :
    Busy(q) /\ FileName[req[q].key] = FileName[k]
      => <<kind, req[q].kind>> \in Overlap

Begin(p, r) ==
  /\ ~ Busy(p)
  /\ Compatible(r.kind, r.key)
  /\ req' = [req EXCEPT ![p] = r]

----------------------------------------------------------------------------
(* Failures.  A call whose error the handler checks ends the request       *)
(* (Abort); one whose error it ignores fails silently (Fault).             *)

NoFault == UNCHANGED faults

Fault(call, k) ==
  /\ call \in Faulty
  /\ Len(faults) < MaxFaults
  /\ faults' = Append(faults, FileName[k])

(* No call has failed in a request on a file of that name. *)
Spared(f) == \A i \in DOMAIN faults : faults[i] # f

(* The request ends where it is: a checked call failed, the client went    *)
(* away and cancelled the context every call carries, or the process       *)
(* crashed.  Nothing that was done is undone.                              *)
Abort(p) ==
  /\ Busy(p)
  /\ Fault("abort", req[p].key)
  /\ Finish(p)
  /\ UNCHANGED <<objects, records, nextId, uploaded, destroyed>>

----------------------------------------------------------------------------
(* Steps several handlers share. *)

(* A checked CopyObject of the data; a source that is gone by now is an    *)
(* error answer.                                                           *)
CopyData(p, from, to, next) ==
  LET k == req[p].key IN
  /\ IF Data(from, k)
     THEN objects' = objects \cup {<<to, k, "data">>} /\ Goto(p, next)
     ELSE UNCHANGED objects /\ Finish(p)
  /\ NoFault
  /\ UNCHANGED <<records, nextId, uploaded, destroyed>>

(* A CopyObject whose error is ignored. *)
TryCopy(p, k, part, from, to, call, next) ==
  /\ Goto(p, next)
  /\ \/ NoFault /\ objects' = objects \cup Copied(from, to, k, part)
     \/ Fault(call, k) /\ UNCHANGED objects
  /\ UNCHANGED <<records, nextId, uploaded>>

(* Mutant: DeleteObjects is given the data alone, the sidecar stays.       *)
RemovePair_DataOnly(place, k) ==
  NoFault /\ objects' = objects \ {<<place, k, "data">>}

(* The keys a DeleteObjects call removes: data and sidecar, or, when the   *)
(* call fails or reports errors for single keys that no handler looks at,  *)
(* only some of them.                                                      *)
RemovePair(place, k) ==
  \/ NoFault /\ objects' = objects \ {<<place, k, part>> : part \in Parts}
  \/ /\ Fault("remove", k)
     /\ \E gone \in {{}} \cup {{part} : part \in Parts} :
          objects' = objects \ {<<place, k, part>> : part \in gone}

(* A deletion that is meant to be permanent. *)
Destroy(place, k) ==
  /\ RemovePair(place, k)
  /\ destroyed' = destroyed \cup {j \in {k} : ~ Kept(j)'}

AddRecord(name, k) ==
  /\ records' = records \cup {[id |-> nextId, name |-> name, key |-> k]}
  /\ nextId' = nextId + 1

(* DeleteFileVersion; its error is only logged. *)
DropRecord(p) ==
  \/ NoFault /\ records' = {r \in records : r.id # req[p].id}
  \/ Fault("dropRecord", req[p].key) /\ UNCHANGED records

----------------------------------------------------------------------------
(* The environment. *)

Init ==
  /\ objects = {}
  /\ records = {}
  /\ nextId = 0
  /\ req = [p \in Reqs |-> Idle]
  /\ uploaded = {}
  /\ destroyed = {}
  /\ faults = <<>>

(* tusd completes an upload: data and sidecar are in the bucket. *)
Upload(k) ==
  /\ k \notin uploaded
  /\ uploaded' = uploaded \cup {k}
  /\ objects' = objects \cup {<<"active", k, part>> : part \in Parts}
  /\ UNCHANGED <<records, nextId, req, destroyed, faults>>

(* The bucket's lifecycle rule expires what lies under "__trash__/" after  *)
(* 30 days.  A request that put it there ended long ago, but a restore may *)
(* be at work on the file at that very moment; that mischance counts as a  *)
(* fault.                                                                  *)
ExpireTrash(k) ==
  /\ Data("trash", k) \/ Info("trash", k)
  /\ \/ QuietName(FileName[k]) /\ NoFault
     \/ /\ ~ QuietName(FileName[k])
        /\ \A p \in Reqs :
             Busy(p) /\ FileName[req[p].key] = FileName[k]
               => req[p].kind = "restore"
        /\ Fault("expiry", k)
  /\ objects' = objects \ {<<"trash", k, part>> : part \in Parts}
  /\ destroyed' = destroyed \cup {j \in {k} \cap uploaded : ~ Kept(j)'}
  /\ UNCHANGED <<records, nextId, req, uploaded>>
=============================================================================
