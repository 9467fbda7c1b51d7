---------------------------- MODULE TraceStore ----------------------------
(***************************************************************************)
(* What the life of a file leaves behind elsewhere: its metadata cached in *)
(* Redis, the events about it in the Kafka topic for content and the search*)
(* index that a consumer builds from them, the links it is shared by, the  *)
(* TUS handler of its bucket.  One bucket.  A file is known by the key of  *)
(* its object, which is never used again; tusd's ID of the upload that made*)
(* it, the object's key and the multipart upload's joined by "+", is       *)
(* another name.                                                           *)
(***************************************************************************)
EXTENDS Naturals, FiniteSets

CONSTANTS
  Keys,      \* the files, by object key
  Links,     \* IDs of shared links
  Reqs,      \* slots for concurrent requests; also names their TUS handlers
  None,      \* no handler, no key, no link
  Expiry,    \* how long a link is good for: at most maxPresignExpiry
  TTL,       \* shareDownloadPresignTTL
  Wait,      \* how long a download by link takes at most
  Faulty,    \* the calls that may fail, and "crash"
  MaxFaults, \* bound on failed calls and crashes
  MaxBegun,  \* bound on requests
  MaxNow     \* bound on the clock

ASSUME NoneAssumption == None \notin Keys \cup Links \cup Reqs
ASSUME TimesAssumption == {Expiry, TTL, Wait, MaxNow} \subseteq Nat
ASSUME BoundsAssumption == {MaxFaults, MaxBegun} \subseteq Nat

VARIABLES
  file,      \* where each file is: "none", "active", "trash" or "version"
  cache,     \* the names with metadata in Redis
  stored,    \* the handler in tusHandlers, named by the slot that made it
  forwarder, \* the goroutine that reads the handler's CompleteUploads
  jobs,      \* goroutines that deletions have left behind
  topic,     \* content events that have not reached the index
  indexed,   \* the names in the index
  link,      \* the shared links
  url,       \* until when the last URL signed for a link can be used
  now,       \* the time
  req,       \* the request in each slot
  faults, begun, \* counters for the bounds
  told,      \* history: names the consumer was told to delete, since the
             \* file was last removed
  late,      \* history: entries cached when their file was in the trash
  raced      \* history: links made after their file was gone

uploadVars == <<stored, forwarder>>
eventVars  == <<jobs, topic, indexed, told>>
cacheVars  == <<cache, late>>
linkVars   == <<link, url, now, raced>>
counters   == <<faults, begun>>
traceVars == <<uploadVars, eventVars, cacheVars, file, linkVars>>
vars == <<traceVars, req, counters>>

Off == [pc |-> "off", key |-> None]
Reading == [pc |-> "read", key |-> None]
NoLink == [state |-> "none", key |-> None, end |-> 0]
Idle == [op |-> "none", pc |-> "idle", key |-> None, handler |-> None,
         link |-> None, since |-> 0, id |-> 0]

(* The name in the routes, the listings and the links, and tusd's.         *)
ObjectKey(k) == [as |-> "object", key |-> k]
UploadID(k) == [as |-> "upload", key |-> k]
Names == [as : {"object", "upload"}, key : Keys]

Events == [action : {"index"}, key : {UploadID(k) : k \in Keys}, id : {0}]
     \cup [action : {"delete"}, key : {ObjectKey(k) : k \in Keys},
           id : 1..MaxBegun]
Announced == [pc : {"invalidate", "emit"}, key : Keys]
Jobs == [job : {"emit", "links"}, key : Keys, id : 1..MaxBegun]
SharedBy == [state : {"live", "gone"}, key : Keys, end : 0..MaxNow + Expiry]

Labels == {"load", "make", "serve", "notify", "copy", "remove", "invalidate",
           "lookup", "fetch", "store", "head", "create", "get", "sign"}
Requests == [op : {"tus", "delete", "read", "share", "download"}, pc : Labels,
             key : Keys \cup {None}, handler : Reqs \cup {None},
             link : Links \cup {None}, since : 0..MaxNow, id : 0..MaxBegun]

TypeOK ==
  /\ file \in [Keys -> {"none", "active", "trash", "version"}]
  /\ cache \subseteq Names /\ late \subseteq Names
  /\ stored \in Reqs \cup {None}
  /\ forwarder \in [Reqs -> {Off, Reading} \cup Announced]
  /\ \A h \in Reqs : forwarder[h] # Off <=> h = stored
  /\ jobs \subseteq Jobs /\ topic \subseteq Events
  /\ indexed \subseteq Names /\ told \subseteq Names
  /\ link \in [Links -> {NoLink} \cup SharedBy]
  /\ url \in [Links -> 0..MaxNow + TTL] /\ raced \subseteq Links
  /\ now \in 0..MaxNow
  /\ req \in [Reqs -> {Idle} \cup Requests]
  /\ faults \in 0..MaxFaults /\ begun \in 0..MaxBegun

(* The process has just started; files may be there from before. *)
Init ==
  /\ file \in [Keys -> {"none", "active"}]
  /\ indexed = {UploadID(k) : k \in {i \in Keys : file[i] = "active"}}
  /\ cache = {} /\ jobs = {} /\ topic = {}
  /\ told = {} /\ late = {} /\ raced = {}
  /\ stored = None /\ forwarder = [h \in Reqs |-> Off]
  /\ link = [l \in Links |-> NoLink] /\ url = [l \in Links |-> 0]
  /\ now = 0 /\ req = [p \in Reqs |-> Idle] /\ faults = 0 /\ begun = 0

----------------------------------------------------------------------------
Busy(p) == req[p] # Idle
At(p, op, pc) == req[p].op = op /\ req[p].pc = pc
Goto(p, pc) == req' = [req EXCEPT ![p].pc = pc]
Finish(p) == req' = [req EXCEPT ![p] = Idle]

Start(p, op, pc, k, l) ==
  /\ ~ Busy(p)
  /\ begun < MaxBegun
  /\ begun' = begun + 1
  /\ req' = [req EXCEPT ![p] =
       [op |-> op, pc |-> pc, key |-> k, handler |-> None, link |-> l,
        since |-> IF l = None THEN 0 ELSE now,
        id |-> IF op = "delete" THEN begun + 1 ELSE 0]]
  /\ UNCHANGED faults

NoFault == UNCHANGED counters

Fault(call) ==
  /\ call \in Faulty
  /\ faults < MaxFaults
  /\ faults' = faults + 1
  /\ UNCHANGED begun

(* Mutant: the cache is left alone.                                        *)
Invalidate_Not(n) == UNCHANGED cacheVars /\ NoFault

(* Redis.Del of the metadata under a name; its errors are ignored. *)
Invalidate(n) ==
  \/ cache' = cache \ {n} /\ late' = late \ {n} /\ NoFault
  \/ UNCHANGED cacheVars /\ Fault("redis")

(* EmitContent; its errors are ignored or logged. *)
Emit(action, n, id) ==
  \/ topic' = topic \cup {[action |-> action, key |-> n, id |-> id]} /\ NoFault
  \/ UNCHANGED topic /\ Fault("emit")

(* The process is killed and starts again. *)
Crash ==
  /\ Fault("crash")
  /\ req' = [p \in Reqs |-> Idle]
  /\ stored' = None /\ forwarder' = [h \in Reqs |-> Off]
  /\ jobs' = {}
  /\ UNCHANGED <<topic, indexed, told, cacheVars, file, linkVars>>
=============================================================================
