---------------------------- MODULE FileTraces ----------------------------
(***************************************************************************)
(* Uploads, shared links, and what else touches the traces of a file, or   *)
(* should: its deletion, archiving and restoration (FileTrash and          *)
(* FileVersions have their copies in detail), the reading of its metadata, *)
(* the consumer of content events.                                         *)
(***************************************************************************)
EXTENDS Uploads, SharedLinks

(* DeleteFileHandler of a file that is there. *)
BeginDelete(p, k) ==
  /\ file[k] = "active"
  /\ Start(p, "delete", "copy", k, None)
  /\ UNCHANGED traceVars

DeleteCopy(p) ==
  /\ At(p, "delete", "copy")
  /\ IF file[req[p].key] = "active" THEN Goto(p, "remove") ELSE Finish(p)
  /\ UNCHANGED <<traceVars, counters>>

(* It is no error if another request has removed the file.                 *)
DeleteRemove(p) ==
  /\ At(p, "delete", "remove")
  /\ file' = [file EXCEPT ![req[p].key] = "trash"]
  /\ told' = told \ {ObjectKey(req[p].key)}
  /\ Goto(p, "invalidate")
  /\ UNCHANGED <<uploadVars, jobs, topic, indexed, cacheVars, linkVars,
                 counters>>

(* Mutants: the event, or the links, are forgotten.                        *)
Cleanups_Links(r) == {[job |-> "links", key |-> r.key, id |-> r.id]}
Cleanups_Emit(r) == {[job |-> "emit", key |-> r.key, id |-> r.id]}

(* The goroutines that the handler starts with its answer.                 *)
Cleanups(r) == [job : {"emit", "links"}, key : {r.key}, id : {r.id}]

DeleteInvalidate(p) ==
  /\ At(p, "delete", "invalidate")
  /\ Invalidate(ObjectKey(req[p].key))
  /\ jobs' = jobs \cup Cleanups(req[p])
  /\ Finish(p)
  /\ UNCHANGED <<uploadVars, topic, indexed, told, file, linkVars>>

EmitDelete(j) ==
  /\ j \in jobs /\ j.job = "emit"
  /\ Emit("delete", ObjectKey(j.key), j.id)
  /\ jobs' = jobs \ {j}
  /\ UNCHANGED <<uploadVars, indexed, told, cacheVars, file, linkVars, req>>

(* The file is moved and nothing is said of it: no event, no change to the *)
(* cache or the links.                                                     *)
Move(k, to) ==
  /\ file' = [file EXCEPT ![k] = to]
  /\ UNCHANGED <<uploadVars, eventVars, cacheVars, linkVars, req, counters>>

(* ArchiveFileVersionHandler, or RestoreFileVersionHandler before it brings*)
(* another version back: the original is removed.                          *)
Archive(k) == file[k] = "active" /\ Move(k, "version")

(* RestoreFileHandler, RestoreFileVersionHandler: the file is copied back. *)
Restore(k) == file[k] \in {"trash", "version"} /\ Move(k, "active")

----------------------------------------------------------------------------
(* fetchMetadata, for a download or for a file of a listing. *)

BeginRead(p, k) ==
  /\ Start(p, "read", "lookup", k, None)
  /\ UNCHANGED traceVars

ReadLookup(p) ==
  /\ At(p, "read", "lookup")
  /\ IF ObjectKey(req[p].key) \in cache THEN Finish(p) ELSE Goto(p, "fetch")
  /\ UNCHANGED <<traceVars, counters>>

(* The sidecar, if it is there: tusd writes it when an upload starts.      *)
ReadFetch(p) ==
  LET k == req[p].key IN
  /\ At(p, "read", "fetch")
  /\ \/ file[k] \in {"none", "active"} /\ Goto(p, "store")
     \/ file[k] # "active" /\ Finish(p)
  /\ UNCHANGED <<traceVars, counters>>

ReadStore(p) ==
  LET n == ObjectKey(req[p].key) IN
  /\ At(p, "read", "store")
  /\ cache' = cache \cup {n}
  /\ late' = IF file[n.key] = "trash" THEN late \cup {n} ELSE late
  /\ Finish(p)
  /\ UNCHANGED <<uploadVars, eventVars, file, linkVars, counters>>

(* An entry is dropped 24 hours after it was stored. *)
Expire(n) ==
  /\ n \in cache
  /\ cache' = cache \ {n} /\ late' = late \ {n}
  /\ UNCHANGED <<uploadVars, eventVars, file, linkVars, req, counters>>

----------------------------------------------------------------------------
(* An upload of k waits for its announcement to be taken.                  *)
Announcing(k) == \E p \in Reqs : At(p, "tus", "notify") /\ req[p].key = k

(* An index event of k is on its way. *)
Unindexed(k) ==
  \/ \E m \in topic : m.action = "index" /\ m.key = UploadID(k)
  \/ \E h \in Reqs : forwarder[h].key = k
  \/ Announcing(k)

(* Messages are spread over the partitions by LeastBytes: any order.       *)
Deliver(m) ==
  /\ topic' = topic \ {m}
  /\ IF m.action = "index"
     THEN indexed' = indexed \cup {m.key} /\ UNCHANGED told
     ELSE indexed' = indexed \ {m.key} /\ told' = told \cup {m.key}
  /\ UNCHANGED <<uploadVars, jobs, cacheVars, file, linkVars, req,
                 counters>>

DeleteStep(p) == DeleteCopy(p) \/ DeleteRemove(p) \/ DeleteInvalidate(p)
ReadStep(p) == ReadLookup(p) \/ ReadFetch(p) \/ ReadStore(p)

Begin(p) ==
  \/ \E k \in Keys : BeginTus(p, k) \/ BeginDelete(p, k) \/ BeginRead(p, k)
  \/ \E l \in Links, k \in Keys : BeginDownload(p, l) \/ BeginShare(p, l, k)

Step(p) == TusStep(p) \/ DeleteStep(p) \/ ReadStep(p) \/ LinkStep(p)

Next ==
  \/ \E p \in Reqs : Begin(p) \/ Step(p) \/ Forward(p)
  \/ \E j \in jobs : EmitDelete(j) \/ RemoveLinks(j)
  \/ \E m \in topic : Deliver(m)
  \/ \E k \in Keys : Archive(k) \/ Restore(k)
  \/ \E n \in cache : Expire(n)
  \/ \E l \in Links : Revoke(l)
  \/ Tick \/ Crash

(* Requests and goroutines are scheduled, the consumer keeps up.           *)
Fairness ==
  /\ \A p \in Reqs : WF_vars(Step(p)) /\ WF_vars(Forward(p))
  /\ WF_vars(\E j \in jobs : EmitDelete(j) \/ RemoveLinks(j))
  /\ WF_vars(\E m \in topic : Deliver(m))

Spec == Init /\ [][Next]_vars
FairSpec == Spec /\ Fairness

----------------------------------------------------------------------------
(* A deletion of k has removed the file and not yet started its goroutines.*)
Deleting(k) == \E p \in Reqs : At(p, "delete", "invalidate") /\ req[p].key = k

(* A delete event of k is on its way. *)
Undeleted(k) ==
  \/ \E m \in topic : m.action = "delete" /\ m.key = ObjectKey(k)
  \/ \E j \in jobs : j.job = "emit" /\ j.key = k
  \/ Deleting(k)

(* A request that waits for its announcement to be taken waits for a       *)
(* goroutine that exists: the handler it runs in is the one that was stored*)
(* and is read from, whichever requests made handlers at the same time.    *)
AnnounceHeard ==
  \A p \in Reqs :
    At(p, "tus", "notify") => forwarder[req[p].handler] # Off

(* "Best-effort: remove shared link records so deleted files don't appear  *)
(* in the share history": when the goroutines of the deletion are done, no *)
(* link to a deleted file is live, except one that was made while the file *)
(* was deleted, and only after a failure or a crash are there others.      *)
(* Links to an archived file stay.                                         *)
LinksFollow ==
  faults = 0 =>
    \A l \in Links :
      /\ link[l].state = "live" /\ file[link[l].key] = "trash"
      /\ l \notin raced
      => \/ \E j \in jobs : j.job = "links" /\ j.key = link[l].key
         \/ Deleting(link[l].key)

(* A URL outlives the link it was signed for, expired, revoked or deleted  *)
(* with its file, by the TTL of URLs and the duration of a download at     *)
(* most.                                                                   *)
UrlBounded == \A l \in Links : url[l] <= link[l].end + TTL + Wait

(* A file that was uploaded and is there is in the index or an event says  *)
(* so, restored from the trash or from a version or not, unless a call     *)
(* failed or the process was killed; and what is in the index was uploaded.*)
IndexComplete ==
  \A k \in Keys :
    /\ faults = 0 /\ file[k] = "active"
         => UploadID(k) \in indexed \/ Unindexed(k)
    /\ UploadID(k) \in indexed => file[k] # "none"

(* When a file is in the trash the consumer has been told so since it was  *)
(* last removed, or an event or a goroutine of the deletion is on its way, *)
(* unless a call failed or the process was killed.                         *)
DeletionsTold ==
  faults = 0 =>
    \A k \in Keys :
      file[k] = "trash" /\ ObjectKey(k) \notin told => Undeleted(k)

(* The cache holds nothing of a file that is in the trash, except what a   *)
(* reader stored late that had begun before the deletion, or what Redis    *)
(* failed to delete.  What it holds of an archived file stays for its 24   *)
(* hours.                                                                  *)
CacheFollows ==
  faults = 0 =>
    \A k \in Keys :
      ObjectKey(k) \in cache \ late => file[k] # "trash" \/ Deleting(k)

----------------------------------------------------------------------------
(* The inductive invariant behind these. *)

(* What a request needs it has: a file, a link, a number, the handler of   *)
(* its bucket; what is being deleted was uploaded.                         *)
Equipped(p) ==
  /\ Busy(p) /\ req[p].op # "download" => req[p].key \in Keys
  /\ req[p].op \in {"share", "download"} => req[p].link \in Links
  /\ req[p].op = "delete" => req[p].id # 0 /\ file[req[p].key] # "none"
  /\ At(p, "tus", "serve") \/ At(p, "tus", "notify")
       => stored # None /\ req[p].handler = stored

WorkInv == \A p \in Reqs : Equipped(p)

(* A link has been made when somebody uses it, and none while it is being  *)
(* made; while a download lasts its link ends no sooner than the download  *)
(* began.                                                                  *)
Linked(p) ==
  /\ req[p].op = "share" => link[req[p].link] = NoLink
  /\ req[p].op = "download" => /\ link[req[p].link] # NoLink
                              /\ req[p].since <= now
                              /\ now <= req[p].since + Wait
  /\ At(p, "download", "sign") => req[p].since <= link[req[p].link].end

LinkInv ==
  /\ \A l \in Links : url[l] <= now + TTL
  /\ \A p, q \in Reqs :
       req[p].op = "share" /\ req[q].op = "share" /\ p # q
         => req[p].link # req[q].link
  /\ \A p \in Reqs : Linked(p)

(* Events are about files that were uploaded, and as long as nothing fails *)
(* every upload is in the index for good, under a name that no delete event*)
(* has, or an event says so.                                               *)
EventInv ==
  \A k \in Keys :
    /\ Unindexed(k) => file[k] # "none"
    /\ faults = 0 /\ file[k] # "none"
         => UploadID(k) \in indexed \/ Unindexed(k)

TracesInv ==
  /\ TypeOK /\ WorkInv /\ LinkInv /\ EventInv
  /\ LinksFollow /\ UrlBounded /\ IndexComplete /\ DeletionsTold
  /\ CacheFollows

----------------------------------------------------------------------------
(* Liveness. *)

(* Every request is answered: none waits for ever for its announcement to  *)
(* be taken.                                                               *)
Answered == \A p \in Reqs : Busy(p) ~> ~ Busy(p)

(* A file that has been uploaded gets into the index, whatever is done with*)
(* it meanwhile, unless a call fails or the process is killed.             *)
Indexed ==
  \A k \in Keys :
    file[k] = "active" ~> UploadID(k) \in indexed \/ faults > 0
=============================================================================
