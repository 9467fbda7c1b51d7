---------------------------- MODULE SharedLinks ----------------------------
(***************************************************************************)
(* Links by which a file is shared with the public: ShareFileHandler makes *)
(* one, handleShareDownload trades it for a URL that the S3 store accepts  *)
(* for a while, DeleteSharedLinkHandler revokes it, and the deletion of the*)
(* file removes it.                                                        *)
(***************************************************************************)
EXTENDS TraceStore

BeginShare(p, l, k) ==
  /\ link[l] = NoLink /\ \A q \in Reqs : req[q].link # l
  /\ Start(p, "share", "head", k, l)
  /\ UNCHANGED traceVars

(* The file must be there; the expiry is counted from here.                *)
ShareHead(p) ==
  /\ At(p, "share", "head")
  /\ IF file[req[p].key] = "active"
     THEN req' = [req EXCEPT ![p].since = now, ![p].pc = "create"]
     ELSE Finish(p)
  /\ UNCHANGED <<traceVars, counters>>

(* CreateSharedLinkRecord *)
ShareCreate(p) ==
  LET l == req[p].link IN
  /\ At(p, "share", "create")
  /\ link' = [link EXCEPT ![l] = [state |-> "live", key |-> req[p].key,
                                  end |-> req[p].since + Expiry]]
  /\ raced' = IF file[req[p].key] = "active" THEN raced ELSE raced \cup {l}
  /\ Finish(p)
  /\ UNCHANGED <<uploadVars, eventVars, cacheVars, file, url, now,
                 counters>>

----------------------------------------------------------------------------
BeginDownload(p, l) ==
  /\ link[l] # NoLink
  /\ Start(p, "download", "get", None, l)
  /\ UNCHANGED traceVars

(* Mutant: a link is good as long as there is a record of it.              *)
Good_Record(l) == link[l].state = "live"

(* The link has a record and has not expired.                              *)
Good(l) == link[l].state = "live" /\ now <= link[l].end

DownloadGet(p) ==
  /\ At(p, "download", "get")
  /\ IF Good(req[p].link) THEN Goto(p, "sign") ELSE Finish(p)
  /\ UNCHANGED <<traceVars, counters>>

(* The password is read and compared: right, and a URL is signed, or wrong.*)
DownloadSign(p) ==
  /\ At(p, "download", "sign")
  /\ \/ url' = [url EXCEPT ![req[p].link] = now + TTL]
     \/ UNCHANGED url
  /\ Finish(p)
  /\ UNCHANGED <<uploadVars, eventVars, cacheVars, file, link, now, raced,
                 counters>>

----------------------------------------------------------------------------
Ended(r) == [r EXCEPT !.state = "gone", !.end = IF @ < now THEN @ ELSE now]

(* DeleteSharedLinkHandler *)
Revoke(l) ==
  /\ link[l].state = "live"
  /\ link' = [link EXCEPT ![l] = Ended(@)]
  /\ UNCHANGED <<uploadVars, eventVars, cacheVars, file, url, now, raced,
                 req, counters>>

(* DeleteSharedLinksByFileKey, in a goroutine of the file's deletion.      *)
RemoveLinks(j) ==
  /\ j \in jobs /\ j.job = "links"
  /\ \/ /\ link' = [l \in Links |->
               IF link[l].state = "live" /\ link[l].key = j.key
               THEN Ended(link[l]) ELSE link[l]]
        /\ NoFault
     \/ UNCHANGED link /\ Fault("links")
  /\ jobs' = jobs \ {j}
  /\ UNCHANGED <<uploadVars, topic, indexed, told, cacheVars, file,
                 url, now, raced, req>>

(* The clock, which matters to links only.  A download by link takes Wait  *)
(* at most: the client decides when its password arrives.                  *)
Tick ==
  /\ now < MaxNow
  /\ \E l \in Links : link[l] # NoLink \/ \E p \in Reqs : req[p].link = l
  /\ \A p \in Reqs : req[p].op = "download" => now < req[p].since + Wait
  /\ now' = now + 1
  /\ UNCHANGED <<uploadVars, eventVars, cacheVars, file, link, url, raced,
                 req, counters>>

LinkStep(p) ==
  ShareHead(p) \/ ShareCreate(p) \/ DownloadGet(p) \/ DownloadSign(p)
=============================================================================
