------------------------------ MODULE Uploads ------------------------------
(***************************************************************************)
(* TUS requests: each bucket has one tusd handler, made by the first       *)
(* request that needs it.  tusd announces completed uploads on a channel of*)
(* the handler, without a buffer, and the request that completed one waits *)
(* until its announcement is taken.  A goroutine takes them, drops what is *)
(* cached under the ID of the upload and emits an event for the index.     *)
(***************************************************************************)
EXTENDS TraceStore

BeginTus(p, k) ==
  /\ Start(p, "tus", "load", k, None)
  /\ UNCHANGED traceVars

(* GetTusHandlerForBucket: Load. *)
TusLoad(p) ==
  /\ At(p, "tus", "load")
  /\ IF stored = None
     THEN Goto(p, "make")
     ELSE req' = [req EXCEPT ![p].handler = stored, ![p].pc = "serve"]
  /\ UNCHANGED <<traceVars, counters>>

(* Mutant: each request goes on with the handler it has made.              *)
Actual_Own(p) == p

(* The handler that LoadOrStore returns. *)
Actual(p) == IF stored = None THEN p ELSE stored

(* Mutant: a goroutine is started for every handler that is made.          *)
Listening_Every(p) == [forwarder EXCEPT ![p] = Reading]

(* The goroutine is started for the handler that was stored, no other. *)
Listening(p) ==
  IF stored = None THEN [forwarder EXCEPT ![p] = Reading] ELSE forwarder

(* NewTusHandlerForBucket and LoadOrStore. *)
TusMake(p) ==
  /\ At(p, "tus", "make")
  /\ forwarder' = Listening(p)
  /\ stored' = IF stored = None THEN p ELSE stored
  /\ req' = [req EXCEPT ![p].handler = Actual(p), ![p].pc = "serve"]
  /\ UNCHANGED <<eventVars, cacheVars, file, linkVars, counters>>

(* Mutant: uploads are not announced, as with NewTusHandler.               *)
Completed_Silent(p) == Finish(p)

(* NotifyCompleteUploads *)
Completed(p) == Goto(p, "notify")

(* The PATCH that completes the upload, or any other TUS request. *)
TusServe(p) ==
  LET k == req[p].key IN
  /\ At(p, "tus", "serve")
  /\ \/ /\ file[k] = "none"
        /\ file' = [file EXCEPT ![k] = "active"]
        /\ Completed(p)
     \/ UNCHANGED file /\ Finish(p)
  /\ UNCHANGED <<uploadVars, eventVars, cacheVars, linkVars, counters>>

(* The goroutine takes the announcement, and the request is answered.      *)
TusNotify(p) ==
  LET h == req[p].handler IN
  /\ At(p, "tus", "notify")
  /\ forwarder[h] = Reading
  /\ forwarder' = [forwarder EXCEPT ![h] =
                     [pc |-> "invalidate", key |-> req[p].key]]
  /\ Finish(p)
  /\ UNCHANGED <<stored, eventVars, cacheVars, file, linkVars, counters>>

(* Nothing is ever cached under the name that is dropped.                  *)
ForwardInvalidate(h) ==
  /\ forwarder[h].pc = "invalidate"
  /\ Invalidate(UploadID(forwarder[h].key))
  /\ forwarder' = [forwarder EXCEPT ![h].pc = "emit"]
  /\ UNCHANGED <<stored, eventVars, file, linkVars, req>>

(* Sent or not, the next announcement is taken. *)
ForwardEmit(h) ==
  /\ forwarder[h].pc = "emit"
  /\ Emit("index", UploadID(forwarder[h].key), 0)
  /\ forwarder' = [forwarder EXCEPT ![h] = Reading]
  /\ UNCHANGED <<stored, jobs, indexed, told, cacheVars, file, linkVars, req>>

Forward(h) == ForwardInvalidate(h) \/ ForwardEmit(h)

TusStep(p) == TusLoad(p) \/ TusMake(p) \/ TusServe(p) \/ TusNotify(p)
=============================================================================
