--------------------------- MODULE BucketCustody ---------------------------
(***************************************************************************)
(* What the service promises to the owner of a bucket, as long as none is  *)
(* renamed: a bucket begins empty; what is stored in it stays there until  *)
(* the owner has put the bucket in the trash and has not taken it back in  *)
(* the retention time; only then is its content deleted, page by page, and *)
(* only when nothing is left in it does the bucket cease to exist.  Another*)
(* bucket of that name starts over: live, empty, and not condemned by what *)
(* became of the earlier one.                                              *)
(***************************************************************************)
CONSTANTS Buckets, Keys
VARIABLES
  life,    \* absent, live, trash (in the trash) or due (past retention)
  content  \* the keys of the objects in each bucket

custody == <<life, content>>

Become(b, from, to) ==
  life[b] = from /\ life' = [life EXCEPT ![b] = to]

Create(b)  == Become(b, "absent", "live")  /\ UNCHANGED content
Trash(b)   == Become(b, "live", "trash")   /\ UNCHANGED content
Restore(b) == Become(b, "trash", "live")   /\ UNCHANGED content
Expire(b)  == Become(b, "trash", "due")    /\ UNCHANGED content
Drop(b)    == /\ content[b] = {}
              /\ Become(b, "due", "absent") /\ UNCHANGED content

(* An upload, or the marker of a folder; a bucket that is in the trash is  *)
(* closed to clients, but a request may have been let through before.      *)
Store(b, keys) ==
  /\ life[b] # "absent"
  /\ content' = [content EXCEPT ![b] = @ \cup keys]
  /\ UNCHANGED life

(* The purge deletes a page of objects. *)
Purge(b, keys) ==
  /\ life[b] = "due"
  /\ content' = [content EXCEPT ![b] = @ \ keys]
  /\ UNCHANGED life

Init ==
  /\ life = [b \in Buckets |-> "absent"]
  /\ content = [b \in Buckets |-> {}]

Next ==
  \E b \in Buckets :
    \/ Create(b) \/ Trash(b) \/ Restore(b) \/ Expire(b) \/ Drop(b)
    \/ \E keys \in SUBSET Keys : Store(b, keys) \/ Purge(b, keys)

Spec == Init /\ [][Next]_custody
=============================================================================
