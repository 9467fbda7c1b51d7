---------------------------- MODULE FileStream ----------------------------
(***************************************************************************)
(* Streaming a file: StreamFileHandler asks the store for the file's size, *)
(* reads the Range header against it and fetches that part of the file.    *)
(* The file can go to the trash and come back between the two calls.  The  *)
(* client is a player that fetches the file piece by piece, or anyone who  *)
(* sends any header.                                                       *)
(***************************************************************************)
EXTENDS Integers, FiniteSets

CONSTANTS
  Sizes,    \* the sizes of files
  MaxInt,   \* the largest int64
  Numbers,  \* the numbers in Range headers, -1 for what is not one
  Pieces    \* the sizes of the pieces the player fetches

ASSUME SizesAssumption ==
  /\ MaxInt \in Nat
  /\ Sizes \subseteq 0..MaxInt
  /\ Numbers \subseteq Int
  /\ Pieces \subseteq Nat \ {0}

VARIABLES
  size,     \* the size of the file
  present,  \* the file is at its place
  req,      \* the request in the handler
  answer,   \* the answer to it
  pos       \* the position of the player, -1 when there is none

vars == <<size, present, req, answer, pos>>

Bytes == 0..(size - 1)

----------------------------------------------------------------------------
(* Range headers.  OtherUnit: a unit other than "bytes", or that in other  *)
(* letters, which by the standard is the same.  Several: a comma in the    *)
(* list of ranges.  Malformed: bytes, but no dash, or nothing on either    *)
(* side of it.                                                             *)

None      == [form |-> "none"]
OtherUnit == [form |-> "unit"]                           \* Bytes=..., lines=...
Several   == [form |-> "several"]                        \* bytes=i-j,k-l
Malformed == [form |-> "malformed"]
Suffix(n) == [form |-> "suffix", n |-> n]                \* bytes=-n
Open(i)   == [form |-> "open", first |-> i]              \* bytes=i-
Closed(i, j) == [form |-> "closed", first |-> i, last |-> j]  \* bytes=i-j

Headers == {None, OtherUnit, Several, Malformed}
           \cup {Suffix(n) : n \in Numbers}
           \cup {Open(i) : i \in Numbers}
           \cup {Closed(ij[1], ij[2]) : ij \in Numbers \X Numbers}

PlayerHeaders == {Closed(i, i + n - 1) : i \in 0..MaxInt, n \in Pieces}

(* strconv.ParseInt: an error for what is not a number and what does not   *)
(* fit into an int64.  (A plus sign before a number, which the grammar of  *)
(* the standard does not have, is read over.)                              *)
Parses(n) == n \in 0..MaxInt

Error == [ok |-> FALSE, start |-> 0, end |-> 0]
Slice(start, end) == [ok |-> TRUE, start |-> start, end |-> end]

(* Mutant: the end of the range is taken as it comes.                      *)
Clamp_Not(end) == end

Clamp(end) == IF end >= size THEN size - 1 ELSE end

(* Mutant: a suffix longer than the file starts before its first byte, a   *)
(* range that ends beyond the file is refused.                             *)
ParseByteRange_Strict(h) ==
  CASE h.form \in {"unit", "several", "malformed"} -> Error
    [] h.form = "suffix" ->
         IF Parses(h.n) /\ h.n > 0 THEN Slice(size - h.n, size - 1)
                                  ELSE Error
    [] h.form = "open" ->
         IF Parses(h.first) /\ h.first < size
         THEN Slice(h.first, size - 1) ELSE Error
    [] h.form = "closed" ->
         IF Parses(h.first) /\ h.first <= h.last /\ h.last < size
         THEN Slice(h.first, h.last) ELSE Error

(* parseByteRange *)
ParseByteRange(h) ==
  CASE h.form \in {"unit", "several", "malformed"} -> Error
    [] h.form = "suffix" ->
         IF Parses(h.n) /\ h.n > 0
         THEN Slice(IF size - h.n < 0 THEN 0 ELSE size - h.n, size - 1)
         ELSE Error
    [] h.form = "open" ->
         IF Parses(h.first) /\ h.first < size
         THEN Slice(h.first, size - 1) ELSE Error
    [] h.form = "closed" ->
         IF /\ Parses(h.first) /\ h.first < size
            /\ Parses(h.last) /\ h.last >= h.first
         THEN Slice(h.first, Clamp(h.last)) ELSE Error

----------------------------------------------------------------------------
NoRequest == [pc |-> "idle", header |-> None, start |-> 0, end |-> 0]
NoAnswer == [status |-> 0, range |-> <<>>, length |-> 0, body |-> {}]

Refusal(status) == [NoAnswer EXCEPT !.status = status]

TypeOK ==
  /\ size \in Sizes
  /\ present \in BOOLEAN
  /\ req \in [pc : {"idle", "head", "range", "full", "slice"},
              header : Headers \cup PlayerHeaders, start : 0..MaxInt,
              end : (-1)..MaxInt]
  /\ answer.status \in {0, 200, 206, 404, 416, 500}
  /\ pos \in (-1)..size

Init ==
  /\ size \in Sizes
  /\ present = TRUE
  /\ req = NoRequest
  /\ answer = NoAnswer
  /\ pos = -1

Send(h) == req' = [NoRequest EXCEPT !.pc = "head", !.header = h]
Reply(a) == answer' = a /\ req' = [req EXCEPT !.pc = "idle"]
Goto(pc) == req' = [req EXCEPT !.pc = pc]

(* Anyone sends any header. *)
Request(h) ==
  /\ req.pc = "idle" /\ answer = NoAnswer /\ pos = -1
  /\ Send(h)
  /\ UNCHANGED <<size, present, answer, pos>>

(* HeadObject: the size of the file, or any error of the store.            *)
HeadObject ==
  /\ req.pc = "head"
  /\ \/ present /\ Goto("range") /\ UNCHANGED answer
     \/ ~ present /\ Reply(Refusal(404))
     \/ Reply(Refusal(500))
  /\ UNCHANGED <<size, present, pos>>

ReadRange ==
  LET r == ParseByteRange(req.header) IN
  /\ req.pc = "range"
  /\ IF req.header = None THEN Goto("full") /\ UNCHANGED answer
     ELSE IF r.ok
     THEN /\ req' = [req EXCEPT !.pc = "slice", !.start = r.start,
                                !.end = r.end]
          /\ UNCHANGED answer
     ELSE Reply(Refusal(416))
  /\ UNCHANGED <<size, present, pos>>

(* GetObject, all of it or a range; the headers come from the first call.  *)
Content ==
  IF req.pc = "full"
  THEN [status |-> 200, range |-> <<>>, length |-> size, body |-> Bytes]
  ELSE [status |-> 206, range |-> <<req.start, req.end>>,
        length |-> req.end - req.start + 1,
        body |-> (req.start .. req.end) \cap Bytes]

GetObject ==
  /\ req.pc \in {"full", "slice"}
  /\ \/ present /\ Reply(Content)
     \/ ~ present /\ Reply(Refusal(404))
     \/ Reply(Refusal(500))
  /\ UNCHANGED <<size, present, pos>>

Handle == HeadObject \/ ReadRange \/ GetObject

(* A request has been answered, and that is that. *)
Done ==
  /\ answer # NoAnswer /\ pos = -1
  /\ answer' = NoAnswer
  /\ UNCHANGED <<size, present, req, pos>>

(* The file goes to the trash, or comes back. *)
Delete  == present /\ present' = FALSE /\ UNCHANGED <<size, req, answer, pos>>
Restore == ~ present /\ present' = TRUE /\ UNCHANGED <<size, req, answer, pos>>

----------------------------------------------------------------------------
(* The player. *)

Play ==
  /\ req.pc = "idle" /\ answer = NoAnswer /\ pos = -1
  /\ pos' = 0
  /\ UNCHANGED <<size, present, req, answer>>

(* The next piece, starting where the last one ended.                      *)
Fetch ==
  /\ req.pc = "idle" /\ answer = NoAnswer /\ pos \in Bytes
  /\ \E n \in Pieces : Send(Closed(pos, pos + n - 1))
  /\ UNCHANGED <<size, present, answer, pos>>

(* A piece arrives and is appended; anything but a piece ends the playback,*)
(* and so does a piece that is not the next one.                           *)
Receive ==
  /\ answer # NoAnswer /\ pos >= 0
  /\ pos' = IF answer.status = 206 /\ answer.range[1] = pos
               /\ answer.body = pos .. answer.range[2]
            THEN answer.range[2] + 1 ELSE -1
  /\ answer' = NoAnswer
  /\ UNCHANGED <<size, present, req>>

Stop ==
  /\ pos >= 0 /\ pos = size
  /\ pos' = -1
  /\ UNCHANGED <<size, present, req, answer>>

Next ==
  \/ \E h \in Headers : Request(h)
  \/ Handle \/ Done
  \/ Play \/ Fetch \/ Receive \/ Stop
  \/ Delete \/ Restore

Spec == Init /\ [][Next]_vars

(* The handler goroutine proceeds and the player keeps fetching.           *)
FairSpec == Spec /\ WF_vars(Handle) /\ WF_vars(Fetch) /\ WF_vars(Receive)

----------------------------------------------------------------------------
(* Where RFC 9110 has the whole file sent: a unit that is not understood is*)
(* to be ignored (14.2), and any Range header may be, so that the whole    *)
(* file is right for several ranges and for "Bytes" as well.               *)
Whole(h) == h.form \in {"none", "unit", "several"}

(* The bytes a header asks for, per RFC 9110.  A malformed list of ranges  *)
(* may be rejected.                                                        *)
Wanted(h) ==
  CASE Whole(h)             -> Bytes
    [] h.form = "malformed" -> {}
    [] h.form = "suffix"    -> {i \in Bytes : h.n >= 0 /\ i >= size - h.n}
    [] h.form = "open"      -> {i \in Bytes : h.first >= 0 /\ i >= h.first}
    [] h.form = "closed"    -> {i \in Bytes : 0 <= h.first /\ h.first <= i
                                              /\ i <= h.last}

(* Where the code departs from that.  It answers 416 to another unit, to   *)
(* "bytes" in other letters, and to several ranges.  An empty file is said *)
(* to have a suffix, 206 with the range 0 to -1.  A number too large for an*)
(* int64 is an error, though the end of a range need not be in the file and*)
(* a suffix may be longer than it.  (If-Range headers, which the handler   *)
(* does not look at, are not modelled.)                                    *)
Misread(h) ==
  \/ h.form \in {"unit", "several"}
  \/ h.form = "suffix" /\ (size = 0 \/ h.n > MaxInt)
  \/ h.form = "closed" /\ h.last > MaxInt

(* Every other answer, but for 404 and the store's own errors, is the one  *)
(* the standard asks for: the whole file without a Range header; 416       *)
(* exactly if the header names no byte of the file; otherwise 206 with     *)
(* exactly the bytes it names, and the length and Content-Range headers    *)
(* describe that body.  An answer to a header that is misread has no byte  *)
(* of the file: what is not asked for is never sent for what is.           *)
AnswerExact ==
  answer.status \notin {0, 404, 500} =>
    IF Misread(req.header) THEN answer.body = {}
    ELSE /\ answer.body = Wanted(req.header)
         /\ answer.length = Cardinality(answer.body)
         /\ answer.status = IF Whole(req.header) THEN 200
                            ELSE IF Wanted(req.header) = {} THEN 416 ELSE 206
         /\ answer.status = 206 =>
              answer.body = answer.range[1] .. answer.range[2]

(* The inductive invariant behind it: what is fetched is the range that was*)
(* read from the header, and the answer describes it until it is taken.    *)
AnswerInv ==
  /\ TypeOK
  /\ req.pc # "idle" => answer = NoAnswer
  /\ req.pc = "full" => req.header = None
  /\ req.pc = "slice" =>
       /\ req.header # None
       /\ ParseByteRange(req.header) = Slice(req.start, req.end)
  /\ answer.status = 206 =>
       answer.range = <<req.start, req.end>> /\ req.end < size
  /\ AnswerExact

(* A player that never finds the file missing, or the store failing, gets  *)
(* from the beginning of the file to its end, by pieces that fit together. *)
PlaysThrough ==
  [](present /\ answer.status # 500) => \A n \in Nat \cap Sizes :
    (pos = 0 /\ size = n) ~> (pos = n)
=============================================================================
