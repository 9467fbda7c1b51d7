-------------------------- MODULE FileStreamProofs --------------------------
(***************************************************************************)
(* Proofs about FileStream, for files of any size, any largest integer, any*)
(* numbers in the Range headers and pieces of any size.                    *)
(***************************************************************************)
EXTENDS FileStream, FiniteSetTheorems, TLAPS

(* Sizes are int64s. *)
LEMMA SizeType ==
  ASSUME size \in Sizes
  PROVE  MaxInt \in Nat /\ size \in 0..MaxInt
BY SizesAssumption

(* A header is of one of seven forms, with integers in it. *)
LEMMA HeaderForms ==
  ASSUME NEW h \in Headers \cup PlayerHeaders
  PROVE  \/ h = None \/ h = OtherUnit \/ h = Several \/ h = Malformed
         \/ \E n \in Int : h = Suffix(n)
         \/ \E i \in Int : h = Open(i)
         \/ \E i, j \in Int : h = Closed(i, j)
<1>1. CASE h \in PlayerHeaders
  <2>1. PICK i \in 0..MaxInt, n \in Pieces : h = Closed(i, i + n - 1)
    BY <1>1 DEF PlayerHeaders
  <2>2. i \in Int /\ i + n - 1 \in Int BY SizesAssumption
  <2> QED BY <2>1, <2>2
<1>2. CASE h \in Headers
  <2>1. \A ij \in Numbers \X Numbers : ij[1] \in Int /\ ij[2] \in Int
    BY SizesAssumption
  <2> QED BY <1>2, <2>1, SizesAssumption DEF Headers
<1> QED BY <1>1, <1>2

(* What parseByteRange accepts is a range within the file. *)
Within(r) ==
  r.ok => /\ r = Slice(r.start, r.end)
          /\ r.start \in 0..MaxInt /\ r.end \in (-1)..(size - 1)

(* It accepts a header exactly if that names a byte of the file, and then  *)
(* as the bytes that it names; if it misreads it, then as none.            *)
Exact(h, r) ==
  IF Misread(h) THEN r.ok => r.start > r.end
  ELSE IF r.ok THEN r.start <= r.end /\ Wanted(h) = r.start .. r.end
  ELSE Wanted(h) = {}

(* A header in none of the three forms is refused: one that is malformed   *)
(* names no byte, the others are misread.                                  *)
LEMMA MalformedParsed ==
  ASSUME NEW h \in {OtherUnit, Several, Malformed}
  PROVE  Within(ParseByteRange(h)) /\ Exact(h, ParseByteRange(h))
<1>1. ~ ParseByteRange(h).ok
  BY DEF ParseByteRange, OtherUnit, Several, Malformed, Error
<1>2. CASE h = Malformed
  <2>1. Wanted(h) = {} BY <1>2 DEF Wanted, Whole, Malformed
  <2> QED BY <1>1, <2>1 DEF Within, Exact
<1>3. CASE h \in {OtherUnit, Several}
  <2>1. Misread(h) BY <1>3 DEF Misread, OtherUnit, Several
  <2> QED BY <1>1, <2>1 DEF Within, Exact
<1> QED BY <1>2, <1>3

(* bytes=-n: the last n bytes, or all of a shorter file.                   *)
LEMMA SuffixParsed ==
  ASSUME size \in Sizes, NEW n \in Int
  PROVE  LET h == Suffix(n) IN
         /\ Within(ParseByteRange(h))
         /\ Exact(h, ParseByteRange(h))
<1>1. ParseByteRange(Suffix(n)) =
        IF n \in 0..MaxInt /\ n > 0
        THEN [ok |-> TRUE, start |-> IF size - n < 0 THEN 0 ELSE size - n,
              end |-> size - 1]
        ELSE [ok |-> FALSE, start |-> 0, end |-> 0]
  BY DEF ParseByteRange, Suffix, Parses, Slice, Error
<1>2. Wanted(Suffix(n)) = {i \in 0..(size - 1) : n >= 0 /\ i >= size - n}
  BY DEF Wanted, Whole, Suffix, Bytes
<1>3. Misread(Suffix(n)) <=> size = 0 \/ n > MaxInt
  BY DEF Misread, Suffix
<1> QED BY <1>1, <1>2, <1>3, SizeType DEF Within, Exact, Slice

(* bytes=i-: from byte i to the last one.                                  *)
LEMMA OpenParsed ==
  ASSUME size \in Sizes, NEW i \in Int
  PROVE  LET h == Open(i) IN
         Within(ParseByteRange(h)) /\ Exact(h, ParseByteRange(h))
<1>1. ParseByteRange(Open(i)) =
        IF i \in 0..MaxInt /\ i < size
        THEN [ok |-> TRUE, start |-> i, end |-> size - 1]
        ELSE [ok |-> FALSE, start |-> 0, end |-> 0]
  BY DEF ParseByteRange, Open, Parses, Slice, Error
<1>2. Wanted(Open(i)) = {k \in 0..(size - 1) : i >= 0 /\ k >= i}
  BY DEF Wanted, Whole, Open, Bytes
<1>3. ~ Misread(Open(i)) BY DEF Misread, Open
<1> QED BY <1>1, <1>2, <1>3, SizeType DEF Within, Exact, Slice

(* bytes=i-j: from byte i to byte j, or to the last one.                   *)
LEMMA ClosedParsed ==
  ASSUME size \in Sizes, NEW i \in Int, NEW j \in Int
  PROVE  LET h == Closed(i, j) IN
         /\ Within(ParseByteRange(h))
         /\ Exact(h, ParseByteRange(h))
<1>1. ParseByteRange(Closed(i, j)) =
        IF i \in 0..MaxInt /\ i < size /\ j \in 0..MaxInt /\ j >= i
        THEN [ok |-> TRUE, start |-> i, end |-> IF j >= size THEN size - 1 ELSE j]
        ELSE [ok |-> FALSE, start |-> 0, end |-> 0]
  BY DEF ParseByteRange, Closed, Parses, Slice, Error, Clamp
<1>2. Wanted(Closed(i, j)) = {k \in 0..(size - 1) : 0 <= i /\ i <= k /\ k <= j}
  BY DEF Wanted, Whole, Closed, Bytes
<1>3. Misread(Closed(i, j)) <=> j > MaxInt
  BY DEF Misread, Closed
<1> QED BY <1>1, <1>2, <1>3, SizeType DEF Within, Exact, Slice

(* parseByteRange accepts a Range header exactly if it names a byte of the *)
(* file, and as exactly the bytes it names, whatever the file's size; a    *)
(* header it misreads it takes for none of the bytes of the file.          *)
THEOREM RangesExact ==
  ASSUME size \in Sizes, NEW h \in Headers \cup PlayerHeaders, h # None
  PROVE  Within(ParseByteRange(h)) /\ Exact(h, ParseByteRange(h))
BY HeaderForms, MalformedParsed, SuffixParsed, OpenParsed, ClosedParsed

----------------------------------------------------------------------------
(* The handler and its clients. *)

(* The whole file is asked for without a Range header, or by one that is   *)
(* misread.                                                                *)
LEMMA WholeForms ==
  ASSUME size \in Sizes, NEW h \in Headers \cup PlayerHeaders, h # None
  PROVE  Whole(h) => Misread(h)
BY HeaderForms
   DEF Whole, Misread, OtherUnit, Several, Malformed, Suffix, Open, Closed

(* A header is sent when no request is under way. *)
LEMMA SendInv ==
  ASSUME AnswerInv, NEW h \in Headers \cup PlayerHeaders, Send(h),
         req.pc = "idle", answer = NoAnswer, pos' \in (-1)..size,
         UNCHANGED <<size, present, answer>>
  PROVE  AnswerInv'
<1>1. req' = [pc |-> "head", header |-> h, start |-> 0, end |-> 0]
  BY DEF Send, NoRequest
<1>2. answer.status = 0 BY DEF NoAnswer
<1>3. TypeOK' BY <1>1, SizeType DEF AnswerInv, TypeOK
<1> QED BY <1>1, <1>2, <1>3 DEF AnswerInv, AnswerExact

(* What a header asks for depends on the size of the file only. *)
LEMMA HeaderKept ==
  ASSUME UNCHANGED size, req'.header = req.header
  PROVE  /\ Wanted(req.header)' = Wanted(req.header)
         /\ Whole(req.header)' = Whole(req.header)
         /\ Misread(req.header)' = Misread(req.header)
<1>1. \A h : Wanted(h)' = Wanted(h) /\ Whole(h)' = Whole(h)
            /\ Misread(h)' = Misread(h)
  BY DEF Wanted, Whole, Misread, Bytes
<1> QED BY <1>1

(* The request and its answer do not depend on the place of the file. *)
LEMMA QuietInv ==
  ASSUME AnswerInv, UNCHANGED <<size, req>>, present' \in BOOLEAN,
         pos' \in (-1)..size, answer' = answer \/ answer' = NoAnswer
  PROVE  AnswerInv'
<1>1. TypeOK' BY DEF AnswerInv, TypeOK, NoAnswer
<1>2. \A h : Wanted(h)' = Wanted(h) /\ Whole(h)' = Whole(h)
            /\ Misread(h)' = Misread(h)
  BY DEF Wanted, Whole, Misread, Bytes
<1>3. \A h : ParseByteRange(h)' = ParseByteRange(h)
  BY DEF ParseByteRange, Clamp
<1>4. CASE answer' = answer
  <2>1. AnswerExact' BY <1>2, <1>4 DEF AnswerInv, AnswerExact
  <2> QED BY <1>1, <1>3, <1>4, <2>1 DEF AnswerInv
<1>5. CASE answer' = NoAnswer
  <2>1. answer'.status = 0 BY <1>5 DEF NoAnswer
  <2>2. AnswerExact' BY <2>1 DEF AnswerExact
  <2> QED BY <1>1, <1>3, <1>5, <2>1, <2>2 DEF AnswerInv
<1> QED BY <1>4, <1>5

(* The handler proceeds without an answer ... *)
LEMMA GotoInv ==
  ASSUME AnswerInv, req.pc # "idle", UNCHANGED <<size, present, answer, pos>>,
         \/ Goto("range")
         \/ req.header = None /\ Goto("full")
         \/ /\ req.header # None /\ ParseByteRange(req.header).ok
            /\ req' = [req EXCEPT !.pc = "slice",
                         !.start = ParseByteRange(req.header).start,
                         !.end = ParseByteRange(req.header).end]
  PROVE  AnswerInv'
<1> DEFINE r == ParseByteRange(req.header)
<1>1. req \in [pc : {"idle", "head", "range", "full", "slice"},
               header : Headers \cup PlayerHeaders, start : 0..MaxInt,
               end : (-1)..MaxInt]
  BY DEF AnswerInv, TypeOK
<1>2. answer = NoAnswer /\ answer.status = 0 BY DEF AnswerInv, NoAnswer
<1>3. AnswerExact' BY <1>2 DEF AnswerExact
<1>4. \A h : ParseByteRange(h)' = ParseByteRange(h)
  BY DEF ParseByteRange, Clamp
<1>5. CASE Goto("range") \/ (req.header = None /\ Goto("full"))
  <2>1. TypeOK' BY <1>1, <1>5 DEF Goto, AnswerInv, TypeOK
  <2>2. /\ req'.pc \in {"range", "full"}
        /\ req'.pc = "full" => req'.header = None
    BY <1>1, <1>5 DEF Goto
  <2> QED BY <1>2, <1>3, <2>1, <2>2 DEF AnswerInv
<1>6. CASE /\ req.header # None /\ r.ok
           /\ req' = [req EXCEPT !.pc = "slice", !.start = r.start, !.end = r.end]
  <2>1. Within(r) BY <1>1, <1>6, RangesExact DEF AnswerInv, TypeOK
  <2>2. r = Slice(r.start, r.end) /\ r.start \in 0..MaxInt
        /\ r.end \in (-1)..MaxInt
    BY <1>6, <2>1, SizeType DEF Within, AnswerInv, TypeOK
  <2> HIDE DEF r
  <2>3. /\ req' \in [pc : {"idle", "head", "range", "full", "slice"},
                     header : Headers \cup PlayerHeaders, start : 0..MaxInt,
                     end : (-1)..MaxInt]
        /\ req'.pc = "slice" /\ req'.header = req.header
        /\ req'.start = r.start /\ req'.end = r.end
    BY <1>1, <1>6, <2>2
  <2>4. TypeOK' BY <2>3 DEF AnswerInv, TypeOK
  <2>5. ParseByteRange(req.header)' = Slice(req'.start, req'.end)
    BY <1>4, <2>2, <2>3 DEF r
  <2> QED BY <1>2, <1>3, <1>6, <2>3, <2>4, <2>5 DEF AnswerInv
<1> QED BY <1>5, <1>6

(* ... or with one: a refusal when the header names no byte, ... *)
LEMMA RefusalInv ==
  ASSUME AnswerInv, UNCHANGED <<size, present, pos>>, NEW status \in {404, 416, 500},
         Reply(Refusal(status)), req.pc # "idle",
         status = 416 =>
           Misread(req.header) \/ (~ Whole(req.header) /\ Wanted(req.header) = {})
  PROVE  AnswerInv'
<1>1. /\ answer' = [status |-> status, range |-> <<>>, length |-> 0, body |-> {}]
      /\ req' = [req EXCEPT !.pc = "idle"]
  BY DEF Reply, Refusal, NoAnswer
<1>2. TypeOK' BY <1>1 DEF AnswerInv, TypeOK
<1>3. req'.pc = "idle" /\ req'.header = req.header
  BY <1>1 DEF AnswerInv, TypeOK
<1>4. /\ Wanted(req.header)' = Wanted(req.header)
      /\ Whole(req.header)' = Whole(req.header)
      /\ Misread(req.header)' = Misread(req.header)
  BY <1>3, HeaderKept
<1>5. AnswerExact' BY <1>1, <1>3, <1>4, FS_EmptySet DEF AnswerExact
<1> QED BY <1>1, <1>2, <1>3, <1>5 DEF AnswerInv

(* ... the whole file, or the range.                                       *)
LEMMA ContentInv ==
  ASSUME AnswerInv, req.pc \in {"full", "slice"}, Reply(Content),
         UNCHANGED <<size, present, pos>>
  PROVE  AnswerInv'
<1>1. UNCHANGED <<size, present, pos>> OBVIOUS
<1>2. size \in Nat BY SizeType DEF AnswerInv, TypeOK
<1>3. /\ req \in [pc : {"idle", "head", "range", "full", "slice"},
                  header : Headers \cup PlayerHeaders, start : 0..MaxInt,
                  end : (-1)..MaxInt]
      /\ MaxInt \in Nat
  BY SizeType DEF AnswerInv, TypeOK
<1>4. req' = [req EXCEPT !.pc = "idle"] /\ answer' = Content BY DEF Reply
<1>5. /\ req'.pc = "idle" /\ req'.header = req.header
      /\ req'.start = req.start /\ req'.end = req.end
  BY <1>3, <1>4
<1>6. /\ Wanted(req.header)' = Wanted(req.header)
      /\ Whole(req.header)' = Whole(req.header)
      /\ Misread(req.header)' = Misread(req.header)
  BY <1>1, <1>5, HeaderKept
<1>7. answer'.status \in {200, 206} => TypeOK'
  BY <1>1, <1>3, <1>4 DEF AnswerInv, TypeOK
<1>8. CASE req.pc = "full"
  <2>1. answer' = [status |-> 200, range |-> <<>>, length |-> size, body |-> Bytes]
    BY <1>4, <1>8 DEF Content
  <2>2. req.header = None BY <1>8 DEF AnswerInv
  <2>3. /\ Wanted(req.header) = Bytes /\ Whole(req.header)
        /\ ~ Misread(req.header)
    BY <2>2 DEF Wanted, Whole, Misread, None
  <2>4. Cardinality(0..(size - 1)) = size BY <1>2, FS_Interval
  <2>5. AnswerExact'
    BY <1>5, <1>6, <2>1, <2>3, <2>4 DEF AnswerExact, Bytes
  <2> QED BY <1>5, <1>7, <2>1, <2>5 DEF AnswerInv
<1>9. CASE req.pc = "slice"
  <2> DEFINE a == req.start
             b == req.end
  <2>1. answer' = [status |-> 206, range |-> <<a, b>>, length |-> b - a + 1,
                   body |-> (a .. b) \cap Bytes]
    BY <1>4, <1>9 DEF Content
  <2>2. req.header # None /\ ParseByteRange(req.header) = Slice(a, b)
    BY <1>9 DEF AnswerInv
  <2>3. b < size /\ a \in Nat /\ b \in Int
    BY <1>2, <1>3, <2>2, RangesExact DEF Within, Slice, AnswerInv, TypeOK
  <2>4. IF Misread(req.header) THEN a > b
        ELSE a <= b /\ Wanted(req.header) = a .. b
    BY <1>3, <2>2, RangesExact DEF Exact, Slice, AnswerInv, TypeOK
  <2> HIDE DEF a, b
  <2>5. (a .. b) \cap Bytes = a .. b BY <1>2, <2>3 DEF Bytes
  <2>6. ASSUME a <= b PROVE Cardinality(a .. b) = b - a + 1 /\ a .. b # {}
    <3>1. a \in Int /\ b \in Int BY <2>3
    <3>2. Cardinality(a .. b) = IF a > b THEN 0 ELSE b - a + 1
      BY <3>1, FS_Interval
    <3>3. a \in a .. b BY <2>6, <3>1
    <3>4. ~ (a > b) BY <2>6, <3>1
    <3>5. Cardinality(a .. b) = b - a + 1 BY <3>2, <3>4
    <3> QED BY <3>3, <3>5
  <2>7. ~ Misread(req.header) => ~ Whole(req.header)
    BY <1>3, <2>2, WholeForms DEF AnswerInv, TypeOK
  <2>8. AnswerExact'
    <3>1. answer'.body = a .. b BY <2>1, <2>5
    <3>2. CASE Misread(req.header)
      <4>1. a .. b = {} BY <2>3, <2>4, <3>2
      <4> QED BY <1>5, <1>6, <3>1, <3>2, <4>1 DEF AnswerExact
    <3>3. CASE ~ Misread(req.header)
      <4>1. /\ answer'.body = Wanted(req.header)
            /\ answer'.length = Cardinality(answer'.body)
            /\ Wanted(req.header) # {}
            /\ answer'.body = answer'.range[1] .. answer'.range[2]
        BY <2>1, <2>4, <2>6, <3>1, <3>3
      <4> QED BY <1>5, <1>6, <2>1, <2>7, <3>3, <4>1 DEF AnswerExact
    <3> QED BY <3>2, <3>3
  <2>9. answer'.range = <<req'.start, req'.end>> /\ req'.end < size'
    BY <1>1, <1>5, <2>1, <2>3 DEF a, b
  <2> QED BY <1>5, <1>7, <2>1, <2>8, <2>9 DEF AnswerInv
<1> QED BY <1>8, <1>9 DEF GetObject

(* Every step keeps the invariant, ... *)
LEMMA NextAnswer ==
  ASSUME AnswerInv, [Next]_vars
  PROVE  AnswerInv'
<1>1. size \in Nat /\ pos \in (-1)..size /\ present \in BOOLEAN
  BY SizeType DEF AnswerInv, TypeOK
<1>2. CASE UNCHANGED vars BY <1>1, <1>2, QuietInv DEF vars
<1>3. ASSUME NEW h \in Headers, Request(h) PROVE AnswerInv'
  BY <1>1, <1>3, SendInv DEF Request
<1>4. CASE Fetch
  <2>1. PICK n \in Pieces : Send(Closed(pos, pos + n - 1)) BY <1>4 DEF Fetch
  <2>2. pos \in 0..MaxInt BY <1>4, SizeType DEF Fetch, Bytes, AnswerInv, TypeOK
  <2>3. Closed(pos, pos + n - 1) \in PlayerHeaders BY <2>2 DEF PlayerHeaders
  <2> QED BY <1>1, <1>4, <2>1, <2>3, SendInv DEF Fetch
<1>5. CASE HeadObject
  BY <1>5, GotoInv, RefusalInv DEF HeadObject
<1>6. CASE ReadRange
  <2>1. req.header \in Headers \cup PlayerHeaders /\ size \in Sizes
    BY DEF AnswerInv, TypeOK
  <2>2. req.header # None /\ ~ ParseByteRange(req.header).ok /\ ~ Misread(req.header)
          => Wanted(req.header) = {}
    BY <2>1, RangesExact DEF Exact
  <2>3. req.header # None /\ ~ Misread(req.header) => ~ Whole(req.header)
    BY <2>1, WholeForms
  <2> QED BY <1>6, <2>2, <2>3, GotoInv, RefusalInv DEF ReadRange
<1>7. CASE GetObject
  <2>1. CASE Reply(Content) BY <1>7, <2>1, ContentInv DEF GetObject
  <2>2. CASE Reply(Refusal(404)) \/ Reply(Refusal(500))
    BY <1>7, <2>2, RefusalInv DEF GetObject
  <2> QED BY <1>7, <2>1, <2>2 DEF GetObject
<1>8. CASE Receive
  <2>1. answer.status = 206 => answer.range[2] \in (-1)..(size - 1)
    BY <1>1 DEF AnswerInv, TypeOK
  <2>2. pos' \in (-1)..size BY <1>1, <1>8, <2>1 DEF Receive
  <2> QED BY <1>1, <1>8, <2>2, QuietInv DEF Receive
<1>9. CASE Done \/ Play \/ Stop \/ Delete \/ Restore
  <2>1. /\ UNCHANGED <<size, req>>
        /\ answer' = answer \/ answer' = NoAnswer
    BY <1>9 DEF Done, Play, Stop, Delete, Restore
  <2>2. pos' \in (-1)..size
    BY <1>1, <1>9 DEF Done, Play, Stop, Delete, Restore
  <2>3. present' \in BOOLEAN
    <3>1. present' = present \/ present' = FALSE \/ present' = TRUE
      BY <1>9 DEF Done, Play, Stop, Delete, Restore
    <3> QED BY <1>1, <3>1
  <2> QED BY <2>1, <2>2, <2>3, QuietInv
<1> QED BY <1>2, <1>3, <1>4, <1>5, <1>6, <1>7, <1>8, <1>9 DEF Next, Handle

(* ... which holds initially. *)
LEMMA InitAnswer ==
  ASSUME Init
  PROVE  AnswerInv
<1>1. size \in Nat /\ MaxInt \in Nat BY SizeType DEF Init
<1>2. answer.status = 0 BY DEF Init, NoAnswer
<1>3. TypeOK BY <1>1, <1>2 DEF Init, TypeOK, NoRequest, Headers
<1> QED BY <1>2, <1>3 DEF Init, AnswerInv, NoRequest, AnswerExact

(* What is fetched is what was read from the header, and the answer says   *)
(* what it is.                                                             *)
THEOREM AnswerInvariant == Spec => []AnswerInv
<1>1. Init => AnswerInv BY InitAnswer
<1>2. AnswerInv /\ [Next]_vars => AnswerInv' BY NextAnswer
<1> QED BY <1>1, <1>2, PTL DEF Spec

(* The state of the handler and the player has its type. *)
THEOREM TypeCorrect == Spec => []TypeOK
<1>1. AnswerInv => TypeOK BY DEF AnswerInv
<1> QED BY <1>1, AnswerInvariant, PTL

(* Every answer is the one the standard asks for, for files of any size and*)
(* any header, but to the headers the code misreads, which get no byte of  *)
(* the file, and where the file is not found or the store fails.           *)
THEOREM AnswersExact == Spec => []AnswerExact
<1>1. AnswerInv => AnswerExact BY DEF AnswerInv
<1> QED BY <1>1, AnswerInvariant, PTL
=============================================================================
