-------------------------- MODULE FileSerialProofs --------------------------
(***************************************************************************)
(* Proofs about FileLifecycle when the requests of one file name come one  *)
(* after the other: what is true of a file, its versions and its records   *)
(* while nobody works on its name and no call has failed for that name.    *)
(***************************************************************************)
EXTENDS FileLifecycleProofs, FiniteSetTheorems

(* The assumptions: requests of one name do not overlap, and the copy whose*)
(* error nobody checks does not fail, as for LifecycleInv, on which these  *)
(* proofs rest.                                                            *)
Serial == SafeUse /\ SerialUse

----------------------------------------------------------------------------
(* What a step leaves alone. *)

(* Objects, history and records of k stay as they are. *)
SameKey(k) ==
  /\ \A place \in Places, part \in Parts :
       <<place, k, part>> \in objects' <=> <<place, k, part>> \in objects
  /\ k \in destroyed' <=> k \in destroyed
  /\ \A r : r.key = k => (r \in records' <=> r \in records)

(* The places of an untouched key stay.                                    *)
LEMMA LiesSame ==
  ASSUME NEW k, SameKey(k), NEW full, NEW half
  PROVE  /\ Lies(k, full, half) => Lies(k, full, half)'
         /\ Alive(k, full, half) => Alive(k, full, half)'
         /\ Dead(k) => Dead(k)'
<1>1. \A place \in Places : /\ Data(place, k)' <=> Data(place, k)
                            /\ Info(place, k)' <=> Info(place, k)
  BY DEF SameKey, Data, Info, Parts
<1> QED BY <1>1 DEF SameKey, Lies, Alive, Dead

(* The records of an untouched key stay.                                   *)
LEMMA RecordsSame ==
  ASSUME TypeOK, TypeOK', BooksInv, BooksInv', NEW k \in Keys, SameKey(k)
  PROVE  /\ Unrecorded(k) => Unrecorded(k)'
         /\ \A id : RecordIs(k, id) => RecordIs(k, id)'
<1>1. Unrecorded(k) => Unrecorded(k)' BY DEF SameKey, Unrecorded
<1>2. ASSUME NEW id, RecordIs(k, id) PROVE RecordIs(k, id)'
  <2> DEFINE mine == [id |-> id, name |-> FileName[k], key |-> k]
  <2>1. mine \in records /\ mine \in records' /\ mine.id = id /\ mine.key = k
    BY <1>2 DEF SameKey, RecordIs
  <2>2. ASSUME NEW r \in records', r.key = k PROVE r.id = id
    BY <1>2, <2>2 DEF SameKey, RecordIs
  <2>3. ASSUME NEW r \in records', r.id = id PROVE r.key = k
    BY <2>1, <2>3 DEF BooksInv
  <2> QED BY <2>1, <2>2, <2>3 DEF RecordIs
<1> QED BY <1>1, <1>2

(* An untouched key stays tidy, and a version a version.                   *)
LEMMA TidySame ==
  ASSUME TypeOK, TypeOK', BooksInv, BooksInv', NEW k \in Keys, SameKey(k)
  PROVE  /\ \A id : Version(k, id) => Version(k, id)'
         /\ Tidy(k) => Tidy(k)'
<1>1. ASSUME NEW id, Version(k, id) PROVE Version(k, id)'
  BY <1>1, LiesSame, RecordsSame DEF Version
<1>2. ASSUME Tidy(k) PROVE Tidy(k)'
  <2>1. CASE Dead(k) /\ Unrecorded(k)
    BY <2>1, LiesSame, RecordsSame DEF Tidy
  <2>2. ASSUME NEW place \in {"active", "trash"}, Alive(k, {place}, {}), Unrecorded(k)
        PROVE  Tidy(k)'
    <3>1. Alive(k, {place}, {})' /\ Unrecorded(k)'
      BY <2>2, LiesSame, RecordsSame
    <3> QED BY <3>1 DEF Tidy
  <2>3. ASSUME NEW r \in records, Version(k, r.id) PROVE Tidy(k)'
    <3>1. PICK id : id = r.id OBVIOUS
    <3>2. Version(k, id)' BY <1>1, <2>3, <3>1
    <3>3. \E s \in records' : s.id = id
      BY <3>2 DEF Version, RecordIs
    <3>4. PICK s \in records' : s.id = id BY <3>3
    <3>5. Version(k, s.id)' BY <3>2, <3>4 DEF Version, RecordIs
    <3> QED BY <3>4, <3>5 DEF Tidy
  <2> QED BY <1>2, <2>1, <2>2, <2>3 DEF Tidy
<1> QED BY <1>1, <1>2

(* The records of a file name, seen from its files.                        *)
LEMMA NamedOf ==
  ASSUME TypeOK, NamesInv, NEW f \in Files, NEW r \in Named(f)
  PROVE  r \in records /\ r.key \in Keys /\ FileName[r.key] = f
BY NamesAssumption DEF TypeOK, NamesInv, Named, NamesOf, Records

----------------------------------------------------------------------------
(* The other requests. *)

(* The stage of a request whose keys and name a step leaves alone.         *)
LEMMA StageKeeps ==
  ASSUME TypeOK, TypeOK', BooksInv, BooksInv', NEW r \in Requests,
         SameKey(r.key), SameKey(r.other),
         r.name = FileName[r.key] =>
           \A s : s \in Named(r.name)' <=> s \in Named(r.name),
         Stage(r)
  PROVE  Stage(r)'
<1>1. PICK k \in Keys : k = r.key BY DEF Requests
<1>2. PICK j \in Keys : j = r.other BY DEF Requests
<1>3. \A full, half : /\ Alive(k, full, half) => Alive(k, full, half)'
                      /\ Alive(j, full, half) => Alive(j, full, half)'
  BY <1>1, <1>2, LiesSame
<1>4. (Dead(k) => Dead(k)') /\ (Dead(j) => Dead(j)')
  BY <1>1, <1>2, LiesSame
<1>5. /\ Unrecorded(k) => Unrecorded(k)'
      /\ Unrecorded(j) => Unrecorded(j)'
      /\ RecordIs(k, r.id) => RecordIs(k, r.id)'
      /\ RecordIs(j, r.id) => RecordIs(j, r.id)'
  BY <1>1, <1>2, RecordsSame
<1>6. /\ Tidy(k) => Tidy(k)'
      /\ Tidy(j) => Tidy(j)'
      /\ Version(k, r.id) => Version(k, r.id)'
      /\ Version(j, r.id) => Version(j, r.id)'
  BY <1>1, <1>2, TidySame
<1>7. ASSUME NEW from, NEW to, NEW copy, NEW info, NEW remove
      PROVE  /\ Transfer(k, from, to, r.pc, copy, info, remove)
                  => Transfer(k, from, to, r.pc, copy, info, remove)'
             /\ Transfer(j, from, to, r.pc, copy, info, remove)
                  => Transfer(j, from, to, r.pc, copy, info, remove)'
  BY <1>3 DEF Transfer
<1>8. DeleteStage(r) => DeleteStage(r)'
  BY <1>1, <1>5, <1>6, <1>7 DEF DeleteStage
<1>9. RestoreStage(r) => RestoreStage(r)'
  BY <1>1, <1>3, <1>5, <1>6, <1>7 DEF RestoreStage
<1>10. VDeleteStage(r) => VDeleteStage(r)'
  BY <1>1, <1>4, <1>5, <1>6 DEF VDeleteStage
<1>11. VRestoreStage(r) => VRestoreStage(r)'
  BY <1>1, <1>2, <1>3, <1>5, <1>6, <1>7 DEF VRestoreStage
<1>12. ASSUME ArchiveStage(r) PROVE ArchiveStage(r)'
  <2>1. ASSUME Newest(k, r.name), r.name = FileName[k] PROVE Newest(k, r.name)'
    <3>1. PICK s \in records : Version(k, s.id) /\ \A t \in Named(r.name) : t.id <= s.id
      BY <2>1 DEF Newest
    <3>2. PICK id : id = s.id OBVIOUS
    <3>3. Version(k, id)' BY <1>1, <3>1, <3>2, TidySame
    <3>4. PICK t \in records' : t.id = id BY <3>3 DEF Version, RecordIs
    <3>5. Version(k, t.id)' BY <3>3, <3>4 DEF Version, RecordIs
    <3>6. ASSUME NEW u \in Named(r.name)' PROVE u.id <= t.id
      BY <1>1, <2>1, <3>1, <3>2, <3>4
    <3> QED BY <3>4, <3>5, <3>6 DEF Newest
  <2>2. ASSUME \E s \in Named(r.name) : s.key # k, r.name = FileName[k]
        PROVE  (\E s \in Named(r.name) : s.key # k)'
    BY <1>1, <2>2
  <2> QED BY <1>1, <1>2, <1>3, <1>4, <1>5, <1>6, <1>7, <1>12, <2>1, <2>2 DEF ArchiveStage
<1> QED BY <1>8, <1>9, <1>10, <1>11, <1>12 DEF Stage

(* A step without a failure hurts no name.                                 *)
LEMMA SparedSame ==
  ASSUME faults' = faults, NEW f
  PROVE  Spared(f)' <=> Spared(f)
BY DEF Spared

(* The stage of a request, by its value. *)
LEMMA StageNow ==
  ASSUME NEW p \in Reqs, NEW r, req'[p] = r, Stage(r)'
  PROVE  (Stage(req[p]))'
BY DEF Stage

(* A request of another name is not concerned. *)
LEMMA OtherName ==
  ASSUME LifecycleInv, SerialUse, NEW p \in Reqs, NEW q \in Reqs, p # q,
         Busy(p), Busy(q)
  PROVE  /\ FileName[req[q].key] # FileName[req[p].key]
         /\ FileName[req[q].other] # FileName[req[p].key]
BY DEF LifecycleInv, OverlapInv, NamesInv, SerialUse

(* An idle slot has no stage to be at. *)
LEMMA IdleStage ==
  ASSUME NEW p \in Reqs, req'[p] = Idle
  PROVE  (Stage(req[p]))'
BY DEF Stage, Idle

(* What the steps of request p leave of StageInv, when they only concern   *)
(* its own two keys: these it still holds, or leaves tidy.                 *)
LEMMA StageFrame ==
  ASSUME LifecycleInv, LifecycleInv', BooksInv, BooksInv', SerialUse, StageInv,
         NEW p \in Reqs, Busy(p), Continues(p),
         uploaded' = uploaded, faults' = faults,
         \A k \in Keys : k \notin {req[p].key, req[p].other} => SameKey(k),
         \A k \in {req[p].key, req[p].other} :
           \/ Tidy(k)'
           \/ req'[p] # Idle /\ k \in {req'[p].key, req'[p].other},
         (Stage(req[p]))'
  PROVE  StageInv'
<1>1. /\ TypeOK /\ TypeOK' /\ NamesInv /\ NamesInv'
      /\ req[p] \in Requests /\ \A q \in Reqs \ {p} : req'[q] = req[q]
  BY BusyType DEF LifecycleInv, Continues, TypeOK
<1>2. ASSUME NEW q \in Reqs, Busy(q)', Spared(FileName[req[q].key])'
      PROVE  (Stage(req[q]))'
  <2>1. CASE q = p BY <2>1
  <2>3. CASE q # p
    <3>0. req'[q] = req[q] /\ Busy(q) BY <1>1, <1>2, <2>3 DEF Busy
    <3>1. PICK r \in Requests : r = req[q] BY <1>1, <3>0, BusyType
    <3>2. req'[q] = r BY <3>0, <3>1
    <3>3. Stage(r) BY <1>2, <3>0, <3>1, SparedSame DEF StageInv
    <3>4. /\ r.key \in Keys /\ r.other \in Keys
          /\ FileName[r.key] # FileName[req[p].key]
          /\ FileName[r.other] # FileName[req[p].key]
      BY <2>3, <3>0, <3>1, OtherName DEF Requests
    <3>5. FileName[req[p].other] = FileName[req[p].key]
      BY DEF LifecycleInv, NamesInv
    <3>6. SameKey(r.key) /\ SameKey(r.other) BY <3>4, <3>5
    <3>7. ASSUME r.name = FileName[r.key], NEW s
          PROVE  s \in Named(r.name)' <=> s \in Named(r.name)
      <4>1. r.name \in Files BY <3>4, <3>7, NamesAssumption
      <4>2. CASE s \in Named(r.name)
        <5>1. s \in records /\ s.key \in Keys /\ FileName[s.key] = r.name
          BY <1>1, <4>1, <4>2, NamedOf
        <5>2. SameKey(s.key) BY <3>4, <3>5, <3>7, <5>1
        <5> QED BY <4>2, <5>1, <5>2 DEF SameKey, Named
      <4>3. CASE s \in Named(r.name)'
        <5>1. s \in records' /\ s.name = r.name BY <4>3 DEF Named
        <5>2. s.key \in Keys /\ FileName[s.key] = r.name
          BY <1>1, <4>1, <5>1, NamesAssumption DEF TypeOK, NamesInv, NamesOf, Records
        <5>3. SameKey(s.key) BY <3>4, <3>5, <3>7, <5>2
        <5> QED BY <4>3, <5>1, <5>3 DEF SameKey, Named
      <4> QED BY <4>2, <4>3
    <3>8. Stage(r)' BY <1>1, <3>3, <3>6, <3>7, StageKeeps
    <3> QED BY <3>2, <3>8, StageNow
  <2> QED BY <2>1, <2>3
<1>3. ASSUME NEW k \in uploaded', Spared(FileName[k])', ~ Touched(k)'
      PROVE  Tidy(k)'
  <2>1. k \in Keys /\ k \in uploaded /\ Spared(FileName[k])
    BY <1>1, <1>3, SparedSame DEF TypeOK
  <2>2. CASE k \in {req[p].key, req[p].other}
    <3>1. ~ (req'[p] # Idle /\ k \in {req'[p].key, req'[p].other})
      BY <1>1, <1>3 DEF Touched, Busy, TypeOK, Requests, Labels
    <3> QED BY <2>2, <3>1
  <2>3. CASE k \notin {req[p].key, req[p].other}
    <3>1. SameKey(k) BY <2>1, <2>3
    <3>2. ~ Touched(k) BY <1>1, <1>3, <2>3 DEF Touched, Busy
    <3>3. Tidy(k) BY <2>1, <3>2 DEF StageInv
    <3> QED BY <1>1, <2>1, <3>1, <3>3, TidySame
  <2> QED BY <2>2, <2>3
<1> QED BY <1>2, <1>3 DEF StageInv

----------------------------------------------------------------------------
(* The cap. *)

(* Nobody but p works on its file name. *)
LEMMA AddingAlone ==
  ASSUME LifecycleInv, SerialUse, NEW p \in Reqs, Busy(p), NEW q \in Reqs,
         Adding(q), FileName[req[q].key] = FileName[req[p].key]
  PROVE  q = p
BY OtherName DEF Adding, Busy

(* A step that adds no record, and after which a request that may have to  *)
(* drop one still may, keeps the cap.                                      *)
LEMMA CapKept ==
  ASSUME LifecycleInv, BooksInv, CapInv, NEW p \in Reqs, Continues(p),
         faults' = faults, records' \subseteq records, Adding(p) => Adding(p)'
  PROVE  CapInv'
<1> SUFFICES ASSUME MaxFileVersions > 0, NEW f \in Files, Spared(f)
             PROVE  (LET adding == \E q \in Reqs : Adding(q) /\ FileName[req[q].key] = f
                     IN Cardinality(Named(f)) <= MaxFileVersions + IF adding THEN 1 ELSE 0)'
  BY SparedSame DEF CapInv
<1>1. /\ req'[p].key = req[p].key \/ ~ Adding(p)'
      /\ \A q \in Reqs \ {p} : req'[q] = req[q]
  BY DEF LifecycleInv, TypeOK, Continues, Adding, Idle
<1>2. ASSUME NEW q \in Reqs, Adding(q), FileName[req[q].key] = f
      PROVE  Adding(q)' /\ FileName[req'[q].key] = f
  BY <1>1, <1>2 DEF Adding
<1>3. Named(f)' \subseteq Named(f) /\ IsFiniteSet(Named(f))
  BY FS_Subset DEF Named, BooksInv
<1>4. /\ IsFiniteSet(Named(f)') /\ Cardinality(Named(f)') <= Cardinality(Named(f))
      /\ Cardinality(Named(f)) \in Nat /\ Cardinality(Named(f)') \in Nat
  BY <1>3, FS_Subset, FS_CardinalityType
<1>5. Cardinality(Named(f)) <= MaxFileVersions
        + IF \E q \in Reqs : Adding(q) /\ FileName[req[q].key] = f THEN 1 ELSE 0
  BY DEF CapInv
<1> QED BY <1>2, <1>4, <1>5, NumbersAssumption

(* One record more, by a request that from then on may have to drop one.   *)
LEMMA CapGrows ==
  ASSUME LifecycleInv, BooksInv, SerialUse, CapInv, faults' = faults,
         NEW p \in Reqs, Busy(p),
         Continues(p), NEW k \in Keys, FileName[k] = FileName[req[p].key],
         AddRecord(FileName[k], k), ~ Adding(p), Adding(p)' \/ MaxFileVersions = 0
  PROVE  CapInv'
<1> SUFFICES ASSUME MaxFileVersions > 0, NEW f \in Files, Spared(f)
             PROVE  (LET adding == \E q \in Reqs : Adding(q) /\ FileName[req[q].key] = f
                     IN Cardinality(Named(f)) <= MaxFileVersions + IF adding THEN 1 ELSE 0)'
  BY SparedSame DEF CapInv
<1> DEFINE new == [id |-> nextId, name |-> FileName[k], key |-> k]
<1>1. /\ Adding(p)' /\ req'[p].key = req[p].key
      /\ \A q \in Reqs \ {p} : req'[q] = req[q]
  BY NumbersAssumption DEF LifecycleInv, TypeOK, Continues, Adding, Idle
<1>2. IsFiniteSet(Named(f)) /\ Cardinality(Named(f)) \in Nat
  BY FS_Subset, FS_CardinalityType DEF Named, BooksInv
<1>3. Cardinality(Named(f)) <= MaxFileVersions
        + IF \E q \in Reqs : Adding(q) /\ FileName[req[q].key] = f THEN 1 ELSE 0
  BY DEF CapInv
<1>4. CASE f = FileName[k]
  <2>1. ~ \E q \in Reqs : Adding(q) /\ FileName[req[q].key] = f
    BY <1>4, AddingAlone
  <2>2. \E q \in Reqs : Adding(q)' /\ FileName[req'[q].key] = f
    BY <1>1, <1>4
  <2>3. Named(f)' = Named(f) \cup {new} BY <1>4 DEF Named, AddRecord
  <2> HIDE DEF new
  <2>4. /\ Cardinality(Named(f)') <= Cardinality(Named(f)) + 1
        /\ Cardinality(Named(f)') \in Nat
    <3>1. /\ IsFiniteSet(Named(f) \cup {new})
          /\ Cardinality(Named(f) \cup {new}) \in
               {Cardinality(Named(f)), Cardinality(Named(f)) + 1}
      BY <1>2, FS_AddElement
    <3> QED BY <1>2, <2>3, <3>1
  <2> QED BY <1>2, <1>3, <2>1, <2>2, <2>4, NumbersAssumption
<1>5. CASE f # FileName[k]
  <2>1. Named(f)' = Named(f) BY <1>5 DEF Named, AddRecord
  <2>2. ASSUME NEW q \in Reqs, Adding(q), FileName[req[q].key] = f
        PROVE  Adding(q)' /\ FileName[req'[q].key] = f
    BY <1>1, <1>5, <2>2 DEF Adding
  <2> QED BY <1>2, <1>3, <2>1, <2>2, NumbersAssumption
<1> QED BY <1>4, <1>5

(* The request that counted ends when there are not too many.              *)
LEMMA CapCounted ==
  ASSUME LifecycleInv, BooksInv, SerialUse, CapInv, faults' = faults,
         NEW p \in Reqs, Busy(p),
         Finish(p), records' = records,
         Cardinality(Named(FileName[req[p].key])) <= MaxFileVersions
  PROVE  CapInv'
<1> SUFFICES ASSUME MaxFileVersions > 0, NEW f \in Files, Spared(f)
             PROVE  (LET adding == \E q \in Reqs : Adding(q) /\ FileName[req[q].key] = f
                     IN Cardinality(Named(f)) <= MaxFileVersions + IF adding THEN 1 ELSE 0)'
  BY SparedSame DEF CapInv
<1>1. \A q \in Reqs \ {p} : req'[q] = req[q]
  BY DEF LifecycleInv, TypeOK, Finish
<1>2. IsFiniteSet(Named(f)) /\ Cardinality(Named(f)) \in Nat
  BY FS_Subset, FS_CardinalityType DEF Named, BooksInv
<1>3. Cardinality(Named(f)) <= MaxFileVersions
        + IF \E q \in Reqs : Adding(q) /\ FileName[req[q].key] = f THEN 1 ELSE 0
  BY DEF CapInv
<1>4. Named(f)' = Named(f) BY DEF Named
<1>5. CASE f = FileName[req[p].key]
  BY <1>2, <1>4, <1>5, NumbersAssumption
<1>6. CASE f # FileName[req[p].key]
  <2>1. ASSUME NEW q \in Reqs, Adding(q), FileName[req[q].key] = f
        PROVE  Adding(q)' /\ FileName[req'[q].key] = f
    BY <1>1, <1>6, <2>1 DEF Adding
  <2> QED BY <1>2, <1>3, <1>4, <2>1, NumbersAssumption
<1> QED BY <1>5, <1>6

(* The request that had one too many drops one and ends.                   *)
LEMMA CapShrinks ==
  ASSUME LifecycleInv, BooksInv, SerialUse, CapInv, faults' = faults,
         NEW p \in Reqs, Busy(p),
         Finish(p), NEW k \in Keys, FileName[k] = FileName[req[p].key],
         NEW id, RecordIs(k, id), records' = {r \in records : r.id # id}
  PROVE  CapInv'
<1> SUFFICES ASSUME MaxFileVersions > 0, NEW f \in Files, Spared(f)
             PROVE  (LET adding == \E q \in Reqs : Adding(q) /\ FileName[req[q].key] = f
                     IN Cardinality(Named(f)) <= MaxFileVersions + IF adding THEN 1 ELSE 0)'
  BY SparedSame DEF CapInv
<1> DEFINE old == [id |-> id, name |-> FileName[k], key |-> k]
<1>1. \A q \in Reqs \ {p} : req'[q] = req[q]
  BY DEF LifecycleInv, TypeOK, Finish
<1>2. IsFiniteSet(Named(f)) /\ Cardinality(Named(f)) \in Nat
  BY FS_Subset, FS_CardinalityType DEF Named, BooksInv
<1>3. Cardinality(Named(f)) <= MaxFileVersions
        + IF \E q \in Reqs : Adding(q) /\ FileName[req[q].key] = f THEN 1 ELSE 0
  BY DEF CapInv
<1>4. old \in records /\ \A r \in records : r.id = id => r = old
  BY DEF RecordIs, BooksInv
<1>5. CASE f = FileName[k]
  <2>1. Named(f)' = Named(f) \ {old} /\ old \in Named(f)
    BY <1>4, <1>5 DEF Named
  <2>2. Cardinality(Named(f)') = Cardinality(Named(f)) - 1
        /\ Cardinality(Named(f)') \in Nat
    BY <1>2, <2>1, FS_RemoveElement, FS_CardinalityType
  <2> QED BY <1>2, <1>3, <2>2, NumbersAssumption
<1>6. CASE f # FileName[k]
  <2>1. Named(f)' = Named(f) BY <1>4, <1>6 DEF Named
  <2>2. ASSUME NEW q \in Reqs, Adding(q), FileName[req[q].key] = f
        PROVE  Adding(q)' /\ FileName[req'[q].key] = f
    BY <1>1, <1>6, <2>2 DEF Adding
  <2> QED BY <1>2, <1>3, <2>1, <2>2, NumbersAssumption
<1> QED BY <1>5, <1>6

----------------------------------------------------------------------------
(* The books: they are kept whatever overlaps and whatever fails. *)

(* Records go, or one is added under the next id.                          *)
LEMMA BooksFrame ==
  ASSUME TypeOK, BooksInv, destroyed' \subseteq uploaded',
         \/ records' \subseteq records /\ nextId' = nextId
         \/ \E name, k : AddRecord(name, k)
  PROVE  BooksInv'
<1>1. CASE records' \subseteq records /\ nextId' = nextId
  <2>1. IsFiniteSet(records') BY <1>1, FS_Subset DEF BooksInv
  <2> QED BY <1>1, <2>1 DEF BooksInv
<1>2. ASSUME NEW name, NEW k, AddRecord(name, k) PROVE BooksInv'
  <2>1. PICK new : /\ new = [id |-> nextId, name |-> name, key |-> k]
                   /\ records' = records \cup {new}
    BY <1>2 DEF AddRecord
  <2>2. new.id = nextId /\ nextId' = nextId + 1 /\ nextId \in Nat
    BY <1>2, <2>1 DEF AddRecord, TypeOK
  <2>3. IsFiniteSet(records') BY <2>1, FS_AddElement DEF BooksInv
  <2>4. \A r \in records : r.id \in Nat /\ r.id < nextId
    BY DEF TypeOK, Records, BooksInv
  <2>5. \A r \in records' : r.id < nextId' BY <2>1, <2>2, <2>4
  <2>6. \A r, s \in records' : r.id = s.id => r = s
    BY <2>1, <2>2, <2>4 DEF BooksInv
  <2> QED BY <2>3, <2>5, <2>6 DEF BooksInv
<1> QED BY <1>1, <1>2

(* Every step keeps the books.                                             *)
LEMMA BooksNext ==
  ASSUME LifecycleInv, BooksInv, [Next]_vars
  PROVE  BooksInv'
<1>1. /\ TypeOK /\ destroyed \subseteq uploaded
      /\ \A p \in Reqs : Busy(p) => req[p].key \in uploaded /\ req[p].other \in uploaded
  BY DEF LifecycleInv, NamesInv, BooksInv
<1>2. CASE UNCHANGED vars BY <1>1, <1>2, BooksFrame DEF vars
<1>3. ASSUME NEW k \in Keys, Upload(k) \/ ExpireTrash(k) PROVE BooksInv'
  <2>1. records' \subseteq records /\ nextId' = nextId
    BY <1>3 DEF Upload, ExpireTrash
  <2>2. destroyed' \subseteq uploaded' BY <1>1, <1>3 DEF Upload, ExpireTrash
  <2> QED BY <1>1, <2>1, <2>2, BooksFrame
<1>4. ASSUME NEW p \in Reqs, DeleteStep(p) \/ RestoreStep(p) \/ Abort(p)
      PROVE  BooksInv'
  <2>1. UNCHANGED <<records, nextId, uploaded, destroyed>>
    BY <1>4 DEF DeleteStep, BeginDelete, DeleteHead, DeleteCopy, DeleteInfo,
                DeleteRemove, RestoreStep, BeginRestore, RestoreHeadTrash,
                RestoreHeadActive, RestoreCopy, RestoreInfo, RestoreRemove,
                CopyData, TryCopy, Abort
  <2> QED BY <1>1, <2>1, BooksFrame
<1>5. ASSUME NEW p \in Reqs, NEW k \in uploaded, NEW place, Destroy(place, k),
             UNCHANGED <<records, nextId, uploaded>>
      PROVE  BooksInv'
  <2>1. destroyed' \subseteq uploaded' BY <1>1, <1>5 DEF Destroy
  <2> QED BY <1>1, <1>5, <2>1, BooksFrame
<1>6. ASSUME NEW p \in Reqs, ArchiveStep(p) PROVE BooksInv'
  <2>1. CASE ArchiveEvict(p)
    <3>1. req[p].other \in uploaded
      BY <1>1, <2>1, AtBusy DEF ArchiveEvict, Labels
    <3> QED BY <1>5, <2>1, <3>1 DEF ArchiveEvict
  <2>2. CASE ArchiveRecord(p)
    BY <1>1, <2>2, BooksFrame DEF ArchiveRecord
  <2>3. CASE ArchiveDrop(p)
    BY <1>1, <2>3, BooksFrame DEF ArchiveDrop, DropRecord
  <2>4. CASE ~ (ArchiveEvict(p) \/ ArchiveRecord(p) \/ ArchiveDrop(p))
    <3>1. UNCHANGED <<records, nextId, uploaded, destroyed>>
      BY <1>6, <2>4 DEF ArchiveStep, BeginArchive, ArchiveHead, ArchiveResolve,
           ArchiveCopy, ArchiveInfo, ArchiveRemove, ArchiveCount, ArchiveOldest,
           CopyData, TryCopy
    <3> QED BY <1>1, <3>1, BooksFrame
  <2> QED BY <2>1, <2>2, <2>3, <2>4
<1>7. ASSUME NEW p \in Reqs, VRestoreStep(p) PROVE BooksInv'
  <2>1. CASE VRestoreArchRecord(p)
    BY <1>1, <2>1, BooksFrame DEF VRestoreArchRecord
  <2>2. CASE VRestoreDrop(p)
    BY <1>1, <2>2, BooksFrame DEF VRestoreDrop, DropRecord
  <2>3. CASE ~ (VRestoreArchRecord(p) \/ VRestoreDrop(p))
    <3>1. UNCHANGED <<records, nextId, uploaded, destroyed>>
      BY <1>7, <2>3 DEF VRestoreStep, BeginVersion, VersionList, VersionFind,
           VRestoreScan, VRestoreArchCopy, VRestoreArchInfo, VRestoreArchRemove,
           VRestoreCopy, VRestoreInfo, VRestoreRemove, CopyData, TryCopy
    <3> QED BY <1>1, <3>1, BooksFrame
  <2> QED BY <2>1, <2>2, <2>3
<1>8. ASSUME NEW p \in Reqs, VDeleteStep(p) PROVE BooksInv'
  <2>1. CASE VDeleteRemove(p)
    <3>1. req[p].key \in uploaded
      BY <1>1, <2>1, AtBusy DEF VDeleteRemove, Labels
    <3> QED BY <1>5, <2>1, <3>1 DEF VDeleteRemove
  <2>2. CASE VDeleteDrop(p)
    BY <1>1, <2>2, BooksFrame DEF VDeleteDrop, DropRecord
  <2>3. CASE ~ (VDeleteRemove(p) \/ VDeleteDrop(p))
    <3>1. UNCHANGED <<records, nextId, uploaded, destroyed>>
      BY <1>8, <2>3 DEF VDeleteStep, BeginVersion, VersionList, VersionFind
    <3> QED BY <1>1, <3>1, BooksFrame
  <2> QED BY <2>1, <2>2, <2>3
<1> QED BY <1>2, <1>3, <1>4, <1>6, <1>7, <1>8 DEF Next, Handle

----------------------------------------------------------------------------
(* The records in hand, also whatever overlaps and whatever fails. *)

(* Requests keep the record they have, or take one of their own name.      *)
LEMMA HeldFrame ==
  ASSUME TypeOK, BooksInv, HeldInv,
         \/ records' \subseteq records /\ nextId' = nextId
         \/ \E name, k : AddRecord(name, k),
         \A q \in Reqs : Holding(q)' =>
           \/ /\ Holding(q) /\ req'[q].id = req[q].id
              /\ FileName[req'[q].key] = FileName[req[q].key]
           \/ /\ UNCHANGED <<records, nextId>>
              /\ \E r \in records : /\ r.id = req'[q].id
                                    /\ FileName[r.key] = FileName[req'[q].key]
  PROVE  HeldInv'
<1> SUFFICES ASSUME NEW q \in Reqs, Holding(q)'
             PROVE  /\ req'[q].id < nextId'
                    /\ \A r \in records' : r.id = req'[q].id =>
                         FileName[r.key] = FileName[req'[q].key]
  BY DEF HeldInv
<1>1. \A r \in records : r.id \in Nat /\ r.id < nextId
  BY DEF TypeOK, Records, BooksInv
<1>2. CASE /\ Holding(q) /\ req'[q].id = req[q].id
           /\ FileName[req'[q].key] = FileName[req[q].key]
  <2>1. /\ req[q].id < nextId
        /\ \A r \in records : r.id = req[q].id => FileName[r.key] = FileName[req[q].key]
    BY <1>2 DEF HeldInv
  <2>2. CASE records' \subseteq records /\ nextId' = nextId
    BY <1>2, <2>1, <2>2
  <2>3. ASSUME NEW name, NEW k, AddRecord(name, k)
        PROVE  /\ req'[q].id < nextId'
               /\ \A r \in records' : r.id = req'[q].id =>
                    FileName[r.key] = FileName[req'[q].key]
    <3>1. PICK new : new.id = nextId /\ records' = records \cup {new}
      BY <2>3 DEF AddRecord
    <3>2. nextId' = nextId + 1 /\ nextId \in Nat BY <2>3 DEF AddRecord, TypeOK
    <3>3. req[q].id \in Nat BY <1>2 DEF Holding, TypeOK, Requests, Idle
    <3> QED BY <1>2, <2>1, <3>1, <3>2, <3>3
  <2> QED BY <2>2, <2>3
<1>3. ASSUME UNCHANGED <<records, nextId>>, NEW t \in records,
             t.id = req'[q].id, FileName[t.key] = FileName[req'[q].key]
      PROVE  /\ req'[q].id < nextId'
             /\ \A r \in records' : r.id = req'[q].id =>
                  FileName[r.key] = FileName[req'[q].key]
  BY <1>1, <1>3 DEF BooksInv
<1> QED BY <1>2, <1>3

(* What the ends of a request and its next calls mean for what it holds.   *)
LEMMA HeldStep ==
  ASSUME LifecycleInv, NEW p \in Reqs, Busy(p),
         \/ Finish(p)
         \/ \E pc \in Labels : Goto(p, pc) /\ (Holding(p) \/ pc \notin {"evict", "dropRecord"})
  PROVE  \A q \in Reqs : Holding(q)' =>
           /\ Holding(q) /\ req'[q].id = req[q].id
           /\ FileName[req'[q].key] = FileName[req[q].key]
<1>1. TypeOK /\ req[p] \in Requests BY BusyType DEF LifecycleInv
<1>2. CASE Finish(p) BY <1>1, <1>2 DEF TypeOK, Finish, Holding, Idle
<1>3. ASSUME NEW pc \in Labels, Goto(p, pc),
             Holding(p) \/ pc \notin {"evict", "dropRecord"}
      PROVE  \A q \in Reqs : Holding(q)' =>
               /\ Holding(q) /\ req'[q].id = req[q].id
               /\ FileName[req'[q].key] = FileName[req[q].key]
  <2>1. PICK s \in Requests : s = [req[p] EXCEPT !.pc = pc]
    BY <1>1 DEF Requests
  <2>2. /\ s.kind = req[p].kind /\ s.id = req[p].id /\ s.key = req[p].key
        /\ s.pc = pc
    BY <1>1, <2>1 DEF Requests
  <2>3. req'[p] = s /\ \A q \in Reqs \ {p} : req'[q] = req[q]
    BY <1>1, <1>3, <2>1 DEF TypeOK, Goto
  <2> QED BY <1>3, <2>2, <2>3 DEF Holding
<1> QED BY <1>2, <1>3

(* Every step keeps what is held in order.                                 *)
LEMMA HeldNext ==
  ASSUME LifecycleInv, BooksInv, HeldInv, [Next]_vars
  PROVE  HeldInv'
<1>1. TypeOK BY DEF LifecycleInv
<1>2. CASE UNCHANGED vars \/ \E k \in Keys : Upload(k) \/ ExpireTrash(k)
  <2>1. UNCHANGED <<req, records, nextId>> BY <1>2 DEF vars, Upload, ExpireTrash
  <2> QED BY <2>1 DEF HeldInv, Holding
<1>3. ASSUME NEW p \in Reqs, NEW r \in Requests, Begin(p, r),
             r.kind \in {"delete", "restore", "archive"}, r.pc = "head",
             UNCHANGED <<records, nextId>>
      PROVE  HeldInv'
  <2>1. \A q \in Reqs : Holding(q)' =>
          /\ Holding(q) /\ req'[q].id = req[q].id
          /\ FileName[req'[q].key] = FileName[req[q].key]
    BY <1>1, <1>3 DEF Holding, Begin, TypeOK
  <2> QED BY <1>1, <1>3, <2>1, HeldFrame
<1>4. ASSUME NEW p \in Reqs, NEW kind \in {"vrestore", "vdelete"}, NEW t \in records,
             BeginVersion(p, kind, t)
      PROVE  HeldInv'
  <2>1. req'[p] = [kind |-> kind, pc |-> "list", key |-> t.key, other |-> t.key,
                   name |-> t.name, id |-> t.id]
        /\ \A q \in Reqs \ {p} : req'[q] = req[q]
    BY <1>1, <1>4 DEF BeginVersion, Begin, TypeOK
  <2>2. req'[p].id = t.id /\ req'[p].key = t.key BY <2>1
  <2>3. \E s \in records : /\ s.id = req'[p].id
                          /\ FileName[s.key] = FileName[req'[p].key]
    BY <2>2
  <2>4. ASSUME NEW q \in Reqs \ {p}, Holding(q)'
        PROVE  /\ Holding(q) /\ req'[q].id = req[q].id
               /\ FileName[req'[q].key] = FileName[req[q].key]
    BY <2>1, <2>4 DEF Holding
  <2>5. UNCHANGED <<records, nextId>> /\ records' \subseteq records
    BY <1>4 DEF BeginVersion
  <2> QED BY <1>1, <2>3, <2>4, <2>5, HeldFrame
<1>5. ASSUME NEW p \in Reqs, DeleteStep(p) \/ RestoreStep(p) \/ Abort(p)
      PROVE  HeldInv'
  <2>1. ASSUME NEW k \in Keys, BeginDelete(p, k) \/ BeginRestore(p, k)
        PROVE  HeldInv'
    BY <1>3, <2>1 DEF BeginDelete, BeginRestore, Requests, Kinds, Labels
  <2>2. CASE ~ \E k \in Keys : BeginDelete(p, k) \/ BeginRestore(p, k)
    <3>1. UNCHANGED <<records, nextId>>
      BY <1>5, <2>2 DEF DeleteStep, DeleteHead, DeleteCopy, DeleteInfo,
           DeleteRemove, RestoreStep, RestoreHeadTrash, RestoreHeadActive,
           RestoreCopy, RestoreInfo, RestoreRemove, CopyData, TryCopy, Abort
    <3>2. Busy(p)
      BY <1>1, <1>5, <2>2, AtBusy
         DEF DeleteStep, DeleteHead, DeleteCopy, DeleteInfo, DeleteRemove,
             RestoreStep, RestoreHeadTrash, RestoreHeadActive, RestoreCopy,
             RestoreInfo, RestoreRemove, Abort, Labels
    <3>3. Finish(p) \/ \E pc \in Labels : Goto(p, pc) /\ pc \notin {"evict", "dropRecord"}
      BY <1>5, <2>2
         DEF DeleteStep, DeleteHead, DeleteCopy, DeleteInfo, DeleteRemove,
             RestoreStep, RestoreHeadTrash, RestoreHeadActive, RestoreCopy,
             RestoreInfo, RestoreRemove, CopyData, TryCopy, Abort, Labels
    <3> QED BY <1>1, <3>1, <3>2, <3>3, HeldStep, HeldFrame
  <2> QED BY <2>1, <2>2
<1>6. ASSUME NEW p \in Reqs, ArchiveStep(p) PROVE HeldInv'
  <2>1. ASSUME NEW k \in Keys, BeginArchive(p, k) PROVE HeldInv'
    BY <1>3, <2>1 DEF BeginArchive, Requests, Kinds, Labels
  <2>2. CASE ArchiveResolve(p)
    <3>1. Busy(p) /\ req[p] \in Requests /\ req[p].kind = "archive"
      BY <1>1, <2>2, AtBusy DEF ArchiveResolve, At, Labels
    <3>2. PICK name : req' = [req EXCEPT ![p].pc = "copy", ![p].name = name]
      BY <2>2 DEF ArchiveResolve
    <3>3. req'[p].pc = "copy" /\ req'[p].kind = "archive"
          /\ \A q \in Reqs \ {p} : req'[q] = req[q]
      BY <1>1, <3>1, <3>2 DEF TypeOK, Requests
    <3>4. \A q \in Reqs : Holding(q)' => q # p /\ Holding(q)
      BY <3>3 DEF Holding
    <3>5. UNCHANGED <<records, nextId>> BY <2>2 DEF ArchiveResolve
    <3> QED BY <1>1, <3>3, <3>4, <3>5, HeldFrame
  <2>3. CASE ArchiveOldest(p)
    <3>1. Busy(p) /\ req[p] \in Requests /\ req[p].kind = "archive"
          /\ UNCHANGED <<records, nextId>>
      BY <1>1, <2>3, AtBusy DEF ArchiveOldest, At, Labels
    <3>2. ASSUME NEW t \in Oldest(req[p].name),
                 req' = [req EXCEPT ![p].pc = "evict", ![p].other = t.key,
                                    ![p].id = t.id]
          PROVE  HeldInv'
      <4>1. t \in records /\ t.name = req[p].name BY DEF Oldest, Named
      <4>2. t.key \in uploaded /\ t.name \in NamesOf(t.key)
        BY <4>1 DEF LifecycleInv, NamesInv
      <4>3. FileName[t.key] = FileName[req[p].key] BY <3>1, <4>1, <4>2, SameFile
      <4>4. /\ req'[p].id = t.id /\ req'[p].key = req[p].key
            /\ \A q \in Reqs \ {p} : req'[q] = req[q]
        BY <1>1, <3>1, <3>2 DEF TypeOK, Requests
      <4>5. \A q \in Reqs \ {p} : Holding(q)' => Holding(q) BY <4>4 DEF Holding
      <4> QED BY <1>1, <3>1, <4>1, <4>3, <4>4, <4>5, HeldFrame
    <3>3. CASE Finish(p) BY <1>1, <3>1, <3>3, HeldStep, HeldFrame
    <3> QED BY <2>3, <3>2, <3>3 DEF ArchiveOldest
  <2>4. CASE ArchiveEvict(p)
    <3>1. Busy(p) /\ Holding(p) /\ Goto(p, "dropRecord")
          /\ UNCHANGED <<records, nextId>>
      BY <1>1, <2>4, AtBusy DEF ArchiveEvict, At, Holding, Labels
    <3> QED BY <1>1, <3>1, HeldStep, HeldFrame DEF Labels
  <2>5. CASE \/ ArchiveHead(p) \/ ArchiveCopy(p) \/ ArchiveInfo(p) \/ ArchiveRemove(p)
             \/ ArchiveRecord(p) \/ ArchiveCount(p) \/ ArchiveDrop(p)
    <3>1. Busy(p)
      BY <1>1, <2>5, AtBusy
         DEF ArchiveHead, ArchiveCopy, ArchiveInfo, ArchiveRemove, ArchiveRecord,
             ArchiveCount, ArchiveDrop, Labels
    <3>2. \/ records' \subseteq records /\ nextId' = nextId
          \/ \E name, k : AddRecord(name, k)
      BY <2>5
         DEF ArchiveHead, ArchiveCopy, ArchiveInfo, ArchiveRemove, ArchiveRecord,
             ArchiveCount, ArchiveDrop, CopyData, TryCopy, DropRecord
    <3>3. Finish(p) \/ \E pc \in Labels : Goto(p, pc) /\ pc \notin {"evict", "dropRecord"}
      BY <2>5
         DEF ArchiveHead, ArchiveCopy, ArchiveInfo, ArchiveRemove, ArchiveRecord,
             ArchiveCount, ArchiveDrop, CopyData, TryCopy, Labels
    <3> QED BY <1>1, <3>1, <3>2, <3>3, HeldStep, HeldFrame
  <2> QED BY <1>6, <2>1, <2>2, <2>3, <2>4, <2>5 DEF ArchiveStep
<1>7. ASSUME NEW p \in Reqs, VRestoreStep(p) PROVE HeldInv'
  <2>1. ASSUME NEW t \in records, BeginVersion(p, "vrestore", t) PROVE HeldInv'
    BY <1>4, <2>1
  <2>2. CASE VRestoreScan(p)
    <3>1. Busy(p) /\ req[p] \in Requests /\ Holding(p)
          /\ UNCHANGED <<records, nextId>>
      BY <1>1, <2>2, AtBusy DEF VRestoreScan, At, Holding, Labels
    <3>2. ASSUME NEW k \in Keys,
                 req' = [req EXCEPT ![p].pc = "archCopy", ![p].other = k]
          PROVE  HeldInv'
      <4>1. /\ req'[p].id = req[p].id /\ req'[p].key = req[p].key
            /\ \A q \in Reqs \ {p} : req'[q] = req[q]
        BY <1>1, <3>1, <3>2 DEF TypeOK, Requests
      <4>2. \A q \in Reqs : Holding(q)' => Holding(q) BY <3>1, <4>1 DEF Holding
      <4> QED BY <1>1, <3>1, <4>1, <4>2, HeldFrame
    <3>3. CASE Goto(p, "copy") BY <1>1, <3>1, <3>3, HeldStep, HeldFrame DEF Labels
    <3> QED BY <2>2, <3>2, <3>3 DEF VRestoreScan
  <2>3. CASE \/ VersionList(p, "vrestore") \/ VersionFind(p, "vrestore", "scan")
             \/ VRestoreArchCopy(p) \/ VRestoreArchInfo(p) \/ VRestoreArchRemove(p)
             \/ VRestoreArchRecord(p) \/ VRestoreCopy(p) \/ VRestoreInfo(p)
             \/ VRestoreRemove(p) \/ VRestoreDrop(p)
    <3>1. Busy(p) /\ Holding(p)
      BY <1>1, <2>3, AtBusy
         DEF VersionList, VersionFind, VRestoreArchCopy, VRestoreArchInfo,
             VRestoreArchRemove, VRestoreArchRecord, VRestoreCopy, VRestoreInfo,
             VRestoreRemove, VRestoreDrop, At, Holding, Labels
    <3>2. \/ records' \subseteq records /\ nextId' = nextId
          \/ \E name, k : AddRecord(name, k)
      BY <2>3
         DEF VersionList, VersionFind, VRestoreArchCopy, VRestoreArchInfo,
             VRestoreArchRemove, VRestoreArchRecord, VRestoreCopy, VRestoreInfo,
             VRestoreRemove, VRestoreDrop, CopyData, TryCopy, DropRecord
    <3>3. Finish(p) \/ \E pc \in Labels : Goto(p, pc)
      BY <2>3
         DEF VersionList, VersionFind, VRestoreArchCopy, VRestoreArchInfo,
             VRestoreArchRemove, VRestoreArchRecord, VRestoreCopy, VRestoreInfo,
             VRestoreRemove, VRestoreDrop, CopyData, TryCopy, Labels
    <3> QED BY <1>1, <3>1, <3>2, <3>3, HeldStep, HeldFrame
  <2> QED BY <1>7, <2>1, <2>2, <2>3 DEF VRestoreStep
<1>8. ASSUME NEW p \in Reqs, VDeleteStep(p) PROVE HeldInv'
  <2>1. ASSUME NEW t \in records, BeginVersion(p, "vdelete", t) PROVE HeldInv'
    BY <1>4, <2>1
  <2>2. CASE \/ VersionList(p, "vdelete") \/ VersionFind(p, "vdelete", "remove")
             \/ VDeleteRemove(p) \/ VDeleteDrop(p)
    <3>1. Busy(p) /\ Holding(p)
      BY <1>1, <2>2, AtBusy
         DEF VersionList, VersionFind, VDeleteRemove, VDeleteDrop, At, Holding, Labels
    <3>2. records' \subseteq records /\ nextId' = nextId
      BY <2>2 DEF VersionList, VersionFind, VDeleteRemove, VDeleteDrop, DropRecord
    <3>3. Finish(p) \/ \E pc \in Labels : Goto(p, pc)
      BY <2>2 DEF VersionList, VersionFind, VDeleteRemove, VDeleteDrop, Labels
    <3> QED BY <1>1, <3>1, <3>2, <3>3, HeldStep, HeldFrame
  <2> QED BY <1>8, <2>1, <2>2 DEF VDeleteStep
<1> QED BY <1>2, <1>5, <1>6, <1>7, <1>8 DEF Next, Handle

----------------------------------------------------------------------------
(* The ways a request goes on, while no call fails. *)

(* What is known before a step, and of the parts that are proved already   *)
(* after it.                                                               *)
Before ==
  /\ SerialUse
  /\ LifecycleInv /\ LifecycleInv'
  /\ BooksInv /\ BooksInv'
  /\ StageInv /\ CapInv
  /\ uploaded' = uploaded /\ faults' = faults

(* A step that changes objects, history and records of k alone.            *)
Only(k) ==
  /\ \E place \in Places : Grows(place, k) \/ Shrinks(place, k)
  /\ \A j : j # k => (j \in destroyed' <=> j \in destroyed)
  /\ \A r : r.key # k => (r \in records' <=> r \in records)

(* The other keys stay as they are.                                        *)
LEMMA Elsewhere ==
  ASSUME NEW k, Only(k), NEW j, j # k
  PROVE  SameKey(j)
BY DEF Only, SameKey, Grows, Shrinks

(* The next step of a handler, and what it keeps of the request.           *)
LEMMA GoesTo ==
  ASSUME Before, NEW p \in Reqs, Busy(p), NEW pc \in Labels, Goto(p, pc)
  PROVE  /\ Continues(p)
         /\ \E r, s \in Requests :
              /\ r = req[p] /\ s = req'[p]
              /\ s.pc = pc /\ s.kind = r.kind /\ s.key = r.key
              /\ s.other = r.other /\ s.name = r.name /\ s.id = r.id
<1>1. req[p] \in Requests /\ Continues(p)
  BY BusyType, GotoContinues DEF Before, LifecycleInv
<1>2. req'[p] = [req[p] EXCEPT !.pc = pc] BY DEF Before, LifecycleInv, TypeOK, Goto
<1>3. [req[p] EXCEPT !.pc = pc] \in Requests BY <1>1 DEF Requests
<1>4. PICK r \in Requests : r = req[p] BY <1>1
<1>5. PICK s \in Requests : s = [r EXCEPT !.pc = pc] BY <1>3, <1>4
<1>6. /\ s.pc = pc /\ s.kind = r.kind /\ s.key = r.key
      /\ s.other = r.other /\ s.name = r.name /\ s.id = r.id
  BY <1>5 DEF Requests
<1> QED BY <1>1, <1>2, <1>4, <1>5, <1>6

(* The request goes on, and is where its stage says.                       *)
LEMMA GoesOn ==
  ASSUME Before, NEW p \in Reqs, Busy(p), Continues(p),
         NEW r \in Requests, r = req[p], NEW s \in Requests, s = req'[p],
         {r.key, r.other} \subseteq {s.key, s.other},
         \A k \in Keys \ {r.key, r.other} : SameKey(k), Stage(s)'
  PROVE  StageInv'
<1>1. (Stage(req[p]))' BY StageNow
<1>2. \A k \in Keys : k \notin {req[p].key, req[p].other} => SameKey(k)
  OBVIOUS
<1>3. req'[p] # Idle BY DEF Requests, Idle, Labels
<1> QED BY <1>1, <1>2, <1>3, StageFrame DEF Before

(* The request ends, and leaves its files tidy.                            *)
LEMMA Ends ==
  ASSUME Before, NEW p \in Reqs, Busy(p), Finish(p),
         NEW r \in Requests, r = req[p],
         \A k \in Keys \ {r.key, r.other} : SameKey(k),
         Tidy(r.key)', Tidy(r.other)'
  PROVE  StageInv'
<1>1. Continues(p) /\ req'[p] = Idle BY FinishContinues DEF Before
<1>2. (Stage(req[p]))' BY <1>1, IdleStage
<1>3. \A k \in Keys : k \notin {req[p].key, req[p].other} => SameKey(k)
  OBVIOUS
<1> QED BY <1>1, <1>2, <1>3, StageFrame DEF Before

(* Nothing but the requests changes.                                       *)
LEMMA AllSame ==
  ASSUME UNCHANGED <<objects, records, destroyed>>
  PROVE  \A k : SameKey(k)
BY DEF SameKey

(* A request begins, on a file that nobody works on.                       *)
LEMMA Begins ==
  ASSUME Before, NEW p \in Reqs, NEW r \in Requests, Begin(p, r),
         Spared(FileName[r.key]), r.key \in uploaded, r.other = r.key, r.pc \in {"head", "list"},
         Tidy(r.key) => Stage(r),
         UNCHANGED <<objects, records, destroyed>>
  PROVE  StageInv' /\ CapInv'
<1>1. /\ TypeOK /\ TypeOK' /\ ~ Busy(p) /\ req'[p] = r
      /\ \A q \in Reqs \ {p} : req'[q] = req[q]
      /\ \A k : SameKey(k)
  BY AllSame DEF Before, LifecycleInv, TypeOK, Begin
<1>2. ASSUME NEW q \in Reqs, Busy(q) PROVE r.key \notin {req[q].key, req[q].other}
  <2>1. FileName[req[q].key] # FileName[r.key]
    BY <1>2 DEF Begin, Compatible, Before, SerialUse
  <2> QED BY <1>2, <2>1 DEF Before, LifecycleInv, NamesInv
<1>3. Stage(r) BY <1>2 DEF Before, StageInv, Touched
<1>4. ASSUME NEW s \in Requests, Stage(s) PROVE Stage(s)'
  <2>1. \A t : t \in Named(s.name)' <=> t \in Named(s.name) BY DEF Named
  <2> QED BY <1>1, <1>4, <2>1, StageKeeps DEF Before
<1>5. ASSUME NEW q \in Reqs, Busy(q)', Spared(FileName[req[q].key])'
      PROVE  (Stage(req[q]))'
  <2>1. CASE q = p BY <1>1, <1>3, <1>4, <2>1, StageNow
  <2>2. CASE q # p
    <3>1. req'[q] = req[q] /\ Busy(q) BY <1>1, <1>5, <2>2 DEF Busy
    <3>2. PICK s \in Requests : s = req[q] BY <1>1, <3>1, BusyType
    <3>3. Stage(s) /\ req'[q] = s
      BY <1>5, <3>1, <3>2, SparedSame DEF Before, StageInv
    <3> QED BY <1>4, <3>3, StageNow
  <2> QED BY <2>1, <2>2
<1>6. ASSUME NEW k \in uploaded', Spared(FileName[k])', ~ Touched(k)'
      PROVE  Tidy(k)'
  <2>1. k \in Keys /\ k \in uploaded /\ Spared(FileName[k])
    BY <1>1, <1>6, SparedSame DEF TypeOK, Before
  <2>2. ~ Touched(k) BY <1>1, <1>6 DEF Touched, Busy
  <2>3. Tidy(k) BY <2>1, <2>2 DEF Before, StageInv
  <2> QED BY <1>1, <2>1, <2>3, TidySame DEF Before
<1>7. StageInv' BY <1>5, <1>6 DEF StageInv
<1>8. \A q \in Reqs : /\ Adding(q)' <=> Adding(q)
                      /\ Adding(q) => req'[q].key = req[q].key
  BY <1>1 DEF Adding, Busy
<1>9. CapInv'
  <2>1. \A f : Named(f)' = Named(f) BY DEF Named
  <2>2. \A f : (\E q \in Reqs : Adding(q)' /\ FileName[req'[q].key] = f)
                 <=> (\E q \in Reqs : Adding(q) /\ FileName[req[q].key] = f)
    BY <1>8
  <2> QED BY <2>1, <2>2, SparedSame DEF CapInv, Before
<1> QED BY <1>7, <1>9

----------------------------------------------------------------------------
(* The moves of a file: copy the data, copy the sidecar, remove both. *)

(* The data is copied.                                                     *)
LEMMA DataCopied ==
  ASSUME NEW k, NEW from \in Places, NEW to \in Places, from # to,
         Alive(k, {from}, {}), objects' = objects \cup {<<to, k, "data">>},
         UNCHANGED <<records, destroyed>>
  PROVE  Only(k) /\ Alive(k, {from}, {to})'
<1>1. Only(k) BY DEF Only, Grows, Parts
<1>2. Lies(k, {from}, {to})' BY DEF Alive, Lies, Data, Info
<1> QED BY <1>1, <1>2 DEF Alive

(* The sidecar is copied.                                                  *)
LEMMA InfoCopied ==
  ASSUME NEW k, NEW from \in Places, NEW to \in Places, from # to,
         Alive(k, {from}, {to}), objects' = objects \cup Copied(from, to, k, "info"),
         UNCHANGED <<records, destroyed>>
  PROVE  Only(k) /\ Alive(k, {from, to}, {})'
<1>1. objects' = objects \cup {<<to, k, "info">>}
  BY DEF Alive, Lies, Info, Copied
<1>2. Only(k) BY <1>1 DEF Only, Grows, Parts
<1>3. Lies(k, {from, to}, {})' BY <1>1 DEF Alive, Lies, Data, Info
<1> QED BY <1>2, <1>3 DEF Alive

(* The original is removed.                                                *)
LEMMA PairRemoved ==
  ASSUME NEW k, NEW from \in Places, NEW to \in Places, from # to,
         Alive(k, {from, to}, {}),
         objects' = objects \ {<<from, k, part>> : part \in Parts},
         UNCHANGED <<records, destroyed>>
  PROVE  Only(k) /\ Alive(k, {to}, {})'
<1>1. Only(k) BY DEF Only, Shrinks
<1>2. Lies(k, {to}, {})' BY DEF Alive, Lies, Data, Info, Parts
<1> QED BY <1>1, <1>2 DEF Alive

(* The only copy is removed on purpose.                                    *)
LEMMA PairDestroyed ==
  ASSUME NEW k, NEW place \in Places, Alive(k, {place}, {}),
         objects' = objects \ {<<place, k, part>> : part \in Parts},
         destroyed' = destroyed \cup {j \in {k} : ~ Kept(j)'}, records' = records
  PROVE  Only(k) /\ Dead(k)'
<1>1. Only(k) BY DEF Only, Shrinks
<1>2. Lies(k, {}, {})' BY DEF Alive, Lies, Data, Info, Parts
<1>3. ~ Kept(k)' BY <1>2 DEF Lies, Kept
<1> QED BY <1>1, <1>2, <1>3 DEF Dead

(* A file that is in a place is in no other.                               *)
LEMMA AliveAt ==
  ASSUME NEW k, NEW place \in {"active", "trash"}, Tidy(k), Data(place, k)
  PROVE  Alive(k, {place}, {}) /\ Unrecorded(k)
BY DEF Tidy, Version, Alive, Dead, Lies, Places

(* A file with a record is the version that the record describes.          *)
LEMMA VersionOf ==
  ASSUME NEW k, Tidy(k), NEW r \in records, r.key = k
  PROVE  Version(k, r.id)
BY DEF Tidy, Unrecorded, Version, RecordIs

(* A file in the active place or the trash, without records, is tidy.      *)
LEMMA TidyPlace ==
  ASSUME NEW k, NEW place \in {"active", "trash"}
  PROVE  Alive(k, {place}, {}) /\ Unrecorded(k) => Tidy(k)
BY DEF Tidy

(* A version is tidy.                                                      *)
LEMMA TidyVersion ==
  ASSUME NEW k, NEW id, Version(k, id)
  PROVE  Tidy(k)
<1> DEFINE mine == [id |-> id, name |-> FileName[k], key |-> k]
<1>1. mine \in records /\ mine.id = id BY DEF Version, RecordIs
<1>2. PICK r \in records : r.id = id BY <1>1
<1>3. Version(k, r.id) BY <1>2
<1> QED BY <1>3 DEF Tidy

----------------------------------------------------------------------------
(* The handlers, while no call fails. *)

(* No call fails in this step, and none has failed for the name of p.      *)
Calm(p) ==
  /\ Before /\ p \in Reqs
  /\ Busy(p) => Spared(FileName[req[p].key])
  /\ Busy(p)' => Spared(FileName[req[p].key])'

(* A call that fails is remembered.                                        *)
LEMMA NoFailure ==
  ASSUME TypeOK, faults' = faults
  PROVE  \A call, k : ~ Fault(call, k)
<1> SUFFICES ASSUME NEW call, NEW k, Fault(call, k) PROVE FALSE
  OBVIOUS
<1> DEFINE Names == Files \cup {FileName[k]}
<1>1. faults \in Seq(Names) /\ FileName[k] \in Names BY DEF TypeOK
<1> HIDE DEF Names
<1>2. Len(Append(faults, FileName[k])) = Len(faults) + 1 /\ Len(faults) \in Nat
  BY <1>1
<1> QED BY <1>2 DEF Fault

(* The same, while the gateway is calm.                                    *)
LEMMA CalmStep ==
  ASSUME NEW p \in Reqs, Calm(p)
  PROVE  \A call, k : ~ Fault(call, k)
BY NoFailure DEF Calm, Before, LifecycleInv

(* A request begins on a file of a name that is spared.                    *)
LEMMA BeginsCalm ==
  ASSUME NEW p \in Reqs, Calm(p), NEW r \in Requests, Begin(p, r),
         r.key \in uploaded, r.other = r.key, r.pc \in {"head", "list"},
         Tidy(r.key) => Stage(r),
         UNCHANGED <<objects, records, destroyed>>
  PROVE  StageInv' /\ CapInv'
<1>1. req'[p] = r /\ Busy(p)'
  BY DEF Begin, Busy, Calm, Before, LifecycleInv, TypeOK
<1>2. Spared(FileName[r.key]) BY <1>1, SparedSame DEF Calm, Before
<1> QED BY <1>2, Begins DEF Calm

(* A request that is at a label, with its file.                            *)
LEMMA Here ==
  ASSUME NEW p \in Reqs, Calm(p), NEW kind, NEW pc \in Labels, At(p, kind, pc)
  PROVE  /\ Busy(p)
         /\ req[p] \in Requests /\ req[p].kind = kind /\ req[p].pc = pc
         /\ req[p].key \in uploaded /\ req[p].key \in Keys
         /\ req[p].other \in uploaded /\ req[p].other \in Keys
         /\ FileName[req[p].other] = FileName[req[p].key]
         /\ Stage(req[p])
BY AtBusy DEF Calm, Before, LifecycleInv, NamesInv, TypeOK, StageInv, At

(* The handler goes on to its next call.                                   *)
LEMMA StepOn ==
  ASSUME NEW p \in Reqs, Calm(p), NEW r \in Requests, r = req[p], Busy(p),
         NEW pc \in Labels, Goto(p, pc),
         \A k \in Keys \ {r.key, r.other} : SameKey(k),
         records' \subseteq records, Adding(p) => Adding(p)',
         \A s \in Requests :
           /\ s.pc = pc /\ s.kind = r.kind /\ s.key = r.key
           /\ s.other = r.other /\ s.name = r.name /\ s.id = r.id
           => Stage(s)'
  PROVE  StageInv' /\ CapInv'
<1>1. Continues(p) BY GoesTo DEF Calm
<1>2. PICK s \in Requests :
        /\ s = req'[p]
        /\ s.pc = pc /\ s.kind = r.kind /\ s.key = r.key
        /\ s.other = r.other /\ s.name = r.name /\ s.id = r.id
  BY GoesTo DEF Calm
<1>3. Stage(s)' BY <1>2
<1>4. StageInv' BY <1>1, <1>2, <1>3, GoesOn DEF Calm
<1> QED BY <1>1, <1>4, CapKept DEF Calm, Before

(* The handler returns, and leaves its files tidy.                         *)
LEMMA StepOff ==
  ASSUME NEW p \in Reqs, Calm(p), NEW r \in Requests, r = req[p], Busy(p),
         Finish(p), \A k \in Keys \ {r.key, r.other} : SameKey(k),
         records' \subseteq records, ~ Adding(p),
         Tidy(r.key)', Tidy(r.other)'
  PROVE  StageInv' /\ CapInv'
<1>1. Continues(p) BY FinishContinues DEF Calm, Before
<1>2. StageInv' BY Ends DEF Calm
<1> QED BY <1>1, <1>2, CapKept DEF Calm, Before

(* The three calls of a move, while none fails: what they do to the file   *)
(* that is moved, and that they do nothing else.                           *)
LEMMA MoveData ==
  ASSUME NEW p \in Reqs, Calm(p), NEW r \in Requests, r = req[p],
         NEW from \in Places, NEW to \in Places, from # to,
         CopyData(p, from, to, "info"), Alive(r.key, {from}, {})
  PROVE  /\ Goto(p, "info") /\ records' = records
         /\ Alive(r.key, {from}, {to})' /\ (Unrecorded(r.key) => Unrecorded(r.key)')
         /\ \A j : j # r.key => SameKey(j)
<1>1. /\ Goto(p, "info") /\ objects' = objects \cup {<<to, r.key, "data">>}
      /\ UNCHANGED <<records, destroyed>>
  BY DEF CopyData, Alive, Lies
<1>2. Only(r.key) /\ Alive(r.key, {from}, {to})' BY <1>1, DataCopied
<1> QED BY <1>1, <1>2, Elsewhere DEF Unrecorded

(* The sidecar follows.                                                    *)
LEMMA MoveInfo ==
  ASSUME NEW p \in Reqs, Calm(p), NEW k, NEW from \in Places, NEW to \in Places,
         from # to, NEW call, NEW next, TryCopy(p, k, "info", from, to, call, next),
         destroyed' = destroyed, Alive(k, {from}, {to})
  PROVE  /\ Goto(p, next) /\ records' = records
         /\ Alive(k, {from, to}, {})' /\ (Unrecorded(k) => Unrecorded(k)')
         /\ \A j : j # k => SameKey(j)
<1>1. /\ Goto(p, next) /\ objects' = objects \cup Copied(from, to, k, "info")
      /\ UNCHANGED <<records, destroyed>>
  BY CalmStep DEF TryCopy
<1>2. Only(k) /\ Alive(k, {from, to}, {})' BY <1>1, InfoCopied
<1> QED BY <1>1, <1>2, Elsewhere DEF Unrecorded

(* The original goes.                                                      *)
LEMMA MoveRemove ==
  ASSUME NEW p \in Reqs, Calm(p), NEW k, NEW from \in Places, NEW to \in Places,
         from # to, RemovePair(from, k), UNCHANGED <<records, destroyed>>,
         Alive(k, {from, to}, {})
  PROVE  /\ Alive(k, {to}, {})' /\ (Unrecorded(k) => Unrecorded(k)')
         /\ \A j : j # k => SameKey(j)
<1>1. objects' = objects \ {<<from, k, part>> : part \in Parts}
  BY CalmStep DEF RemovePair
<1>2. Only(k) /\ Alive(k, {to}, {})' BY <1>1, PairRemoved
<1> QED BY <1>1, <1>2, Elsewhere DEF Unrecorded

(* Every step of DeleteFileHandler.                                        *)
LEMMA DeleteSteady ==
  ASSUME NEW p \in Reqs, Calm(p), DeleteStep(p)
  PROVE  StageInv' /\ CapInv'
<1>1. ASSUME NEW k \in Keys, BeginDelete(p, k) PROVE StageInv' /\ CapInv'
  <2> DEFINE r == [kind |-> "delete", pc |-> "head", key |-> k, other |-> k,
                   name |-> k, id |-> 0]
  <2>1. r \in Requests BY DEF Requests, Kinds, Labels
  <2>2. Tidy(r.key) => Stage(r) BY DEF Stage, DeleteStage, Transfer
  <2> QED BY <1>1, <2>1, <2>2, BeginsCalm DEF BeginDelete
<1>2. ASSUME NEW pc \in {"head", "copy", "info", "remove"}, At(p, "delete", pc)
      PROVE  \E r \in Requests :
               /\ r = req[p] /\ Busy(p) /\ ~ Adding(p)
               /\ r.kind = "delete" /\ r.pc = pc /\ r.other = r.key
               /\ DeleteStage(r)
  BY <1>2, Here DEF Labels, Stage, Adding
<1>3. CASE DeleteHead(p)
  <2>1. PICK r \in Requests :
          /\ r = req[p] /\ Busy(p) /\ ~ Adding(p)
          /\ r.kind = "delete" /\ r.pc = "head" /\ r.other = r.key
          /\ Tidy(r.key)
    BY <1>2, <1>3 DEF DeleteHead, DeleteStage
  <2>2. records' = records /\ \A k : SameKey(k)
    BY <1>3, AllSame DEF DeleteHead
  <2>3. CASE Data("active", r.key)
    <3>1. Goto(p, "copy") BY <1>3, <2>1, <2>3 DEF DeleteHead
    <3>2. Alive(r.key, {"active"}, {})' /\ Unrecorded(r.key)'
      BY <2>1, <2>2, <2>3, AliveAt, LiesSame DEF Unrecorded
    <3>3. ASSUME NEW s \in Requests, s.kind = "delete", s.pc = "copy",
                 s.key = r.key, s.other = r.key
          PROVE  Stage(s)'
      BY <3>2, <3>3 DEF Stage, DeleteStage, Transfer
    <3> QED BY <2>1, <2>2, <3>1, <3>3, StepOn DEF Labels
  <2>4. CASE ~ Data("active", r.key)
    <3>1. Finish(p) BY <1>3, <2>1, <2>4 DEF DeleteHead
    <3>2. Tidy(r.key)' BY <2>1, <2>2, TidySame DEF Calm, Before, LifecycleInv, Requests
    <3> QED BY <2>1, <2>2, <3>1, <3>2, StepOff
  <2> QED BY <2>3, <2>4
<1>4. CASE DeleteCopy(p)
  <2>1. PICK r \in Requests :
          /\ r = req[p] /\ Busy(p) /\ ~ Adding(p)
          /\ r.kind = "delete" /\ r.other = r.key
          /\ Alive(r.key, {"active"}, {}) /\ Unrecorded(r.key)
    BY <1>2, <1>4 DEF DeleteCopy, DeleteStage, Transfer
  <2>2. /\ Goto(p, "info") /\ records' = records
        /\ Alive(r.key, {"active"}, {"trash"})' /\ Unrecorded(r.key)'
        /\ \A j : j # r.key => SameKey(j)
    BY <1>4, <2>1, MoveData DEF DeleteCopy, Places
  <2>3. ASSUME NEW s \in Requests, s.kind = "delete", s.pc = "info",
               s.key = r.key, s.other = r.key
        PROVE  Stage(s)'
    BY <2>2, <2>3 DEF Stage, DeleteStage, Transfer
  <2> QED BY <2>1, <2>2, <2>3, StepOn DEF Labels
<1>5. CASE DeleteInfo(p)
  <2>1. PICK r \in Requests :
          /\ r = req[p] /\ Busy(p) /\ ~ Adding(p)
          /\ r.kind = "delete" /\ r.other = r.key
          /\ Alive(r.key, {"active"}, {"trash"}) /\ Unrecorded(r.key)
    BY <1>2, <1>5 DEF DeleteInfo, DeleteStage, Transfer
  <2>2. /\ Goto(p, "remove") /\ records' = records
        /\ Alive(r.key, {"active", "trash"}, {})' /\ Unrecorded(r.key)'
        /\ \A j : j # r.key => SameKey(j)
    BY <1>5, <2>1, MoveInfo DEF DeleteInfo, Places
  <2>3. ASSUME NEW s \in Requests, s.kind = "delete", s.pc = "remove",
               s.key = r.key, s.other = r.key
        PROVE  Stage(s)'
    BY <2>2, <2>3 DEF Stage, DeleteStage, Transfer
  <2> QED BY <2>1, <2>2, <2>3, StepOn DEF Labels
<1>6. CASE DeleteRemove(p)
  <2>1. PICK r \in Requests :
          /\ r = req[p] /\ Busy(p) /\ ~ Adding(p) /\ r.other = r.key
          /\ Alive(r.key, {"active", "trash"}, {}) /\ Unrecorded(r.key)
    BY <1>2, <1>6 DEF DeleteRemove, DeleteStage, Transfer
  <2>2. /\ Finish(p) /\ records' = records
        /\ Alive(r.key, {"trash"}, {})' /\ Unrecorded(r.key)'
        /\ \A j : j # r.key => SameKey(j)
    BY <1>6, <2>1, MoveRemove DEF DeleteRemove, Places
  <2>3. Tidy(r.key)' BY <2>2 DEF Tidy
  <2> QED BY <2>1, <2>2, <2>3, StepOff
<1> QED BY <1>1, <1>3, <1>4, <1>5, <1>6 DEF DeleteStep

(* Every step of RestoreFileHandler.                                        *)
LEMMA RestoreSteady ==
  ASSUME NEW p \in Reqs, Calm(p), RestoreStep(p)
  PROVE  StageInv' /\ CapInv'
<1>1. ASSUME NEW k \in Keys, BeginRestore(p, k) PROVE StageInv' /\ CapInv'
  <2> DEFINE r == [kind |-> "restore", pc |-> "head", key |-> k, other |-> k,
                   name |-> k, id |-> 0]
  <2>1. r \in Requests BY DEF Requests, Kinds, Labels
  <2>2. Tidy(r.key) => Stage(r) BY DEF Stage, RestoreStage, Transfer
  <2> QED BY <1>1, <2>1, <2>2, BeginsCalm DEF BeginRestore
<1>2. ASSUME NEW pc \in {"head", "headActive", "copy", "info", "remove"}, At(p, "restore", pc)
      PROVE  \E r \in Requests :
               /\ r = req[p] /\ Busy(p) /\ ~ Adding(p)
               /\ r.kind = "restore" /\ r.pc = pc /\ r.other = r.key
               /\ RestoreStage(r)
  BY <1>2, Here DEF Labels, Stage, Adding
<1>3. CASE RestoreHeadTrash(p)
  <2>1. PICK r \in Requests :
          /\ r = req[p] /\ Busy(p) /\ ~ Adding(p)
          /\ r.kind = "restore" /\ r.pc = "head" /\ r.other = r.key
          /\ Tidy(r.key)
    BY <1>2, <1>3 DEF RestoreHeadTrash, RestoreStage
  <2>2. records' = records /\ \A k : SameKey(k)
    BY <1>3, AllSame DEF RestoreHeadTrash
  <2>3. CASE Data("trash", r.key)
    <3>1. Goto(p, "headActive") BY <1>3, <2>1, <2>3 DEF RestoreHeadTrash
    <3>2. Alive(r.key, {"trash"}, {})' /\ Unrecorded(r.key)'
      BY <2>1, <2>2, <2>3, AliveAt, LiesSame DEF Unrecorded
    <3>3. ASSUME NEW s \in Requests, s.kind = "restore", s.pc = "headActive",
                 s.key = r.key, s.other = r.key
          PROVE  Stage(s)'
      BY <3>2, <3>3 DEF Stage, RestoreStage, Transfer
    <3> QED BY <2>1, <2>2, <3>1, <3>3, StepOn DEF Labels
  <2>4. CASE ~ Data("trash", r.key)
    <3>1. Finish(p) BY <1>3, <2>1, <2>4 DEF RestoreHeadTrash
    <3>2. Tidy(r.key)' BY <2>1, <2>2, TidySame DEF Calm, Before, LifecycleInv, Requests
    <3> QED BY <2>1, <2>2, <3>1, <3>2, StepOff
  <2> QED BY <2>3, <2>4
<1>4. CASE RestoreCopy(p)
  <2>1. PICK r \in Requests :
          /\ r = req[p] /\ Busy(p) /\ ~ Adding(p)
          /\ r.kind = "restore" /\ r.other = r.key
          /\ Alive(r.key, {"trash"}, {}) /\ Unrecorded(r.key)
    BY <1>2, <1>4 DEF RestoreCopy, RestoreStage, Transfer
  <2>2. /\ Goto(p, "info") /\ records' = records
        /\ Alive(r.key, {"trash"}, {"active"})' /\ Unrecorded(r.key)'
        /\ \A j : j # r.key => SameKey(j)
    BY <1>4, <2>1, MoveData DEF RestoreCopy, Places
  <2>3. ASSUME NEW s \in Requests, s.kind = "restore", s.pc = "info",
               s.key = r.key, s.other = r.key
        PROVE  Stage(s)'
    BY <2>2, <2>3 DEF Stage, RestoreStage, Transfer
  <2> QED BY <2>1, <2>2, <2>3, StepOn DEF Labels
<1>5. CASE RestoreInfo(p)
  <2>1. PICK r \in Requests :
          /\ r = req[p] /\ Busy(p) /\ ~ Adding(p)
          /\ r.kind = "restore" /\ r.other = r.key
          /\ Alive(r.key, {"trash"}, {"active"}) /\ Unrecorded(r.key)
    BY <1>2, <1>5 DEF RestoreInfo, RestoreStage, Transfer
  <2>2. /\ Goto(p, "remove") /\ records' = records
        /\ Alive(r.key, {"trash", "active"}, {})' /\ Unrecorded(r.key)'
        /\ \A j : j # r.key => SameKey(j)
    BY <1>5, <2>1, MoveInfo DEF RestoreInfo, Places
  <2>3. ASSUME NEW s \in Requests, s.kind = "restore", s.pc = "remove",
               s.key = r.key, s.other = r.key
        PROVE  Stage(s)'
    BY <2>2, <2>3 DEF Stage, RestoreStage, Transfer
  <2> QED BY <2>1, <2>2, <2>3, StepOn DEF Labels
<1>6. CASE RestoreRemove(p)
  <2>1. PICK r \in Requests :
          /\ r = req[p] /\ Busy(p) /\ ~ Adding(p) /\ r.other = r.key
          /\ Alive(r.key, {"trash", "active"}, {}) /\ Unrecorded(r.key)
    BY <1>2, <1>6 DEF RestoreRemove, RestoreStage, Transfer
  <2>2. /\ Finish(p) /\ records' = records
        /\ Alive(r.key, {"active"}, {})' /\ Unrecorded(r.key)'
        /\ \A j : j # r.key => SameKey(j)
    BY <1>6, <2>1, MoveRemove DEF RestoreRemove, Places
  <2>3. Tidy(r.key)' BY <2>2 DEF Tidy
  <2> QED BY <2>1, <2>2, <2>3, StepOff
<1>7. CASE RestoreHeadActive(p)
  <2>1. PICK r \in Requests :
          /\ r = req[p] /\ Busy(p) /\ ~ Adding(p)
          /\ r.kind = "restore" /\ r.other = r.key
          /\ Alive(r.key, {"trash"}, {}) /\ Unrecorded(r.key)
    BY <1>2, <1>7 DEF RestoreHeadActive, RestoreStage
  <2>2. /\ records' = records /\ \A k : SameKey(k)
        /\ Alive(r.key, {"trash"}, {})' /\ Unrecorded(r.key)'
    BY <1>7, <2>1, AllSame, LiesSame DEF RestoreHeadActive, Unrecorded
  <2>3. ~ Data("active", r.key) BY <2>1 DEF Alive, Lies, Places
  <2>4. Goto(p, "copy") BY <1>7, <2>1, <2>3 DEF RestoreHeadActive
  <2>5. ASSUME NEW s \in Requests, s.kind = "restore", s.pc = "copy",
               s.key = r.key, s.other = r.key
        PROVE  Stage(s)'
    BY <2>2, <2>5 DEF Stage, RestoreStage, Transfer
  <2> QED BY <2>1, <2>2, <2>4, <2>5, StepOn DEF Labels
<1> QED BY <1>1, <1>3, <1>4, <1>5, <1>6, <1>7 DEF RestoreStep

(* A file of a name that nobody but p works on, and p not on this one.     *)
LEMMA Untouched ==
  ASSUME Before, NEW p \in Reqs, Busy(p), NEW k \in uploaded,
         FileName[k] = FileName[req[p].key], k \notin {req[p].key, req[p].other},
         Spared(FileName[k])
  PROVE  Tidy(k)
<1>1. ASSUME NEW q \in Reqs, Busy(q), k \in {req[q].key, req[q].other} PROVE FALSE
  BY <1>1, OtherName DEF Before
<1> QED BY <1>1 DEF Before, StageInv, Touched

(* The places of a file while only records change.                         *)
LEMMA LiesStay ==
  ASSUME UNCHANGED <<objects, destroyed>>, NEW k, NEW full, NEW half
  PROVE  /\ Alive(k, full, half) => Alive(k, full, half)'
         /\ Dead(k) => Dead(k)'
BY DEF Alive, Dead, Lies, Data, Info

(* A file without a record gets one.                                       *)
LEMMA GetsRecord ==
  ASSUME TypeOK, BooksInv, UNCHANGED <<objects, destroyed>>,
         NEW k, Unrecorded(k), NEW id, id = nextId, AddRecord(FileName[k], k)
  PROVE  /\ RecordIs(k, id)'
         /\ \A r \in records' : r.id <= id
         /\ \A j : j # k => SameKey(j)
<1> DEFINE new == [id |-> id, name |-> FileName[k], key |-> k]
<1>1. records' = records \cup {new} BY DEF AddRecord
<1>2. /\ new.id = id /\ new.key = k /\ id \in Nat
      /\ \A r \in records : r.id \in Nat /\ r.id < id /\ r.key # k
  BY DEF TypeOK, Records, BooksInv, Unrecorded
<1>3. RecordIs(k, id)' BY <1>1, <1>2 DEF RecordIs
<1>4. \A r \in records' : r.id <= id BY <1>1, <1>2
<1>5. ASSUME NEW j, j # k PROVE SameKey(j)
  BY <1>1, <1>2, <1>5 DEF SameKey
<1> QED BY <1>3, <1>4, <1>5

(* The record of a file is dropped.                                        *)
LEMMA LosesRecord ==
  ASSUME BooksInv, UNCHANGED <<objects, destroyed>>, NEW k, NEW id,
         RecordIs(k, id), records' = {r \in records : r.id # id}
  PROVE  Unrecorded(k)' /\ \A j : j # k => SameKey(j)
<1>1. \A r \in records : r.key = k <=> r.id = id BY DEF RecordIs
<1>2. Unrecorded(k)' BY <1>1 DEF Unrecorded
<1>3. ASSUME NEW j, j # k PROVE SameKey(j)
  BY <1>1, <1>3 DEF SameKey
<1> QED BY <1>2, <1>3

(* The newest version stays the newest when the records are as they were,  *)
(* whatever happens to other files.                                        *)
LEMMA NewestSame ==
  ASSUME Before, NEW k \in Keys, NEW name, SameKey(k), records' \subseteq records,
         Newest(k, name)
  PROVE  Newest(k, name)'
<1>1. PICK r \in records : Version(k, r.id) /\ \A s \in Named(name) : s.id <= r.id
  BY DEF Newest
<1>2. PICK id : id = r.id OBVIOUS
<1>3. Version(k, id)' BY <1>1, <1>2, TidySame DEF Before, LifecycleInv
<1>4. PICK t \in records' : t.id = id BY <1>3 DEF Version, RecordIs
<1>5. Version(k, t.id)' BY <1>3, <1>4 DEF Version, RecordIs
<1>6. \A u \in Named(name)' : u.id <= t.id BY <1>1, <1>2, <1>4 DEF Named
<1> QED BY <1>4, <1>5, <1>6 DEF Newest

(* The newest version is a version.                                        *)
LEMMA NewestVersion ==
  ASSUME NEW k, NEW name, Newest(k, name)
  PROVE  \E id : Version(k, id)
BY DEF Newest

(* More than one version of a name: one is not of this file.               *)
LEMMA AnotherVersion ==
  ASSUME BooksInv, NEW k, NEW name, Newest(k, name), MaxFileVersions > 0,
         Cardinality(Named(name)) > MaxFileVersions
  PROVE  \E s \in Named(name) : s.key # k
<1> SUFFICES ASSUME \A s \in Named(name) : s.key = k PROVE FALSE
  OBVIOUS
<1>1. PICK id : Version(k, id) BY NewestVersion
<1>2. PICK r \in records : r = [id |-> id, name |-> FileName[k], key |-> k]
  BY <1>1 DEF Version, RecordIs
<1>3. Named(name) \subseteq {r}
  BY <1>1, <1>2 DEF Version, RecordIs, Named, BooksInv
<1>4. IsFiniteSet({r}) /\ Cardinality({r}) = 1 BY FS_Singleton
<1>5. Cardinality(Named(name)) <= 1 /\ Cardinality(Named(name)) \in Nat
  BY <1>3, <1>4, FS_Subset, FS_CardinalityType
<1> QED BY <1>5, NumbersAssumption

(* Every step of ArchiveFileVersionHandler.                                *)
LEMMA ArchiveSteady ==
  ASSUME NEW p \in Reqs, Calm(p), ArchiveStep(p)
  PROVE  StageInv' /\ CapInv'
<1>1. ASSUME NEW k \in Keys, BeginArchive(p, k) PROVE StageInv' /\ CapInv'
  <2> DEFINE r == [kind |-> "archive", pc |-> "head", key |-> k, other |-> k,
                   name |-> k, id |-> 0]
  <2>1. r \in Requests BY DEF Requests, Kinds, Labels
  <2>2. Tidy(r.key) => Stage(r) BY DEF Stage, ArchiveStage, Transfer
  <2> QED BY <1>1, <2>1, <2>2, BeginsCalm DEF BeginArchive
<1>2. ASSUME NEW pc \in Labels, At(p, "archive", pc)
      PROVE  \E r \in Requests :
               /\ r = req[p] /\ Busy(p) /\ r.kind = "archive" /\ r.pc = pc
               /\ ArchiveStage(r)
               /\ pc \in {"head", "resolve", "copy", "info", "remove", "record"}
                    => ~ Adding(p)
  BY <1>2, Here DEF Stage, Adding
<1>3. CASE ArchiveHead(p)
  <2>1. PICK r \in Requests :
          /\ r = req[p] /\ Busy(p) /\ r.kind = "archive" /\ ~ Adding(p)
          /\ r.other = r.key /\ Tidy(r.key)
    BY <1>2, <1>3 DEF ArchiveHead, ArchiveStage, Labels
  <2>2. records' = records /\ \A k : SameKey(k)
    BY <1>3, AllSame DEF ArchiveHead
  <2>3. CASE Data("active", r.key)
    <3>1. Goto(p, "resolve") BY <1>3, <2>1, <2>3 DEF ArchiveHead
    <3>2. Alive(r.key, {"active"}, {})' /\ Unrecorded(r.key)'
      BY <2>1, <2>2, <2>3, AliveAt, LiesSame DEF Unrecorded
    <3>3. ASSUME NEW s \in Requests, s.kind = "archive", s.pc = "resolve",
                 s.key = r.key, s.other = r.key
          PROVE  Stage(s)'
      BY <3>2, <3>3 DEF Stage, ArchiveStage, Transfer
    <3> QED BY <2>1, <2>2, <3>1, <3>3, StepOn DEF Labels
  <2>4. CASE ~ Data("active", r.key)
    <3>1. Finish(p) BY <1>3, <2>1, <2>4 DEF ArchiveHead
    <3>2. Tidy(r.key)' BY <2>1, <2>2, TidySame DEF Calm, Before, LifecycleInv, Requests
    <3> QED BY <2>1, <2>2, <3>1, <3>2, StepOff
  <2> QED BY <2>3, <2>4
<1>4. CASE ArchiveResolve(p)
  <2>1. PICK r \in Requests :
          /\ r = req[p] /\ Busy(p) /\ r.kind = "archive" /\ ~ Adding(p)
          /\ r.other = r.key /\ Alive(r.key, {"active"}, {}) /\ Unrecorded(r.key)
    BY <1>2, <1>4 DEF ArchiveResolve, ArchiveStage, Labels
  <2>2. /\ records' = records /\ \A k : SameKey(k)
        /\ Alive(r.key, {"active"}, {})' /\ Unrecorded(r.key)'
    BY <1>4, <2>1, AllSame, LiesSame DEF ArchiveResolve, Unrecorded
  <2>3. ResolvedName("active", r.key) = FileName[r.key]
    BY <2>1 DEF Alive, Lies, Places, ResolvedName
  <2>4. req' = [req EXCEPT ![p].pc = "copy", ![p].name = FileName[r.key]]
    <3>1. PICK name : /\ \/ name = ResolvedName("active", r.key)
                         \/ Fault("info", r.key)
                      /\ req' = [req EXCEPT ![p].pc = "copy", ![p].name = name]
      BY <1>4, <2>1 DEF ArchiveResolve
    <3>2. name = FileName[r.key] BY <2>3, <3>1, CalmStep
    <3> QED BY <3>1, <3>2
  <2>5. FileName[r.key] \in Files BY NamesAssumption DEF Requests
  <2>6. [r EXCEPT !.pc = "copy", !.name = FileName[r.key]] \in Requests
    BY <2>5 DEF Requests, Labels
  <2>7. PICK s \in Requests : s = [r EXCEPT !.pc = "copy", !.name = FileName[r.key]]
    BY <2>6
  <2>8. s = req'[p] /\ req' = [req EXCEPT ![p] = s]
    BY <2>1, <2>4, <2>7 DEF Calm, Before, LifecycleInv, TypeOK
  <2>9. /\ s.kind = "archive" /\ s.pc = "copy" /\ s.key = r.key
        /\ s.other = r.key /\ s.name = FileName[r.key]
    BY <2>1, <2>7 DEF Requests
  <2>10. Stage(s)' BY <2>2, <2>9 DEF Stage, ArchiveStage, Transfer
  <2>11. Continues(p)
    BY <2>1, <2>8, <2>9, Here DEF Continues, NamesOf, Calm, Before, LifecycleInv, NamesInv
  <2>12. StageInv' BY <2>1, <2>2, <2>8, <2>9, <2>10, <2>11, GoesOn DEF Calm
  <2> QED BY <2>1, <2>2, <2>11, <2>12, CapKept DEF Calm, Before
<1>5. CASE ArchiveCopy(p)
  <2>1. PICK r \in Requests :
          /\ r = req[p] /\ Busy(p) /\ r.kind = "archive" /\ ~ Adding(p)
          /\ r.other = r.key /\ r.name = FileName[r.key]
          /\ Alive(r.key, {"active"}, {}) /\ Unrecorded(r.key)
    BY <1>2, <1>5 DEF ArchiveCopy, ArchiveStage, Transfer, Labels
  <2>2. /\ Goto(p, "info") /\ records' = records
        /\ Alive(r.key, {"active"}, {"versions"})' /\ Unrecorded(r.key)'
        /\ \A j : j # r.key => SameKey(j)
    BY <1>5, <2>1, MoveData DEF ArchiveCopy, Places
  <2>3. ASSUME NEW s \in Requests, s.kind = "archive", s.pc = "info",
               s.key = r.key, s.other = r.key, s.name = r.name
        PROVE  Stage(s)'
    BY <2>1, <2>2, <2>3 DEF Stage, ArchiveStage, Transfer
  <2> QED BY <2>1, <2>2, <2>3, StepOn DEF Labels
<1>6. CASE ArchiveInfo(p)
  <2>1. PICK r \in Requests :
          /\ r = req[p] /\ Busy(p) /\ r.kind = "archive" /\ ~ Adding(p)
          /\ r.other = r.key /\ r.name = FileName[r.key]
          /\ Alive(r.key, {"active"}, {"versions"}) /\ Unrecorded(r.key)
    BY <1>2, <1>6 DEF ArchiveInfo, ArchiveStage, Transfer, Labels
  <2>2. /\ Goto(p, "remove") /\ records' = records
        /\ Alive(r.key, {"active", "versions"}, {})' /\ Unrecorded(r.key)'
        /\ \A j : j # r.key => SameKey(j)
    BY <1>6, <2>1, MoveInfo DEF ArchiveInfo, Places
  <2>3. ASSUME NEW s \in Requests, s.kind = "archive", s.pc = "remove",
               s.key = r.key, s.other = r.key, s.name = r.name
        PROVE  Stage(s)'
    BY <2>1, <2>2, <2>3 DEF Stage, ArchiveStage, Transfer
  <2> QED BY <2>1, <2>2, <2>3, StepOn DEF Labels
<1>7. CASE ArchiveRemove(p)
  <2>1. PICK r \in Requests :
          /\ r = req[p] /\ Busy(p) /\ r.kind = "archive" /\ ~ Adding(p)
          /\ r.other = r.key /\ r.name = FileName[r.key]
          /\ Alive(r.key, {"active", "versions"}, {}) /\ Unrecorded(r.key)
    BY <1>2, <1>7 DEF ArchiveRemove, ArchiveStage, Transfer, Labels
  <2>2. /\ Goto(p, "record") /\ records' = records
        /\ Alive(r.key, {"versions"}, {})' /\ Unrecorded(r.key)'
        /\ \A j : j # r.key => SameKey(j)
    BY <1>7, <2>1, MoveRemove DEF ArchiveRemove, Places
  <2>3. ASSUME NEW s \in Requests, s.kind = "archive", s.pc = "record",
               s.key = r.key, s.other = r.key, s.name = r.name
        PROVE  Stage(s)'
    BY <2>1, <2>2, <2>3 DEF Stage, ArchiveStage, Transfer
  <2> QED BY <2>1, <2>2, <2>3, StepOn DEF Labels
<1>8. CASE ArchiveRecord(p)
  <2>1. PICK r \in Requests :
          /\ r = req[p] /\ Busy(p) /\ r.kind = "archive" /\ ~ Adding(p)
          /\ r.other = r.key /\ r.name = FileName[r.key]
          /\ Alive(r.key, {"versions"}, {}) /\ Unrecorded(r.key)
    BY <1>2, <1>8 DEF ArchiveRecord, ArchiveStage, Transfer, Labels
  <2>2. /\ AddRecord(FileName[r.key], r.key) /\ UNCHANGED <<objects, destroyed>>
    BY <1>8, <2>1 DEF ArchiveRecord
  <2>3. PICK id : id = nextId OBVIOUS
  <2>4. /\ RecordIs(r.key, id)' /\ \A t \in records' : t.id <= id
        /\ \A j : j # r.key => SameKey(j)
    BY <2>1, <2>2, <2>3, GetsRecord DEF Calm, Before, LifecycleInv
  <2>5. Version(r.key, id)'
    BY <2>1, <2>2, <2>4, LiesStay DEF Version
  <2>6. PICK t \in records' : t.id = id BY <2>4 DEF RecordIs
  <2>7. Version(r.key, t.id)' BY <2>5, <2>6 DEF Version, RecordIs
  <2>8. CASE MaxFileVersions > 0
    <3>1. Goto(p, "count") BY <1>8, <2>8 DEF ArchiveRecord
    <3>2. Newest(r.key, r.name)' BY <2>4, <2>6, <2>7 DEF Newest, Named
    <3>3. ASSUME NEW s \in Requests, s.kind = "archive", s.pc = "count",
                 s.key = r.key, s.other = r.key, s.name = r.name
          PROVE  Stage(s)'
      BY <2>1, <2>8, <3>2, <3>3 DEF Stage, ArchiveStage, Transfer
    <3>4. /\ Continues(p)
          /\ \E s \in Requests :
               /\ s = req'[p] /\ s.kind = "archive" /\ s.pc = "count"
               /\ s.key = r.key /\ s.other = r.key /\ s.name = r.name
      BY <2>1, <3>1, GoesTo DEF Labels, Calm
    <3>5. StageInv' BY <2>1, <2>4, <3>3, <3>4, GoesOn DEF Calm
    <3>6. Adding(p)' BY <3>4 DEF Adding
    <3> QED BY <2>1, <2>2, <3>4, <3>5, <3>6, CapGrows DEF Calm, Before, Requests
  <2>9. CASE ~ MaxFileVersions > 0
    <3>1. Finish(p) BY <1>8, <2>9 DEF ArchiveRecord
    <3>2. Tidy(r.key)' BY <2>6, <2>7 DEF Tidy
    <3>3. StageInv' BY <2>1, <2>4, <3>1, <3>2, Ends DEF Calm
    <3>4. Continues(p) BY <3>1, FinishContinues DEF Calm, Before
    <3> QED BY <2>1, <2>2, <2>9, <3>3, <3>4, CapGrows, NumbersAssumption
            DEF Calm, Before, Requests
  <2> QED BY <2>8, <2>9
<1>9. CASE ArchiveCount(p)
  <2>1. PICK r \in Requests :
          /\ r = req[p] /\ Busy(p) /\ r.kind = "archive" /\ r.pc = "count"
          /\ r.other = r.key /\ r.name = FileName[r.key] /\ r.key \in Keys
          /\ MaxFileVersions > 0 /\ Newest(r.key, r.name)
    BY <1>2, <1>9 DEF ArchiveCount, ArchiveStage, Labels, Requests
  <2>2. records' = records /\ \A k : SameKey(k)
    BY <1>9, AllSame DEF ArchiveCount
  <2>3. CASE CountFileVersions(r.name) > MaxFileVersions
    <3>1. Goto(p, "oldest")
      BY <1>9, <2>1, <2>3, CalmStep DEF ArchiveCount
    <3>2. Newest(r.key, r.name)' BY <2>1, <2>2, NewestSame DEF Calm
    <3>3. \E s \in Named(r.name) : s.key # r.key
      BY <2>1, <2>3, AnotherVersion DEF CountFileVersions, Calm, Before
    <3>4. (\E s \in Named(r.name) : s.key # r.key)' BY <2>2, <3>3 DEF Named
    <3>5. ASSUME NEW s \in Requests, s.kind = "archive", s.pc = "oldest",
                 s.key = r.key, s.other = r.key, s.name = r.name
          PROVE  Stage(s)'
      BY <2>1, <3>2, <3>4, <3>5 DEF Stage, ArchiveStage, Transfer
    <3>6. Adding(p)'
      <4>1. \E s \in Requests : s = req'[p] /\ s.kind = "archive" /\ s.pc = "oldest"
        BY <2>1, <3>1, GoesTo DEF Labels, Calm
      <4> QED BY <4>1 DEF Adding
    <3> QED BY <2>1, <2>2, <3>1, <3>5, <3>6, StepOn DEF Labels
  <2>4. CASE ~ CountFileVersions(r.name) > MaxFileVersions
    <3>1. Finish(p) BY <1>9, <2>1, <2>4 DEF ArchiveCount
    <3>2. Tidy(r.key)'
      <4>1. Tidy(r.key) BY <2>1, NewestVersion, TidyVersion
      <4> QED BY <2>1, <2>2, <4>1, TidySame DEF Calm, Before, LifecycleInv
    <3>3. StageInv' BY <2>1, <2>2, <3>1, <3>2, Ends DEF Calm
    <3>4. Cardinality(Named(r.name)) <= MaxFileVersions
      <4>1. Cardinality(Named(r.name)) \in Nat
        BY FS_Subset, FS_CardinalityType DEF Named, BooksInv, Calm, Before
      <4> QED BY <2>4, <4>1, NumbersAssumption DEF CountFileVersions
    <3>5. CapInv'
      BY <2>1, <2>2, <3>1, <3>4, CapCounted DEF Calm, Before
    <3> QED BY <3>3, <3>5
  <2> QED BY <2>3, <2>4
<1>10. CASE ArchiveOldest(p)
  <2>1. PICK r \in Requests :
          /\ r = req[p] /\ Busy(p) /\ r.kind = "archive"
          /\ r.other = r.key /\ r.name = FileName[r.key] /\ r.key \in Keys
          /\ MaxFileVersions > 0 /\ Newest(r.key, r.name)
          /\ \E s \in Named(r.name) : s.key # r.key
    <3>1. PICK r \in Requests :
            /\ r = req[p] /\ Busy(p) /\ r.kind = "archive" /\ r.pc = "oldest"
            /\ ArchiveStage(r)
      BY <1>2, <1>10 DEF ArchiveOldest, Labels
    <3>2. \E s \in Named(r.name) : s.key # r.key BY <3>1 DEF ArchiveStage
    <3>3. /\ r.other = r.key /\ r.name = FileName[r.key] /\ r.key \in Keys
          /\ MaxFileVersions > 0 /\ Newest(r.key, r.name)
      BY <3>1 DEF ArchiveStage, Requests
    <3> QED BY <3>1, <3>2, <3>3
  <2>2. records' = records /\ \A k : SameKey(k)
    BY <1>10, AllSame DEF ArchiveOldest
  <2>3. PICK t \in Oldest(r.name) :
          req' = [req EXCEPT ![p].pc = "evict", ![p].other = t.key, ![p].id = t.id]
    BY <1>10, <2>1 DEF ArchiveOldest
  <2>4. /\ t \in records /\ t \in Named(r.name) /\ t \in Records
        /\ t.key \in uploaded /\ FileName[t.key] = FileName[r.key]
    BY <2>1, NamedOf, NamesAssumption
       DEF Oldest, Named, Calm, Before, LifecycleInv, NamesInv, TypeOK
  <2>5. t.key # r.key
    <3>1. PICK m \in records :
            Version(r.key, m.id) /\ \A s \in Named(r.name) : s.id <= m.id
      BY <2>1 DEF Newest
    <3>2. PICK s \in Named(r.name) : s.key # r.key BY <2>1
    <3>3. s.id # m.id BY <3>1, <3>2 DEF Version, RecordIs, Named
    <3>4. t.id <= s.id /\ s.id <= m.id BY <2>3, <3>1, <3>2 DEF Oldest
    <3>5. t.id \in Nat /\ s.id \in Nat /\ m.id \in Nat
      BY <2>4, <3>1, <3>2 DEF Named, Calm, Before, LifecycleInv, TypeOK, Records
    <3>6. t.id # m.id BY <3>3, <3>4, <3>5
    <3> QED BY <2>4, <3>1, <3>6 DEF Version, RecordIs
  <2>6. Version(t.key, t.id)
    <3>1. Tidy(t.key) BY <2>1, <2>4, <2>5, Untouched DEF Calm
    <3> QED BY <2>4, <3>1, VersionOf
  <2>7. PICK k \in Keys, id \in Nat : k = t.key /\ id = t.id
    BY <2>4 DEF Records
  <2>8. Version(k, id)' BY <2>2, <2>6, <2>7, TidySame DEF Calm, Before, LifecycleInv
  <2>9. Newest(r.key, r.name)' BY <2>1, <2>2, NewestSame DEF Calm
  <2>10. [r EXCEPT !.pc = "evict", !.other = k, !.id = id] \in Requests
    BY DEF Requests, Labels
  <2>11. PICK s \in Requests : s = [r EXCEPT !.pc = "evict", !.other = k, !.id = id]
    BY <2>10
  <2>12. s = req'[p] /\ req' = [req EXCEPT ![p] = s]
    BY <2>1, <2>3, <2>7, <2>11 DEF Calm, Before, LifecycleInv, TypeOK
  <2>13. /\ s.kind = "archive" /\ s.pc = "evict" /\ s.key = r.key
         /\ s.other = k /\ s.name = FileName[r.key] /\ s.id = id
    BY <2>1, <2>11 DEF Requests
  <2>14. Stage(s)'
    BY <2>1, <2>5, <2>7, <2>8, <2>9, <2>13 DEF Stage, ArchiveStage, Transfer
  <2>15. Continues(p)
    BY <2>1, <2>4, <2>7, <2>12, <2>13 DEF Continues, NamesOf
  <2>16. StageInv' BY <2>1, <2>2, <2>12, <2>13, <2>14, <2>15, GoesOn DEF Calm
  <2>17. Adding(p)' BY <2>12, <2>13 DEF Adding
  <2> QED BY <2>2, <2>15, <2>16, <2>17, CapKept DEF Calm, Before
<1>11. CASE ArchiveEvict(p)
  <2>1. PICK r \in Requests :
          /\ r = req[p] /\ Busy(p) /\ r.kind = "archive"
          /\ r.name = FileName[r.key] /\ r.key \in Keys /\ r.other # r.key
          /\ MaxFileVersions > 0 /\ Newest(r.key, r.name)
          /\ Version(r.other, r.id)
    BY <1>2, <1>11 DEF ArchiveEvict, ArchiveStage, Labels, Requests
  <2>2. /\ Goto(p, "dropRecord") /\ records' = records
        /\ objects' = objects \ {<<"versions", r.other, part>> : part \in Parts}
        /\ destroyed' = destroyed \cup {j \in {r.other} : ~ Kept(j)'}
    BY <1>11, <2>1, CalmStep DEF ArchiveEvict, Destroy, RemovePair
  <2>3. Only(r.other) /\ Dead(r.other)'
    BY <2>1, <2>2, PairDestroyed DEF Version, Places
  <2>4. \A j : j # r.other => SameKey(j) BY <2>3, Elsewhere
  <2>5. Newest(r.key, r.name)' BY <2>1, <2>2, <2>4, NewestSame DEF Calm
  <2>6. RecordIs(r.other, r.id)' BY <2>1, <2>2 DEF Version, RecordIs
  <2>7. ASSUME NEW s \in Requests, s.kind = "archive", s.pc = "dropRecord",
               s.key = r.key, s.other = r.other, s.name = r.name, s.id = r.id
        PROVE  Stage(s)'
    BY <2>1, <2>3, <2>5, <2>6, <2>7 DEF Stage, ArchiveStage, Transfer
  <2>8. Adding(p)'
    <3>1. \E s \in Requests : s = req'[p] /\ s.kind = "archive" /\ s.pc = "dropRecord"
      BY <2>1, <2>2, GoesTo DEF Labels, Calm
    <3> QED BY <3>1 DEF Adding
  <2> QED BY <2>1, <2>2, <2>4, <2>7, <2>8, StepOn DEF Labels
<1>12. CASE ArchiveDrop(p)
  <2>1. PICK r \in Requests :
          /\ r = req[p] /\ Busy(p) /\ r.key \in Keys /\ r.other \in Keys
          /\ r.other # r.key /\ Newest(r.key, r.name)
          /\ Dead(r.other) /\ RecordIs(r.other, r.id)
    BY <1>2, <1>12 DEF ArchiveDrop, ArchiveStage, Labels, Requests
  <2>2. /\ Finish(p) /\ UNCHANGED <<objects, destroyed>>
        /\ records' = {t \in records : t.id # r.id}
    BY <1>12, <2>1, CalmStep DEF ArchiveDrop, DropRecord
  <2>3. Unrecorded(r.other)' /\ \A j : j # r.other => SameKey(j)
    BY <2>1, <2>2, LosesRecord DEF Calm, Before
  <2>4. Tidy(r.other)' BY <2>1, <2>2, <2>3, LiesStay DEF Tidy
  <2>5. Tidy(r.key)'
    <3>1. Tidy(r.key) BY <2>1, NewestVersion, TidyVersion
    <3> QED BY <2>1, <2>3, <3>1, TidySame DEF Calm, Before, LifecycleInv
  <2>6. StageInv' BY <2>1, <2>2, <2>3, <2>4, <2>5, Ends DEF Calm
  <2>7. FileName[r.other] = FileName[r.key]
    BY <2>1 DEF Calm, Before, LifecycleInv, NamesInv
  <2>8. CapInv' BY <2>1, <2>2, <2>7, CapShrinks DEF Calm, Before
  <2> QED BY <2>6, <2>8
<1> QED BY <1>1, <1>3, <1>4, <1>5, <1>6, <1>7, <1>8, <1>9, <1>10, <1>11, <1>12
        DEF ArchiveStep

(* Finding a version by its id, for RestoreFileVersionHandler and          *)
(* DeleteFileVersionHandler.                                               *)
LEMMA FindSteady ==
  ASSUME NEW p \in Reqs, Calm(p),
         NEW kind, NEW found, <<kind, found>> \in {<<"vrestore", "scan">>,
                                                 <<"vdelete", "remove">>},
         \/ \E r \in records : BeginVersion(p, kind, r)
         \/ VersionList(p, kind)
         \/ VersionFind(p, kind, found)
  PROVE  StageInv' /\ CapInv'
<1>1. ASSUME NEW t \in records, BeginVersion(p, kind, t) PROVE StageInv' /\ CapInv'
  <2>1. /\ t \in Records /\ t.key \in uploaded /\ t.name \in NamesOf(t.key)
    BY DEF Calm, Before, LifecycleInv, TypeOK, NamesInv
  <2> DEFINE r == [kind |-> kind, pc |-> "list", key |-> t.key,
                   other |-> t.key, name |-> t.name, id |-> t.id]
  <2>2. r \in Requests BY <2>1 DEF Records, Requests, Kinds, Labels
  <2>3. ASSUME Tidy(t.key) PROVE Stage(r)
    <3>1. Version(t.key, t.id) BY <2>3, VersionOf
    <3>2. t.name = FileName[t.key]
      BY <3>1 DEF Version, RecordIs, Calm, Before, BooksInv
    <3> QED BY <3>1, <3>2 DEF Stage, VRestoreStage, VDeleteStage, Transfer, Archiving
  <2>4. Begin(p, r) /\ UNCHANGED <<objects, records, destroyed>>
    BY <1>1 DEF BeginVersion
  <2> QED BY <2>1, <2>2, <2>3, <2>4, BeginsCalm
<1>2. ASSUME NEW pc \in {"list", "find"}, At(p, kind, pc)
      PROVE  \E r \in Requests :
               /\ r = req[p] /\ Busy(p) /\ ~ Adding(p)
               /\ r.kind = kind /\ r.pc = pc /\ r.other = r.key /\ r.key \in Keys
               /\ r.name = FileName[r.key] /\ Version(r.key, r.id)
  BY <1>2, Here DEF Labels, Stage, Adding, VRestoreStage, VDeleteStage
<1>3. ASSUME NEW r \in Requests, r = req[p], Busy(p), ~ Adding(p),
             r.kind = kind, r.other = r.key, r.key \in Keys,
             r.name = FileName[r.key], Version(r.key, r.id),
             NEW pc \in {"find", found}, Goto(p, pc) \/ Finish(p),
             UNCHANGED <<objects, records, destroyed>>
      PROVE  StageInv' /\ CapInv'
  <2>1. Version(r.key, r.id)' /\ \A k : SameKey(k)
    BY <1>3, AllSame, TidySame DEF Calm, Before, LifecycleInv
  <2>2. CASE Goto(p, pc)
    <3>1. ASSUME NEW s \in Requests, s.kind = kind, s.pc = pc, s.key = r.key,
                 s.other = r.key, s.name = r.name, s.id = r.id
          PROVE  Stage(s)'
      BY <1>3, <2>1, <3>1
         DEF Stage, VRestoreStage, VDeleteStage, Transfer, Archiving
    <3> QED BY <1>3, <2>1, <2>2, <3>1, StepOn DEF Labels
  <2>3. CASE Finish(p)
    <3>1. Tidy(r.key)'
      <4>1. Tidy(r.key) BY <1>3, TidyVersion
      <4> QED BY <1>3, <2>1, <4>1, TidySame DEF Calm, Before, LifecycleInv
    <3> QED BY <1>3, <2>1, <2>3, <3>1, StepOff
  <2> QED BY <1>3, <2>2, <2>3
<1>4. CASE VersionList(p, kind)
  <2>1. PICK r \in Requests :
          /\ r = req[p] /\ Busy(p) /\ ~ Adding(p)
          /\ r.kind = kind /\ r.other = r.key /\ r.key \in Keys
          /\ r.name = FileName[r.key] /\ Version(r.key, r.id)
    BY <1>2, <1>4 DEF VersionList
  <2>2. /\ Goto(p, "find") \/ Finish(p)
        /\ UNCHANGED <<objects, records, destroyed>>
    BY <1>4 DEF VersionList
  <2> QED BY <1>3, <2>1, <2>2
<1>5. CASE VersionFind(p, kind, found)
  <2>1. PICK r \in Requests :
          /\ r = req[p] /\ Busy(p) /\ ~ Adding(p)
          /\ r.kind = kind /\ r.other = r.key /\ r.key \in Keys
          /\ r.name = FileName[r.key] /\ Version(r.key, r.id)
    BY <1>2, <1>5 DEF VersionFind
  <2>2. /\ Goto(p, found) \/ Finish(p)
        /\ UNCHANGED <<objects, records, destroyed>>
    BY <1>5 DEF VersionFind
  <2> QED BY <1>3, <2>1, <2>2
<1> QED BY <1>1, <1>4, <1>5

(* Every step of RestoreFileVersionHandler.                                *)
LEMMA VRestoreSteady ==
  ASSUME NEW p \in Reqs, Calm(p), VRestoreStep(p)
  PROVE  StageInv' /\ CapInv'
<1>1. CASE \/ \E r \in records : BeginVersion(p, "vrestore", r)
           \/ VersionList(p, "vrestore")
           \/ VersionFind(p, "vrestore", "scan")
  BY <1>1, FindSteady
<1>2. ASSUME NEW pc \in Labels, At(p, "vrestore", pc)
      PROVE  \E r \in Requests :
               /\ r = req[p] /\ Busy(p) /\ r.kind = "vrestore" /\ r.pc = pc
               /\ r.key \in Keys /\ r.other \in Keys
               /\ VRestoreStage(r)
               /\ pc \in {"scan"} \cup Archiving => ~ Adding(p)
  BY <1>2, Here DEF Stage, Adding, Archiving
<1>3. CASE VRestoreScan(p)
  <2>1. PICK r \in Requests :
          /\ r = req[p] /\ Busy(p) /\ r.kind = "vrestore" /\ ~ Adding(p)
          /\ r.name = FileName[r.key] /\ r.key \in Keys /\ r.other = r.key
          /\ Version(r.key, r.id)
    BY <1>2, <1>3 DEF VRestoreScan, VRestoreStage, Labels
  <2>2. records' = records /\ \A k : SameKey(k)
    BY <1>3, AllSame DEF VRestoreScan
  <2>3. Version(r.key, r.id)'
    BY <2>1, <2>2, TidySame DEF Calm, Before, LifecycleInv
  <2>4. CASE Goto(p, "copy")
    <3>1. ASSUME NEW s \in Requests, s.kind = "vrestore", s.pc = "copy",
                 s.key = r.key, s.other = r.key, s.name = r.name, s.id = r.id
          PROVE  Stage(s)'
      BY <2>1, <2>3, <3>1 DEF Stage, VRestoreStage, Transfer, Archiving, Version
    <3> QED BY <2>1, <2>2, <2>4, <3>1, StepOn DEF Labels
  <2>5. ASSUME NEW k \in Keys, Data("active", k), ResolvedName("active", k) = r.name,
               req' = [req EXCEPT ![p].pc = "archCopy", ![p].other = k]
        PROVE  StageInv' /\ CapInv'
    <3>1. FileName[k] = FileName[r.key]
      BY <2>1, <2>5, NamesAssumption DEF ResolvedName
    <3>2. k \in uploaded
      BY <2>5 DEF Data, Calm, Before, LifecycleInv, NamesInv
    <3>3. k # r.key
      BY <2>1, <2>5 DEF Version, Alive, Lies, Places
    <3>4. Alive(k, {"active"}, {}) /\ Unrecorded(k)
      BY <2>1, <2>5, <3>1, <3>2, <3>3, Untouched, AliveAt DEF Calm
    <3>5. Alive(k, {"active"}, {})' /\ Unrecorded(k)'
      BY <2>2, <3>4, LiesSame DEF Unrecorded
    <3>6. [r EXCEPT !.pc = "archCopy", !.other = k] \in Requests
      BY DEF Requests, Labels
    <3>7. PICK s \in Requests : s = [r EXCEPT !.pc = "archCopy", !.other = k]
      BY <3>6
    <3>8. s = req'[p] /\ req' = [req EXCEPT ![p] = s]
      BY <2>1, <2>5, <3>7 DEF Calm, Before, LifecycleInv, TypeOK
    <3>9. /\ s.kind = "vrestore" /\ s.pc = "archCopy" /\ s.key = r.key
          /\ s.other = k /\ s.name = r.name /\ s.id = r.id
      BY <2>1, <3>7 DEF Requests
    <3>10. Stage(s)'
      BY <2>1, <2>3, <3>3, <3>5, <3>9 DEF Stage, VRestoreStage, Transfer, Archiving
    <3>11. Continues(p)
      BY <2>1, <3>1, <3>2, <3>8, <3>9 DEF Continues, NamesOf
    <3>12. StageInv' BY <2>1, <2>2, <3>8, <3>9, <3>10, <3>11, GoesOn DEF Calm
    <3> QED BY <2>1, <2>2, <3>11, <3>12, CapKept DEF Calm, Before
  <2> QED BY <1>3, <2>1, <2>4, <2>5 DEF VRestoreScan
<1>4. CASE VRestoreArchCopy(p)
  <2>1. PICK r \in Requests :
          /\ r = req[p] /\ Busy(p) /\ r.kind = "vrestore" /\ ~ Adding(p)
          /\ r.name = FileName[r.key] /\ r.key \in Keys /\ r.other # r.key
          /\ Version(r.key, r.id) /\ Unrecorded(r.other)
          /\ Alive(r.other, {"active"}, {})
    BY <1>2, <1>4 DEF VRestoreArchCopy, VRestoreStage, Transfer, Labels, Archiving
  <2>2. /\ Goto(p, "archInfo") /\ records' = records
        /\ Alive(r.other, {"active"}, {"versions"})' /\ Unrecorded(r.other)'
        /\ \A j : j # r.other => SameKey(j)
    <3>1. /\ Goto(p, "archInfo") /\ UNCHANGED <<records, destroyed>>
          /\ objects' = objects \cup {<<"versions", r.other, "data">>}
      BY <1>4, <2>1, CalmStep
         DEF VRestoreArchCopy, TryCopy, Copied, Alive, Lies, Data, Places
    <3>2. Only(r.other) /\ Alive(r.other, {"active"}, {"versions"})'
      BY <2>1, <3>1, DataCopied DEF Places
    <3> QED BY <2>1, <3>1, <3>2, Elsewhere DEF Unrecorded
  <2>3. Version(r.key, r.id)'
    BY <2>1, <2>2, TidySame DEF Calm, Before, LifecycleInv
  <2>4. ASSUME NEW s \in Requests, s.kind = "vrestore", s.pc = "archInfo",
               s.key = r.key, s.other = r.other, s.name = r.name, s.id = r.id
        PROVE  Stage(s)'
    BY <2>1, <2>2, <2>3, <2>4 DEF Stage, VRestoreStage, Transfer, Archiving
  <2> QED BY <2>1, <2>2, <2>4, StepOn DEF Labels
<1>5. CASE VRestoreArchInfo(p)
  <2>1. PICK r \in Requests :
          /\ r = req[p] /\ Busy(p) /\ r.kind = "vrestore" /\ ~ Adding(p)
          /\ r.name = FileName[r.key] /\ r.key \in Keys /\ r.other # r.key
          /\ Version(r.key, r.id) /\ Unrecorded(r.other)
          /\ Alive(r.other, {"active"}, {"versions"})
    BY <1>2, <1>5 DEF VRestoreArchInfo, VRestoreStage, Transfer, Labels, Archiving
  <2>2. /\ Goto(p, "archRemove") /\ records' = records
        /\ Alive(r.other, {"active", "versions"}, {})' /\ Unrecorded(r.other)'
        /\ \A j : j # r.other => SameKey(j)
    BY <1>5, <2>1, MoveInfo DEF VRestoreArchInfo, Places
  <2>3. Version(r.key, r.id)'
    BY <2>1, <2>2, TidySame DEF Calm, Before, LifecycleInv
  <2>4. ASSUME NEW s \in Requests, s.kind = "vrestore", s.pc = "archRemove",
               s.key = r.key, s.other = r.other, s.name = r.name, s.id = r.id
        PROVE  Stage(s)'
    BY <2>1, <2>2, <2>3, <2>4 DEF Stage, VRestoreStage, Transfer, Archiving
  <2> QED BY <2>1, <2>2, <2>4, StepOn DEF Labels
<1>6. CASE VRestoreArchRemove(p)
  <2>1. PICK r \in Requests :
          /\ r = req[p] /\ Busy(p) /\ r.kind = "vrestore" /\ ~ Adding(p)
          /\ r.name = FileName[r.key] /\ r.key \in Keys /\ r.other # r.key
          /\ Version(r.key, r.id) /\ Unrecorded(r.other)
          /\ Alive(r.other, {"active", "versions"}, {})
    BY <1>2, <1>6 DEF VRestoreArchRemove, VRestoreStage, Transfer, Labels, Archiving
  <2>2. /\ Goto(p, "archRecord") /\ records' = records
        /\ Alive(r.other, {"versions"}, {})' /\ Unrecorded(r.other)'
        /\ \A j : j # r.other => SameKey(j)
    BY <1>6, <2>1, MoveRemove DEF VRestoreArchRemove, Places
  <2>3. Version(r.key, r.id)'
    BY <2>1, <2>2, TidySame DEF Calm, Before, LifecycleInv
  <2>4. ASSUME NEW s \in Requests, s.kind = "vrestore", s.pc = "archRecord",
               s.key = r.key, s.other = r.other, s.name = r.name, s.id = r.id
        PROVE  Stage(s)'
    BY <2>1, <2>2, <2>3, <2>4 DEF Stage, VRestoreStage, Transfer, Archiving
  <2> QED BY <2>1, <2>2, <2>4, StepOn DEF Labels
<1>7. CASE VRestoreArchRecord(p)
  <2>1. PICK r \in Requests :
          /\ r = req[p] /\ Busy(p) /\ r.kind = "vrestore" /\ ~ Adding(p)
          /\ r.name = FileName[r.key] /\ r.key \in Keys /\ r.other # r.key
          /\ r.other \in Keys /\ Version(r.key, r.id) /\ Unrecorded(r.other)
          /\ Alive(r.other, {"versions"}, {})
    BY <1>2, <1>7 DEF VRestoreArchRecord, VRestoreStage, Transfer, Labels, Archiving
  <2>2. FileName[r.other] = FileName[r.key]
    BY <2>1 DEF Calm, Before, LifecycleInv, NamesInv
  <2>3. /\ AddRecord(FileName[r.other], r.other) /\ UNCHANGED <<objects, destroyed>>
        /\ Goto(p, "copy")
    BY <1>7, <2>1, <2>2, CalmStep DEF VRestoreArchRecord
  <2>4. PICK id : id = nextId OBVIOUS
  <2>5. RecordIs(r.other, id)' /\ \A j : j # r.other => SameKey(j)
    BY <2>1, <2>3, <2>4, GetsRecord DEF Calm, Before, LifecycleInv
  <2>6. Version(r.other, id)' BY <2>1, <2>3, <2>5, LiesStay DEF Version
  <2>7. Tidy(r.other)'
    <3>1. PICK t \in records' : t.id = id BY <2>5 DEF RecordIs
    <3>2. Version(r.other, t.id)' BY <2>6, <3>1 DEF Version, RecordIs
    <3> QED BY <3>1, <3>2 DEF Tidy
  <2>8. Version(r.key, r.id)'
    BY <2>1, <2>5, TidySame DEF Calm, Before, LifecycleInv
  <2>9. PICK s \in Requests :
          /\ Continues(p) /\ s = req'[p] /\ s.kind = "vrestore" /\ s.pc = "copy"
          /\ s.key = r.key /\ s.other = r.other /\ s.name = r.name /\ s.id = r.id
    BY <2>1, <2>3, GoesTo DEF Labels, Calm
  <2>10. Stage(s)'
    BY <2>1, <2>7, <2>8, <2>9 DEF Stage, VRestoreStage, Transfer, Archiving, Version
  <2>11. StageInv' BY <2>1, <2>5, <2>9, <2>10, GoesOn DEF Calm
  <2>12. Adding(p)' BY <2>9 DEF Adding
  <2> QED BY <2>1, <2>2, <2>3, <2>9, <2>11, <2>12, CapGrows DEF Calm, Before
<1>8. CASE VRestoreCopy(p)
  <2>1. PICK r \in Requests :
          /\ r = req[p] /\ Busy(p) /\ r.kind = "vrestore"
          /\ r.name = FileName[r.key] /\ r.key \in Keys /\ r.other \in Keys
          /\ RecordIs(r.key, r.id) /\ (r.other # r.key => Tidy(r.other))
          /\ Alive(r.key, {"versions"}, {})
    BY <1>2, <1>8 DEF VRestoreCopy, VRestoreStage, Transfer, Labels
  <2>2. /\ Goto(p, "info") /\ records' = records
        /\ Alive(r.key, {"versions"}, {"active"})'
        /\ \A j : j # r.key => SameKey(j)
    BY <1>8, <2>1, MoveData DEF VRestoreCopy, Places
  <2>3. RecordIs(r.key, r.id)' BY <2>1, <2>2 DEF RecordIs
  <2>4. r.other # r.key => Tidy(r.other)'
    BY <2>1, <2>2, TidySame DEF Calm, Before, LifecycleInv
  <2>5. ASSUME NEW s \in Requests, s.kind = "vrestore", s.pc = "info",
               s.key = r.key, s.other = r.other, s.name = r.name, s.id = r.id
        PROVE  Stage(s)'
    BY <2>1, <2>2, <2>3, <2>4, <2>5 DEF Stage, VRestoreStage, Transfer, Archiving
  <2>6. Adding(p)'
    <3>1. \E s \in Requests : s = req'[p] /\ s.kind = "vrestore" /\ s.pc = "info"
      BY <2>1, <2>2, GoesTo DEF Labels, Calm
    <3> QED BY <3>1 DEF Adding
  <2> QED BY <2>1, <2>2, <2>5, <2>6, StepOn DEF Labels
<1>9. CASE VRestoreInfo(p)
  <2>1. PICK r \in Requests :
          /\ r = req[p] /\ Busy(p) /\ r.kind = "vrestore"
          /\ r.name = FileName[r.key] /\ r.key \in Keys /\ r.other \in Keys
          /\ RecordIs(r.key, r.id) /\ (r.other # r.key => Tidy(r.other))
          /\ Alive(r.key, {"versions"}, {"active"})
    BY <1>2, <1>9 DEF VRestoreInfo, VRestoreStage, Transfer, Labels
  <2>2. /\ Goto(p, "remove") /\ records' = records
        /\ Alive(r.key, {"active", "versions"}, {})'
        /\ \A j : j # r.key => SameKey(j)
    BY <1>9, <2>1, MoveInfo DEF VRestoreInfo, Places
  <2>3. RecordIs(r.key, r.id)' BY <2>1, <2>2 DEF RecordIs
  <2>4. r.other # r.key => Tidy(r.other)'
    BY <2>1, <2>2, TidySame DEF Calm, Before, LifecycleInv
  <2>5. ASSUME NEW s \in Requests, s.kind = "vrestore", s.pc = "remove",
               s.key = r.key, s.other = r.other, s.name = r.name, s.id = r.id
        PROVE  Stage(s)'
    BY <2>1, <2>2, <2>3, <2>4, <2>5 DEF Stage, VRestoreStage, Transfer, Archiving
  <2>6. Adding(p)'
    <3>1. \E s \in Requests : s = req'[p] /\ s.kind = "vrestore" /\ s.pc = "remove"
      BY <2>1, <2>2, GoesTo DEF Labels, Calm
    <3> QED BY <3>1 DEF Adding
  <2> QED BY <2>1, <2>2, <2>5, <2>6, StepOn DEF Labels
<1>10. CASE VRestoreRemove(p)
  <2>1. PICK r \in Requests :
          /\ r = req[p] /\ Busy(p) /\ r.kind = "vrestore"
          /\ r.name = FileName[r.key] /\ r.key \in Keys /\ r.other \in Keys
          /\ RecordIs(r.key, r.id) /\ (r.other # r.key => Tidy(r.other))
          /\ Alive(r.key, {"active", "versions"}, {})
    BY <1>2, <1>10 DEF VRestoreRemove, VRestoreStage, Transfer, Labels
  <2>2. /\ Goto(p, "dropRecord") /\ records' = records
        /\ Alive(r.key, {"active"}, {})'
        /\ \A j : j # r.key => SameKey(j)
    BY <1>10, <2>1, MoveRemove DEF VRestoreRemove, Places
  <2>3. RecordIs(r.key, r.id)' BY <2>1, <2>2 DEF RecordIs
  <2>4. r.other # r.key => Tidy(r.other)'
    BY <2>1, <2>2, TidySame DEF Calm, Before, LifecycleInv
  <2>5. ASSUME NEW s \in Requests, s.kind = "vrestore", s.pc = "dropRecord",
               s.key = r.key, s.other = r.other, s.name = r.name, s.id = r.id
        PROVE  Stage(s)'
    BY <2>1, <2>2, <2>3, <2>4, <2>5 DEF Stage, VRestoreStage, Transfer, Archiving
  <2>6. Adding(p)'
    <3>1. \E s \in Requests : s = req'[p] /\ s.kind = "vrestore" /\ s.pc = "dropRecord"
      BY <2>1, <2>2, GoesTo DEF Labels, Calm
    <3> QED BY <3>1 DEF Adding
  <2> QED BY <2>1, <2>2, <2>5, <2>6, StepOn DEF Labels
<1>11. CASE VRestoreDrop(p)
  <2>1. PICK r \in Requests :
          /\ r = req[p] /\ Busy(p) /\ r.key \in Keys /\ r.other \in Keys
          /\ RecordIs(r.key, r.id) /\ (r.other # r.key => Tidy(r.other))
          /\ Alive(r.key, {"active"}, {})
    BY <1>2, <1>11 DEF VRestoreDrop, VRestoreStage, Labels
  <2>2. /\ Finish(p) /\ UNCHANGED <<objects, destroyed>>
        /\ records' = {t \in records : t.id # r.id}
    BY <1>11, <2>1, CalmStep DEF VRestoreDrop, DropRecord
  <2>3. Unrecorded(r.key)' /\ \A j : j # r.key => SameKey(j)
    BY <2>1, <2>2, LosesRecord DEF Calm, Before
  <2>4. Tidy(r.key)' BY <2>1, <2>2, <2>3, LiesStay DEF Tidy
  <2>5. Tidy(r.other)'
    BY <2>1, <2>3, <2>4, TidySame DEF Calm, Before, LifecycleInv
  <2>6. StageInv' BY <2>1, <2>2, <2>3, <2>4, <2>5, Ends DEF Calm
  <2>7. CapInv' BY <2>1, <2>2, CapShrinks DEF Calm, Before
  <2> QED BY <2>6, <2>7
<1> QED BY <1>1, <1>3, <1>4, <1>5, <1>6, <1>7, <1>8, <1>9, <1>10, <1>11
        DEF VRestoreStep

(* Every step of DeleteFileVersionHandler.                                 *)
LEMMA VDeleteSteady ==
  ASSUME NEW p \in Reqs, Calm(p), VDeleteStep(p)
  PROVE  StageInv' /\ CapInv'
<1>1. CASE \/ \E r \in records : BeginVersion(p, "vdelete", r)
           \/ VersionList(p, "vdelete")
           \/ VersionFind(p, "vdelete", "remove")
  BY <1>1, FindSteady
<1>2. ASSUME NEW pc \in Labels, At(p, "vdelete", pc)
      PROVE  \E r \in Requests :
               /\ r = req[p] /\ Busy(p) /\ r.kind = "vdelete" /\ r.pc = pc
               /\ r.key \in Keys /\ VDeleteStage(r) /\ ~ Adding(p)
  BY <1>2, Here DEF Stage, Adding
<1>3. CASE VDeleteRemove(p)
  <2>1. PICK r \in Requests :
          /\ r = req[p] /\ Busy(p) /\ r.kind = "vdelete" /\ ~ Adding(p)
          /\ r.name = FileName[r.key] /\ r.other = r.key /\ Version(r.key, r.id)
    BY <1>2, <1>3 DEF VDeleteRemove, VDeleteStage, Labels
  <2>2. /\ Goto(p, "dropRecord") /\ records' = records
        /\ objects' = objects \ {<<"versions", r.key, part>> : part \in Parts}
        /\ destroyed' = destroyed \cup {j \in {r.key} : ~ Kept(j)'}
    BY <1>3, <2>1, CalmStep DEF VDeleteRemove, Destroy, RemovePair
  <2>3. Only(r.key) /\ Dead(r.key)'
    BY <2>1, <2>2, PairDestroyed DEF Version, Places
  <2>4. \A j : j # r.key => SameKey(j) BY <2>3, Elsewhere
  <2>5. RecordIs(r.key, r.id)' BY <2>1, <2>2 DEF Version, RecordIs
  <2>6. ASSUME NEW s \in Requests, s.kind = "vdelete", s.pc = "dropRecord",
               s.key = r.key, s.other = r.key, s.name = r.name, s.id = r.id
        PROVE  Stage(s)'
    BY <2>1, <2>3, <2>5, <2>6 DEF Stage, VDeleteStage
  <2> QED BY <2>1, <2>2, <2>4, <2>6, StepOn DEF Labels
<1>4. CASE VDeleteDrop(p)
  <2>1. PICK r \in Requests :
          /\ r = req[p] /\ Busy(p) /\ r.key \in Keys /\ r.other = r.key
          /\ Dead(r.key) /\ RecordIs(r.key, r.id)
    BY <1>2, <1>4 DEF VDeleteDrop, VDeleteStage, Labels
  <2>2. /\ Finish(p) /\ UNCHANGED <<objects, destroyed>>
        /\ records' = {t \in records : t.id # r.id}
    BY <1>4, <2>1, CalmStep DEF VDeleteDrop, DropRecord
  <2>3. Unrecorded(r.key)' /\ \A j : j # r.key => SameKey(j)
    BY <2>1, <2>2, LosesRecord DEF Calm, Before
  <2>4. Tidy(r.key)' BY <2>1, <2>2, <2>3, LiesStay DEF Tidy
  <2>5. StageInv' BY <2>1, <2>2, <2>3, <2>4, Ends DEF Calm
  <2>6. CapInv' BY <2>1, <2>2, CapShrinks DEF Calm, Before
  <2> QED BY <2>5, <2>6
<1> QED BY <1>1, <1>3, <1>4 DEF VDeleteStep

----------------------------------------------------------------------------
(* The failures: they harm no other name. *)

(* A name that is spared has been all along, and a failure spares not the  *)
(* name that it happens to.                                                *)
LEMMA HurtSpared ==
  ASSUME TypeOK, NEW f \in Files, faults' = faults \/ faults' = Append(faults, f)
  PROVE  /\ \A g \in Files : Spared(g)' => Spared(g)
         /\ faults' # faults \/ ~ Spared(f) => ~ Spared(f)'
<1>1. faults \in Seq(Files) /\ Len(faults) \in Nat BY DEF TypeOK
<1>2. CASE faults' = faults BY <1>2, SparedSame
<1>3. CASE faults' = Append(faults, f)
  <2>1. /\ DOMAIN faults' = 1 .. Len(faults) + 1
        /\ DOMAIN faults = 1 .. Len(faults)
        /\ \A i \in 1 .. Len(faults) : faults'[i] = faults[i]
        /\ faults'[Len(faults) + 1] = f
    BY <1>1, <1>3
  <2>2. ASSUME NEW g \in Files, Spared(g)' PROVE Spared(g)
    BY <1>1, <2>1, <2>2 DEF Spared
  <2>3. ~ Spared(f)' BY <1>1, <2>1 DEF Spared
  <2> QED BY <2>2, <2>3
<1> QED BY <1>2, <1>3

(* A name whose files are all left alone keeps its records.                *)
LEMMA NamedSame ==
  ASSUME TypeOK, TypeOK', NamesInv, NamesInv', NEW f \in Files,
         \A k \in Keys : FileName[k] = f => SameKey(k)
  PROVE  \A s : s \in Named(f)' <=> s \in Named(f)
<1>1. ASSUME NEW s \in Named(f) PROVE s \in Named(f)'
  <2>1. s \in records /\ s.key \in Keys /\ FileName[s.key] = f BY NamedOf
  <2> QED BY <1>1, <2>1 DEF SameKey, Named
<1>2. ASSUME NEW s, s \in Named(f)' PROVE s \in Named(f)
  <2>1. s \in records' /\ s.name = f BY <1>2 DEF Named
  <2>2. s.key \in Keys /\ FileName[s.key] = f
    BY <2>1, NamesAssumption DEF TypeOK, NamesInv, NamesOf, Records
  <2> QED BY <2>1, <2>2 DEF SameKey, Named
<1> QED BY <1>1, <1>2

(* A step that concerns one name, for which a call has failed, leaves      *)
(* nothing undone of the other names.                                      *)
LEMMA HurtFrame ==
  ASSUME LifecycleInv, LifecycleInv', BooksInv, BooksInv', StageInv, CapInv,
         NEW f \in Files, ~ Spared(f)', \A g \in Files : Spared(g)' => Spared(g),
         uploaded' = uploaded, \A k \in Keys : FileName[k] # f => SameKey(k),
         \A q \in Reqs :
           \/ req'[q] = req[q]
           \/ /\ Busy(q) => FileName[req[q].key] = f
              /\ Busy(q)' => FileName[req'[q].key] = f
  PROVE  StageInv' /\ CapInv'
<1>1. TypeOK /\ TypeOK' /\ NamesInv /\ NamesInv' BY DEF LifecycleInv
<1>2. \A k \in Keys : FileName[k] \in Files BY NamesAssumption
<1>3. ASSUME NEW g \in Files, g # f PROVE \A s : s \in Named(g)' <=> s \in Named(g)
  <2>1. \A k \in Keys : FileName[k] = g => SameKey(k) BY <1>3
  <2> QED BY <1>1, <2>1, NamedSame
<1>4. ASSUME NEW q \in Reqs, Busy(q)', Spared(FileName[req[q].key])'
      PROVE  (Stage(req[q]))'
  <2>1. req'[q] = req[q] /\ Busy(q) /\ FileName[req[q].key] # f
    BY <1>4 DEF Busy
  <2>2. PICK r \in Requests : r = req[q] BY <1>1, <2>1, BusyType
  <2>3. /\ r.key \in Keys /\ r.other \in Keys
        /\ FileName[r.key] # f /\ FileName[r.other] # f
    BY <1>1, <2>1, <2>2 DEF NamesInv, Requests
  <2>4. Spared(FileName[r.key])' BY <1>4, <2>1, <2>2
  <2>5. Stage(r) BY <1>2, <2>1, <2>2, <2>3, <2>4 DEF StageInv
  <2>6. SameKey(r.key) /\ SameKey(r.other) BY <2>3
  <2>7. r.name = FileName[r.key] => \A s : s \in Named(r.name)' <=> s \in Named(r.name)
    BY <1>2, <1>3, <2>3
  <2>8. Stage(r)' BY <1>1, <2>5, <2>6, <2>7, StageKeeps
  <2> QED BY <2>1, <2>2, <2>8, StageNow
<1>5. ASSUME NEW k \in uploaded', Spared(FileName[k])', ~ Touched(k)'
      PROVE  Tidy(k)'
  <2>1. /\ k \in Keys /\ k \in uploaded /\ FileName[k] # f /\ Spared(FileName[k])
        /\ SameKey(k)
    BY <1>1, <1>2, <1>5 DEF TypeOK
  <2>2. ASSUME NEW q \in Reqs, Busy(q), k \in {req[q].key, req[q].other} PROVE FALSE
    <3>1. FileName[req[q].key] = FileName[k] BY <1>1, <2>2 DEF NamesInv
    <3>2. req'[q] = req[q] BY <2>1, <2>2, <3>1
    <3> QED BY <1>5, <2>2, <3>2 DEF Touched, Busy
  <2>3. Tidy(k) BY <2>1, <2>2 DEF StageInv, Touched
  <2> QED BY <1>1, <2>1, <2>3, TidySame
<1>6. StageInv' BY <1>4, <1>5 DEF StageInv
<1>7. CapInv'
  <2> SUFFICES ASSUME MaxFileVersions > 0, NEW g \in Files, Spared(g)'
               PROVE  (LET adding == \E q \in Reqs : Adding(q) /\ FileName[req[q].key] = g
                       IN Cardinality(Named(g)) <= MaxFileVersions + IF adding THEN 1 ELSE 0)'
    BY DEF CapInv
  <2>1. g # f /\ Spared(g) OBVIOUS
  <2>2. Named(g)' = Named(g)
    <3>1. \A s : s \in Named(g)' <=> s \in Named(g) BY <1>3, <2>1
    <3>2. Named(g) \subseteq records /\ Named(g)' \subseteq records' BY DEF Named
    <3> QED BY <3>1, <3>2
  <2>3. ASSUME NEW q \in Reqs
        PROVE  Adding(q) /\ FileName[req[q].key] = g
                 => Adding(q)' /\ FileName[req'[q].key] = g
    BY <2>1 DEF Adding, Busy
  <2>4. Cardinality(Named(g)) <= MaxFileVersions
          + IF \E q \in Reqs : Adding(q) /\ FileName[req[q].key] = g THEN 1 ELSE 0
    BY <2>1 DEF CapInv
  <2>5. IsFiniteSet(Named(g)) /\ Cardinality(Named(g)) \in Nat
    BY FS_Subset, FS_CardinalityType DEF Named, BooksInv
  <2> QED BY <2>2, <2>3, <2>4, <2>5, NumbersAssumption
<1> QED BY <1>6, <1>7

(* A step of request p that concerns the name f alone.                     *)
Apart(p, f) ==
  /\ \A k \in Keys : FileName[k] # f => SameKey(k)
  /\ \A q \in Reqs \ {p} : req'[q] = req[q]
  /\ Busy(p) => FileName[req[p].key] = f
  /\ Busy(p)' => FileName[req'[p].key] = f
  /\ uploaded' = uploaded
  /\ faults' = faults \/ faults' = Append(faults, f)

(* A call that concerns k alone, and fails at most for its name.           *)
Single(k) ==
  /\ Only(k)
  /\ faults' = faults \/ faults' = Append(faults, FileName[k])

(* The calls that a handler is made of are of that kind. *)
LEMMA SingleCopy ==
  ASSUME NEW p, NEW from, NEW to \in Places, NEW next, CopyData(p, from, to, next)
  PROVE  Single(req[p].key) /\ uploaded' = uploaded /\ (Finish(p) \/ Goto(p, next))
<1>1. Grows(to, req[p].key) /\ UNCHANGED <<records, destroyed>>
  BY DEF CopyData, Grows, Parts
<1> QED BY <1>1 DEF CopyData, Single, Only, NoFault

(* A copy whose error is ignored.                                          *)
LEMMA SingleTry ==
  ASSUME NEW p, NEW k, NEW part \in Parts, NEW from, NEW to \in Places,
         NEW call, NEW next, TryCopy(p, k, part, from, to, call, next),
         destroyed' = destroyed
  PROVE  Single(k) /\ uploaded' = uploaded /\ Goto(p, next)
<1>1. Grows(to, k) /\ UNCHANGED <<records, destroyed>>
  BY DEF TryCopy, Copied, Grows
<1> QED BY <1>1 DEF TryCopy, Single, Only, NoFault, Fault

(* The removal of a pair.                                                  *)
LEMMA SingleRemove ==
  ASSUME NEW k, NEW place \in Places, RemovePair(place, k), records' = records,
         \A j : j # k => (j \in destroyed' <=> j \in destroyed)
  PROVE  Single(k)
<1>1. Shrinks(place, k) BY DEF RemovePair, Shrinks, Parts
<1> QED BY <1>1 DEF RemovePair, Single, Only, NoFault, Fault

(* A new record.                                                           *)
LEMMA SingleRecord ==
  ASSUME NEW name, NEW k, AddRecord(name, k), UNCHANGED <<objects, destroyed, faults>>
  PROVE  Single(k)
<1>1. Grows("trash", k) BY DEF Grows
<1>2. \A r : r.key # k => (r \in records' <=> r \in records) BY DEF AddRecord
<1> QED BY <1>1, <1>2 DEF Single, Only, Places

(* Nothing but the request changes.                                        *)
LEMMA SingleNothing ==
  ASSUME UNCHANGED <<objects, records, destroyed>>, NEW k,
         faults' = faults \/ \E call : Fault(call, k)
  PROVE  Single(k)
<1>1. Grows("trash", k) BY DEF Grows
<1> QED BY <1>1 DEF Single, Only, Places, Fault

(* The request ends, or goes on for the same file.                         *)
Onward(p) ==
  /\ \A q \in Reqs \ {p} : req'[q] = req[q]
  /\ req'[p] = Idle \/ req'[p].key = req[p].key

(* The ways it mostly does so. *)
LEMMA OnwardStep ==
  ASSUME TypeOK, NEW p \in Reqs, Busy(p), Finish(p) \/ \E pc : Goto(p, pc)
  PROVE  Onward(p)
<1>1. req[p] \in Requests BY BusyType
<1>2. CASE Finish(p) BY <1>2 DEF Finish, Onward, TypeOK
<1>3. ASSUME NEW pc, Goto(p, pc) PROVE Onward(p)
  <2>1. [req[p] EXCEPT !.pc = pc].key = req[p].key BY <1>1 DEF Requests
  <2> QED BY <1>3, <2>1 DEF Goto, Onward, TypeOK
<1> QED BY <1>2, <1>3

(* A step on a file that the request has in hand concerns its name alone.  *)
LEMMA ApartStep ==
  ASSUME LifecycleInv, NEW p \in Reqs, Busy(p), Onward(p), uploaded' = uploaded,
         NEW k \in {req[p].key, req[p].other}, Single(k)
  PROVE  \E f \in Files : Apart(p, f)
<1>1. /\ req[p].key \in Keys /\ FileName[req[p].key] \in Files
      /\ FileName[k] = FileName[req[p].key]
  BY BusyType, NamesAssumption DEF LifecycleInv, NamesInv, Requests
<1>2. PICK f \in Files : f = FileName[k] BY <1>1
<1>3. \A j \in Keys : FileName[j] # f => SameKey(j)
  BY <1>2, Elsewhere DEF Single
<1>4. Busy(p)' => FileName[req'[p].key] = f
  BY <1>1, <1>2 DEF Onward, Busy, Idle
<1> QED BY <1>1, <1>2, <1>3, <1>4 DEF Apart, Onward, Single

(* A request begins, on the files of its name.                             *)
LEMMA ApartBegin ==
  ASSUME TypeOK, NEW p \in Reqs, NEW r, Begin(p, r), r.key \in Keys,
         UNCHANGED <<objects, records, nextId, uploaded, destroyed, faults>>
  PROVE  \E f \in Files : Apart(p, f)
<1>1. PICK f \in Files : f = FileName[r.key] BY NamesAssumption
<1>2. req'[p] = r /\ ~ Busy(p) /\ \A q \in Reqs \ {p} : req'[q] = req[q]
  BY DEF Begin, TypeOK
<1>3. \A k \in Keys : SameKey(k) BY AllSame
<1> QED BY <1>1, <1>2, <1>3 DEF Apart

(* The record that a request drops is of its name.                         *)
LEMMA ApartDrop ==
  ASSUME LifecycleInv, HeldInv, NEW p \in Reqs, Busy(p), Holding(p), Finish(p),
         DropRecord(p), UNCHANGED <<objects, uploaded, destroyed>>
  PROVE  \E f \in Files : Apart(p, f)
<1>1. req[p].key \in Keys /\ FileName[req[p].key] \in Files
  BY BusyType, NamesAssumption DEF LifecycleInv, Requests
<1>2. PICK f \in Files : f = FileName[req[p].key] BY <1>1
<1>3. Onward(p) /\ req'[p] = Idle
  <2>1. Onward(p) BY OnwardStep DEF LifecycleInv
  <2> QED BY <2>1 DEF Finish, LifecycleInv, TypeOK
<1>4. \A r \in records : r.id = req[p].id => FileName[r.key] = f
  BY <1>2 DEF HeldInv
<1>5. ASSUME NEW j \in Keys, FileName[j] # f PROVE SameKey(j)
  <2>1. \A r : r.key = j => (r \in records' <=> r \in records)
    BY <1>4, <1>5 DEF DropRecord
  <2> QED BY <2>1 DEF SameKey
<1>6. faults' = faults \/ faults' = Append(faults, f)
  BY <1>2 DEF DropRecord, NoFault, Fault
<1>7. ~ Busy(p)' BY <1>3 DEF Busy, Idle
<1> QED BY <1>2, <1>3, <1>5, <1>6, <1>7 DEF Apart, Onward

(* Every step of every handler concerns one name: of the trash, ...        *)
LEMMA ApartTrash ==
  ASSUME LifecycleInv, NEW p \in Reqs, DeleteStep(p) \/ RestoreStep(p) \/ Abort(p)
  PROVE  \E f \in Files : Apart(p, f)
<1>1. TypeOK BY DEF LifecycleInv
<1>2. ASSUME NEW k \in Keys, BeginDelete(p, k) \/ BeginRestore(p, k)
      PROVE  \E f \in Files : Apart(p, f)
  BY <1>1, <1>2, ApartBegin DEF BeginDelete, BeginRestore
<1>3. CASE ~ \E k \in Keys : BeginDelete(p, k) \/ BeginRestore(p, k)
  <2>1. Busy(p)
    BY <1>1, <1>3, AtBusy
       DEF DeleteStep, DeleteHead, DeleteCopy, DeleteInfo, DeleteRemove,
           RestoreStep, RestoreHeadTrash, RestoreHeadActive, RestoreCopy,
           RestoreInfo, RestoreRemove, Abort, Labels
  <2>2. CASE DeleteCopy(p) \/ RestoreCopy(p)
    <3>1. /\ Single(req[p].key) /\ uploaded' = uploaded
          /\ Finish(p) \/ Goto(p, "info")
      BY <2>2, SingleCopy DEF DeleteCopy, RestoreCopy, Places
    <3> QED BY <1>1, <2>1, <3>1, OnwardStep, ApartStep
  <2>3. CASE DeleteInfo(p) \/ RestoreInfo(p)
    <3>1. Single(req[p].key) /\ uploaded' = uploaded /\ Goto(p, "remove")
      BY <2>3, SingleTry DEF DeleteInfo, RestoreInfo, Places, Parts
    <3> QED BY <1>1, <2>1, <3>1, OnwardStep, ApartStep
  <2>4. CASE DeleteRemove(p) \/ RestoreRemove(p)
    <3>1. Single(req[p].key) /\ uploaded' = uploaded /\ Finish(p)
      BY <2>4, SingleRemove DEF DeleteRemove, RestoreRemove, Places
    <3> QED BY <1>1, <2>1, <3>1, OnwardStep, ApartStep
  <2>5. CASE DeleteHead(p) \/ RestoreHeadTrash(p) \/ RestoreHeadActive(p) \/ Abort(p)
    <3>1. /\ UNCHANGED <<objects, records, destroyed, uploaded>>
          /\ faults' = faults \/ Fault("abort", req[p].key)
          /\ Finish(p) \/ \E pc : Goto(p, pc)
      BY <2>5 DEF DeleteHead, RestoreHeadTrash, RestoreHeadActive, Abort
    <3>2. Single(req[p].key) BY <3>1, SingleNothing
    <3> QED BY <1>1, <2>1, <3>1, <3>2, OnwardStep, ApartStep
  <2> QED BY <1>3, <2>2, <2>3, <2>4, <2>5 DEF DeleteStep, RestoreStep
<1> QED BY <1>2, <1>3

(* ... of an archive, ...                                                  *)
LEMMA ApartArchive ==
  ASSUME LifecycleInv, HeldInv, NEW p \in Reqs, ArchiveStep(p)
  PROVE  \E f \in Files : Apart(p, f)
<1>1. TypeOK BY DEF LifecycleInv
<1>2. ASSUME NEW k \in Keys, BeginArchive(p, k)
      PROVE  \E f \in Files : Apart(p, f)
  BY <1>1, <1>2, ApartBegin DEF BeginArchive
<1>3. CASE ~ \E k \in Keys : BeginArchive(p, k)
  <2>1. Busy(p) /\ req[p] \in Requests
    BY <1>1, <1>3, AtBusy
       DEF ArchiveStep, ArchiveHead, ArchiveResolve, ArchiveCopy, ArchiveInfo,
           ArchiveRemove, ArchiveRecord, ArchiveCount, ArchiveOldest, ArchiveEvict,
           ArchiveDrop, Labels
  <2>2. CASE ArchiveCopy(p)
    <3>1. /\ Single(req[p].key) /\ uploaded' = uploaded
          /\ Finish(p) \/ Goto(p, "info")
      BY <2>2, SingleCopy DEF ArchiveCopy, Places
    <3> QED BY <1>1, <2>1, <3>1, OnwardStep, ApartStep
  <2>3. CASE ArchiveInfo(p)
    <3>1. Single(req[p].key) /\ uploaded' = uploaded /\ Goto(p, "remove")
      BY <2>3, SingleTry DEF ArchiveInfo, Places, Parts
    <3> QED BY <1>1, <2>1, <3>1, OnwardStep, ApartStep
  <2>4. CASE ArchiveRemove(p)
    <3>1. Single(req[p].key) /\ uploaded' = uploaded /\ Goto(p, "record")
      BY <2>4, SingleRemove DEF ArchiveRemove, Places
    <3> QED BY <1>1, <2>1, <3>1, OnwardStep, ApartStep
  <2>5. CASE ArchiveRecord(p)
    <3>1. /\ Single(req[p].key) /\ uploaded' = uploaded
          /\ Finish(p) \/ Goto(p, "count")
      BY <2>5, SingleRecord DEF ArchiveRecord
    <3> QED BY <1>1, <2>1, <3>1, OnwardStep, ApartStep
  <2>6. CASE ArchiveEvict(p)
    <3>1. Single(req[p].other) /\ uploaded' = uploaded /\ Goto(p, "dropRecord")
      BY <2>6, SingleRemove DEF ArchiveEvict, Destroy, Places
    <3> QED BY <1>1, <2>1, <3>1, OnwardStep, ApartStep
  <2>7. CASE ArchiveDrop(p)
    BY <2>1, <2>7, ApartDrop DEF ArchiveDrop, Holding, At
  <2>8. CASE ArchiveHead(p) \/ ArchiveCount(p)
    <3>1. /\ UNCHANGED <<objects, records, destroyed, uploaded>>
          /\ faults' = faults \/ Fault("count", req[p].key)
          /\ Finish(p) \/ \E pc : Goto(p, pc)
      BY <2>8 DEF ArchiveHead, ArchiveCount, NoFault
    <3>2. Single(req[p].key) BY <3>1, SingleNothing
    <3> QED BY <1>1, <2>1, <3>1, <3>2, OnwardStep, ApartStep
  <2>9. CASE ArchiveResolve(p)
    <3>1. /\ UNCHANGED <<objects, records, destroyed, uploaded>>
          /\ faults' = faults \/ Fault("info", req[p].key)
      BY <2>9 DEF ArchiveResolve, NoFault
    <3>2. PICK name : req' = [req EXCEPT ![p].pc = "copy", ![p].name = name]
      BY <2>9 DEF ArchiveResolve
    <3>3. Onward(p) BY <1>1, <2>1, <3>2 DEF Onward, TypeOK, Requests
    <3>4. Single(req[p].key) BY <3>1, SingleNothing
    <3> QED BY <2>1, <3>1, <3>3, <3>4, ApartStep
  <2>10. CASE ArchiveOldest(p)
    <3>1. UNCHANGED <<objects, records, destroyed, uploaded, faults>>
      BY <2>10 DEF ArchiveOldest
    <3>2. ASSUME NEW t \in Oldest(req[p].name),
                 req' = [req EXCEPT ![p].pc = "evict", ![p].other = t.key,
                                    ![p].id = t.id]
          PROVE  Onward(p)
      BY <1>1, <2>1, <3>2 DEF Onward, TypeOK, Requests
    <3>3. Finish(p) => Onward(p) BY <1>1, <2>1, OnwardStep
    <3>4. Onward(p) BY <2>10, <3>2, <3>3 DEF ArchiveOldest
    <3>5. Single(req[p].key) BY <3>1, SingleNothing
    <3> QED BY <2>1, <3>1, <3>4, <3>5, ApartStep
  <2> QED BY <1>3, <2>2, <2>3, <2>4, <2>5, <2>6, <2>7, <2>8, <2>9, <2>10
          DEF ArchiveStep
<1> QED BY <1>2, <1>3

(* ... of the restore of a version, ...                                    *)
LEMMA ApartVRestore ==
  ASSUME LifecycleInv, HeldInv, NEW p \in Reqs, VRestoreStep(p)
  PROVE  \E f \in Files : Apart(p, f)
<1>1. TypeOK BY DEF LifecycleInv
<1>2. ASSUME NEW r \in records, BeginVersion(p, "vrestore", r)
      PROVE  \E f \in Files : Apart(p, f)
  <2>1. r.key \in Keys BY <1>1 DEF TypeOK, Records
  <2> QED BY <1>1, <1>2, <2>1, ApartBegin DEF BeginVersion
<1>3. CASE ~ \E r \in records : BeginVersion(p, "vrestore", r)
  <2>1. Busy(p) /\ req[p] \in Requests
    BY <1>1, <1>3, AtBusy
       DEF VRestoreStep, VersionList, VersionFind, VRestoreScan, VRestoreArchCopy,
           VRestoreArchInfo, VRestoreArchRemove, VRestoreArchRecord, VRestoreCopy,
           VRestoreInfo, VRestoreRemove, VRestoreDrop, Labels
  <2>2. CASE VRestoreCopy(p)
    <3>1. /\ Single(req[p].key) /\ uploaded' = uploaded
          /\ Finish(p) \/ Goto(p, "info")
      BY <2>2, SingleCopy DEF VRestoreCopy, Places
    <3> QED BY <1>1, <2>1, <3>1, OnwardStep, ApartStep
  <2>3. CASE VRestoreInfo(p)
    <3>1. Single(req[p].key) /\ uploaded' = uploaded /\ Goto(p, "remove")
      BY <2>3, SingleTry DEF VRestoreInfo, Places, Parts
    <3> QED BY <1>1, <2>1, <3>1, OnwardStep, ApartStep
  <2>4. CASE VRestoreRemove(p)
    <3>1. Single(req[p].key) /\ uploaded' = uploaded /\ Goto(p, "dropRecord")
      BY <2>4, SingleRemove DEF VRestoreRemove, Places
    <3> QED BY <1>1, <2>1, <3>1, OnwardStep, ApartStep
  <2>5. CASE VRestoreArchCopy(p)
    <3>1. Single(req[p].other) /\ uploaded' = uploaded /\ Goto(p, "archInfo")
      BY <2>5, SingleTry DEF VRestoreArchCopy, Places, Parts
    <3> QED BY <1>1, <2>1, <3>1, OnwardStep, ApartStep
  <2>6. CASE VRestoreArchInfo(p)
    <3>1. Single(req[p].other) /\ uploaded' = uploaded /\ Goto(p, "archRemove")
      BY <2>6, SingleTry DEF VRestoreArchInfo, Places, Parts
    <3> QED BY <1>1, <2>1, <3>1, OnwardStep, ApartStep
  <2>7. CASE VRestoreArchRemove(p)
    <3>1. Single(req[p].other) /\ uploaded' = uploaded /\ Goto(p, "archRecord")
      BY <2>7, SingleRemove DEF VRestoreArchRemove, Places
    <3> QED BY <1>1, <2>1, <3>1, OnwardStep, ApartStep
  <2>8. CASE VRestoreArchRecord(p)
    <3>1. /\ Goto(p, "copy") /\ UNCHANGED <<objects, uploaded, destroyed>>
          /\ \/ NoFault /\ AddRecord(req[p].name, req[p].other)
             \/ Fault("createRecord", req[p].key) /\ UNCHANGED <<records, nextId>>
      BY <2>8 DEF VRestoreArchRecord
    <3>2. CASE NoFault /\ AddRecord(req[p].name, req[p].other)
      <4>1. Single(req[p].other) BY <3>1, <3>2, SingleRecord DEF NoFault
      <4> QED BY <1>1, <2>1, <3>1, <4>1, OnwardStep, ApartStep
    <3>3. CASE Fault("createRecord", req[p].key) /\ UNCHANGED <<records, nextId>>
      <4>1. Single(req[p].key) BY <3>1, <3>3, SingleNothing
      <4> QED BY <1>1, <2>1, <3>1, <4>1, OnwardStep, ApartStep
    <3> QED BY <3>1, <3>2, <3>3
  <2>9. CASE VRestoreDrop(p)
    BY <2>1, <2>9, ApartDrop DEF VRestoreDrop, Holding, At
  <2>10. CASE VersionList(p, "vrestore") \/ VersionFind(p, "vrestore", "scan")
    <3>1. /\ UNCHANGED <<objects, records, destroyed, uploaded, faults>>
          /\ Finish(p) \/ \E pc : Goto(p, pc)
      BY <2>10 DEF VersionList, VersionFind
    <3>2. Single(req[p].key) BY <3>1, SingleNothing
    <3> QED BY <1>1, <2>1, <3>1, <3>2, OnwardStep, ApartStep
  <2>11. CASE VRestoreScan(p)
    <3>1. /\ UNCHANGED <<objects, records, destroyed, uploaded>>
          /\ faults' = faults \/ Fault("list", req[p].key)
      BY <2>11 DEF VRestoreScan, NoFault
    <3>2. ASSUME NEW k \in Keys,
                 req' = [req EXCEPT ![p].pc = "archCopy", ![p].other = k]
          PROVE  Onward(p)
      BY <1>1, <2>1, <3>2 DEF Onward, TypeOK, Requests
    <3>3. Goto(p, "copy") => Onward(p) BY <1>1, <2>1, OnwardStep
    <3>4. Onward(p) BY <2>11, <3>2, <3>3 DEF VRestoreScan
    <3>5. Single(req[p].key) BY <3>1, SingleNothing
    <3> QED BY <2>1, <3>1, <3>4, <3>5, ApartStep
  <2> QED BY <1>3, <2>2, <2>3, <2>4, <2>5, <2>6, <2>7, <2>8, <2>9, <2>10, <2>11
          DEF VRestoreStep
<1> QED BY <1>2, <1>3

(* ... of the deletion of a version.                                       *)
LEMMA ApartVDelete ==
  ASSUME LifecycleInv, HeldInv, NEW p \in Reqs, VDeleteStep(p)
  PROVE  \E f \in Files : Apart(p, f)
<1>1. TypeOK BY DEF LifecycleInv
<1>2. ASSUME NEW r \in records, BeginVersion(p, "vdelete", r)
      PROVE  \E f \in Files : Apart(p, f)
  <2>1. r.key \in Keys BY <1>1 DEF TypeOK, Records
  <2> QED BY <1>1, <1>2, <2>1, ApartBegin DEF BeginVersion
<1>3. CASE ~ \E r \in records : BeginVersion(p, "vdelete", r)
  <2>1. Busy(p)
    BY <1>1, <1>3, AtBusy
       DEF VDeleteStep, VersionList, VersionFind, VDeleteRemove, VDeleteDrop, Labels
  <2>2. CASE VDeleteRemove(p)
    <3>1. Single(req[p].key) /\ uploaded' = uploaded /\ Goto(p, "dropRecord")
      BY <2>2, SingleRemove DEF VDeleteRemove, Destroy, Places
    <3> QED BY <1>1, <2>1, <3>1, OnwardStep, ApartStep
  <2>3. CASE VDeleteDrop(p)
    BY <2>1, <2>3, ApartDrop DEF VDeleteDrop, Holding, At
  <2>4. CASE VersionList(p, "vdelete") \/ VersionFind(p, "vdelete", "remove")
    <3>1. /\ UNCHANGED <<objects, records, destroyed, uploaded, faults>>
          /\ Finish(p) \/ \E pc : Goto(p, pc)
      BY <2>4 DEF VersionList, VersionFind
    <3>2. Single(req[p].key) BY <3>1, SingleNothing
    <3> QED BY <1>1, <2>1, <3>1, <3>2, OnwardStep, ApartStep
  <2> QED BY <1>3, <2>2, <2>3, <2>4 DEF VDeleteStep
<1> QED BY <1>2, <1>3

----------------------------------------------------------------------------
(* The environment: uploads, and what expires in the trash. *)

(* A step that concerns no other files than those of K, that nobody works  *)
(* on.                                                                     *)
Aside(K) ==
  /\ \A k \in K : ~ Touched(k)
                  /\ (k \in uploaded' /\ Spared(FileName[k]) => Tidy(k)')
  /\ \A k \in Keys \ K : SameKey(k) /\ (k \in uploaded' => k \in uploaded)

(* What is left of StageInv and CapInv by a step that concerns files       *)
(* that nobody works on, and no request.                                   *)
LEMMA AsideSteady ==
  ASSUME LifecycleInv, LifecycleInv', BooksInv, BooksInv', StageInv, CapInv,
         UNCHANGED <<req, records, faults>>, NEW K, Aside(K)
  PROVE  StageInv' /\ CapInv'
<1>1. ASSUME NEW q \in Reqs, Busy(q)', Spared(FileName[req[q].key])'
      PROVE  (Stage(req[q]))'
  <2>1. Busy(q) /\ Spared(FileName[req[q].key])
    BY <1>1, SparedSame DEF Busy
  <2>2. PICK r \in Requests : r = req[q] BY <2>1, BusyType DEF LifecycleInv
  <2>3. r.key \in Keys /\ r.other \in Keys /\ r.key \notin K /\ r.other \notin K
    BY <2>1, <2>2 DEF Touched, Requests, Aside
  <2>4. SameKey(r.key) /\ SameKey(r.other) BY <2>3 DEF Aside
  <2>5. \A s : s \in Named(r.name)' <=> s \in Named(r.name) BY DEF Named
  <2>6. Stage(r) BY <2>1, <2>2 DEF StageInv
  <2>7. Stage(r)' BY <2>4, <2>5, <2>6, StageKeeps DEF LifecycleInv
  <2> QED BY <2>2, <2>7, StageNow
<1>2. ASSUME NEW j \in uploaded', Spared(FileName[j])', ~ Touched(j)'
      PROVE  Tidy(j)'
  <2>1. j \in Keys /\ Spared(FileName[j])
    BY <1>2, SparedSame DEF LifecycleInv, TypeOK
  <2>2. CASE j \notin K
    <3>1. j \in uploaded /\ ~ Touched(j) /\ SameKey(j)
      BY <1>2, <2>1, <2>2 DEF Touched, Busy, Aside
    <3>2. Tidy(j) BY <2>1, <3>1 DEF StageInv
    <3> QED BY <2>1, <3>1, <3>2, TidySame DEF LifecycleInv
  <2> QED BY <1>2, <2>1, <2>2 DEF Aside
<1>3. StageInv' BY <1>1, <1>2 DEF StageInv
<1>4. CapInv'
  <2>1. \A f : Named(f)' = Named(f) BY DEF Named
  <2>2. \A f : (\E q \in Reqs : Adding(q)' /\ FileName[req'[q].key] = f)
                 <=> (\E q \in Reqs : Adding(q) /\ FileName[req[q].key] = f)
    BY DEF Adding
  <2> QED BY <2>1, <2>2, SparedSame DEF CapInv
<1> QED BY <1>3, <1>4

(* An upload is active and has no record.                                  *)
LEMMA UploadSteady ==
  ASSUME LifecycleInv, LifecycleInv', BooksInv, BooksInv', StageInv, CapInv,
         NEW k \in Keys, Upload(k)
  PROVE  StageInv' /\ CapInv'
<1>1. /\ k \notin uploaded /\ k \notin destroyed
      /\ \A o \in objects : o[2] # k
      /\ Unrecorded(k) /\ ~ Touched(k)
  BY DEF Upload, BooksInv, LifecycleInv, NamesInv, Unrecorded, Touched
<1>2. /\ objects' = objects \cup {<<"active", k, part>> : part \in Parts}
      /\ UNCHANGED <<req, records, destroyed, faults>> /\ uploaded' = uploaded \cup {k}
  BY DEF Upload
<1>3. \A place \in Places, part \in Parts : <<place, k, part>> \notin objects
  BY <1>1
<1>4. Lies(k, {"active"}, {})'
  BY <1>2, <1>3 DEF Lies, Data, Info, Parts
<1>5. Tidy(k)' BY <1>1, <1>2, <1>4 DEF Tidy, Alive, Unrecorded
<1>6. \A j : j # k => SameKey(j) BY <1>2 DEF SameKey
<1>7. Aside({k}) BY <1>1, <1>2, <1>5, <1>6 DEF Aside
<1> QED BY <1>2, <1>7, AsideSteady

(* What expires in the trash is gone, and had no record; the trash of a    *)
(* name for which a call has failed may hold more than that.               *)
LEMMA ExpireSteady ==
  ASSUME LifecycleInv, LifecycleInv', BooksInv, BooksInv', StageInv, CapInv,
         NEW k \in Keys, ExpireTrash(k)
  PROVE  StageInv' /\ CapInv'
<1>1. /\ Data("trash", k) \/ Info("trash", k)
      /\ objects' = objects \ {<<"trash", k, part>> : part \in Parts}
      /\ destroyed' = destroyed \cup {j \in {k} \cap uploaded : ~ Kept(j)'}
      /\ UNCHANGED <<req, records, uploaded>>
  BY DEF ExpireTrash
<1>2. k \in uploaded BY <1>1 DEF Data, Info, LifecycleInv, NamesInv
<1>3. destroyed' = destroyed \cup {j \in {k} : ~ Kept(j)'} BY <1>1, <1>2
<1>4. CASE NoFault /\ Spared(FileName[k])
  <2>1. QuietName(FileName[k])
    BY <1>4, NoFailure DEF ExpireTrash, NoFault, LifecycleInv
  <2>2. ~ Touched(k)
    BY <2>1 DEF QuietName, Touched, LifecycleInv, NamesInv
  <2>3. Alive(k, {"trash"}, {}) /\ Unrecorded(k)
    <3>1. Tidy(k) BY <1>2, <1>4, <2>2 DEF StageInv
    <3> QED BY <1>1, <3>1 DEF Tidy, Version, Alive, Dead, Lies, Places
  <2>4. Only(k) /\ Dead(k)'
    BY <1>1, <1>3, <2>3, PairDestroyed DEF Places
  <2>5. Tidy(k)' BY <1>1, <2>3, <2>4 DEF Tidy, Unrecorded
  <2>6. Aside({k}) BY <1>1, <2>2, <2>4, <2>5, Elsewhere DEF Aside
  <2> QED BY <1>1, <1>4, <2>6, AsideSteady DEF NoFault
<1>5. CASE ~ (NoFault /\ Spared(FileName[k]))
  <2> DEFINE f == FileName[k]
  <2>1. faults' = faults \/ faults' = Append(faults, f)
    BY DEF ExpireTrash, NoFault, Fault
  <2>2. f \in Files BY NamesAssumption
  <2> HIDE DEF f
  <2>3. ~ Spared(f)' /\ \A g \in Files : Spared(g)' => Spared(g)
    <3>1. faults' # faults \/ ~ Spared(f) BY <1>5 DEF f, NoFault
    <3>2. TypeOK BY DEF LifecycleInv
    <3> QED BY <2>1, <2>2, <3>1, <3>2, HurtSpared
  <2>4. Only(k)
    <3>1. "trash" \in Places /\ Shrinks("trash", k) BY <1>1 DEF Shrinks, Places
    <3>2. \A r : r.key # k => (r \in records' <=> r \in records) BY <1>1
    <3>3. \A j : j # k => (j \in destroyed' <=> j \in destroyed) BY <1>3
    <3> QED BY <3>1, <3>2, <3>3 DEF Only
  <2>5. \A j \in Keys : FileName[j] # f => SameKey(j) BY <2>4, Elsewhere DEF f
  <2> QED BY <1>1, <2>2, <2>3, <2>5, HurtFrame
<1> QED BY <1>4, <1>5

----------------------------------------------------------------------------
(* The theorems. *)

(* A step of a handler, whether a call fails in it or not.                 *)
LEMMA HandleSteady ==
  ASSUME SerialUse, LifecycleInv, LifecycleInv', BooksInv, BooksInv', HeldInv,
         StageInv, CapInv, NEW p \in Reqs, Handle(p)
  PROVE  StageInv' /\ CapInv'
<1>1. PICK f \in Files : Apart(p, f)
  BY ApartTrash, ApartArchive, ApartVRestore, ApartVDelete DEF Handle
<1>2. /\ \A g \in Files : Spared(g)' => Spared(g)
      /\ faults' # faults \/ ~ Spared(f) => ~ Spared(f)'
  BY <1>1, HurtSpared DEF Apart, LifecycleInv
<1>3. CASE ~ Spared(f)'
  <2>1. ASSUME NEW q \in Reqs
        PROVE  \/ req'[q] = req[q]
               \/ /\ Busy(q) => FileName[req[q].key] = f
                  /\ Busy(q)' => FileName[req'[q].key] = f
    BY <1>1 DEF Apart
  <2> QED BY <1>1, <1>2, <1>3, <2>1, HurtFrame DEF Apart
<1>4. CASE Spared(f)'
  <2>1. Spared(f) /\ faults' = faults BY <1>2, <1>4
  <2>2. Before BY <1>1, <2>1 DEF Before, Apart
  <2>3. Calm(p) BY <1>1, <1>4, <2>1, <2>2 DEF Calm, Apart
  <2>4. ~ Abort(p) BY <2>3, CalmStep DEF Abort
  <2> QED BY <2>3, <2>4, DeleteSteady, RestoreSteady, ArchiveSteady,
             VRestoreSteady, VDeleteSteady DEF Handle
<1> QED BY <1>3, <1>4

(* SerialInv is inductive.                                                 *)
LEMMA SerialNext ==
  ASSUME Serial, SerialInv, [Next]_vars
  PROVE  SerialInv'
<1>1. LifecycleInv' BY NextInv DEF Serial, SerialInv
<1>2. BooksInv' BY BooksNext DEF SerialInv
<1>3. HeldInv' BY HeldNext DEF SerialInv
<1>4. StageInv' /\ CapInv'
  <2>1. CASE UNCHANGED vars
    <3>1. UNCHANGED <<objects, records, destroyed, req, uploaded, faults>>
      BY <2>1 DEF vars
    <3>2. Aside({}) BY <3>1, AllSame DEF Aside
    <3> QED BY <1>1, <1>2, <3>1, <3>2, AsideSteady DEF SerialInv
  <2>2. ASSUME NEW k \in Keys, Upload(k) \/ ExpireTrash(k)
        PROVE  StageInv' /\ CapInv'
    BY <1>1, <1>2, <2>2, UploadSteady, ExpireSteady DEF SerialInv
  <2>3. ASSUME NEW p \in Reqs, Handle(p) PROVE StageInv' /\ CapInv'
    BY <1>1, <1>2, <2>3, HandleSteady DEF Serial, SerialInv
  <2> QED BY <2>1, <2>2, <2>3 DEF Next
<1> QED BY <1>1, <1>2, <1>3, <1>4 DEF SerialInv

(* SerialInv holds at the start.                                           *)
LEMMA SerialInit == Init => SerialInv
<1> SUFFICES ASSUME Init PROVE SerialInv
  OBVIOUS
<1>1. LifecycleInv BY InitInv
<1>2. BooksInv BY FS_EmptySet DEF Init, BooksInv
<1>3. StageInv BY DEF Init, StageInv, Stage, Idle
<1>4. CapInv
  <2>1. \A f : Named(f) = {} BY DEF Init, Named
  <2>2. Cardinality({}) = 0 BY FS_EmptySet
  <2> QED BY <2>1, <2>2, NumbersAssumption DEF CapInv
<1>5. HeldInv BY DEF Init, HeldInv, Holding, Idle
<1> QED BY <1>1, <1>2, <1>3, <1>4, <1>5 DEF SerialInv

(* The invariant holds of every behaviour in which requests for one name   *)
(* come one after the other, whatever fails (but the unchecked copy).      *)
THEOREM SerialInvariant ==
  ASSUME Serial
  PROVE  Spec => []SerialInv
<1>1. SerialInv /\ [Next]_vars => SerialInv' BY SerialNext
<1> QED BY <1>1, SerialInit, PTL DEF Spec

(* Nobody has a file in hand whose name is settled.                        *)
LEMMA QuietTidy ==
  ASSUME SerialInv, NEW k \in uploaded, Settled(FileName[k])
  PROVE  Tidy(k)
<1>1. ~ Touched(k)
  BY DEF Settled, QuietName, Touched, SerialInv, LifecycleInv, NamesInv
<1> QED BY <1>1 DEF SerialInv, StageInv, Settled

(* A file that nobody works on, and for whose name no call has failed, is  *)
(* in one place, data and sidecar together, or destroyed and nowhere;      *)
(* whatever has failed for other names.                                    *)
THEOREM OneHome ==
  ASSUME Serial
  PROVE  Spec => []SingleHome
<1>1. ASSUME SerialInv PROVE SingleHome
  <2> SUFFICES ASSUME NEW k \in uploaded, Settled(FileName[k])
               PROVE  IF k \in destroyed
                      THEN \A pl \in Places, part \in Parts : <<pl, k, part>> \notin objects
                      ELSE \E place \in Places : HomeAt(place, k)
    BY DEF SingleHome
  <2>1. Tidy(k) BY <1>1, QuietTidy
  <2>2. ASSUME NEW place \in Places, Alive(k, {place}, {})
        PROVE  HomeAt(place, k) /\ k \notin destroyed
    BY <2>2 DEF Alive, Lies, HomeAt, Data, Info, Parts
  <2>3. CASE Dead(k)
    BY <2>3 DEF Dead, Lies, Data, Info, Parts
  <2>4. CASE \E place \in {"active", "trash"} : Alive(k, {place}, {})
    BY <2>2, <2>4 DEF Places
  <2>5. CASE \E r \in records : Version(k, r.id)
    BY <2>2, <2>5 DEF Places, Version
  <2> QED BY <2>1, <2>3, <2>4, <2>5 DEF Tidy
<1> QED BY <1>1, SerialInvariant, PTL

(* A file that nobody works on, and for whose name no call has failed, has *)
(* version data exactly when it has a record, one, under its name.         *)
THEOREM RecordsMatch ==
  ASSUME Serial
  PROVE  Spec => []VersionsMatch
<1>1. ASSUME SerialInv PROVE VersionsMatch
  <2> SUFFICES ASSUME NEW k \in uploaded, Settled(FileName[k])
               PROVE  LET Of == {r \in records : r.key = k} IN
                      IF Data("versions", k)
                      THEN \E r \in Of : Of = {r} /\ r.name = FileName[k]
                      ELSE Of = {}
    BY DEF VersionsMatch
  <2>1. Tidy(k) BY <1>1, QuietTidy
  <2>2. CASE Unrecorded(k) /\ ~ Data("versions", k)
    BY <2>2 DEF Unrecorded
  <2>3. CASE \E r \in records : Version(k, r.id)
    <3>1. PICK r \in records : Version(k, r.id) BY <2>3
    <3>2. Data("versions", k) BY <3>1 DEF Version, Alive, Lies, Places
    <3>3. r.key = k /\ r.name = FileName[k]
          /\ \A s \in records : s.key = k => s = r
      BY <1>1, <3>1 DEF Version, RecordIs, SerialInv, BooksInv
    <3> QED BY <3>2, <3>3
  <2>4. CASE Dead(k) /\ Unrecorded(k)
    BY <2>2, <2>4 DEF Dead, Lies, Places
  <2>5. CASE \E place \in {"active", "trash"} : Alive(k, {place}, {}) /\ Unrecorded(k)
    BY <2>2, <2>5 DEF Alive, Lies, Places
  <2> QED BY <2>1, <2>3, <2>4, <2>5 DEF Tidy
<1> QED BY <1>1, SerialInvariant, PTL

(* The cap is kept: a name for which no call has failed has no more than   *)
(* MaxFileVersions records between requests.                               *)
THEOREM CapHolds ==
  ASSUME Serial
  PROVE  Spec => []VersionCap
<1>1. ASSUME SerialInv PROVE VersionCap
  <2> SUFFICES ASSUME MaxFileVersions > 0, NEW f \in Files, Settled(f)
               PROVE  Cardinality(Named(f)) <= MaxFileVersions
    BY DEF VersionCap
  <2>1. ~ \E p \in Reqs : Adding(p) /\ FileName[req[p].key] = f
    BY DEF Settled, QuietName, Adding, Busy
  <2>2. Cardinality(Named(f)) <= MaxFileVersions + 0
    BY <1>1, <2>1 DEF SerialInv, CapInv, Settled
  <2> QED BY <2>2, NumbersAssumption
<1> QED BY <1>1, SerialInvariant, PTL

(* The version that an archive evicts is not the one it has just made,     *)
(* unless a call has failed for that name.                                 *)
THEOREM OlderEvicted ==
  ASSUME Serial
  PROVE  Spec => []EvictsAnother
<1>1. ASSUME SerialInv PROVE EvictsAnother
  BY <1>1 DEF SerialInv, StageInv, EvictsAnother, At, Busy, Stage, ArchiveStage
<1> QED BY <1>1, SerialInvariant, PTL
=============================================================================
