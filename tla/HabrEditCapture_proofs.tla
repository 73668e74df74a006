------------------------ MODULE HabrEditCapture_proofs ------------------------
(***************************************************************************)
(* Proofs about HabrEditCapture, for every set of passes, articles and     *)
(* folders, and whether or not the concurrency group holds.                *)
(*                                                                         *)
(* The inductive invariant says of every checkout what the theorems say of *)
(* the branch, and that a checkout only adds to the branch it was made     *)
(* from: a push that is not rejected then moves both onto the branch.      *)
(***************************************************************************)
EXTENDS HabrEditCapture, TLAPS

(* No text is older than the time it is filed under. *)
Fresh(records) ==
  \A i \in DOMAIN records : records[i].text >= records[i].final_modified_time

(* A checkout is the branch it was made from and then new records. *)
CheckoutInv ==
  \A p \in Passes :
    /\ NoDuplicates(checkout[p])
    /\ Fresh(checkout[p])
    /\ IsPrefixOf(base[p], checkout[p])

(* A listing is of an earlier state of the folder, and a pair had a final. *)
ListingInv ==
  \A p \in Passes :
    /\ \A article \in Articles : listed[p][article] <= final[article]
    /\ \A article \in pairs[p] : listed[p][article] > 0

CaptureInv ==
  TypeOK /\ OneRecordPerState /\ TextNotStale /\ CheckoutInv /\ ListingInv

-----------------------------------------------------------------------------
LEMMA TimesAreNaturals == Times \subseteq Nat
BY CaptureAssumption DEF CaptureAssumption, Times

(* Appending a record whose key is not there keeps the keys apart. *)
LEMMA AppendKeepsApart ==
  ASSUME NEW records \in Seq(Record), NEW record \in Record,
         NoDuplicates(records), ~Captured(records, record)
  PROVE  NoDuplicates(Append(records, record))
<1> DEFINE more == Append(records, record)
<1>1. /\ Len(more) = Len(records) + 1
      /\ DOMAIN more = 1 .. Len(records) + 1
      /\ \A i \in 1 .. Len(records) : more[i] = records[i]
      /\ more[Len(records) + 1] = record
      /\ DOMAIN records = 1 .. Len(records)
      /\ Len(records) \in Nat
  OBVIOUS
<1> HIDE DEF more
<1>2. SUFFICES ASSUME NEW i \in DOMAIN more, NEW j \in DOMAIN more, i # j,
                      more[i].article = more[j].article,
                      more[i].final_modified_time = more[j].final_modified_time
               PROVE  FALSE
  BY DEF NoDuplicates, more
<1>3. CASE i \in DOMAIN records /\ j \in DOMAIN records
  BY <1>1, <1>2, <1>3 DEF NoDuplicates
<1>4. CASE i \notin DOMAIN records
  <2>1. i = Len(records) + 1 /\ j \in DOMAIN records
    BY <1>1, <1>2, <1>4
  <2>2. more[i] = record /\ more[j] = records[j]
    BY <1>1, <2>1
  <2> QED  BY <1>2, <2>1, <2>2 DEF Captured
<1>5. CASE j \notin DOMAIN records
  <2>1. j = Len(records) + 1 /\ i \in DOMAIN records
    BY <1>1, <1>2, <1>5
  <2>2. more[j] = record /\ more[i] = records[i]
    BY <1>1, <2>1
  <2> QED  BY <1>2, <2>1, <2>2 DEF Captured
<1> QED  BY <1>3, <1>4, <1>5

LEMMA AppendKeepsFresh ==
  ASSUME NEW records \in Seq(Record), NEW record \in Record,
         Fresh(records), record.text >= record.final_modified_time
  PROVE  Fresh(Append(records, record))
<1>1. /\ DOMAIN Append(records, record) = 1 .. Len(records) + 1
      /\ \A i \in 1 .. Len(records) : Append(records, record)[i] = records[i]
      /\ Append(records, record)[Len(records) + 1] = record
      /\ DOMAIN records = 1 .. Len(records)
      /\ Len(records) \in Nat
  OBVIOUS
<1> QED  BY <1>1 DEF Fresh

LEMMA AppendExtends ==
  ASSUME NEW older \in Seq(Record), NEW records \in Seq(Record), NEW record \in Record,
         IsPrefixOf(older, records)
  PROVE  IsPrefixOf(older, Append(records, record))
<1>1. /\ Len(Append(records, record)) = Len(records) + 1
      /\ \A i \in 1 .. Len(records) : Append(records, record)[i] = records[i]
      /\ DOMAIN older = 1 .. Len(older)
      /\ Len(older) \in Nat /\ Len(records) \in Nat
  OBVIOUS
<1> QED  BY <1>1 DEF IsPrefixOf

LEMMA PrefixIsReflexive ==
  ASSUME NEW records \in Seq(Record)
  PROVE  IsPrefixOf(records, records)
<1>1. Len(records) \in Nat  OBVIOUS
<1> QED  BY <1>1 DEF IsPrefixOf

LEMMA EmptyIsFine ==
  /\ <<>> \in Seq(Record) /\ NoDuplicates(<<>>) /\ Fresh(<<>>)
  /\ IsPrefixOf(<<>>, <<>>)
BY DEF NoDuplicates, Fresh, IsPrefixOf

-----------------------------------------------------------------------------
(* What a pass's record is made of. *)
LEMMA RecordIsTyped ==
  ASSUME CaptureInv, NEW p \in Passes, NEW article \in pairs[p]
  PROVE  /\ BuildRecord(p, article) \in Record
         /\ BuildRecord(p, article).text >= BuildRecord(p, article).final_modified_time
<1>1. article \in Articles  BY DEF CaptureInv, TypeOK
<1>2. listed[p][article] \in Times /\ final[article] \in Times
  BY <1>1 DEF CaptureInv, TypeOK
<1>3. listed[p][article] \in Nat /\ final[article] \in Nat
  BY <1>2, TimesAreNaturals
<1>4. listed[p][article] > 0 /\ listed[p][article] <= final[article]
  BY <1>1 DEF CaptureInv, ListingInv
<1> QED  BY <1>1, <1>2, <1>3, <1>4 DEF BuildRecord, Record

(* A pass that ends forgets its checkout, and leaves the rest alone. *)
LEMMA DiscardKeepsInv ==
  ASSUME CaptureInv, NEW p \in Passes, Discard(p), UNCHANGED drive,
         faults' \in 0 .. MaxFaults,
         branch' \in Seq(Record), OneRecordPerState', TextNotStale'
  PROVE  CaptureInv'
<1> USE DEF CaptureInv, TypeOK, drive
<1>1. 0 \in Times \/ Articles = {}
  BY CaptureAssumption DEF CaptureAssumption, Times
<1>2. TypeOK'
  <2>1. [article \in Articles |-> 0] \in [Articles -> Times]
    BY <1>1
  <2> QED  BY <2>1, EmptyIsFine DEF Discard, Stages
<1>3. CheckoutInv'
  BY EmptyIsFine DEF Discard, CheckoutInv
<1>4. ListingInv'
  <2>1. \A article \in Articles : final[article] \in Nat
    BY TimesAreNaturals
  <2> QED  BY <2>1 DEF Discard, ListingInv
<1> QED  BY <1>2, <1>3, <1>4

LEMMA InitInv == Init => CaptureInv
<1> SUFFICES ASSUME Init PROVE CaptureInv  OBVIOUS
<1> USE DEF Init
<1>1. 0 \in Times \/ Articles = {}
  BY CaptureAssumption DEF CaptureAssumption, Times
<1>2. [article \in Articles |-> 0] \in [Articles -> Times]
  BY <1>1
<1>3. TypeOK
  BY <1>2, EmptyIsFine, CaptureAssumption DEF TypeOK, Stages, CaptureAssumption
<1>4. OneRecordPerState /\ TextNotStale /\ CheckoutInv /\ ListingInv
  BY EmptyIsFine
  DEF OneRecordPerState, TextNotStale, CheckoutInv, ListingInv, NoDuplicates
<1> QED  BY <1>3, <1>4 DEF CaptureInv

LEMMA StepInv == CaptureInv /\ [Next]_vars => CaptureInv'
<1> SUFFICES ASSUME CaptureInv, [Next]_vars PROVE CaptureInv'  OBVIOUS
<1> USE DEF drive, walk
<1>t. TypeOK /\ OneRecordPerState /\ TextNotStale /\ CheckoutInv /\ ListingInv
  BY DEF CaptureInv
<1>1. ASSUME NEW article \in Articles, DraftAdded(article) PROVE CaptureInv'
  BY <1>t, <1>1 DEF CaptureInv, DraftAdded, TypeOK, OneRecordPerState, TextNotStale,
                    CheckoutInv, ListingInv, Record, Times
<1>2. ASSUME NEW article \in Articles, FinalEdited(article) PROVE CaptureInv'
  <2>1. MaxEdits[article] \in Nat /\ \A other \in Articles : final[other] \in Nat
    BY <1>t, CaptureAssumption, TimesAreNaturals DEF CaptureAssumption, TypeOK
  <2>2. final[article] + 1 \in Times
    BY <1>2, <2>1 DEF FinalEdited, Times
  <2>3. TypeOK'
    BY <1>t, <1>2, <2>2 DEF FinalEdited, TypeOK, Record, Times
  <2>4. OneRecordPerState' /\ TextNotStale' /\ CheckoutInv'
    BY <1>t, <1>2 DEF FinalEdited, OneRecordPerState, TextNotStale, CheckoutInv
  <2>5. ListingInv'
    <3>1. \A p \in Passes, other \in Articles : listed[p][other] \in Nat
      BY <1>t, TimesAreNaturals DEF TypeOK
    <3> QED  BY <1>t, <1>2, <2>1, <3>1 DEF FinalEdited, ListingInv, TypeOK
  <2> QED  BY <2>3, <2>4, <2>5 DEF CaptureInv
<1>3. ASSUME NEW p \in Passes, Start(p) PROVE CaptureInv'
  <2>1. TypeOK'
    BY <1>t, <1>3 DEF Start, TypeOK, Stages, Record, Times
  <2>2. OneRecordPerState' /\ TextNotStale' /\ ListingInv'
    BY <1>t, <1>3 DEF Start, OneRecordPerState, TextNotStale, ListingInv
  <2>3. CheckoutInv'
    <3>1. IsPrefixOf(branch, branch)
      BY <1>t, PrefixIsReflexive DEF TypeOK
    <3>2. NoDuplicates(branch) /\ Fresh(branch)
      BY <1>t DEF OneRecordPerState, TextNotStale, Fresh
    <3> QED  BY <1>t, <1>3, <3>1, <3>2 DEF Start, CheckoutInv, TypeOK
  <2> QED  BY <2>1, <2>2, <2>3 DEF CaptureInv
<1>4. ASSUME NEW p \in Passes, ListFiles(p) PROVE CaptureInv'
  <2>1. PICK folder \in folders[p] :
          /\ folders' = [folders EXCEPT ![p] = @ \ {folder}]
          /\ pairs' = [pairs EXCEPT ![p] = Paired(folder)]
          /\ listed' = [listed EXCEPT ![p] = final]
    BY <1>4 DEF ListFiles
  <2>2. Paired(folder) \subseteq Articles  BY DEF Paired
  <2>3. TypeOK'
    BY <1>t, <1>4, <2>1, <2>2 DEF ListFiles, TypeOK, Record, Times
  <2>4. OneRecordPerState' /\ TextNotStale' /\ CheckoutInv'
    BY <1>t, <1>4 DEF ListFiles, OneRecordPerState, TextNotStale, CheckoutInv
  <2>5. ListingInv'
    <3>1. \A article \in Articles : final[article] \in Nat
      BY <1>t, TimesAreNaturals DEF TypeOK
    <3>2. final' = final  BY <1>4 DEF ListFiles
    <3>3. ASSUME NEW q \in Passes
          PROVE  /\ \A article \in Articles : listed'[q][article] <= final'[article]
                 /\ \A article \in pairs'[q] : listed'[q][article] > 0
      <4>1. CASE q = p
        BY <1>t, <2>1, <3>1, <3>2, <4>1 DEF Paired, TypeOK
      <4>2. CASE q # p
        BY <1>t, <2>1, <3>2, <4>2 DEF ListingInv, TypeOK
      <4> QED  BY <4>1, <4>2
    <3> QED  BY <3>3 DEF ListingInv
  <2> QED  BY <2>3, <2>4, <2>5 DEF CaptureInv
<1>5. ASSUME NEW p \in Passes, NEW article \in Articles, Capture(p, article)
      PROVE  CaptureInv'
  <2> DEFINE record == BuildRecord(p, article)
  <2>1. article \in pairs[p]  BY <1>5 DEF Capture
  <2>2. record \in Record /\ record.text >= record.final_modified_time
    BY <2>1, RecordIsTyped
  <2>3. \/ checkout' = checkout
        \/ /\ ~Captured(checkout[p], record)
           /\ checkout' = [checkout EXCEPT ![p] = Append(@, record)]
    BY <1>5 DEF Capture
  <2> HIDE DEF record
  <2>4. TypeOK'
    <3>1. checkout' \in [Passes -> Seq(Record)]
      <4>1. checkout \in [Passes -> Seq(Record)]
        BY <1>t DEF TypeOK
      <4>2. Append(checkout[p], record) \in Seq(Record)
        BY <2>2, <4>1
      <4> QED  BY <2>3, <4>1, <4>2
    <3> QED  BY <1>t, <1>5, <3>1 DEF Capture, TypeOK, Record, Times
  <2>5. OneRecordPerState' /\ TextNotStale' /\ ListingInv'
    BY <1>t, <1>5 DEF Capture, OneRecordPerState, TextNotStale, ListingInv, TypeOK
  <2>6. CheckoutInv'
    <3>1. CASE checkout' = checkout
      BY <1>t, <1>5, <3>1 DEF Capture, CheckoutInv
    <3>2. CASE /\ ~Captured(checkout[p], record)
               /\ checkout' = [checkout EXCEPT ![p] = Append(@, record)]
      <4>1. /\ checkout[p] \in Seq(Record) /\ base[p] \in Seq(Record)
            /\ NoDuplicates(checkout[p]) /\ Fresh(checkout[p])
            /\ IsPrefixOf(base[p], checkout[p])
        BY <1>t DEF TypeOK, CheckoutInv
      <4>2. /\ NoDuplicates(Append(checkout[p], record))
            /\ Fresh(Append(checkout[p], record))
            /\ IsPrefixOf(base[p], Append(checkout[p], record))
        BY <2>2, <3>2, <4>1, AppendKeepsApart, AppendKeepsFresh, AppendExtends
      <4>3. base' = base  BY <1>5 DEF Capture
      <4> QED  BY <1>t, <3>2, <4>2, <4>3 DEF CheckoutInv, TypeOK
    <3> QED  BY <2>3, <3>1, <3>2
  <2> QED  BY <2>4, <2>5, <2>6 DEF CaptureInv
<1>6. ASSUME NEW p \in Passes, EndWalk(p) PROVE CaptureInv'
  BY <1>t, <1>6 DEF CaptureInv, EndWalk, TypeOK, Stages, OneRecordPerState,
                    TextNotStale, CheckoutInv, ListingInv, Record, Times
<1>7. ASSUME NEW p \in Passes, Push(p) PROVE CaptureInv'
  <2>1. branch' = checkout[p] \/ branch' = branch
    BY <1>7 DEF Push
  <2>2. branch' \in Seq(Record) /\ OneRecordPerState' /\ TextNotStale'
    BY <1>t, <2>1 DEF TypeOK, OneRecordPerState, TextNotStale, CheckoutInv, Fresh
  <2>3. faults' \in 0 .. MaxFaults
    BY <1>t, <1>7 DEF Push, TypeOK
  <2> QED  BY <1>7, <2>2, <2>3, DiscardKeepsInv DEF Push
<1>8. ASSUME NEW p \in Passes, ExportRaises(p) PROVE CaptureInv'
  <2>1. branch' \in Seq(Record) /\ OneRecordPerState' /\ TextNotStale'
    BY <1>t, <1>8 DEF ExportRaises, TypeOK, OneRecordPerState, TextNotStale
  <2>2. faults' \in 0 .. MaxFaults
    BY <1>t, <1>8 DEF ExportRaises, TypeOK
  <2> QED  BY <1>8, <2>1, <2>2, DiscardKeepsInv DEF ExportRaises
<1>9. ASSUME NEW p \in Passes, Fault(p) PROVE CaptureInv'
  <2>1. branch' \in Seq(Record) /\ OneRecordPerState' /\ TextNotStale'
    BY <1>t, <1>9 DEF Fault, TypeOK, OneRecordPerState, TextNotStale
  <2>2. faults' \in 0 .. MaxFaults
    BY <1>t, <1>9, CaptureAssumption DEF Fault, TypeOK, CaptureAssumption
  <2> QED  BY <1>9, <2>1, <2>2, DiscardKeepsInv DEF Fault
<1>10. CASE UNCHANGED vars
  BY <1>t, <1>10 DEF CaptureInv, vars, TypeOK, OneRecordPerState, TextNotStale,
                     CheckoutInv, ListingInv, Record, Times
<1> QED  BY <1>1, <1>2, <1>3, <1>4, <1>5, <1>6, <1>7, <1>8, <1>9, <1>10 DEF Next, Pass

(* Every reachable state satisfies the invariant. *)
THEOREM Invariance == Spec => []CaptureInv
<1>1. Init => CaptureInv  BY InitInv
<1>2. CaptureInv /\ [Next]_vars => CaptureInv'  BY StepInv
<1> QED  BY <1>1, <1>2, PTL DEF Spec

(* Every reachable state is well typed. *)
THEOREM TypeCorrect == Spec => []TypeOK
<1>1. CaptureInv => TypeOK  BY DEF CaptureInv
<1> QED  BY <1>1, Invariance, PTL

(* No state of a final is recorded twice on the branch (write_capture's    *)
(* idempotency), with or without the concurrency group.                    *)
THEOREM NeverRecordedTwice == Spec => []OneRecordPerState
<1>1. CaptureInv => OneRecordPerState  BY DEF CaptureInv
<1> QED  BY <1>1, Invariance, PTL

(* No record on the branch holds a text older than the state it is filed   *)
(* under (_build_record exports after the listing).                        *)
THEOREM TextIsNeverStale == Spec => []TextNotStale
<1>1. CaptureInv => TextNotStale  BY DEF CaptureInv
<1> QED  BY <1>1, Invariance, PTL

(* No push removes or changes a record of the branch, with or without the  *)
(* concurrency group: a push is rejected unless it adds to what it was     *)
(* checked out from.                                                       *)
THEOREM BranchIsAppendOnly == Spec => AppendOnly
<1>1. CaptureInv /\ [Next]_vars => [IsPrefixOf(branch, branch')]_vars
  <2> SUFFICES ASSUME CaptureInv, Next PROVE IsPrefixOf(branch, branch')
    OBVIOUS
  <2>1. branch \in Seq(Record)  BY DEF CaptureInv, TypeOK
  <2>2. ASSUME NEW p \in Passes, Push(p) PROVE IsPrefixOf(branch, branch')
    <3>1. CASE FastForward(p)
      BY <2>2, <3>1 DEF Push, FastForward, CaptureInv, CheckoutInv
    <3>2. CASE ~FastForward(p)
      BY <2>1, <2>2, <3>2, PrefixIsReflexive DEF Push
    <3> QED  BY <3>1, <3>2
  <2>3. CASE branch' = branch
    BY <2>1, <2>3, PrefixIsReflexive
  <2> QED
    BY <2>2, <2>3 DEF Next, Pass, DraftAdded, FinalEdited, Start, ListFiles, Capture,
                      EndWalk, ExportRaises, Fault
<1> QED  BY <1>1, Invariance, PTL DEF Spec, AppendOnly

==============================================================================
