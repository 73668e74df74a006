------------------------- MODULE DailyPublish_proofs -------------------------
(***************************************************************************)
(* Theorems about DailyPublish, for every set of runs, dates, briefs,      *)
(* answers and faults.                                                     *)
(***************************************************************************)
EXTENDS DailyPublish, SequenceTheorems, WellFoundedInduction, TLAPS

-----------------------------------------------------------------------------
(* What the operators return.                                              *)

(* The Collector adapter builds a sequence of units from a brief. *)
LEMMA AdaptType ==
  ASSUME NEW brief \in Brief, NEW token \in BOOLEAN,
         NEW answers \in [Repos -> Answer], NEW status \in CorroborationStatuses
  PROVE  AdaptDailyBrief(brief, token, answers, status) \in Seq(Unit)
<1> DEFINE s == brief.per_repo
<1>1. s \in Seq(Entry)
  BY DEF Brief
<1>2. ASSUME NEW i \in DOMAIN s
      PROVE  AdaptDailyBrief(brief, token, answers, status)[i] \in Unit
  <2>1. s[i] \in Entry
    BY <1>1, <1>2
  <2>2. CheckIntegrity(s[i], token, answers[s[i].repo]) \in {"valid", "invalid"}
    BY DEF CheckIntegrity
  <2>3. MessagesByRepo(brief, s[i].repo) \in SUBSET Message
    BY DEF MessagesByRepo, Brief
  <2> QED
    BY <2>1, <2>2, <2>3 DEF AdaptDailyBrief, Unit, Entry
<1> DEFINE f == AdaptDailyBrief(brief, token, answers, status)
<1>3. DOMAIN s = 1 .. Len(s) /\ Len(s) \in Nat
  BY <1>1
<1>4. f = [i \in DOMAIN s |-> f[i]]
  BY DEF AdaptDailyBrief
<1>5. \A i \in DOMAIN s : f[i] \in Unit
  BY <1>2
<1> HIDE DEF f, s
<1>6. f \in Seq(Unit)
  BY <1>3, <1>4, <1>5
<1> QED
  BY <1>6 DEF f

(* Reading a file back and the records the run builds stay within File. *)
LEMMA FileType ==
  /\ R!Absent \in R!File
  /\ R!Unreadable \in R!File
  /\ \A r \in Runs, c \in Repos : R!PassRecord(r, c) \in R!File
  /\ \A c \in Repos, b \in BlockReason : R!BlockRecord(c, b) \in R!File
  /\ \A f \in R!File : R!InterruptedWrites(f) \subseteq R!File
BY DEF R!File, R!Record, R!Absent, R!Unreadable, R!PassRecord, R!BlockRecord,
       R!InterruptedWrites

(* A non-empty set of positions has a first one. *)
LEMMA FirstExists ==
  ASSUME NEW P \in SUBSET Nat, P # {}
  PROVE  \E i \in P : \A j \in P : i <= j
<1>1. PICK i \in P : \A j \in P : ~ (<<j, i>> \in OpToRel(<, Nat))
  BY WFMin, NatLessThanWellFounded
<1>2. \A j \in P : ~ (j < i)
  BY <1>1 DEF OpToRel
<1> QED
  BY <1>2

LEMMA FirstClaimType ==
  ASSUME NEW us \in Seq(Unit), NEW P \in SUBSET DOMAIN us, P # {}
  PROVE  FirstClaim(us, P) \in Repos
<1>1. P \in SUBSET Nat
  OBVIOUS
<1>2. \E i \in P : \A j \in P : i <= j
  BY <1>1, FirstExists
<1>3. FirstPosition(us, P) \in P
  BY <1>2 DEF FirstPosition
<1>4. us[FirstPosition(us, P)] \in Unit
  BY <1>3
<1> QED
  BY <1>4 DEF FirstClaim, Unit

LEMMA BlockRecordOfType ==
  ASSUME NEW us \in Seq(Unit), us # <<>>
  PROVE  BlockRecordOf(us) \in R!File
<1>1. us[1] \in Unit /\ Len(us) \in Nat
  OBVIOUS
<1>2. [count |-> Len(us), first |-> us[1].corroboration] \in BlockReason
  BY <1>1 DEF BlockReason, Unit
<1>3. us[1].repo \in Repos
  BY <1>1 DEF Unit
<1> QED
  BY <1>2, <1>3, FileType DEF BlockRecordOf

(* The recent posts stay a sequence of posts, within the limit. *)
LEMMA LastPostsType ==
  ASSUME NEW posts \in Seq(Runs)
  PROVE  LastPosts(posts) \in Seq(Runs) /\ Len(LastPosts(posts)) <= RECENT_POSTS_LIMIT
<1>1. RECENT_POSTS_LIMIT \in Nat \ {0} /\ Len(posts) \in Nat
  BY PublishAssumption
<1>2. CASE Len(posts) <= RECENT_POSTS_LIMIT
  BY <1>2 DEF LastPosts
<1>3. CASE ~(Len(posts) <= RECENT_POSTS_LIMIT)
  <2> DEFINE m == Len(posts) - RECENT_POSTS_LIMIT + 1
  <2>1. m \in Int /\ Len(posts) \in Int /\ m >= 1 /\ m <= Len(posts)
    BY <1>1, <1>3
  <2>2. \A i \in m .. Len(posts) : posts[i] \in Runs
    BY <2>1
  <2>3. SubSeq(posts, m, Len(posts)) \in Seq(Runs)
        /\ Len(SubSeq(posts, m, Len(posts))) = Len(posts) - m + 1
    BY <2>1, <2>2, SubSeqProperties
  <2> QED
    BY <1>1, <1>3, <2>3 DEF LastPosts
<1> QED
  BY <1>2, <1>3

-----------------------------------------------------------------------------
(* Type correctness.                                                       *)

(* Every reachable state of the publish workflow is well typed. *)
LEMMA InitTypeOK == Init => TypeOK
<1> SUFFICES ASSUME Init PROVE TypeOK
  OBVIOUS
<1>1. registry \in [Dates -> R!File]
  BY PublishAssumption DEF Init
<1>2. local \in [Runs -> [Dates -> R!File]]
  BY FileType DEF Init
<1>3. NoPosts \in RecentFile
  BY DEF NoPosts, RecentFile
<1> QED
  BY <1>1, <1>2, <1>3 DEF Init, TypeOK, Stages

(* The part of TypeOK that a run's own control and memory make up. *)
ControlOK ==
  /\ stage \in [Runs -> Stages]
  /\ units \in [Runs -> Seq(Unit)]
  /\ response \in [Runs -> Responses \cup {NoResponse}]
  /\ appended \in [Runs -> BOOLEAN]
  /\ outcome \in [Runs -> Outcomes \cup {"none"}]

LEMMA ControlOfType == TypeOK => ControlOK
BY DEF TypeOK, ControlOK

LEMMA OutcomeNames ==
  /\ Outcomes = {"PUBLISHED", "SKIPPED_NO_ELIGIBLE_CONTENT", "SKIPPED_SAFETY_PAUSE",
                 "SKIPPED_ALREADY_PUBLISHED", "SKIPPED_AUTOMATION_ONLY",
                 "FAILED_INTEGRITY", "FAILED"}
BY DEF Outcomes, Skipped, Failed

(* A run that resolves leaves well-typed control behind. *)
LEMMA ResolveType ==
  ASSUME ControlOK, NEW r \in Runs, NEW from, NEW o \in Outcomes, Resolve(r, from, o)
  PROVE  ControlOK'
<1>1. "push" \in Stages
  BY DEF Stages
<1>2. stage' \in [Runs -> Stages]
  BY <1>1 DEF ControlOK, Resolve, Advance
<1>3. <<>> \in Seq(Unit)
  OBVIOUS
<1>4. units' \in [Runs -> Seq(Unit)]
  BY <1>3 DEF ControlOK, Resolve
<1>5. response' \in [Runs -> Responses \cup {NoResponse}]
  BY DEF ControlOK, Resolve
<1>6. appended' \in [Runs -> BOOLEAN]
  BY DEF ControlOK, Resolve
<1>7. outcome' \in [Runs -> Outcomes \cup {"none"}]
  BY DEF ControlOK, Resolve
<1> QED
  BY <1>2, <1>4, <1>5, <1>6, <1>7 DEF ControlOK

(* So does one that advances with its memory unchanged. *)
LEMMA AdvanceType ==
  ASSUME ControlOK, NEW r \in Runs, NEW from, NEW to \in Stages, Advance(r, from, to),
         UNCHANGED <<memory, outcome>>
  PROVE  ControlOK'
BY DEF ControlOK, Advance, memory

(* And any step of a run, whatever it does to the files. *)
LEMMA StepControl ==
  ASSUME TypeOK, NEW r \in Runs, Step(r)
  PROVE  ControlOK'
<1>0. ControlOK
  BY ControlOfType
<1>a. Stages = {"idle", "preflight", "adapt", "guard", "gate", "prompt", "model",
           "validate", "publish", "append", "record", "push", "done", "crashed"}
  BY DEF Stages
<1>2. CASE Preflight(r)
  <2>1. \/ Resolve(r, "preflight", "SKIPPED_SAFETY_PAUSE")
        \/ Resolve(r, "preflight", "FAILED")
        \/ Advance(r, "preflight", "adapt") /\ UNCHANGED <<memory, outcome>>
    BY <1>2 DEF Preflight
  <2> QED
    BY <1>0, <1>a, <2>1, OutcomeNames, ResolveType, AdvanceType
<1>3. CASE Adapt(r)
  <2>1. CASE Resolve(r, "adapt", "FAILED")
    BY <1>0, <2>1, OutcomeNames, ResolveType
  <2>2. ASSUME NEW brief \in Briefs, NEW token \in BOOLEAN,
               NEW answers \in [Repos -> Answers], NEW status \in AdapterStatuses,
               units' = [units EXCEPT ![r] =
                           AdaptDailyBrief(brief, token, answers, status)],
               Advance(r, "adapt", "guard"),
               UNCHANGED <<response, appended, outcome>>
        PROVE  ControlOK'
    <3>1. AdaptDailyBrief(brief, token, answers, status) \in Seq(Unit)
      <4>1. brief \in Brief /\ status \in CorroborationStatuses /\ Answers \subseteq Answer
        BY PublishAssumption
      <4>2. answers \in [Repos -> Answer]
        BY <4>1
      <4> QED
        BY <4>1, <4>2, AdaptType
    <3>2. units' \in [Runs -> Seq(Unit)]
      BY <1>0, <2>2, <3>1 DEF ControlOK
    <3>3. stage' \in [Runs -> Stages]
      BY <1>0, <1>a, <2>2 DEF ControlOK, Advance
    <3> QED
      BY <1>0, <2>2, <3>2, <3>3 DEF ControlOK
  <2> QED
    BY <1>3, <2>1, <2>2 DEF Adapt
<1>4. CASE Guard(r)
  <2>1. \/ Resolve(r, "guard", "SKIPPED_ALREADY_PUBLISHED")
        \/ Resolve(r, "guard", "FAILED")
        \/ Advance(r, "guard", "gate") /\ UNCHANGED <<memory, outcome>>
    BY <1>4 DEF Guard
  <2> QED
    BY <1>0, <1>a, <2>1, OutcomeNames, ResolveType, AdvanceType
<1>5. CASE Gate(r)
  <2>1. \/ Resolve(r, "gate", "FAILED_INTEGRITY")
        \/ Resolve(r, "gate", "SKIPPED_NO_ELIGIBLE_CONTENT")
        \/ Resolve(r, "gate", "FAILED")
        \/ Advance(r, "gate", "prompt") /\ UNCHANGED <<memory, outcome>>
    BY <1>5 DEF Gate, WriteBlock
  <2> QED
    BY <1>0, <1>a, <2>1, OutcomeNames, ResolveType, AdvanceType
<1>6. CASE Prompt(r)
  <2>1. \/ Resolve(r, "prompt", "FAILED")
        \/ Advance(r, "prompt", "model") /\ UNCHANGED <<memory, outcome>>
    BY <1>6 DEF Prompt
  <2> QED
    BY <1>0, <1>a, <2>1, OutcomeNames, ResolveType, AdvanceType
<1>7. CASE CallModel(r)
  <2>1. CASE Resolve(r, "model", "FAILED")
    BY <1>0, <2>1, OutcomeNames, ResolveType
  <2>2. ASSUME NEW answer \in Responses, response' = [response EXCEPT ![r] = answer],
               Advance(r, "model", "validate"), UNCHANGED <<units, appended, outcome>>
        PROVE  ControlOK'
    BY <1>0, <1>a, <2>2 DEF ControlOK, Advance
  <2> QED
    BY <1>7, <2>1, <2>2 DEF CallModel
<1>8. CASE Validate(r)
  <2>1. \/ Resolve(r, "validate", "FAILED")
        \/ Resolve(r, "validate", "SKIPPED_AUTOMATION_ONLY")
        \/ Advance(r, "validate", "publish") /\ UNCHANGED <<memory, outcome>>
    BY <1>8 DEF Validate
  <2> QED
    BY <1>0, <1>a, <2>1, OutcomeNames, ResolveType, AdvanceType
<1>9. CASE Publish(r)
  <2>1. \/ Resolve(r, "publish", "FAILED")
        \/ Advance(r, "publish", "append") /\ UNCHANGED <<memory, outcome>>
    BY <1>9 DEF Publish
  <2> QED
    BY <1>0, <1>a, <2>1, OutcomeNames, ResolveType, AdvanceType
<1>10. CASE AppendRecent(r)
  <2>1. Advance(r, "append", "record") /\ UNCHANGED <<units, response, outcome>>
        /\ (appended' = appended \/ appended' = [appended EXCEPT ![r] = TRUE])
    BY <1>10 DEF AppendRecent
  <2>2. stage' \in [Runs -> Stages]
    BY <1>0, <1>a, <2>1 DEF ControlOK, Advance
  <2>3. appended' \in [Runs -> BOOLEAN]
    BY <1>0, <2>1 DEF ControlOK
  <2> QED
    BY <1>0, <2>1, <2>2, <2>3 DEF ControlOK
<1>11. CASE RecordPass(r)
  <2>1. \/ Resolve(r, "record", RecordedOutcome(r))
        \/ Resolve(r, "record", "FAILED")
    BY <1>11 DEF RecordPass
  <2>2. RecordedOutcome(r) \in Outcomes
    BY OutcomeNames DEF RecordedOutcome
  <2> QED
    BY <1>0, <2>1, <2>2, OutcomeNames, ResolveType
<1>12. CASE Push(r)
  BY <1>0, <1>12, <1>a DEF Push, Advance, memory, ControlOK
<1> QED
  BY <1>2, <1>3, <1>4, <1>5, <1>6, <1>7, <1>8, <1>9, <1>10, <1>11, <1>12 DEF Step

(***************************************************************************)
(* What a run writes into its Registry directory at the gate or after its  *)
(* post, and at no other step: its own date's file, which is then what     *)
(* was there, Unreadable, its block record or its pass record.             *)
(***************************************************************************)
LEMMA LocalWrites ==
  ASSUME TypeOK, NEW r \in Runs, Gate(r) \/ RecordPass(r)
  PROVE  \E file \in R!File :
           /\ local' = [local EXCEPT ![r][day[r]] = file]
           /\ local[r][day[r]] # R!Absent => file = local[r][day[r]]
           /\ file.kind = "pass" =>
                file = local[r][day[r]] \/ (file.url = r /\ RecordPass(r))
<1> DEFINE old == local[r][day[r]]
           Wrote(file) ==
             /\ local' = [local EXCEPT ![r][day[r]] = file]
             /\ old # R!Absent => file = old
             /\ file.kind = "pass" => file = old \/ (file.url = r /\ RecordPass(r))
<1>0. /\ day[r] \in Dates /\ old \in R!File
      /\ local = [local EXCEPT ![r][day[r]] = old]
  BY DEF TypeOK
<1>1. ASSUME local' = local PROVE \E file \in R!File : Wrote(file)
  BY <1>0, <1>1
<1>2. ASSUME NEW left \in R!InterruptedWrites(old),
             local' = [local EXCEPT ![r][day[r]] = left]
      PROVE \E file \in R!File : Wrote(file)
  <2>1. left \in R!File
    BY <1>0, FileType
  <2>2. old # R!Absent => left = old
    BY DEF R!InterruptedWrites
  <2>3. left.kind = "pass" => left = old
    BY DEF R!InterruptedWrites, R!Absent, R!Unreadable
  <2> QED
    BY <1>2, <2>1, <2>2, <2>3
<1>3. ASSUME NEW record \in R!File, R!Written(old, record),
             record.kind = "pass" => record.url = r /\ RecordPass(r),
             local' = [local EXCEPT ![r][day[r]] = record]
      PROVE \E file \in R!File : Wrote(file)
  <2>1. old # R!Absent => record = old
    BY <1>3 DEF R!Written, R!WriteResult
  <2> QED
    BY <1>3, <2>1
<1>4. CASE Gate(r)
  <2>1. CASE local' = local
    BY <1>1, <2>1
  <2>2. CASE Gated(units[r]) /\ WriteBlock(r)
    <3> DEFINE record == BlockRecordOf(units[r])
    <3>1. record \in R!File /\ record.kind # "pass"
      <4>1. units[r] \in Seq(Unit) /\ units[r] # <<>>
        BY <2>2 DEF Gated, TypeOK
      <4>2. record.kind = "block"
        BY DEF BlockRecordOf, R!BlockRecord
      <4> QED
        BY <4>1, <4>2, BlockRecordOfType
    <3>2. \/ local' = local
          \/ R!Written(old, record) /\ local' = [local EXCEPT ![r][day[r]] = record]
          \/ \E left \in R!InterruptedWrites(old) :
               local' = [local EXCEPT ![r][day[r]] = left]
      BY <2>2 DEF WriteBlock, ContentId, RegistryFile
    <3>3. CASE local' = local
      BY <1>1, <3>3
    <3>4. CASE R!Written(old, record) /\ local' = [local EXCEPT ![r][day[r]] = record]
      BY <1>3, <3>1, <3>4
    <3>5. ASSUME NEW left \in R!InterruptedWrites(old),
                 local' = [local EXCEPT ![r][day[r]] = left]
          PROVE  \E file \in R!File : Wrote(file)
      BY <1>2, <3>5
    <3> QED
      BY <3>2, <3>3, <3>4, <3>5
  <2> QED
    BY <1>4, <2>1, <2>2 DEF Gate
<1>5. CASE RecordPass(r)
  <2> DEFINE contexts == RunContexts(units[r])
             record == R!PassRecord(r, FirstClaim(units[r], contexts))
  <2>1. contexts \in SUBSET DOMAIN units[r] /\ units[r] \in Seq(Unit)
    BY DEF RunContexts, Contexts, TypeOK
  <2>2. record.kind = "pass" /\ record.url = r
    BY DEF R!PassRecord
  <2>3. contexts # {} => record \in R!File
    <3> SUFFICES ASSUME contexts # {} PROVE record \in R!File
      OBVIOUS
    <3>1. FirstClaim(units[r], contexts) \in Repos
      <4> HIDE DEF contexts
      <4> QED
        BY <2>1, FirstClaimType
    <3> QED
      BY <3>1, FileType
  <2>4. \/ local' = local
        \/ /\ contexts # {} /\ R!Written(old, record)
           /\ local' = [local EXCEPT ![r][day[r]] = record]
        \/ \E left \in R!InterruptedWrites(old) :
             local' = [local EXCEPT ![r][day[r]] = left]
    BY <1>5 DEF RecordPass, ContentId, RegistryFile
  <2>5. CASE local' = local
    BY <1>1, <2>5
  <2>6. CASE /\ contexts # {} /\ R!Written(old, record)
             /\ local' = [local EXCEPT ![r][day[r]] = record]
    <3> HIDE DEF record, contexts
    <3> QED
      BY <1>3, <1>5, <2>2, <2>3, <2>6
  <2>7. ASSUME NEW left \in R!InterruptedWrites(old),
               local' = [local EXCEPT ![r][day[r]] = left]
        PROVE  \E file \in R!File : Wrote(file)
    BY <1>2, <2>7
  <2> QED
    BY <2>4, <2>5, <2>6, <2>7
<1> QED
  BY <1>4, <1>5

(* The files and the counters keep their types. *)
LEMMA NextTypeOK == TypeOK /\ [Next]_vars => TypeOK'
<1> SUFFICES ASSUME TypeOK, [Next]_vars PROVE TypeOK'
  OBVIOUS
<1>0. CASE UNCHANGED vars
  BY <1>0 DEF vars, branch, checkout, disk, memory, TypeOK
<1>a. NoPosts \in RecentFile
  BY DEF NoPosts, RecentFile
<1>1. ASSUME NEW r \in Runs, Checkout(r) PROVE TypeOK'
  BY <1>1 DEF Checkout, Advance, Stages, branch, memory, TypeOK
<1>2. ASSUME NEW r \in Runs, Crash(r) PROVE TypeOK'
  BY <1>2, <1>a, FileType DEF Crash, Discard, Stages, branch, TypeOK
<1>3. ASSUME NEW r \in Runs, Push(r) PROVE TypeOK'
  <2>1. ControlOK'
    BY <1>3, StepControl DEF Step
  <2>2. /\ registry' \in [Dates -> R!File] /\ recent' \in RecentFile /\ head' \in Nat
    BY <1>3 DEF Push, branch, TypeOK
  <2>3. /\ local' \in [Runs -> [Dates -> R!File]]
        /\ localRecent' \in [Runs -> RecentFile] /\ base' \in [Runs -> Nat]
    BY <1>3, <1>a, FileType DEF Push, Discard, TypeOK
  <2> QED
    BY <1>3, <2>1, <2>2, <2>3 DEF Push, ControlOK, TypeOK
<1>4. ASSUME NEW r \in Runs, Gate(r) \/ RecordPass(r) PROVE TypeOK'
  <2>1. ControlOK'
    BY <1>4, StepControl DEF Step
  <2>2. PICK file \in R!File : local' = [local EXCEPT ![r][day[r]] = file]
    BY <1>4, LocalWrites
  <2>3. local' \in [Runs -> [Dates -> R!File]]
    BY <2>2 DEF TypeOK
  <2>4. UNCHANGED <<branch, live, checkout, localRecent>>
    BY <1>4 DEF Gate, RecordPass
  <2> QED
    BY <2>1, <2>3, <2>4 DEF ControlOK, TypeOK, branch, checkout
<1>5. ASSUME NEW r \in Runs, AppendRecent(r) PROVE TypeOK'
  <2>1. ControlOK'
    BY <1>5, StepControl DEF Step
  <2>2. localRecent[r] \in RecentFile /\ CorruptPosts \in RecentFile
    BY DEF RecentFile, CorruptPosts, TypeOK
  <2>3. localRecent[r].posts \in Seq(Runs)
    BY <2>2 DEF RecentFile
  <2>4. Append(localRecent[r].posts, r) \in Seq(Runs)
    BY <2>3
  <2>5. LastPosts(Append(localRecent[r].posts, r)) \in Seq(Runs)
    BY <2>4, LastPostsType
  <2>6. [localRecent[r] EXCEPT !.posts = LastPosts(Append(@, r))] \in RecentFile
    BY <2>2, <2>5 DEF RecentFile
  <2>7. \E new \in RecentFile : localRecent' = [localRecent EXCEPT ![r] = new]
    <3>1. CASE localRecent' = [localRecent EXCEPT ![r].posts = LastPosts(Append(@, r))]
      BY <2>6, <3>1
    <3> QED
      BY <1>5, <2>2, <3>1 DEF AppendRecent
  <2>8. localRecent' \in [Runs -> RecentFile]
    BY <2>7 DEF TypeOK
  <2> QED
    BY <1>5, <2>1, <2>8 DEF AppendRecent, ControlOK, TypeOK, branch, checkout
<1>6. ASSUME NEW r \in Runs, Publish(r) PROVE TypeOK'
  <2>1. ControlOK'
    BY <1>6, StepControl DEF Step
  <2>2. live' \in [Runs -> Nat]
    BY <1>6 DEF Publish, TypeOK
  <2> QED
    BY <1>6, <2>1, <2>2 DEF Publish, ControlOK, TypeOK, branch, checkout, disk
<1>7. ASSUME NEW r \in Runs,
             Preflight(r) \/ Adapt(r) \/ Guard(r) \/ Prompt(r) \/ CallModel(r) \/ Validate(r)
      PROVE TypeOK'
  <2>1. ControlOK'
    BY <1>7, StepControl DEF Step
  <2>2. UNCHANGED <<branch, live, checkout, disk>>
    BY <1>7 DEF Preflight, Adapt, Guard, Prompt, CallModel, Validate
  <2> QED
    BY <2>1, <2>2 DEF ControlOK, TypeOK, branch, checkout, disk
<1> QED
  BY <1>0, <1>1, <1>2, <1>3, <1>4, <1>5, <1>6, <1>7 DEF Next, Step

(***************************************************************************)
(* Every state of the publish workflow is well typed, for every set of     *)
(* runs, briefs, answers and faults.                                       *)
(***************************************************************************)
THEOREM TypeCorrect == Spec => []TypeOK
BY InitTypeOK, NextTypeOK, PTL DEF Spec

-----------------------------------------------------------------------------
(* The Registry never claims a publication that did not happen.            *)

(* No step takes back a post or moves a run to another date. *)
LEMMA LiveGrows ==
  ASSUME TypeOK, [Next]_vars
  PROVE  day' = day /\ \A s \in Runs : live[s] > 0 => live'[s] > 0
<1>1. live \in [Runs -> Nat]
  BY DEF TypeOK
<1>2. ASSUME NEW r \in Runs, Step(r)
      PROVE  day' = day /\ (live' = live \/ live' = [live EXCEPT ![r] = @ + 1])
  BY <1>2 DEF Step, Preflight, Adapt, Guard, Gate, Prompt, CallModel, Validate, Publish,
     AppendRecent, RecordPass, Push, checkout
<1>3. ASSUME NEW r \in Runs, Checkout(r) \/ Crash(r)
      PROVE  day' = day /\ live' = live
  BY <1>3 DEF Checkout, Crash
<1>4. CASE UNCHANGED vars
  BY <1>4 DEF vars, checkout
<1> QED
  BY <1>1, <1>2, <1>3, <1>4 DEF Next

(* A run records only after its post is live. *)
PostedBeforeRecord ==
  \A r \in Runs : stage[r] \in {"append", "record"} => live[r] > 0

TruthInv == TypeOK /\ PostedBeforeRecord /\ RecordsTruthful

LEMMA InitTruth == Init => TruthInv
<1> SUFFICES ASSUME Init PROVE TruthInv
  OBVIOUS
<1>1. \A d \in Dates : registry[d].kind # "pass"
  BY PublishAssumption DEF Init
<1>2. \A d \in Dates, r \in Runs : local[r][d].kind # "pass"
  BY DEF Init, R!Absent
<1>3. RecordsTruthful
  BY <1>1, <1>2 DEF RecordsTruthful
<1>4. PostedBeforeRecord
  BY DEF Init, PostedBeforeRecord
<1> QED
  BY <1>3, <1>4, InitTypeOK DEF TruthInv

LEMMA NextPosted ==
  ASSUME TypeOK, PostedBeforeRecord, [Next]_vars
  PROVE  PostedBeforeRecord'
<1>1. /\ stage \in [Runs -> Stages] /\ live \in [Runs -> Nat]
  BY DEF TypeOK
<1>2. \A s \in Runs : live[s] > 0 => live'[s] > 0
  BY LiveGrows
<1>3. CASE UNCHANGED vars
  BY <1>3 DEF vars, PostedBeforeRecord
<1>4. ASSUME NEW r \in Runs, Checkout(r) \/ Step(r) \/ Crash(r)
      PROVE  PostedBeforeRecord'
  <2>1. CASE Publish(r)
    <3>1. \/ stage' = [stage EXCEPT ![r] = "push"]
          \/ /\ stage' = [stage EXCEPT ![r] = "append"]
             /\ live' = [live EXCEPT ![r] = @ + 1]
      BY <2>1 DEF Publish, Advance, Resolve
    <3>2. live' = [live EXCEPT ![r] = @ + 1] => live'[r] > 0
      BY <1>1
    <3> QED
      BY <1>1, <1>2, <3>1, <3>2 DEF PostedBeforeRecord
  <2>2. CASE AppendRecent(r)
    BY <1>1, <1>2, <2>2 DEF AppendRecent, Advance, PostedBeforeRecord
  <2>3. CASE ~Publish(r) /\ ~AppendRecent(r)
    <3>1. \A s \in Runs : stage'[s] \in {"append", "record"} => stage'[s] = stage[s]
      BY <1>1, <1>4, <2>3 DEF Checkout, Crash, Step, Preflight, Adapt, Guard, Gate,
         WriteBlock, Prompt, CallModel, Validate, RecordPass, Push, Advance, Resolve
    <3> QED
      BY <1>1, <1>2, <3>1 DEF PostedBeforeRecord
  <2> QED
    BY <2>1, <2>2, <2>3
<1> QED
  BY <1>3, <1>4 DEF Next

(* Where the files of the next state come from. *)
LEMMA FilesComeFrom ==
  ASSUME TypeOK, [Next]_vars, NEW d \in Dates,
         NEW file \in {registry'[d]} \cup {local'[s][d] : s \in Runs},
         file.kind = "pass"
  PROVE  \/ file \in {registry[d]} \cup {local[s][d] : s \in Runs}
         \/ \E r \in Runs : RecordPass(r) /\ file.url = r /\ day[r] = d
<1>0. local \in [Runs -> [Dates -> R!File]] /\ day \in [Runs -> Dates]
  BY DEF TypeOK
<1>1. CASE UNCHANGED vars
  BY <1>1 DEF vars, branch, disk
<1>2. ASSUME NEW r \in Runs, Checkout(r)
      PROVE  file \in {registry[d]} \cup {local[s][d] : s \in Runs}
  BY <1>0, <1>2 DEF Checkout, branch
<1>3. ASSUME NEW r \in Runs, Push(r) \/ Crash(r)
      PROVE  file \in {registry[d]} \cup {local[s][d] : s \in Runs}
  <2>1. local' = [local EXCEPT ![r] = [e \in Dates |-> R!Absent]]
    BY <1>3 DEF Push, Crash, Discard
  <2>2. registry' = registry \/ registry' = local[r]
    BY <1>3 DEF Push, Crash, branch
  <2>3. R!Absent.kind # "pass"
    BY DEF R!Absent
  <2> QED
    BY <1>0, <2>1, <2>2, <2>3
<1>4. ASSUME NEW r \in Runs, Gate(r) \/ RecordPass(r)
      PROVE  \/ file \in {registry[d]} \cup {local[s][d] : s \in Runs}
             \/ RecordPass(r) /\ file.url = r /\ day[r] = d
  <2>1. PICK f \in R!File :
          /\ local' = [local EXCEPT ![r][day[r]] = f]
          /\ f.kind = "pass" => f = local[r][day[r]] \/ (f.url = r /\ RecordPass(r))
    BY <1>4, LocalWrites
  <2>2. registry' = registry
    BY <1>4 DEF Gate, RecordPass, branch
  <2> QED
    BY <1>0, <2>1, <2>2
<1>5. ASSUME NEW r \in Runs, Step(r), ~Push(r), ~Gate(r), ~RecordPass(r)
      PROVE  file \in {registry[d]} \cup {local[s][d] : s \in Runs}
  <2>1. registry' = registry /\ local' = local
    BY <1>5 DEF Step, Preflight, Adapt, Guard, Prompt, CallModel, Validate, Publish,
       AppendRecent, branch, disk
  <2> QED
    BY <2>1
<1> QED
  BY <1>1, <1>2, <1>3, <1>4, <1>5 DEF Next, Step

LEMMA NextTruth == TruthInv /\ [Next]_vars => TruthInv'
<1> SUFFICES ASSUME TruthInv, [Next]_vars PROVE TruthInv'
  OBVIOUS
<1>0. TypeOK /\ PostedBeforeRecord /\ RecordsTruthful
  BY DEF TruthInv
<1>1. TypeOK' /\ PostedBeforeRecord'
  BY <1>0, NextTypeOK, NextPosted
<1>2. day' = day /\ \A s \in Runs : live[s] > 0 => live'[s] > 0
  BY <1>0, LiveGrows
<1>3. ASSUME NEW d \in Dates,
             NEW file \in {registry'[d]} \cup {local'[s][d] : s \in Runs},
             file.kind = "pass"
      PROVE  live'[file.url] > 0 /\ day'[file.url] = d
  <2>1. file \in R!File
    BY <1>1 DEF TypeOK
  <2>2. file.url \in Runs
    BY <1>3, <2>1 DEF R!File, R!Record, R!Absent, R!Unreadable
  <2>3. CASE file \in {registry[d]} \cup {local[s][d] : s \in Runs}
    BY <1>0, <1>2, <1>3, <2>2, <2>3 DEF RecordsTruthful
  <2>4. ASSUME NEW r \in Runs, RecordPass(r), file.url = r, day[r] = d
        PROVE  live'[file.url] > 0 /\ day'[file.url] = d
    <3>1. live[r] > 0
      BY <1>0, <2>4 DEF RecordPass, PostedBeforeRecord
    <3> QED
      BY <1>2, <2>4, <3>1
  <2> QED
    BY <1>0, <1>3, <2>3, <2>4, FilesComeFrom
<1>4. RecordsTruthful'
  BY <1>3 DEF RecordsTruthful
<1> QED
  BY <1>1, <1>4 DEF TruthInv

(***************************************************************************)
(* A pass record on the branch or in any runner names a post that is live  *)
(* and was made for the record's date, whatever crashes, interrupted       *)
(* writes, lost answers and rejected pushes occur and however the runs     *)
(* overlap.                                                                *)
(***************************************************************************)
THEOREM RecordsAreTruthful == Spec => []RecordsTruthful
<1>1. TruthInv => RecordsTruthful
  BY DEF TruthInv
<1> QED
  BY <1>1, InitTruth, NextTruth, PTL DEF Spec

-----------------------------------------------------------------------------
(* No push replaces what the branch holds.                                 *)

(* A checkout that could still be pushed extends the branch. *)
CheckoutInv ==
  \A r \in Runs :
    /\ base[r] <= head
    /\ Running(r) /\ base[r] = head =>
         \A d \in Dates : registry[d] # R!Absent => local[r][d] = registry[d]

LEMMA InitCheckout == Init => CheckoutInv
BY DEF Init, CheckoutInv, Running

LEMMA NextCheckout ==
  ASSUME TypeOK, CheckoutInv, [Next]_vars
  PROVE  CheckoutInv'
<1>0. /\ stage \in [Runs -> Stages] /\ base \in [Runs -> Nat] /\ head \in Nat
      /\ local \in [Runs -> [Dates -> R!File]] /\ day \in [Runs -> Dates]
  BY DEF TypeOK
<1>1. CASE UNCHANGED vars
  BY <1>1 DEF vars, branch, checkout, disk, CheckoutInv, Running
<1>2. ASSUME NEW r \in Runs, Checkout(r) PROVE CheckoutInv'
  BY <1>0, <1>2 DEF Checkout, Advance, branch, CheckoutInv, Running
<1>3. ASSUME NEW r \in Runs, Crash(r) PROVE CheckoutInv'
  BY <1>0, <1>3 DEF Crash, Discard, branch, CheckoutInv, Running
<1>4. ASSUME NEW r \in Runs, Push(r) PROVE CheckoutInv'
  <2>1. /\ stage' = [stage EXCEPT ![r] = "done"]
        /\ base' = [base EXCEPT ![r] = 0]
        /\ local' = [local EXCEPT ![r] = [d \in Dates |-> R!Absent]]
    BY <1>4 DEF Push, Advance, Discard
  <2>2. CASE UNCHANGED branch
    BY <1>0, <2>1, <2>2 DEF branch, CheckoutInv, Running
  <2>3. CASE head' = head + 1
    BY <1>0, <2>1, <2>3 DEF CheckoutInv, Running
  <2> QED
    BY <1>4, <2>2, <2>3 DEF Push
<1>5. ASSUME NEW r \in Runs, Gate(r) \/ RecordPass(r) PROVE CheckoutInv'
  <2>1. PICK f \in R!File :
          /\ local' = [local EXCEPT ![r][day[r]] = f]
          /\ local[r][day[r]] # R!Absent => f = local[r][day[r]]
    BY <1>5, LocalWrites
  <2>2. UNCHANGED <<registry, head, base>>
    BY <1>5 DEF Gate, RecordPass, branch, checkout
  <2>3. \A s \in Runs : Running(s)' => Running(s)
    BY <1>0, <1>5 DEF Gate, WriteBlock, RecordPass, Resolve, Advance, Running
  <2>4. \A s \in Runs, d \in Dates :
          local[s][d] # R!Absent => local'[s][d] = local[s][d]
    BY <1>0, <2>1
  <2> QED
    BY <2>2, <2>3, <2>4 DEF CheckoutInv
<1>6. ASSUME NEW r \in Runs, Step(r), ~Push(r), ~Gate(r), ~RecordPass(r) PROVE CheckoutInv'
  <2>1. UNCHANGED <<registry, head, base, local>>
    BY <1>6 DEF Step, Preflight, Adapt, Guard, Prompt, CallModel, Validate, Publish,
       AppendRecent, branch, checkout, disk
  <2>2. \A s \in Runs : Running(s)' => Running(s)
    BY <1>0, <1>6 DEF Step, Preflight, Adapt, Guard, Prompt, CallModel, Validate, Publish,
       AppendRecent, Resolve, Advance, Running
  <2> QED
    BY <2>1, <2>2 DEF CheckoutInv
<1> QED
  BY <1>1, <1>2, <1>3, <1>4, <1>5, <1>6 DEF Next, Step

(* An accepted push therefore keeps every file of the branch. *)
LEMMA NextImmutable ==
  ASSUME TypeOK, CheckoutInv, [Next]_vars
  PROVE  [\A d \in Dates : registry[d] # R!Absent => registry'[d] = registry[d]]_vars
<1>1. ASSUME NEW r \in Runs, Push(r), NEW d \in Dates, registry[d] # R!Absent
      PROVE  registry'[d] = registry[d]
  <2>1. Running(r)
    BY <1>1 DEF Push, Advance, Running
  <2> QED
    BY <1>1, <2>1 DEF Push, FastForward, CheckoutInv, branch
<1>2. ASSUME NEW r \in Runs, Checkout(r) \/ Crash(r) \/ (Step(r) /\ ~Push(r))
      PROVE  registry' = registry
  BY <1>2 DEF Checkout, Crash, Step, Preflight, Adapt, Guard, Gate, Prompt, CallModel,
     Validate, Publish, AppendRecent, RecordPass, branch
<1> QED
  BY <1>1, <1>2 DEF Next, Step

(***************************************************************************)
(* Once the branch holds a file for a date, no later push changes it: the  *)
(* writer never overwrites a file in a checkout, and a push whose checkout *)
(* is stale is rejected.  Neither the concurrency group nor the absence of *)
(* faults is assumed.                                                      *)
(***************************************************************************)
THEOREM RegistryIsImmutable == Spec => RegistryImmutable
<1>1. Init => TypeOK /\ CheckoutInv
  BY InitTypeOK, InitCheckout
<1>2. TypeOK /\ CheckoutInv /\ [Next]_vars => (TypeOK /\ CheckoutInv)'
  BY NextTypeOK, NextCheckout
<1>3. TypeOK /\ CheckoutInv /\ [Next]_vars =>
        [\A d \in Dates : registry[d] # R!Absent => registry'[d] = registry[d]]_vars
  BY NextImmutable
<1> QED
  BY <1>1, <1>2, <1>3, PTL DEF Spec, RegistryImmutable

-----------------------------------------------------------------------------
(* With the concurrency group, the workflow implements the ledger.         *)

BeforePost == {"idle", "preflight", "adapt", "guard", "gate", "prompt", "model",
               "validate", "publish"}

(* A run that has not reached the end of publish_post has posted nothing. *)
FreshInv == \A r \in Runs : stage[r] \in BeforePost => live[r] = 0

(* Past the guard, the run's own file neither says published nor is unreadable. *)
GuardInv ==
  \A r \in Runs : stage[r] \in {"gate", "prompt", "model", "validate", "publish"} =>
    local[r][day[r]].kind \notin {"pass", "unreadable"}

(* A checkout that could still be pushed differs from the branch at most in the *)
(* run's own date. *)
OwnDateInv ==
  \A r \in Runs : Running(r) /\ base[r] = head =>
    \A d \in Dates : d # day[r] => local[r][d] = registry[d]

(* At most one job runs, and its checkout is the branch's head. *)
AloneInv ==
  \A r \in Runs : Running(r) =>
    base[r] = head /\ \A s \in Runs : Running(s) => s = r

LedgerInv ==
  TruthInv /\ CheckoutInv /\ FreshInv /\ GuardInv /\ OwnDateInv /\ AloneInv

LEMMA InitLedgerInv == Init => LedgerInv
<1> SUFFICES ASSUME Init PROVE LedgerInv
  OBVIOUS
<1>1. FreshInv /\ GuardInv /\ OwnDateInv /\ AloneInv
  BY DEF Init, FreshInv, GuardInv, OwnDateInv, AloneInv, Running
<1> QED
  BY <1>1, InitTruth, InitCheckout DEF LedgerInv

(* Where one step takes a run: forward, or to its end; a job that starts    *)
(* is the only one.                                                         *)
LEMMA StagesMove ==
  ASSUME TypeOK, NEW r \in Runs, Checkout(r) \/ Step(r) \/ Crash(r)
  PROVE  /\ \A s \in Runs \ {r} : stage'[s] = stage[s]
         /\ Running(r) \/ Checkout(r)
         /\ stage'[r] \in BeforePost => stage[r] \in BeforePost /\ live' = live
         /\ stage'[r] \in {"prompt", "model", "validate", "publish"} =>
              stage[r] \in {"gate", "prompt", "model", "validate", "publish"}
              /\ local' = local
         /\ stage'[r] = "gate" => Guard(r) /\ local' = local
<1>1. stage \in [Runs -> Stages]
  BY DEF TypeOK
<1>2. CASE Checkout(r) \/ Crash(r) \/ Push(r)
  BY <1>1, <1>2 DEF Checkout, Crash, Push, Advance, Running, BeforePost
<1>3. CASE Preflight(r) \/ Adapt(r) \/ Guard(r)
  BY <1>1, <1>3 DEF Preflight, Adapt, Guard, Resolve, Advance, Running, BeforePost, disk
<1>4. CASE Gate(r)
  <2>1. stage[r] = "gate" /\ live' = live
        /\ \/ stage' = [stage EXCEPT ![r] = "push"]
           \/ stage' = [stage EXCEPT ![r] = "prompt"] /\ local' = local
    BY <1>4 DEF Gate, WriteBlock, Resolve, Advance
  <2> QED
    BY <1>1, <2>1 DEF Running, BeforePost
<1>5. CASE Prompt(r) \/ CallModel(r) \/ Validate(r)
  BY <1>1, <1>5 DEF Prompt, CallModel, Validate, Resolve, Advance, Running, BeforePost, disk
<1>6. CASE Publish(r) \/ AppendRecent(r) \/ RecordPass(r)
  BY <1>1, <1>6 DEF Publish, AppendRecent, RecordPass, Resolve, Advance, Running, BeforePost
<1> QED
  BY <1>2, <1>3, <1>4, <1>5, <1>6 DEF Step

LEMMA NextFresh ==
  ASSUME TypeOK, FreshInv, [Next]_vars
  PROVE  FreshInv'
<1>1. CASE UNCHANGED vars
  BY <1>1 DEF vars, FreshInv
<1>2. ASSUME NEW r \in Runs, Checkout(r) \/ Step(r) \/ Crash(r) PROVE FreshInv'
  <2>1. \A s \in Runs \ {r} : stage'[s] = stage[s]
    BY <1>2, StagesMove
  <2>2. stage'[r] \in BeforePost => stage[r] \in BeforePost /\ live' = live
    BY <1>2, StagesMove
  <2>3. \A s \in Runs \ {r} : live'[s] = live[s]
    BY <1>2 DEF TypeOK, Checkout, Crash, Step, Preflight, Adapt, Guard, Gate, Prompt,
       CallModel, Validate, Publish, AppendRecent, RecordPass, Push
  <2> QED
    BY <2>1, <2>2, <2>3 DEF FreshInv
<1> QED
  BY <1>1, <1>2 DEF Next

LEMMA NextGuard ==
  ASSUME TypeOK, GuardInv, [Next]_vars
  PROVE  GuardInv'
<1>0. day' = day
  BY LiveGrows
<1>1. CASE UNCHANGED vars
  BY <1>1 DEF vars, disk, checkout, GuardInv
<1>2. ASSUME NEW r \in Runs, Checkout(r) \/ Step(r) \/ Crash(r) PROVE GuardInv'
  <2>1. \A s \in Runs \ {r} : stage'[s] = stage[s] /\ local'[s] = local[s]
    <3>1. ASSUME Gate(r) \/ RecordPass(r) PROVE \A s \in Runs \ {r} : local'[s] = local[s]
      <4>1. PICK f \in R!File : local' = [local EXCEPT ![r][day[r]] = f]
        BY <3>1, LocalWrites
      <4> QED
        BY <4>1 DEF TypeOK
    <3>2. ASSUME ~(Gate(r) \/ RecordPass(r)) PROVE \A s \in Runs \ {r} : local'[s] = local[s]
      BY <1>2, <3>2 DEF TypeOK, Checkout, Crash, Discard, Step, Preflight, Adapt, Guard,
         Prompt, CallModel, Validate, Publish, AppendRecent, Push, disk
    <3> QED
      BY <1>2, <3>1, <3>2, StagesMove
  <2>2. stage'[r] \in {"prompt", "model", "validate", "publish"} =>
          stage[r] \in {"gate", "prompt", "model", "validate", "publish"} /\ local' = local
    BY <1>2, StagesMove
  <2>3. stage'[r] = "gate" => Guard(r) /\ local' = local
    BY <1>2, StagesMove
  <2>4. Guard(r) /\ stage'[r] = "gate" => local[r][day[r]].kind \notin {"pass", "unreadable"}
    BY DEF TypeOK, Guard, RegistryFile, ContentId, Resolve, Advance, R!ReadRaises,
       R!AlreadyPublished
  <2> QED
    BY <1>0, <2>1, <2>2, <2>3, <2>4 DEF GuardInv
<1> QED
  BY <1>1, <1>2 DEF Next

LEMMA NextOwnDate ==
  ASSUME TypeOK, CheckoutInv, OwnDateInv, [Next]_vars
  PROVE  OwnDateInv'
<1>0. /\ stage \in [Runs -> Stages] /\ base \in [Runs -> Nat] /\ head \in Nat
      /\ local \in [Runs -> [Dates -> R!File]] /\ day \in [Runs -> Dates]
      /\ day' = day
  BY LiveGrows DEF TypeOK
<1>1. CASE UNCHANGED vars
  BY <1>1 DEF vars, branch, checkout, disk, OwnDateInv, Running
<1>2. ASSUME NEW r \in Runs, Checkout(r) PROVE OwnDateInv'
  BY <1>0, <1>2 DEF Checkout, Advance, branch, OwnDateInv, Running
<1>3. ASSUME NEW r \in Runs, Crash(r) PROVE OwnDateInv'
  BY <1>0, <1>3 DEF Crash, Discard, branch, OwnDateInv, Running
<1>4. ASSUME NEW r \in Runs, Push(r) PROVE OwnDateInv'
  <2>1. /\ stage' = [stage EXCEPT ![r] = "done"]
        /\ base' = [base EXCEPT ![r] = 0]
        /\ local' = [local EXCEPT ![r] = [d \in Dates |-> R!Absent]]
    BY <1>4 DEF Push, Advance, Discard
  <2>2. CASE UNCHANGED branch
    BY <1>0, <2>1, <2>2 DEF branch, OwnDateInv, Running
  <2>3. CASE head' = head + 1
    <3>1. \A s \in Runs : base[s] <= head
      BY DEF CheckoutInv
    <3>2. \A s \in Runs : Running(s)' => base'[s] # head'
      BY <1>0, <2>1, <2>3, <3>1 DEF Running
    <3> QED
      BY <3>2 DEF OwnDateInv
  <2> QED
    BY <1>4, <2>2, <2>3 DEF Push
<1>5. ASSUME NEW r \in Runs, Gate(r) \/ RecordPass(r) PROVE OwnDateInv'
  <2>1. PICK f \in R!File : local' = [local EXCEPT ![r][day[r]] = f]
    BY <1>5, LocalWrites
  <2>2. UNCHANGED <<registry, head, base>>
    BY <1>5 DEF Gate, RecordPass, branch, checkout
  <2>3. \A s \in Runs : Running(s)' => Running(s)
    BY <1>0, <1>5 DEF Gate, WriteBlock, RecordPass, Resolve, Advance, Running
  <2>4. \A s \in Runs, d \in Dates : d # day[s] => local'[s][d] = local[s][d]
    BY <1>0, <2>1
  <2> QED
    BY <1>0, <2>2, <2>3, <2>4 DEF OwnDateInv
<1>6. ASSUME NEW r \in Runs, Step(r), ~Push(r), ~Gate(r), ~RecordPass(r) PROVE OwnDateInv'
  <2>1. UNCHANGED <<registry, head, base, local>>
    BY <1>6 DEF Step, Preflight, Adapt, Guard, Prompt, CallModel, Validate, Publish,
       AppendRecent, branch, checkout, disk
  <2>2. \A s \in Runs : Running(s)' => Running(s)
    BY <1>0, <1>6 DEF Step, Preflight, Adapt, Guard, Prompt, CallModel, Validate, Publish,
       AppendRecent, Resolve, Advance, Running
  <2> QED
    BY <1>0, <2>1, <2>2 DEF OwnDateInv
<1> QED
  BY <1>1, <1>2, <1>3, <1>4, <1>5, <1>6 DEF Next, Step

LEMMA NextAlone ==
  ASSUME Serialized, TypeOK, AloneInv, [Next]_vars
  PROVE  AloneInv'
<1>0. /\ stage \in [Runs -> Stages] /\ base \in [Runs -> Nat]
  BY DEF TypeOK
<1>1. CASE UNCHANGED vars
  BY <1>1 DEF vars, branch, checkout, AloneInv, Running
<1>2. ASSUME NEW r \in Runs, Checkout(r) PROVE AloneInv'
  BY <1>0, <1>2 DEF Checkout, Advance, branch, AloneInv, Running
<1>3. ASSUME NEW r \in Runs, Push(r) \/ Crash(r) PROVE AloneInv'
  <2>1. Running(r) /\ \A s \in Runs : ~Running(s)'
    BY <1>0, <1>3 DEF Push, Crash, Advance, AloneInv, Running
  <2> QED
    BY <2>1 DEF AloneInv
<1>4. ASSUME NEW r \in Runs, Step(r), ~Push(r) PROVE AloneInv'
  <2>1. UNCHANGED <<head, base>>
    BY <1>4 DEF Step, Preflight, Adapt, Guard, Gate, Prompt, CallModel, Validate, Publish,
       AppendRecent, RecordPass, branch, checkout
  <2>2. \A s \in Runs : Running(s)' => Running(s)
    <3>1. Running(r) /\ \A s \in Runs \ {r} : stage'[s] = stage[s]
      BY <1>4, StagesMove DEF Checkout, Step, Advance, Running, Preflight, Adapt, Guard,
         Gate, Prompt, CallModel, Validate, Publish, AppendRecent, RecordPass, Resolve,
         WriteBlock
    <3> QED
      BY <3>1 DEF Running
  <2> QED
    BY <2>1, <2>2 DEF AloneInv
<1> QED
  BY <1>1, <1>2, <1>3, <1>4 DEF Next, Step

LEMMA NextLedgerInv ==
  ASSUME Serialized
  PROVE  LedgerInv /\ [Next]_vars => LedgerInv'
BY NextTruth, NextCheckout, NextFresh, NextGuard, NextOwnDate, NextAlone
   DEF LedgerInv, TruthInv

(* A post is made only for a date the branch holds neither a pass record nor *)
(* an unreadable file for.                                                   *)
LEMMA PostsOnOpenDates ==
  ASSUME LedgerInv, NEW r \in Runs, Publish(r)
  PROVE  registry[day[r]].kind \notin {"pass", "unreadable"}
<1>1. /\ stage \in [Runs -> Stages] /\ day[r] \in Dates
      /\ local[r][day[r]] \in R!File /\ registry[day[r]] \in R!File
  BY DEF LedgerInv, TruthInv, TypeOK
<1>2. stage[r] = "publish"
  BY DEF Publish, Advance, Resolve
<1>3. Running(r) /\ base[r] = head
  BY <1>1, <1>2 DEF Running, LedgerInv, AloneInv
<1>4. registry[day[r]] # R!Absent => local[r][day[r]] = registry[day[r]]
  BY <1>1, <1>3 DEF LedgerInv, CheckoutInv
<1>5. local[r][day[r]].kind \notin {"pass", "unreadable"}
  BY <1>2 DEF LedgerInv, GuardInv
<1> QED
  BY <1>4, <1>5 DEF R!Absent

(***************************************************************************)
(* With the concurrency group, whatever faults occur, no run posts for a   *)
(* date the branch says was published or cannot be read.                   *)
(***************************************************************************)
THEOREM NoPostOverARecord ==
  ASSUME Serialized
  PROVE  Spec => NoPostOverRecord
<1>1. LedgerInv /\ [Next]_vars =>
        [\A r \in Runs : live'[r] > live[r] =>
           registry[day[r]].kind \notin {"pass", "unreadable"}]_vars
  <2> SUFFICES ASSUME LedgerInv, [Next]_vars, NEW r \in Runs, live'[r] > live[r],
                      ~(UNCHANGED vars)
               PROVE  registry[day[r]].kind \notin {"pass", "unreadable"}
    OBVIOUS
  <2>1. live \in [Runs -> Nat]
    BY DEF LedgerInv, TruthInv, TypeOK
  <2>2. Publish(r)
    <3>1. PICK s \in Runs : Checkout(s) \/ Step(s) \/ Crash(s)
      BY DEF Next
    <3>2. ~Publish(s) => live' = live
      BY <3>1 DEF Checkout, Crash, Step, Preflight, Adapt, Guard, Gate, Prompt, CallModel,
         Validate, AppendRecent, RecordPass, Push
    <3>3. Publish(s) => live' = live \/ live' = [live EXCEPT ![s] = @ + 1]
      BY DEF Publish
    <3>4. live[r] \in Nat
      BY <2>1
    <3>5. s = r
      BY <2>1, <3>2, <3>3, <3>4
    <3> QED
      BY <3>2, <3>4, <3>5
  <2> QED
    BY <2>2, PostsOnOpenDates
<1>2. Init => LedgerInv
  BY InitLedgerInv
<1>3. LedgerInv /\ [Next]_vars => LedgerInv'
  BY NextLedgerInv
<1> QED
  BY <1>1, <1>2, <1>3, PTL DEF Spec, NoPostOverRecord

(* A push adds to the branch at most the record of the run's own date. *)
LEMMA PushRecordsOneDate ==
  ASSUME LedgerInv, TypeOK', NEW r \in Runs, Push(r), registry' # registry
  PROVE  /\ registry[day[r]] = R!Absent
         /\ registry' = [registry EXCEPT ![day[r]] = local[r][day[r]]]
<1>1. registry' = local[r] /\ FastForward(r) /\ Running(r)
  BY DEF Push, branch, Advance, Running
<1>2. /\ registry \in [Dates -> R!File] /\ local[r] \in [Dates -> R!File]
      /\ day[r] \in Dates
  BY DEF LedgerInv, TruthInv, TypeOK
<1>3. \A d \in Dates : d # day[r] => local[r][d] = registry[d]
  BY <1>1 DEF FastForward, LedgerInv, OwnDateInv
<1>4. registry[day[r]] # R!Absent => local[r][day[r]] = registry[day[r]]
  BY <1>1, <1>2 DEF FastForward, LedgerInv, CheckoutInv
<1>5. registry[day[r]] = R!Absent
  <2> SUFFICES ASSUME registry[day[r]] # R!Absent PROVE FALSE
    OBVIOUS
  <2>1. \A d \in Dates : local[r][d] = registry[d]
    BY <1>3, <1>4
  <2>2. local[r] = registry
    BY <1>2, <2>1
  <2> QED
    BY <1>1, <2>2
<1>6. \A d \in Dates : local[r][d] = [registry EXCEPT ![day[r]] = local[r][day[r]]][d]
  BY <1>2, <1>3
<1>7. local[r] = [registry EXCEPT ![day[r]] = local[r][day[r]]]
  <2>1. [registry EXCEPT ![day[r]] = local[r][day[r]]] \in [Dates -> R!File]
    BY <1>2
  <2> QED
    BY <1>2, <1>6, <2>1
<1> QED
  BY <1>1, <1>5, <1>7

(* Every step of the workflow is a step of the ledger or leaves it alone. *)
LEMMA LedgerStep ==
  ASSUME LedgerInv, LedgerInv', [Next]_vars
  PROVE  [Ledger!Next]_<<[d \in Dates |-> PostedFor(d)],
                         [d \in Dates |-> IF registry[d].kind = "pass"
                                          THEN registry[d].url ELSE NoRun]>>
<1> DEFINE posted == [d \in Dates |-> PostedFor(d)]
           recorded == [d \in Dates |-> IF registry[d].kind = "pass"
                                        THEN registry[d].url ELSE NoRun]
<1>0. /\ registry \in [Dates -> R!File] /\ live \in [Runs -> Nat]
      /\ day \in [Runs -> Dates] /\ local \in [Runs -> [Dates -> R!File]]
      /\ day' = day
  BY LiveGrows DEF LedgerInv, TruthInv, TypeOK
<1>1. live' = live => posted' = posted
  BY <1>0 DEF PostedFor
<1>2. registry' = registry => recorded' = recorded
  OBVIOUS
<1>3. CASE UNCHANGED vars
  BY <1>1, <1>2, <1>3 DEF vars, branch
<1>4. ASSUME NEW r \in Runs, Checkout(r) \/ Crash(r) \/ (Step(r) /\ ~Publish(r) /\ ~Push(r))
      PROVE  posted' = posted /\ recorded' = recorded
  <2>1. live' = live /\ registry' = registry
    BY <1>4 DEF Checkout, Crash, Step, Preflight, Adapt, Guard, Gate, Prompt, CallModel,
       Validate, AppendRecent, RecordPass, branch
  <2> QED
    BY <1>1, <1>2, <2>1
<1>5. ASSUME NEW r \in Runs, Publish(r)
      PROVE  (posted' = posted /\ recorded' = recorded) \/ Ledger!Next
  <2>1. registry' = registry
    BY <1>5 DEF Publish, branch
  <2>2. CASE live' = live
    BY <1>1, <1>2, <2>1, <2>2
  <2>3. CASE live' = [live EXCEPT ![r] = @ + 1]
    <3>1. day[r] \in Dates /\ live[r] = 0
      BY <1>0, <1>5 DEF Publish, Advance, Resolve, LedgerInv, FreshInv, BeforePost
    <3>2. recorded[day[r]] = NoRun
      BY <1>5, <3>1, PostsOnOpenDates
    <3>3. \A e \in Dates : r \notin posted[e]
      BY <3>1 DEF PostedFor
    <3>4. posted' = [posted EXCEPT ![day[r]] = @ \cup {r}]
      <4>1. \A d \in Dates : PostedFor(d)' = IF d = day[r] THEN PostedFor(d) \cup {r}
                                             ELSE PostedFor(d)
        BY <1>0, <2>3, <3>1 DEF PostedFor
      <4> QED
        BY <3>1, <4>1
    <3>5. recorded' = recorded
      BY <1>2, <2>1
    <3>6. Ledger!Publish(day[r], r)
      BY <3>2, <3>3, <3>4, <3>5 DEF Ledger!Publish
    <3> QED
      BY <3>1, <3>6 DEF Ledger!Next
  <2> QED
    BY <1>5, <2>2, <2>3 DEF Publish
<1>6. ASSUME NEW r \in Runs, Push(r)
      PROVE  (posted' = posted /\ recorded' = recorded) \/ Ledger!Next
  <2>1. posted' = posted
    BY <1>1, <1>6 DEF Push
  <2>2. CASE registry' = registry
    BY <1>2, <2>1, <2>2
  <2>3. CASE registry' # registry
    <3> DEFINE file == local[r][day[r]]
    <3>1. /\ registry[day[r]] = R!Absent /\ day[r] \in Dates
          /\ registry' = [registry EXCEPT ![day[r]] = file]
      BY <1>0, <1>6, <2>3, PushRecordsOneDate DEF LedgerInv, TruthInv
    <3>2. recorded[day[r]] = NoRun
      BY <3>1 DEF R!Absent
    <3>3. CASE file.kind # "pass"
      <4>1. recorded' = recorded
        BY <1>0, <3>1, <3>2, <3>3
      <4> QED
        BY <2>1, <4>1
    <3>4. CASE file.kind = "pass"
      <4>1. file \in R!File
        BY <1>0, <3>1
      <4>2. file.url \in Runs
        BY <3>4, <4>1 DEF R!File, R!Record, R!Absent, R!Unreadable
      <4>3. file.url \in posted[day[r]]
        BY <3>1, <3>4, <4>2 DEF LedgerInv, TruthInv, RecordsTruthful, PostedFor
      <4>4. recorded' = [recorded EXCEPT ![day[r]] = file.url]
        BY <1>0, <3>1, <3>4
      <4>5. PICK p \in Runs : p = file.url
        BY <4>2
      <4>6. Ledger!Record(day[r], p)
        BY <2>1, <3>2, <4>3, <4>4, <4>5 DEF Ledger!Record
      <4> QED
        BY <3>1, <4>6 DEF Ledger!Next
    <3> QED
      BY <3>3, <3>4
  <2> QED
    BY <2>2, <2>3
<1> QED
  BY <1>3, <1>4, <1>5, <1>6 DEF Next, Step

LEMMA LedgerInit == Init => Ledger!Init
<1> SUFFICES ASSUME Init PROVE Ledger!Init
  OBVIOUS
<1>1. \A d \in Dates : PostedFor(d) = {}
  BY DEF Init, PostedFor
<1>2. \A d \in Dates : registry[d].kind # "pass"
  BY PublishAssumption DEF Init
<1> QED
  BY <1>1, <1>2 DEF Ledger!Init

(***************************************************************************)
(* The serialized workflow, with crashes, lost answers, interrupted writes *)
(* and rejected pushes, implements the publication ledger.                 *)
(***************************************************************************)
THEOREM ImplementsLedger ==
  ASSUME Serialized
  PROVE  Spec => LedgerSpec
<1>1. Init => LedgerInv
  BY InitLedgerInv
<1>2. LedgerInv /\ [Next]_vars => LedgerInv'
  BY NextLedgerInv
<1>3. LedgerInv /\ LedgerInv' /\ [Next]_vars =>
        [Ledger!Next]_<<[d \in Dates |-> PostedFor(d)],
                        [d \in Dates |-> IF registry[d].kind = "pass"
                                         THEN registry[d].url ELSE NoRun]>>
  BY LedgerStep
<1> QED
  BY <1>1, <1>2, <1>3, LedgerInit, PTL DEF Spec, LedgerSpec, Ledger!Spec

==============================================================================
