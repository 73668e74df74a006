-------------------------- MODULE DailyOutcome_proofs --------------------------
(***************************************************************************)
(* Theorems about what one run of DailyPublish says and shows: its         *)
(* Outcome, the prompt it builds, the recent posts it leaves; and about a  *)
(* workflow without faults.                                                *)
(***************************************************************************)
EXTENDS DailyPublish_proofs, FiniteSetTheorems

-----------------------------------------------------------------------------
(* What a step of one run leaves alone.                                    *)

LEMMA OthersKeep ==
  ASSUME TypeOK, NEW r \in Runs, Checkout(r) \/ Step(r) \/ Crash(r),
         NEW s \in Runs, s # r
  PROVE  /\ stage'[s] = stage[s] /\ base'[s] = base[s] /\ live'[s] = live[s]
         /\ local'[s] = local[s] /\ localRecent'[s] = localRecent[s]
         /\ units'[s] = units[s] /\ appended'[s] = appended[s]
         /\ outcome'[s] = outcome[s]
<1>1. CASE Checkout(r) \/ Crash(r) \/ Push(r)
  BY <1>1 DEF TypeOK, Checkout, Crash, Push, Discard, Advance, memory
<1>2. CASE Gate(r) \/ RecordPass(r)
  <2>1. PICK f \in R!File : local' = [local EXCEPT ![r][day[r]] = f]
    BY <1>2, LocalWrites
  <2>2. local'[s] = local[s]
    BY <2>1 DEF TypeOK
  <2>3. UNCHANGED <<live, base, localRecent>>
    BY <1>2 DEF Gate, RecordPass, checkout
  <2>4. /\ stage'[s] = stage[s] /\ units'[s] = units[s] /\ appended'[s] = appended[s]
        /\ outcome'[s] = outcome[s]
    BY <1>2 DEF TypeOK, Gate, WriteBlock, RecordPass, Resolve, Advance, memory
  <2> QED
    BY <2>2, <2>3, <2>4
<1>3. CASE Preflight(r) \/ Adapt(r) \/ Guard(r) \/ Prompt(r) \/ CallModel(r) \/ Validate(r)
  <2>1. UNCHANGED <<live, base, local, localRecent>>
    BY <1>3 DEF Preflight, Adapt, Guard, Prompt, CallModel, Validate, checkout, disk
  <2>2. /\ stage'[s] = stage[s] /\ units'[s] = units[s] /\ appended'[s] = appended[s]
        /\ outcome'[s] = outcome[s]
    BY <1>3 DEF TypeOK, Preflight, Adapt, Guard, Prompt, CallModel, Validate,
                Resolve, Advance, memory
  <2> QED
    BY <2>1, <2>2
<1>4. CASE Publish(r)
  BY <1>4 DEF TypeOK, Publish, Resolve, Advance, memory, checkout, disk
<1>5. CASE AppendRecent(r)
  BY <1>5 DEF TypeOK, AppendRecent, Advance, checkout
<1> QED
  BY <1>1, <1>2, <1>3, <1>4, <1>5 DEF Step

(* Only an accepted push changes the branch. *)
LEMMA BranchMoves ==
  ASSUME NEW r \in Runs, Checkout(r) \/ Step(r) \/ Crash(r)
  PROVE  \/ UNCHANGED branch
         \/ /\ Push(r) /\ FastForward(r) /\ head' = head + 1
            /\ registry' = local[r] /\ recent' = localRecent[r]
<1>1. CASE Push(r)
  BY <1>1 DEF Push
<1> QED
  BY <1>1 DEF Checkout, Crash, Step, Preflight, Adapt, Guard, Gate, Prompt, CallModel,
     Validate, Publish, AppendRecent, RecordPass

-----------------------------------------------------------------------------
(* The Outcome is true.                                                    *)

(* What a run's Outcome asserts, while its files are there to be pushed. *)
OutcomeHolds(r) ==
  stage[r] = "push" =>
    LET file == local[r][day[r]]
        posts == localRecent[r].posts
    IN /\ outcome[r] = "PUBLISHED" =>
            /\ live[r] = 1
            /\ file.kind = "pass" /\ file.url = r
            /\ posts # <<>> /\ posts[Len(posts)] = r
       /\ outcome[r] \in Skipped \cup {"FAILED_INTEGRITY"} =>
            /\ live[r] = 0
            /\ localRecent[r] = recent \/ base[r] # head
       /\ outcome[r] = "SKIPPED_ALREADY_PUBLISHED" =>
            file.kind = "pass" /\ file.url # r
       /\ outcome[r] = "SKIPPED_NO_ELIGIBLE_CONTENT" => file.kind = "block"
       /\ /\ outcome[r] \in (Skipped \cup {"FAILED_INTEGRITY"})
                             \ {"SKIPPED_NO_ELIGIBLE_CONTENT"}
          /\ base[r] = head
          => local[r] = registry

(* What it rests on: a run posts once; it says appended only while its own *)
(* post is the last of its recent posts; and until it posts or resolves,   *)
(* its files are the branch's, if they could still be pushed.              *)
PostedOnce(r) == stage[r] \in {"append", "record"} => live[r] = 1

AppendedIsLast(r) ==
  appended[r] => /\ stage[r] = "record"
                 /\ localRecent[r].posts # <<>>
                 /\ localRecent[r].posts[Len(localRecent[r].posts)] = r

Untouched(r) ==
  stage[r] \in BeforePost /\ Running(r) /\ base[r] = head =>
    local[r] = registry /\ localRecent[r] = recent

RunFacts(r) == PostedOnce(r) /\ AppendedIsLast(r) /\ Untouched(r) /\ OutcomeHolds(r)

OutcomeInv == TruthInv /\ CheckoutInv /\ FreshInv /\ \A r \in Runs : RunFacts(r)

(* A step of another run: the branch stays, or moves away from this run's  *)
(* base for good.                                                          *)
LEMMA FactsOfOthers ==
  ASSUME OutcomeInv, NEW r \in Runs, Checkout(r) \/ Step(r) \/ Crash(r),
         NEW s \in Runs, s # r
  PROVE  RunFacts(s)'
<1>1. TypeOK /\ RunFacts(s)
  BY DEF OutcomeInv, TruthInv
<1>2. /\ stage'[s] = stage[s] /\ base'[s] = base[s] /\ live'[s] = live[s]
      /\ local'[s] = local[s] /\ localRecent'[s] = localRecent[s]
      /\ appended'[s] = appended[s] /\ outcome'[s] = outcome[s]
  BY <1>1, OthersKeep
<1>3. day' = day
  <2>1. Next
    BY DEF Next
  <2> QED
    BY <1>1, <2>1, LiveGrows
<1>4. UNCHANGED branch \/ base'[s] # head'
  <2>1. base[s] \in Nat /\ head \in Nat /\ base[s] <= head
    BY <1>1 DEF TypeOK, OutcomeInv, CheckoutInv
  <2> QED
    BY <1>2, <2>1, BranchMoves
<1>5. PostedOnce(s)' /\ AppendedIsLast(s)'
  BY <1>1, <1>2 DEF RunFacts, PostedOnce, AppendedIsLast
<1>6. Untouched(s)'
  BY <1>1, <1>2, <1>4 DEF RunFacts, Untouched, Running, branch
<1>7. OutcomeHolds(s)'
  BY <1>1, <1>2, <1>3, <1>4 DEF RunFacts, OutcomeHolds, branch
<1> QED
  BY <1>5, <1>6, <1>7 DEF RunFacts

(* Steps of the run itself. *)
LEMMA NotAppended ==
  ASSUME OutcomeInv, NEW r \in Runs, stage[r] # "record"
  PROVE  ~appended[r]
BY DEF OutcomeInv, RunFacts, AppendedIsLast

(* It goes on without touching files or memory. *)
LEMMA FactsAdvancing ==
  ASSUME OutcomeInv, NEW r \in Runs, NEW from \in BeforePost \ {"idle"},
         NEW to \in BeforePost \ {"idle"}, Advance(r, from, to),
         UNCHANGED <<branch, live, checkout, disk, appended, outcome>>
  PROVE  RunFacts(r)'
<1>1. ~appended[r] /\ Untouched(r)
  BY NotAppended DEF OutcomeInv, RunFacts, Advance, BeforePost
<1>2. stage[r] = from /\ stage'[r] = to
  BY DEF Advance, OutcomeInv, TruthInv, TypeOK
<1>3. PostedOnce(r)' /\ AppendedIsLast(r)' /\ OutcomeHolds(r)'
  BY <1>1, <1>2 DEF PostedOnce, AppendedIsLast, OutcomeHolds, BeforePost
<1>4. Untouched(r)'
  BY <1>1, <1>2 DEF Untouched, Running, BeforePost, branch, checkout, disk
<1> QED
  BY <1>3, <1>4 DEF RunFacts

(* It resolves before its post, without touching the files. *)
LEMMA FactsResolving ==
  ASSUME OutcomeInv, NEW r \in Runs, NEW from \in BeforePost \ {"idle"},
         NEW o \in {"FAILED", "FAILED_INTEGRITY", "SKIPPED_SAFETY_PAUSE",
                    "SKIPPED_AUTOMATION_ONLY", "SKIPPED_ALREADY_PUBLISHED"},
         Resolve(r, from, o),
         UNCHANGED <<branch, live, checkout, disk>>,
         o = "SKIPPED_ALREADY_PUBLISHED" =>
           local[r][day[r]].kind = "pass" /\ local[r][day[r]].url # r
  PROVE  RunFacts(r)'
<1>1. /\ stage[r] = from /\ stage'[r] = "push"
      /\ outcome'[r] = o /\ appended'[r] = FALSE
  BY DEF Resolve, Advance, OutcomeInv, TruthInv, TypeOK
<1>2. live[r] = 0
  BY <1>1 DEF OutcomeInv, FreshInv
<1>3. base[r] = head => local[r] = registry /\ localRecent[r] = recent
  BY <1>1 DEF OutcomeInv, RunFacts, Untouched, Running, BeforePost
<1>4. PostedOnce(r)' /\ AppendedIsLast(r)' /\ Untouched(r)'
  BY <1>1 DEF PostedOnce, AppendedIsLast, Untouched, BeforePost
<1>5. OutcomeHolds(r)'
  BY <1>1, <1>2, <1>3 DEF OutcomeHolds, branch, checkout, disk
<1> QED
  BY <1>4, <1>5 DEF RunFacts

(* The last posts are a suffix of the posts, of at least one and at most   *)
(* the limit.                                                              *)
LEMMA LastPostsAre ==
  ASSUME NEW posts \in Seq(Runs), posts # <<>>
  PROVE  \E dropped \in Nat :
           /\ LastPosts(posts) \in Seq(Runs)
           /\ Len(LastPosts(posts)) + dropped = Len(posts)
           /\ Len(LastPosts(posts)) \in 1 .. RECENT_POSTS_LIMIT
           /\ \A i \in 1 .. Len(LastPosts(posts)) : LastPosts(posts)[i] = posts[i + dropped]
<1>1. RECENT_POSTS_LIMIT \in Nat \ {0} /\ Len(posts) \in Nat /\ Len(posts) # 0
  BY PublishAssumption
<1>2. CASE Len(posts) <= RECENT_POSTS_LIMIT
  <2>1. LastPosts(posts) = posts
    BY <1>2 DEF LastPosts
  <2>2. /\ LastPosts(posts) \in Seq(Runs)
        /\ Len(LastPosts(posts)) + 0 = Len(posts)
        /\ Len(LastPosts(posts)) \in 1 .. RECENT_POSTS_LIMIT
        /\ \A i \in 1 .. Len(LastPosts(posts)) : LastPosts(posts)[i] = posts[i + 0]
    BY <1>1, <1>2, <2>1
  <2> QED
    BY <2>2
<1>3. CASE ~(Len(posts) <= RECENT_POSTS_LIMIT)
  <2> DEFINE m == Len(posts) - RECENT_POSTS_LIMIT + 1
             dropped == Len(posts) - RECENT_POSTS_LIMIT
  <2>1. m \in Int /\ Len(posts) \in Int /\ m >= 1 /\ m <= Len(posts) /\ dropped \in Nat
    BY <1>1, <1>3
  <2>2. \A i \in m .. Len(posts) : posts[i] \in Runs
    BY <2>1
  <2>3. LastPosts(posts) = SubSeq(posts, m, Len(posts))
    BY <1>3 DEF LastPosts
  <2>4. /\ LastPosts(posts) \in Seq(Runs)
        /\ Len(LastPosts(posts)) = RECENT_POSTS_LIMIT
        /\ \A i \in 1 .. RECENT_POSTS_LIMIT : LastPosts(posts)[i] = posts[m + i - 1]
    BY <1>1, <2>1, <2>2, <2>3, SubSeqProperties
  <2>5. \A i \in 1 .. RECENT_POSTS_LIMIT : m + i - 1 = i + dropped
    BY <1>1
  <2>6. /\ Len(LastPosts(posts)) + dropped = Len(posts)
        /\ Len(LastPosts(posts)) \in 1 .. RECENT_POSTS_LIMIT
        /\ \A i \in 1 .. Len(LastPosts(posts)) : LastPosts(posts)[i] = posts[i + dropped]
    BY <1>1, <2>4, <2>5
  <2> QED
    BY <2>1, <2>4, <2>6
<1> QED
  BY <1>2, <1>3

LEMMA LastPostsEnd ==
  ASSUME NEW posts \in Seq(Runs), NEW r \in Runs
  PROVE  LET kept == LastPosts(Append(posts, r)) IN kept # <<>> /\ kept[Len(kept)] = r
<1> DEFINE longer == Append(posts, r)
           kept == LastPosts(longer)
<1>1. longer \in Seq(Runs) /\ longer # <<>> /\ longer[Len(longer)] = r
  OBVIOUS
<1> HIDE DEF longer
<1>2. PICK dropped \in Nat :
        /\ kept \in Seq(Runs)
        /\ Len(kept) + dropped = Len(longer)
        /\ Len(kept) \in 1 .. RECENT_POSTS_LIMIT
        /\ \A i \in 1 .. Len(kept) : kept[i] = longer[i + dropped]
  BY <1>1, LastPostsAre
<1> HIDE DEF kept
<1>3. kept # <<>> /\ kept[Len(kept)] = longer[Len(kept) + dropped]
  BY <1>2
<1>4. kept # <<>> /\ kept[Len(kept)] = r
  BY <1>1, <1>2, <1>3
<1> QED
  BY <1>4 DEF kept, longer


LEMMA FactsOfRun ==
  ASSUME OutcomeInv, NEW r \in Runs, Checkout(r) \/ Step(r) \/ Crash(r)
  PROVE  RunFacts(r)'
<1>1. /\ TypeOK /\ RunFacts(r) /\ RecordsTruthful
      /\ PostedOnce(r) /\ AppendedIsLast(r) /\ Untouched(r)
  BY DEF OutcomeInv, TruthInv, RunFacts
<1>2. /\ stage \in [Runs -> Stages] /\ live \in [Runs -> Nat] /\ day \in [Runs -> Dates]
      /\ local \in [Runs -> [Dates -> R!File]] /\ localRecent \in [Runs -> RecentFile]
      /\ appended \in [Runs -> BOOLEAN] /\ outcome \in [Runs -> Outcomes \cup {"none"}]
      /\ base \in [Runs -> Nat]
  BY <1>1 DEF TypeOK
<1>3. CASE Checkout(r)
  <2>1. /\ stage[r] = "idle" /\ stage'[r] = "preflight"
        /\ local'[r] = registry /\ localRecent'[r] = recent
        /\ appended'[r] = appended[r] /\ UNCHANGED branch
    BY <1>2, <1>3 DEF Checkout, Advance, memory
  <2>2. ~appended[r]
    BY <2>1, NotAppended
  <2> QED
    BY <2>1, <2>2 DEF RunFacts, PostedOnce, AppendedIsLast, Untouched, OutcomeHolds, branch
<1>4. CASE Crash(r) \/ Push(r)
  <2>1. /\ stage'[r] \in {"crashed", "done"}
        /\ appended'[r] = FALSE
    <3>1. stage[r] # "record" => ~appended[r]
      BY NotAppended
    <3> QED
      BY <1>2, <1>4, <3>1 DEF Crash, Push, Advance, memory
  <2> QED
    BY <2>1 DEF RunFacts, PostedOnce, AppendedIsLast, Untouched, OutcomeHolds, BeforePost
<1>5. CASE Preflight(r)
  <2>1. UNCHANGED <<branch, live, checkout, disk>>
    BY <1>5 DEF Preflight
  <2>2. \/ Resolve(r, "preflight", "SKIPPED_SAFETY_PAUSE")
        \/ Resolve(r, "preflight", "FAILED")
        \/ Advance(r, "preflight", "adapt") /\ UNCHANGED <<memory, outcome>>
    BY <1>5 DEF Preflight
  <2> QED
    BY <2>1, <2>2, FactsResolving, FactsAdvancing DEF BeforePost, memory
<1>6. CASE Adapt(r)
  <2>1. UNCHANGED <<branch, live, checkout, disk>>
    BY <1>6 DEF Adapt
  <2>2. \/ Resolve(r, "adapt", "FAILED")
        \/ Advance(r, "adapt", "guard") /\ UNCHANGED <<appended, outcome>>
    BY <1>6 DEF Adapt
  <2> QED
    BY <2>1, <2>2, FactsResolving, FactsAdvancing DEF BeforePost
<1>7. CASE Guard(r)
  <2>1. UNCHANGED <<branch, live, checkout, disk>>
    BY <1>7 DEF Guard
  <2>2. \/ Resolve(r, "guard", "FAILED")
        \/ Resolve(r, "guard", "SKIPPED_ALREADY_PUBLISHED") /\ local[r][day[r]].kind = "pass"
        \/ Advance(r, "guard", "gate") /\ UNCHANGED <<memory, outcome>>
    BY <1>7 DEF Guard, R!AlreadyPublished, RegistryFile, ContentId
  <2>3. stage[r] = "guard"
    BY <2>2 DEF Resolve, Advance
  <2>4. local[r][day[r]].kind = "pass" => local[r][day[r]].url # r
    <3>1. live[r] = 0
      BY <2>3 DEF OutcomeInv, FreshInv, BeforePost
    <3> QED
      BY <1>1, <1>2, <3>1 DEF RecordsTruthful
  <2> QED
    BY <2>1, <2>2, <2>4, FactsResolving, FactsAdvancing DEF BeforePost, memory
<1>8. CASE Gate(r)
  <2>0. UNCHANGED <<branch, live, checkout, localRecent>> /\ stage[r] = "gate"
    BY <1>8 DEF Gate
  <2>1. \/ Resolve(r, "gate", "FAILED_INTEGRITY") /\ local' = local
        \/ Advance(r, "gate", "prompt") /\ UNCHANGED <<local, memory, outcome>>
        \/ Resolve(r, "gate", "FAILED")
        \/ /\ Resolve(r, "gate", "SKIPPED_NO_ELIGIBLE_CONTENT")
           /\ local' = [local EXCEPT ![r][day[r]] = BlockRecordOf(units[r])]
    BY <1>8 DEF Gate, WriteBlock, ContentId
  <2>2. CASE Resolve(r, "gate", "FAILED_INTEGRITY") /\ local' = local
    BY <2>0, <2>2, FactsResolving DEF BeforePost, disk
  <2>3. CASE Advance(r, "gate", "prompt") /\ UNCHANGED <<local, memory, outcome>>
    BY <2>0, <2>3, FactsAdvancing DEF BeforePost, disk, memory
  <2>4. ASSUME NEW o, Resolve(r, "gate", o), o \in {"FAILED", "SKIPPED_NO_ELIGIBLE_CONTENT"},
               o = "SKIPPED_NO_ELIGIBLE_CONTENT" => local'[r][day[r]].kind = "block"
        PROVE  RunFacts(r)'
    <3>1. stage'[r] = "push" /\ outcome'[r] = o /\ appended'[r] = FALSE
      BY <1>2, <2>4 DEF Resolve, Advance
    <3>2. live[r] = 0 /\ (localRecent[r] = recent \/ base[r] # head)
      BY <1>1, <2>0 DEF OutcomeInv, FreshInv, BeforePost, Untouched, Running
    <3>3. OutcomeHolds(r)'
      BY <2>0, <2>4, <3>1, <3>2 DEF OutcomeHolds, Skipped, branch, checkout
    <3> QED
      BY <3>1, <3>3 DEF RunFacts, PostedOnce, AppendedIsLast, Untouched, BeforePost
  <2>5. CASE /\ Resolve(r, "gate", "SKIPPED_NO_ELIGIBLE_CONTENT")
             /\ local' = [local EXCEPT ![r][day[r]] = BlockRecordOf(units[r])]
    <3>1. local'[r][day[r]] = BlockRecordOf(units[r])
      BY <1>2, <2>5
    <3>2. local'[r][day[r]].kind = "block"
      BY <3>1 DEF BlockRecordOf, R!BlockRecord
    <3> QED
      BY <2>4, <2>5, <3>2
  <2>6. CASE Resolve(r, "gate", "FAILED")
    BY <2>4, <2>6
  <2> QED
    BY <2>1, <2>2, <2>3, <2>5, <2>6
<1>9. CASE Prompt(r) \/ CallModel(r) \/ Validate(r)
  <2>1. UNCHANGED <<branch, live, checkout, disk>>
    BY <1>9 DEF Prompt, CallModel, Validate
  <2>2. \/ Resolve(r, "prompt", "FAILED") \/ Resolve(r, "model", "FAILED")
        \/ Resolve(r, "validate", "FAILED") \/ Resolve(r, "validate", "SKIPPED_AUTOMATION_ONLY")
        \/ Advance(r, "prompt", "model") /\ UNCHANGED <<appended, outcome>>
        \/ Advance(r, "model", "validate") /\ UNCHANGED <<appended, outcome>>
        \/ Advance(r, "validate", "publish") /\ UNCHANGED <<appended, outcome>>
    BY <1>9 DEF Prompt, CallModel, Validate, memory
  <2> QED
    BY <2>1, <2>2, FactsResolving, FactsAdvancing DEF BeforePost
<1>10. CASE Publish(r)
  <2>1. stage[r] = "publish" /\ ~appended[r]
    BY <1>10, NotAppended DEF Publish, Advance, Resolve
  <2>2. live[r] = 0
    BY <2>1 DEF OutcomeInv, FreshInv, BeforePost
  <2>3. \/ stage'[r] = "append" /\ live'[r] = 1 /\ appended'[r] = appended[r]
        \/ stage'[r] = "push" /\ outcome'[r] = "FAILED" /\ appended'[r] = FALSE
    BY <1>2, <1>10, <2>2 DEF Publish, Advance, Resolve, memory
  <2>4. "FAILED" \notin Skipped \cup {"FAILED_INTEGRITY"}
    BY DEF Skipped
  <2> QED
    BY <2>1, <2>3, <2>4 DEF RunFacts, PostedOnce, AppendedIsLast, Untouched, OutcomeHolds,
                            BeforePost
<1>11. CASE AppendRecent(r)
  <2>1. stage[r] = "append" /\ stage'[r] = "record" /\ live' = live /\ ~appended[r]
    BY <1>2, <1>11, NotAppended DEF AppendRecent, Advance
  <2>2. \/ appended' = appended
        \/ localRecent' = [localRecent EXCEPT ![r].posts = LastPosts(Append(@, r))]
    BY <1>11 DEF AppendRecent
  <2>3. localRecent[r].posts \in Seq(Runs)
    BY <1>2 DEF RecentFile
  <2>4. CASE localRecent' = [localRecent EXCEPT ![r].posts = LastPosts(Append(@, r))]
    <3>1. localRecent'[r].posts = LastPosts(Append(localRecent[r].posts, r))
      BY <1>2, <2>4 DEF RecentFile
    <3>2. localRecent'[r].posts # <<>> /\ localRecent'[r].posts[Len(localRecent'[r].posts)] = r
      BY <2>3, <3>1, LastPostsEnd
    <3> QED
      BY <1>1, <2>1, <3>2 DEF RunFacts, PostedOnce, AppendedIsLast, Untouched, OutcomeHolds,
                              BeforePost
  <2>5. CASE appended' = appended
    BY <1>1, <2>1, <2>5 DEF RunFacts, PostedOnce, AppendedIsLast, Untouched, OutcomeHolds,
                            BeforePost
  <2> QED
    BY <2>2, <2>4, <2>5
<1>12. CASE RecordPass(r)
  <2>1. /\ stage[r] = "record" /\ live[r] = 1
        /\ UNCHANGED <<live, checkout, localRecent>>
    BY <1>1, <1>12 DEF RecordPass, PostedOnce
  <2>2. \/ Resolve(r, "record", "FAILED")
        \/ /\ Resolve(r, "record", RecordedOutcome(r))
           /\ local' = [local EXCEPT ![r][day[r]] =
                          R!PassRecord(r, FirstClaim(units[r], RunContexts(units[r])))]
    BY <1>12 DEF RecordPass, ContentId
  <2>3. stage'[r] = "push" /\ appended'[r] = FALSE
    BY <1>2, <2>2 DEF Resolve, Advance
  <2>4. outcome'[r] \notin Skipped \cup {"FAILED_INTEGRITY"}
    BY <1>2, <2>2 DEF Resolve, RecordedOutcome, Skipped
  <2>5. outcome'[r] = "PUBLISHED" =>
          /\ local'[r][day[r]].kind = "pass" /\ local'[r][day[r]].url = r
          /\ appended[r]
    <3>1. CASE Resolve(r, "record", "FAILED")
      BY <1>2, <3>1 DEF Resolve
    <3>2. CASE /\ Resolve(r, "record", RecordedOutcome(r))
               /\ local' = [local EXCEPT ![r][day[r]] =
                              R!PassRecord(r, FirstClaim(units[r], RunContexts(units[r])))]
      <4>1. local'[r][day[r]] = R!PassRecord(r, FirstClaim(units[r], RunContexts(units[r])))
        BY <1>2, <3>2
      <4>2. outcome'[r] = RecordedOutcome(r)
        BY <1>2, <3>2 DEF Resolve
      <4> QED
        BY <4>1, <4>2 DEF RecordedOutcome, R!PassRecord
    <3> QED
      BY <2>2, <3>1, <3>2
  <2>6. OutcomeHolds(r)'
    BY <1>1, <2>1, <2>4, <2>5 DEF OutcomeHolds, AppendedIsLast, checkout, Skipped
  <2> QED
    BY <2>3, <2>6 DEF RunFacts, PostedOnce, AppendedIsLast, Untouched, BeforePost
<1> QED
  BY <1>3, <1>4, <1>5, <1>6, <1>7, <1>8, <1>9, <1>10, <1>11, <1>12 DEF Step

LEMMA InitOutcomeInv == Init => OutcomeInv
<1> SUFFICES ASSUME Init PROVE OutcomeInv
  OBVIOUS
<1>1. TruthInv /\ CheckoutInv /\ FreshInv
  BY InitTruth, InitCheckout DEF Init, FreshInv
<1>2. \A r \in Runs : RunFacts(r)
  BY DEF Init, RunFacts, PostedOnce, AppendedIsLast, Untouched, OutcomeHolds, Running
<1> QED
  BY <1>1, <1>2 DEF OutcomeInv

LEMMA NextOutcomeInv == OutcomeInv /\ [Next]_vars => OutcomeInv'
<1> SUFFICES ASSUME OutcomeInv, [Next]_vars PROVE OutcomeInv'
  OBVIOUS
<1>1. TruthInv' /\ CheckoutInv' /\ FreshInv'
  BY NextTruth, NextCheckout, NextFresh DEF OutcomeInv, TruthInv
<1>2. CASE UNCHANGED vars
  <2>1. \A s \in Runs : RunFacts(s)'
    BY <1>2 DEF OutcomeInv, RunFacts, PostedOnce, AppendedIsLast, Untouched, OutcomeHolds,
       Running, vars, branch, checkout, disk, memory
  <2> QED
    BY <1>1, <2>1 DEF OutcomeInv
<1>3. ASSUME NEW r \in Runs, Checkout(r) \/ Step(r) \/ Crash(r) PROVE OutcomeInv'
  <2>1. \A s \in Runs : RunFacts(s)'
    BY <1>3, FactsOfRun, FactsOfOthers
  <2> QED
    BY <1>1, <2>1 DEF OutcomeInv
<1> QED
  BY <1>2, <1>3 DEF Next

(***************************************************************************)
(* What run() reports is so, under every fault and however runs overlap:   *)
(* PUBLISHED is live, recorded under its own URL and last in the recent    *)
(* posts, and a skip or an integrity failure posted and wrote nothing but  *)
(* a block record (daily_publish.py, run).                                 *)
(***************************************************************************)
THEOREM OutcomesAreTruthful == Spec => []OutcomeTruthful
<1>1. OutcomeInv => OutcomeTruthful
  BY DEF OutcomeInv, RunFacts, OutcomeHolds, OutcomeTruthful
<1> QED
  BY <1>1, InitOutcomeInv, NextOutcomeInv, PTL DEF Spec

-----------------------------------------------------------------------------
(* The prompt holds what was verified.                                     *)

(* A unit holds its own repository's messages and the adapter's status. *)
UnitHolds(unit) ==
  /\ \A m \in unit.messages : m.repo = unit.repo
  /\ unit.corroboration \in AdapterStatuses

UnitsInv == \A r \in Runs : \A i \in DOMAIN units[r] : UnitHolds(units[r][i])

LEMMA AdaptHolds ==
  ASSUME NEW brief, NEW token, NEW answers, NEW status \in AdapterStatuses,
         NEW i \in DOMAIN AdaptDailyBrief(brief, token, answers, status)
  PROVE  UnitHolds(AdaptDailyBrief(brief, token, answers, status)[i])
BY DEF AdaptDailyBrief, UnitHolds, MessagesByRepo

LEMMA NextUnits ==
  ASSUME TypeOK, UnitsInv, [Next]_vars
  PROVE  UnitsInv'
<1>0. units \in [Runs -> Seq(Unit)]
  BY DEF TypeOK
<1>1. CASE UNCHANGED vars
  BY <1>1 DEF vars, memory, UnitsInv
<1>2. ASSUME NEW r \in Runs, Checkout(r) \/ Step(r) \/ Crash(r) PROVE UnitsInv'
  <2>1. \A s \in Runs \ {r} : units'[s] = units[s]
    BY <1>2, OthersKeep
  <2>2. \/ units'[r] = units[r]
        \/ units'[r] = <<>>
        \/ \E brief \in Briefs, token \in BOOLEAN, answers \in [Repos -> Answers],
              status \in AdapterStatuses :
             units'[r] = AdaptDailyBrief(brief, token, answers, status)
    BY <1>0, <1>2 DEF Checkout, Crash, Step, Preflight, Adapt, Guard, Gate, WriteBlock, Prompt,
       CallModel, Validate, Publish, AppendRecent, RecordPass, Push, Resolve, memory
  <2>3. \A i \in DOMAIN units'[r] : UnitHolds(units'[r][i])
    BY <2>2, AdaptHolds DEF UnitsInv
  <2> QED
    BY <2>1, <2>3 DEF UnitsInv
<1> QED
  BY <1>1, <1>2 DEF Next

(* What a run frames is what the pre-filter includes, no less and no more. *)
LEMMA ContextsAreIncluded ==
  ASSUME NEW us \in Seq(Unit)
  PROVE  RunContexts(us) = {i \in DOMAIN us : ClassifyUnit(us[i]) = "include"}
<1>1. ASSUME NEW i \in DOMAIN us
      PROVE  Treatments(us)[i].final = ClassifyUnit(us[i])
  <2>1. Treatments(us)[i] =
          BuildClaimTreatment(us[i],
            IF ClassifyUnit(us[i]) = "include" THEN Restated ELSE Unframed, 1)
    BY <1>1 DEF Treatments
  <2>2. CASE ClassifyUnit(us[i]) = "include"
    BY <2>1, <2>2 DEF BuildClaimTreatment, Restated, RequestedFinal, Refused, Warranted
  <2>3. CASE ClassifyUnit(us[i]) # "include"
    BY <2>1, <2>3 DEF BuildClaimTreatment, Restated, Unframed, RequestedFinal, Refused, Warranted
  <2> QED
    BY <2>2, <2>3
<1> QED
  BY <1>1 DEF RunContexts, Contexts

LEMMA OfferedIsVerified ==
  ASSUME TypeOK, UnitsInv, NEW r \in Runs,
         NEW m \in OfferedMessages(units[r], RunContexts(units[r]))
  PROVE  \E i \in DOMAIN units[r] :
           units[r][i].repo = m.repo /\ units[r][i].integrity = "valid"
<1>1. units[r] \in Seq(Unit)
  BY DEF TypeOK
<1>2. PICK i \in RunContexts(units[r]) : m \in units[r][i].messages
  BY DEF OfferedMessages
<1>3. i \in DOMAIN units[r] /\ ClassifyUnit(units[r][i]) = "include"
  BY <1>1, <1>2, ContextsAreIncluded
<1>4. units[r][i].integrity = "valid"
  BY <1>3 DEF ClassifyUnit
<1>5. m.repo = units[r][i].repo
  BY <1>2, <1>3 DEF UnitsInv, UnitHolds
<1> QED
  BY <1>3, <1>4, <1>5

(***************************************************************************)
(* No message of a repository whose unit was not verified in this run is   *)
(* offered to the model, whatever briefs and answers come (collector.py,   *)
(* _messages_by_repo; pre_filter.py, classify_unit).                       *)
(***************************************************************************)
THEOREM PromptIsVerified == Spec => []PromptOnlyVerified
<1>1. Init => TypeOK /\ UnitsInv
  <2>1. Init => UnitsInv
    BY DEF Init, UnitsInv
  <2> QED
    BY <2>1, InitTypeOK
<1>2. TypeOK /\ UnitsInv /\ [Next]_vars => (TypeOK /\ UnitsInv)'
  BY NextTypeOK, NextUnits
<1>3. TypeOK /\ UnitsInv => PromptOnlyVerified
  BY OfferedIsVerified DEF PromptOnlyVerified
<1> QED
  BY <1>1, <1>2, <1>3, PTL DEF Spec

-----------------------------------------------------------------------------
(* The recent posts are posts.                                             *)

(* A recent posts file names posts that are live, each once, within the    *)
(* limit.                                                                  *)
Genuine(file) ==
  /\ Len(file.posts) <= RECENT_POSTS_LIMIT
  /\ \A i \in DOMAIN file.posts :
       /\ live[file.posts[i]] > 0
       /\ \A j \in DOMAIN file.posts : file.posts[i] = file.posts[j] => i = j

Lists(file, r) == \E i \in DOMAIN file.posts : file.posts[i] = r

RecentFiles == {recent} \cup {localRecent[s] : s \in Runs}

(* A run that is about to append its post is in no file yet. *)
RecentInv ==
  /\ \A file \in RecentFiles : Genuine(file)
  /\ \A r \in Runs, file \in RecentFiles : stage[r] = "append" => ~Lists(file, r)

LEMMA EmptyFiles ==
  /\ NoPosts \in RecentFile /\ CorruptPosts \in RecentFile
  /\ Genuine(NoPosts)' /\ Genuine(CorruptPosts)'
  /\ \A r : ~Lists(NoPosts, r) /\ ~Lists(CorruptPosts, r)
<1>1. RECENT_POSTS_LIMIT \in Nat
  BY PublishAssumption
<1> QED
  BY <1>1 DEF NoPosts, CorruptPosts, RecentFile, Genuine, Lists

(* The file append_recent_post leaves. *)
LEMMA AppendIsGenuine ==
  ASSUME TypeOK, NEW file \in RecentFile, Genuine(file), NEW r \in Runs, ~Lists(file, r),
         live[r] > 0, live' = live,
         NEW left, left.posts = LastPosts(Append(file.posts, r))
  PROVE  /\ Genuine(left)'
         /\ \A s \in Runs : Lists(left, s) => s = r \/ Lists(file, s)
<1> DEFINE longer == Append(file.posts, r)
           kept == LastPosts(longer)
<1>1. file.posts \in Seq(Runs) /\ live \in [Runs -> Nat]
  BY DEF RecentFile, TypeOK
<1>2. /\ longer \in Seq(Runs) /\ longer # <<>>
      /\ Len(longer) = Len(file.posts) + 1
      /\ longer[Len(longer)] = r
  BY <1>1
<1>3. \A i \in 1 .. Len(file.posts) : longer[i] = file.posts[i]
  BY <1>1
<1>4. Len(file.posts) \in Nat /\ DOMAIN file.posts = 1 .. Len(file.posts)
  BY <1>1
<1> HIDE DEF longer
<1>5. \A i \in 1 .. Len(longer) :
        \/ i = Len(longer) /\ longer[i] = r
        \/ i \in DOMAIN file.posts /\ longer[i] = file.posts[i]
  BY <1>2, <1>3, <1>4
<1>6. ASSUME NEW i \in 1 .. Len(longer)
      PROVE  /\ live[longer[i]] > 0
             /\ \A j \in 1 .. Len(longer) : longer[i] = longer[j] => i = j
  BY <1>5, <1>6 DEF Genuine, Lists
<1>7. PICK dropped \in Nat :
        /\ kept \in Seq(Runs)
        /\ Len(kept) + dropped = Len(longer)
        /\ Len(kept) \in 1 .. RECENT_POSTS_LIMIT
        /\ \A i \in 1 .. Len(kept) : kept[i] = longer[i + dropped]
  BY <1>2, LastPostsAre
<1> HIDE DEF kept
<1>8. \A i \in 1 .. Len(kept) : i + dropped \in 1 .. Len(longer)
  BY <1>2, <1>4, <1>7
<1>9. RECENT_POSTS_LIMIT \in Nat /\ left.posts = kept
  BY PublishAssumption DEF kept, longer
<1>10. DOMAIN kept = 1 .. Len(kept) /\ Len(kept) \in Nat
  BY <1>7
<1>11. Len(kept) <= RECENT_POSTS_LIMIT
  BY <1>7, <1>9
<1>12. ASSUME NEW i \in DOMAIN kept
       PROVE  /\ live[kept[i]] > 0
              /\ \A j \in DOMAIN kept : kept[i] = kept[j] => i = j
  BY <1>6, <1>7, <1>8, <1>10, <1>12
<1>13. Genuine(left)'
  BY <1>9, <1>11, <1>12 DEF Genuine
<1>14. \A s \in Runs : Lists(left, s) => s = r \/ Lists(file, s)
  BY <1>5, <1>7, <1>8, <1>9, <1>10 DEF Lists
<1> QED
  BY <1>13, <1>14

(* A step of a run, by what becomes of its own file. *)
LEMMA RecentSources ==
  ASSUME TypeOK, NEW r \in Runs, Checkout(r) \/ Step(r) \/ Crash(r)
  PROVE  /\ recent' \in {recent, localRecent[r]}
         /\ \/ localRecent'[r] \in RecentFiles \cup {NoPosts, CorruptPosts}
            \/ /\ AppendRecent(r)
               /\ localRecent'[r].posts = LastPosts(Append(localRecent[r].posts, r))
<1>0. localRecent \in [Runs -> RecentFile]
  BY DEF TypeOK
<1>1. recent' \in {recent, localRecent[r]}
  BY BranchMoves DEF branch
<1>2. CASE Checkout(r)
  BY <1>0, <1>1, <1>2 DEF Checkout, RecentFiles
<1>3. CASE Crash(r) \/ Push(r)
  BY <1>0, <1>1, <1>3 DEF Crash, Push, Discard
<1>4. CASE AppendRecent(r)
  <2>1. \/ localRecent' = [localRecent EXCEPT ![r].posts = LastPosts(Append(@, r))]
        \/ \E left \in {localRecent[r], CorruptPosts} :
             localRecent' = [localRecent EXCEPT ![r] = left]
    BY <1>4 DEF AppendRecent
  <2>2. CASE localRecent' = [localRecent EXCEPT ![r].posts = LastPosts(Append(@, r))]
    BY <1>0, <1>1, <1>4, <2>2 DEF RecentFile
  <2>3. CASE \E left \in {localRecent[r], CorruptPosts} :
               localRecent' = [localRecent EXCEPT ![r] = left]
    BY <1>0, <1>1, <2>3 DEF RecentFiles
  <2> QED
    BY <2>1, <2>2, <2>3
<1>5. CASE Step(r) /\ ~Push(r) /\ ~AppendRecent(r)
  BY <1>1, <1>5 DEF Step, Preflight, Adapt, Guard, Gate, Prompt, CallModel, Validate, Publish,
     RecordPass, disk, RecentFiles
<1> QED
  BY <1>2, <1>3, <1>4, <1>5

(* A run that reaches its append has just posted, and was in no file. *)
LEMMA ReachesAppend ==
  ASSUME TypeOK, NEW r \in Runs, Checkout(r) \/ Step(r) \/ Crash(r), stage'[r] = "append"
  PROVE  /\ Publish(r) /\ stage[r] = "publish"
         /\ recent' = recent /\ localRecent' = localRecent
<1>1. stage \in [Runs -> Stages]
  BY DEF TypeOK
<1>2. Publish(r)
  BY <1>1 DEF Checkout, Crash, Step, Preflight, Adapt, Guard, Gate, WriteBlock, Prompt,
     CallModel, Validate, AppendRecent, RecordPass, Push, Resolve, Advance
<1> QED
  BY <1>2 DEF Publish, Resolve, Advance, branch, disk

LEMMA NextRecent ==
  ASSUME TypeOK, PostedBeforeRecord, FreshInv, RecentInv, [Next]_vars
  PROVE  RecentInv'
<1>0. /\ live \in [Runs -> Nat] /\ localRecent \in [Runs -> RecentFile]
      /\ recent \in RecentFile
      /\ \A s \in Runs : live[s] > 0 => live'[s] > 0
  BY LiveGrows DEF TypeOK
<1>1. CASE UNCHANGED vars
  BY <1>1 DEF vars, branch, disk, RecentInv, RecentFiles, Genuine, Lists
<1>2. ASSUME NEW r \in Runs, Checkout(r) \/ Step(r) \/ Crash(r) PROVE RecentInv'
  <2> DEFINE Old == RecentFiles \cup {NoPosts, CorruptPosts}
             appends == /\ AppendRecent(r)
                        /\ localRecent'[r].posts = LastPosts(Append(localRecent[r].posts, r))
  <2>1. \A s \in Runs \ {r} : stage'[s] = stage[s] /\ localRecent'[s] = localRecent[s]
    BY <1>2, OthersKeep
  <2>2. recent' \in {recent, localRecent[r]} /\ (localRecent'[r] \in Old \/ appends)
    BY <1>2, RecentSources
  <2>3. RecentFiles' \subseteq Old \cup {localRecent'[r]}
    BY <2>1, <2>2 DEF RecentFiles
  <2>4. \A file \in Old : Genuine(file)'
    <3>1. ASSUME NEW file \in RecentFiles PROVE Genuine(file)'
      <4>1. file \in RecentFile /\ Genuine(file)
        BY <1>0 DEF RecentFiles, RecentInv
      <4>2. \A i \in DOMAIN file.posts : file.posts[i] \in Runs
        BY <4>1 DEF RecentFile
      <4> QED
        BY <1>0, <4>1, <4>2 DEF Genuine
    <3> QED
      BY <3>1, EmptyFiles
  <2>5. ASSUME NEW s \in Runs, NEW file \in Old, Lists(file, s) PROVE stage'[s] # "append"
    <3>1. file \in RecentFiles
      BY <2>5, EmptyFiles
    <3>2. Genuine(file) /\ stage[s] # "append"
      BY <2>5, <3>1 DEF RecentInv
    <3>3. live[s] > 0
      BY <2>5, <3>2 DEF Genuine, Lists
    <3>4. CASE s = r
      <4>1. stage'[r] = "append" => live[r] = 0
        BY <1>2, ReachesAppend DEF FreshInv, BeforePost
      <4> QED
        BY <3>3, <3>4, <4>1
    <3> QED
      BY <2>1, <3>2, <3>4
  <2>6. CASE localRecent'[r] \in Old
    <3>1. RecentFiles' \subseteq Old
      BY <2>3, <2>6
    <3> QED
      BY <2>4, <2>5, <3>1 DEF RecentInv
  <2>7. CASE appends
    <3>1. stage[r] = "append" /\ stage'[r] = "record" /\ live' = live
      BY <2>7 DEF AppendRecent, Advance, TypeOK
    <3>2. /\ localRecent[r] \in RecentFile /\ Genuine(localRecent[r])
          /\ ~Lists(localRecent[r], r) /\ live[r] > 0
      BY <1>0, <3>1 DEF RecentInv, RecentFiles, PostedBeforeRecord
    <3>3. PICK left : left = localRecent'[r]
      OBVIOUS
    <3>4. left.posts = LastPosts(Append(localRecent[r].posts, r))
      BY <2>7, <3>3
    <3>5. /\ Genuine(left)'
          /\ \A s \in Runs : Lists(left, s) => s = r \/ Lists(localRecent[r], s)
      BY <3>1, <3>2, <3>4, AppendIsGenuine
    <3>6. \A s \in Runs : Lists(left, s) => stage'[s] # "append"
      BY <2>5, <3>1, <3>5 DEF RecentFiles
    <3> QED
      BY <2>3, <2>4, <2>5, <3>3, <3>5, <3>6 DEF RecentInv
  <2> QED
    BY <2>2, <2>6, <2>7
<1> QED
  BY <1>1, <1>2 DEF Next

LEMMA InitRecent == Init => RecentInv
<1> SUFFICES ASSUME Init PROVE RecentInv
  OBVIOUS
<1>1. RECENT_POSTS_LIMIT \in Nat
  BY PublishAssumption
<1>2. Genuine(NoPosts)
  BY <1>1 DEF NoPosts, Genuine
<1>3. \A file \in RecentFiles : file = NoPosts
  BY DEF Init, RecentFiles
<1>4. \A r \in Runs : stage[r] # "append"
  BY DEF Init
<1> QED
  BY <1>2, <1>3, <1>4 DEF RecentInv

(***************************************************************************)
(* Every stored recent post was made, none is stored twice and they stay   *)
(* within the limit, whatever writes fail half way and whatever pushes are *)
(* rejected (identity_state.py, append_recent_post).                       *)
(***************************************************************************)
THEOREM RecentPostsAreGenuine == Spec => []RecentPostsGenuine
<1> DEFINE Inv == TruthInv /\ FreshInv /\ RecentInv
<1>1. Init => Inv
  <2>1. Init => FreshInv
    BY DEF Init, FreshInv
  <2> QED
    BY <2>1, InitTruth, InitRecent
<1>2. Inv /\ [Next]_vars => Inv'
  BY NextTruth, NextFresh, NextRecent DEF TruthInv
<1>3. Inv => RecentPostsGenuine
  BY DEF RecentInv, RecentFiles, Genuine, RecentPostsGenuine
<1> QED
  BY <1>1, <1>2, <1>3, PTL DEF Spec

-----------------------------------------------------------------------------
(* With the Collector adapter no block record is written.                  *)

LEMMA CollectorGate ==
  ASSUME AdapterStatuses = {"not_applicable"}, TypeOK, UnitsInv, NEW r \in Runs,
         Gated(units[r])
  PROVE  IntegrityViolations(units[r]) # {}
<1>1. units[r] \in Seq(Unit) /\ units[r] # <<>>
  BY DEF TypeOK, Gated
<1>2. 1 \in DOMAIN units[r] /\ units[r][1] \in Unit
  BY <1>1
<1>3. ClassifyUnit(units[r][1]) = "exclude" /\ units[r][1].corroboration = "not_applicable"
  BY <1>2 DEF Gated, UnitsInv, UnitHolds
<1>4. units[r][1].integrity = "invalid"
  BY <1>2, <1>3 DEF ClassifyUnit, Unit
<1> QED
  BY <1>2, <1>3, <1>4 DEF IntegrityViolations

(* So the gate leaves the Registry directory alone. *)
LEMMA CollectorGateWrites ==
  ASSUME AdapterStatuses = {"not_applicable"}, TypeOK, UnitsInv, NEW r \in Runs, Gate(r)
  PROVE  local' = local
BY CollectorGate DEF Gate

LEMMA CollectorWrites ==
  ASSUME AdapterStatuses = {"not_applicable"}, TypeOK, UnitsInv, NEW r \in Runs,
         Gate(r) \/ RecordPass(r)
  PROVE  \/ local' = local
         \/ \E file : file.kind # "block" /\ local' = [local EXCEPT ![r][day[r]] = file]
<1>1. CASE Gate(r)
  BY <1>1, CollectorGateWrites
<1>2. CASE RecordPass(r)
  <2> DEFINE record == R!PassRecord(r, FirstClaim(units[r], RunContexts(units[r])))
             old == local[r][day[r]]
  <2>1. \/ local' = local
        \/ local' = [local EXCEPT ![r][day[r]] = record]
        \/ \E left \in R!InterruptedWrites(old) : local' = [local EXCEPT ![r][day[r]] = left]
    BY <1>2 DEF RecordPass, ContentId, RegistryFile
  <2>2. record.kind # "block"
    BY DEF R!PassRecord
  <2>3. \A left \in R!InterruptedWrites(old) : left.kind # "block" \/ left = old
    BY DEF R!InterruptedWrites, R!Absent, R!Unreadable
  <2>4. [local EXCEPT ![r][day[r]] = old] = local
    BY DEF TypeOK
  <2> QED
    BY <2>1, <2>2, <2>3, <2>4
<1> QED
  BY <1>1, <1>2

(* A checkout that could be pushed has no block record of its own. *)
BlockInv ==
  \A r \in Runs : Running(r) /\ base[r] = head =>
    \A d \in Dates : registry[d] = R!Absent => local[r][d].kind # "block"

LEMMA NextBlock ==
  ASSUME AdapterStatuses = {"not_applicable"}, TypeOK, UnitsInv, CheckoutInv, BlockInv,
         [Next]_vars
  PROVE  BlockInv'
<1>0. /\ base \in [Runs -> Nat] /\ head \in Nat /\ local \in [Runs -> [Dates -> R!File]]
      /\ stage \in [Runs -> Stages] /\ \A s \in Runs : base[s] <= head
  BY DEF TypeOK, CheckoutInv
<1>1. CASE UNCHANGED vars
  BY <1>1 DEF vars, branch, checkout, disk, BlockInv, Running
<1>2. ASSUME NEW r \in Runs, Checkout(r) \/ Step(r) \/ Crash(r), NEW s \in Runs,
             (Running(s) /\ base[s] = head)', NEW d \in Dates, (registry[d] = R!Absent)'
      PROVE  local'[s][d].kind # "block"
  <2>1. CASE s # r
    <3>1. Running(s) /\ base'[s] = base[s] /\ local'[s] = local[s]
      BY <1>2, <2>1, OthersKeep DEF Running
    <3>2. head' = head /\ registry' = registry
      BY <1>0, <1>2, <3>1, BranchMoves DEF branch
    <3> QED
      BY <1>2, <3>1, <3>2 DEF BlockInv
  <2>2. CASE s = r
    <3>1. ~Push(r) /\ ~Crash(r)
      BY <1>0, <1>2, <2>2 DEF Push, Crash, Advance, Running
    <3>2. UNCHANGED branch
      BY <1>2, <3>1, BranchMoves
    <3>3. CASE Checkout(r)
      <4>1. local'[r] = registry
        BY <1>0, <3>3 DEF Checkout
      <4> QED
        BY <1>2, <2>2, <3>2, <4>1 DEF branch, R!Absent
    <3>4. CASE Step(r)
      <4>1. Running(r) /\ base[r] = head
        <5>1. Running(r) /\ base' = base
          BY <1>0, <3>1, <3>4 DEF Step, Preflight, Adapt, Guard, Gate, WriteBlock, Prompt,
             CallModel, Validate, Publish, AppendRecent, RecordPass, Resolve, Advance, Running,
             checkout
        <5> QED
          BY <1>2, <2>2, <3>2, <5>1 DEF branch
      <4>2. local[r][d].kind # "block"
        BY <1>2, <3>2, <4>1 DEF BlockInv, branch
      <4>3. \/ local' = local
            \/ \E file : file.kind # "block" /\ local' = [local EXCEPT ![r][day[r]] = file]
        <5>1. CASE Gate(r) \/ RecordPass(r)
          BY <5>1, CollectorWrites
        <5>2. CASE ~(Gate(r) \/ RecordPass(r))
          BY <3>1, <3>4, <5>2 DEF Step, Preflight, Adapt, Guard, Prompt, CallModel, Validate,
             Publish, AppendRecent, disk
        <5> QED
          BY <5>1, <5>2
      <4> QED
        BY <1>0, <2>2, <4>2, <4>3
    <3> QED
      BY <1>2, <3>1, <3>3, <3>4
  <2> QED
    BY <2>1, <2>2
<1> QED
  BY <1>1, <1>2 DEF Next, BlockInv

LEMMA PushesNoBlock ==
  ASSUME TypeOK, BlockInv, [Next]_vars
  PROVE  [\A d \in Dates : registry[d] = R!Absent => registry'[d].kind # "block"]_vars
<1>1. ASSUME NEW r \in Runs, Checkout(r) \/ Step(r) \/ Crash(r),
             NEW d \in Dates, registry[d] = R!Absent
      PROVE  registry'[d].kind # "block"
  <2>1. CASE UNCHANGED branch
    BY <1>1, <2>1 DEF branch, R!Absent
  <2>2. CASE Push(r) /\ FastForward(r) /\ registry' = local[r]
    <3>1. Running(r) /\ base[r] = head
      BY <2>2 DEF Push, FastForward, Advance, Running
    <3> QED
      BY <1>1, <2>2, <3>1 DEF BlockInv
  <2> QED
    BY <1>1, <2>1, <2>2, BranchMoves
<1> QED
  BY <1>1 DEF Next

(***************************************************************************)
(* With the Collector adapter, which sets no corroboration status but      *)
(* "not_applicable", no push adds a block record, under every fault: a     *)
(* blocked gate is always an integrity violation (ADR-0067;                *)
(* daily_publish.py, classify_gate_block).                                 *)
(***************************************************************************)
THEOREM CollectorBlocksNothing ==
  ASSUME AdapterStatuses = {"not_applicable"}
  PROVE  Spec => CollectorNeverBlocks
<1> DEFINE Inv == TypeOK /\ UnitsInv /\ CheckoutInv /\ BlockInv
<1>1. Init => Inv
  <2>1. Init => UnitsInv /\ BlockInv
    BY DEF Init, UnitsInv, BlockInv, Running
  <2> QED
    BY <2>1, InitTypeOK, InitCheckout
<1>2. Inv /\ [Next]_vars => Inv'
  BY NextTypeOK, NextUnits, NextCheckout, NextBlock
<1>3. Inv /\ [Next]_vars =>
        [\A d \in Dates : registry[d] = R!Absent => registry'[d].kind # "block"]_vars
  BY PushesNoBlock
<1> QED
  BY <1>1, <1>2, <1>3, PTL DEF Spec, CollectorNeverBlocks

-----------------------------------------------------------------------------
(* A workflow without faults.                                              *)

(* No fault occurs, jobs do not overlap, the Collector adapter is used,    *)
(* nothing was recorded before, and every brief lists a repository.        *)
NoFaults ==
  /\ Serialized
  /\ Faults = {}
  /\ AdapterStatuses = {"not_applicable"}
  /\ LegacyFiles = {R!Absent}
  /\ \A brief \in Briefs : brief.per_repo # <<>>

AfterGate == {"prompt", "model", "validate", "publish", "append", "record"}
AfterGuard == AfterGate \cup {"gate"}
AfterAdapt == AfterGuard \cup {"guard"}

(* What a run has secured when it gets that far: units, an included one,   *)
(* no file for its date, recent posts it can append to, its own post among *)
(* them, its record, and at last its record on the branch.                 *)
Secured(r) ==
  /\ stage[r] \in AfterAdapt => units[r] # <<>>
  /\ stage[r] \in AfterGate => RunContexts(units[r]) # {}
  /\ stage[r] \in AfterGuard => local[r][day[r]] = R!Absent
  /\ stage[r] \in {"model", "validate", "publish", "append"} => localRecent[r].readable
  /\ stage[r] = "record" => appended[r]
  /\ stage[r] = "push" /\ live[r] > 0 => outcome[r] = "PUBLISHED"
  /\ stage[r] # "crashed"
  /\ live[r] > 0 /\ ~Running(r) =>
       registry[day[r]].kind = "pass" /\ registry[day[r]].url = r

Clean(file) == file = R!Absent \/ file.kind = "pass"

CleanFiles ==
  /\ \A d \in Dates : Clean(registry[d])
  /\ \A r \in Runs, d \in Dates : Clean(local[r][d])

CleanInv ==
  OutcomeInv /\ LedgerInv /\ UnitsInv /\ CleanFiles /\ \A r \in Runs : Secured(r)

LEMMA InitClean == ASSUME NoFaults PROVE Init => CleanInv
<1> SUFFICES ASSUME Init PROVE CleanInv
  OBVIOUS
<1>1. OutcomeInv /\ LedgerInv
  BY InitOutcomeInv, InitLedgerInv
<1>2. UnitsInv
  BY DEF Init, UnitsInv
<1>3. CleanFiles
  BY DEF Init, NoFaults, CleanFiles, Clean
<1>4. \A r \in Runs : Secured(r)
  BY DEF Init, Secured, AfterAdapt, AfterGuard, AfterGate
<1> QED
  BY <1>1, <1>2, <1>3, <1>4 DEF CleanInv

LEMMA NextClean ==
  ASSUME NoFaults, CleanInv, NEW r \in Runs, Checkout(r) \/ Step(r) \/ Crash(r)
  PROVE  CleanFiles'
<1>0. /\ TypeOK /\ CleanFiles /\ UnitsInv
      /\ local \in [Runs -> [Dates -> R!File]] /\ day \in [Runs -> Dates]
  BY DEF CleanInv, OutcomeInv, TruthInv, TypeOK
<1>1. \A d \in Dates : Clean(registry'[d])
  BY <1>0, BranchMoves DEF branch, CleanFiles
<1>2. \A s \in Runs \ {r}, d \in Dates : Clean(local'[s][d])
  BY <1>0, OthersKeep DEF CleanFiles
<1>3. \A d \in Dates : Clean(local'[r][d])
  <2>1. CASE Checkout(r)
    BY <1>0, <2>1 DEF Checkout, CleanFiles
  <2>2. CASE Crash(r) \/ Push(r)
    BY <1>0, <2>2 DEF Crash, Push, Discard, Clean
  <2>3. CASE Gate(r)
    BY <1>0, <2>3, CollectorGateWrites DEF NoFaults, CleanFiles
  <2>4. CASE RecordPass(r)
    <3> DEFINE record == R!PassRecord(r, FirstClaim(units[r], RunContexts(units[r])))
    <3>1. local' = local \/ local' = [local EXCEPT ![r][day[r]] = record]
      BY <2>4 DEF RecordPass, ContentId, NoFaults
    <3>2. Clean(record)
      BY DEF Clean, R!PassRecord
    <3> HIDE DEF record
    <3> QED
      BY <1>0, <3>1, <3>2 DEF CleanFiles
  <2>5. CASE Step(r) /\ ~Push(r) /\ ~Gate(r) /\ ~RecordPass(r)
    <3>1. local' = local
      BY <2>5 DEF Step, Preflight, Adapt, Guard, Prompt, CallModel, Validate, Publish,
         AppendRecent, disk
    <3> QED
      BY <1>0, <3>1 DEF CleanFiles
  <2> QED
    BY <2>1, <2>2, <2>3, <2>4, <2>5
<1> QED
  BY <1>1, <1>2, <1>3 DEF CleanFiles

LEMMA OthersSecured ==
  ASSUME NoFaults, CleanInv, NEW r \in Runs, Checkout(r) \/ Step(r) \/ Crash(r),
         NEW s \in Runs, s # r
  PROVE  Secured(s)'
<1>1. TypeOK /\ CheckoutInv /\ Secured(s) /\ day[s] \in Dates
  BY DEF CleanInv, OutcomeInv, TruthInv, TypeOK
<1>2. /\ stage'[s] = stage[s] /\ live'[s] = live[s] /\ units'[s] = units[s]
      /\ local'[s] = local[s] /\ localRecent'[s] = localRecent[s]
      /\ appended'[s] = appended[s] /\ outcome'[s] = outcome[s]
  BY <1>1, OthersKeep
<1>3. Next
  BY DEF Next
<1>4. day' = day
  BY <1>1, <1>3, LiveGrows
<1>5. registry[day[s]] # R!Absent => registry'[day[s]] = registry[day[s]]
  <2>1. [\A d \in Dates : registry[d] # R!Absent => registry'[d] = registry[d]]_vars
    BY <1>1, <1>3, NextImmutable
  <2>2. UNCHANGED vars => registry' = registry
    BY DEF vars, branch
  <2> QED
    BY <1>1, <2>1, <2>2
<1>6. registry[day[s]].kind = "pass" => registry'[day[s]] = registry[day[s]]
  BY <1>5 DEF R!Absent
<1> QED
  BY <1>1, <1>2, <1>4, <1>6 DEF Secured, Running

(* Before its post, a run that resolves secures nothing and needs nothing. *)
LEMMA ResolvedSecured ==
  ASSUME CleanInv, NEW r \in Runs, NEW from \in BeforePost, NEW o,
         Resolve(r, from, o), live'[r] = live[r]
  PROVE  Secured(r)'
<1>1. stage[r] = from /\ stage'[r] = "push"
  BY DEF Resolve, Advance, CleanInv, OutcomeInv, TruthInv, TypeOK
<1>2. live'[r] = 0
  BY <1>1 DEF CleanInv, OutcomeInv, FreshInv
<1> QED
  BY <1>1, <1>2 DEF Secured, Running, AfterAdapt, AfterGuard, AfterGate


(* A gate that is passed includes a unit. *)
LEMMA PassedGateIncludes ==
  ASSUME NEW us \in Seq(Unit), us # <<>>, ~Gated(us)
  PROVE  RunContexts(us) # {}
<1>1. PICK i \in DOMAIN us : ClassifyUnit(us[i]) # "exclude"
  BY DEF Gated
<1>2. ClassifyUnit(us[i]) = "include"
  BY <1>1 DEF ClassifyUnit
<1> QED
  BY <1>1, <1>2, ContextsAreIncluded

LEMMA AdaptsSome ==
  ASSUME NoFaults, NEW brief \in Briefs, NEW token, NEW answers, NEW status
  PROVE  AdaptDailyBrief(brief, token, answers, status) # <<>>
<1>1. brief.per_repo \in Seq(Entry) /\ brief.per_repo # <<>>
  BY PublishAssumption DEF NoFaults, Brief
<1>2. 1 \in DOMAIN brief.per_repo
  BY <1>1
<1>3. 1 \in DOMAIN AdaptDailyBrief(brief, token, answers, status)
  BY <1>2 DEF AdaptDailyBrief
<1> QED
  BY <1>3

LEMMA RunSecured ==
  ASSUME NoFaults, CleanInv, NEW r \in Runs, Checkout(r) \/ Step(r) \/ Crash(r)
  PROVE  Secured(r)'
<1>1. /\ TypeOK /\ CleanFiles /\ Secured(r) /\ OutcomeHolds(r)
      /\ FreshInv /\ CheckoutInv /\ AloneInv
  BY DEF CleanInv, OutcomeInv, TruthInv, RunFacts, LedgerInv
<1>2. /\ stage \in [Runs -> Stages] /\ live \in [Runs -> Nat] /\ day \in [Runs -> Dates]
      /\ units \in [Runs -> Seq(Unit)] /\ local \in [Runs -> [Dates -> R!File]]
      /\ localRecent \in [Runs -> RecentFile] /\ appended \in [Runs -> BOOLEAN]
      /\ outcome \in [Runs -> Outcomes \cup {"none"}]
  BY <1>1 DEF TypeOK
<1>3. CASE Checkout(r)
  <2>1. stage[r] = "idle" /\ stage'[r] = "preflight" /\ live' = live
    BY <1>2, <1>3 DEF Checkout, Advance
  <2>2. live[r] = 0
    BY <1>1, <2>1 DEF FreshInv, BeforePost
  <2> QED
    BY <2>1, <2>2 DEF Secured, Running, AfterAdapt, AfterGuard, AfterGate
<1>4. CASE Crash(r)
  BY <1>4 DEF Crash, NoFaults
<1>5. CASE Preflight(r)
  <2>1. CASE \E o : Resolve(r, "preflight", o)
    BY <1>5, <2>1, ResolvedSecured DEF Preflight, BeforePost
  <2>2. CASE Advance(r, "preflight", "adapt")
    BY <1>1, <1>2, <1>5, <2>2 DEF Preflight, Advance, Secured, Running, AfterAdapt, AfterGuard,
       AfterGate
  <2> QED
    BY <1>5, <2>1, <2>2 DEF Preflight
<1>6. CASE Adapt(r)
  <2>0. UNCHANGED <<branch, live, checkout, disk>>
    BY <1>6 DEF Adapt
  <2>1. CASE Resolve(r, "adapt", "FAILED")
    BY <2>0, <2>1, ResolvedSecured DEF BeforePost
  <2>2. ASSUME NEW brief \in Briefs, NEW token, NEW answers, NEW status,
               units' = [units EXCEPT ![r] = AdaptDailyBrief(brief, token, answers, status)],
               Advance(r, "adapt", "guard")
        PROVE  Secured(r)'
    <3>1. units'[r] # <<>>
      BY <1>2, <2>2, AdaptsSome
    <3>2. stage[r] = "adapt" /\ stage'[r] = "guard"
      BY <1>2, <2>2 DEF Advance
    <3> QED
      BY <1>1, <2>0, <3>1, <3>2 DEF Secured, Running, AfterGuard, AfterGate
  <2> QED
    BY <1>6, <2>1, <2>2 DEF Adapt
<1>7. CASE Guard(r)
  <2>0. UNCHANGED <<branch, live, checkout, disk>>
    BY <1>7 DEF Guard
  <2>1. CASE \E o : Resolve(r, "guard", o)
    BY <2>0, <2>1, ResolvedSecured DEF BeforePost
  <2>2. CASE /\ ~R!ReadRaises(RegistryFile(r)) /\ ~R!AlreadyPublished(RegistryFile(r))
             /\ Advance(r, "guard", "gate") /\ UNCHANGED <<memory, outcome>>
    <3>1. local[r][day[r]].kind # "pass"
      BY <2>2 DEF R!AlreadyPublished, RegistryFile, ContentId
    <3>2. local[r][day[r]] = R!Absent
      BY <1>1, <1>2, <3>1 DEF CleanFiles, Clean
    <3>3. stage[r] = "guard" /\ stage'[r] = "gate"
      BY <1>2, <2>2 DEF Advance
    <3> QED
      BY <1>1, <2>0, <2>2, <3>2, <3>3 DEF Secured, Running, AfterAdapt, AfterGuard, AfterGate,
         checkout, disk, memory
  <2> QED
    BY <1>7, <2>1, <2>2 DEF Guard
<1>8. CASE Gate(r)
  <2>0. UNCHANGED <<branch, live, checkout, localRecent>> /\ stage[r] = "gate"
    BY <1>8 DEF Gate
  <2>1. CASE \E o : Resolve(r, "gate", o)
    BY <2>0, <2>1, ResolvedSecured DEF BeforePost
  <2>2. CASE /\ ~Gated(units[r]) /\ Advance(r, "gate", "prompt")
             /\ UNCHANGED <<local, memory, outcome>>
    <3>1. units[r] # <<>> /\ local[r][day[r]] = R!Absent
      BY <1>1, <2>0 DEF Secured, AfterAdapt, AfterGuard
    <3>2. RunContexts(units[r]) # {}
      BY <1>2, <2>2, <3>1, PassedGateIncludes
    <3>3. stage'[r] = "prompt"
      BY <1>2, <2>2 DEF Advance
    <3>4. RunContexts(units'[r]) # {} /\ units'[r] # <<>>
      BY <2>2, <3>1, <3>2 DEF memory
    <3> QED
      BY <1>1, <2>0, <2>2, <3>1, <3>3, <3>4 DEF Secured, Running, checkout, branch
  <2> QED
    BY <1>8, <2>1, <2>2 DEF Gate, WriteBlock
<1>9. CASE Prompt(r) \/ CallModel(r) \/ Validate(r)
  <2>0. UNCHANGED <<branch, live, checkout, disk>>
    BY <1>9 DEF Prompt, CallModel, Validate
  <2>1. CASE \E from \in {"prompt", "model", "validate"} : \E o : Resolve(r, from, o)
    BY <2>0, <2>1, ResolvedSecured DEF BeforePost
  <2>2. CASE /\ UNCHANGED units
             /\ \/ Advance(r, "prompt", "model") /\ localRecent[r].readable
                \/ Advance(r, "model", "validate")
                \/ Advance(r, "validate", "publish")
    <3>1. \/ stage[r] = "prompt" /\ stage'[r] = "model" /\ localRecent[r].readable
          \/ stage[r] = "model" /\ stage'[r] = "validate"
          \/ stage[r] = "validate" /\ stage'[r] = "publish"
      BY <1>2, <2>2 DEF Advance
    <3> QED
      BY <1>1, <2>0, <2>2, <3>1 DEF Secured, Running, AfterAdapt, AfterGuard, AfterGate,
         checkout, disk, branch
  <2> QED
    BY <1>9, <2>1, <2>2 DEF Prompt, CallModel, Validate, memory
<1>10. CASE Publish(r)
  <2>0. UNCHANGED <<branch, checkout, disk>>
    BY <1>10 DEF Publish
  <2>1. CASE Resolve(r, "publish", "FAILED") /\ live' = live
    BY <2>1, ResolvedSecured DEF BeforePost
  <2>2. CASE Advance(r, "publish", "append") /\ UNCHANGED <<memory, outcome>>
    <3>1. stage[r] = "publish" /\ stage'[r] = "append"
      BY <1>2, <2>2 DEF Advance
    <3> QED
      BY <1>1, <2>0, <2>2, <3>1 DEF Secured, Running, AfterAdapt, AfterGuard, AfterGate,
         checkout, disk, memory
  <2> QED
    BY <1>10, <2>1, <2>2 DEF Publish, NoFaults
<1>11. CASE AppendRecent(r)
  <2>1. stage[r] = "append" /\ stage'[r] = "record"
    BY <1>2, <1>11 DEF AppendRecent, Advance
  <2>2. localRecent[r].readable
    BY <1>1, <2>1 DEF Secured
  <2>3. appended'[r]
    BY <1>2, <1>11, <2>2 DEF AppendRecent, NoFaults
  <2>4. UNCHANGED <<branch, live, checkout, local, units>>
    BY <1>11 DEF AppendRecent
  <2> QED
    BY <1>1, <2>1, <2>3, <2>4 DEF Secured, Running, AfterAdapt, AfterGuard, AfterGate, checkout
<1>12. CASE RecordPass(r)
  <2>1. stage[r] = "record"
    BY <1>12 DEF RecordPass
  <2>2. /\ RunContexts(units[r]) # {} /\ local[r][day[r]] = R!Absent /\ appended[r]
    BY <1>1, <2>1 DEF Secured, AfterAdapt, AfterGuard, AfterGate
  <2>3. \A record : R!Written(local[r][day[r]], record)
    <3>1. R!Absent # R!Unreadable
      BY DEF R!Absent, R!Unreadable
    <3> QED
      BY <2>2, <3>1 DEF R!Written, R!WriteResult
  <2>4. Resolve(r, "record", RecordedOutcome(r))
    BY <1>12, <2>2, <2>3 DEF RecordPass, RegistryFile, ContentId, NoFaults
  <2>5. stage'[r] = "push" /\ outcome'[r] = "PUBLISHED"
    BY <1>2, <2>2, <2>4 DEF Resolve, Advance, RecordedOutcome
  <2> QED
    BY <2>5 DEF Secured, Running, AfterAdapt, AfterGuard, AfterGate
<1>13. CASE Push(r)
  <2>1. stage[r] = "push" /\ stage'[r] = "done" /\ live' = live /\ day' = day
    BY <1>2, <1>13 DEF Push, Advance
  <2>2. ASSUME live[r] > 0
        PROVE  registry'[day[r]].kind = "pass" /\ registry'[day[r]].url = r
    <3>1. outcome[r] = "PUBLISHED"
      BY <1>1, <2>1, <2>2 DEF Secured
    <3>2. local[r][day[r]].kind = "pass" /\ local[r][day[r]].url = r
      BY <1>1, <2>1, <3>1 DEF OutcomeHolds
    <3>3. base[r] = head
      BY <1>1, <2>1 DEF AloneInv, Running
    <3>4. registry' = local[r] \/ <<local[r], localRecent[r]>> = <<registry, recent>>
      BY <1>13, <3>1, <3>3 DEF Push, FastForward, Failed, NoFaults
    <3>5. registry' = local[r]
      BY <1>13, <3>4 DEF Push, branch
    <3> QED
      BY <3>2, <3>5
  <2> QED
    BY <2>1, <2>2 DEF Secured, AfterAdapt, AfterGuard, AfterGate
<1> QED
  BY <1>3, <1>4, <1>5, <1>6, <1>7, <1>8, <1>9, <1>10, <1>11, <1>12, <1>13 DEF Step

LEMMA NextCleanInv ==
  ASSUME NoFaults
  PROVE  CleanInv /\ [Next]_vars => CleanInv'
<1> SUFFICES ASSUME CleanInv, [Next]_vars PROVE CleanInv'
  OBVIOUS
<1>1. OutcomeInv' /\ LedgerInv' /\ UnitsInv'
  BY NextOutcomeInv, NextLedgerInv, NextUnits DEF CleanInv, NoFaults, OutcomeInv, TruthInv
<1>2. CASE UNCHANGED vars
  <2>1. CleanFiles'
    BY <1>2 DEF CleanInv, CleanFiles, vars, branch, disk
  <2>2. \A r \in Runs : Secured(r)'
    BY <1>2 DEF CleanInv, Secured, Running, vars, branch, checkout, disk, memory
  <2> QED
    BY <1>1, <2>1, <2>2 DEF CleanInv
<1>3. ASSUME NEW r \in Runs, Checkout(r) \/ Step(r) \/ Crash(r) PROVE CleanInv'
  <2>1. CleanFiles'
    BY <1>3, NextClean
  <2>2. \A s \in Runs : Secured(s)'
    BY <1>3, RunSecured, OthersSecured
  <2> QED
    BY <1>1, <2>1, <2>2 DEF CleanInv
<1> QED
  BY <1>2, <1>3 DEF Next

(* Two runs of one date do not both post. *)
LEMMA OnePostPerDate ==
  ASSUME CleanInv, NEW r \in Runs, NEW s \in Runs, day[r] = day[s], live[r] > 0, live[s] > 0
  PROVE  r = s
<1>1. /\ Secured(r) /\ Secured(s) /\ AloneInv /\ CheckoutInv /\ day[r] \in Dates
      /\ stage[r] \in Stages /\ stage[s] \in Stages /\ FreshInv
      /\ OutcomeHolds(r) /\ OutcomeHolds(s)
  BY DEF CleanInv, LedgerInv, OutcomeInv, TruthInv, TypeOK, RunFacts
<1>2. ASSUME NEW p \in Runs, Secured(p), OutcomeHolds(p), Running(p), stage[p] \in Stages,
             live[p] > 0, day[p] \in Dates,
             registry[day[p]].kind = "pass"
      PROVE  registry[day[p]].url = p
  <2>1. stage[p] \in {"append", "record", "push"}
    BY <1>1, <1>2 DEF FreshInv, BeforePost, Stages, Running
  <2>2. local[p][day[p]] = registry[day[p]]
    BY <1>1, <1>2 DEF AloneInv, CheckoutInv, R!Absent
  <2>3. stage[p] = "push"
    BY <1>2, <2>1, <2>2 DEF Secured, AfterGuard, AfterGate, R!Absent
  <2>4. local[p][day[p]].url = p
    BY <1>2, <2>3 DEF Secured, OutcomeHolds
  <2> QED
    BY <2>2, <2>4
<1>3. CASE Running(r) /\ Running(s)
  BY <1>1, <1>3 DEF AloneInv
<1>4. CASE ~Running(r)
  <2>1. registry[day[r]].kind = "pass" /\ registry[day[r]].url = r
    BY <1>1, <1>4 DEF Secured
  <2> QED
    BY <1>1, <1>2, <2>1 DEF Secured
<1>5. CASE ~Running(s)
  <2>1. registry[day[s]].kind = "pass" /\ registry[day[s]].url = s
    BY <1>1, <1>5 DEF Secured
  <2> QED
    BY <1>1, <1>2, <2>1 DEF Secured
<1> QED
  BY <1>3, <1>4, <1>5

LEMMA AtMostOne ==
  ASSUME NEW S, \A x, y \in S : x = y
  PROVE  Cardinality(S) <= 1
<1>1. CASE S = {}
  BY <1>1, FS_EmptySet
<1>2. CASE S # {}
  <2>1. PICK x : S = {x}
    BY <1>2
  <2> QED
    BY <2>1, FS_Singleton
<1> QED
  BY <1>1, <1>2

(***************************************************************************)
(* Without faults one date is posted once, for any number of runs and      *)
(* re-runs of it (the read-before-publish guard and the concurrency        *)
(* group).                                                                 *)
(***************************************************************************)
THEOREM NoDateIsPostedTwice ==
  ASSUME NoFaults
  PROVE  Spec => []NoDuplicatePost
<1>1. CleanInv => NoDuplicatePost
  BY OnePostPerDate, AtMostOne DEF NoDuplicatePost
<1> QED
  BY <1>1, InitClean, NextCleanInv, PTL DEF Spec

(***************************************************************************)
(* Without faults every post has its record: in the Registry of the run    *)
(* that pushes it, and then on the branch, where exactly one record names  *)
(* the post (SPEC.md, FR1), provided that the brief lists a repository.    *)
(***************************************************************************)
THEOREM EveryPostIsRecorded ==
  ASSUME NoFaults
  PROVE  Spec => []OneRecordPerPublication
<1>1. CleanInv => OneRecordPerPublication
  <2> SUFFICES ASSUME CleanInv, NEW r \in Runs, live[r] > 0
               PROVE  /\ stage[r] = "push" =>
                           local[r][day[r]].kind = "pass" /\ local[r][day[r]].url = r
                      /\ stage[r] = "done" =>
                           {d \in Dates : registry[d].kind = "pass" /\ registry[d].url = r}
                             = {day[r]}
    BY DEF OneRecordPerPublication
  <2>1. /\ Secured(r) /\ OutcomeHolds(r) /\ RecordsTruthful /\ day[r] \in Dates
    BY DEF CleanInv, OutcomeInv, TruthInv, TypeOK, RunFacts
  <2>2. ASSUME stage[r] = "push"
        PROVE  local[r][day[r]].kind = "pass" /\ local[r][day[r]].url = r
    BY <2>1, <2>2 DEF Secured, OutcomeHolds
  <2>3. ASSUME stage[r] = "done"
        PROVE  {d \in Dates : registry[d].kind = "pass" /\ registry[d].url = r} = {day[r]}
    <3>1. registry[day[r]].kind = "pass" /\ registry[day[r]].url = r
      BY <2>1, <2>3 DEF Secured, Running
    <3>2. ASSUME NEW d \in Dates, registry[d].kind = "pass", registry[d].url = r
          PROVE  d = day[r]
      BY <2>1, <3>2 DEF RecordsTruthful
    <3> QED
      BY <2>1, <3>1, <3>2
  <2> QED
    BY <2>2, <2>3
<1> QED
  BY <1>1, InitClean, NextCleanInv, PTL DEF Spec

=============================================================================
