----------------------------- MODULE DailyPublish -----------------------------
(***************************************************************************)
(* The daily LinkedIn publish (linkedin_publisher/daily_publish.py) and    *)
(* the scheduled workflow around it: runs check out the registry-data      *)
(* branch, step through run(), post to LinkedIn and push the Registry and  *)
(* the author state back.  A run is one job on a fresh runner; everything  *)
(* it holds is lost unless its push is accepted.                           *)
(*                                                                         *)
(* A post is named by the run that made it, and so is its URL.             *)
(***************************************************************************)
EXTENDS LinkedInAuthor

CONSTANTS
  Runs,              (* Workflow runs; each runs at most once.             *)
  NoRun,             (* No URL.                                            *)
  Dates,             (* Brief dates; content_id is a function of the date. *)
  NoRepo,            (* No claim.                                          *)
  Briefs,            (* Briefs Collector can write.                        *)
  Answers,           (* Answers GitHub's compare endpoint can give.        *)
  AdapterStatuses,   (* Corroboration statuses the adapter sets; the       *)
                     (* Collector adapter's is {"not_applicable"}.         *)
  Responses,         (* Answers the model can give.                        *)
  NoResponse,
  LegacyFiles,       (* What the branch may already hold for a date.       *)
  Faults,            (* Which faults occur, of FaultKinds.                 *)
  Serialized,        (* The workflow's concurrency group holds.            *)
  PersistOnFailure,  (* The workflow pushes after a failed run too.        *)
  RECENT_POSTS_LIMIT

FaultKinds == {"crash", "io", "unconfirmed", "push"}

BlockReason == [count : Nat, first : CorroborationStatuses]
NoReason == "none"

R == INSTANCE PublicationRegistry WITH
       Urls <- Runs, NoUrl <- NoRun, Claims <- Repos, NoClaim <- NoRepo,
       Reasons <- BlockReason

ASSUME PublishAssumption ==
  /\ NoRun \notin Runs
  /\ NoRepo \notin Repos
  /\ Briefs \subseteq Brief
  /\ Answers \subseteq Answer
  /\ AdapterStatuses \subseteq CorroborationStatuses
  /\ Responses \subseteq Response
  /\ NoResponse \notin Responses
  /\ LegacyFiles \subseteq R!File /\ \A f \in LegacyFiles : f.kind # "pass"
  /\ Faults \subseteq FaultKinds
  /\ Serialized \in BOOLEAN
  /\ PersistOnFailure \in BOOLEAN
  /\ RECENT_POSTS_LIMIT \in Nat \ {0}

VARIABLES
  registry,     (* registry-data branch: Registry file per date            *)
  recent,       (* registry-data branch: recent_posts.json                 *)
  head,         (* registry-data branch: number of commits                 *)
  live,         (* LinkedIn: how many posts each run has made              *)
  stage,        (* where each run is                                       *)
  day,          (* the brief date of each run                              *)
  base,         (* the branch commit each run checked out                  *)
  local,        (* each run's REGISTRY_OUTPUT_DIR                          *)
  localRecent,  (* each run's AUTHOR_STATE_DIR/recent_posts.json           *)
  units,        (* the units run() built                                   *)
  response,     (* the model's answer                                      *)
  appended,     (* append_recent_post succeeded                            *)
  outcome       (* the run's Outcome, "none" before it has one             *)

branch == <<registry, recent, head>>
checkout == <<day, base>>
disk == <<local, localRecent>>
memory == <<units, response, appended>>
vars == <<branch, live, stage, checkout, disk, memory, outcome>>

Stages == {"idle", "preflight", "adapt", "guard", "gate", "prompt", "model",
           "validate", "publish", "append", "record", "push", "done", "crashed"}

Skipped == {"SKIPPED_NO_ELIGIBLE_CONTENT", "SKIPPED_SAFETY_PAUSE",
            "SKIPPED_ALREADY_PUBLISHED", "SKIPPED_AUTOMATION_ONLY"}
Failed == {"FAILED_INTEGRITY", "FAILED"}
Outcomes == {"PUBLISHED"} \cup Skipped \cup Failed

(* recent_posts.json: unreadable after an interrupted write. *)
RecentFile == [readable : BOOLEAN, posts : Seq(Runs)]
NoPosts == [readable |-> TRUE, posts |-> <<>>]
CorruptPosts == [readable |-> FALSE, posts |-> <<>>]

Running(r) == stage[r] \notin {"idle", "done", "crashed"}

Init ==
  /\ registry \in [Dates -> LegacyFiles]
  /\ recent = NoPosts
  /\ head = 0
  /\ live = [r \in Runs |-> 0]
  /\ stage = [r \in Runs |-> "idle"]
  /\ day \in [Runs -> Dates]
  /\ base = [r \in Runs |-> 0]
  /\ local = [r \in Runs |-> [d \in Dates |-> R!Absent]]
  /\ localRecent = [r \in Runs |-> NoPosts]
  /\ units = [r \in Runs |-> <<>>]
  /\ response = [r \in Runs |-> NoResponse]
  /\ appended = [r \in Runs |-> FALSE]
  /\ outcome = [r \in Runs |-> "none"]

-----------------------------------------------------------------------------
(* Shared forms of a step of run r.                                        *)

Advance(r, from, to) ==
  /\ stage[r] = from
  /\ stage' = [stage EXCEPT ![r] = to]

(* A wrong Resolve: the exception is not turned into an Outcome. *)
ResolveUncaught(r, from, o) ==
  /\ Advance(r, from, "push")
  /\ outcome' = [outcome EXCEPT ![r] = IF o = "FAILED" THEN @ ELSE o]
  /\ UNCHANGED memory

(* run() returns (or main() catches its exception): the outcome is set and *)
(* the process ends; only its files are left for the workflow to push.     *)
Resolve(r, from, o) ==
  /\ Advance(r, from, "push")
  /\ outcome' = [outcome EXCEPT ![r] = o]
  /\ units' = [units EXCEPT ![r] = <<>>]
  /\ response' = [response EXCEPT ![r] = NoResponse]
  /\ appended' = [appended EXCEPT ![r] = FALSE]

(* The runner and its checkout are discarded when the job ends. *)
Discard(r) ==
  /\ local' = [local EXCEPT ![r] = [d \in Dates |-> R!Absent]]
  /\ localRecent' = [localRecent EXCEPT ![r] = NoPosts]
  /\ base' = [base EXCEPT ![r] = 0]

(* The treatments run() asks for: a restatement framing for every included *)
(* unit, none for the others.                                              *)
Restated == [final |-> "default", framing |-> TRUE, override_reason |-> FALSE,
             kind |-> "restatement", snapshot |-> TRUE, has_rule |-> FALSE]
Unframed == [Restated EXCEPT !.framing = FALSE, !.kind = "none", !.snapshot = FALSE]

Treatments(us) ==
  [i \in DOMAIN us |->
     BuildClaimTreatment(us[i],
       IF ClassifyUnit(us[i]) = "include" THEN Restated ELSE Unframed, 1)]

RunContexts(us) == Contexts(us, Treatments(us))

(* The first of a set of positions. *)
FirstPosition(us, positions) ==
  CHOOSE i \in positions : \A j \in positions : i <= j

(* pick_representative_claim_id over a set of positions, which it requires *)
(* to be non-empty: the claim of the first one.                            *)
FirstClaim(us, positions) == us[FirstPosition(us, positions)].repo

(* A wrong ContentId: one key for every date. *)
FixedContentId(r) == CHOOSE d \in Dates : TRUE

(* build_content_id: the key of the Registry record, from the brief's date *)
(* alone.                                                                  *)
ContentId(r) == day[r]

RegistryFile(r) == local[r][ContentId(r)]

-----------------------------------------------------------------------------
(* The workflow starts a job: a fresh checkout of the branch.  The         *)
(* concurrency group admits one job at a time.                             *)
Checkout(r) ==
  /\ Serialized => \A s \in Runs : ~Running(s)
  /\ Advance(r, "idle", "preflight")
  /\ base' = [base EXCEPT ![r] = head]
  /\ local' = [local EXCEPT ![r] = registry]
  /\ localRecent' = [localRecent EXCEPT ![r] = recent]
  /\ UNCHANGED <<branch, live, day, memory, outcome>>

(* check_safety_pause_state and check_token_preflight.  The pause file is  *)
(* absent, readable or malformed; the preflight passes or raises.          *)
Preflight(r) ==
  /\ \E pause \in {"CLOSED", "OPEN", "malformed"}, token_ok \in BOOLEAN :
       \/ /\ pause = "OPEN"
          /\ Resolve(r, "preflight", "SKIPPED_SAFETY_PAUSE")
       \/ /\ pause = "malformed" \/ (pause = "CLOSED" /\ ~token_ok)
          /\ Resolve(r, "preflight", "FAILED")
       \/ /\ pause = "CLOSED" /\ token_ok
          /\ Advance(r, "preflight", "adapt")
          /\ UNCHANGED <<memory, outcome>>
  /\ UNCHANGED <<branch, live, checkout, disk>>

(* Read the brief and adapt it; a missing or malformed brief raises. *)
Adapt(r) ==
  /\ \/ /\ \E brief \in Briefs, token \in BOOLEAN,
              answers \in [Repos -> Answers], status \in AdapterStatuses :
             units' = [units EXCEPT ![r] =
                         AdaptDailyBrief(brief, token, answers, status)]
        /\ Advance(r, "adapt", "guard")
        /\ UNCHANGED <<response, appended, outcome>>
     \/ Resolve(r, "adapt", "FAILED")
  /\ UNCHANGED <<branch, live, checkout, disk>>

(* The read-before-publish guard on the checkout's record. *)
Guard(r) ==
  LET file == RegistryFile(r) IN
  /\ \/ R!ReadRaises(file) /\ Resolve(r, "guard", "FAILED")
     \/ R!AlreadyPublished(file) /\ Resolve(r, "guard", "SKIPPED_ALREADY_PUBLISHED")
     \/ /\ ~R!ReadRaises(file) /\ ~R!AlreadyPublished(file)
        /\ Advance(r, "guard", "gate")
        /\ UNCHANGED <<memory, outcome>>
  /\ UNCHANGED <<branch, live, checkout, disk>>

(* The block record of a gated run; FAILED when it conflicts with what is  *)
(* there or cannot be written.                                             *)
BlockRecordOf(us) ==
  R!BlockRecord(us[1].repo, [count |-> Len(us), first |-> us[1].corroboration])

WriteBlock(r) ==
  LET record == BlockRecordOf(units[r])
      written == R!Written(RegistryFile(r), record)
  IN \/ /\ written
        /\ local' = [local EXCEPT ![r][ContentId(r)] = record]
        /\ Resolve(r, "gate", "SKIPPED_NO_ELIGIBLE_CONTENT")
     \/ /\ ~written
        /\ local' = local
        /\ Resolve(r, "gate", "FAILED")
     \/ /\ "io" \in Faults
        /\ \E left \in R!InterruptedWrites(RegistryFile(r)) :
             local' = [local EXCEPT ![r][ContentId(r)] = left]
        /\ Resolve(r, "gate", "FAILED")

(* The bootstrap gate, and past it the Strategy Layer verdict, whose file  *)
(* may fail to be written.                                                 *)
Gate(r) ==
  /\ stage[r] = "gate"
  /\ \/ /\ Gated(units[r]) /\ IntegrityViolations(units[r]) # {}
        /\ Resolve(r, "gate", "FAILED_INTEGRITY")
        /\ local' = local
     \/ /\ Gated(units[r]) /\ IntegrityViolations(units[r]) = {}
        /\ WriteBlock(r)
     \/ /\ ~Gated(units[r])
        /\ Advance(r, "gate", "prompt")
        /\ UNCHANGED <<local, memory, outcome>>
     \/ /\ ~Gated(units[r]) /\ "io" \in Faults
        /\ Resolve(r, "gate", "FAILED")
        /\ local' = local
  /\ UNCHANGED <<branch, live, checkout, localRecent>>

(* Load the author state and build the prompt.  An unreadable recent posts *)
(* file raises, and so does a fact-mode brief that offers no cluster.      *)
Prompt(r) ==
  LET raises == \/ ~localRecent[r].readable
                \/ PromptRaises(units[r], RunContexts(units[r]))
  IN /\ stage[r] = "prompt"
     /\ \/ raises /\ Resolve(r, "prompt", "FAILED")
        \/ /\ ~raises
           /\ Advance(r, "prompt", "model")
           /\ UNCHANGED <<memory, outcome>>
     /\ UNCHANGED <<branch, live, checkout, disk>>

(* The one model call: an answer, or an exception. *)
CallModel(r) ==
  /\ \/ /\ \E answer \in Responses : response' = [response EXCEPT ![r] = answer]
        /\ Advance(r, "model", "validate")
        /\ UNCHANGED <<units, appended, outcome>>
     \/ Resolve(r, "model", "FAILED")
  /\ UNCHANGED <<branch, live, checkout, disk>>

Validate(r) ==
  LET contexts == RunContexts(units[r])
      valid == ValidResponse(response[r], Mode(units[r], contexts),
                             Clusters(units[r], contexts))
  IN /\ stage[r] = "validate"
     /\ \/ ~valid /\ Resolve(r, "validate", "FAILED")
        \/ /\ valid /\ ReportsAutomationOnly(response[r])
           /\ Resolve(r, "validate", "SKIPPED_AUTOMATION_ONLY")
        \/ /\ valid /\ ~ReportsAutomationOnly(response[r])
           /\ Advance(r, "validate", "publish")
           /\ UNCHANGED <<memory, outcome>>
     /\ UNCHANGED <<branch, live, checkout, disk>>

(* A wrong Publish: a refused post is taken for a published one. *)
PublishSwallowed(r) ==
  /\ Advance(r, "publish", "append")
  /\ live' \in {live, [live EXCEPT ![r] = @ + 1]}
  /\ UNCHANGED <<branch, checkout, disk, memory, outcome>>

(* publish_post: a 201 with the post's id; a refusal; or, with the         *)
(* "unconfirmed" fault, a post that is live though the call raises (the    *)
(* answer was lost, or carried no id).                                     *)
Publish(r) ==
  /\ \/ /\ Advance(r, "publish", "append")
        /\ live' = [live EXCEPT ![r] = @ + 1]
        /\ UNCHANGED <<memory, outcome>>
     \/ /\ Resolve(r, "publish", "FAILED")
        /\ live' = live
     \/ /\ "unconfirmed" \in Faults
        /\ Resolve(r, "publish", "FAILED")
        /\ live' = [live EXCEPT ![r] = @ + 1]
  /\ UNCHANGED <<branch, checkout, disk>>

(* A wrong LastPosts: keeps one post too many. *)
LastPostsOffByOne(posts) ==
  IF Len(posts) <= RECENT_POSTS_LIMIT
  THEN posts
  ELSE SubSeq(posts, Len(posts) - RECENT_POSTS_LIMIT, Len(posts))

(* append_recent_post: the last RECENT_POSTS_LIMIT posts, oldest dropped.  *)
LastPosts(posts) ==
  IF Len(posts) <= RECENT_POSTS_LIMIT
  THEN posts
  ELSE SubSeq(posts, Len(posts) - RECENT_POSTS_LIMIT + 1, Len(posts))

AppendRecent(r) ==
  /\ Advance(r, "append", "record")
  /\ \/ /\ localRecent[r].readable
        /\ localRecent' = [localRecent EXCEPT ![r].posts = LastPosts(Append(@, r))]
        /\ appended' = [appended EXCEPT ![r] = TRUE]
     \/ /\ "io" \in Faults \/ ~localRecent[r].readable
        /\ \E left \in {localRecent[r], CorruptPosts} :
             localRecent' = [localRecent EXCEPT ![r] = left]
        /\ appended' = appended
  /\ UNCHANGED <<branch, live, checkout, local, units, response, outcome>>

(* A wrong RecordedOutcome: the failed append is forgotten. *)
OutcomeOfRecord(r) == "PUBLISHED"

(* A written record is PUBLISHED only if the append succeeded too.         *)
RecordedOutcome(r) == IF appended[r] THEN "PUBLISHED" ELSE "FAILED"

(* The pass record, attempted whether or not the append succeeded.  With   *)
(* no included unit there is no representative claim and it raises.        *)
RecordPass(r) ==
  LET contexts == RunContexts(units[r])
      record == R!PassRecord(r, FirstClaim(units[r], contexts))
      written == contexts # {} /\ R!Written(RegistryFile(r), record)
  IN /\ stage[r] = "record"
     /\ \/ /\ written
           /\ local' = [local EXCEPT ![r][ContentId(r)] = record]
           /\ Resolve(r, "record", RecordedOutcome(r))
        \/ /\ ~written
           /\ local' = local
           /\ Resolve(r, "record", "FAILED")
        \/ /\ "io" \in Faults /\ contexts # {}
           /\ \E left \in R!InterruptedWrites(RegistryFile(r)) :
                local' = [local EXCEPT ![r][ContentId(r)] = left]
           /\ Resolve(r, "record", "FAILED")
     /\ UNCHANGED <<branch, live, checkout, localRecent>>

(* A wrong FastForward: a forced push. *)
ForcedPush(r) == TRUE

(* A push is accepted only when the branch has not moved since checkout.   *)
FastForward(r) == base[r] = head

(***************************************************************************)
(* The workflow's commit and push of the Registry and the author state, in *)
(* one commit, skipped after a failed run unless PersistOnFailure.         *)
(***************************************************************************)
Push(r) ==
  LET kept == outcome[r] \notin Failed \/ PersistOnFailure IN
  /\ Advance(r, "push", "done")
  /\ \/ /\ kept /\ FastForward(r)
        /\ <<local[r], localRecent[r]>> # <<registry, recent>>
        /\ registry' = local[r]
        /\ recent' = localRecent[r]
        /\ head' = head + 1
     \/ /\ \/ ~kept
           \/ ~FastForward(r)
           \/ <<local[r], localRecent[r]>> = <<registry, recent>>
           \/ "push" \in Faults
        /\ UNCHANGED branch
  /\ Discard(r)
  /\ UNCHANGED <<live, day, memory, outcome>>

(* The job dies, or is cancelled, between two steps. *)
Crash(r) ==
  /\ "crash" \in Faults
  /\ Running(r)
  /\ stage' = [stage EXCEPT ![r] = "crashed"]
  /\ units' = [units EXCEPT ![r] = <<>>]
  /\ response' = [response EXCEPT ![r] = NoResponse]
  /\ appended' = [appended EXCEPT ![r] = FALSE]
  /\ Discard(r)
  /\ UNCHANGED <<branch, live, day, outcome>>

(* A step run() or the workflow takes on its own once the job has started. *)
Step(r) ==
  \/ Preflight(r) \/ Adapt(r) \/ Guard(r) \/ Gate(r) \/ Prompt(r)
  \/ CallModel(r) \/ Validate(r) \/ Publish(r) \/ AppendRecent(r)
  \/ RecordPass(r) \/ Push(r)

Next == \E r \in Runs : Checkout(r) \/ Step(r) \/ Crash(r)

(* A started job keeps running: every remote call it makes has a timeout.  *)
(* Nothing says that a job is ever started.                                *)
Fairness == \A r \in Runs : WF_vars(Step(r))

Spec == Init /\ [][Next]_vars /\ Fairness

-----------------------------------------------------------------------------
(* Properties.                                                             *)

TypeOK ==
  /\ registry \in [Dates -> R!File]
  /\ recent \in RecentFile
  /\ head \in Nat
  /\ live \in [Runs -> Nat]
  /\ stage \in [Runs -> Stages]
  /\ day \in [Runs -> Dates]
  /\ base \in [Runs -> Nat]
  /\ local \in [Runs -> [Dates -> R!File]]
  /\ localRecent \in [Runs -> RecentFile]
  /\ units \in [Runs -> Seq(Unit)]
  /\ response \in [Runs -> Responses \cup {NoResponse}]
  /\ appended \in [Runs -> BOOLEAN]
  /\ outcome \in [Runs -> Outcomes \cup {"none"}]

(* A pass record, on the branch or in any runner's checkout, names a post  *)
(* that is live and was made for the record's own date: no fault, crash or *)
(* rejected push ever leaves the Registry claiming a publication that did  *)
(* not happen (SPEC.md FR1, ADR-0055's incident read the other way round). *)
RecordsTruthful ==
  \A d \in Dates :
    \A file \in {registry[d]} \cup {local[r][d] : r \in Runs} :
      file.kind = "pass" => live[file.url] > 0 /\ day[file.url] = d

(* Immutable Lineage across runs: once the branch holds a file for a date, *)
(* readable or not, no later push replaces or removes it (writer.py:       *)
(* "Never overwritten").                                                   *)
RegistryImmutable ==
  [][\A d \in Dates : registry[d] # R!Absent => registry'[d] = registry[d]]_vars

(* With the concurrency group, no post is made for a date whose record on  *)
(* the branch says it was published, or cannot be read (the read-before-   *)
(* publish guard of daily_publish.run() and read_record's fail-closed      *)
(* rule).                                                                  *)
NoPostOverRecord ==
  [][\A r \in Runs : live'[r] > live[r] =>
       registry[day[r]].kind \notin {"pass", "unreadable"}]_vars

(* What each Outcome asserts when a run returns it, against LinkedIn and   *)
(* the runner's files.  PUBLISHED: one post, recorded under its own URL    *)
(* and last in the recent posts.  A skip or FAILED_INTEGRITY: no post; and *)
(* a Registry as checked out unless a block record was written.  What was  *)
(* checked out is compared while the branch is still there (base = head).  *)
OutcomeTruthful ==
  \A r \in Runs : stage[r] = "push" =>
    LET file == local[r][day[r]]
        posts == localRecent[r].posts
    IN /\ outcome[r] = "PUBLISHED" =>
            /\ live[r] = 1
            /\ file.kind = "pass" /\ file.url = r
            /\ posts # <<>> /\ posts[Len(posts)] = r
       /\ outcome[r] \in Skipped \cup {"FAILED_INTEGRITY"} =>
            /\ live[r] = 0
            /\ localRecent[r] = recent \/ base[r] # head
       /\ outcome[r] = "SKIPPED_ALREADY_PUBLISHED" =>
            file.kind = "pass" /\ file.url # r
       /\ outcome[r] = "SKIPPED_NO_ELIGIBLE_CONTENT" => file.kind = "block"
       /\ /\ outcome[r] \in (Skipped \cup {"FAILED_INTEGRITY"})
                             \ {"SKIPPED_NO_ELIGIBLE_CONTENT"}
          /\ base[r] = head
          => local[r] = registry

(* The recent posts the next prompt is given are real posts, each listed   *)
(* once, and no more than the limit (identity_state.py: "every stored      *)
(* entry is a real published post").                                       *)
RecentPostsGenuine ==
  /\ Len(recent.posts) <= RECENT_POSTS_LIMIT
  /\ \A i \in DOMAIN recent.posts :
       /\ live[recent.posts[i]] > 0
       /\ \A j \in DOMAIN recent.posts : recent.posts[i] = recent.posts[j] => i = j

(* A commit message reaches the prompt only from a repository whose own    *)
(* unit passed the integrity check in this run (collector.py: "an excluded *)
(* unit's messages/evidence can therefore never reach the post prompt").   *)
PromptOnlyVerified ==
  \A r \in Runs : stage[r] = "model" =>
    \A m \in OfferedMessages(units[r], RunContexts(units[r])) :
      \E i \in DOMAIN units[r] :
        units[r][i].repo = m.repo /\ units[r][i].integrity = "valid"

(* Without faults, one date is posted at most once, however many times the *)
(* workflow is run for it.                                                 *)
NoDuplicatePost ==
  \A d \in Dates : Cardinality({r \in Runs : day[r] = d /\ live[r] > 0}) <= 1

(* SPEC.md FR1: "One JSON record per publication event".  A run that made  *)
(* a post has its record in the Registry it is about to push, and, once    *)
(* the run has ended, on the branch, under its own date and no other.      *)
OneRecordPerPublication ==
  \A r \in Runs : live[r] > 0 =>
    /\ stage[r] = "push" =>
         local[r][day[r]].kind = "pass" /\ local[r][day[r]].url = r
    /\ stage[r] = "done" =>
         {d \in Dates : registry[d].kind = "pass" /\ registry[d].url = r} = {day[r]}

(* ADR-0067: with the Collector adapter a gate block is always an          *)
(* integrity violation, so no push ever adds a block record.               *)
CollectorNeverBlocks ==
  [][\A d \in Dates : registry[d] = R!Absent => registry'[d].kind # "block"]_vars

(* Every job that starts ends, with an Outcome unless the runner died:     *)
(* "Every run resolves to exactly one Outcome".                            *)
RunsResolve ==
  \A r \in Runs :
    stage[r] = "preflight" ~>
      \/ stage[r] = "crashed"
      \/ stage[r] = "done" /\ outcome[r] \in Outcomes

(***************************************************************************)
(* The refinement: LinkedIn and the branch, seen as a publication ledger.  *)
(***************************************************************************)
PostedFor(d) == {r \in Runs : day[r] = d /\ live[r] > 0}

Ledger == INSTANCE PublicationLedger WITH
  Posts <- Runs,
  NoPost <- NoRun,
  posted <- [d \in Dates |-> PostedFor(d)],
  recorded <- [d \in Dates |->
                 IF registry[d].kind = "pass" THEN registry[d].url ELSE NoRun]

(* Serialized runs, with every fault, implement the ledger: a date whose   *)
(* record reached the branch is never posted again.                        *)
LedgerSpec == Ledger!Spec

==============================================================================
