# article-pipeline: a TLA+ model

This directory models the parts of `article-pipeline` that decide something and
leave something behind: the daily LinkedIn publication, the Habr draft and its
delivery, the capture of the owner's Habr edits, and the tools the owner runs by
hand (claim extraction, evidence search, Strategy Layer pilots, Owner Verdicts). It
holds the TLA+ modules, the TLC configurations that check them on small
instances, and the theorems TLAPS proves about them for every instance. Paths are
relative to the repository (`src/` in `PROJECT.json`).

Commands, in this directory:

    tlc -workers 2 -config PublishFaults.cfg MCDailyPublish     # one run
    tlapm DailyPublish_proofs.tla                               # all its proofs

`PROJECT.json` lists the runs, the mutated definitions that show each property
can fail, the source lines of each definition (`map`), the hazards and the
theorems.

## 1. Inventory

Three workflows, each a few sequential Python programs on fresh runners. The
publication and the Habr delivery push to one branch, `registry-data`; the edit
capture pushes to `habr-edit-capture-data` and reads a Drive folder. Nothing in a
runner survives it: what a run leaves is what its `git push` gets accepted, a
LinkedIn post, a Telegram message. There are no threads and no `async` code.
The concurrency is between jobs, and between a job and the owner or another
repository; the failures are a runner that dies, a call that raises or times
out, a file write that stops half way, a push that is rejected.

Beside them are the scripts the owner runs in one checkout. They talk to each other through
the files they leave: a selection of atoms is the input of a pilot's
artifacts, these are the input of the searches, and later readers take whatever
file is the newest.

| Component | State | Operations | Talks to |
|---|---|---|---|
| Daily publish run (`linkedin_publisher/`) | the checkout of `registry-data`; the brief and its units; the model's answer; the Outcome | `run`, `main`, `classify_gate_block`, `build_pass_record`, `build_block_record`, `publish_post`, the preflight, `check_safety_pause_state` | Registry, strategy layer, author, LinkedIn, GitHub, the model |
| Publication Registry (`publication_registry/`) | one JSON file per `content_id` | `write_record`, `read_record` | the branch |
| Strategy layer (`strategy_layer/`) | none; a unit is a value | `adapt_daily_brief`, `check_integrity`, `run_pre_filter`, `check_gate_condition`, `build_claim_treatment` | Collector's brief, GitHub's compare endpoint |
| LinkedIn authoring (`author/`) | `recent_posts.json`, identity state | `build_authoring_contexts`, `build_clusters`, `build_prompt`, `call_model`, `validate_structured_response`, `append_recent_post` | the branch, the model |
| Habr draft, preparation and topic (`habr_draft/config, prepare, topic`) | the selection, the ranked candidates, the walk | `prepare`, `rank_candidates`, `choose_topic` | strategy layer, GitHub |
| Habr draft, revision loop (`habr_draft/loop, budget, llm, run_habr_draft`) | attempts, corrections left, spend, the run record | `run_rounds`, `BudgetGuard`, `HabrLLM` | the model |
| Habr delivery (`habr_draft/deliver, notify, runtime_workflow`) | artifact, checkout, the run's directory on the branch | `validate_artifact`, `stage`, push, notification, the owner's re-runs | draft job, branch, Telegram |
| Habr edit capture (`habr_edit_capture/`) | one JSON file per captured state of an article | `run_capture_pass`, `write_capture` | Drive, the owner, the branch |
| Telegram sender (`habr_edit_capture/telegram_send.py`) | none | `send_habr_draft` | Telegram |
| Claim extraction (`claim_extraction/`) | `atom_selector_state.json`; `pilot_run_*.json`, `pilot_log_*.json` | `select_atom`, `select_pilot_atoms`, `build`, `write_outputs` | the knowledge graph's cards, an interactive session |
| Evidence package (`evidence_package/`) | a session's records, in memory | `find_latest_pilot_run`, `load_claims`, `run_searches`, `retry_search` | the newest run file, the search API, the owner's session |
| Strategy pilots (`run_collector_pilot`, `run_habr_pilot`, `write_verdict`) | one immutable `verdict_<run_id>.json` a run | `adapt_manifest`, `build_verdict`, `write_outputs`, `build_habr_digest` | Collector's manifest, GitHub |
| Owner verdict (`verdict/`) | one file per verdict, in a directory per `content_id` | `write_verdict`, `read_verdicts` | the owner |
| Weekly and prototype authoring, developer tooling, directories without code | none | | |

What makes each hard, and what makes it correct:

* **Daily publish.** A post cannot be taken back, and its record is written
  after it, then pushed. The guard that should prevent a second post reads a
  checkout. Between the post and the push there are two file writes, each of
  which can raise or leave half a file, and a runner that can die. Correct means:
  a record tells the truth; a recorded date is closed; a record never changes;
  an Outcome says what happened; without faults, one post and one record a date;
  the prompt holds only what the integrity check verified; every job ends.
* **Registry.** Four outcomes of one write, one of them an interrupted one.
  Correct means immutable and truthful.
* **Habr draft.** Some thirty ways to end, on which `NO_ELIGIBLE_TOPIC`,
  `QUALITY_BLOCK` and `SYSTEM_FAILURE` must not be confused; money is spent; a draft with a
  secret must not go on. Correct means: the outcome is the one the rounds
  earned, the spend stays within its limit, and nothing is claimed that was not
  observed.
* **Habr delivery.** Re-runs keep the run id and so the directory; another
  workflow pushes to the same branch. Correct means: what is committed stays and
  matches its records, and the owner is told of nothing that is not there.
* **Edit capture.** The listing, the export, the dedup and the push are four
  moments, and the owner edits between them. Correct means: nothing twice,
  nothing lost, nothing stale, and the last text is captured.

* **The owner's tools.** They have no locks and no transactions: a state file is
  truncated before it is written, two files that belong together are written one after
  the other, names are stamped to the second, and a tool can be interrupted anywhere.
  A search costs money, and what a session counts of it is what its records say. Correct
  means: the rotation serves the clusters evenly, a log is true of the run beside it, what
  is written is written once, a record tells what became of its claim, a
  digest speaks of what the verdict includes, and an owner's verdict is never lost
  to a reader that is answered.

The hazards, each at its line, are in `PROJECT.json`.

## 2. The modules

| Module | What it is |
|---|---|
| `PublicationRegistry` | Registry files and `write_record`/`read_record`, as operators over a file per date |
| `StrategyLayer` | brief, answers of GitHub, units, pre-filter, derivation kind, treatments, as pure operators |
| `LinkedInAuthor` | contexts, offered messages, validation of the answer; extends `StrategyLayer` |
| `DailyPublish` | the state machine of the publish workflow; extends `LinkedInAuthor`, instantiates `PublicationRegistry` |
| `PublicationLedger` | abstract specification: what the branch may claim of what LinkedIn holds |
| `HabrSelection` | configuration gate, selection, ranking, fragments, cap, as pure operators; extends `StrategyLayer` |
| `HabrDraft` | the state machine of a Habr draft run |
| `HabrOutcome` | abstract specification: which outcome a sequence of rounds earns |
| `HabrDelivery` | the state machine of the delivery workflow and its re-runs |
| `HabrEditCapture` | the state machine of the capture passes and the owner's edits |
| `ToolFile`, `RunClock` | a file written with `open(path, "w")`; the second that names a tool's files |
| `AtomSelection` | `select_atom` and its state file, `select_pilot_atoms` |
| `PilotOutput` | `build` and `write_outputs` of a Claim Extraction pilot; extends `AtomSelection` |
| `EvidenceSearch` | the search phase and the retries of an Evidence Package; extends `PilotOutput` |
| `StrategyPilot` | both Strategy Layer scripts over a manifest, verdict files and digest; extends `LinkedInAuthor` for contexts and treatments |
| `OwnerVerdict` | the append-only stream of Owner Verdicts and its reader |
| `OwnerTools` | the state machine of all the owner's tools in one checkout |
| `WriteOnceFiles` | abstract specification: a name is created once, by one tool, which alone may complete it |
| `DailyPublish_proofs`, `DailyOutcome_proofs`, `HabrDraft_proofs`, `HabrDelivery_proofs`, `HabrEditCapture_proofs`, `OwnerTools_proofs` | theorems about the state machines |
| `FiniteOrder` | what `sorted()` and a filtering comprehension return, by counting: no recursion, so that it can be proved about |
| `AtomSelection_proofs`, `FiniteOrder_proofs` | lemmas for `OwnerTools_proofs` and `HabrDraft_proofs` |
| `MC...` | the small instances |

### DailyPublish

One state variable per thing that exists: `registry`, `recent` and `head` are the
branch, `live` counts LinkedIn's posts per run, and for each run there is a
`stage`, the brief's `day`, the `base` it checked out, its disk (`local`,
`localRecent`) and memory (`units`, `response`, `appended`) and the `outcome`.

| Action | Code |
|---|---|
| `Checkout` | the job starts: checkout of the branch and of Collector's brief |
| `Preflight` | the safety pause (absent, open, malformed), then the token preflight |
| `Adapt` | `adapt_daily_brief` with `check_integrity` per repository; a brief of another schema raises |
| `Guard` | `read_record` of the date: skip on a pass record, raise on an unreadable file, go on otherwise |
| `Gate`, with `WriteBlock` | pre-filter and `check_gate_condition`: integrity violation, block record, or go on |
| `Prompt`, `CallModel`, `Validate` | contexts and treatments; the model's answer or an exception; `validate_structured_response`, automation-only days |
| `Publish` | `publish_post`: created, refused, or accepted without a confirmation |
| `AppendRecent` | `append_recent_post`, whose write truncates first; the exception is caught |
| `RecordPass` | `write_record` and the Outcome the two persistence steps decide |
| `Push` | `git push` without force |
| `Crash` | the runner dies, at any step |

A `content_id` is a function of the date; that different dates have different
ids is `build_content_id`'s (the mutant `FixedContentId` says what that is
worth). A post is named by its run, so a URL is a run. Texts are classes: clean,
forbidden, empty. `Serialized` is the workflow's concurrency group,
`PersistOnFailure` its `if: always()` push step, `AdapterStatuses` what the
adapter sets (`{"not_applicable"}` for Collector).

**Abstraction to `PublicationLedger`.** The ledger has, for each date, the posts
made and the post recorded. It may publish while the date has no record and
record a post that was made, once. The mapping takes the posts made from `live`
and the record from the pass records of `registry`. A block record, an unreadable
file, a lost push are all "no record".

### HabrDraft

`config`, `mode`, then the selection (`selection`, `candidates`, `walk`,
`any_error`), the loop (`attempts`, `corrections_left`, `draft`, `l1`), the money
(`spent`, `overran`, `reported`) and the `record`.

| Action | Code |
|---|---|
| `PrepareInput` | the selection job and its input file, which may be missing or unreadable |
| `ConfigGate` | what each mode must have set, before anything is looked at |
| `WalkCandidate`, `EndOfWalk` | one candidate of `choose_topic`: allow-list, visibility, fetch, fragments under the cap |
| `Generate` | one paid call, its parse, the secret scan |
| `JudgeL1` | the first judge's call, whose estimate raises on a draft without an encoding |
| `JudgeQ` | the second judge's call, the four checks, the verdict and what follows it |
| `JudgeReference` | calibration's call on the owner's reference text |
| `Crash` | the runner dies; an exception nobody catches ends at the same `stage`, "crashed" |

A draft is a record of what the checks will find in it. Every draft and every
judge's answer is chosen freshly at every call. A paid call is refused, raises
before or after the API counted it, or answers; `spent` is what the guard recorded,
and `reported` all usage the API reported, that of a call that then raised included.

**Abstraction to `HabrOutcome`**: a history of round results and the outcome,
which depends on the history alone. The mapping takes a round's result from the
attempt the loop recorded.

### HabrDelivery

Jobs `draft`, `stage`, `push`, `notify` of each workflow run, its `execution`
count, its artifact, the run's directory on the branch, and `tip`, which another
workflow moves too. `RerunAll` and `RerunDeliver` are GitHub's two re-run
buttons. An attempt's file is its execution and a class of text: with LF line
ends, with CRLF, with a pattern the scan finds. Line ends change in `ReadText`,
as in `stage()`. Assumed: an artifact survives to the re-run, and run records of
one directory sort in the order of the executions.

### HabrEditCapture

`branch` is the records' files in the order they were added, `final[a]` counts the
owner's edits of article `a`, and a file's `modifiedTime` and its text's version
are both that count: what `TextNotStale` compares. A pass walks folders
(`ListFiles`), takes pairs (`Capture`), and pushes. `Fault` ends a pass anywhere
and `unreadable` finals cannot be exported. Two files of the same name in a
folder are not modelled.

### OwnerTools

| Action | Code |
|---|---|
| `StartTool` | one of the tools is started, with its arguments and what it reads first: `StartSelection`, `StartBuild`/`RefuseBuild`, `OpenSession`/`OpenRaises`, `StartPilot`/`PilotRefused`, `StartVerdict` |
| `ToolStep` | the started tool's next step: a pick or the saving of the index; the creation of a file, then its writing; one search; the digest; the end |
| `SessionStep` | the owner's session retries a claim (`retry_search`) or is closed |
| `ToolDies` | the tool ends between two steps |

A file exists and is torn from `open(path, "w")` until all of it is written
(`ToolFile`); a tool that dies in between leaves it so. `RunClock` lets two runs have
one second. One tool runs at a time: the code has no locks and the documents speak of one
owner, so overlap is not modelled. A card is its cluster, or unreadable; a card's
text and the five texts of a claim are left out. The claims file of a build is the
selection's atoms with anything a session may say of each, or one that does not match: reversed, or with
an atom left out. A manifest's units go through `StrategyLayer` and
`LinkedInAuthor`, the operators the daily run uses; `ByClaim` then judges all entries
of a repository by its last, because both scripts look results up by claim id.
`looks_russian` is given per repository.

History variables: `lead` counts how many times each cluster was picked, less the least;
`searches` counts searches that were made, retries that raised, and those of them
that no total counts; `digests` are what was printed, `recorded` the verdicts that were
written to the end (`write_verdict` returns next; a death in between leaves the file).
`counts_failures` is a choice of the session's: `retry_search` leaves the
run-wide total to its caller (`driver.py:224-230`), and its docstring does not say whether a call that raised is in it.

**Abstraction to `WriteOnceFiles`.** All names of all tools are one store. `files` is the
file of each name; `open` are the names being written by a live tool, which is the
builder's, the pilot's or the recorder's current one while its stage is "write".

## 3. Runs

| Run | Question | States | Bounds |
|---|---|---|---|
| `publish_faults` | with every fault, does the branch never lie or change, does a record close its date, does the Outcome say what happened? | 141 000 | 2 runs one after the other, 2 dates, 2 repositories, 4 briefs, 6 answers, files already on the branch |
| `publish_unserialized` | what stays true when jobs overlap, and does every job end? | 26 000 | 2 runs, 2 dates, 2 briefs |
| `publish_no_faults` | without faults: one post a date, one record a post, no block record? | 91 000 | 3 runs, 2 dates |
| `empty_brief` | does a post get a record when the brief lists no repository? (no) | | 2 runs, 1 date |
| `habr_topic` | is `NO_ELIGIBLE_TOPIC` always an observation; does unset configuration stop first? | 27 000 | 5 configurations, 4 briefs, 3 answers, 4 fetches, 2 repositories |
| `habr_loop` | is the outcome the earned one, within the limit, and does a run end? | 172 000 | both modes, 5 drafts, limit 7 against usages 0, 1, 3 |
| `habr_lost_record` | does a run that ends have a record? (no) | | 5 drafts, no crashes |
| `habr_deliver` | does what is committed stay, match, and is it what was notified? | 705 000 | 2 runs, attempts 1 and 2, 1 re-run, 1 other push, symmetric in runs |
| `capture` | nothing twice, nothing lost, nothing stale, last text captured? | 105 000 | 2 overlapping passes, 2 articles, 2 and 1 edits, 1 fault |
| `owner_tools` | do the tools keep the rotation fair, the log true, every search accounted for, the verdicts whole and the files written once, and does each end? | 435 000 | 3 tools started, 3 cards, 3 clusters, 4 graphs, 2 seconds, budgets 1 and 2, 2 retries, 2 manifests, 3 record ids |
| `retry_budget` | is a claim's budget a hard limit, as `driver.py` says? (no) | | budget 3, 2 retries |
| `capture_not_exported` | does one file Drive cannot export leave the others captured? (no) | | 1 pass, 2 folders, no faults |

Why these bounds are enough to be worth something:

* Two publish runs are a run and a re-run, or two racing; the second date shows
  that a run touches its own only. Three runs in `publish_no_faults` are two for
  a date and one for another in any order. `RECENT_POSTS_LIMIT` 1 or 2 is reached
  by two or three posts, so truncation happens.
* The briefs: two busy repositories; an unresolved one with a message, so that the
  gate must drop it; a quiet day; an old schema. The answers are one of
  each kind `validate_structured_response` and `run()` tell apart, and one they
  tell apart differently (a truthy `automation_only_day`).
* `MAX_CORRECTIONS` is the code's 2, so the loop is explored in full. The limit
  of 7 lets it run out in each round.
* One fault and one re-run each let the next pass or execution meet what the
  failed one left, which is the only way a failure reaches anything else.

* Three tools are selection, build and search session, the longest chain there is, or
  two selections of which the first died, or two verdicts on one content. The graphs: clusters
  of different sizes, so that selections repeat an atom and give up; an empty cluster; an unreadable
  card; no card in any cluster. A run budget of 1 leaves the second claim pending, and
  one of 2 lets a retry happen after one search. A manifest of two repositories, one of them
  listed twice, gives included and excluded units; all excluded gates.

In runs with `CHECK_DEADLOCK FALSE` the system stops: a run ends, and the number
of runs, or of tools started, is bounded. In `capture` passes repeat forever and deadlock is checked.

**Fairness.** `DailyPublish` assumes `WF` of a started run's steps: the code is
sequential and each remote call has a timeout, so a step that can be taken is.
That a job is ever started is not assumed. `HabrDraft` assumes the same of its one
sequential program. `RunsResolve` and `RunEnds` count a dead runner as an end, and
an uncaught exception is then one as well. `HabrEditCapture` assumes
`WF` of each pass, because the workflow runs daily; the owner's edits have none.
In `LastTextCaptured` faults run out (`MaxFaults`), the property being that
failed passes lose nothing for good. `HabrDelivery` has no fairness: a re-run is
the owner's. `OwnerTools` assumes `WF` of the started tool's steps, as for `DailyPublish`
(a search has a timeout); the owner's starting, retrying and closing, and deaths, have none.

### What the properties say

* `RecordsTruthful`: a pass record, on the branch or in a checkout, names a post
  that is live and was made for the record's date.
* `RegistryImmutable`: a push neither replaces nor removes a file of the branch,
  unreadable ones included.
* `NoPostOverRecord`: no post is made for a date whose file on the branch is a
  pass record or unreadable.
* `OutcomeTruthful`: PUBLISHED means live, recorded and appended; a skip or
  FAILED_INTEGRITY means nothing was posted and the Registry is as checked out, but
  for the block record of SKIPPED_NO_ELIGIBLE_CONTENT. FAILED claims nothing: a post may be live.
* `PromptOnlyVerified`: what the model is offered comes from repositories whose own
  unit passed the integrity check in this run.
* `RecentPostsGenuine`: the posts of `recent_posts.json` on the branch were made,
  none is there twice, and they are no more than the limit.
* Without faults and with Collector's adapter only: `NoDuplicatePost`, one post a date;
  `OneRecordPerPublication`, a post's record is in the Registry its run pushes and, once
  the run is done, on the branch, under the run's date and no other;
  `CollectorNeverBlocks`, no push adds a block record.
* `NoTopicObserved`: that nothing is eligible is said only of candidates that were all looked
  at without an error. `MissingStopsFirst`: with a value unset that its mode requires (`Configured`,
  taken from the environment and not from what the run reports) a run looks at no candidate,
  spends nothing and, if it ends, ends as missing configuration; and every run that ends so
  has done nothing of this.
* `SpendWithinLimit`: unless a call overran its own estimate, the reported
  usage stays within the limit. `SecretDiscarded`: a draft the scan finds
  a secret in is neither saved nor judged nor accepted, and every other attempt's draft is
  saved. `BestIsTheOutcome`: a READY run's best attempt is the one that passed, a
  BLOCKED run's is a saved one that failed a check, such that no kept draft failed fewer
  and no later one as few; it has none only if every draft was discarded.
* `FilesImmutable`, `RecordsMatchFiles` (line ends aside, and no execution is recorded
  twice), `NoPatternCommitted`, `NotifiedIsCommitted` of the delivery; `OneRecordPerState`, `TextNotStale`,
  `AppendOnly`, `LastTextCaptured` of the capture.

* `RotationBalanced`: of the clusters with atoms none was picked two times more than
  another, over all selections, those included that died, raised or gave up.
* `LogMatchesRun`: a whole log has a whole run file beside it with the atoms of one
  selection, each once and in order, and counts what that file holds.
* `RequestsAccounted`: a record is pending exactly when nothing was searched,
  unverifiable exactly when its first search raised; its requests are its searches, less retries
  that raised; pending ones come last and are flagged; only uncounted retries can exceed the
  run's budget.
* `VerdictStream`: a reader of verdicts that is answered gets every verdict that was
  written to the end, once, as recorded, in the order received. `DigestOfVerdict`: a
  digest names only repositories GitHub confirmed in that run and the verdict,
  already written, includes; a verdict is gated exactly when it includes nothing.
* `FilesWrittenOnce`: the refinement. `ToolsEnd`: a started tool ends or hands over to the owner.

Each is broken by at least one plausible bug: see `mutants`.

## 4. Proofs

Every theorem is for every value of the constants under the modules' named
assumptions, and for every choice of faults unless the last column says otherwise.

| Module | Theorem | Says | Assumes |
|---|---|---|---|
| `DailyPublish_proofs` | `TypeCorrect` | `Spec => []TypeOK` | |
| | `RecordsAreTruthful` | `Spec => []RecordsTruthful` | |
| | `RegistryIsImmutable` | `Spec => RegistryImmutable` | |
| | `NoPostOverARecord` | `Spec => NoPostOverRecord` | `Serialized` |
| | `ImplementsLedger` | `Spec => LedgerSpec` | `Serialized` |
| `DailyOutcome_proofs` | `OutcomesAreTruthful` | `Spec => []OutcomeTruthful` | |
| | `PromptIsVerified` | `Spec => []PromptOnlyVerified` | |
| | `RecentPostsAreGenuine` | `Spec => []RecentPostsGenuine` | |
| | `CollectorBlocksNothing` | `Spec => CollectorNeverBlocks` | Collector's adapter |
| | `NoDateIsPostedTwice` | `Spec => []NoDuplicatePost` | `NoFaults` |
| | `EveryPostIsRecorded` | `Spec => []OneRecordPerPublication` | `NoFaults` |
| `HabrDraft_proofs` | `TypeCorrect` | `Spec => []TypeOK` | |
| | `NoTopicIsObserved` | `Spec => []NoTopicObserved` | |
| | `CandidatesAreRanked` | `rank_candidates` is a permutation, in order, and stable | |
| | `FragmentsStayWithinCap` | what `select_within_cap` keeps, in total; nothing that would fit is left out | |
| | `UsableIfAnyFragmentFits` | a candidate is usable iff some admitted file fits by itself | |
| | `SpendIsWithinLimit` | `Spec => []SpendWithinLimit` | |
| | `MissingStopsBeforeAnything` | `Spec => []MissingStopsFirst` | |
| | `SecretsAreDiscarded` | `Spec => []SecretDiscarded` | |
| | `BestAttemptIsTheOutcome` | `Spec => []BestIsTheOutcome` | |
| | `ImplementsOutcome` | `Spec => OutcomeSpec` | |
| `HabrDelivery_proofs` | `TypeCorrect` | `Spec => []TypeOK` | |
| | `CommittedMatchesRecords` | `Spec => []RecordsMatchFiles` | |
| | `NoPatternIsCommitted` | `Spec => []NoPatternCommitted` | |
| | `NotificationsTrue` | `Spec => []NotifiedIsCommitted` | |
| | `CommittedIsImmutable` | `Spec => FilesImmutable` | |
| `HabrEditCapture_proofs` | `TypeCorrect`, `NeverRecordedTwice`, `TextIsNeverStale`, `BranchIsAppendOnly` | the four safety properties | |
| `OwnerTools_proofs` | `TypeCorrect` | `Spec => []TypeOK` | |
| | `DigestsAreOfVerdicts` | `Spec => []DigestOfVerdict` | |
| | `VerdictsAreStreamed` | `Spec => []VerdictStream` | |
| | `RotationIsFair` | `Spec => []RotationBalanced` | |
| | `LogsMatchRuns` | `Spec => []LogMatchesRun` | |
| | `RequestsAreAccounted` | `Spec => []RequestsAccounted` | |
| | `FilesAreWrittenOnce` | `Spec => FilesWrittenOnce` | |

`NoFaults` is `Serialized`, no faults, Collector's adapter, no file on the branch
at the start, and no brief without repositories: `empty_brief` is what happens
without the last one.

**Publication.** `TypeOK` is inductive alone. `TruthInv` adds
`PostedBeforeRecord`: at the step that writes a record a post is live, and live
posts only grow; without it a record could name a post not made yet.
`CheckoutInv` says that a running job whose `base` is still the branch's `head`
holds every file the branch holds; with the fast-forward rule this is what makes a push
replace nothing, and it needs no serialization. For `NoPostOverARecord` and `ImplementsLedger`, `FreshInv` (a
run that has not reached its post has none), `GuardInv` (past the guard the
checkout has neither a pass record nor an unreadable file for the date),
`OwnDateInv` (a checkout differs from the branch in the run's own date only) and
`AloneInv` (one job runs, from the branch's head). `AloneInv` is where the
concurrency group enters, and `NoPostOverRecord` is false without it: two runs
pass the guard, one pushes, the other posts. `ImplementsLedger` is the step
simulation: every action but `Publish` and `Push` leaves the ledger unchanged,
`Publish` is its `Publish` on an open date, or a stutter when refused, and `Push`
records one date or none (`PushRecordsOneDate`).

**What a run says.** `OutcomeInv` follows one run through its stages
(`RunFacts`): it has posted once from "append" on; the post it appended is the last
in its recent posts; before the post its checkout is untouched, a block
record excepted; and its Outcome holds. The other runs can only move the branch away from its base
(`FactsOfOthers`), so nothing needs serialization. `RecentInv` says of all recent
posts files at once, the branch's and the runners', that they are genuine, and that a
run about to append is in none. `BlockInv` (no checkout based on the head has a
block record the branch lacks) gives the action property. For the last two, `CleanInv`
says that every file is absent or a pass record and that a run with a live
post has secured its record, in its checkout and then on the branch.

**Habr draft.** `RunInv` has the types, `SpendInv` (until a run ends all that was reported
was recorded, which is what the limit is checked against), `AllSound` (an
attempt's fields agree with each other) and `PhaseInv` (which attempts,
corrections and candidates there can be at each stage). The step simulation of
`HabrOutcome` needs the last: READY and BLOCKED are decided from
`corrections_left`, which must count the attempts.

The selection and the walk have an invariant of their own,
`SelectInv`. While a run walks (`WalkInv`) there are as many candidates as units, the configuration was
complete, and without an error so far every candidate looked at was passed over
for its data; that is what `EndOfWalk` turns into NO_ELIGIBLE_TOPIC. It needs that the ranking
loses no unit, and the types need that preparation keeps
units only: `CandidatesAreRanked` and `KeptSelects` prove that for lists
of every length. `UsedAfter` is a recursive function; that
it exists, and what it never exceeds, is proved by the least position at which it would fail
(`ReachesAll`, from the well-foundedness of finite subsets), since the library's induction takes
an operator.

**Sorting.** The lemmas rest on `InOrder`: an element of a finite set stands where as
many elements come before it. For a total order no two have the same
count (`PrecedingGrows`) and every count is taken (`PlaceTaken`), so that it is
a permutation in the relation's order (`InOrderSorts`). Python's sort is stable, so that
the relation of a key is made total by the positions: what `Before` does in `HabrSelection`, `Sorting` in
`OwnerVerdict`.

**Habr delivery.** A push is safe because the checkout extends the branch as
long as `base = tip` (`PushExtends`), and the record of a staged directory
matches its files (`DirectoriesConsistent`).

**Edit capture.** `CaptureInv` adds to what is proved that each checkout
has no duplicates, nothing stale and extends its `base`, and that a listing is not
newer than the final. `OneRecordPerState` is not inductive without it: a push replaces the branch by a checkout.

**Owner's tools.** The rotation: order the clusters by how many steps after the saved
index they come (`Distance`). None is ahead of a later one (`Ordered`), so that the next one is a
least picked one, and once picked it comes last. Between the truncation of
the state file and its writing `SavingInv` holds the same of the index to be
written, and a torn file ends all selection, so that a death cannot unbalance it. The log: atoms of a
selection are distinct (`AtomsDistinct`), what the builder will write is of one
selection and at the log its run file is written (`OutputInv`). The searches:
from the first pending claim on the total is at the budget
(`AnyPending => BudgetReached`), so that no later claim is searched and no pending one retried,
and all searches are in the total but for uncounted retries (`TotalsInv`). The refinement: each
tool's file is still absent between its check and its creation, since it alone
creates that name, and a step moves one tool's files only (`MovesLift`).

`ToolsInv` joins these with what the rest needs. The digest: a
manifest's units, its treatments and its verdict are functions of the units alone (`VerdictOn`),
so that a pilot at its digest holds what the whole file beside it says
(`PilotRunInv`), every included unit is confirmed, and verdicts already whole do not change
(`DigestsStay`). The stream: the recorded verdicts are exactly the whole
files (`RecordedInv`), a reader that is not refused sees no torn one (`ListedAreWhole`), and sorting
loses and repeats none (`ReadIsStream`), in whatever order the directory lists them.
The session's types rest on a lemma: no session has more records than claims (`SessionRest`), so that
each record's claim is one that was loaded (`SessionTyped`).

**Only model-checked.** Liveness (`RunsResolve`, `RunEnds`, `LastTextCaptured`,
`ToolsEnd`), which needs fairness and `ENABLED` and is outside of what the prover
does. Every invariant and every action property of a passing run is
proved. No module declares a `RECURSIVE` operator.

**What the proofs changed.** `read_verdicts` was modelled with one listing
of the directory and the library's `SortSeq`, which for records of one second is
not determined by its definition; it is now sorted stably from every listing (`Readings`), and
`VerdictStream` holds of each. `SelectSeq` gave way to `Kept`, of which the
prover can say what it returns.

## 5. Where code and documents part

Shown by a run:

* `empty_brief`: a brief with no repositories passes the gate and is posted
  without a record (`daily_publish.py:365`, `SPEC.md:92`).
* `habr_lost_record`: a draft that has no UTF-8 encoding ends the run
  without a run record (`budget.py:26`, `SPEC.md:539-540`).
* `capture_not_exported`: one final that cannot be exported ends every pass
  before its push (`diff_capture.py:106`, `SPEC.md:262`).

* `retry_budget`: a retry that raises is not counted for its claim, so a third
  search is made (`driver.py:243`, against `driver.py:34` and `224`, "hard checks").

Present in the models, and the reason why a property is worded as it is:

* A block record lets a later run post and then conflict: the file stays "block"
  for a posted date (`daily_publish.py:349` and the comment above it).
  `RecordsTruthful` speaks of pass records.
* `run()` takes any truthy `automation_only_day`, the validation only `true`
  (`daily_publish.py:438`): a valid post can be dropped as a skip.
* A call that fails after the API counted it is never recorded
  (`llm.py:96`, against `budget.py:74-75`). Only one such call can happen, since it
  ends the run, so `SpendWithinLimit` holds of `reported`, which includes it.
* The scan reads the JSON form, in which a line starts after an `n`; patterns
  with a word boundary there are not found (`loop.py:127`, `SPEC.md:668-669`).
  `SecretDiscarded` speaks of what the scan finds.
* An attempt discarded for a secret is a `QUALITY_BLOCK` though no check was
  executed; SPEC requirement 48 derives it "from an executed check".
* CRLF becomes LF between validation and write, so the committed bytes need not
  have the recorded hash (`deliver.py:107`, `SPEC.md:559-560`). Hence "line ends aside".
* After a re-run the notification reads the directory's first record, an earlier
  execution's (`runtime_workflow.example.yml:315`, `notify.py:5`).
* An edit between listing and export is filed under the old `modifiedTime`
  (`diff_capture.py:88`, `contract.py:28`). `TextNotStale` excludes the other direction.
* Calibration iterates over the judge's findings on the reference text without
  validating them (`run_habr_draft.py:338-341`).
* After an unpersisted post a re-run posts again; ADR-0067 accepts that under "Not decided
  here". `NoDuplicatePost` is a property of runs without faults.

* `category_counts.technical_failure` adds the selection's read errors, and a card that cannot
  be read is one error each time a cluster is listed: one card counts several times
  (`build_pilot_output.py:86-88`). `LogDescribes` asks for at least the records' number.
* A torn file stays: `atom_selector_state.json` ends every later selection, the newest
  `pilot_run_*.json` every later search session, a torn verdict every read of its
  content. Nothing repairs them. `VerdictStream` speaks of readers that are answered.
* `read_verdicts` compares times with and without a zone, which raises; its docstring
  says that it never raises for a content without verdicts, and says nothing of this.
* With the default limits, 10 claims and 20 requests, `run_searches` can never leave a claim pending; only a
  lower budget makes its event reachable. The runs use lower ones.
* A missing translation is a `KeyError` out of `run_searches` and loses the records made so far, requests
  paid for included. A missing API key counts as a request. A retry always uses the original
  query, also in a session with translations.
* `run_habr_pilot` writes the verdict and then refuses an empty digest: the verdict stays.

Read and not modelled: the docstring of `daily_publish.py` counts five
`SKIPPED_*` outcomes where there are four; that of `adapt_daily_brief` names
`schema_version` 2 where the constant is 3; a repository listed twice in
`per_repo` gives two units of one id (`DailyPublish` takes the entries by position); SPEC says that `send_habr_draft` has no call
sites and `notify.py` calls it; a comment of `habr-edit-capture.yml` (28-33) says
that overlapping passes could capture a state twice, and `capture` and
`NeverRecordedTwice` show that the rejected push prevents it.

## 6. Not modelled, and why

Prompts, wording, lengths, diffs, HTTP bodies and the exact patterns of scans are
data: the models keep what the code decides by. Telegram is one call of two
outcomes. `generate_drafts.py`, `channel_author.py`, `channel_profiles.py`,
`story_builder.py` and the prototype adapters turn one input into text and keep no
state. `scripts/` checks the repository itself and is no part of the pipeline.
`context_layer/`, `platform_adapter/`, `quality_gate/` and the experiment log have no code.
Overlapping runs of the owner's own tools are not modelled (section 2), nor are edits
of the cards between a selection and its build.

## 7. Plan

Done: all components that keep state, each with its state machine and a run; the
three abstract specifications (`PublicationLedger`, `HabrOutcome`,
`WriteOnceFiles`) with checked and proved refinements; every safety property of the
passing runs proved.

Open:

1. One abstract append-only stream that the capture branch and the Owner Verdicts both
   implement; `AppendOnly`, `VerdictStream` and `FilesWrittenOnce` state its parts.
2. Two of the owner's tools at once: the state file of the rotation is read, changed and written
   without a lock.
3. A larger delivery instance: three executions of one run, and two runs whose
   records share a directory listing.
