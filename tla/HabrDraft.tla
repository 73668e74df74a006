------------------------------ MODULE HabrDraft ------------------------------
(***************************************************************************)
(* One Habr draft run: stage 1 (prepare.py), the configuration gate, the   *)
(* walk over the candidates (topic.py), the bounded revision loop          *)
(* (loop.py) with its paid calls (llm.py, budget.py) and checks            *)
(* (checks.py), and the outcome the run record carries (run_habr_draft.py).*)
(*                                                                         *)
(* Costs are small integers.  A draft is the set of things the checks tell *)
(* apart; a judge's answer is one of the classes its evaluation tells      *)
(* apart.                                                                  *)
(***************************************************************************)
EXTENDS HabrSelection

CONSTANTS
  Configs,       (* Configurations the owner may have set.                 *)
  Modes,         (* Run modes, of {"production", "calibration"}.           *)
  Briefs,        (* Briefs of the supported schema Collector can write.    *)
  Answers,       (* Answers GitHub's compare endpoint can give.            *)
  FetchAnswers,  (* What fetching a candidate's commits can give.          *)
  Drafts,        (* Drafts the model can write.                            *)
  NoDraft,
  LIMIT,         (* max_run_spend_usd                                      *)
  Estimates,     (* Worst-case estimates a request can have.               *)
  Usages,        (* Costs the API can report for one call.                 *)
  RunnerCrashes  (* Whether the runner may die.                            *)

(* secret: whether its text matches a secret pattern, and whether the      *)
(* match is only at the start of a line ("line_start"), where the scanned  *)
(* JSON form has the letter n of an escape before it.  encodable: its   *)
(* text has a UTF-8 encoding, which a lone surrogate escape does not.      *)
(* cites, rules and requirements: what the deterministic part of L1, check *)
(* (a) and check (b) find.                                                 *)
Draft == [secret : {"none", "seen", "line_start"}, encodable : BOOLEAN, cites : BOOLEAN,
          rules : BOOLEAN, requirements : BOOLEAN]

ASSUME HabrAssumption ==
  /\ Configs \subseteq Config
  /\ Modes \subseteq {"production", "calibration"}
  /\ Briefs \subseteq Brief
  /\ \A brief \in Briefs : brief.schema = DAILY_BRIEF_SCHEMA_VERSION
  /\ Answers \subseteq Answer
  /\ FetchAnswers \subseteq Fetched
  /\ Drafts \subseteq Draft
  /\ NoDraft \notin Drafts
  /\ LIMIT \in Nat
  /\ Estimates \subseteq Nat
  /\ Usages \subseteq Nat
  /\ RunnerCrashes \in BOOLEAN

MAX_CORRECTIONS == 2

READY == "INTERNAL_DRAFT_READY_FOR_OWNER_REVIEW"

FailureKinds ==
  {"missing_configuration", "execution_error", "budget_limit", "input_validation"}

VARIABLES
  config,            (* acceptance_config.json                             *)
  mode,              (* --mode                                             *)
  stage,             (* where the run is                                   *)
  selection,         (* selection_input.json                               *)
  candidates,        (* the ranked candidates                              *)
  walk,              (* what the walk found at each candidate so far       *)
  any_error,         (* a technical error of the walk                      *)
  attempts,          (* the attempts of run_rounds                         *)
  corrections_left,
  draft,             (* the draft being judged                             *)
  l1,                (* the L1 judge's answer to it                        *)
  spent,             (* BudgetGuard.spent_usd                              *)
  overran,           (* some call cost more than its estimate              *)
  reported,          (* the cost of all usage the API reported             *)
  record             (* the outcome fields of the run record               *)

selecting == <<selection, candidates, walk, any_error>>
looping == <<attempts, corrections_left, draft, l1>>
money == <<spent, overran, reported>>
vars == <<config, mode, stage, selecting, looping, money, record>>

WalkResults == {"visibility_check_error", "not_confirmed_public",
                "no_usable_fragment", "fetch_error", "chosen"}

Stages == {"prepare", "config", "walk", "generate", "l1", "q", "reference",
           "done", "crashed"}

Checks == {"l1", "rules", "requirements", "q"}
CheckStatuses == {"pass", "fail", "error", "missing"}

(* checks is "none" everywhere when no check was executed. *)
NoChecks == [c \in Checks |-> "none"]
Attempt == [verdict : {"pass", "QUALITY_BLOCK", "SYSTEM_FAILURE", "recorded"},
            saved : BOOLEAN, hit : BOOLEAN,
            secret : {"none", "seen", "line_start"},
            checks : [Checks -> CheckStatuses] \cup {NoChecks}]

NoRecord == [terminal |-> "none", observable |-> "none", kind |-> "none"]
RunRecord == [terminal : {"none", READY, "BLOCKED", "SYSTEM_FAILURE"},
              observable : {"none", READY, "BLOCKED", "SYSTEM_FAILURE",
                            "NO_ELIGIBLE_TOPIC", "CALIBRATION_RECORDED"},
              kind : FailureKinds \cup {"none"}]

Init ==
  /\ config \in Configs
  /\ mode \in Modes
  /\ stage = "prepare"
  /\ selection = FailedSelection
  /\ candidates = <<>>
  /\ walk = <<>>
  /\ any_error = FALSE
  /\ attempts = <<>>
  /\ corrections_left = IF mode = "calibration" THEN 0 ELSE MAX_CORRECTIONS
  /\ draft = NoDraft
  /\ l1 = "none"
  /\ spent = 0
  /\ overran = FALSE
  /\ reported = 0
  /\ record = NoRecord

-----------------------------------------------------------------------------
(* Shared forms of a step.                                                 *)

(* finish(): the outcome is settled and the run record is written. *)
Finish(terminal, observable, kind) ==
  /\ stage' = "done"
  /\ record' = [terminal |-> terminal, observable |-> observable, kind |-> kind]

SystemFailure(kind) == Finish("SYSTEM_FAILURE", "SYSTEM_FAILURE", kind)

GoTo(next) ==
  /\ stage' = next
  /\ record' = record

(* A wrong FitsBudget: what was spent is forgotten. *)
FitsWithoutSpent(estimate) == estimate <= LIMIT

(* BudgetGuard.check *)
FitsBudget(estimate) == spent + estimate <= LIMIT

(* ask(): the call is made, answers with an object, and its usage is       *)
(* recorded.                                                               *)
Answered ==
  \E estimate \in Estimates, usage \in Usages :
    /\ FitsBudget(estimate)
    /\ spent' = spent + usage
    /\ reported' = reported + usage
    /\ overran' = (overran \/ usage > estimate)

(* The call raises: before the API reported any usage, or after it, when   *)
(* the answer's text is not JSON.                                          *)
Raised ==
  \E estimate \in Estimates, usage \in Usages \cup {0} :
    /\ FitsBudget(estimate)
    /\ reported' = reported + usage
    /\ overran' = (overran \/ usage > estimate)
    /\ spent' = spent

(* An LlmExecutionError: the call is refused, it raises, or its answer is  *)
(* not an object.                                                          *)
CallFails(kind) ==
  \/ /\ kind = "budget_limit"
     /\ \E estimate \in Estimates : ~FitsBudget(estimate)
     /\ UNCHANGED money
  \/ kind = "execution_error" /\ (Raised \/ Answered)

-----------------------------------------------------------------------------
(* The checks of a draft.                                                  *)

Passed(ok) == IF ok THEN "pass" ELSE "fail"

EvaluateL1(d, judge) ==
  IF judge = "no_statements" THEN "error" ELSE Passed(d.cites /\ judge = "supported")

CheckHabrRules(d) == IF config.a_rules THEN Passed(d.rules) ELSE "missing"

EvaluateQ(judge) ==
  CASE judge = "malformed" -> "error"
    [] judge # "malformed" /\ ~config.q_threshold -> "missing"
    [] OTHER -> Passed(judge = "above")

Evaluate(d, l1_judge, q_judge) ==
  [l1 |-> EvaluateL1(d, l1_judge), rules |-> CheckHabrRules(d),
   requirements |-> Passed(d.requirements), q |-> EvaluateQ(q_judge)]

Some(checks, status) == \E c \in Checks : checks[c] = status
AllPass(checks) == \A c \in Checks : checks[c] = "pass"

FailedMandatory(attempt) == Cardinality({c \in Checks : attempt.checks[c] # "pass"})

(* _best: fewest failed mandatory checks, the latest of them. *)
Checked == {i \in DOMAIN attempts : attempts[i].saved /\ attempts[i].checks # NoChecks}

(* A wrong BestAttempt: the earliest of those with the fewest failed checks. *)
EarliestBest ==
  IF Checked = {} THEN 0
  ELSE CHOOSE i \in Checked : \A j \in Checked :
         \/ FailedMandatory(attempts[i]) < FailedMandatory(attempts[j])
         \/ FailedMandatory(attempts[i]) = FailedMandatory(attempts[j]) /\ j >= i

BestAttempt ==
  IF Checked = {} THEN 0
  ELSE CHOOSE i \in Checked : \A j \in Checked :
         \/ FailedMandatory(attempts[i]) < FailedMandatory(attempts[j])
         \/ FailedMandatory(attempts[i]) = FailedMandatory(attempts[j]) /\ j <= i

-----------------------------------------------------------------------------
(* Stage 1.  An unusable brief, a brief of another schema or date, or a    *)
(* missing token gives a structured failure.                               *)
PrepareInput ==
  /\ stage = "prepare"
  /\ \/ selection' = FailedSelection
     \/ \E brief \in Briefs, answers \in [Repos -> Answers] :
          selection' = Prepare(brief, answers, config)
  /\ GoTo("config")
  /\ UNCHANGED <<config, mode, candidates, walk, any_error, looping, money>>

(* The configuration gate, before the selection input is looked at; it may *)
(* have become unreadable on its way between the jobs.  Calibration also   *)
(* needs the owner's reference text.                                       *)
ConfigGate ==
  \E readable, reference \in BOOLEAN :
    LET received == IF readable THEN selection ELSE FailedSelection
        missing == IF mode = "calibration"
                   THEN MissingForCalibration(config) # {} \/ ~reference
                   ELSE MissingForProduction(config) # {}
    IN /\ stage = "config"
       /\ selection' = received
       /\ \/ /\ missing
             /\ SystemFailure("missing_configuration")
             /\ candidates' = candidates
          \/ /\ ~missing /\ received.status = "failed"
             /\ SystemFailure("input_validation")
             /\ candidates' = candidates
          \/ /\ ~missing /\ received.status = "ok"
             /\ GoTo("walk")
             /\ candidates' = RankCandidates(received.units)
       /\ UNCHANGED <<config, mode, walk, any_error, looping, money>>

(* The candidate has a fragment within the volume cap. *)
Usable(fetched) == SelectWithinCap(Fragments(fetched)) # {}

(* The next candidate's entry of the walk. *)
Seen(result) == walk' = Append(walk, result)

(* A wrong FetchErrors: the last candidate's errors replace the earlier. *)
LastFetchErrors(fetched) == any_error' = fetched.errors
FetchErrors(fetched) == any_error' = (any_error \/ fetched.errors)

(* One candidate of choose_topic: its visibility, then its fragments. *)
WalkCandidate ==
  /\ stage = "walk" /\ Len(walk) < Len(candidates)
  /\ \/ /\ Seen("visibility_check_error") /\ any_error' = TRUE
        /\ GoTo("walk")
     \/ /\ Seen("not_confirmed_public") /\ any_error' = any_error
        /\ GoTo("walk")
     \/ \E fetched \in FetchAnswers :
          /\ FetchErrors(fetched)
          /\ \/ /\ Usable(fetched)
                /\ Seen("chosen") /\ GoTo("generate")
             \/ /\ ~Usable(fetched)
                /\ Seen(IF fetched.errors THEN "fetch_error" ELSE "no_usable_fragment")
                /\ GoTo("walk")
  /\ UNCHANGED <<config, mode, selection, candidates, looping, money>>

EndOfWalk ==
  /\ stage = "walk" /\ Len(walk) = Len(candidates)
  /\ IF any_error \/ selection.technical_errors
     THEN SystemFailure("execution_error")
     ELSE Finish("none", "NO_ELIGIBLE_TOPIC", "none")
  /\ UNCHANGED <<config, mode, selecting, looping, money>>

-----------------------------------------------------------------------------
(* The revision loop.                                                      *)

(* A wrong Exhausted: one correction too many. *)
ExhaustedLate == corrections_left < 0
Exhausted == corrections_left <= 0

(* What follows an attempt no check of which was stopped. *)
AfterAttempt(attempt) ==
  /\ attempts' = Append(attempts, attempt)
  /\ draft' = NoDraft /\ l1' = "none"
  /\ \/ /\ mode = "calibration"
        /\ GoTo("reference")
        /\ UNCHANGED corrections_left
     \/ /\ mode = "production" /\ attempt.verdict = "pass"
        /\ Finish(READY, READY, "none")
        /\ UNCHANGED corrections_left
     \/ /\ mode = "production" /\ attempt.verdict # "pass"
        /\ Exhausted
        /\ Finish("BLOCKED", "BLOCKED", "none")
        /\ UNCHANGED corrections_left
     \/ /\ mode = "production" /\ attempt.verdict # "pass"
        /\ ~Exhausted
        /\ corrections_left' = corrections_left - 1
        /\ GoTo("generate")

(* A wrong StoppedAttempt: the round is taken again. *)
RetriedAttempt(checks, kind) ==
  /\ draft' = NoDraft /\ l1' = "none"
  /\ GoTo("generate")
  /\ UNCHANGED <<attempts, corrections_left>>

(* An attempt that ends the run as SYSTEM_FAILURE. *)
StoppedAttempt(checks, kind) ==
  /\ attempts' = Append(attempts, [verdict |-> "SYSTEM_FAILURE", saved |-> TRUE,
                                   hit |-> FALSE, secret |-> draft.secret,
                                   checks |-> checks])
  /\ draft' = NoDraft /\ l1' = "none"
  /\ SystemFailure(kind)
  /\ UNCHANGED corrections_left

SecretAttempt ==
  [verdict |-> IF mode = "calibration" THEN "recorded" ELSE "QUALITY_BLOCK",
   saved |-> FALSE, hit |-> TRUE, secret |-> "seen", checks |-> NoChecks]

(* A wrong HasSecret: the output gate is dropped. *)
HasNoSecret(d) == FALSE
(* The output secret gate, over the JSON form of the whole response. *)
HasSecret(d) == d.secret = "seen"

(* generate() or revise(), and the secret gate.  A malformed draft is an   *)
(* execution error.                                                        *)
Generate ==
  /\ stage = "generate"
  /\ \/ /\ \E kind \in FailureKinds : CallFails(kind) /\ SystemFailure(kind)
        /\ UNCHANGED looping
     \/ /\ Answered
        /\ \E d \in Drafts :
             \/ HasSecret(d) /\ AfterAttempt(SecretAttempt)
             \/ /\ ~HasSecret(d)
                /\ draft' = d
                /\ GoTo("l1")
                /\ UNCHANGED <<attempts, corrections_left, l1>>
  /\ UNCHANGED <<config, mode, selecting>>

(* The L1 judge's call.  The estimate encodes the draft's text and raises  *)
(* an exception nobody catches when it has no encoding.                    *)
JudgeL1 ==
  /\ stage = "l1"
  /\ \/ /\ ~draft.encodable
        /\ GoTo("crashed")
        /\ UNCHANGED <<looping, money>>
     \/ /\ draft.encodable
        /\ \E kind \in FailureKinds : CallFails(kind) /\ StoppedAttempt(NoChecks, kind)
     \/ /\ draft.encodable
        /\ Answered
        /\ l1' \in {"supported", "unsupported", "no_statements"}
        /\ GoTo("q")
        /\ UNCHANGED <<attempts, corrections_left, draft>>
  /\ UNCHANGED <<config, mode, selecting>>

(* What an executed round comes to: a technical error first, then (in      *)
(* production) an unset value, and only then the checks' results.          *)
Verdict(checks) ==
  IF Some(checks, "error") THEN "execution_error"
  ELSE IF mode = "calibration" THEN "recorded"
  ELSE IF Some(checks, "missing") THEN "missing_configuration"
  ELSE IF AllPass(checks) THEN "pass" ELSE "QUALITY_BLOCK"

(* The Q judge's call, the four checks and the round's verdict. *)
JudgeQ ==
  /\ stage = "q"
  /\ \/ \E kind \in FailureKinds : CallFails(kind) /\ StoppedAttempt(NoChecks, kind)
     \/ /\ Answered
        /\ \E q \in {"above", "below", "malformed"} :
             LET checks == Evaluate(draft, l1, q)
                 verdict == Verdict(checks)
             IN \/ verdict \in FailureKinds /\ StoppedAttempt(checks, verdict)
                \/ /\ verdict \notin FailureKinds
                   /\ AfterAttempt([verdict |-> verdict, saved |-> TRUE, hit |-> FALSE,
                                    secret |-> draft.secret,
                                    checks |-> checks])
  /\ UNCHANGED <<config, mode, selecting>>

(* Calibration's judge call on the reference text.  Its answer is read     *)
(* without validation: findings that cannot be iterated raise an exception *)
(* nobody catches.                                                         *)
JudgeReference ==
  /\ stage = "reference"
  /\ \/ \E kind \in FailureKinds : CallFails(kind) /\ SystemFailure(kind)
     \/ /\ Answered
        /\ \/ Finish("none", "CALIBRATION_RECORDED", "none")
           \/ GoTo("crashed")   (* the findings are a number *)
  /\ UNCHANGED <<config, mode, selecting, looping>>

(* The runner dies; no run record is left. *)
Crash ==
  /\ RunnerCrashes
  /\ stage \notin {"done", "crashed"}
  /\ GoTo("crashed")
  /\ UNCHANGED <<config, mode, selecting, looping, money>>

Step ==
  \/ PrepareInput \/ ConfigGate \/ WalkCandidate \/ EndOfWalk \/ Generate
  \/ JudgeL1 \/ JudgeQ \/ JudgeReference

Next == Step \/ Crash

(* The run is one sequential program whose every call has a timeout. *)
Spec == Init /\ [][Next]_vars /\ WF_vars(Step)

-----------------------------------------------------------------------------
(* Properties.                                                             *)

TypeOK ==
  /\ config \in Configs /\ mode \in Modes
  /\ stage \in Stages
  /\ selection \in [status : {"ok", "failed"}, units : Seq(Candidate),
                    technical_errors : BOOLEAN]
  /\ candidates \in Seq(Candidate)
  /\ walk \in Seq(WalkResults)
  /\ any_error \in BOOLEAN
  /\ attempts \in Seq(Attempt)
  /\ corrections_left \in 0 .. MAX_CORRECTIONS
  /\ draft \in Drafts \cup {NoDraft}
  /\ l1 \in {"none", "supported", "unsupported", "no_statements"}
  /\ spent \in Nat /\ reported \in Nat /\ overran \in BOOLEAN
  /\ record \in RunRecord

(* As long as no call cost more than its estimate, all that the API        *)
(* reported for the run stays within its spend limit, the usage of calls   *)
(* that then failed and were never recorded included.                      *)
SpendWithinLimit == ~overran => reported <= LIMIT

(* What SPEC.md M9 requirements 55 and 56 ask the owner to have set before *)
(* a run in its mode looks at a candidate: the values of that mode, and a  *)
(* repository cleared for it.  This is the requirement; the gate computes  *)
(* its own list (MissingForProduction, MissingForCalibration).             *)
Required ==
  {"paid_calls_enabled", "budget", "owner_identities"} \cup
  (IF mode = "calibration" THEN {"calibration_approval"}
   ELSE {"q_threshold", "a_rules", "owner_authorization"})

Configured ==
  /\ \A name \in Required : config[name]
  /\ \E repo \in Repos : config.allow_list[repo] = "cleared"

(* "No topic" is an observation about the data: every unit stage 1 handed  *)
(* on was looked at, no check of either stage failed for a technical       *)
(* reason, and the configuration was complete (SPEC.md M9 requirement 56). *)
NoTopicObserved ==
  record.observable = "NO_ELIGIBLE_TOPIC" =>
    /\ Len(walk) = Len(selection.units)
    /\ \A i \in DOMAIN walk : walk[i] \in {"not_confirmed_public", "no_usable_fragment"}
    /\ ~selection.technical_errors
    /\ Configured

(* A run whose configuration is incomplete for its mode never looks at a   *)
(* candidate, makes an attempt or a paid call, and ends as                 *)
(* missing_configuration if it ends at all; and no run ends so after it    *)
(* has begun: an unset value never surfaces later as a check that could    *)
(* not run (requirements 55 and 56).                                       *)
MissingStopsFirst ==
  /\ ~Configured /\ stage = "done" => record.kind = "missing_configuration"
  /\ ~Configured \/ record.kind = "missing_configuration" =>
       reported = 0 /\ walk = <<>> /\ attempts = <<>>

(* A draft whose scan matched a secret pattern is neither judged nor saved *)
(* nor accepted, and its round executes no check (requirement 57); every   *)
(* other draft whose round left an attempt is saved, the one a failure     *)
(* stopped included.                                                       *)
SecretDiscarded ==
  /\ draft # NoDraft => draft.secret # "seen"
  /\ \A i \in DOMAIN attempts :
       /\ attempts[i].saved <=> ~attempts[i].hit
       /\ attempts[i].saved => attempts[i].secret # "seen"
       /\ attempts[i].hit => attempts[i].verdict # "pass"
       /\ attempts[i].verdict \in {"pass", "recorded", "QUALITY_BLOCK"} =>
            attempts[i].hit = (attempts[i].checks = NoChecks)

(* The best attempt of a READY run is the one that passed.  Of a BLOCKED   *)
(* run it is one that failed a check, such that no draft the run kept      *)
(* failed fewer and no later one as few (requirement 50: fewest failed     *)
(* checks, ties going to the latest).  It has none only when every draft   *)
(* was discarded.                                                          *)
BestIsTheOutcome ==
  /\ record.terminal = READY =>
       BestAttempt = Len(attempts) /\ attempts[BestAttempt].verdict = "pass"
  /\ record.terminal = "BLOCKED" =>
       IF BestAttempt = 0 THEN \A i \in DOMAIN attempts : attempts[i].hit
       ELSE /\ attempts[BestAttempt].saved /\ FailedMandatory(attempts[BestAttempt]) > 0
            /\ \A i \in DOMAIN attempts : ~attempts[i].hit =>
                 /\ FailedMandatory(attempts[BestAttempt]) <= FailedMandatory(attempts[i])
                 /\ i > BestAttempt => FailedMandatory(attempts[BestAttempt])
                                         < FailedMandatory(attempts[i])

(* Every run ends, unless its process dies. *)
RunEnds == <>(stage \in {"done", "crashed"})

(* What a run that was not killed by its runner always leaves: a record.   *)
(* SPEC.md M9 requirement 48 makes a check that cannot be executed, "crash"*)
(* included, a SYSTEM_FAILURE.                                             *)
EveryRunRecorded == stage # "crashed"

(***************************************************************************)
(* The refinement: a round by its checks, not by the verdict the loop gave *)
(* it.                                                                     *)
(***************************************************************************)
RoundResult(attempt) ==
  IF attempt.hit THEN "fail"
  ELSE IF AllPass(attempt.checks) THEN "pass"
  ELSE IF \E c \in Checks : attempt.checks[c] \in {"error", "missing", "none"}
  THEN "unfinished" ELSE "fail"

Outcome == INSTANCE HabrOutcome WITH
  MaxRounds <- MAX_CORRECTIONS + 1,
  rounds <- [i \in DOMAIN attempts |-> RoundResult(attempts[i])],
  outcome <- record.observable

(* A run's outcome is the one its rounds earned. *)
OutcomeSpec == Outcome!Spec

==============================================================================
