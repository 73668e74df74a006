--------------------------- MODULE HabrDraft_proofs ---------------------------
(***************************************************************************)
(* Theorems about HabrDraft, for every configuration, brief, draft, judge, *)
(* estimate and cost, and whether or not the runner may die.               *)
(*                                                                         *)
(* The loop looks at the attempts, the spend and the outcome only (RunInv);*)
(* the selection and the walk have an invariant of their own (SelectInv),  *)
(* which needs of the loop that a run has no outcome before it ends.       *)
(***************************************************************************)
EXTENDS HabrDraft, FiniteOrder_proofs

Results == {"pass", "fail", "unfinished"}
L1Answers == {"supported", "unsupported", "no_statements"}

(* The types of the loop, the money and the outcome. *)
RunTypeOK ==
  /\ config \in Configs /\ mode \in Modes
  /\ stage \in Stages
  /\ attempts \in Seq(Attempt)
  /\ corrections_left \in 0 .. MAX_CORRECTIONS
  /\ draft \in Drafts \cup {NoDraft}
  /\ stage \in {"l1", "q"} => draft \in Drafts /\ draft.secret # "seen"
  /\ l1 \in L1Answers \cup {"none"}
  /\ spent \in Nat /\ reported \in Nat /\ overran \in BOOLEAN
  /\ draft # NoDraft => draft.secret # "seen"

(***************************************************************************)
(* Until a run ends, all that was reported was recorded: the one call      *)
(* whose usage is reported and not recorded ends the run.                  *)
(***************************************************************************)
SpendInv ==
  /\ stage \notin {"done", "crashed"} => reported = spent
  /\ ~overran => reported <= LIMIT

(* What an attempt's fields say of each other. *)
Sound(attempt) ==
  /\ attempt.saved => attempt.secret # "seen"
  /\ attempt.hit => ~attempt.saved /\ attempt.verdict # "pass"
  /\ ~attempt.hit => attempt.saved
  /\ attempt.verdict \in {"pass", "recorded", "QUALITY_BLOCK"} =>
       attempt.hit = (attempt.checks = NoChecks)
  /\ attempt.verdict = "pass" => AllPass(attempt.checks)
  /\ attempt.verdict = "QUALITY_BLOCK" /\ ~attempt.hit =>
       ~AllPass(attempt.checks) /\ \A c \in Checks : attempt.checks[c] \in {"pass", "fail"}

AllSound == \A i \in DOMAIN attempts : Sound(attempts[i])

AllBlocked == \A i \in DOMAIN attempts : attempts[i].verdict = "QUALITY_BLOCK"

(* Where the run is, and what the attempts made so far were. *)
PhaseInv ==
  /\ stage # "done" => record = NoRecord
  /\ stage \in {"prepare", "config"} => walk = <<>> /\ reported = 0
  /\ stage \in {"prepare", "config", "walk"} =>
       /\ attempts = <<>>
       /\ mode = "production" => corrections_left = MAX_CORRECTIONS
  /\ stage \in {"walk", "generate", "l1", "q"} /\ mode = "production" =>
       MissingForProduction(config) = {}
  /\ stage \in {"generate", "l1", "q"} =>
       /\ mode = "production" =>
            Len(attempts) + corrections_left = MAX_CORRECTIONS /\ AllBlocked
       /\ mode = "calibration" => attempts = <<>>
  /\ stage = "reference" => mode = "calibration" /\ Len(attempts) = 1
  /\ record.kind = "missing_configuration" =>
       reported = 0 /\ walk = <<>> /\ attempts = <<>>
  /\ record.terminal = READY =>
       Len(attempts) > 0 /\ attempts[Len(attempts)].verdict = "pass"
  /\ record.terminal = "BLOCKED" => AllBlocked

RunInv == RunTypeOK /\ SpendInv /\ AllSound /\ PhaseInv

-----------------------------------------------------------------------------
(* Money. *)

LEMMA AnsweredSpends ==
  ASSUME RunTypeOK, SpendInv, stage \notin {"done", "crashed"}, Answered
  PROVE  /\ spent' \in Nat /\ reported' = spent' /\ overran' \in BOOLEAN
         /\ ~overran' => reported' <= LIMIT
<1>1. PICK estimate \in Estimates, usage \in Usages :
        /\ FitsBudget(estimate)
        /\ spent' = spent + usage
        /\ reported' = reported + usage
        /\ overran' = (overran \/ usage > estimate)
  BY DEF Answered
<1>2. estimate \in Nat /\ usage \in Nat /\ LIMIT \in Nat
  BY HabrAssumption DEF HabrAssumption
<1>3. spent \in Nat /\ reported = spent
  BY DEF RunTypeOK, SpendInv
<1>4. overran' \in BOOLEAN
  BY <1>1
<1>5. ASSUME ~overran' PROVE spent + usage <= LIMIT
  <2>1. ~(usage > estimate)
    BY <1>1, <1>5
  <2> QED
    BY <1>1, <1>2, <1>3, <2>1 DEF FitsBudget
<1> QED
  BY <1>1, <1>2, <1>3, <1>4, <1>5

(* A call that ends the run. *)
LEMMA FailedCallSpends ==
  ASSUME RunTypeOK, SpendInv, stage \notin {"done", "crashed"},
         NEW kind \in FailureKinds, CallFails(kind)
  PROVE  /\ spent' \in Nat /\ reported' \in Nat /\ overran' \in BOOLEAN
         /\ ~overran' => reported' <= LIMIT
         /\ kind \in {"budget_limit", "execution_error"}
<1>1. CASE UNCHANGED money
  BY <1>1 DEF money, RunTypeOK, SpendInv, CallFails
<1>2. CASE Answered
  BY <1>2, AnsweredSpends DEF CallFails
<1>3. CASE Raised
  <2>1. PICK estimate \in Estimates, usage \in Usages \cup {0} :
          /\ FitsBudget(estimate)
          /\ reported' = reported + usage
          /\ overran' = (overran \/ usage > estimate)
          /\ spent' = spent
    BY <1>3 DEF Raised
  <2>2. estimate \in Nat /\ usage \in Nat /\ LIMIT \in Nat
    BY HabrAssumption DEF HabrAssumption
  <2>3. spent \in Nat /\ reported = spent
    BY DEF RunTypeOK, SpendInv
  <2>4. overran' \in BOOLEAN
    BY <2>1
  <2>5. ASSUME ~overran' PROVE spent + usage <= LIMIT
    <3>1. ~(usage > estimate)
      BY <2>1, <2>5
    <3> QED
      BY <2>1, <2>2, <2>3, <3>1 DEF FitsBudget
  <2>6. kind \in {"budget_limit", "execution_error"}
    BY DEF CallFails
  <2> QED
    BY <2>1, <2>2, <2>3, <2>4, <2>5, <2>6
<1> QED
  BY <1>1, <1>2, <1>3 DEF CallFails

-----------------------------------------------------------------------------
(* Checks and attempts. *)

LEMMA NoChecksNotExecuted == NoChecks \notin [Checks -> CheckStatuses]
<1>1. NoChecks["l1"] = "none" /\ "l1" \in Checks /\ "none" \notin CheckStatuses
  BY DEF NoChecks, Checks, CheckStatuses
<1> QED
  BY <1>1

LEMMA EvaluateType ==
  ASSUME NEW d, NEW l, NEW q
  PROVE  Evaluate(d, l, q) \in [Checks -> CheckStatuses]
<1>1. /\ EvaluateL1(d, l) \in CheckStatuses
      /\ CheckHabrRules(d) \in CheckStatuses
      /\ Passed(d.requirements) \in CheckStatuses
      /\ EvaluateQ(q) \in CheckStatuses
  BY DEF EvaluateL1, CheckHabrRules, Passed, EvaluateQ, CheckStatuses
<1> HIDE DEF CheckStatuses
<1> QED
  BY <1>1 DEF Evaluate, Checks

(* The gate's list is empty exactly when what the requirements ask is set. *)
LEMMA GateAsks ==
  Configured <=> IF mode = "calibration" THEN MissingForCalibration(config) = {}
                 ELSE MissingForProduction(config) = {}
<1>1. MissingForPaidCalls(config) = {} <=>
        config["paid_calls_enabled"] /\ config["budget"]
  BY DEF MissingForPaidCalls, Unset
<1>2. MissingForSelection(config) = {} <=>
        config["owner_identities"] /\ \E repo \in Repos : config.allow_list[repo] = "cleared"
  BY DEF MissingForSelection, Unset
<1>3. MissingForProduction(config) = {} <=>
        /\ MissingForPaidCalls(config) = {} /\ MissingForSelection(config) = {}
        /\ \A n \in {"q_threshold", "a_rules", "owner_authorization"} : config[n]
  BY DEF MissingForProduction, Unset
<1>4. MissingForCalibration(config) = {} <=>
        /\ MissingForPaidCalls(config) = {} /\ MissingForSelection(config) = {}
        /\ config["calibration_approval"]
  BY DEF MissingForCalibration, Unset
<1>5. CASE mode = "calibration"
  BY <1>1, <1>2, <1>4, <1>5 DEF Configured, Required
<1>6. CASE mode # "calibration"
  BY <1>1, <1>2, <1>3, <1>6 DEF Configured, Required
<1> QED
  BY <1>5, <1>6

LEMMA ConfiguredKept ==
  ASSUME UNCHANGED <<config, mode>>
  PROVE  Configured' <=> Configured
BY DEF Configured, Required

(* With every production value set, no check is missing. *)
LEMMA NothingMissing ==
  ASSUME MissingForProduction(config) = {}, NEW d, NEW l, NEW q
  PROVE  ~Some(Evaluate(d, l, q), "missing")
<1>1. config.a_rules /\ config.q_threshold
  <2>1. \A n \in {"q_threshold", "a_rules", "owner_authorization"} : config[n]
    BY DEF MissingForProduction, Unset
  <2> QED
    BY <2>1
<1>2. /\ EvaluateL1(d, l) # "missing" /\ CheckHabrRules(d) # "missing"
      /\ Passed(d.requirements) # "missing" /\ EvaluateQ(q) # "missing"
  BY <1>1 DEF EvaluateL1, CheckHabrRules, Passed, EvaluateQ
<1> QED
  BY <1>2 DEF Some, Evaluate, Checks

LEMMA DraftFields ==
  ASSUME NEW d \in Drafts
  PROVE  d \in Draft /\ d.secret \in {"none", "seen", "line_start"}
BY HabrAssumption DEF HabrAssumption, Draft

Stopped(checks) == [verdict |-> "SYSTEM_FAILURE", saved |-> TRUE, hit |-> FALSE,
                    secret |-> draft.secret, checks |-> checks]
Judged(checks) == [verdict |-> Verdict(checks), saved |-> TRUE, hit |-> FALSE,
                   secret |-> draft.secret, checks |-> checks]

LEMMA AttemptTypes ==
  ASSUME NEW checks \in [Checks -> CheckStatuses] \cup {NoChecks},
         draft \in Drafts
  PROVE  /\ Stopped(checks) \in Attempt
         /\ SecretAttempt \in Attempt
         /\ Verdict(checks) \notin FailureKinds => Judged(checks) \in Attempt
<1>1. draft.secret \in {"none", "seen", "line_start"}
  BY DraftFields
<1>2. Verdict(checks) \notin FailureKinds =>
        Verdict(checks) \in {"pass", "QUALITY_BLOCK", "recorded"}
  BY DEF Verdict, FailureKinds
<1> DEFINE C == [Checks -> CheckStatuses] \cup {NoChecks}
<1>3. NoChecks \in C /\ checks \in C
  OBVIOUS
<1>4. Attempt = [verdict : {"pass", "QUALITY_BLOCK", "SYSTEM_FAILURE", "recorded"},
                 saved : BOOLEAN, hit : BOOLEAN,
                 secret : {"none", "seen", "line_start"}, checks : C]
  BY DEF Attempt
<1> HIDE DEF C
<1> QED
  BY <1>1, <1>2, <1>3, <1>4 DEF Stopped, SecretAttempt, Judged

LEMMA SecretAttemptType == SecretAttempt \in Attempt
<1> DEFINE C == [Checks -> CheckStatuses] \cup {NoChecks}
<1>1. NoChecks \in C
  OBVIOUS
<1>2. Attempt = [verdict : {"pass", "QUALITY_BLOCK", "SYSTEM_FAILURE", "recorded"},
                 saved : BOOLEAN, hit : BOOLEAN,
                 secret : {"none", "seen", "line_start"}, checks : C]
  BY DEF Attempt
<1> HIDE DEF C
<1> QED
  BY <1>1, <1>2 DEF SecretAttempt

LEMMA StoppedSound ==
  ASSUME NEW checks, draft.secret # "seen"
  PROVE  Sound(Stopped(checks))
BY DEF Sound, Stopped

LEMMA SecretSound == Sound(SecretAttempt)
BY DEF Sound, SecretAttempt

LEMMA JudgedSound ==
  ASSUME NEW checks \in [Checks -> CheckStatuses], draft.secret # "seen",
         Verdict(checks) \notin FailureKinds, mode \in {"production", "calibration"}
  PROVE  /\ Sound(Judged(checks))
         /\ mode = "production" => Verdict(checks) \in {"pass", "QUALITY_BLOCK"}
         /\ mode = "calibration" => Verdict(checks) = "recorded"
<1>1. checks # NoChecks
  BY NoChecksNotExecuted
<1>2. ~Some(checks, "error")
  BY DEF Verdict, FailureKinds
<1>3. CASE mode = "calibration"
  <2>1. Verdict(checks) = "recorded"
    BY <1>2, <1>3 DEF Verdict
  <2> QED
    BY <1>1, <1>3, <2>1 DEF Sound, Judged
<1>4. CASE mode = "production"
  <2>1. ~Some(checks, "missing")
    BY <1>2, <1>4 DEF Verdict, FailureKinds
  <2>2. \A c \in Checks : checks[c] \in {"pass", "fail"}
    BY <1>2, <2>1 DEF Some, CheckStatuses
  <2>3. Verdict(checks) = IF AllPass(checks) THEN "pass" ELSE "QUALITY_BLOCK"
    BY <1>2, <1>4, <2>1 DEF Verdict
  <2> HIDE DEF Verdict
  <2> QED
    BY <1>1, <1>4, <2>2, <2>3 DEF Sound, Judged
<1> QED
  BY <1>3, <1>4

LEMMA AppendSound ==
  ASSUME attempts \in Seq(Attempt), AllSound, NEW attempt \in Attempt, Sound(attempt),
         attempts' = Append(attempts, attempt)
  PROVE  /\ attempts' \in Seq(Attempt) /\ AllSound'
         /\ Len(attempts') = Len(attempts) + 1
         /\ attempts'[Len(attempts')] = attempt
         /\ \A i \in DOMAIN attempts : attempts'[i] = attempts[i]
         /\ \A i \in DOMAIN attempts' : i \in DOMAIN attempts \/ i = Len(attempts')
<1>1. /\ attempts' \in Seq(Attempt) /\ Len(attempts') = Len(attempts) + 1
      /\ attempts'[Len(attempts')] = attempt
      /\ \A i \in DOMAIN attempts : attempts'[i] = attempts[i]
      /\ \A i \in DOMAIN attempts' : i \in DOMAIN attempts \/ i = Len(attempts')
  OBVIOUS
<1>2. AllSound'
  BY <1>1 DEF AllSound
<1> QED
  BY <1>1, <1>2

-----------------------------------------------------------------------------
(* The steps. *)

MoneyOK ==
  /\ spent \in Nat /\ reported \in Nat /\ overran \in BOOLEAN
  /\ ~overran => reported <= LIMIT
  /\ stage \notin {"done", "crashed"} => reported = spent

LEMMA ModeIs == RunTypeOK => mode \in {"production", "calibration"}
BY HabrAssumption DEF HabrAssumption, RunTypeOK

LEMMA InitRunInv == Init => RunInv
<1> SUFFICES ASSUME Init PROVE RunInv
  OBVIOUS
<1>1. LIMIT \in Nat /\ mode \in {"production", "calibration"} /\ MAX_CORRECTIONS = 2
  BY HabrAssumption DEF HabrAssumption, Init, MAX_CORRECTIONS
<1>2. attempts = <<>> /\ attempts \in Seq(Attempt)
  BY DEF Init
<1>3. corrections_left \in 0 .. MAX_CORRECTIONS
  BY <1>1 DEF Init
<1>4. RunTypeOK
  BY <1>1, <1>2, <1>3 DEF Init, RunTypeOK, Stages
<1>5. SpendInv
  BY <1>1 DEF Init, SpendInv
<1>6. AllSound
  BY <1>2 DEF AllSound
<1>7. PhaseInv
  BY <1>1, <1>2 DEF Init, PhaseInv, NoRecord, READY
<1> QED
  BY <1>4, <1>5, <1>6, <1>7 DEF RunInv

(* Steps that leave the loop alone and judge nothing next. *)
LEMMA LoopKept ==
  ASSUME RunInv, UNCHANGED <<config, mode, looping>>,
         stage' \in Stages \ {"l1", "q"}, MoneyOK'
  PROVE  /\ RunTypeOK' /\ SpendInv' /\ AllSound'
         /\ attempts' = attempts /\ corrections_left' = corrections_left
         /\ (AllBlocked' <=> AllBlocked)
<1>1. UNCHANGED <<attempts, corrections_left, draft, l1>>
  BY DEF looping
<1>2. RunTypeOK'
  BY <1>1 DEF RunInv, RunTypeOK, MoneyOK
<1>3. SpendInv'
  BY DEF SpendInv, MoneyOK
<1>4. AllSound' /\ (AllBlocked' <=> AllBlocked)
  BY <1>1 DEF RunInv, AllSound, AllBlocked
<1> QED
  BY <1>1, <1>2, <1>3, <1>4

LEMMA MoneyKept ==
  ASSUME RunInv, UNCHANGED money, stage \notin {"done", "crashed"}
  PROVE  MoneyOK'
BY DEF RunInv, RunTypeOK, SpendInv, MoneyOK, money

LEMMA BeforeLoopKeeps ==
  ASSUME RunInv, PrepareInput \/ ConfigGate \/ WalkCandidate \/ EndOfWalk
  PROVE  RunInv'
<1>1. /\ stage \in {"prepare", "config", "walk"}
      /\ UNCHANGED <<config, mode, looping>> /\ UNCHANGED money
  BY DEF PrepareInput, ConfigGate, WalkCandidate, EndOfWalk
<1>2. MoneyOK'
  BY <1>1, MoneyKept
<1>3. UNCHANGED <<spent, reported, overran>>
  BY <1>1 DEF money
<1>4. /\ record = NoRecord /\ attempts = <<>>
      /\ mode = "production" => corrections_left = MAX_CORRECTIONS
      /\ mode \in {"production", "calibration"}
  BY <1>1, ModeIs DEF RunInv, PhaseInv
<1>5. CASE PrepareInput
  <2>1. stage' = "config" /\ record' = record /\ walk' = walk /\ stage = "prepare"
    BY <1>5 DEF PrepareInput, GoTo
  <2>2. /\ RunTypeOK' /\ SpendInv' /\ AllSound'
        /\ attempts' = attempts /\ corrections_left' = corrections_left
    BY <1>1, <1>2, <2>1, LoopKept DEF Stages
  <2>3. PhaseInv'
    BY <1>1, <1>3, <1>4, <2>1, <2>2 DEF RunInv, PhaseInv, NoRecord, READY
  <2> QED
    BY <2>2, <2>3 DEF RunInv
<1>6. CASE ConfigGate
  <2>1. /\ stage = "config" /\ walk' = walk
        /\ \/ \E kind \in FailureKinds : SystemFailure(kind)
           \/ /\ GoTo("walk")
              /\ mode = "production" => MissingForProduction(config) = {}
    BY <1>6 DEF ConfigGate, FailureKinds
  <2>2. stage' \in {"done", "walk"}
    BY <2>1 DEF SystemFailure, Finish, GoTo
  <2>3. /\ RunTypeOK' /\ SpendInv' /\ AllSound'
        /\ attempts' = attempts /\ corrections_left' = corrections_left
    BY <1>1, <1>2, <2>2, LoopKept DEF Stages
  <2>4. CASE \E kind \in FailureKinds : SystemFailure(kind)
    <3>1. PICK kind \in FailureKinds :
            stage' = "done" /\ record' = [terminal |-> "SYSTEM_FAILURE",
              observable |-> "SYSTEM_FAILURE", kind |-> kind]
      BY <2>4 DEF SystemFailure, Finish
    <3>2. reported = 0 /\ walk = <<>>
      BY <2>1 DEF RunInv, PhaseInv
    <3>3. PhaseInv'
      BY <1>3, <1>4, <2>1, <2>3, <3>1, <3>2 DEF PhaseInv, READY
    <3> QED
      BY <2>3, <3>3 DEF RunInv
  <2>5. CASE GoTo("walk") /\ (mode = "production" => MissingForProduction(config) = {})
    <3>1. stage' = "walk" /\ record' = NoRecord
      BY <1>4, <2>5 DEF GoTo
    <3>2. MissingForProduction(config)' = MissingForProduction(config)
      BY <1>1
    <3>3. PhaseInv'
      BY <1>1, <1>3, <1>4, <2>3, <2>5, <3>1, <3>2 DEF PhaseInv, NoRecord, READY
    <3> QED
      BY <2>3, <3>3 DEF RunInv
  <2> QED
    BY <2>1, <2>4, <2>5
<1>7. CASE WalkCandidate
  <2>1. stage = "walk" /\ stage' \in {"walk", "generate"} /\ record' = record
    BY <1>7 DEF WalkCandidate, GoTo
  <2>2. /\ RunTypeOK' /\ SpendInv' /\ AllSound'
        /\ attempts' = attempts /\ corrections_left' = corrections_left
    BY <1>1, <1>2, <2>1, LoopKept DEF Stages
  <2>3. mode = "production" => MissingForProduction(config) = {}
    BY <2>1 DEF RunInv, PhaseInv
  <2>4. MissingForProduction(config)' = MissingForProduction(config)
    BY <1>1
  <2>5. Len(attempts) = 0 /\ AllBlocked' /\ MAX_CORRECTIONS \in Nat
    BY <1>4, <2>2 DEF AllBlocked, MAX_CORRECTIONS
  <2>6. PhaseInv'
    BY <1>1, <1>4, <2>1, <2>2, <2>3, <2>4, <2>5 DEF PhaseInv, NoRecord, READY
  <2> QED
    BY <2>2, <2>6 DEF RunInv
<1>8. CASE EndOfWalk
  <2>1. /\ stage = "walk" /\ stage' = "done"
        /\ record'.terminal \in {"none", "SYSTEM_FAILURE"}
        /\ record'.kind \in {"none", "execution_error"}
    BY <1>8 DEF EndOfWalk, SystemFailure, Finish
  <2>2. /\ RunTypeOK' /\ SpendInv' /\ AllSound'
    BY <1>1, <1>2, <2>1, LoopKept DEF Stages
  <2>3. PhaseInv'
    BY <2>1 DEF PhaseInv, READY
  <2> QED
    BY <2>2, <2>3 DEF RunInv
<1> QED
  BY <1>5, <1>6, <1>7, <1>8

(* A run that ends as a failure without a new attempt. *)
LEMMA FailureKeeps ==
  ASSUME RunInv, stage \in Stages \ {"done", "crashed"}, NEW kind \in FailureKinds,
         CallFails(kind), SystemFailure(kind), UNCHANGED <<config, mode, looping>>
  PROVE  RunInv'
<1>1. /\ spent' \in Nat /\ reported' \in Nat /\ overran' \in BOOLEAN
      /\ ~overran' => reported' <= LIMIT
      /\ kind \in {"budget_limit", "execution_error"}
  BY FailedCallSpends DEF RunInv
<1>2. stage' = "done" /\ record' = [terminal |-> "SYSTEM_FAILURE",
                                    observable |-> "SYSTEM_FAILURE", kind |-> kind]
  BY DEF SystemFailure, Finish
<1>3. RunTypeOK' /\ SpendInv' /\ AllSound'
  BY <1>1, <1>2, LoopKept DEF Stages, MoneyOK
<1>4. PhaseInv'
  BY <1>1, <1>2 DEF PhaseInv, READY
<1> QED
  BY <1>3, <1>4 DEF RunInv

(* A run that ends as a failure with an attempt that was stopped. *)
LEMMA StoppedKeeps ==
  ASSUME RunInv, stage \in {"l1", "q"}, NEW kind \in FailureKinds,
         NEW checks \in [Checks -> CheckStatuses] \cup {NoChecks},
         StoppedAttempt(checks, kind), kind # "missing_configuration",
         spent' \in Nat, reported' \in Nat, overran' \in BOOLEAN,
         ~overran' => reported' <= LIMIT,
         UNCHANGED <<config, mode, selecting>>
  PROVE  RunInv'
<1>1. draft \in Drafts /\ draft.secret # "seen" /\ attempts \in Seq(Attempt) /\ AllSound
  BY DEF RunInv, RunTypeOK
<1>2. /\ attempts' = Append(attempts, Stopped(checks))
      /\ draft' = NoDraft /\ l1' = "none" /\ corrections_left' = corrections_left
      /\ stage' = "done"
      /\ record' = [terminal |-> "SYSTEM_FAILURE", observable |-> "SYSTEM_FAILURE",
                    kind |-> kind]
  BY DEF StoppedAttempt, SystemFailure, Finish, Stopped
<1>3. Stopped(checks) \in Attempt /\ Sound(Stopped(checks))
  BY <1>1, AttemptTypes, StoppedSound
<1>4. attempts' \in Seq(Attempt) /\ AllSound'
  BY <1>1, <1>2, <1>3, AppendSound
<1>5. RunTypeOK'
  BY <1>2, <1>4 DEF RunInv, RunTypeOK, Stages
<1>6. SpendInv'
  BY <1>2 DEF SpendInv
<1>7. PhaseInv'
  BY <1>2 DEF PhaseInv, READY
<1> QED
  BY <1>4, <1>5, <1>6, <1>7 DEF RunInv

(* An attempt whose round was executed. *)
LEMMA AttemptKeeps ==
  ASSUME RunInv, stage \in {"generate", "q"}, NEW attempt \in Attempt, Sound(attempt),
         mode = "production" => attempt.verdict \in {"pass", "QUALITY_BLOCK"},
         Answered, AfterAttempt(attempt), UNCHANGED <<config, mode, selecting>>
  PROVE  RunInv'
<1>1. /\ attempts \in Seq(Attempt) /\ AllSound /\ MAX_CORRECTIONS = 2
      /\ corrections_left \in 0 .. 2 /\ record = NoRecord
      /\ mode = "production" =>
           /\ Len(attempts) + corrections_left = 2 /\ AllBlocked
           /\ MissingForProduction(config) = {}
      /\ mode = "calibration" => attempts = <<>>
  BY DEF RunInv, RunTypeOK, PhaseInv, MAX_CORRECTIONS
<1>2. /\ spent' \in Nat /\ reported' = spent' /\ overran' \in BOOLEAN
      /\ ~overran' => reported' <= LIMIT
  BY AnsweredSpends DEF RunInv
<1>3. attempts' = Append(attempts, attempt) /\ draft' = NoDraft /\ l1' = "none"
  BY DEF AfterAttempt
<1>4. /\ attempts' \in Seq(Attempt) /\ AllSound'
      /\ Len(attempts') = Len(attempts) + 1
      /\ attempts'[Len(attempts')] = attempt
      /\ \A i \in DOMAIN attempts : attempts'[i] = attempts[i]
      /\ \A i \in DOMAIN attempts' : i \in DOMAIN attempts \/ i = Len(attempts')
  BY <1>1, <1>3, AppendSound
<1>5. Len(attempts) \in Nat
  BY <1>1
<1>6. MissingForProduction(config)' = MissingForProduction(config)
  OBVIOUS
<1>7. mode = "production" /\ attempt.verdict = "QUALITY_BLOCK" => AllBlocked'
  BY <1>1, <1>4 DEF AllBlocked
<1>8. SpendInv'
  BY <1>2 DEF SpendInv
<1>9. ASSUME stage' \in {"reference", "done", "generate"}, corrections_left' \in 0 .. 2
      PROVE  RunTypeOK'
  BY <1>1, <1>2, <1>3, <1>4, <1>9 DEF RunInv, RunTypeOK, Stages
<1>10. CASE mode = "calibration" /\ GoTo("reference") /\ UNCHANGED corrections_left
  <2>1. stage' = "reference" /\ record' = NoRecord
    BY <1>1, <1>10 DEF GoTo
  <2>2. Len(attempts') = 1
    BY <1>1, <1>4, <1>10
  <2>3. PhaseInv'
    BY <1>10, <2>1, <2>2 DEF PhaseInv, NoRecord, READY
  <2> QED
    BY <1>1, <1>4, <1>8, <1>9, <1>10, <2>1, <2>3 DEF RunInv
<1>11. CASE /\ mode = "production" /\ attempt.verdict = "pass"
            /\ Finish(READY, READY, "none") /\ UNCHANGED corrections_left
  <2>1. stage' = "done" /\ record' = [terminal |-> READY, observable |-> READY, kind |-> "none"]
    BY <1>11 DEF Finish
  <2>2. Len(attempts') > 0 /\ attempts'[Len(attempts')].verdict = "pass"
    BY <1>4, <1>5, <1>11
  <2>3. PhaseInv'
    BY <2>1, <2>2 DEF PhaseInv, READY
  <2> QED
    BY <1>1, <1>4, <1>8, <1>9, <1>11, <2>1, <2>3 DEF RunInv
<1>12. CASE /\ mode = "production" /\ attempt.verdict # "pass" /\ Exhausted
            /\ Finish("BLOCKED", "BLOCKED", "none") /\ UNCHANGED corrections_left
  <2>1. stage' = "done"
        /\ record' = [terminal |-> "BLOCKED", observable |-> "BLOCKED", kind |-> "none"]
    BY <1>12 DEF Finish
  <2>2. AllBlocked'
    BY <1>7, <1>12
  <2>3. PhaseInv'
    BY <2>1, <2>2 DEF PhaseInv, READY
  <2> QED
    BY <1>1, <1>4, <1>8, <1>9, <1>12, <2>1, <2>3 DEF RunInv
<1>13. CASE /\ mode = "production" /\ attempt.verdict # "pass" /\ ~Exhausted
            /\ corrections_left' = corrections_left - 1 /\ GoTo("generate")
  <2>1. stage' = "generate" /\ record' = NoRecord /\ corrections_left' \in 0 .. 2
    BY <1>1, <1>13 DEF GoTo, Exhausted
  <2>2. AllBlocked' /\ Len(attempts') + corrections_left' = 2
    BY <1>1, <1>4, <1>5, <1>7, <1>13
  <2>3. PhaseInv'
    BY <1>1, <1>6, <1>13, <2>1, <2>2 DEF PhaseInv, NoRecord, READY
  <2> QED
    BY <1>4, <1>8, <1>9, <2>1, <2>3 DEF RunInv
<1> QED
  BY <1>10, <1>11, <1>12, <1>13 DEF AfterAttempt

LEMMA GenerateKeeps ==
  ASSUME RunInv, Generate
  PROVE  RunInv'
<1>1. stage = "generate" /\ UNCHANGED <<config, mode, selecting>>
  BY DEF Generate
<1>2. CASE /\ \E kind \in FailureKinds : CallFails(kind) /\ SystemFailure(kind)
           /\ UNCHANGED looping
  BY <1>1, <1>2, FailureKeeps DEF Stages
<1>3. ASSUME Answered, AfterAttempt(SecretAttempt)
      PROVE  RunInv'
  <2>1. mode = "production" => SecretAttempt.verdict \in {"pass", "QUALITY_BLOCK"}
    BY DEF SecretAttempt
  <2> QED
    BY <1>1, <1>3, <2>1, SecretAttemptType, SecretSound, AttemptKeeps
<1>4. ASSUME Answered, NEW d \in Drafts, ~HasSecret(d), draft' = d, GoTo("l1"),
             UNCHANGED <<attempts, corrections_left, l1>>
      PROVE  RunInv'
  <2>1. /\ spent' \in Nat /\ reported' = spent' /\ overran' \in BOOLEAN
        /\ ~overran' => reported' <= LIMIT
    BY <1>1, <1>4, AnsweredSpends DEF RunInv
  <2>2. stage' = "l1" /\ record' = record
    BY <1>4 DEF GoTo
  <2>3. RunTypeOK'
    BY <1>1, <1>4, <2>1, <2>2 DEF RunInv, RunTypeOK, Stages, HasSecret
  <2>4. SpendInv' /\ AllSound' /\ AllBlocked' = AllBlocked
    BY <1>4, <2>1 DEF RunInv, SpendInv, AllSound, AllBlocked
  <2>5. MissingForProduction(config)' = MissingForProduction(config)
    BY <1>1
  <2>6. record = NoRecord
    BY <1>1 DEF RunInv, PhaseInv
  <2>7. PhaseInv'
    BY <1>1, <1>4, <2>2, <2>4, <2>5, <2>6 DEF RunInv, PhaseInv, NoRecord, READY
  <2> QED
    BY <2>3, <2>4, <2>7 DEF RunInv
<1> QED
  BY <1>2, <1>3, <1>4 DEF Generate

LEMMA CrashKeeps ==
  ASSUME RunInv, GoTo("crashed"), stage \notin {"done", "crashed"},
         UNCHANGED <<config, mode, selecting, looping>>, MoneyOK'
  PROVE  RunInv'
<1>1. stage' = "crashed" /\ record' = NoRecord
  BY DEF GoTo, RunInv, PhaseInv
<1>2. RunTypeOK' /\ SpendInv' /\ AllSound'
  BY <1>1, LoopKept DEF Stages
<1>3. PhaseInv'
  BY <1>1 DEF PhaseInv, NoRecord, READY
<1> QED
  BY <1>2, <1>3 DEF RunInv

LEMMA JudgeL1Keeps ==
  ASSUME RunInv, JudgeL1
  PROVE  RunInv'
<1>1. stage = "l1" /\ UNCHANGED <<config, mode, selecting>>
  BY DEF JudgeL1
<1>2. CASE GoTo("crashed") /\ UNCHANGED <<looping, money>>
  <2>1. MoneyOK'
    BY <1>1, <1>2, MoneyKept
  <2> QED
    BY <1>1, <1>2, <2>1, CrashKeeps
<1>3. ASSUME NEW kind \in FailureKinds, CallFails(kind), StoppedAttempt(NoChecks, kind)
      PROVE  RunInv'
  <2>1. /\ spent' \in Nat /\ reported' \in Nat /\ overran' \in BOOLEAN
        /\ ~overran' => reported' <= LIMIT
        /\ kind # "missing_configuration"
    BY <1>1, <1>3, FailedCallSpends DEF RunInv
  <2> QED
    BY <1>1, <1>3, <2>1, StoppedKeeps
<1>4. CASE /\ Answered /\ l1' \in L1Answers /\ GoTo("q")
           /\ UNCHANGED <<attempts, corrections_left, draft>>
  <2>1. /\ spent' \in Nat /\ reported' = spent' /\ overran' \in BOOLEAN
        /\ ~overran' => reported' <= LIMIT
    BY <1>1, <1>4, AnsweredSpends DEF RunInv
  <2>2. stage' = "q" /\ record' = record /\ record = NoRecord
    BY <1>1, <1>4 DEF GoTo, RunInv, PhaseInv
  <2>3. RunTypeOK'
    BY <1>1, <1>4, <2>1, <2>2 DEF RunInv, RunTypeOK, Stages, L1Answers
  <2>4. SpendInv' /\ AllSound' /\ AllBlocked' = AllBlocked
    BY <1>4, <2>1 DEF RunInv, SpendInv, AllSound, AllBlocked
  <2>5. MissingForProduction(config)' = MissingForProduction(config)
    BY <1>1
  <2>6. PhaseInv'
    BY <1>1, <1>4, <2>2, <2>4, <2>5 DEF RunInv, PhaseInv, NoRecord, READY
  <2> QED
    BY <2>3, <2>4, <2>6 DEF RunInv
<1> QED
  BY <1>2, <1>3, <1>4 DEF JudgeL1, L1Answers

LEMMA JudgeQKeeps ==
  ASSUME RunInv, JudgeQ
  PROVE  RunInv'
<1>1. stage = "q" /\ UNCHANGED <<config, mode, selecting>>
  BY DEF JudgeQ
<1>2. draft \in Drafts /\ draft.secret # "seen" /\ mode \in {"production", "calibration"}
  BY <1>1, ModeIs DEF RunInv, RunTypeOK
<1>3. ASSUME NEW kind \in FailureKinds, CallFails(kind), StoppedAttempt(NoChecks, kind)
      PROVE  RunInv'
  <2>1. /\ spent' \in Nat /\ reported' \in Nat /\ overran' \in BOOLEAN
        /\ ~overran' => reported' <= LIMIT
        /\ kind # "missing_configuration"
    BY <1>1, <1>3, FailedCallSpends DEF RunInv
  <2> QED
    BY <1>1, <1>3, <2>1, StoppedKeeps
<1>4. ASSUME NEW q, Answered
      PROVE  LET checks == Evaluate(draft, l1, q) IN
             /\ Verdict(checks) \in FailureKinds /\ StoppedAttempt(checks, Verdict(checks))
                  => RunInv'
             /\ Verdict(checks) \notin FailureKinds /\ AfterAttempt(Judged(checks)) => RunInv'
  <2> DEFINE checks == Evaluate(draft, l1, q)
  <2>1. /\ spent' \in Nat /\ reported' = spent' /\ reported' \in Nat /\ overran' \in BOOLEAN
        /\ ~overran' => reported' <= LIMIT
    BY <1>1, <1>4, AnsweredSpends DEF RunInv
  <2>2. checks \in [Checks -> CheckStatuses]
    BY EvaluateType
  <2>3. Verdict(checks) # "missing_configuration"
    <3>1. mode = "production" => ~Some(checks, "missing")
      BY <1>1, NothingMissing DEF RunInv, PhaseInv
    <3> QED
      BY <1>2, <3>1 DEF Verdict
  <2> HIDE DEF checks
  <2>4. ASSUME Verdict(checks) \in FailureKinds, StoppedAttempt(checks, Verdict(checks))
        PROVE  RunInv'
    BY <1>1, <2>1, <2>2, <2>3, <2>4, StoppedKeeps
  <2>5. ASSUME Verdict(checks) \notin FailureKinds, AfterAttempt(Judged(checks))
        PROVE  RunInv'
    <3>1. /\ Sound(Judged(checks)) /\ Judged(checks) \in Attempt
          /\ mode = "production" => Verdict(checks) \in {"pass", "QUALITY_BLOCK"}
      BY <1>2, <2>2, <2>5, JudgedSound, AttemptTypes
    <3>2. Judged(checks).verdict = Verdict(checks)
      BY DEF Judged
    <3> QED
      BY <1>1, <1>4, <2>5, <3>1, <3>2, AttemptKeeps
  <2> QED
    BY <2>4, <2>5 DEF checks
<1> QED
  BY <1>3, <1>4 DEF JudgeQ, Judged

LEMMA JudgeReferenceKeeps ==
  ASSUME RunInv, JudgeReference
  PROVE  RunInv'
<1>1. stage = "reference" /\ UNCHANGED <<config, mode, selecting, looping>>
  BY DEF JudgeReference
<1>2. CASE \E kind \in FailureKinds : CallFails(kind) /\ SystemFailure(kind)
  BY <1>1, <1>2, FailureKeeps DEF Stages
<1>3. ASSUME Answered PROVE MoneyOK'
  BY <1>1, <1>3, AnsweredSpends DEF RunInv, MoneyOK
<1>4. CASE Answered /\ Finish("none", "CALIBRATION_RECORDED", "none")
  <2>1. stage' = "done" /\ record' = [terminal |-> "none",
                                      observable |-> "CALIBRATION_RECORDED", kind |-> "none"]
    BY <1>4 DEF Finish
  <2>2. RunTypeOK' /\ SpendInv' /\ AllSound'
    BY <1>1, <1>3, <1>4, <2>1, LoopKept DEF Stages
  <2>3. PhaseInv'
    BY <2>1 DEF PhaseInv, READY
  <2> QED
    BY <2>2, <2>3 DEF RunInv
<1>5. CASE Answered /\ GoTo("crashed")
  BY <1>1, <1>3, <1>5, CrashKeeps
<1> QED
  BY <1>2, <1>4, <1>5 DEF JudgeReference

LEMMA NextRunInv == RunInv /\ [Next]_vars => RunInv'
<1> SUFFICES ASSUME RunInv, [Next]_vars PROVE RunInv'
  OBVIOUS
<1>1. CASE UNCHANGED vars
  BY <1>1 DEF vars, selecting, looping, money, RunInv, RunTypeOK, SpendInv, AllSound,
              PhaseInv, AllBlocked
<1>2. CASE Crash
  <2>1. MoneyOK'
    BY <1>2, MoneyKept DEF Crash
  <2> QED
    BY <1>2, <2>1, CrashKeeps DEF Crash
<1> QED
  BY <1>1, <1>2, BeforeLoopKeeps, GenerateKeeps, JudgeL1Keeps, JudgeQKeeps,
     JudgeReferenceKeeps DEF Next, Step

LEMMA RunInvariant == Spec => []RunInv
BY InitRunInv, NextRunInv, PTL DEF Spec

(***************************************************************************)
(* However estimates, costs and failures fall, what the API reported stays *)
(* within max_run_spend_usd unless a call cost more than its own estimate  *)
(* (budget.py, check and record; llm.py).                                  *)
(***************************************************************************)
THEOREM SpendIsWithinLimit == Spec => []SpendWithinLimit
BY RunInvariant, PTL DEF RunInv, SpendInv, SpendWithinLimit

(* From the walk on the configuration is complete; without it the run has  *)
(* done nothing, and ended, if it ended, for that reason.                  *)
GateInv ==
  /\ stage \in {"walk", "generate", "l1", "q", "reference"} => Configured
  /\ ~Configured => walk = <<>> /\ reported = 0 /\ attempts = <<>>
  /\ ~Configured /\ stage = "done" => record.kind = "missing_configuration"

LEMMA GateStep == RunInv /\ GateInv /\ [Next]_vars => GateInv'
<1> SUFFICES ASSUME RunInv, GateInv, [Next]_vars PROVE GateInv'
  OBVIOUS
<1>1. UNCHANGED <<config, mode>>
  BY DEF vars, Next, Step, PrepareInput, ConfigGate, WalkCandidate, EndOfWalk, Generate,
         JudgeL1, JudgeQ, JudgeReference, Crash
<1>2. Configured' <=> Configured
  BY <1>1, ConfiguredKept
<1>3. CASE Configured
  BY <1>2, <1>3 DEF GateInv
<1>4. CASE ~Configured
  <2>1. stage \in {"prepare", "config", "done", "crashed"}
    BY <1>4 DEF GateInv, RunInv, RunTypeOK, Stages
  <2>2. walk = <<>> /\ reported = 0 /\ attempts = <<>>
    BY <1>4 DEF GateInv
  <2>3. CASE UNCHANGED vars
    BY <1>2, <2>3 DEF vars, selecting, looping, money, GateInv
  <2>4. CASE PrepareInput
    BY <1>2, <1>4, <2>2, <2>4 DEF PrepareInput, GoTo, looping, money, GateInv
  <2>5. CASE ConfigGate
    <3>1. SystemFailure("missing_configuration") /\ UNCHANGED <<walk, looping, money>>
      BY <1>4, <2>5, GateAsks DEF ConfigGate
    <3> QED
      BY <1>2, <1>4, <2>2, <3>1 DEF SystemFailure, Finish, looping, money, GateInv
  <2>6. CASE Crash
    BY <1>2, <1>4, <2>2, <2>6 DEF Crash, GoTo, selecting, looping, money, GateInv
  <2>7. ~(WalkCandidate \/ EndOfWalk \/ Generate \/ JudgeL1 \/ JudgeQ \/ JudgeReference)
    BY <2>1 DEF WalkCandidate, EndOfWalk, Generate, JudgeL1, JudgeQ, JudgeReference
  <2> QED
    BY <2>3, <2>4, <2>5, <2>6, <2>7 DEF Next, Step
<1> QED
  BY <1>3, <1>4

(***************************************************************************)
(* A run with a value of its mode unset, or no repository cleared, looks   *)
(* at no candidate, makes no paid call and ends, if it ends at all, as     *)
(* missing_configuration; and no run ends so later than at the gate        *)
(* (config.py, run_habr_draft.py).                                         *)
(***************************************************************************)
THEOREM MissingStopsBeforeAnything == Spec => []MissingStopsFirst
<1>1. Init => GateInv
  BY DEF Init, GateInv
<1>2. Spec => []GateInv
  BY <1>1, GateStep, RunInvariant, PTL DEF Spec
<1>3. RunInv /\ GateInv => MissingStopsFirst
  BY DEF RunInv, PhaseInv, GateInv, MissingStopsFirst
<1> QED
  BY <1>2, <1>3, RunInvariant, PTL

(***************************************************************************)
(* A draft in which the scan found a secret is not judged, not saved and   *)
(* not accepted, in any round, and the draft of every other attempt is     *)
(* saved (loop.py, the output secret gate and on_attempt).                 *)
(***************************************************************************)
THEOREM SecretsAreDiscarded == Spec => []SecretDiscarded
<1>1. RunInv => SecretDiscarded
  BY DEF RunInv, RunTypeOK, AllSound, Sound, SecretDiscarded
<1> QED
  BY <1>1, RunInvariant, PTL

-----------------------------------------------------------------------------
(* The best attempt. *)

LEMMA ChecksFinite == IsFiniteSet(Checks)
<1>1. /\ IsFiniteSet({"l1"}) /\ IsFiniteSet({"rules"})
      /\ IsFiniteSet({"requirements"}) /\ IsFiniteSet({"q"})
  BY FS_Singleton
<1>2. IsFiniteSet({"l1"} \cup {"rules"}) /\ IsFiniteSet({"requirements"} \cup {"q"})
  BY <1>1, FS_Union
<1>3. IsFiniteSet(({"l1"} \cup {"rules"}) \cup ({"requirements"} \cup {"q"}))
  BY <1>2, FS_Union
<1>4. Checks = ({"l1"} \cup {"rules"}) \cup ({"requirements"} \cup {"q"})
  BY DEF Checks
<1> QED
  BY <1>3, <1>4

LEMMA FailedCounted ==
  ASSUME NEW attempt
  PROVE  /\ FailedMandatory(attempt) \in Nat
         /\ FailedMandatory(attempt) = 0 <=> AllPass(attempt.checks)
<1> DEFINE failed == {c \in Checks : attempt.checks[c] # "pass"}
<1>1. IsFiniteSet(failed)
  BY ChecksFinite, FS_Subset
<1>2. Cardinality(failed) \in Nat /\ (Cardinality(failed) = 0 <=> failed = {})
  BY <1>1, FS_CardinalityType, FS_EmptySet
<1> QED
  BY <1>2 DEF FailedMandatory, AllPass

LEMMA BestIs ==
  ASSUME attempts \in Seq(Attempt), Checked # {}
  PROVE  /\ BestAttempt \in Checked
         /\ \A j \in Checked :
              \/ FailedMandatory(attempts[BestAttempt]) < FailedMandatory(attempts[j])
              \/ /\ FailedMandatory(attempts[BestAttempt]) = FailedMandatory(attempts[j])
                 /\ j <= BestAttempt
<1> DEFINE F(i) == FailedMandatory(attempts[i])
           counts == {F(i) : i \in Checked}
<1>1. \A i \in Checked : F(i) \in Nat
  BY FailedCounted
<1>2. PICK least \in counts : \A y \in counts : least <= y
  <2>1. counts \in SUBSET Nat /\ counts # {}
    BY <1>1
  <2> HIDE DEF counts
  <2> QED
    BY <2>1, LeastExists
<1> DEFINE n == Len(attempts)
           ends == {n - i : i \in {k \in Checked : F(k) = least}}
<1>3. n \in Nat /\ Checked \subseteq 1 .. n
  BY DEF Checked
<1>4. PICK end \in ends : \A y \in ends : end <= y
  <2>1. ends # {}
    BY <1>2
  <2>2. ends \in SUBSET Nat
    BY <1>3
  <2> HIDE DEF ends
  <2> QED
    BY <2>1, <2>2, LeastExists
<1>5. PICK best \in Checked : F(best) = least /\ end = n - best
  BY <1>4
<1>6. ASSUME NEW j \in Checked
      PROVE  F(best) < F(j) \/ (F(best) = F(j) /\ j <= best)
  <2>1. F(j) \in Nat /\ F(best) \in Nat /\ F(best) <= F(j)
    BY <1>1, <1>2, <1>5
  <2>2. CASE F(j) = F(best)
    <3>1. n - j \in ends
      BY <1>5, <2>2
    <3>2. n - best <= n - j
      BY <1>4, <1>5, <3>1
    <3>3. j <= best
      BY <1>3, <3>2
    <3> QED
      BY <2>2, <3>3
  <2> HIDE DEF F
  <2> QED
    BY <2>1, <2>2
<1>7. BestAttempt = CHOOSE i \in Checked : \A j \in Checked :
        \/ F(i) < F(j)
        \/ F(i) = F(j) /\ j <= i
  BY DEF BestAttempt
<1> HIDE DEF F
<1>8. /\ BestAttempt \in Checked
      /\ \A j \in Checked : \/ F(BestAttempt) < F(j)
                            \/ F(BestAttempt) = F(j) /\ j <= BestAttempt
  BY <1>6, <1>7
<1> QED
  BY <1>8 DEF F

LEMMA BestOfRun == RunInv => BestIsTheOutcome
<1> SUFFICES ASSUME RunInv PROVE BestIsTheOutcome
  OBVIOUS
<1>1. /\ attempts \in Seq(Attempt) /\ \A i \in DOMAIN attempts : Sound(attempts[i])
      /\ DOMAIN attempts = 1 .. Len(attempts) /\ Len(attempts) \in Nat
      /\ Checked \subseteq DOMAIN attempts
      /\ \A i \in DOMAIN attempts : attempts[i] \in Attempt
  BY DEF RunInv, RunTypeOK, AllSound, Checked
<1>2. \A i \in DOMAIN attempts : attempts[i].hit \in BOOLEAN /\ attempts[i].saved \in BOOLEAN
  BY <1>1 DEF Attempt
<1>3. ASSUME record.terminal = READY
      PROVE  BestAttempt = Len(attempts) /\ attempts[BestAttempt].verdict = "pass"
  <2> DEFINE last == Len(attempts)
  <2>1. last \in DOMAIN attempts /\ attempts[last].verdict = "pass"
    BY <1>1, <1>3 DEF RunInv, PhaseInv
  <2>2. /\ Sound(attempts[last]) /\ attempts[last].hit \in BOOLEAN
        /\ attempts[last].saved \in BOOLEAN
    BY <1>1, <1>2, <2>1
  <2>3. attempts[last].saved /\ attempts[last].checks # NoChecks
        /\ AllPass(attempts[last].checks)
    BY <2>1, <2>2 DEF Sound
  <2>4. last \in Checked
    BY <2>1, <2>3 DEF Checked
  <2>5. FailedMandatory(attempts[last]) = 0
    BY <2>3, FailedCounted
  <2>6. BestAttempt \in Checked /\ FailedMandatory(attempts[BestAttempt]) \in Nat
    BY <1>1, <2>4, BestIs, FailedCounted
  <2>7. last <= BestAttempt
    BY <1>1, <2>4, <2>5, <2>6, BestIs
  <2>8. BestAttempt \in 1 .. last
    BY <1>1, <2>6
  <2>9. BestAttempt = last
    <3>1. last \in Nat
      BY <1>1
    <3> HIDE DEF last
    <3> QED
      BY <3>1, <2>7, <2>8
  <2> QED
    BY <2>1, <2>9
<1>4. ASSUME record.terminal = "BLOCKED", BestAttempt = 0, NEW i \in DOMAIN attempts
      PROVE  attempts[i].hit
  <2>1. Checked = {}
    <3>1. 0 \notin Checked
      BY <1>1
    <3> QED
      BY <1>1, <1>4, <3>1, BestIs
  <2>2. attempts[i].verdict = "QUALITY_BLOCK" /\ Sound(attempts[i])
        /\ attempts[i].hit \in BOOLEAN /\ attempts[i].saved \in BOOLEAN
    BY <1>1, <1>2, <1>4 DEF RunInv, PhaseInv, AllBlocked
  <2>3. ~attempts[i].saved \/ attempts[i].checks = NoChecks
    BY <2>1 DEF Checked
  <2> QED
    BY <2>2, <2>3 DEF Sound
<1>5. ASSUME record.terminal = "BLOCKED", BestAttempt # 0
      PROVE  attempts[BestAttempt].saved /\ FailedMandatory(attempts[BestAttempt]) > 0
  <2>1. BestAttempt \in Checked
    BY <1>1, <1>5, BestIs DEF BestAttempt
  <2> DEFINE best == attempts[BestAttempt]
  <2>2. best.verdict = "QUALITY_BLOCK" /\ Sound(best) /\ best.saved
        /\ best.checks # NoChecks /\ best.hit \in BOOLEAN
    BY <1>1, <1>2, <1>5, <2>1 DEF RunInv, PhaseInv, AllBlocked, Checked
  <2> HIDE DEF best
  <2>3. ~AllPass(best.checks)
    BY <2>2 DEF Sound
  <2>4. FailedMandatory(best) \in Nat /\ FailedMandatory(best) # 0
    BY <2>3, FailedCounted
  <2> QED
    BY <2>2, <2>4 DEF best
<1>6. ASSUME record.terminal = "BLOCKED", BestAttempt # 0,
             NEW i \in DOMAIN attempts, ~attempts[i].hit
      PROVE  /\ FailedMandatory(attempts[BestAttempt]) <= FailedMandatory(attempts[i])
             /\ i > BestAttempt => FailedMandatory(attempts[BestAttempt])
                                     < FailedMandatory(attempts[i])
  <2>1. attempts[i].verdict = "QUALITY_BLOCK" /\ Sound(attempts[i])
        /\ attempts[i].hit \in BOOLEAN /\ attempts[i].saved \in BOOLEAN
    BY <1>1, <1>2, <1>6 DEF RunInv, PhaseInv, AllBlocked
  <2>2. i \in Checked
    BY <1>6, <2>1 DEF Sound, Checked
  <2>3. BestAttempt \in Checked
    BY <1>1, <2>2, BestIs
  <2>4. BestAttempt \in Nat /\ i \in Nat
    BY <1>1, <2>3
  <2>5. /\ FailedMandatory(attempts[i]) \in Nat
        /\ FailedMandatory(attempts[BestAttempt]) \in Nat
    BY FailedCounted
  <2>6. \/ FailedMandatory(attempts[BestAttempt]) < FailedMandatory(attempts[i])
        \/ /\ FailedMandatory(attempts[BestAttempt]) = FailedMandatory(attempts[i])
           /\ i <= BestAttempt
    BY <1>1, <2>2, BestIs
  <2> QED
    BY <2>4, <2>5, <2>6
<1> QED
  BY <1>3, <1>4, <1>5, <1>6 DEF BestIsTheOutcome

(***************************************************************************)
(* The best attempt of a READY run is the one that passed; of a BLOCKED    *)
(* run it is a saved one that failed a check, and none that was kept       *)
(* failed fewer, nor a later one as few, unless the scan discarded every   *)
(* draft (loop.py, _best).                                                 *)
(***************************************************************************)
THEOREM BestAttemptIsTheOutcome == Spec => []BestIsTheOutcome
BY RunInvariant, BestOfRun, PTL

-----------------------------------------------------------------------------
(* The refinement of HabrOutcome. *)

Rounds == [i \in DOMAIN attempts |-> RoundResult(attempts[i])]

(* What HabrOutcome allows a step to do, given the rounds and the outcome  *)
(* before it.                                                              *)
OutcomeStep == [Outcome!Next]_<<mode, Rounds, record.observable>>

LEMMA SequenceIs ==
  ASSUME NEW S, NEW seq \in Seq(S)
  PROVE  seq = [i \in 1 .. Len(seq) |-> seq[i]]
OBVIOUS

LEMMA AppendIs ==
  ASSUME NEW S, NEW seq \in Seq(S), NEW e \in S
  PROVE  Append(seq, e) = [i \in 1 .. Len(seq) + 1 |-> IF i = Len(seq) + 1 THEN e ELSE seq[i]]
<1> DEFINE longer == Append(seq, e)
           n      == Len(seq)
<1>1. longer \in Seq(S) /\ Len(longer) = n + 1
  OBVIOUS
<1>2. longer[n + 1] = e
  OBVIOUS
<1>3. \A i \in 1 .. n : longer[i] = seq[i]
  OBVIOUS
<1>4. n \in Nat
  OBVIOUS
<1> HIDE DEF longer, n
<1>5. longer = [i \in 1 .. Len(longer) |-> longer[i]]
  BY <1>1, SequenceIs
<1>6. \A i \in 1 .. n + 1 : longer[i] = (IF i = n + 1 THEN e ELSE seq[i])
  <2> TAKE i \in 1 .. n + 1
  <2>1. CASE i = n + 1
    BY <1>2, <2>1
  <2>2. CASE i # n + 1
    <3>1. i \in 1 .. n
      BY <1>4, <2>2
    <3> QED
      BY <1>3, <2>2, <3>1
  <2> QED
    BY <2>1, <2>2
<1>7. longer = [i \in 1 .. n + 1 |-> IF i = n + 1 THEN e ELSE seq[i]]
  BY <1>1, <1>5, <1>6
<1> QED
  BY <1>7 DEF longer, n

LEMMA RoundsGrow ==
  ASSUME attempts \in Seq(Attempt), NEW attempt, attempts' = Append(attempts, attempt),
         attempt \in Attempt
  PROVE  /\ Rounds' = Append(Rounds, RoundResult(attempt))
         /\ Len(Rounds) = Len(attempts)
<1>1. \A a \in Attempt : RoundResult(a) \in Results
  BY DEF RoundResult, Results
<1>2. Rounds \in Seq(Results) /\ Len(Rounds) = Len(attempts)
  BY <1>1 DEF Rounds
<1>3. /\ DOMAIN attempts' = 1 .. Len(attempts) + 1
      /\ attempts'[Len(attempts) + 1] = attempt
      /\ \A i \in 1 .. Len(attempts) : attempts'[i] = attempts[i]
  OBVIOUS
<1>4. RoundResult(attempt) \in Results
  BY <1>1
<1>5. /\ Rounds' = [i \in 1 .. Len(attempts) + 1 |-> RoundResult(attempts'[i])]
      /\ Rounds = [i \in 1 .. Len(attempts) |-> RoundResult(attempts[i])]
  BY <1>3 DEF Rounds
<1>6. Append(Rounds, RoundResult(attempt))
        = [i \in 1 .. Len(attempts) + 1 |->
             IF i = Len(attempts) + 1 THEN RoundResult(attempt) ELSE Rounds[i]]
  BY <1>2, <1>4, AppendIs
<1>7. \A i \in 1 .. Len(attempts) + 1 :
        RoundResult(attempts'[i]) =
          (IF i = Len(attempts) + 1 THEN RoundResult(attempt) ELSE Rounds[i])
  BY <1>3, <1>5
<1> QED
  BY <1>2, <1>5, <1>6, <1>7

(* A step that neither ends the run nor adds an attempt. *)
LEMMA QuietStutters ==
  ASSUME UNCHANGED <<mode, attempts, record>>
  PROVE  OutcomeStep
BY DEF OutcomeStep, Rounds

LEMMA FailureAborts ==
  ASSUME RunInv, stage # "done", UNCHANGED <<mode, attempts>>,
         record'.observable = "SYSTEM_FAILURE"
  PROVE  OutcomeStep
<1>1. record.observable = "none"
  BY DEF RunInv, PhaseInv, NoRecord
<1>2. Rounds' = Rounds
  BY DEF Rounds
<1> QED
  BY <1>1, <1>2 DEF OutcomeStep, Rounds, Outcome!Next, Outcome!Abort

LEMMA StoppedIsUnfinished ==
  ASSUME RunInv, stage \in {"l1", "q"}, NEW kind,
         NEW checks \in [Checks -> CheckStatuses] \cup {NoChecks},
         \E c \in Checks : checks[c] \in {"error", "missing", "none"},
         StoppedAttempt(checks, kind), mode' = mode
  PROVE  OutcomeStep
<1>1. /\ attempts' = Append(attempts, Stopped(checks))
      /\ record'.observable = "SYSTEM_FAILURE"
  BY DEF StoppedAttempt, SystemFailure, Finish, Stopped
<1>2. draft \in Drafts /\ attempts \in Seq(Attempt) /\ record.observable = "none"
  BY DEF RunInv, RunTypeOK, PhaseInv, NoRecord
<1>3. Stopped(checks) \in Attempt
  BY <1>2, AttemptTypes
<1>4. RoundResult(Stopped(checks)) = "unfinished"
  BY DEF RoundResult, Stopped, AllPass
<1>5. Rounds' = Append(Rounds, "unfinished")
  BY <1>1, <1>2, <1>3, <1>4, RoundsGrow
<1> QED
  BY <1>1, <1>2, <1>5
  DEF OutcomeStep, Rounds, Outcome!Next, Outcome!Unfinished, Outcome!NewRound

LEMMA NoChecksUnfinished == \E c \in Checks : NoChecks[c] \in {"error", "missing", "none"}
BY DEF NoChecks, Checks

LEMMA AttemptIsRound ==
  ASSUME RunInv, stage \in {"generate", "q"}, NEW attempt \in Attempt, Sound(attempt),
         mode = "production" => attempt.verdict \in {"pass", "QUALITY_BLOCK"},
         AfterAttempt(attempt), mode' = mode
  PROVE  OutcomeStep
<1>1. /\ attempts \in Seq(Attempt) /\ record = NoRecord /\ record.observable = "none"
      /\ Len(attempts) \in Nat /\ MAX_CORRECTIONS = 2
      /\ corrections_left \in 0 .. 2
      /\ mode = "production" => Len(attempts) + corrections_left = 2
      /\ mode = "calibration" => attempts = <<>>
  BY DEF RunInv, RunTypeOK, PhaseInv, NoRecord, MAX_CORRECTIONS
<1>2. Rounds' = Append(Rounds, RoundResult(attempt)) /\ Len(Rounds) = Len(attempts)
  BY <1>1, RoundsGrow DEF AfterAttempt
<1>3. RoundResult(attempt) \in Results
  BY DEF RoundResult, Results
<1>4. attempt.hit \in BOOLEAN
  BY DEF Attempt
<1>5. attempt.verdict = "pass" => RoundResult(attempt) = "pass"
  BY <1>4 DEF Sound, RoundResult
<1>6. attempt.verdict = "QUALITY_BLOCK" => RoundResult(attempt) = "fail"
  BY <1>4 DEF Sound, RoundResult
<1> HIDE DEF RoundResult
<1>7. CASE mode = "calibration" /\ GoTo("reference")
  <2>1. record' = record /\ Rounds = <<>>
    BY <1>1, <1>7 DEF GoTo, Rounds
  <2> QED
    BY <1>1, <1>2, <1>3, <1>7, <2>1
    DEF OutcomeStep, Rounds, Results, Outcome!Next, Outcome!RecordRound,
        Outcome!NewRound, Outcome!Production
<1>8. CASE mode = "production" /\ attempt.verdict = "pass" /\ Finish(READY, READY, "none")
  <2>1. record'.observable = "INTERNAL_DRAFT_READY_FOR_OWNER_REVIEW"
    BY <1>8 DEF Finish, READY
  <2> QED
    BY <1>1, <1>2, <1>5, <1>8, <2>1
    DEF OutcomeStep, Rounds, Outcome!Next, Outcome!Pass, Outcome!NewRound, Outcome!Production
<1>9. CASE /\ mode = "production" /\ attempt.verdict # "pass" /\ Exhausted
           /\ Finish("BLOCKED", "BLOCKED", "none")
  <2>1. record'.observable = "BLOCKED" /\ Len(Rounds) + 1 = MAX_CORRECTIONS + 1
    BY <1>1, <1>2, <1>9 DEF Finish, Exhausted
  <2> QED
    BY <1>1, <1>2, <1>6, <1>9, <2>1
    DEF OutcomeStep, Rounds, Outcome!Next, Outcome!Block, Outcome!NewRound, Outcome!Production
<1>10. CASE mode = "production" /\ attempt.verdict # "pass" /\ ~Exhausted /\ GoTo("generate")
  <2>1. record' = record /\ Len(Rounds) + 1 < MAX_CORRECTIONS + 1
    BY <1>1, <1>2, <1>10 DEF GoTo, Exhausted
  <2> QED
    BY <1>1, <1>2, <1>6, <1>10, <2>1
    DEF OutcomeStep, Rounds, Outcome!Next, Outcome!Fail, Outcome!NewRound, Outcome!Production
<1> QED
  BY <1>7, <1>8, <1>9, <1>10 DEF AfterAttempt

LEMMA OutcomeSteps == RunInv /\ [Next]_vars => OutcomeStep
<1> SUFFICES ASSUME RunInv, [Next]_vars PROVE OutcomeStep
  OBVIOUS
<1>1. CASE UNCHANGED vars \/ Crash \/ PrepareInput \/ WalkCandidate
  BY <1>1, QuietStutters
  DEF vars, looping, Crash, PrepareInput, WalkCandidate, GoTo
<1>2. CASE ConfigGate
  <2>1. stage # "done" /\ UNCHANGED <<mode, attempts>>
        /\ (record' = record \/ record'.observable = "SYSTEM_FAILURE")
    BY <1>2 DEF ConfigGate, looping, SystemFailure, Finish, GoTo
  <2> QED
    BY <2>1, QuietStutters, FailureAborts
<1>3. CASE EndOfWalk
  <2>1. stage = "walk" /\ UNCHANGED <<mode, attempts>>
        /\ record'.observable \in {"SYSTEM_FAILURE", "NO_ELIGIBLE_TOPIC"}
    BY <1>3 DEF EndOfWalk, looping, SystemFailure, Finish
  <2>2. attempts = <<>> /\ record.observable = "none"
    BY <2>1 DEF RunInv, PhaseInv, NoRecord
  <2>3. CASE record'.observable = "NO_ELIGIBLE_TOPIC"
    BY <2>1, <2>2, <2>3 DEF OutcomeStep, Rounds, Outcome!Next, Outcome!NoTopic
  <2> QED
    BY <2>1, <2>3, FailureAborts
<1>4. CASE Generate
  <2>1. stage = "generate" /\ mode' = mode
    BY <1>4 DEF Generate
  <2>2. CASE record'.observable = "SYSTEM_FAILURE" /\ UNCHANGED looping
    BY <2>1, <2>2, FailureAborts DEF looping
  <2>3. CASE AfterAttempt(SecretAttempt)
    <3>1. mode = "production" => SecretAttempt.verdict = "QUALITY_BLOCK"
      BY DEF SecretAttempt
    <3> QED
      BY <2>1, <2>3, <3>1, SecretAttemptType, SecretSound, AttemptIsRound
  <2>4. CASE UNCHANGED <<attempts, record>>
    BY <2>1, <2>4, QuietStutters
  <2> QED
    BY <1>4, <2>2, <2>3, <2>4 DEF Generate, SystemFailure, Finish, GoTo
<1>5. CASE JudgeL1
  <2>1. stage = "l1" /\ mode' = mode
    BY <1>5 DEF JudgeL1
  <2>2. CASE \E kind \in FailureKinds : StoppedAttempt(NoChecks, kind)
    BY <2>1, <2>2, StoppedIsUnfinished, NoChecksUnfinished
  <2>3. CASE UNCHANGED <<attempts, record>>
    BY <2>1, <2>3, QuietStutters
  <2> QED
    BY <1>5, <2>2, <2>3 DEF JudgeL1, GoTo, looping
<1>6. CASE JudgeQ
  <2>1. stage = "q" /\ mode' = mode
    BY <1>6 DEF JudgeQ
  <2>2. CASE \E kind \in FailureKinds : StoppedAttempt(NoChecks, kind)
    BY <2>1, <2>2, StoppedIsUnfinished, NoChecksUnfinished
  <2>3. ASSUME NEW q
        PROVE  LET checks == Evaluate(draft, l1, q) IN
               /\ Verdict(checks) \in FailureKinds /\ StoppedAttempt(checks, Verdict(checks))
                    => OutcomeStep
               /\ Verdict(checks) \notin FailureKinds /\ AfterAttempt(Judged(checks))
                    => OutcomeStep
    <3> DEFINE checks == Evaluate(draft, l1, q)
    <3>1. checks \in [Checks -> CheckStatuses]
      BY EvaluateType
    <3>2. /\ draft \in Drafts /\ draft.secret # "seen"
          /\ mode \in {"production", "calibration"}
      BY <2>1, ModeIs DEF RunInv, RunTypeOK
    <3> HIDE DEF checks
    <3>3. ASSUME Verdict(checks) \in FailureKinds, StoppedAttempt(checks, Verdict(checks))
          PROVE  OutcomeStep
      <4>1. \E c \in Checks : checks[c] \in {"error", "missing", "none"}
        BY <3>3 DEF Verdict, FailureKinds, Some
      <4> QED
        BY <2>1, <3>1, <3>3, <4>1, StoppedIsUnfinished
    <3>4. ASSUME Verdict(checks) \notin FailureKinds, AfterAttempt(Judged(checks))
          PROVE  OutcomeStep
      <4>1. /\ Sound(Judged(checks)) /\ Judged(checks) \in Attempt
            /\ mode = "production" => Verdict(checks) \in {"pass", "QUALITY_BLOCK"}
        BY <3>1, <3>2, <3>4, JudgedSound, AttemptTypes
      <4>2. Judged(checks).verdict = Verdict(checks)
        BY DEF Judged
      <4> QED
        BY <2>1, <3>4, <4>1, <4>2, AttemptIsRound
    <3> QED
      BY <3>3, <3>4 DEF checks
  <2> QED
    BY <1>6, <2>2, <2>3 DEF JudgeQ, Judged
<1>7. CASE JudgeReference
  <2>1. stage = "reference" /\ UNCHANGED <<mode, attempts>>
    BY <1>7 DEF JudgeReference, looping
  <2>2. mode = "calibration" /\ Len(attempts) = 1 /\ record.observable = "none"
        /\ attempts \in Seq(Attempt)
    BY <2>1 DEF RunInv, RunTypeOK, PhaseInv, NoRecord
  <2>3. CASE record'.observable = "CALIBRATION_RECORDED"
    <3>1. Rounds' = Rounds
      BY <2>1 DEF Rounds
    <3>2. Len(Rounds) = 1
      BY <2>2 DEF Rounds
    <3> QED
      BY <2>1, <2>2, <2>3, <3>1, <3>2
      DEF OutcomeStep, Rounds, Outcome!Next, Outcome!Recorded, Outcome!Production
  <2>4. CASE record'.observable = "SYSTEM_FAILURE"
    BY <2>1, <2>4, FailureAborts
  <2>5. CASE record' = record
    BY <2>1, <2>5, QuietStutters
  <2> QED
    BY <1>7, <2>3, <2>4, <2>5 DEF JudgeReference, SystemFailure, Finish, GoTo
<1> QED
  BY <1>1, <1>2, <1>3, <1>4, <1>5, <1>6, <1>7 DEF Next, Step

(***************************************************************************)
(* A run's outcome is the one its rounds earned: READY only by the round   *)
(* that passed every check, BLOCKED only by the last of three none of      *)
(* which passed (loop.py, run_rounds; SPEC.md M9 requirements 48 and 55).  *)
(***************************************************************************)
THEOREM ImplementsOutcome == Spec => OutcomeSpec
<1>1. Init => Outcome!Init
  <2> SUFFICES ASSUME Init PROVE Outcome!Init
    OBVIOUS
  <2>1. mode \in {"production", "calibration"}
    BY InitRunInv, ModeIs DEF RunInv
  <2> QED
    BY <2>1 DEF Init, Outcome!Init, NoRecord
<1>2. RunInv /\ [Next]_vars =>
        [Outcome!Next]_<<mode, [i \in DOMAIN attempts |-> RoundResult(attempts[i])],
                         record.observable>>
  BY OutcomeSteps DEF OutcomeStep, Rounds
<1> QED
  BY <1>1, <1>2, RunInvariant, PTL DEF Spec, OutcomeSpec, Outcome!Spec

-----------------------------------------------------------------------------
(* What stage 1 hands on and the order of the candidates. *)

Ranking(units) ==
  {pair \in (DOMAIN units) \X (DOMAIN units) : Before(units, pair[1], pair[2])}

LEMMA RankingIsTotal ==
  ASSUME NEW units \in Seq(Candidate)
  PROVE  IsTotalOrder(DOMAIN units, Ranking(units))
<1> DEFINE weight(i) == units[i].weight
           name(i) == NameOrder[units[i].repo]
           earlier(i, j) == \/ weight(i) > weight(j)
                            \/ weight(i) = weight(j) /\ name(i) < name(j)
                            \/ weight(i) = weight(j) /\ name(i) = name(j) /\ i < j
<1>1. \A i \in DOMAIN units : i \in Nat /\ weight(i) \in Nat /\ name(i) \in Nat
  <2>1. \A i \in DOMAIN units : units[i] \in Candidate /\ i \in Nat
    OBVIOUS
  <2> QED
    BY <2>1, SelectionAssumption DEF SelectionAssumption, Candidate
<1>2. \A i, j \in DOMAIN units : <<i, j>> \in Ranking(units) <=> earlier(i, j)
  BY DEF Ranking, Before
<1> HIDE DEF weight, name
<1>3. \A i \in DOMAIN units : ~earlier(i, i)
  BY <1>1
<1>4. \A i, j, k \in DOMAIN units : earlier(i, j) /\ earlier(j, k) => earlier(i, k)
  BY <1>1
<1>5. \A i, j \in DOMAIN units : i # j => earlier(i, j) \/ earlier(j, i)
  BY <1>1
<1> HIDE DEF earlier
<1> QED
  BY <1>2, <1>3, <1>4, <1>5 DEF IsTotalOrder

(***************************************************************************)
(* For every list of units: rank_candidates gives each of them once, by    *)
(* weight, then by name, then as they came, so that two runs on the same   *)
(* selection walk the same candidates (topic.py, rank_candidates).         *)
(***************************************************************************)
THEOREM CandidatesAreRanked ==
  ASSUME NEW units \in Seq(Candidate)
  PROVE  \E places \in [DOMAIN units -> DOMAIN units] :
           /\ \A i \in DOMAIN units : \E k \in DOMAIN units : places[k] = i
           /\ RankCandidates(units) = [k \in DOMAIN units |-> units[places[k]]]
           /\ \A k, l \in DOMAIN units : k < l => Before(units, places[k], places[l])
<1> DEFINE positions == DOMAIN units
           places == InOrder(positions, Ranking(units))
           n == Len(units)
<1>1. /\ IsFiniteSet(positions) /\ Cardinality(positions) = n
      /\ positions = 1 .. n /\ n \in Nat
  BY PositionsFinite
<1>2. RankCandidates(units) = [k \in positions |-> units[places[k]]]
  BY DEF RankCandidates, Ranking
<1>3. IsTotalOrder(positions, Ranking(units))
  BY RankingIsTotal
<1>4. \A i, j \in positions : <<i, j>> \in Ranking(units) => Before(units, i, j)
  BY DEF Ranking
<1> HIDE DEF positions, places, n
<1>5. /\ places \in Seq(positions) /\ Len(places) = n
      /\ \A i \in positions : \E k \in 1 .. n : places[k] = i
      /\ \A k, l \in 1 .. n : k < l => <<places[k], places[l]>> \in Ranking(units)
  <2>1. /\ places \in Seq(positions) /\ Len(places) = Cardinality(positions)
        /\ \A i \in positions : \E k \in 1 .. Cardinality(positions) : places[k] = i
        /\ \A k, l \in 1 .. Cardinality(positions) :
             k < l => <<places[k], places[l]>> \in Ranking(units)
    BY <1>1, <1>3, InOrderSorts DEF places
  <2> QED
    BY <1>1, <2>1
<1>6. places \in [positions -> positions]
  <2>1. places \in [1 .. Len(places) -> positions]
    BY <1>5
  <2>2. 1 .. Len(places) = positions
    BY <1>1, <1>5
  <2> QED
    BY <2>1, <2>2
<1>7. \A k, l \in positions : k < l => Before(units, places[k], places[l])
  BY <1>1, <1>4, <1>5, <1>6
<1> QED
  BY <1>1, <1>2, <1>5, <1>6, <1>7 DEF positions

(* The ranked candidates are candidates, as many as there are units. *)
LEMMA RankedAre ==
  ASSUME NEW units \in Seq(Candidate)
  PROVE  /\ RankCandidates(units) \in Seq(Candidate)
         /\ Len(RankCandidates(units)) = Len(units)
<1> DEFINE places == InOrder(DOMAIN units, Ranking(units))
           n == Len(units)
<1>1. IsFiniteSet(DOMAIN units) /\ Cardinality(DOMAIN units) = n
      /\ DOMAIN units = 1 .. n /\ n \in Nat
  BY PositionsFinite
<1>2. places \in Seq(DOMAIN units) /\ Len(places) = n
  BY <1>1, RankingIsTotal, InOrderSorts
<1>3. RankCandidates(units) = [k \in 1 .. n |-> units[places[k]]]
  BY <1>1 DEF RankCandidates, Ranking
<1> HIDE DEF places, n
<1>4. \A k \in 1 .. n : units[places[k]] \in Candidate
  BY <1>1, <1>2
<1> QED
  BY <1>1, <1>3, <1>4

LEMMA UnitsAdapted ==
  ASSUME NEW brief \in Briefs, NEW answers, NEW token
  PROVE  AdaptDailyBrief(brief, token, answers, "not_applicable") \in Seq(Unit)
<1> DEFINE units == AdaptDailyBrief(brief, token, answers, "not_applicable")
           entries == brief.per_repo
<1>1. entries \in Seq(Entry) /\ brief.messages \in SUBSET Message
  BY HabrAssumption DEF HabrAssumption, Brief
<1>2. DOMAIN units = 1 .. Len(entries) /\ Len(entries) \in Nat
  BY <1>1 DEF AdaptDailyBrief
<1>3. ASSUME NEW i \in 1 .. Len(entries) PROVE units[i] \in Unit
  <2>1. entries[i] \in Entry
    BY <1>1
  <2>2. entries[i].repo \in Repos /\ entries[i].commits \in Nat
    BY <2>1 DEF Entry
  <2> DEFINE valid == IF brief.schema = DAILY_BRIEF_SCHEMA_VERSION
                      THEN CheckIntegrity(entries[i], token, answers[entries[i].repo])
                      ELSE "invalid"
             said == IF brief.schema = DAILY_BRIEF_SCHEMA_VERSION
                     THEN MessagesByRepo(brief, entries[i].repo) ELSE {}
  <2>3. valid \in {"valid", "invalid"}
    BY DEF CheckIntegrity
  <2>4. said \in SUBSET Message
    BY <1>1 DEF MessagesByRepo
  <2>5. units[i] = [repo |-> entries[i].repo, integrity |-> valid,
                    corroboration |-> "not_applicable", commits |-> entries[i].commits,
                    messages |-> said]
    BY <1>1 DEF AdaptDailyBrief
  <2> HIDE DEF valid, said
  <2> QED
    BY <2>2, <2>3, <2>4, <2>5 DEF Unit, CorroborationStatuses
<1>4. units = [i \in DOMAIN units |-> units[i]]
  BY DEF AdaptDailyBrief
<1> HIDE DEF units
<1>5. units \in Seq(Unit)
  BY <1>2, <1>3, <1>4
<1> QED
  BY <1>5 DEF units

LEMMA PreparedType ==
  ASSUME NEW brief \in Briefs, NEW answers, NEW c
  PROVE  Prepare(brief, answers, c) \in Selection
<1> DEFINE units == AdaptDailyBrief(brief, TRUE, answers, "not_applicable")
           eligible == Kept(units, {i \in DOMAIN units : Eligible(units[i], c)})
           found == [i \in DOMAIN eligible |->
                       [repo |-> eligible[i].repo, weight |-> eligible[i].commits]]
<1>1. units \in Seq(Unit)
  BY UnitsAdapted
<1>2. eligible \in Seq(Unit)
  <2> DEFINE positions == {i \in DOMAIN units : Eligible(units[i], c)}
  <2>1. positions \in SUBSET DOMAIN units
    OBVIOUS
  <2> HIDE DEF units, positions
  <2>2. Kept(units, positions) \in Seq(Unit)
    BY <1>1, <2>1, KeptSelects
  <2> QED
    BY <2>2 DEF positions
<1>3. found \in Seq(Candidate)
  <2> HIDE DEF eligible
  <2>1. \A i \in DOMAIN eligible : [repo |-> eligible[i].repo,
                                    weight |-> eligible[i].commits] \in Candidate
    <3> TAKE i \in DOMAIN eligible
    <3>1. eligible[i] \in Unit
      BY <1>2
    <3>2. eligible[i].repo \in Repos /\ eligible[i].commits \in Nat
      BY <3>1 DEF Unit
    <3> QED
      BY <3>2 DEF Candidate
  <2>2. DOMAIN eligible = 1 .. Len(eligible) /\ Len(eligible) \in Nat
    BY <1>2
  <2> QED
    BY <2>1, <2>2
<1>4. Prepare(brief, answers, c) =
        [status |-> "ok", units |-> found,
         technical_errors |-> Prepare(brief, answers, c).technical_errors]
  BY DEF Prepare
<1>5. Prepare(brief, answers, c).technical_errors \in BOOLEAN
  BY DEF Prepare
<1> HIDE DEF found
<1> QED
  BY <1>3, <1>4, <1>5 DEF Selection

-----------------------------------------------------------------------------
(* The walk. *)

SelectTypeOK ==
  /\ selection \in Selection
  /\ candidates \in Seq(Candidate)
  /\ walk \in Seq(WalkResults)
  /\ any_error \in BOOLEAN
  /\ record \in RunRecord

Passable == {"not_confirmed_public", "no_usable_fragment"}

(* While the run walks: every unit of the selection is a candidate, the    *)
(* configuration was complete, and without a technical error every         *)
(* candidate so far was looked at and passed over.                         *)
WalkInv ==
  /\ stage \in {"prepare", "config"} => any_error = FALSE
  /\ stage = "walk" =>
       /\ Len(candidates) = Len(selection.units)
       /\ Len(walk) <= Len(candidates)
       /\ Configured
       /\ ~any_error => \A i \in DOMAIN walk : walk[i] \in Passable
  /\ NoTopicObserved

SelectInv == SelectTypeOK /\ WalkInv

LEMMA FailedSelectionType == FailedSelection \in Selection
BY DEF FailedSelection, Selection

LEMMA NoRecordType == NoRecord \in RunRecord
BY DEF NoRecord, RunRecord

(* Steps that leave the selection alone keep it, whatever the outcome.     *)
LEMMA OutcomeKeeps ==
  ASSUME SelectInv, UNCHANGED <<config, mode, selecting>>,
         stage' \in Stages \ {"prepare", "config", "walk"},
         record' \in RunRecord, record' = record \/ record'.observable # "NO_ELIGIBLE_TOPIC"
  PROVE  SelectInv'
<1>1. UNCHANGED <<selection, candidates, walk, any_error>>
  BY DEF selecting
<1>2. SelectTypeOK'
  BY <1>1 DEF SelectInv, SelectTypeOK
<1>3. NoTopicObserved'
  BY <1>1, ConfiguredKept DEF SelectInv, WalkInv, NoTopicObserved
<1> QED
  BY <1>2, <1>3 DEF SelectInv, WalkInv

LEMMA OutcomeRecord ==
  ASSUME NEW terminal \in {"none", READY, "BLOCKED", "SYSTEM_FAILURE"},
         NEW observable \in {"none", READY, "BLOCKED", "SYSTEM_FAILURE",
                             "NO_ELIGIBLE_TOPIC", "CALIBRATION_RECORDED"},
         NEW kind \in FailureKinds \cup {"none"},
         Finish(terminal, observable, kind)
  PROVE  stage' = "done" /\ record' \in RunRecord /\ record'.observable = observable
BY DEF Finish, RunRecord

LEMMA FailureRecord ==
  ASSUME NEW kind \in FailureKinds, SystemFailure(kind)
  PROVE  stage' = "done" /\ record' \in RunRecord /\ record'.observable = "SYSTEM_FAILURE"
BY OutcomeRecord DEF SystemFailure

LEMMA FinishedRound ==
  ASSUME SelectInv, NEW attempt, AfterAttempt(attempt)
  PROVE  /\ stage' \in Stages \ {"prepare", "config", "walk"}
         /\ record' \in RunRecord
         /\ record' = record \/ record'.observable # "NO_ELIGIBLE_TOPIC"
<1>1. record \in RunRecord
  BY DEF SelectInv, SelectTypeOK
<1>2. CASE GoTo("reference") \/ GoTo("generate")
  BY <1>1, <1>2 DEF GoTo, Stages
<1>3. CASE Finish(READY, READY, "none")
  BY <1>3, OutcomeRecord DEF Stages, READY
<1>4. CASE Finish("BLOCKED", "BLOCKED", "none")
  BY <1>4, OutcomeRecord DEF Stages
<1> QED
  BY <1>2, <1>3, <1>4 DEF AfterAttempt

LEMMA SelectInit == Init => SelectInv
<1> SUFFICES ASSUME Init PROVE SelectInv
  OBVIOUS
<1>1. SelectTypeOK
  <2>1. /\ selection = FailedSelection /\ candidates = <<>> /\ walk = <<>>
        /\ any_error = FALSE /\ record = NoRecord
    BY DEF Init
  <2>2. <<>> \in Seq(Candidate) /\ <<>> \in Seq(WalkResults)
    OBVIOUS
  <2> QED
    BY <2>1, <2>2, FailedSelectionType, NoRecordType DEF SelectTypeOK
<1>2. WalkInv
  <2>1. /\ stage = "prepare" /\ any_error = FALSE
        /\ record.observable = "none"
    BY DEF Init, NoRecord
  <2> QED
    BY <2>1 DEF WalkInv, NoTopicObserved
<1> QED
  BY <1>1, <1>2 DEF SelectInv

LEMMA PrepareKeepsSelection ==
  ASSUME RunInv, SelectInv, PrepareInput
  PROVE  SelectInv'
<1>1. selection' \in Selection
  <2>1. CASE selection' = FailedSelection
    BY <2>1, FailedSelectionType
  <2>2. ASSUME NEW brief \in Briefs, NEW answers \in [Repos -> Answers],
               selection' = Prepare(brief, answers, config)
        PROVE  selection' \in Selection
    BY <2>2, PreparedType
  <2> QED
    BY <2>1, <2>2 DEF PrepareInput
<1>2. /\ stage = "prepare" /\ stage' = "config" /\ record' = record
      /\ UNCHANGED <<candidates, walk, any_error>> /\ record = NoRecord
  BY DEF PrepareInput, GoTo, RunInv, PhaseInv
<1>3. SelectTypeOK'
  BY <1>1, <1>2 DEF SelectInv, SelectTypeOK
<1>4. WalkInv'
  BY <1>2 DEF SelectInv, WalkInv, NoTopicObserved, NoRecord
<1> QED
  BY <1>3, <1>4 DEF SelectInv

LEMMA GateKeepsSelection ==
  ASSUME RunInv, SelectInv, ConfigGate
  PROVE  SelectInv'
<1>1. PICK readable \in BOOLEAN, reference \in BOOLEAN :
        LET received == IF readable THEN selection ELSE FailedSelection
            missing == IF mode = "calibration"
                       THEN MissingForCalibration(config) # {} \/ ~reference
                       ELSE MissingForProduction(config) # {}
        IN /\ stage = "config"
           /\ selection' = received
           /\ \/ /\ missing
                 /\ SystemFailure("missing_configuration")
                 /\ candidates' = candidates
              \/ /\ ~missing /\ received.status = "failed"
                 /\ SystemFailure("input_validation")
                 /\ candidates' = candidates
              \/ /\ ~missing /\ received.status = "ok"
                 /\ GoTo("walk")
                 /\ candidates' = RankCandidates(received.units)
           /\ UNCHANGED <<config, mode, walk, any_error, looping, money>>
  BY DEF ConfigGate
<1>2. /\ selection' \in Selection /\ record = NoRecord /\ walk = <<>> /\ any_error = FALSE
      /\ UNCHANGED <<config, mode, walk, any_error>> /\ record \in RunRecord
      /\ candidates \in Seq(Candidate)
  BY <1>1, FailedSelectionType DEF SelectInv, SelectTypeOK, WalkInv, RunInv, PhaseInv
<1>3. walk' = <<>> /\ walk' \in Seq(WalkResults) /\ any_error' = FALSE
  BY <1>2
<1>4. ASSUME NEW kind \in FailureKinds, SystemFailure(kind), candidates' = candidates
      PROVE  SelectInv'
  <2>1. stage' = "done" /\ record' \in RunRecord /\ record'.observable = "SYSTEM_FAILURE"
    BY <1>4, FailureRecord
  <2>2. SelectTypeOK'
    BY <1>2, <1>3, <1>4, <2>1 DEF SelectTypeOK
  <2>3. WalkInv'
    BY <2>1 DEF WalkInv, NoTopicObserved
  <2> QED
    BY <2>2, <2>3 DEF SelectInv
<1>5. ASSUME Configured, GoTo("walk"),
             candidates' = RankCandidates(selection'.units)
      PROVE  SelectInv'
  <2>1. stage' = "walk" /\ record' = NoRecord
    BY <1>2, <1>5 DEF GoTo
  <2>2. selection'.units \in Seq(Candidate)
    BY <1>2 DEF Selection
  <2>3. candidates' \in Seq(Candidate) /\ Len(candidates') = Len(selection'.units)
        /\ Len(candidates') \in Nat
    BY <1>5, <2>2, RankedAre
  <2>4. SelectTypeOK'
    BY <1>2, <1>3, <2>1, <2>3, NoRecordType DEF SelectTypeOK
  <2>5. Configured'
    BY <1>2, <1>5 DEF Configured, Required
  <2>6. Len(walk') = 0 /\ DOMAIN walk' = {}
    BY <1>3
  <2>7. NoTopicObserved'
    BY <2>1 DEF NoTopicObserved, NoRecord
  <2> QED
    BY <2>1, <2>3, <2>4, <2>5, <2>6, <2>7 DEF SelectInv, WalkInv
<1>6. "missing_configuration" \in FailureKinds /\ "input_validation" \in FailureKinds
  BY DEF FailureKinds
<1>7. CASE SystemFailure("missing_configuration") /\ candidates' = candidates
  BY <1>4, <1>6, <1>7
<1>8. CASE SystemFailure("input_validation") /\ candidates' = candidates
  BY <1>4, <1>6, <1>8
<1>9. \/ SystemFailure("missing_configuration") /\ candidates' = candidates
      \/ SystemFailure("input_validation") /\ candidates' = candidates
      \/ /\ Configured /\ GoTo("walk")
         /\ candidates' = RankCandidates(selection'.units)
  BY <1>1, GateAsks
<1> QED
  BY <1>5, <1>7, <1>8, <1>9

(* A candidate's entry and error flag. *)
LEMMA WalkGrows ==
  ASSUME RunInv, SelectInv, stage = "walk", Len(walk) < Len(candidates),
         NEW result \in WalkResults, Seen(result), any_error' \in BOOLEAN,
         stage' \in {"walk", "generate"}, record' = record,
         ~any_error' /\ stage' = "walk" => ~any_error /\ result \in Passable,
         UNCHANGED <<config, mode, selection, candidates>>
  PROVE  SelectInv'
<1>1. /\ walk \in Seq(WalkResults) /\ candidates \in Seq(Candidate)
      /\ record = NoRecord
  BY DEF SelectInv, SelectTypeOK, RunInv, PhaseInv
<1>2. /\ walk' \in Seq(WalkResults) /\ Len(walk') = Len(walk) + 1
      /\ Len(walk) \in Nat /\ Len(candidates) \in Nat
      /\ walk'[Len(walk')] = result
      /\ \A i \in DOMAIN walk' : i \in DOMAIN walk \/ i = Len(walk')
      /\ \A i \in DOMAIN walk : walk'[i] = walk[i]
  BY <1>1 DEF Seen
<1>3. SelectTypeOK'
  BY <1>2 DEF SelectInv, SelectTypeOK
<1>4. NoTopicObserved'
  BY <1>1 DEF NoTopicObserved, NoRecord
<1>5. Configured' <=> Configured
  BY DEF Configured, Required
<1>6. ASSUME stage' = "walk", ~any_error' PROVE \A i \in DOMAIN walk' : walk'[i] \in Passable
  <2>1. \A i \in DOMAIN walk : walk[i] \in Passable
    BY <1>6 DEF SelectInv, WalkInv
  <2> QED
    BY <1>2, <1>6, <2>1
<1>7. Len(candidates') = Len(selection'.units) /\ Configured
      /\ Len(walk') <= Len(candidates')
  BY <1>2 DEF SelectInv, WalkInv
<1>8. WalkInv'
  BY <1>4, <1>5, <1>6, <1>7 DEF WalkInv
<1> QED
  BY <1>3, <1>8 DEF SelectInv

LEMMA WalkKeepsSelection ==
  ASSUME RunInv, SelectInv, WalkCandidate
  PROVE  SelectInv'
<1>1. /\ stage = "walk" /\ Len(walk) < Len(candidates) /\ any_error \in BOOLEAN
      /\ UNCHANGED <<config, mode, selection, candidates>>
  BY DEF WalkCandidate, SelectInv, SelectTypeOK
<1>2. CASE Seen("visibility_check_error") /\ any_error' = TRUE /\ GoTo("walk")
  BY <1>1, <1>2, WalkGrows DEF GoTo, WalkResults
<1>3. CASE Seen("not_confirmed_public") /\ any_error' = any_error /\ GoTo("walk")
  BY <1>1, <1>3, WalkGrows DEF GoTo, WalkResults, Passable
<1>4. ASSUME NEW fetched \in FetchAnswers, FetchErrors(fetched),
             \/ /\ Usable(fetched)
                /\ Seen("chosen") /\ GoTo("generate")
             \/ /\ ~Usable(fetched)
                /\ Seen(IF fetched.errors THEN "fetch_error" ELSE "no_usable_fragment")
                /\ GoTo("walk")
      PROVE  SelectInv'
  <2>1. fetched.errors \in BOOLEAN
    BY HabrAssumption DEF HabrAssumption, Fetched
  <2>2. any_error' = (any_error \/ fetched.errors) /\ any_error' \in BOOLEAN
    BY <1>1, <1>4, <2>1 DEF FetchErrors
  <2>3. CASE Seen("chosen") /\ GoTo("generate")
    BY <1>1, <2>2, <2>3, WalkGrows DEF GoTo, WalkResults
  <2>4. CASE Seen("fetch_error") /\ fetched.errors /\ GoTo("walk")
    BY <1>1, <2>2, <2>4, WalkGrows DEF GoTo, WalkResults
  <2>5. CASE Seen("no_usable_fragment") /\ ~fetched.errors /\ GoTo("walk")
    BY <1>1, <2>2, <2>5, WalkGrows DEF GoTo, WalkResults, Passable
  <2> QED
    BY <1>4, <2>3, <2>4, <2>5
<1> QED
  BY <1>2, <1>3, <1>4 DEF WalkCandidate

LEMMA EndKeepsSelection ==
  ASSUME RunInv, SelectInv, EndOfWalk
  PROVE  SelectInv'
<1>1. /\ stage = "walk" /\ Len(walk) = Len(candidates)
      /\ UNCHANGED <<config, mode, selecting>>
  BY DEF EndOfWalk
<1>2. CASE SystemFailure("execution_error")
  <2>1. stage' = "done" /\ record' \in RunRecord /\ record'.observable = "SYSTEM_FAILURE"
    BY <1>2, FailureRecord DEF FailureKinds
  <2> QED
    BY <1>1, <2>1, OutcomeKeeps DEF Stages
<1>3. CASE ~(any_error \/ selection.technical_errors) /\ Finish("none", "NO_ELIGIBLE_TOPIC", "none")
  <2>1. stage' = "done" /\ record' \in RunRecord
    BY <1>3, OutcomeRecord
  <2>2. /\ UNCHANGED <<selection, candidates, walk, any_error>>
        /\ UNCHANGED <<config, mode>>
    BY <1>1 DEF selecting
  <2>3. /\ Len(walk) = Len(selection.units) /\ Configured
        /\ \A i \in DOMAIN walk : walk[i] \in Passable
        /\ ~selection.technical_errors
    BY <1>1, <1>3 DEF SelectInv, WalkInv
  <2>4. SelectTypeOK'
    BY <2>1, <2>2 DEF SelectInv, SelectTypeOK
  <2>5. NoTopicObserved'
    BY <2>2, <2>3, ConfiguredKept DEF NoTopicObserved, Passable
  <2> QED
    BY <2>1, <2>4, <2>5 DEF SelectInv, WalkInv
<1> QED
  BY <1>2, <1>3 DEF EndOfWalk

LEMMA LoopKeepsSelection ==
  ASSUME SelectInv, Generate \/ JudgeL1 \/ JudgeQ \/ JudgeReference \/ Crash
  PROVE  SelectInv'
<1> DEFINE Ends == /\ stage' \in Stages \ {"prepare", "config", "walk"}
                   /\ record' \in RunRecord
                   /\ record' = record \/ record'.observable # "NO_ELIGIBLE_TOPIC"
<1>1. UNCHANGED <<config, mode, selecting>>
  BY DEF Generate, JudgeL1, JudgeQ, JudgeReference, Crash
<1>2. record \in RunRecord
  BY DEF SelectInv, SelectTypeOK
<1>3. \A next \in {"l1", "q", "crashed"} : GoTo(next) => Ends
  BY <1>2 DEF GoTo, Stages
<1>4. \A kind \in FailureKinds : SystemFailure(kind) => Ends
  BY FailureRecord DEF Stages
<1>5. \A attempt : AfterAttempt(attempt) => Ends
  BY FinishedRound
<1>6. \A kind \in FailureKinds : \A checks : StoppedAttempt(checks, kind) => Ends
  BY <1>4 DEF StoppedAttempt
<1>7. Finish("none", "CALIBRATION_RECORDED", "none") => Ends
  BY OutcomeRecord DEF Stages
<1> HIDE DEF Ends
<1>8. Generate => Ends
  BY <1>3, <1>4, <1>5 DEF Generate
<1>9. JudgeL1 => Ends
  BY <1>3, <1>6 DEF JudgeL1
<1>10. JudgeQ => Ends
  BY <1>5, <1>6 DEF JudgeQ
<1>11. JudgeReference => Ends
  BY <1>3, <1>4, <1>7 DEF JudgeReference
<1>12. Crash => Ends
  BY <1>3 DEF Crash
<1>13. Ends
  BY <1>8, <1>9, <1>10, <1>11, <1>12
<1> QED
  BY <1>1, <1>13, OutcomeKeeps DEF Ends

LEMMA SelectStep == RunInv /\ SelectInv /\ [Next]_vars => SelectInv'
<1> SUFFICES ASSUME RunInv, SelectInv, [Next]_vars PROVE SelectInv'
  OBVIOUS
<1>1. CASE UNCHANGED vars
  BY <1>1 DEF vars, selecting, SelectInv, SelectTypeOK, WalkInv, NoTopicObserved, Configured, Required
<1>2. CASE PrepareInput
  BY <1>2, PrepareKeepsSelection
<1>3. CASE ConfigGate
  BY <1>3, GateKeepsSelection
<1>4. CASE WalkCandidate
  BY <1>4, WalkKeepsSelection
<1>5. CASE EndOfWalk
  BY <1>5, EndKeepsSelection
<1>6. CASE Generate \/ JudgeL1 \/ JudgeQ \/ JudgeReference \/ Crash
  BY <1>6, LoopKeepsSelection
<1> QED
  BY <1>1, <1>2, <1>3, <1>4, <1>5, <1>6 DEF Next, Step

LEMMA SelectInvariant == Spec => []SelectInv
<1>1. Init => SelectInv
  BY SelectInit
<1>2. RunInv /\ SelectInv /\ [Next]_vars => SelectInv'
  BY SelectStep
<1> QED
  BY <1>1, <1>2, RunInvariant, PTL DEF Spec

(***************************************************************************)
(* Every variable has its type: what stage 1 hands on, the ranked          *)
(* candidates and the walk, the attempts, the money and the record.        *)
(***************************************************************************)
THEOREM TypeCorrect == Spec => []TypeOK
<1>1. RunInv /\ SelectInv => TypeOK
  BY DEF RunInv, RunTypeOK, SelectInv, SelectTypeOK, Selection, L1Answers, TypeOK
<1> QED
  BY <1>1, RunInvariant, SelectInvariant, PTL

(***************************************************************************)
(* "No topic" is recorded only when every unit stage 1 handed on was       *)
(* looked at and passed over for a reason of its data, no check of either  *)
(* stage failed, and no configuration value was unset (topic.py,           *)
(* choose_topic; run_habr_draft.py; SPEC.md M9 requirement 56).            *)
(***************************************************************************)
THEOREM NoTopicIsObserved == Spec => []NoTopicObserved
<1>1. SelectInv => NoTopicObserved
  BY DEF SelectInv, WalkInv
<1> QED
  BY <1>1, SelectInvariant, PTL

-----------------------------------------------------------------------------
(* What select_within_cap keeps. *)

Fragment == [owner : BOOLEAN, clean : BOOLEAN, size : Nat]
FragmentSeqs == Seq(Fragment)

LEMMA FragmentsAre ==
  ASSUME NEW fragments \in FragmentSeqs
  PROVE  /\ Len(fragments) \in Nat /\ DOMAIN fragments = 1 .. Len(fragments)
         /\ \A n \in DOMAIN fragments : fragments[n].size \in Nat
<1>1. /\ Len(fragments) \in Nat /\ DOMAIN fragments = 1 .. Len(fragments)
      /\ \A n \in 1 .. Len(fragments) : fragments[n] \in Fragment
  BY DEF FragmentSeqs
<1>2. \A fragment \in Fragment : fragment.size \in Nat
  BY DEF Fragment
<1> QED
  BY <1>1, <1>2

NextUsed(fragments, n, used) ==
  used + (IF Fits(fragments[n], used) THEN fragments[n].size ELSE 0)

(* The running total is defined for every list of fragments. *)
TotalsTo(fragments, n, totals) ==
  totals = [m \in 0 .. n |->
              IF m = 0 THEN 0 ELSE NextUsed(fragments, m, totals[m - 1])]

LEMMA TotalsExist ==
  ASSUME NEW fragments \in FragmentSeqs
  PROVE  \E totals : TotalsTo(fragments, Len(fragments), totals)
<1> DEFINE N == Len(fragments)
           T == {n \in 0 .. N : \E totals : TotalsTo(fragments, n, totals)}
<1>1. N \in Nat
  BY DEF FragmentSeqs
<1>2. 0 \in T
  <2>1. TotalsTo(fragments, 0, [m \in 0 .. 0 |-> 0])
    BY DEF TotalsTo
  <2> QED
    BY <1>1, <2>1
<1>3. ASSUME NEW n \in 1 .. N, n - 1 \in T PROVE n \in T
  <2>1. PICK before : TotalsTo(fragments, n - 1, before)
    BY <1>3
  <2> DEFINE totals == [m \in 0 .. n |-> IF m < n THEN before[m]
                                         ELSE NextUsed(fragments, n, before[n - 1])]
  <2>2. \A m \in 0 .. n - 1 : totals[m] = before[m]
    BY <1>1
  <2>3. totals[n] = NextUsed(fragments, n, before[n - 1])
    BY <1>1
  <2>4. ASSUME NEW m \in 0 .. n
        PROVE  totals[m] = IF m = 0 THEN 0 ELSE NextUsed(fragments, m, totals[m - 1])
    <3>1. CASE m = n
      BY <1>1, <2>2, <2>3, <3>1
    <3>2. CASE m \in 0 .. n - 1
      <4>1. before[m] = IF m = 0 THEN 0 ELSE NextUsed(fragments, m, before[m - 1])
        BY <2>1, <3>2 DEF TotalsTo
      <4>2. m # 0 => m - 1 \in 0 .. n - 1
        BY <1>1, <3>2
      <4> QED
        BY <2>2, <3>2, <4>1, <4>2
    <3> QED
      BY <1>1, <3>1, <3>2
  <2>5. totals = [m \in 0 .. n |-> totals[m]]
    OBVIOUS
  <2> HIDE DEF totals
  <2>6. TotalsTo(fragments, n, totals)
    BY <2>4, <2>5 DEF TotalsTo
  <2> QED
    BY <2>6
<1> HIDE DEF T
<1>4. N \in T
  <2>1. 0 .. N \subseteq T
    BY <1>1, <1>2, <1>3, ReachesAll
  <2> QED
    BY <1>1, <2>1
<1> QED
  BY <1>4 DEF T

LEMMA UsedIsTotals ==
  ASSUME NEW fragments \in FragmentSeqs
  PROVE  TotalsTo(fragments, Len(fragments), UsedAfter(fragments))
<1>1. PICK totals : TotalsTo(fragments, Len(fragments), totals)
  BY TotalsExist
<1>2. UsedAfter(fragments) = CHOOSE used : TotalsTo(fragments, Len(fragments), used)
  BY DEF UsedAfter, TotalsTo, NextUsed
<1> QED
  BY <1>1, <1>2

(***************************************************************************)
(* For every list of fragments and every cap: what select_within_cap keeps *)
(* never exceeds the cap in total, and a fragment is left out only because *)
(* it would (fragments.py, select_within_cap).                             *)
(***************************************************************************)
THEOREM FragmentsStayWithinCap ==
  ASSUME NEW fragments \in FragmentSeqs
  PROVE  LET used == UsedAfter(fragments)
             kept == SelectWithinCap(fragments)
         IN /\ used \in [0 .. Len(fragments) -> 0 .. CAP]
            /\ used[0] = 0
            /\ \A n \in DOMAIN fragments :
                 IF n \in kept THEN used[n] = used[n - 1] + fragments[n].size
                 ELSE used[n] = used[n - 1] /\ used[n - 1] + fragments[n].size > CAP
<1> DEFINE N == Len(fragments)
           used == UsedAfter(fragments)
           kept == SelectWithinCap(fragments)
<1>1. /\ N \in Nat /\ CAP \in Nat /\ DOMAIN fragments = 1 .. N
      /\ \A n \in 1 .. N : fragments[n].size \in Nat
  BY FragmentsAre, SelectionAssumption DEF SelectionAssumption
<1>2. /\ DOMAIN used = 0 .. N /\ used[0] = 0
      /\ \A n \in 1 .. N : used[n] = NextUsed(fragments, n, used[n - 1])
  <2>1. used = [m \in 0 .. N |->
                  IF m = 0 THEN 0 ELSE NextUsed(fragments, m, used[m - 1])]
    BY UsedIsTotals DEF TotalsTo
  <2> HIDE DEF used, N
  <2> QED
    BY <1>1, <2>1
<1>3. kept = {n \in 1 .. N : Fits(fragments[n], used[n - 1])}
  BY <1>1 DEF SelectWithinCap
<1>4. used = [m \in 0 .. N |-> used[m]]
  BY UsedIsTotals DEF TotalsTo
<1> HIDE DEF used, N, kept
<1> DEFINE T == {n \in 0 .. N : used[n] \in 0 .. CAP}
<1>5. 0 \in T
  BY <1>1, <1>2
<1>6. ASSUME NEW n \in 1 .. N, n - 1 \in T PROVE n \in T
  <2>1. used[n - 1] \in 0 .. CAP /\ fragments[n].size \in Nat
    BY <1>1, <1>6
  <2>2. used[n] = IF used[n - 1] + fragments[n].size <= CAP
                  THEN used[n - 1] + fragments[n].size ELSE used[n - 1] + 0
    BY <1>2 DEF NextUsed, Fits
  <2>3. used[n] \in 0 .. CAP
    BY <1>1, <2>1, <2>2
  <2> QED
    BY <1>1, <2>3
<1>7. \A n \in 0 .. N : used[n] \in 0 .. CAP
  <2> HIDE DEF T
  <2>1. 0 .. N \subseteq T
    BY <1>1, <1>5, <1>6, ReachesAll
  <2> QED
    BY <2>1 DEF T
<1>8. used \in [0 .. N -> 0 .. CAP]
  BY <1>4, <1>7
<1>9. ASSUME NEW n \in 1 .. N
      PROVE  IF n \in kept THEN used[n] = used[n - 1] + fragments[n].size
             ELSE used[n] = used[n - 1] /\ used[n - 1] + fragments[n].size > CAP
  <2>1. n - 1 \in 0 .. N
    BY <1>1
  <2>2. used[n - 1] \in Nat /\ fragments[n].size \in Nat
    BY <1>1, <1>7, <2>1
  <2>3. n \in kept <=> used[n - 1] + fragments[n].size <= CAP
    BY <1>3 DEF Fits
  <2>4. used[n] = used[n - 1] + (IF n \in kept THEN fragments[n].size ELSE 0)
    BY <1>2, <1>3 DEF NextUsed
  <2> QED
    BY <1>1, <2>2, <2>3, <2>4
<1> QED
  BY <1>1, <1>2, <1>8, <1>9 DEF used, kept, N

(* None is kept exactly when each alone exceeds the cap. *)
LEMMA SomeFragmentIsKept ==
  ASSUME NEW fragments \in FragmentSeqs
  PROVE  SelectWithinCap(fragments) = {} <=>
           \A n \in DOMAIN fragments : fragments[n].size > CAP
<1> DEFINE N == Len(fragments)
           used == UsedAfter(fragments)
           kept == SelectWithinCap(fragments)
<1>1. /\ N \in Nat /\ CAP \in Nat /\ DOMAIN fragments = 1 .. N
      /\ \A n \in 1 .. N : fragments[n].size \in Nat
  BY FragmentsAre, SelectionAssumption DEF SelectionAssumption
<1>2. kept = {n \in 1 .. N : used[n - 1] + fragments[n].size <= CAP}
  BY <1>1 DEF SelectWithinCap, Fits
<1>3. /\ \A n \in 0 .. N : used[n] \in 0 .. CAP
      /\ used[0] = 0
      /\ \A n \in 1 .. N : n \notin kept => used[n] = used[n - 1]
  BY <1>1, FragmentsStayWithinCap
<1> HIDE DEF N, used, kept
<1>4. ASSUME kept = {} PROVE \A n \in 1 .. N : fragments[n].size > CAP
  <2> DEFINE T == {n \in 0 .. N : used[n] = 0}
  <2>1. 0 \in T /\ \A n \in 1 .. N : n - 1 \in T => n \in T
    BY <1>1, <1>3, <1>4
  <2> HIDE DEF T
  <2>2. 0 .. N \subseteq T
    BY <1>1, <2>1, ReachesAll
  <2> SUFFICES ASSUME NEW n \in 1 .. N PROVE fragments[n].size > CAP
    OBVIOUS
  <2>3. n - 1 \in 0 .. N
    BY <1>1
  <2>4. used[n - 1] = 0
    BY <2>2, <2>3 DEF T
  <2> QED
    BY <1>1, <1>2, <1>4, <2>4
<1>5. ASSUME \A n \in 1 .. N : fragments[n].size > CAP PROVE kept = {}
  <2> SUFFICES ASSUME NEW n \in 1 .. N, used[n - 1] + fragments[n].size <= CAP PROVE FALSE
    BY <1>2
  <2>1. n - 1 \in 0 .. N
    BY <1>1
  <2>2. used[n - 1] \in 0 .. CAP
    BY <1>3, <2>1
  <2> QED
    BY <1>1, <1>5, <2>2
<1> QED
  BY <1>1, <1>4, <1>5 DEF kept, N

(***************************************************************************)
(* For every answer of GitHub and every cap: a candidate without an error  *)
(* is passed over for its fragments exactly when no admitted file of its   *)
(* commits fits within the cap by itself; what came before one never       *)
(* crowds it out (fragments.py, select_within_cap; topic.py, choose_topic).*)
(***************************************************************************)
THEOREM UsableIfAnyFragmentFits ==
  ASSUME NEW fetched \in Fetched
  PROVE  Usable(fetched) <=>
           \E n \in DOMAIN fetched.files :
             Admitted(fetched.files[n]) /\ fetched.files[n].size <= CAP
<1> DEFINE files == fetched.files
           admitted == {n \in DOMAIN files : Admitted(files[n])}
           fragments == Fragments(fetched)
<1>1. files \in Seq(Fragment)
  BY DEF Fetched, Fragment
<1>2. fragments = Kept(files, admitted)
  BY DEF Fragments
<1>3. admitted \in SUBSET DOMAIN files
  OBVIOUS
<1> HIDE DEF files, admitted, fragments
<1>4. /\ fragments \in Seq(Fragment)
      /\ \A n \in DOMAIN fragments : \E i \in admitted : fragments[n] = files[i]
      /\ \A i \in admitted : \E n \in DOMAIN fragments : fragments[n] = files[i]
  BY <1>1, <1>2, <1>3, KeptSelects
<1>5. Usable(fetched) <=> ~ \A n \in DOMAIN fragments : fragments[n].size > CAP
  BY <1>4, SomeFragmentIsKept DEF Usable, FragmentSeqs, fragments
<1>6. /\ CAP \in Nat
      /\ \A n \in DOMAIN fragments : fragments[n].size \in Nat
  BY <1>4, FragmentsAre, SelectionAssumption DEF SelectionAssumption, FragmentSeqs
<1>7. Usable(fetched) <=> \E n \in DOMAIN fragments : fragments[n].size <= CAP
  BY <1>5, <1>6
<1>8. Usable(fetched) <=> \E i \in admitted : files[i].size <= CAP
  BY <1>4, <1>7
<1> QED
  BY <1>8 DEF admitted, files

===============================================================================
