----------------------------- MODULE HabrOutcome -----------------------------
(***************************************************************************)
(* What the outcome of a Habr draft run promises (SPEC.md M9 requirements  *)
(* 48 and 55), apart from how the run gets there: at most three rounds in  *)
(* production and one in calibration; READY is the outcome of the round    *)
(* that passed every check and of nothing else; BLOCKED of the last of     *)
(* three rounds none of which passed; a round whose checks could not all   *)
(* be executed ends the run as SYSTEM_FAILURE.                             *)
(*                                                                         *)
(* "fail" is a round that failed a check, or one whose draft the output    *)
(* gate discarded (requirement 57) before any check was executed: the loop *)
(* blocks on both, where requirement 48 speaks of executed checks only.    *)
(***************************************************************************)
EXTENDS Naturals, Sequences

CONSTANTS MaxRounds

VARIABLES
  mode,     (* "production" or "calibration"                               *)
  rounds,   (* "pass", "fail" or "unfinished", per round                   *)
  outcome   (* "none" until the run has one                                *)

Init ==
  /\ mode \in {"production", "calibration"}
  /\ rounds = <<>>
  /\ outcome = "none"

Production == mode = "production"

NewRound(result) == rounds' = Append(rounds, result)

Pass ==
  /\ Production
  /\ NewRound("pass")
  /\ outcome' = "INTERNAL_DRAFT_READY_FOR_OWNER_REVIEW"

Fail ==
  /\ Production /\ Len(rounds) + 1 < MaxRounds
  /\ NewRound("fail")
  /\ outcome' = outcome

Block ==
  /\ Production /\ Len(rounds) + 1 = MaxRounds
  /\ NewRound("fail")
  /\ outcome' = "BLOCKED"

(* A round some check of which could not be executed; in calibration only  *)
(* when it could not be for a technical reason.                            *)
Unfinished ==
  /\ NewRound("unfinished")
  /\ outcome' = "SYSTEM_FAILURE"

(* Calibration's one round, whatever its checks said. *)
RecordRound ==
  /\ ~Production /\ rounds = <<>>
  /\ \E result \in {"pass", "fail", "unfinished"} : NewRound(result)
  /\ outcome' = outcome

Abort ==
  /\ outcome' = "SYSTEM_FAILURE"
  /\ rounds' = rounds

Recorded ==
  /\ ~Production /\ Len(rounds) = 1
  /\ outcome' = "CALIBRATION_RECORDED"
  /\ rounds' = rounds

NoTopic ==
  /\ rounds = <<>>
  /\ outcome' = "NO_ELIGIBLE_TOPIC"
  /\ rounds' = rounds

Next ==
  /\ outcome = "none"
  /\ mode' = mode
  /\ \/ Pass \/ Fail \/ Block \/ Unfinished \/ RecordRound
     \/ Abort \/ Recorded \/ NoTopic

Spec == Init /\ [][Next]_<<mode, rounds, outcome>>

==============================================================================
