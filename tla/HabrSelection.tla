---------------------------- MODULE HabrSelection ----------------------------
(***************************************************************************)
(* What a Habr draft run decides before any paid call: the owner's         *)
(* configuration (habr_draft/config.py), the selection input stage 1 hands *)
(* on (prepare.py), the order of the candidates (topic.py) and which       *)
(* fragments of a fetched commit list are usable (fragments.py).           *)
(*                                                                         *)
(* Pure operators.  A configuration value is set or unset; a fragment is   *)
(* its size; texts, paths, identities and shas are left out.               *)
(***************************************************************************)
EXTENDS StrategyLayer, FiniteOrder

CONSTANTS
  NameOrder,  (* The position of each repository in name order.            *)
  CAP         (* max_fragment_chars_per_attempt.                           *)

ASSUME SelectionAssumption ==
  /\ NameOrder \in [Repos -> Nat]
  /\ CAP \in Nat

(***************************************************************************)
(* The configuration.  budget and a_rules stand for their groups of values *)
(* and are TRUE when every value of the group is set.  allow_list says     *)
(* what it holds for a repository and its branch.                          *)
(***************************************************************************)
Config == [paid_calls_enabled : BOOLEAN, budget : BOOLEAN, q_threshold : BOOLEAN,
           a_rules : BOOLEAN, owner_identities : BOOLEAN,
           owner_authorization : BOOLEAN, calibration_approval : BOOLEAN,
           allow_list : [Repos -> {"absent", "listed", "cleared"}]]

Unset(config, names) == {n \in names : ~config[n]}

MissingForPaidCalls(config) == Unset(config, {"paid_calls_enabled", "budget"})

MissingForSelection(config) ==
  Unset(config, {"owner_identities"}) \cup
  {n \in {"cleared_repository"} : \A repo \in Repos : config.allow_list[repo] # "cleared"}

MissingForProduction(config) ==
  MissingForPaidCalls(config) \cup MissingForSelection(config)
    \cup Unset(config, {"q_threshold", "a_rules", "owner_authorization"})

(* A wrong MissingForCalibration: the owner's approval is not asked for. *)
MissingWithoutApproval(config) ==
  MissingForPaidCalls(config) \cup MissingForSelection(config)

MissingForCalibration(config) ==
  MissingForPaidCalls(config) \cup MissingForSelection(config)
    \cup Unset(config, {"calibration_approval"})

(***************************************************************************)
(* prepare(): only an integrity-valid unit with commits, allow-listed on   *)
(* its branch and cleared, becomes a candidate.  weight stands for the     *)
(* ranking basis above the name: stated reasons, commits, files.           *)
(***************************************************************************)
Candidate == [repo : Repos, weight : Nat]
Selection == [status : {"ok", "failed"}, units : Seq(Candidate),
              technical_errors : BOOLEAN]

FailedSelection == [status |-> "failed", units |-> <<>>, technical_errors |-> FALSE]

PrepareDecision(unit) ==
  LET included == ClassifyUnit(unit) = "include" IN
  [final |-> "default", framing |-> included, override_reason |-> FALSE,
   kind |-> IF included THEN "restatement" ELSE "none", snapshot |-> included,
   has_rule |-> FALSE]

Included(unit) == BuildClaimTreatment(unit, PrepareDecision(unit), 1).final = "include"

Eligible(unit, config) ==
  /\ Included(unit)
  /\ unit.commits > 0 /\ unit.messages # {}
  /\ config.allow_list[unit.repo] = "cleared"

(* integrity_unverifiable_cause, with the token set: GitHub was asked and  *)
(* gave no verdict.                                                        *)
Unverifiable(entry, answer) == entry.head /\ entry.branch /\ answer.http # 200

Prepare(brief, answers, config) ==
  LET units == AdaptDailyBrief(brief, TRUE, answers, "not_applicable")
      eligible == Kept(units, {i \in DOMAIN units : Eligible(units[i], config)})
  IN [status |-> "ok",
      units |-> [i \in DOMAIN eligible |->
                   [repo |-> eligible[i].repo, weight |-> eligible[i].commits]],
      technical_errors |->
        \E i \in DOMAIN brief.per_repo :
          LET entry == brief.per_repo[i] IN
          /\ Unverifiable(entry, answers[entry.repo])
          /\ config.allow_list[entry.repo] # "absent"]

(***************************************************************************)
(* rank_candidates: by weight, heaviest first, then by name; the sort is   *)
(* stable.                                                                 *)
(***************************************************************************)
Before(candidates, i, j) ==
  LET u == candidates[i]
      v == candidates[j]
  IN \/ u.weight > v.weight
     \/ u.weight = v.weight /\ NameOrder[u.repo] < NameOrder[v.repo]
     \/ u.weight = v.weight /\ NameOrder[u.repo] = NameOrder[v.repo] /\ i < j

RankCandidates(candidates) ==
  LET positions == DOMAIN candidates
      ranking == {pair \in positions \X positions : Before(candidates, pair[1], pair[2])}
  IN [k \in positions |-> candidates[InOrder(positions, ranking)[k]]]

(***************************************************************************)
(* What fetch_fragments returns for a candidate, from GitHub's answers: a  *)
(* technical error of some commit, and the files of the commits it could   *)
(* read.  owner says the commit's author is an owner identity; clean that  *)
(* the file has a patch, is not denylisted and matches no secret pattern.  *)
(***************************************************************************)
Fetched == [errors : BOOLEAN,
            files : Seq([owner : BOOLEAN, clean : BOOLEAN, size : Nat])]

Admitted(file) == file.clean /\ file.owner

Fragments(fetched) ==
  Kept(fetched.files, {n \in DOMAIN fetched.files : Admitted(fetched.files[n])})

(***************************************************************************)
(* select_within_cap: in order, a fragment is kept while the total stays   *)
(* within the cap; a smaller one after it may still fit.                   *)
(***************************************************************************)
Fits(fragment, used) == used + fragment.size <= CAP

UsedAfter(fragments) ==
  LET used[n \in 0 .. Len(fragments)] ==
        IF n = 0 THEN 0
        ELSE used[n - 1] + (IF Fits(fragments[n], used[n - 1]) THEN fragments[n].size ELSE 0)
  IN used

SelectWithinCap(fragments) ==
  {n \in DOMAIN fragments : Fits(fragments[n], UsedAfter(fragments)[n - 1])}

==============================================================================
