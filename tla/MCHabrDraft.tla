----------------------------- MODULE MCHabrDraft -----------------------------
(* Small instances of HabrDraft: two repositories, and the configurations, *)
(* briefs, GitHub answers and drafts that tell its branches apart.         *)
EXTENDS HabrDraft, TLC

CONSTANTS a, b, s1

MCNameOrder == (a :> 1 @@ b :> 2)

Complete ==
  [paid_calls_enabled |-> TRUE, budget |-> TRUE, q_threshold |-> TRUE,
   a_rules |-> TRUE, owner_identities |-> TRUE, owner_authorization |-> TRUE,
   calibration_approval |-> TRUE, allow_list |-> [r \in {a, b} |-> "cleared"]]

(* Everything set; a value of the checks not set; only calibration allowed *)
(* for; one repository cleared and the other listed; none cleared.         *)
MCConfigs ==
  { Complete,
    [Complete EXCEPT !.a_rules = FALSE],
    [Complete EXCEPT !.q_threshold = FALSE, !.owner_authorization = FALSE],
    [Complete EXCEPT !.calibration_approval = FALSE, !.allow_list[b] = "listed"],
    [Complete EXCEPT !.allow_list = (a :> "absent" @@ b :> "listed")] }

MCComplete == {Complete}

E(repo, head_sha, n) ==
  [repo |-> repo, head |-> head_sha, branch |-> TRUE, commits |-> n]
Said(repo) == [repo |-> repo, subject |-> s1]

(* Two busy repositories; the busier one second; one whose tip Collector   *)
(* could not resolve; a quiet day.                                         *)
MCBriefs ==
  { [schema |-> 3, per_repo |-> <<E(a, TRUE, 1), E(b, TRUE, 1)>>,
     messages |-> {Said(a), Said(b)}],
    [schema |-> 3, per_repo |-> <<E(a, TRUE, 1), E(b, TRUE, 2)>>,
     messages |-> {Said(a), Said(b)}],
    [schema |-> 3, per_repo |-> <<E(a, FALSE, 1), E(b, TRUE, 1)>>,
     messages |-> {Said(a), Said(b)}],
    [schema |-> 3, per_repo |-> <<E(a, TRUE, 0)>>, messages |-> {}] }

MCOneBrief == {brief \in MCBriefs : brief.per_repo[1].commits = 1
                                    /\ brief.per_repo[1].head
                                    /\ brief.per_repo[2].commits = 1}

(* Verified; moved since the brief; no answer. *)
MCAnswers ==
  { [http |-> 200, status |-> "identical", behind_by |-> 0],
    [http |-> 200, status |-> "diverged", behind_by |-> 1],
    [http |-> 500, status |-> "identical", behind_by |-> 0] }
MCVerified == {answer \in MCAnswers : answer.http = 200 /\ answer.behind_by = 0}

F(o, c, n) == [owner |-> o, clean |-> c, size |-> n]

(* A fragment over the cap before one that fits, of a fetch with an error; *)
(* nothing that may be used; an error and nothing else; only one too big.  *)
MCFetchAnswers ==
  { [errors |-> TRUE, files |-> <<F(TRUE, TRUE, 3), F(TRUE, TRUE, 2)>>],
    [errors |-> FALSE, files |-> <<F(FALSE, TRUE, 1), F(TRUE, FALSE, 1)>>],
    [errors |-> TRUE, files |-> <<>>],
    [errors |-> FALSE, files |-> <<F(TRUE, TRUE, 3)>>] }
MCUsable == {[errors |-> FALSE, files |-> <<F(TRUE, TRUE, 1)>>]}

D(s, e, l, r, q) ==
  [secret |-> s, encodable |-> e, cites |-> l, rules |-> r, requirements |-> q]

(* A clean draft; one that fails one check; one that fails two and has a   *)
(* match the scan does not see; one whose match the scan sees.             *)
MCDrafts ==
  { D("none", TRUE, TRUE, TRUE, TRUE), D("none", TRUE, FALSE, TRUE, TRUE),
    D("line_start", TRUE, TRUE, FALSE, FALSE), D("seen", TRUE, TRUE, TRUE, TRUE) }
MCUnencodable == { D("none", FALSE, TRUE, TRUE, TRUE) }
MCAnyDraft == MCDrafts \cup MCUnencodable
MCOneDraft == { D("none", TRUE, TRUE, TRUE, TRUE) }

==============================================================================
