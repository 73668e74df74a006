---------------------------- MODULE StrategyLayer ----------------------------
(***************************************************************************)
(* The Strategy Layer's deterministic half: the Collector adapter's        *)
(* integrity check and brief adaptation (strategy_layer/adapters/          *)
(* collector.py), the Stage 1 pre-filter and gate (pre_filter.py) and the  *)
(* Stage 2 treatment of one claim (framing.py, derivation_kind.py).        *)
(*                                                                         *)
(* Pure operators; the modules that step through a run extend this one.    *)
(* Commit subjects are kept as values tagged with the repository they      *)
(* belong to, because attribution is what the properties are about;        *)
(* diffstats, file lists, wording and details are left out.                *)
(***************************************************************************)
EXTENDS Naturals, Sequences

CONSTANTS
  Repos,     (* Repository directory names Collector scans.                *)
  Subjects   (* Commit subjects.                                           *)

DAILY_BRIEF_SCHEMA_VERSION == 3

CorroborationStatuses ==
  {"corroborated", "disputed", "unsubstantiated", "pending", "not_applicable"}

DerivationKinds == {"restatement", "aggregation", "evaluation", "causal_claim"}

Message == [repo : Repos, subject : Subjects]

(***************************************************************************)
(* One per_repo entry of a daily brief.  head and branch say whether       *)
(* head_sha and branch were recorded.                                      *)
(***************************************************************************)
Entry == [repo : Repos, head : BOOLEAN, branch : BOOLEAN, commits : Nat]

(* A daily brief: its schema version, its per_repo list in order, and its  *)
(* commit_messages, each attributed to a repository.                       *)
Brief == [schema : Nat, per_repo : Seq(Entry), messages : SUBSET Message]

(***************************************************************************)
(* GitHub's answer to one compare request: the HTTP status (0 stands for a *)
(* request that failed), and for a 200 the compare status and behind_by.   *)
(***************************************************************************)
CompareStatuses == {"identical", "ahead", "behind", "diverged"}

Answer == [http : Nat, status : CompareStatuses, behind_by : Nat]

(***************************************************************************)
(* check_integrity: valid only for a recorded head_sha and branch, a       *)
(* token, and a 200 answer that puts head_sha on the branch.  Everything   *)
(* else fails closed.                                                      *)
(***************************************************************************)
CheckIntegrity(entry, token, answer) ==
  IF /\ entry.head
     /\ entry.branch
     /\ token
     /\ answer.http = 200
     /\ answer.behind_by = 0
     /\ answer.status \in {"identical", "ahead"}
  THEN "valid"
  ELSE "invalid"

(***************************************************************************)
(* A CanonicalUnit, reduced to what is read after the adapter boundary.    *)
(***************************************************************************)
Unit == [repo : Repos, integrity : {"valid", "invalid"},
         corroboration : CorroborationStatuses, commits : Nat,
         messages : SUBSET Message]

(* A wrong MessagesByRepo: the day's whole message list for every unit.    *)
MessagesOfBrief(brief, repo) == brief.messages

(* _messages_by_repo: a repository's own slice of the brief's messages.    *)
MessagesByRepo(brief, repo) == {m \in brief.messages : m.repo = repo}

(***************************************************************************)
(* adapt_daily_brief: one unit per per_repo entry.  A brief of another     *)
(* schema is not interpreted: every unit is invalid, with no messages and  *)
(* no API call.  corroboration is "not_applicable" in this adapter; it is  *)
(* a parameter because the code after the adapter accepts every status.    *)
(***************************************************************************)
AdaptDailyBrief(brief, token, answers, corroboration) ==
  LET supported == brief.schema = DAILY_BRIEF_SCHEMA_VERSION IN
  [i \in DOMAIN brief.per_repo |->
     LET entry == brief.per_repo[i] IN
     [repo |-> entry.repo,
      integrity |-> IF supported
                    THEN CheckIntegrity(entry, token, answers[entry.repo])
                    ELSE "invalid",
      corroboration |-> corroboration,
      commits |-> entry.commits,
      messages |-> IF supported THEN MessagesByRepo(brief, entry.repo) ELSE {}]]

(* A wrong AdaptManifest: an entry from before head_sha was recorded is    *)
(* trusted.                                                                *)
AdaptManifestTrusting(manifest, token, answers) ==
  [i \in DOMAIN manifest |->
     [repo |-> manifest[i].repo,
      integrity |-> IF manifest[i].head
                    THEN CheckIntegrity(manifest[i], token, answers[manifest[i].repo])
                    ELSE "valid",
      corroboration |-> "not_applicable",
      commits |-> manifest[i].commits,
      messages |-> {}]]

(* adapt_manifest: one unit per entry of a weekly manifest, which has no   *)
(* schema version and no commit messages.                                  *)
AdaptManifest(manifest, token, answers) ==
  [i \in DOMAIN manifest |->
     [repo |-> manifest[i].repo,
      integrity |-> CheckIntegrity(manifest[i], token, answers[manifest[i].repo]),
      corroboration |-> "not_applicable",
      commits |-> manifest[i].commits,
      messages |-> {}]]

(* A wrong ClassifyUnit: only corroborated units are included. *)
ClassifyUnitCorroborated(unit) ==
  IF unit.integrity = "valid" /\ unit.corroboration = "corroborated"
  THEN "include"
  ELSE "exclude"

(* classify_unit: integrity is a hard floor, checked first. *)
ClassifyUnit(unit) ==
  IF /\ unit.integrity = "valid"
     /\ unit.corroboration \in {"corroborated", "not_applicable"}
  THEN "include"
  ELSE "exclude"

(* check_gate_condition: gated iff there are units and none is included. *)
Gated(units) ==
  /\ units # <<>>
  /\ \A i \in DOMAIN units : ClassifyUnit(units[i]) = "exclude"

(* classify_gate_block: with the gate blocked, does an excluded unit fail  *)
(* the integrity check?                                                    *)
IntegrityViolations(units) ==
  {i \in DOMAIN units : /\ ClassifyUnit(units[i]) = "exclude"
                        /\ units[i].integrity = "invalid"}

(* A wrong Warranted: a restatement needs two units as well. *)
WarrantedPlural(kind, corroboration, unit_count, has_rule) ==
  kind \in {"restatement", "aggregation"} /\ unit_count > 1

(***************************************************************************)
(* check_derivation_warranted, as the set of arguments it warrants.        *)
(***************************************************************************)
Warranted(kind, corroboration, unit_count, has_rule) ==
  \/ kind = "restatement"
  \/ kind = "aggregation" /\ unit_count > 1
  \/ kind = "evaluation" /\ (corroboration = "corroborated" \/ has_rule)
  \/ kind = "causal_claim" /\ corroboration = "corroborated"

(***************************************************************************)
(* build_claim_treatment.  A decision is what Stage 2 passes in: the final *)
(* classification it asks for ("default" when omitted), whether it         *)
(* supplies a framing, an override reason and a status snapshot, and the   *)
(* declared derivation_kind ("none" when omitted).  TreatmentRaises is the *)
(* function's three ValueErrors, in order.                                 *)
(***************************************************************************)
Decision == [final : {"default", "include", "exclude"}, framing : BOOLEAN,
             override_reason : BOOLEAN, kind : DerivationKinds \cup {"none"},
             snapshot : BOOLEAN, has_rule : BOOLEAN]

RequestedFinal(pre, decision) ==
  IF decision.final = "default" THEN pre ELSE decision.final

TreatmentRaises(pre, decision) ==
  LET final == RequestedFinal(pre, decision) IN
  \/ final # pre /\ ~decision.override_reason
  \/ final = "include" /\ ~decision.framing
  \/ final = "include" /\ decision.kind # "none" /\ ~decision.snapshot

Refused(pre, decision, corroboration, unit_count) ==
  /\ RequestedFinal(pre, decision) = "include"
  /\ decision.kind # "none"
  /\ ~Warranted(decision.kind, corroboration, unit_count, decision.has_rule)

BuildClaimTreatment(unit, decision, unit_count) ==
  LET pre == ClassifyUnit(unit)
      requested == RequestedFinal(pre, decision)
      refused == Refused(pre, decision, unit.corroboration, unit_count)
  IN [repo |-> unit.repo,
      pre |-> pre,
      final |-> IF refused THEN "exclude" ELSE requested,
      framing |-> requested = "include" /\ ~refused,
      reason |-> CASE refused -> "unwarranted"
                   [] ~refused /\ requested # pre -> "override"
                   [] ~refused /\ requested = pre /\ pre = "exclude" -> "pre_filter"
                   [] OTHER -> "none"]

(* derive_overrides: the positions whose final classification moved. *)
DeriveOverrides(treatments) ==
  {i \in DOMAIN treatments : treatments[i].final # treatments[i].pre}

==============================================================================
