---------------------------- MODULE StrategyPilot ----------------------------
(***************************************************************************)
(* The Strategy Layer's two runs over a weekly manifest                    *)
(* (strategy_layer/run_collector_pilot.py, run_habr_pilot.py,              *)
(* write_verdict.py).  Both adapt the manifest, classify its units, frame  *)
(* the included ones as restatements and write verdict_<run_id>.json,      *)
(* gated or not; run_habr_pilot then builds a digest for Habr from what is *)
(* included (author/authoring_context.py, habr_verdict_to_story.py,        *)
(* habr_weekly_author.py).                                                 *)
(*                                                                         *)
(* A framing is a fixed sentence around the repository's name and branch:  *)
(* whether looks_russian() accepts the Russian one depends on how long     *)
(* those Latin names are, and is given per repository.                     *)
(***************************************************************************)
EXTENDS LinkedInAuthor, RunClock, ToolFile, FiniteOrder

CONSTANTS
  Manifests,       (* The manifests of Collector, as sequences of entries. *)
  ManifestAnswers, (* GitHub's answers, by repository.                     *)
  RussianRepos     (* Those whose framing looks_russian() accepts.         *)

ASSUME PilotAssumption ==
  /\ Manifests \subseteq Seq(Entry)
  /\ ManifestAnswers \subseteq [Repos -> Answer]
  /\ RussianRepos \subseteq Repos

Scripts == {"collector", "habr"}

VARIABLES
  pilot,         (* the running script                                     *)
  verdicts,      (* strategy_layer/output/verdict_<run_id>.json            *)
  digests        (* history: the digests that were printed, with their     *)
                 (* run_id and the repositories GitHub confirmed           *)

strategyVars == <<pilot, verdicts, digests>>

NoPilot == [stage |-> "idle"]

Treatment == [repo : Repos, pre : {"include", "exclude"}, final : {"include", "exclude"},
              framing : BOOLEAN,
              reason : {"unwarranted", "override", "pre_filter", "none"}]

Pilot == {NoPilot} \cup
  [stage : {"create", "write", "digest"}, script : Scripts, run_id : Stamps,
   units : Seq(Unit), treatments : Seq(Treatment), confirmed : SUBSET Repos]

VerdictBody == [status : {"normal", "gated"}, claim_treatments : Seq(Treatment),
                overrides : SUBSET Nat]

StrategyTypeOK ==
  /\ pilot \in Pilot
  /\ verdicts \in [Stamps ->
       {Absent, Torn} \cup [state : {"whole"}, body : VerdictBody]]
  /\ digests \subseteq [run_id : Stamps, sections : Seq(Repos), confirmed : SUBSET Repos]

StrategyInit ==
  /\ pilot = NoPilot
  /\ verdicts = [stamp \in Stamps |-> Absent]
  /\ digests = {}

-----------------------------------------------------------------------------
(* An included unit is framed as a restatement with a snapshot; another    *)
(* has no framing.                                                         *)
Restatement == [final |-> "default", framing |-> TRUE, override_reason |-> FALSE,
                kind |-> "restatement", snapshot |-> TRUE, has_rule |-> FALSE]
NoFraming == [Restatement EXCEPT !.framing = FALSE, !.kind = "none", !.snapshot = FALSE]

PilotTreatments(units) ==
  [i \in DOMAIN units |-> BuildClaimTreatment(units[i],
     IF ClassifyUnit(units[i]) = "include" THEN Restatement ELSE NoFraming, 1)]

(* build_verdict *)
BuildVerdict(units, treatments) ==
  [status |-> IF Gated(units) THEN "gated" ELSE "normal",
   claim_treatments |-> treatments,
   overrides |-> DeriveOverrides(treatments)]

(* The repositories whose recorded head GitHub placed on their branch. *)
Confirmed(manifest, token, answers) ==
  {repo \in Repos :
     /\ token
     /\ \E i \in DOMAIN manifest :
          manifest[i].repo = repo /\ manifest[i].head /\ manifest[i].branch
     /\ answers[repo].http = 200
     /\ answers[repo].status \in {"identical", "ahead"}}

(* A claim id is the repository's: of a repository listed more than once,  *)
(* the last entry is judged for all of them.                               *)
JudgedValid(units, repo) ==
  \E i \in DOMAIN units :
    /\ units[i].repo = repo /\ units[i].integrity = "valid"
    /\ \A j \in DOMAIN units : units[j].repo = repo => j <= i

(* pre_filter_results, looked up for each unit. *)
ByClaim(units) ==
  [i \in DOMAIN units |-> [units[i] EXCEPT !.integrity =
     IF JudgedValid(units, units[i].repo) THEN "valid" ELSE "invalid"]]

(* The run_id is stamped, and the existence check of write_outputs is      *)
(* passed.                                                                 *)
StartPilot(script, manifest, token, answers, stamp) ==
  /\ pilot.stage = "idle"
  /\ Stamp(stamp)
  /\ ~Exists(verdicts[stamp])
  /\ LET units == ByClaim(AdaptManifest(manifest, token, answers)) IN
     pilot' = [stage |-> "create", script |-> script, run_id |-> stamp,
               units |-> units, treatments |-> PilotTreatments(units),
               confirmed |-> Confirmed(manifest, token, answers)]
  /\ UNCHANGED <<verdicts, digests>>

(* FileExistsError: another run had the same second. *)
PilotRefused(stamp) ==
  /\ pilot.stage = "idle"
  /\ Stamp(stamp)
  /\ Exists(verdicts[stamp])
  /\ UNCHANGED strategyVars

CreateVerdictFile ==
  /\ pilot.stage = "create"
  /\ verdicts' = [verdicts EXCEPT ![pilot.run_id] = Torn]
  /\ pilot' = [pilot EXCEPT !.stage = "write"]
  /\ UNCHANGED <<digests, clock>>

WriteVerdictFile ==
  /\ pilot.stage = "write"
  /\ verdicts' = [verdicts EXCEPT ![pilot.run_id] =
                    Whole(BuildVerdict(pilot.units, pilot.treatments))]
  /\ pilot' = IF pilot.script = "habr" THEN [pilot EXCEPT !.stage = "digest"] ELSE NoPilot
  /\ UNCHANGED <<digests, clock>>

(* build_habr_digest: the repositories of the included units whose framing *)
(* is Russian, in the units' order.                                        *)
DigestSections(units, treatments) ==
  Kept([i \in DOMAIN units |-> units[i].repo],
       {i \in Contexts(units, treatments) :
          treatments[i].framing /\ units[i].repo \in RussianRepos})

PrintDigest ==
  /\ pilot.stage = "digest"
  /\ DigestSections(pilot.units, pilot.treatments) # <<>>
  /\ digests' = digests \cup {[run_id |-> pilot.run_id,
                               sections |-> DigestSections(pilot.units, pilot.treatments),
                               confirmed |-> pilot.confirmed]}
  /\ pilot' = NoPilot
  /\ UNCHANGED <<verdicts, clock>>

(* ValueError: nothing survives.  The verdict stays. *)
DigestRefused ==
  /\ pilot.stage = "digest"
  /\ DigestSections(pilot.units, pilot.treatments) = <<>>
  /\ pilot' = NoPilot
  /\ UNCHANGED <<verdicts, digests, clock>>

PilotDies ==
  /\ pilot.stage # "idle"
  /\ pilot' = NoPilot
  /\ UNCHANGED <<verdicts, digests, clock>>

StrategyStep == CreateVerdictFile \/ WriteVerdictFile \/ PrintDigest \/ DigestRefused

-----------------------------------------------------------------------------
(***************************************************************************)
(* A digest speaks of repositories only that GitHub confirmed in the run   *)
(* and that the run's verdict, which is whole by then, includes with a     *)
(* framing; a verdict is gated exactly when it has claims and includes     *)
(* none of them, and it has no overrides (run_habr_pilot.py,               *)
(* write_verdict.py, habr_verdict_to_story.py).                            *)
(***************************************************************************)
IncludedIn(verdict) ==
  {verdict.claim_treatments[i].repo : i \in
     {j \in DOMAIN verdict.claim_treatments :
        /\ verdict.claim_treatments[j].final = "include"
        /\ verdict.claim_treatments[j].framing}}

DigestOfVerdict ==
  /\ \A digest \in digests :
       /\ digest.sections # <<>>
       /\ IsWhole(verdicts[digest.run_id])
       /\ \A i \in DOMAIN digest.sections :
            /\ digest.sections[i] \in digest.confirmed
            /\ digest.sections[i] \in IncludedIn(verdicts[digest.run_id].body)
  /\ \A stamp \in Stamps : IsWhole(verdicts[stamp]) =>
       LET verdict == verdicts[stamp].body IN
       /\ verdict.status = "gated" <=>
            verdict.claim_treatments # <<>> /\ IncludedIn(verdict) = {}
       /\ verdict.overrides = {}

==============================================================================
