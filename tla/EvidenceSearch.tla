---------------------------- MODULE EvidenceSearch ----------------------------
(***************************************************************************)
(* The search phase of an Evidence Package (evidence_package/driver.py,    *)
(* search_backend.py).  An interactive session takes the claims of the     *)
(* latest pilot run, makes one search for each under a budget for the      *)
(* whole run, and then may retry single claims with retry_search(), which  *)
(* is told how many requests were used and checks that number and the      *)
(* record's own.  Its records are in memory only.                          *)
(*                                                                         *)
(* A search is a call of search_fn, which answers, or raises for any       *)
(* reason.  Query texts, results and times are left out: a record says how *)
(* many lists of results it has.                                           *)
(***************************************************************************)
EXTENDS PilotOutput, FiniteOrder

CONSTANTS
  CLAIM_LIMIT,              (* load_claims' limit; 10 in the code.          *)
  MAX_REQUESTS_PER_CLAIM,
  RunBudgets,               (* The max_requests_per_run a session passes to *)
                            (* run_searches and retry_search; 20 by         *)
                            (* default.                                     *)
  Translated,               (* Atoms whose query QUERY_TRANSLATIONS_RU_EN   *)
                            (* has.                                         *)
  MaxRetries                (* Bound: retries of one session.               *)

ASSUME BudgetAssumption ==
  /\ CLAIM_LIMIT \in Nat
  /\ MAX_REQUESTS_PER_CLAIM \in Nat \ {0}
  /\ RunBudgets \subseteq Nat
  /\ Translated \subseteq Cards
  /\ MaxRetries \in Nat

(* status is "none" for a record that awaits the session's assessment. *)
SearchRecord == [claim : PilotRecord, requests_used : Nat, result_lists : Nat,
           status : {"none", "unverifiable", "pending"}]

Session == [stage : {"idle", "searching", "reviewing"}, claims : Seq(PilotRecord),
            max_requests_per_run : RunBudgets \cup {0}, use_translation : BOOLEAN,
            records : Seq(SearchRecord),
            requests_used_total : Nat, budget_exhausted : BOOLEAN,
            counts_failures : BOOLEAN, retries : 0 .. MaxRetries]

Searches == [of : Seq([made : Nat, raised : Nat]), made : Nat, uncounted : Nat]

VARIABLES
  session,      (* the running session                                     *)
  searches      (* history: searches made and, of those, retries that      *)
                (* raised, by record; all made, and all retries that       *)
                (* raised and were left out of the session's total         *)

searchVars == <<session, searches>>

(* counts_failures: whether the session adds a retry that raised to the    *)
(* total it passes to the next retry, which retry_search leaves to it.     *)
IdleSession == [stage |-> "idle", claims |-> <<>>, max_requests_per_run |-> 0,
                use_translation |-> FALSE,
                records |-> <<>>, requests_used_total |-> 0,
                budget_exhausted |-> FALSE, counts_failures |-> FALSE, retries |-> 0]

NoSearches == [of |-> <<>>, made |-> 0, uncounted |-> 0]

SearchInit ==
  /\ session = IdleSession
  /\ searches = NoSearches

-----------------------------------------------------------------------------
(* find_latest_pilot_run: whatever is in the newest run file. *)
RunStamps == {stamp \in Stamps : Exists(pilot_files[<<"run", stamp>>])}
LatestRun == pilot_files[<<"run", Max(RunStamps)>>]

(* load_claims *)
LoadClaims(records) ==
  LET claims == Kept(records, {i \in DOMAIN records :
                                 records[i].extraction.status = "claim"})
  IN SubSeq(claims, 1, Min({CLAIM_LIMIT, Len(claims)}))

OpenSession(budget, translate, counts_failures) ==
  /\ session.stage = "idle"
  /\ RunStamps # {}
  /\ IsWhole(LatestRun)
  /\ session' = [IdleSession EXCEPT !.stage = "searching",
                                    !.claims = LoadClaims(LatestRun.body),
                                    !.max_requests_per_run = budget,
                                    !.use_translation = translate,
                                    !.counts_failures = counts_failures]
  /\ searches' = NoSearches

(* FileNotFoundError, or the newest run file is torn and is no JSON. *)
OpenRaises ==
  /\ session.stage = "idle"
  /\ RunStamps # {} => ~IsWhole(LatestRun)
  /\ UNCHANGED searchVars

NextClaim == session.claims[Len(session.records) + 1]

ClaimsLeft ==
  /\ session.stage = "searching"
  /\ Len(session.records) < Len(session.claims)

(* translate_query: a query without a translation is a KeyError. *)
Translatable == session.use_translation => NextClaim.atom \in Translated

WithinRunBudget(used) == used < session.max_requests_per_run

NewRecord(status, used, lists) ==
  [claim |-> NextClaim, requests_used |-> used, result_lists |-> lists, status |-> status]

(* The budget is used up: the claim gets a pending record. *)
LeavePending ==
  /\ ClaimsLeft
  /\ Translatable
  /\ ~WithinRunBudget(session.requests_used_total)
  /\ session' = [session EXCEPT !.records = Append(@, NewRecord("pending", 0, 0)),
                                !.budget_exhausted = TRUE]
  /\ searches' = [searches EXCEPT !.of = Append(@, [made |-> 0, raised |-> 0])]

(* The first search, which answers or raises. *)
Search(answers) ==
  /\ ClaimsLeft
  /\ Translatable
  /\ WithinRunBudget(session.requests_used_total)
  /\ session' = [session EXCEPT
       !.records = Append(@, IF answers THEN NewRecord("none", 1, 1)
                                        ELSE NewRecord("unverifiable", 1, 0)),
       !.requests_used_total = @ + 1]
  /\ searches' = [searches EXCEPT !.of = Append(@, [made |-> 1, raised |-> 0]),
                                !.made = @ + 1]

EndSession ==
  /\ session' = IdleSession
  /\ searches' = NoSearches

(* KeyError out of run_searches: every record made so far is lost. *)
SearchRaises ==
  /\ ClaimsLeft
  /\ ~Translatable
  /\ EndSession

FinishSearches ==
  /\ session.stage = "searching"
  /\ ~ClaimsLeft
  /\ session' = [session EXCEPT !.stage = "reviewing"]
  /\ UNCHANGED searches

Reviewing ==
  /\ session.stage = "reviewing"
  /\ session.retries < MaxRetries

(* A wrong MayRetry: the run's budget is not looked at. *)
MayRetryByClaim(record, total) == record.requests_used < MAX_REQUESTS_PER_CLAIM

(* retry_search's two checks. *)
MayRetry(record, total) ==
  /\ record.requests_used < MAX_REQUESTS_PER_CLAIM
  /\ total < session.max_requests_per_run

(* A retry that answers; the session adds it to its total. *)
RetryAnswers(i) ==
  /\ Reviewing
  /\ MayRetry(session.records[i], session.requests_used_total)
  /\ session' = [session EXCEPT !.records[i].requests_used = @ + 1,
                                !.records[i].result_lists = @ + 1,
                                !.requests_used_total = @ + 1,
                                !.retries = @ + 1]
  /\ searches' = [searches EXCEPT !.of[i].made = @ + 1, !.made = @ + 1]

(* A retry that raises: the exception leaves retry_search before anything  *)
(* is counted.                                                             *)
RetryRaises(i) ==
  /\ Reviewing
  /\ MayRetry(session.records[i], session.requests_used_total)
  /\ session' = [session EXCEPT
       !.requests_used_total = IF session.counts_failures THEN @ + 1 ELSE @,
       !.retries = @ + 1]
  /\ searches' = [searches EXCEPT
       !.of[i].made = @ + 1, !.of[i].raised = @ + 1, !.made = @ + 1,
       !.uncounted = IF session.counts_failures THEN @ ELSE @ + 1]

(* SearchBudgetError *)
RetryRefused(i) ==
  /\ Reviewing
  /\ ~MayRetry(session.records[i], session.requests_used_total)
  /\ session' = [session EXCEPT !.retries = @ + 1]
  /\ UNCHANGED searches

(* The session's records are assessed and left. *)
CloseSession ==
  /\ session.stage = "reviewing"
  /\ EndSession

SessionDies ==
  /\ session.stage # "idle"
  /\ EndSession

SearchStep ==
  \/ LeavePending \/ SearchRaises \/ FinishSearches
  \/ \E answers \in BOOLEAN : Search(answers)

Retry ==
  \E i \in DOMAIN session.records : RetryAnswers(i) \/ RetryRaises(i) \/ RetryRefused(i)

-----------------------------------------------------------------------------
(***************************************************************************)
(* Every record tells what became of its claim, in the order of the        *)
(* claims: pending exactly when no search was made, unverifiable exactly   *)
(* when the first one raised, and as many requests as searches, less the   *)
(* retries that raised.  The pending ones come last and are flagged.       *)
(* Searches stay within both budgets but for those retries (driver.py,     *)
(* run_searches and retry_search).                                         *)
(***************************************************************************)
RecordTells(record, history) ==
  /\ history.made = record.requests_used + history.raised
  /\ record.requests_used <= MAX_REQUESTS_PER_CLAIM
  /\ record.status = "pending" <=> history.made = 0
  /\ record.requests_used =
       record.result_lists + (IF record.status = "unverifiable" THEN 1 ELSE 0)

PendingFrom(i) == \A j \in DOMAIN session.records :
                    j >= i => session.records[j].status = "pending"

RequestsAccounted ==
  /\ \A i \in DOMAIN session.records :
       /\ session.records[i].claim = session.claims[i]
       /\ RecordTells(session.records[i], searches.of[i])
       /\ session.records[i].status = "pending" =>
            PendingFrom(i) /\ session.budget_exhausted
  /\ searches.made <= session.max_requests_per_run + searches.uncounted
  /\ session.counts_failures => searches.uncounted = 0

(***************************************************************************)
(* What driver.py says of its budgets: at most two requests for a claim    *)
(* (lines 34 and 224, "hard checks").                                      *)
(***************************************************************************)
ClaimBudgetHard ==
  \A i \in DOMAIN session.records : searches.of[i].made <= MAX_REQUESTS_PER_CLAIM

==============================================================================
