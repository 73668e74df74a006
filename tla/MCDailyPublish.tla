---------------------------- MODULE MCDailyPublish ----------------------------
(* Small instances of DailyPublish: two repositories, and the briefs,      *)
(* GitHub answers and model answers that tell its branches apart.          *)
EXTENDS DailyPublish

CONSTANTS a, b, s1

E(repo, head_sha, n) ==
  [repo |-> repo, head |-> head_sha, branch |-> TRUE, commits |-> n]
Said(repo) == [repo |-> repo, subject |-> s1]

(* Two busy repositories; one whose tip Collector could not resolve, with  *)
(* the only message; a quiet day; a brief of the previous schema.          *)
MCBriefs ==
  { [schema |-> 3, per_repo |-> <<E(a, TRUE, 1), E(b, TRUE, 1)>>,
     messages |-> {Said(a), Said(b)}],
    [schema |-> 3, per_repo |-> <<E(a, FALSE, 1), E(b, TRUE, 1)>>,
     messages |-> {Said(a)}],
    [schema |-> 3, per_repo |-> <<E(a, TRUE, 0)>>, messages |-> {}],
    [schema |-> 2, per_repo |-> <<E(a, TRUE, 1)>>, messages |-> {Said(a)}] }

(* The first and the third of them: a day to post and a quiet day. *)
MCBusyBriefs == {brief \in MCBriefs : /\ brief.schema = 3
                                      /\ brief.per_repo[1].head}

(* A day on which Collector lists no repository at all. *)
MCEmptyBrief == { [schema |-> 3, per_repo |-> <<>>, messages |-> {}] }
MCBriefsWithEmpty == MCBriefs \cup MCEmptyBrief

MCAnswers ==
  { [http |-> 200, status |-> "identical", behind_by |-> 0],
    [http |-> 200, status |-> "diverged", behind_by |-> 1] }

Says(only, post, cluster, facts, reasoning) ==
  [keys |-> TRUE, automation_only |-> only, post |-> post, cluster |-> cluster,
   facts |-> facts, reasoning |-> reasoning]

(* A post from each repository, the second with automation_only_day set to *)
(* 1 or "true" instead of true; a post of the fallback mode; the           *)
(* automation-only shape; and an answer the checks reject.                 *)
MCResponses ==
  { Says("falsy", "clean", a, "of_cluster", "full"),
    Says("falsy", "clean", b, "of_cluster", "full"),
    Says("truthy", "clean", b, "of_cluster", "full"),
    Says("falsy", "clean", NoCluster, "none", "bad"),
    Says("true", "empty", a, "none", "fact_only"),
    Says("falsy", "forbidden", a, "of_cluster", "full") }

MCTwoResponses == {resp \in MCResponses : resp.cluster = a /\ resp.automation_only = "falsy"}

MCAbsent == {R!Absent}
MCBlock == R!BlockRecord(a, [count |-> 1, first |-> "pending"])
MCLegacyFiles == {R!Absent, R!Unreadable, MCBlock}

==============================================================================
