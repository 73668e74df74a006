---------------------------- MODULE LinkedInAuthor ----------------------------
(***************************************************************************)
(* The Author side of the LinkedIn path: authoring contexts, the           *)
(* brief-shaped input of the prompt, the clusters offered to the model and *)
(* the validation of its answer (author/authoring_context.py,              *)
(* linkedin_verdict_reader.py, daily_linkedin_author.py).                  *)
(*                                                                         *)
(* Facts and their ids are abstracted to whether an answer cites only      *)
(* facts of the cluster it selects; the text of a post to whether it       *)
(* breaks one of the deterministic checks.                                 *)
(***************************************************************************)
EXTENDS StrategyLayer, FiniteSets

(***************************************************************************)
(* build_authoring_contexts: the units whose treatment is a final include, *)
(* as a set of positions; order matters only for the representative claim. *)
(***************************************************************************)
Contexts(units, treatments) ==
  {i \in DOMAIN units : treatments[i].final = "include"}

(* The union of the included contexts' own message slices. *)
OfferedMessages(units, contexts) == UNION {units[i].messages : i \in contexts}

(* mode of build_daily_brief_from_authoring_contexts. *)
Mode(units, contexts) ==
  IF OfferedMessages(units, contexts) # {} THEN "fact" ELSE "idea_fallback"

(***************************************************************************)
(* build_clusters: one cluster per included repository that had commits.   *)
(* With none it raises, so a fact prompt is built only from a non-empty    *)
(* set of clusters.                                                        *)
(***************************************************************************)
Clusters(units, contexts) ==
  {units[i].repo : i \in {j \in contexts : units[j].commits > 0}}

PromptRaises(units, contexts) ==
  Mode(units, contexts) = "fact" /\ Clusters(units, contexts) = {}

(***************************************************************************)
(* A model answer.  keys: all required keys are present.  automation_only: *)
(* the JSON value of automation_only_day, "true" for the boolean true,     *)
(* "truthy" for another value Python takes as true (1, "true"), "falsy"    *)
(* for false, null or no key.  post: "empty", "forbidden" when a post      *)
(* check rejects it, "third_person" when only the fact-mode voice check    *)
(* does, "clean" otherwise.  cluster: selected_cluster, NoCluster when it  *)
(* names nothing offered by any brief.  facts: supporting_facts, "none"    *)
(* for the empty list.  reasoning: "full" for five non-empty strings,      *)
(* "fact_only" for the automation-only shape, "bad" otherwise.             *)
(***************************************************************************)
CONSTANT NoCluster

Response == [keys : BOOLEAN,
             automation_only : {"true", "truthy", "falsy"},
             post : {"empty", "forbidden", "third_person", "clean"},
             cluster : Repos \cup {NoCluster},
             facts : {"none", "of_cluster", "unknown"},
             reasoning : {"full", "fact_only", "bad"}]

(* validate_automation_only_day_response *)
ValidAutomationOnly(response, clusters) ==
  /\ response.post = "empty"
  /\ response.facts = "none"
  /\ response.cluster \in clusters
  /\ response.reasoning = "fact_only"

(* check_post_content, check_fact_post_voice, validate_reasoning and       *)
(* verify_cited_facts, on the path that is not the automation-only shape.  *)
ValidPost(response, mode, clusters) ==
  /\ response.post \notin {"empty", "forbidden"}
  /\ mode = "fact" =>
       /\ response.post # "third_person"
       /\ response.reasoning = "full"
       /\ response.cluster \in clusters
       /\ response.facts = "of_cluster"

(***************************************************************************)
(* validate_structured_response: the automation-only shape is asked for    *)
(* only in fact mode and only when the flag is the boolean true.           *)
(***************************************************************************)
ValidResponse(response, mode, clusters) ==
  /\ response.keys
  /\ IF mode = "fact" /\ response.automation_only = "true"
     THEN ValidAutomationOnly(response, clusters)
     ELSE ValidPost(response, mode, clusters)

(* daily_publish.run() tests the flag for truthiness, in every mode. *)
ReportsAutomationOnly(response) == response.automation_only # "falsy"

==============================================================================
