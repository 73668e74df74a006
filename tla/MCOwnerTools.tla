----------------------------- MODULE MCOwnerTools -----------------------------
(* Instances of OwnerTools for TLC. *)
EXTENDS OwnerTools

CONSTANTS c1, c2, c3, a, b

(* Three cards: in clusters 1 and 3 of 3; two of them in one cluster; one  *)
(* unreadable; none in a cluster.                                          *)
MCGraphs == {[card \in Cards |-> IF card = c1 THEN 1 ELSE 3],
             [card \in Cards |-> IF card = c1 THEN Unclustered ELSE 2],
             [card \in Cards |-> CASE card = c1 -> 1 [] card = c2 -> Unreadable [] card = c3 -> 3],
             [card \in Cards |-> Unclustered]}

MCExtractions ==
  {[status |-> "claim", category |-> "none", context_insufficiency |-> FALSE],
   [status |-> "no_claim", category |-> "no_claim", context_insufficiency |-> TRUE]}

Row(repo, head) == [repo |-> repo, head |-> head, branch |-> TRUE, commits |-> 1]

(* The first one lists a repository twice. *)
MCManifests == {<<Row(b, FALSE), Row(a, TRUE), Row(b, TRUE)>>,
                <<Row(a, TRUE), Row(b, FALSE)>>}

OnBranch == [http |-> 200, status |-> "ahead", behind_by |-> 0]
Diverged == [http |-> 200, status |-> "diverged", behind_by |-> 1]

MCManifestAnswers == {[repo \in Repos |-> OnBranch],
                      [repo \in Repos |-> IF repo = a THEN Diverged ELSE OnBranch]}

==============================================================================
