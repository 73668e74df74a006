--------------------------- MODULE HabrEditCapture ---------------------------
(***************************************************************************)
(* The capture of the owner's edits of Habr drafts                         *)
(* (habr_edit_capture/, .github/workflows/habr-edit-capture.yml).  A pass  *)
(* checks out the branch habr-edit-capture-data, walks the owner's Drive   *)
(* folders, diffs each draft with its final text, appends a record unless  *)
(* one has the same modifiedTime, and pushes.  The owner edits meanwhile;  *)
(* any call can fail and then the whole pass is lost.                      *)
(*                                                                         *)
(* An article is a folder and a date stem.  The text of a final and its    *)
(* modifiedTime are the number of its edits; the draft's text, the diff    *)
(* and has_changes are functions of it and are left out.                   *)
(***************************************************************************)
EXTENDS Naturals, Sequences, FiniteSets

CONSTANTS
  Passes,      (* Workflow runs that can be under way at the same time.    *)
  Articles,
  Folders,
  FolderOf,    (* The folder of each article.                              *)
  NotExported, (* Articles whose final may be a file Drive cannot export.  *)
  MaxEdits,    (* Bound: edits of each final.                              *)
  MaxFaults,   (* Bound: failed passes.                                    *)
  Serialized   (* Whether the concurrency group holds.                     *)

ASSUME CaptureAssumption ==
  /\ FolderOf \in [Articles -> Folders]
  /\ NotExported \subseteq Articles
  /\ MaxEdits \in [Articles -> Nat] /\ MaxFaults \in Nat
  /\ Serialized \in BOOLEAN

VARIABLES
  unreadable, (* the articles whose final is no Google Doc                 *)
  drafts,     (* articles that have a draft in their folder                *)
  final,      (* the edits of each final; 0 when there is none             *)
  branch,     (* the records on habr-edit-capture-data, oldest first       *)
  faults,
  stage,      (* where a pass is                                           *)
  base,       (* the branch as a pass checked it out                       *)
  checkout,   (* its checkout                                              *)
  folders,    (* the folders it has yet to list                            *)
  pairs,      (* the pairs of the listed folder it has yet to capture      *)
  listed      (* the modifiedTime of each, from the listing                *)

drive == <<unreadable, drafts, final>>
walk == <<folders, pairs, listed>>
vars == <<drive, branch, faults, stage, base, checkout, walk>>

Times == UNION {0 .. MaxEdits[article] : article \in Articles}
Record == [article : Articles, final_modified_time : Times \ {0}, text : Times \ {0}]
Stages == {"idle", "walk", "push"}

Init ==
  /\ unreadable \in SUBSET NotExported
  /\ drafts = {}
  /\ final = [article \in Articles |-> 0]
  /\ branch = <<>>
  /\ faults = 0
  /\ stage = [p \in Passes |-> "idle"]
  /\ base = [p \in Passes |-> <<>>]
  /\ checkout = [p \in Passes |-> <<>>]
  /\ folders = [p \in Passes |-> {}]
  /\ pairs = [p \in Passes |-> {}]
  /\ listed = [p \in Passes |-> [article \in Articles |-> 0]]

-----------------------------------------------------------------------------
(* The owner and the hand-off put files in the folders. *)
DraftAdded(article) ==
  /\ drafts' = drafts \cup {article}
  /\ UNCHANGED <<unreadable, final, branch, faults, stage, base, checkout, walk>>

FinalEdited(article) ==
  /\ final[article] < MaxEdits[article]
  /\ final' = [final EXCEPT ![article] = @ + 1]
  /\ UNCHANGED <<unreadable, drafts, branch, faults, stage, base, checkout, walk>>

-----------------------------------------------------------------------------
(* A pass.                                                                 *)
Alone(p) == \A q \in Passes \ {p} : stage[q] = "idle"

Start(p) ==
  /\ stage[p] = "idle"
  /\ Serialized => Alone(p)
  /\ stage' = [stage EXCEPT ![p] = "walk"]
  /\ base' = [base EXCEPT ![p] = branch]
  /\ checkout' = [checkout EXCEPT ![p] = branch]
  /\ folders' = [folders EXCEPT ![p] = Folders]
  /\ UNCHANGED <<drive, branch, faults, pairs, listed>>

(* A wrong Paired: a draft is a pair. *)
DraftAlone(folder) == {article \in drafts : FolderOf[article] = folder}

(* _pair_draft_and_final: the articles of a folder that have both files. *)
Paired(folder) ==
  {article \in Articles : /\ FolderOf[article] = folder
                          /\ article \in drafts /\ final[article] > 0}

(* One listing gives the pairs of a folder and their modifiedTimes. *)
ListFiles(p) ==
  /\ stage[p] = "walk" /\ pairs[p] = {}
  /\ \E folder \in folders[p] :
       /\ folders' = [folders EXCEPT ![p] = @ \ {folder}]
       /\ pairs' = [pairs EXCEPT ![p] = Paired(folder)]
       /\ listed' = [listed EXCEPT ![p] = final]
  /\ UNCHANGED <<drive, branch, faults, stage, base, checkout>>

(* A wrong Captured: any record of the article counts. *)
CapturedOnce(records, record) ==
  \E i \in DOMAIN records : records[i].article = record.article

(* A wrong Captured: nothing counts. *)
CapturedNever(records, record) == FALSE

(* write_capture's dedup key, within the article's directory. *)
Captured(records, record) ==
  \E i \in DOMAIN records :
    /\ records[i].article = record.article
    /\ records[i].final_modified_time = record.final_modified_time

(* A wrong BuildRecord: the time is the export's, the text the listing's. *)
BuildRecordBackwards(p, article) ==
  [article |-> article, final_modified_time |-> final[article],
   text |-> listed[p][article]]

(* _build_record: the text is exported after the listing. *)
BuildRecord(p, article) ==
  [article |-> article, final_modified_time |-> listed[p][article],
   text |-> final[article]]

(* One pair: export, diff, and write unless captured. *)
Capture(p, article) ==
  /\ stage[p] = "walk" /\ article \in pairs[p] /\ article \notin unreadable
  /\ LET record == BuildRecord(p, article) IN
     checkout' = IF Captured(checkout[p], record) THEN checkout
                 ELSE [checkout EXCEPT ![p] = Append(@, record)]
  /\ pairs' = [pairs EXCEPT ![p] = @ \ {article}]
  /\ UNCHANGED <<drive, branch, faults, stage, base, folders, listed>>

EndWalk(p) ==
  /\ stage[p] = "walk" /\ pairs[p] = {} /\ folders[p] = {}
  /\ stage' = [stage EXCEPT ![p] = "push"]
  /\ UNCHANGED <<drive, branch, faults, base, checkout, walk>>

(* The job is over and its checkout discarded. *)
Discard(p) ==
  /\ stage' = [stage EXCEPT ![p] = "idle"]
  /\ base' = [base EXCEPT ![p] = <<>>]
  /\ checkout' = [checkout EXCEPT ![p] = <<>>]
  /\ folders' = [folders EXCEPT ![p] = {}]
  /\ pairs' = [pairs EXCEPT ![p] = {}]
  /\ listed' = [listed EXCEPT ![p] = [article \in Articles |-> 0]]

(* A wrong FastForward: the push is forced. *)
Forced(p) == TRUE

(* git push is rejected when the branch has moved since the checkout. *)
FastForward(p) == branch = base[p]

(* The commit and the push.  With nothing new there is no commit. *)
Push(p) ==
  /\ stage[p] = "push"
  /\ branch' = IF FastForward(p) THEN checkout[p] ELSE branch
  /\ Discard(p)
  /\ UNCHANGED <<drive, faults>>

(* A final that cannot be exported raises, and ends the pass every time. *)
ExportRaises(p) ==
  /\ stage[p] = "walk" /\ pairs[p] \cap unreadable # {}
  /\ Discard(p)
  /\ UNCHANGED <<drive, branch, faults>>

(* A call to Drive or git fails, or the runner dies. *)
Fault(p) ==
  /\ stage[p] # "idle" /\ faults < MaxFaults
  /\ faults' = faults + 1
  /\ Discard(p)
  /\ UNCHANGED <<drive, branch>>

-----------------------------------------------------------------------------
Pass(p) ==
  \/ Start(p) \/ ListFiles(p) \/ (\E article \in Articles : Capture(p, article))
  \/ EndWalk(p) \/ Push(p) \/ ExportRaises(p)

Next ==
  \/ \E article \in Articles : DraftAdded(article) \/ FinalEdited(article)
  \/ \E p \in Passes : Pass(p) \/ Fault(p)

(* The schedule starts a pass every day, and a pass goes on until it ends; *)
(* nothing makes the owner edit.                                           *)
Fairness == \A p \in Passes : WF_vars(Pass(p))

Spec == Init /\ [][Next]_vars /\ Fairness

-----------------------------------------------------------------------------
(* Properties.                                                             *)

TypeOK ==
  /\ unreadable \subseteq NotExported
  /\ drafts \subseteq Articles
  /\ final \in [Articles -> Times]
  /\ branch \in Seq(Record)
  /\ faults \in 0 .. MaxFaults
  /\ stage \in [Passes -> Stages]
  /\ base \in [Passes -> Seq(Record)]
  /\ checkout \in [Passes -> Seq(Record)]
  /\ folders \in [Passes -> SUBSET Folders]
  /\ pairs \in [Passes -> SUBSET Articles]
  /\ listed \in [Passes -> [Articles -> Times]]

(* No two records on the branch are of one article and one modifiedTime,   *)
(* even when passes overlap (writer.py's idempotency).                     *)
NoDuplicates(records) ==
  \A i, j \in DOMAIN records : i # j =>
    ~ /\ records[i].article = records[j].article
      /\ records[i].final_modified_time = records[j].final_modified_time

OneRecordPerState == NoDuplicates(branch)

(* No push removes or changes a record (writer.py: "Append-only").         *)
IsPrefixOf(s, t) == Len(s) <= Len(t) /\ \A i \in DOMAIN s : t[i] = s[i]
AppendOnly == [][IsPrefixOf(branch, branch')]_vars

(* A record's text is never older than the state it is filed under, so     *)
(* what the owner edits after a listing is in a later record or in this    *)
(* one.                                                                    *)
TextNotStale ==
  \A i \in DOMAIN branch : branch[i].text >= branch[i].final_modified_time

(* Once the owner leaves a final at some state, its last text is recorded  *)
(* (SPEC.md requirement 19), whatever was edited during earlier passes and *)
(* whichever pushes were lost, if every final can be exported.             *)
Recorded(article) ==
  \E i \in DOMAIN branch : branch[i].article = article /\ branch[i].text = MaxEdits[article]

LastTextCaptured ==
  \A article \in Articles :
    unreadable = {} /\ article \in drafts /\ final[article] = MaxEdits[article]
      ~> Recorded(article)

(* The same of every final that can be exported, whatever the other finals *)
(* are (SPEC.md requirement 19).                                           *)
ReadableTextCaptured ==
  \A article \in Articles :
    article \notin unreadable /\ article \in drafts /\ final[article] = MaxEdits[article]
      ~> Recorded(article)

==============================================================================
