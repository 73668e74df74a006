---------------------------- MODULE HabrDelivery ----------------------------
(***************************************************************************)
(* The three-job workflow around a Habr draft run                          *)
(* (habr_draft/runtime_workflow.example.yml): the draft job hands on the   *)
(* attempt files and the run record as an artifact, the deliver job        *)
(* validates and stages it (deliver.py), pushes it to registry-data and    *)
(* notifies the owner (notify.py).  Jobs fail, other workflows push to the *)
(* same branch, and the owner re-runs failed jobs or the whole run, which  *)
(* keeps its run id and with it its directory.                             *)
(*                                                                         *)
(* How a run comes to its outcome is HabrDraft's.  A file is the execution *)
(* that wrote it and the class of its text.                                *)
(***************************************************************************)
EXTENDS Naturals, Sequences, FiniteSets

CONSTANTS
  Runs,        (* Workflow runs, each with a run id of its own.            *)
  Numbers,     (* Numbers of attempts.                                     *)
  Texts,       (* Classes of text an attempt can have.                     *)
  MaxReruns,   (* Bound: re-runs of one workflow run.                      *)
  MaxOthers    (* Bound: pushes by other workflows.                        *)

(* A text has CRLF line ends, or matches a secret pattern, or neither. *)
TextClasses == {"lf", "crlf", "pattern"}

ASSUME DeliveryAssumption ==
  /\ Numbers \subseteq Nat \ {0} /\ IsFiniteSet(Numbers)
  /\ Texts \subseteq TextClasses
  /\ MaxReruns \in Nat
  /\ MaxOthers \in Nat

VARIABLES
  job,         (* where a run is                                           *)
  execution,   (* how often its draft job was started                      *)
  reruns,      (* how often the owner re-ran it                            *)
  artifact,    (* its artifact habr-draft-output                           *)
  branch,      (* registry-data: a directory per run                       *)
  tip,         (* its newest commit                                        *)
  others,      (* pushes of other workflows to registry-data               *)
  checkout,    (* the deliver job's staged tree                            *)
  base,        (* the commit it was checked out at                         *)
  messages     (* what notify.py read of the record it was given           *)

vars == <<job, execution, reruns, artifact, branch, tip, others, checkout, base, messages>>

Executions == 0 .. MaxReruns + 1
Contents == [execution : Executions, text : TextClasses]

(* run_record.write_attempt and write_run_record: a record lists its       *)
(* attempt files by name and hash.  Discarded attempts have no file.       *)
AttemptFiles == UNION {[numbers -> Contents] : numbers \in SUBSET Numbers}
Record == [execution : Executions, listed : AttemptFiles]
NoArtifact == [record |-> [execution |-> 0, listed |-> <<>>], files |-> <<>>]
Artifact == [record : Record, files : AttemptFiles]

(* The records of a directory in the order of their names. *)
Directory == [records : Seq(Record), files : AttemptFiles]
EmptyDirectory == [records |-> <<>>, files |-> <<>>]

Jobs == {"new", "draft", "stage", "push", "notify", "done",
         "draft_failed", "deliver_failed"}
Active == {"draft", "stage", "push", "notify"}

Init ==
  /\ job = [run \in Runs |-> "new"]
  /\ execution = [run \in Runs |-> 0]
  /\ reruns = [run \in Runs |-> 0]
  /\ artifact = [run \in Runs |-> NoArtifact]
  /\ branch = [run \in Runs |-> EmptyDirectory]
  /\ tip = 0
  /\ others = 0
  /\ checkout = [run \in Runs |-> EmptyDirectory]
  /\ base = [run \in Runs |-> 0]
  /\ messages = [run \in Runs |-> <<>>]

(* The concurrency group habr-draft: a run waits while another is active. *)
Free == \A run \in Runs : job[run] \notin Active

Goes(run, next) == job' = [job EXCEPT ![run] = next]

StartDraft(run) ==
  /\ Free
  /\ Goes(run, "draft")
  /\ execution' = [execution EXCEPT ![run] = @ + 1]

Start(run) ==
  /\ job[run] = "new"
  /\ StartDraft(run)
  /\ UNCHANGED <<reruns, artifact, branch, tip, others, checkout, base, messages>>

Rerun(run) ==
  /\ reruns[run] < MaxReruns
  /\ reruns' = [reruns EXCEPT ![run] = @ + 1]
  /\ UNCHANGED <<artifact, branch, tip, others, checkout, base, messages>>

(* "Re-run all jobs". *)
RerunAll(run) ==
  /\ job[run] \in {"done", "draft_failed", "deliver_failed"}
  /\ StartDraft(run)
  /\ Rerun(run)

(* "Re-run failed jobs" after the deliver job failed: the artifact stays. *)
RerunDeliver(run) ==
  /\ job[run] = "deliver_failed" /\ Free
  /\ Goes(run, "stage")
  /\ Rerun(run)
  /\ UNCHANGED execution

(* The draft job leaves a record and its attempts' files. *)
DraftDone(run) ==
  /\ job[run] = "draft"
  /\ \E numbers \in SUBSET Numbers : \E text \in [numbers -> Texts] :
       LET files == [n \in numbers |-> [execution |-> execution[run], text |-> text[n]]]
       IN artifact' = [artifact EXCEPT ![run] =
            [record |-> [execution |-> execution[run], listed |-> files],
             files |-> files]]
  /\ Goes(run, "stage")
  /\ UNCHANGED <<execution, reruns, branch, tip, others, checkout, base, messages>>

-----------------------------------------------------------------------------
(* deliver.py                                                              *)

(* A wrong Valid: the files are not scanned. *)
ValidUnscanned(art) == art.record.listed = art.files

(* validate_artifact, of an artifact the draft job wrote. *)
Valid(art) ==
  /\ art.record.listed = art.files
  /\ \A n \in DOMAIN art.files : art.files[n].text # "pattern"

(* read_text gives every line end as LF. *)
ReadText(contents) ==
  IF contents.text = "crlf" THEN [contents EXCEPT !.text = "lf"] ELSE contents

(* A wrong Collides: files of earlier executions are never in the way. *)
CollidesNever(dir, art) == FALSE

(* stage() looks at every name before it writes the first: the attempts'   *)
(* by their numbers, the run record's by the second its execution began.   *)
Collides(dir, art) ==
  \/ DOMAIN dir.files \cap DOMAIN art.files # {}
  \/ \E i \in DOMAIN dir.records : dir.records[i].execution = art.record.execution

(* A wrong Staged: the attempt files come without the record of theirs     *)
(* when the directory holds one already.                                   *)
StagedOneRecord(dir, art) ==
  [records |-> IF dir.records = <<>> THEN <<art.record>> ELSE dir.records,
   files |-> [n \in DOMAIN dir.files \cup DOMAIN art.files |->
                IF n \in DOMAIN art.files THEN ReadText(art.files[n]) ELSE dir.files[n]]]

(* A wrong Staged: the attempts are numbered from zero. *)
StagedFromZero(dir, art) ==
  [records |-> Append(dir.records, art.record),
   files |-> [n \in DOMAIN dir.files \cup {k - 1 : k \in DOMAIN art.files} |->
                IF n + 1 \in DOMAIN art.files THEN ReadText(art.files[n + 1])
                ELSE dir.files[n]]]

(* The files that stage() leaves in the run's directory. *)
Staged(dir, art) ==
  [records |-> Append(dir.records, art.record),
   files |-> [n \in DOMAIN dir.files \cup DOMAIN art.files |->
                IF n \in DOMAIN art.files THEN ReadText(art.files[n]) ELSE dir.files[n]]]

(* The checkout of registry-data, and stage() into the run's directory. *)
Stage(run) ==
  /\ job[run] = "stage"
  /\ \/ /\ Valid(artifact[run]) /\ ~Collides(branch[run], artifact[run])
        /\ checkout' = [checkout EXCEPT ![run] = Staged(branch[run], artifact[run])]
        /\ base' = [base EXCEPT ![run] = tip]
        /\ Goes(run, "push")
     \/ /\ ~Valid(artifact[run]) \/ Collides(branch[run], artifact[run])
        /\ Goes(run, "deliver_failed")
        /\ UNCHANGED <<checkout, base>>
  /\ UNCHANGED <<execution, reruns, artifact, branch, tip, others, messages>>

(* A wrong AfterRejectedPush: the push's exit status is not looked at. *)
NotifyAnyway == "notify"
AfterRejectedPush == "deliver_failed"

(* git push: rejected when the branch has moved since the checkout. *)
Push(run) ==
  /\ job[run] = "push"
  /\ \/ /\ base[run] = tip
        /\ tip' = tip + 1
        /\ branch' = [branch EXCEPT ![run] = checkout[run]]
        /\ Goes(run, "notify")
     \/ /\ base[run] # tip
        /\ Goes(run, AfterRejectedPush)
        /\ UNCHANGED <<branch, tip>>
  /\ UNCHANGED <<execution, reruns, artifact, others, checkout, base, messages>>

(* ls run_*.json | head -n 1, in the checkout. *)
FirstRecord(dir) == Head(dir.records)

(* Telegram may refuse the message; that is logged and no failure. *)
Notify(run) ==
  /\ job[run] = "notify"
  /\ \E sent \in BOOLEAN :
       messages' = IF sent
         THEN [messages EXCEPT ![run] =
                 Append(@, [of |-> FirstRecord(checkout[run]), by |-> execution[run]])]
         ELSE messages
  /\ Goes(run, "done")
  /\ UNCHANGED <<execution, reruns, artifact, branch, tip, others, checkout, base>>

(* A job dies, loses its connection, or a step of its fails. *)
JobFails(run) ==
  /\ job[run] \in Active
  /\ Goes(run, IF job[run] = "draft" THEN "draft_failed" ELSE "deliver_failed")
  /\ UNCHANGED <<execution, reruns, artifact, branch, tip, others, checkout, base, messages>>

(* Another workflow, the LinkedIn publication's, pushes to registry-data. *)
OtherPush ==
  /\ others < MaxOthers
  /\ others' = others + 1
  /\ tip' = tip + 1
  /\ UNCHANGED <<job, execution, reruns, artifact, branch, checkout, base, messages>>

Next ==
  \/ \E run \in Runs :
       \/ Start(run) \/ RerunAll(run) \/ RerunDeliver(run) \/ DraftDone(run)
       \/ Stage(run) \/ Push(run) \/ Notify(run) \/ JobFails(run)
  \/ OtherPush

Spec == Init /\ [][Next]_vars

-----------------------------------------------------------------------------
(* Properties.                                                             *)

TypeOK ==
  /\ job \in [Runs -> Jobs]
  /\ execution \in [Runs -> Executions]
  /\ reruns \in [Runs -> 0 .. MaxReruns]
  /\ artifact \in [Runs -> Artifact]
  /\ branch \in [Runs -> Directory]
  /\ tip \in Nat
  /\ others \in 0 .. MaxOthers
  /\ checkout \in [Runs -> Directory]
  /\ base \in [Runs -> Nat]
  /\ messages \in [Runs -> Seq([of : Record, by : Executions])]

(* No push changes or removes a file that registry-data holds, whatever is *)
(* re-run and whoever pushed in between (SPEC.md M9 requirement 50).       *)
FilesImmutable ==
  [][\A run \in Runs :
       /\ \A n \in DOMAIN branch[run].files :
            n \in DOMAIN branch'[run].files /\ branch'[run].files[n] = branch[run].files[n]
       /\ \A i \in DOMAIN branch[run].records :
            i \in DOMAIN branch'[run].records
              /\ branch'[run].records[i] = branch[run].records[i]]_vars

(* A directory of registry-data holds exactly the files its records list,  *)
(* each of the execution that its record describes and with the text that  *)
(* was listed, its line ends aside (read_text() turns CRLF into LF after   *)
(* the hashes were compared); and no execution is recorded twice, also     *)
(* when its deliver job is re-run after a push that went through.          *)
AsListed(file, listed) ==
  /\ file.execution = listed.execution
  /\ file.text = listed.text \/ (listed.text = "crlf" /\ file.text = "lf")

RecordsMatchFiles ==
  \A run \in Runs :
    LET dir == branch[run] IN
    /\ \A i \in DOMAIN dir.records : \A n \in DOMAIN dir.records[i].listed :
         n \in DOMAIN dir.files /\ AsListed(dir.files[n], dir.records[i].listed[n])
    /\ \A n \in DOMAIN dir.files : \E i \in DOMAIN dir.records :
         n \in DOMAIN dir.records[i].listed
           /\ AsListed(dir.files[n], dir.records[i].listed[n])
    /\ \A i, j \in DOMAIN dir.records :
         dir.records[i].execution = dir.records[j].execution => i = j

(* No committed file matches a secret pattern, whichever job's scan missed *)
(* it.                                                                     *)
NoPatternCommitted ==
  \A run \in Runs : \A n \in DOMAIN branch[run].files :
    branch[run].files[n].text # "pattern"

(* A message is about a record that registry-data holds.                   *)
NotifiedIsCommitted ==
  \A run \in Runs : \A i \in DOMAIN messages[run] :
    \E k \in DOMAIN branch[run].records : branch[run].records[k] = messages[run][i].of

==============================================================================
