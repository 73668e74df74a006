------------------------- MODULE HabrDelivery_proofs -------------------------
(***************************************************************************)
(* Theorems about HabrDelivery, for every set of runs and of attempt       *)
(* numbers, and every bound on re-runs and on other workflows' pushes.     *)
(*                                                                         *)
(* The argument: a directory is consistent when its records and its files  *)
(* say the same, no execution has two records, and no file matches a       *)
(* pattern.  stage() makes a consistent directory that extends the one it  *)
(* was staged on, because the artifact is valid and no name of it is       *)
(* taken; a push that is not rejected finds the branch where it was at the *)
(* checkout, so the staged directory still extends it; and the checkout    *)
(* the notification reads is the directory that was pushed.                *)
(***************************************************************************)
EXTENDS HabrDelivery, TLAPS

(* The records and files of a directory agree, and none has a pattern. *)
RecordsInFiles(dir) ==
  \A i \in DOMAIN dir.records : \A n \in DOMAIN dir.records[i].listed :
    n \in DOMAIN dir.files /\ AsListed(dir.files[n], dir.records[i].listed[n])

FilesInRecords(dir) ==
  \A n \in DOMAIN dir.files : \E i \in DOMAIN dir.records :
    n \in DOMAIN dir.records[i].listed
      /\ AsListed(dir.files[n], dir.records[i].listed[n])

NoPattern(dir) == \A n \in DOMAIN dir.files : dir.files[n].text # "pattern"

RecordedOnce(dir) ==
  \A i, j \in DOMAIN dir.records :
    dir.records[i].execution = dir.records[j].execution => i = j

Consistent(dir) ==
  RecordsInFiles(dir) /\ FilesInRecords(dir) /\ RecordedOnce(dir) /\ NoPattern(dir)

(* Everything that dir holds, later holds too, as it was. *)
Extended(dir, later) ==
  /\ \A n \in DOMAIN dir.files :
       n \in DOMAIN later.files /\ later.files[n] = dir.files[n]
  /\ \A i \in DOMAIN dir.records :
       i \in DOMAIN later.records /\ later.records[i] = dir.records[i]

-----------------------------------------------------------------------------
(* The inductive invariant. *)

ExecutionsBounded ==
  \A run \in Runs :
    /\ execution[run] <= reruns[run] + 1
    /\ job[run] = "new" => execution[run] = 0

DirectoriesConsistent ==
  \A run \in Runs : Consistent(branch[run]) /\ Consistent(checkout[run])

(* What is about to be pushed extends the branch, unless it has moved. *)
PushExtends ==
  \A run \in Runs :
    /\ base[run] <= tip
    /\ job[run] = "push" /\ base[run] = tip => Extended(branch[run], checkout[run])
    /\ job[run] \in {"push", "notify"} => checkout[run].records # <<>>
    /\ job[run] = "notify" => branch[run] = checkout[run]

IInv ==
  /\ TypeOK
  /\ ExecutionsBounded
  /\ DirectoriesConsistent
  /\ PushExtends
  /\ NotifiedIsCommitted

-----------------------------------------------------------------------------
(* The empty function is the only one of an empty domain. *)
LEMMA EmptyFiles == <<>> \in AttemptFiles /\ DOMAIN <<>> = {}
<1>1. <<>> \in [{} -> Contents]
  OBVIOUS
<1>2. {} \in SUBSET Numbers
  OBVIOUS
<1> QED
  BY <1>1, <1>2 DEF AttemptFiles

(* stage() leaves a well-formed directory. *)
LEMMA StagedType ==
  ASSUME NEW dir \in Directory, NEW art \in Artifact
  PROVE  Staged(dir, art) \in Directory
<1> DEFINE files == [n \in DOMAIN dir.files \cup DOMAIN art.files |->
                IF n \in DOMAIN art.files THEN ReadText(art.files[n]) ELSE dir.files[n]]
<1>1. PICK mine \in SUBSET Numbers : dir.files \in [mine -> Contents]
  BY DEF Directory, AttemptFiles
<1>2. PICK theirs \in SUBSET Numbers : art.files \in [theirs -> Contents]
  BY DEF Artifact, AttemptFiles
<1>3. \A contents \in Contents : ReadText(contents) \in Contents
  BY DEF Contents, ReadText, TextClasses
<1>4. files \in [mine \cup theirs -> Contents]
  BY <1>1, <1>2, <1>3
<1>5. files \in AttemptFiles
  BY <1>4 DEF AttemptFiles
<1>6. Append(dir.records, art.record) \in Seq(Record)
  BY DEF Directory, Artifact
<1> QED
  BY <1>5, <1>6 DEF Staged, Directory

(* stage() extends the directory it is given and has at least one record. *)
LEMMA StagedExtends ==
  ASSUME NEW dir \in Directory, NEW art \in Artifact, ~Collides(dir, art)
  PROVE  Extended(dir, Staged(dir, art)) /\ Staged(dir, art).records # <<>>
<1>1. dir.records \in Seq(Record) /\ art.record \in Record
  BY DEF Directory, Artifact
<1>2. \A n \in DOMAIN dir.files : n \notin DOMAIN art.files
  BY DEF Collides
<1>3. \A n \in DOMAIN dir.files :
        n \in DOMAIN Staged(dir, art).files /\ Staged(dir, art).files[n] = dir.files[n]
  BY <1>2 DEF Staged
<1>4. Staged(dir, art).records = Append(dir.records, art.record)
  BY DEF Staged
<1>5. \A i \in DOMAIN dir.records :
        i \in DOMAIN Staged(dir, art).records
          /\ Staged(dir, art).records[i] = dir.records[i]
  BY <1>1, <1>4
<1>6. Extended(dir, Staged(dir, art))
  BY <1>3, <1>5 DEF Extended
<1>7. Append(dir.records, art.record) # <<>>
  BY <1>1
<1> QED
  BY <1>4, <1>6, <1>7

(* What stage() makes of a valid artifact and a consistent directory is    *)
(* consistent.                                                             *)
LEMMA StagedConsistent ==
  ASSUME NEW dir \in Directory, NEW art \in Artifact, ~Collides(dir, art),
         Valid(art), Consistent(dir)
  PROVE  Consistent(Staged(dir, art))
<1> DEFINE new == Staged(dir, art)
<1>1. Extended(dir, new)
  BY StagedExtends
<1>2. dir.records \in Seq(Record) /\ art.record \in Record
  BY DEF Directory, Artifact
<1>3. new.records = Append(dir.records, art.record)
  BY DEF Staged
<1>4. /\ DOMAIN new.records = DOMAIN dir.records \cup {Len(dir.records) + 1}
      /\ new.records[Len(dir.records) + 1] = art.record
      /\ \A i \in DOMAIN dir.records : new.records[i] = dir.records[i]
  BY <1>2, <1>3
<1>5. DOMAIN new.files = DOMAIN dir.files \cup DOMAIN art.files
  BY DEF Staged
<1>6. \A n \in DOMAIN art.files : new.files[n] = ReadText(art.files[n])
  BY DEF Staged
<1>7. art.record.listed = art.files
  BY DEF Valid
<1>8. \A n \in DOMAIN art.files : AsListed(new.files[n], art.record.listed[n])
  <2> TAKE n \in DOMAIN art.files
  <2>1. art.files[n] \in Contents
    BY DEF Artifact, AttemptFiles
  <2> QED
    BY <1>6, <1>7, <2>1 DEF AsListed, ReadText, Contents
<1>9. RecordsInFiles(new)
  <2> SUFFICES ASSUME NEW i \in DOMAIN new.records,
                      NEW n \in DOMAIN new.records[i].listed
               PROVE  n \in DOMAIN new.files
                        /\ AsListed(new.files[n], new.records[i].listed[n])
    BY DEF RecordsInFiles
  <2>1. CASE i \in DOMAIN dir.records
    BY <2>1, <1>1, <1>4 DEF Consistent, RecordsInFiles, Extended
  <2>2. CASE i = Len(dir.records) + 1
    BY <2>2, <1>4, <1>5, <1>7, <1>8
  <2> QED
    BY <1>4, <2>1, <2>2
<1>10. FilesInRecords(new)
  <2> SUFFICES ASSUME NEW n \in DOMAIN new.files
               PROVE  \E i \in DOMAIN new.records :
                        n \in DOMAIN new.records[i].listed
                          /\ AsListed(new.files[n], new.records[i].listed[n])
    BY DEF FilesInRecords
  <2>1. CASE n \in DOMAIN dir.files
    <3>1. PICK i \in DOMAIN dir.records :
            n \in DOMAIN dir.records[i].listed
              /\ AsListed(dir.files[n], dir.records[i].listed[n])
      BY <2>1 DEF Consistent, FilesInRecords
    <3> QED
      BY <2>1, <3>1, <1>1, <1>4 DEF Extended
  <2>2. CASE n \in DOMAIN art.files
    BY <2>2, <1>4, <1>7, <1>8
  <2> QED
    BY <1>5, <2>1, <2>2
<1>11. NoPattern(new)
  <2> SUFFICES ASSUME NEW n \in DOMAIN new.files
               PROVE  new.files[n].text # "pattern"
    BY DEF NoPattern
  <2>1. CASE n \in DOMAIN dir.files
    BY <2>1, <1>1 DEF Consistent, NoPattern, Extended
  <2>2. CASE n \in DOMAIN art.files
    <3>1. art.files[n] \in Contents /\ art.files[n].text # "pattern"
      BY <2>2 DEF Artifact, AttemptFiles, Valid
    <3> QED
      BY <2>2, <3>1, <1>6 DEF ReadText, Contents
  <2> QED
    BY <1>5, <2>1, <2>2
<1>12. RecordedOnce(new)
  BY <1>4 DEF Consistent, RecordedOnce, Collides
<1> QED
  BY <1>9, <1>10, <1>11, <1>12 DEF Consistent

-----------------------------------------------------------------------------
LEMMA InitEstablishes == Init => IInv
<1> SUFFICES ASSUME Init PROVE IInv
  OBVIOUS
<1>1. EmptyDirectory \in Directory /\ NoArtifact \in Artifact
  BY EmptyFiles, DeliveryAssumption
  DEF EmptyDirectory, NoArtifact, Directory, Artifact, Record, Executions, DeliveryAssumption
<1>2. TypeOK
  BY <1>1, DeliveryAssumption DEF Init, TypeOK, Jobs, Executions, DeliveryAssumption
<1>3. Consistent(EmptyDirectory)
  BY EmptyFiles
  DEF Consistent, RecordsInFiles, FilesInRecords, RecordedOnce, NoPattern, EmptyDirectory
<1>4. ExecutionsBounded /\ DirectoriesConsistent /\ PushExtends
  BY <1>3 DEF Init, ExecutionsBounded, DirectoriesConsistent, PushExtends
<1>5. NotifiedIsCommitted
  BY DEF Init, NotifiedIsCommitted
<1> QED
  BY <1>2, <1>4, <1>5 DEF IInv

(* A run whose draft job starts: the parts of the invariant about jobs.    *)
LEMMA StartingPreserves ==
  ASSUME IInv, NEW run \in Runs, Start(run) \/ RerunAll(run)
  PROVE  IInv'
<1> USE DEF IInv
<1>1. /\ job' = [job EXCEPT ![run] = "draft"]
      /\ execution' = [execution EXCEPT ![run] = @ + 1]
      /\ UNCHANGED <<artifact, branch, tip, others, checkout, base, messages>>
  BY DEF Start, RerunAll, StartDraft, Goes, Rerun
<1>2. reruns' \in [Runs -> 0 .. MaxReruns] /\ execution[run] \in Nat
      /\ execution[run] + 1 <= reruns'[run] + 1
      /\ \A other \in Runs \ {run} : reruns'[other] = reruns[other]
  <2>1. CASE Start(run)
    BY <2>1 DEF Start, TypeOK, ExecutionsBounded, Executions
  <2>2. CASE RerunAll(run)
    BY <2>2, DeliveryAssumption
    DEF RerunAll, Rerun, TypeOK, ExecutionsBounded, Executions, DeliveryAssumption
  <2> QED
    BY <2>1, <2>2
<1>3. TypeOK'
  <2>1. job' \in [Runs -> Jobs]
    BY <1>1 DEF TypeOK, Jobs
  <2>2. execution' \in [Runs -> Executions]
    <3>1. execution[run] + 1 \in Executions
      BY <1>2, DeliveryAssumption DEF Executions, DeliveryAssumption
    <3>2. execution \in [Runs -> Executions]
      BY DEF TypeOK
    <3> QED
      BY <1>1, <3>1, <3>2
  <2> QED
    BY <1>1, <1>2, <2>1, <2>2 DEF TypeOK
<1>4. ExecutionsBounded'
  BY <1>1, <1>2 DEF ExecutionsBounded, TypeOK
<1>5. DirectoriesConsistent' /\ PushExtends' /\ NotifiedIsCommitted'
  BY <1>1 DEF DirectoriesConsistent, PushExtends, NotifiedIsCommitted, TypeOK
<1> QED
  BY <1>3, <1>4, <1>5

(* Steps that change neither a directory nor a message.                    *)
LEMMA JobStepPreserves ==
  ASSUME IInv, NEW run \in Runs, NEW next \in Jobs \ {"new", "push", "notify"},
         Goes(run, next), job[run] # "new",
         reruns' \in [Runs -> 0 .. MaxReruns],
         \A r \in Runs : reruns'[r] >= reruns[r],
         artifact' \in [Runs -> Artifact],
         UNCHANGED <<execution, branch, tip, others, checkout, base, messages>>
  PROVE  IInv'
<1> USE DEF IInv
<1>1. TypeOK'
  BY DEF TypeOK, Goes
<1>2. ExecutionsBounded'
  <2> SUFFICES ASSUME NEW r \in Runs
               PROVE  /\ execution'[r] <= reruns'[r] + 1
                      /\ job'[r] = "new" => execution'[r] = 0
    BY DEF ExecutionsBounded
  <2>1. execution[r] \in Nat /\ reruns[r] \in Nat /\ reruns'[r] \in Nat
    BY DEF TypeOK, Executions
  <2> QED
    BY <2>1 DEF ExecutionsBounded, Goes, TypeOK
<1>3. DirectoriesConsistent' /\ PushExtends' /\ NotifiedIsCommitted'
  BY DEF DirectoriesConsistent, PushExtends, NotifiedIsCommitted, TypeOK, Goes
<1> QED
  BY <1>1, <1>2, <1>3

LEMMA RerunDeliverPreserves ==
  ASSUME IInv, NEW run \in Runs, RerunDeliver(run)
  PROVE  IInv'
<1>1. reruns' = [reruns EXCEPT ![run] = @ + 1] /\ reruns[run] < MaxReruns
  BY DEF RerunDeliver, Rerun
<1>2. reruns \in [Runs -> 0 .. MaxReruns] /\ artifact \in [Runs -> Artifact]
  BY DEF IInv, TypeOK
<1>3. reruns' \in [Runs -> 0 .. MaxReruns] /\ \A r \in Runs : reruns'[r] >= reruns[r]
  BY <1>1, <1>2, DeliveryAssumption DEF DeliveryAssumption
<1>4. Goes(run, "stage") /\ job[run] # "new"
  BY DEF RerunDeliver
<1>5. UNCHANGED <<execution, artifact, branch, tip, others, checkout, base, messages>>
  BY DEF RerunDeliver, Rerun
<1> QED
  BY <1>2, <1>3, <1>4, <1>5, JobStepPreserves DEF Jobs

LEMMA JobFailsPreserves ==
  ASSUME IInv, NEW run \in Runs, JobFails(run)
  PROVE  IInv'
<1>1. PICK next \in {"draft_failed", "deliver_failed"} : Goes(run, next)
  BY DEF JobFails
<1>2. job[run] # "new"
  BY DEF JobFails, Active
<1>3. reruns \in [Runs -> 0 .. MaxReruns] /\ artifact \in [Runs -> Artifact]
  BY DEF IInv, TypeOK
<1>4. UNCHANGED <<execution, reruns, artifact, branch, tip, others, checkout, base, messages>>
  BY DEF JobFails
<1> QED
  BY <1>1, <1>2, <1>3, <1>4, JobStepPreserves DEF Jobs

LEMMA DraftDonePreserves ==
  ASSUME IInv, NEW run \in Runs, DraftDone(run)
  PROVE  IInv'
<1>1. PICK numbers \in SUBSET Numbers : \E text \in [numbers -> Texts] :
        artifact' = [artifact EXCEPT ![run] =
          [record |-> [execution |-> execution[run],
                       listed |-> [n \in numbers |-> [execution |-> execution[run],
                                                      text |-> text[n]]]],
           files |-> [n \in numbers |-> [execution |-> execution[run],
                                         text |-> text[n]]]]]
  BY DEF DraftDone
<1>2. PICK text \in [numbers -> Texts] :
        artifact' = [artifact EXCEPT ![run] =
          [record |-> [execution |-> execution[run],
                       listed |-> [n \in numbers |-> [execution |-> execution[run],
                                                      text |-> text[n]]]],
           files |-> [n \in numbers |-> [execution |-> execution[run],
                                         text |-> text[n]]]]]
  BY <1>1
<1> DEFINE files == [n \in numbers |-> [execution |-> execution[run], text |-> text[n]]]
<1>3. execution[run] \in Executions /\ artifact \in [Runs -> Artifact]
      /\ reruns \in [Runs -> 0 .. MaxReruns]
  BY DEF IInv, TypeOK
<1>4. files \in [numbers -> Contents]
  BY <1>3, DeliveryAssumption DEF Contents, DeliveryAssumption
<1>5. files \in AttemptFiles
  BY <1>4 DEF AttemptFiles
<1> HIDE DEF files
<1>6. [record |-> [execution |-> execution[run], listed |-> files], files |-> files]
        \in Artifact
  BY <1>3, <1>5 DEF Artifact, Record
<1>7. artifact' = [artifact EXCEPT ![run] =
        [record |-> [execution |-> execution[run], listed |-> files], files |-> files]]
  BY <1>2 DEF files
<1>8. artifact' \in [Runs -> Artifact]
  BY <1>3, <1>6, <1>7
<1>9. Goes(run, "stage") /\ job[run] # "new"
      /\ UNCHANGED <<execution, reruns, branch, tip, others, checkout, base, messages>>
  BY DEF DraftDone
<1>10. \A r \in Runs : reruns'[r] >= reruns[r]
  BY <1>3, <1>9, DeliveryAssumption DEF DeliveryAssumption
<1> QED
  BY <1>3, <1>8, <1>9, <1>10, JobStepPreserves DEF Jobs

LEMMA StagePreserves ==
  ASSUME IInv, NEW run \in Runs, Stage(run)
  PROVE  IInv'
<1> USE DEF IInv
<1> DEFINE staged == Staged(branch[run], artifact[run])
<1>1. branch[run] \in Directory /\ artifact[run] \in Artifact
      /\ tip \in Nat /\ artifact \in [Runs -> Artifact]
      /\ reruns \in [Runs -> 0 .. MaxReruns]
  BY DEF TypeOK
<1>2. CASE /\ Valid(artifact[run]) /\ ~Collides(branch[run], artifact[run])
           /\ checkout' = [checkout EXCEPT ![run] = staged]
           /\ base' = [base EXCEPT ![run] = tip]
           /\ job' = [job EXCEPT ![run] = "push"]
  <2>1. staged \in Directory
    BY <1>1, StagedType
  <2>2. Extended(branch[run], staged) /\ staged.records # <<>>
    BY <1>1, <1>2, StagedExtends
  <2>3. Consistent(staged)
    BY <1>1, <1>2, StagedConsistent DEF DirectoriesConsistent
  <2> HIDE DEF staged
  <2>4. UNCHANGED <<execution, reruns, artifact, branch, tip, others, messages>>
    BY DEF Stage
  <2>5. TypeOK'
    BY <1>1, <1>2, <2>1, <2>4 DEF TypeOK, Jobs
  <2>6. ExecutionsBounded'
    BY <1>2, <2>4 DEF ExecutionsBounded, TypeOK
  <2>7. DirectoriesConsistent'
    BY <1>2, <2>3, <2>4 DEF DirectoriesConsistent, TypeOK
  <2>8. PushExtends'
    <3> SUFFICES ASSUME NEW r \in Runs
                 PROVE  /\ base'[r] <= tip'
                        /\ job'[r] = "push" /\ base'[r] = tip'
                             => Extended(branch'[r], checkout'[r])
                        /\ job'[r] \in {"push", "notify"} => checkout'[r].records # <<>>
                        /\ job'[r] = "notify" => branch'[r] = checkout'[r]
      BY DEF PushExtends
    <3>1. CASE r = run
      BY <3>1, <1>1, <1>2, <2>2, <2>4 DEF TypeOK
    <3>2. CASE r # run
      BY <3>2, <1>2, <2>4 DEF TypeOK, PushExtends
    <3> QED
      BY <3>1, <3>2
  <2>9. NotifiedIsCommitted'
    BY <2>4 DEF NotifiedIsCommitted
  <2> QED
    BY <2>5, <2>6, <2>7, <2>8, <2>9
<1>3. CASE Goes(run, "deliver_failed") /\ UNCHANGED <<checkout, base>>
  <2>1. job[run] # "new"
        /\ UNCHANGED <<execution, reruns, artifact, branch, tip, others, messages>>
    BY DEF Stage
  <2>2. \A r \in Runs : reruns'[r] >= reruns[r]
    BY <1>1, <2>1, DeliveryAssumption DEF DeliveryAssumption
  <2> QED
    BY <1>1, <1>3, <2>1, <2>2, JobStepPreserves DEF Jobs
<1> QED
  BY <1>2, <1>3 DEF Stage, Goes

(* A push that is not rejected extends its directory of the branch.        *)
LEMMA PushExtendsBranch ==
  ASSUME IInv, NEW run \in Runs, Push(run)
  PROVE  \A r \in Runs : Extended(branch[r], branch'[r])
<1> SUFFICES ASSUME NEW r \in Runs PROVE Extended(branch[r], branch'[r])
  OBVIOUS
<1>1. Extended(branch[r], branch[r])
  BY DEF Extended
<1>2. CASE base[run] = tip /\ branch' = [branch EXCEPT ![run] = checkout[run]]
  <2>1. job[run] = "push"
    BY DEF Push
  <2>2. Extended(branch[run], checkout[run])
    BY <1>2, <2>1 DEF IInv, PushExtends
  <2> QED
    BY <1>1, <1>2, <2>2 DEF IInv, TypeOK
<1>3. CASE UNCHANGED branch
  BY <1>1, <1>3
<1> QED
  BY <1>2, <1>3 DEF Push

LEMMA PushPreserves ==
  ASSUME IInv, NEW run \in Runs, Push(run)
  PROVE  IInv'
<1> USE DEF IInv
<1>1. UNCHANGED <<execution, reruns, artifact, others, checkout, base, messages>>
  BY DEF Push
<1>2. CASE /\ base[run] = tip /\ tip' = tip + 1
           /\ branch' = [branch EXCEPT ![run] = checkout[run]]
           /\ job' = [job EXCEPT ![run] = "notify"]
  <2>1. TypeOK'
    <3>1. job' \in [Runs -> Jobs]
      BY <1>2 DEF TypeOK, Jobs
    <3>2. branch' \in [Runs -> Directory] /\ tip' \in Nat
      BY <1>2 DEF TypeOK
    <3> QED
      BY <1>1, <3>1, <3>2 DEF TypeOK
  <2>2. ExecutionsBounded'
    BY <1>1, <1>2 DEF ExecutionsBounded, TypeOK
  <2>3. DirectoriesConsistent'
    BY <1>1, <1>2 DEF DirectoriesConsistent, TypeOK
  <2>4. PushExtends'
    <3> SUFFICES ASSUME NEW r \in Runs
                 PROVE  /\ base'[r] <= tip'
                        /\ job'[r] = "push" /\ base'[r] = tip'
                             => Extended(branch'[r], checkout'[r])
                        /\ job'[r] \in {"push", "notify"} => checkout'[r].records # <<>>
                        /\ job'[r] = "notify" => branch'[r] = checkout'[r]
      BY DEF PushExtends
    <3>1. base[r] \in Nat /\ base[r] <= tip /\ tip \in Nat
      BY DEF TypeOK, PushExtends
    <3>2. base'[r] # tip' /\ base'[r] <= tip'
      BY <1>1, <1>2, <3>1
    <3>3. CASE r = run
      <4>1. job[run] = "push"
        BY DEF Push
      <4> QED
        BY <3>3, <3>2, <4>1, <1>1, <1>2 DEF TypeOK, PushExtends
    <3>4. CASE r # run
      BY <3>4, <3>2, <1>1, <1>2 DEF TypeOK, PushExtends
    <3> QED
      BY <3>3, <3>4
  <2>5. NotifiedIsCommitted'
    BY <1>1, PushExtendsBranch DEF NotifiedIsCommitted, Extended
  <2> QED
    BY <2>1, <2>2, <2>3, <2>4, <2>5
<1>3. CASE Goes(run, "deliver_failed") /\ UNCHANGED <<branch, tip>>
  <2>1. job[run] # "new"
    BY DEF Push
  <2>2. reruns \in [Runs -> 0 .. MaxReruns] /\ artifact \in [Runs -> Artifact]
    BY DEF TypeOK
  <2>3. \A r \in Runs : reruns'[r] >= reruns[r]
    BY <1>1, <2>2, DeliveryAssumption DEF DeliveryAssumption
  <2> QED
    BY <1>1, <1>3, <2>1, <2>2, <2>3, JobStepPreserves DEF Jobs
<1> QED
  BY <1>2, <1>3 DEF Push, Goes, AfterRejectedPush

LEMMA NotifyPreserves ==
  ASSUME IInv, NEW run \in Runs, Notify(run)
  PROVE  IInv'
<1> USE DEF IInv
<1> DEFINE message == [of |-> FirstRecord(checkout[run]), by |-> execution[run]]
<1>1. /\ job[run] = "notify"
      /\ job' = [job EXCEPT ![run] = "done"]
      /\ UNCHANGED <<execution, reruns, artifact, branch, tip, others, checkout, base>>
      /\ \/ messages' = messages
         \/ messages' = [messages EXCEPT ![run] = Append(@, message)]
  BY DEF Notify, Goes
<1>2. checkout[run] \in Directory /\ checkout[run].records # <<>>
      /\ branch[run] = checkout[run]
  BY <1>1 DEF TypeOK, PushExtends
<1>3. /\ checkout[run].records[1] \in Record
      /\ 1 \in DOMAIN checkout[run].records
      /\ FirstRecord(checkout[run]) = checkout[run].records[1]
  BY <1>2 DEF Directory, FirstRecord
<1>4. message \in [of : Record, by : Executions]
  BY <1>3 DEF TypeOK
<1>5. message.of = branch[run].records[1] /\ 1 \in DOMAIN branch[run].records
  BY <1>2, <1>3
<1> HIDE DEF message
<1>6. TypeOK'
  <2>1. messages' \in [Runs -> Seq([of : Record, by : Executions])]
    <3> DEFINE Message == [of : Record, by : Executions]
    <3>1. messages \in [Runs -> Seq(Message)] /\ message \in Message
      BY <1>4 DEF TypeOK
    <3> HIDE DEF Message
    <3>2. messages[run] \in Seq(Message)
      BY <3>1
    <3>3. Append(messages[run], message) \in Seq(Message)
      BY <3>1, <3>2
    <3>4. messages' \in [Runs -> Seq(Message)]
      BY <1>1, <3>1, <3>3
    <3> QED
      BY <3>4 DEF Message
  <2>2. job' \in [Runs -> Jobs]
    BY <1>1 DEF TypeOK, Jobs
  <2> QED
    BY <1>1, <2>1, <2>2 DEF TypeOK
<1>7. ExecutionsBounded' /\ DirectoriesConsistent' /\ PushExtends'
  BY <1>1 DEF ExecutionsBounded, DirectoriesConsistent, PushExtends, TypeOK
<1>8. NotifiedIsCommitted'
  <2>1. CASE messages' = messages
    BY <1>1, <2>1 DEF NotifiedIsCommitted
  <2>2. CASE messages' = [messages EXCEPT ![run] = Append(@, message)]
    <3> SUFFICES ASSUME NEW r \in Runs, NEW i \in DOMAIN messages'[r]
                 PROVE  \E k \in DOMAIN branch[r].records :
                          branch[r].records[k] = messages'[r][i].of
      BY <1>1 DEF NotifiedIsCommitted
    <3>1. CASE r # run
      BY <3>1, <2>2 DEF NotifiedIsCommitted, TypeOK
    <3>2. CASE r = run
      <4>1. messages[run] \in Seq([of : Record, by : Executions])
            /\ messages'[run] = Append(messages[run], message)
        BY <2>2 DEF TypeOK
      <4>2. \/ i \in DOMAIN messages[run] /\ messages'[run][i] = messages[run][i]
            \/ messages'[run][i] = message
        BY <3>2, <4>1, <1>4
      <4> QED
        BY <3>2, <4>2, <1>5 DEF NotifiedIsCommitted
    <3> QED
      BY <3>1, <3>2
  <2> QED
    BY <1>1, <2>1, <2>2
<1> QED
  BY <1>6, <1>7, <1>8

LEMMA OtherPushPreserves ==
  ASSUME IInv, OtherPush
  PROVE  IInv'
<1> USE DEF IInv
<1>1. tip' = tip + 1 /\ others' = others + 1 /\ others < MaxOthers
      /\ UNCHANGED <<job, execution, reruns, artifact, branch, checkout, base, messages>>
  BY DEF OtherPush
<1>2. TypeOK'
  <2>1. others' \in 0 .. MaxOthers /\ tip' \in Nat
    BY <1>1, DeliveryAssumption DEF TypeOK, DeliveryAssumption
  <2> QED
    BY <1>1, <2>1 DEF TypeOK
<1>3. PushExtends'
  <2> SUFFICES ASSUME NEW r \in Runs
               PROVE  /\ base[r] <= tip + 1 /\ base[r] # tip + 1
                      /\ job[r] \in {"push", "notify"} => checkout[r].records # <<>>
                      /\ job[r] = "notify" => branch[r] = checkout[r]
    BY <1>1 DEF PushExtends
  <2>1. base[r] \in Nat /\ tip \in Nat /\ base[r] <= tip
    BY DEF TypeOK, PushExtends
  <2> QED
    BY <2>1 DEF PushExtends
<1>4. ExecutionsBounded' /\ DirectoriesConsistent' /\ NotifiedIsCommitted'
  BY <1>1 DEF ExecutionsBounded, DirectoriesConsistent, NotifiedIsCommitted
<1> QED
  BY <1>2, <1>3, <1>4

LEMMA NextPreserves == IInv /\ [Next]_vars => IInv'
<1> SUFFICES ASSUME IInv, [Next]_vars PROVE IInv'
  OBVIOUS
<1>1. CASE UNCHANGED vars
  BY <1>1 DEF vars, IInv, TypeOK, ExecutionsBounded, DirectoriesConsistent, PushExtends,
              NotifiedIsCommitted
<1>2. CASE OtherPush
  BY <1>2, OtherPushPreserves
<1>3. ASSUME NEW run \in Runs,
             \/ Start(run) \/ RerunAll(run) \/ RerunDeliver(run) \/ DraftDone(run)
             \/ Stage(run) \/ Push(run) \/ Notify(run) \/ JobFails(run)
      PROVE  IInv'
  BY <1>3, StartingPreserves, RerunDeliverPreserves, DraftDonePreserves, StagePreserves,
     PushPreserves, NotifyPreserves, JobFailsPreserves
<1> QED
  BY <1>1, <1>2, <1>3 DEF Next

(***************************************************************************)
(* The inductive invariant holds in every reachable state.                 *)
(***************************************************************************)
THEOREM Invariance == Spec => []IInv
BY InitEstablishes, NextPreserves, PTL DEF Spec

(***************************************************************************)
(* Every variable has its type (the state of the three jobs).              *)
(***************************************************************************)
THEOREM TypeCorrect == Spec => []TypeOK
<1>1. IInv => TypeOK
  BY DEF IInv
<1> QED
  BY <1>1, Invariance, PTL

(***************************************************************************)
(* The directories of registry-data agree with their records, and no       *)
(* execution is recorded twice, whatever is re-run (deliver.py,            *)
(* validate_artifact and stage).                                           *)
(***************************************************************************)
THEOREM CommittedMatchesRecords == Spec => []RecordsMatchFiles
<1>1. IInv => RecordsMatchFiles
  BY DEF IInv, DirectoriesConsistent, Consistent, RecordsInFiles, FilesInRecords,
         RecordedOnce, RecordsMatchFiles
<1> QED
  BY <1>1, Invariance, PTL

(***************************************************************************)
(* No committed file matches a secret pattern (the scan of                 *)
(* validate_artifact).                                                     *)
(***************************************************************************)
THEOREM NoPatternIsCommitted == Spec => []NoPatternCommitted
<1>1. IInv => NoPatternCommitted
  BY DEF IInv, DirectoriesConsistent, Consistent, NoPattern, NoPatternCommitted
<1> QED
  BY <1>1, Invariance, PTL

(***************************************************************************)
(* The owner is notified only of records that registry-data holds          *)
(* (runtime_workflow.example.yml, the order of push and notification).     *)
(***************************************************************************)
THEOREM NotificationsTrue == Spec => []NotifiedIsCommitted
<1>1. IInv => NotifiedIsCommitted
  BY DEF IInv
<1> QED
  BY <1>1, Invariance, PTL

(* No step changes or removes what a directory of the branch holds.        *)
LEMMA StepExtendsBranch ==
  ASSUME IInv, [Next]_vars
  PROVE  \A run \in Runs : Extended(branch[run], branch'[run])
<1>1. CASE UNCHANGED branch
  BY <1>1 DEF Extended
<1>2. ASSUME NEW run \in Runs, Push(run)
      PROVE  \A r \in Runs : Extended(branch[r], branch'[r])
  BY <1>2, PushExtendsBranch
<1>3. \/ UNCHANGED branch
      \/ \E run \in Runs : Push(run)
  BY DEF Next, vars, Start, RerunAll, RerunDeliver, Rerun, DraftDone, Stage, Notify,
         JobFails, OtherPush
<1> QED
  BY <1>1, <1>2, <1>3

(***************************************************************************)
(* What registry-data holds stays as it is, whatever is re-run and whoever *)
(* pushes in between (SPEC.md M9 requirement 50).                          *)
(***************************************************************************)
THEOREM CommittedIsImmutable == Spec => FilesImmutable
<1>1. IInv /\ [Next]_vars => \A run \in Runs : Extended(branch[run], branch'[run])
  BY StepExtendsBranch
<1>2. IInv /\ [Next]_vars =>
        [\A run \in Runs :
           /\ \A n \in DOMAIN branch[run].files :
                n \in DOMAIN branch'[run].files
                  /\ branch'[run].files[n] = branch[run].files[n]
           /\ \A i \in DOMAIN branch[run].records :
                i \in DOMAIN branch'[run].records
                  /\ branch'[run].records[i] = branch[run].records[i]]_vars
  BY <1>1 DEF Extended
<1> QED
  BY <1>2, Invariance, PTL DEF Spec, FilesImmutable

==============================================================================
