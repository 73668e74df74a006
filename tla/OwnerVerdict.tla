----------------------------- MODULE OwnerVerdict -----------------------------
(***************************************************************************)
(* Owner Verdicts (verdict/writer.py, contract.py): an append-only stream  *)
(* of records per content_id, one new file per record, that                *)
(* read_verdicts() lists in the order of received_at.                      *)
(*                                                                         *)
(* A record id is a fresh uuid4.  verdict_type and comment are left out.   *)
(* received_at is the caller's, with or without a time zone.               *)
(***************************************************************************)
EXTENDS Functions, FiniteOrder, ToolFile

CONSTANTS
  Contents,       (* content_ids of publications.                          *)
  VerdictIds,     (* Bound: ids that are drawn.                            *)
  Times           (* received_at.                                          *)

ASSUME VerdictAssumption == IsFiniteSet(VerdictIds) /\ Times \subseteq Nat

VerdictRecord == [content_id : Contents, received_at : Times, zone : BOOLEAN]

VerdictNames == Contents \X VerdictIds

VARIABLES
  recorder,       (* the write_verdict under way                           *)
  verdict_files,  (* verdict/output/<content_id>/<record_id>.json          *)
  recorded        (* history: the names write_verdict wrote to the end,    *)
                  (* with their records; it returns next, and a death in   *)
                  (* between leaves the file                               *)

ownerVars == <<recorder, verdict_files, recorded>>

NoVerdict == [stage |-> "idle"]

Recorder == {NoVerdict} \cup
  [stage : {"create", "write"}, record : VerdictRecord, id : VerdictIds]

OwnerInit ==
  /\ recorder = NoVerdict
  /\ verdict_files = [name \in VerdictNames |-> Absent]
  /\ recorded = {}

OwnerTypeOK ==
  /\ recorder \in Recorder
  /\ verdict_files \in [VerdictNames ->
       {Absent, Torn} \cup [state : {"whole"}, body : VerdictRecord]]
  /\ recorded \subseteq VerdictNames \X VerdictRecord

-----------------------------------------------------------------------------
(* The files of a content_id's directory. *)
Listed(content_id) == {id \in VerdictIds : Exists(verdict_files[<<content_id, id>>])}

(* uuid4().hex *)
FreshId(id) == \A content_id \in Contents : id \notin Listed(content_id)

StartVerdict(record, id) ==
  /\ recorder.stage = "idle"
  /\ FreshId(id)
  /\ recorder' = [stage |-> "create", record |-> record, id |-> id]
  /\ UNCHANGED <<verdict_files, recorded>>

RecorderName == <<recorder.record.content_id, recorder.id>>

CreateVerdict ==
  /\ recorder.stage = "create"
  /\ verdict_files' = [verdict_files EXCEPT ![RecorderName] = Torn]
  /\ recorder' = [recorder EXCEPT !.stage = "write"]
  /\ UNCHANGED recorded

WriteVerdict ==
  /\ recorder.stage = "write"
  /\ verdict_files' = [verdict_files EXCEPT ![RecorderName] = Whole(recorder.record)]
  /\ recorder' = NoVerdict
  /\ recorded' = recorded \cup {<<RecorderName, recorder.record>>}

RecorderDies ==
  /\ recorder.stage # "idle"
  /\ recorder' = NoVerdict
  /\ UNCHANGED <<verdict_files, recorded>>

OwnerStep == CreateVerdict \/ WriteVerdict

-----------------------------------------------------------------------------
(* What read_verdicts finds: a torn file is no JSON, and sorted() cannot   *)
(* compare a time that has a zone with one that has none.                  *)
ReadRaises(content_id) ==
  LET found == {verdict_files[<<content_id, id>>] : id \in Listed(content_id)}
  IN \/ Torn \in found
     \/ \E one, other \in found : one.body.zone # other.body.zone

(* A wrong Before: the order of the file names. *)
BeforeByName(content_id, one, other) == one < other

(* The key of sorted(). *)
Before(content_id, one, other) ==
  verdict_files[<<content_id, one>>].body.received_at
    < verdict_files[<<content_id, other>>].body.received_at

(* os.listdir gives any order. *)
Readings(content_id) ==
  Bijection(1 .. Cardinality(Listed(content_id)), Listed(content_id))

(* read_verdicts of what was listed, as the sequence of the records' ids;  *)
(* the sort is stable.                                                     *)
Sorting(content_id, listing) ==
  {pair \in (DOMAIN listing) \X (DOMAIN listing) :
     \/ Before(content_id, listing[pair[1]], listing[pair[2]])
     \/ /\ ~Before(content_id, listing[pair[2]], listing[pair[1]])
        /\ pair[1] < pair[2]}

ReadVerdicts(content_id, listing) ==
  LET positions == InOrder(DOMAIN listing, Sorting(content_id, listing))
  IN [n \in DOMAIN positions |-> listing[positions[n]]]

(***************************************************************************)
(* A reader that is answered gets every Owner Verdict of the content that  *)
(* was ever recorded, each once and as it was recorded, in the order they  *)
(* were received, whatever order the directory lists them in; it is        *)
(* refused only for a file that is torn, or while the times of two records *)
(* cannot be compared (writer.py).                                         *)
(***************************************************************************)
VerdictStream ==
  \A content_id \in Contents : ~ReadRaises(content_id) =>
    \A listing \in Readings(content_id) :
      LET verdicts == ReadVerdicts(content_id, listing)
          record(i) == verdict_files[<<content_id, verdicts[i]>>].body
          entries == {entry \in recorded : entry[1][1] = content_id}
      IN /\ {<<<<content_id, verdicts[i]>>, record(i)>> : i \in DOMAIN verdicts} = entries
         /\ Len(verdicts) = Cardinality(entries)
         /\ \A i, j \in DOMAIN verdicts : i < j => record(i).received_at <= record(j).received_at

==============================================================================
