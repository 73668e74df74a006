------------------------- MODULE PublicationRegistry -------------------------
(***************************************************************************)
(* The Publication Registry: one JSON file per content_id, written once    *)
(* and never overwritten (publication_registry/contract.py, writer.py).    *)
(*                                                                         *)
(* The module has no state of its own: a registry is a function from       *)
(* content ids to file contents, kept by whoever owns the directory (a     *)
(* runner's checkout, or the registry-data branch).  What a file holds is  *)
(* abstracted to the fields write_record compares: content_id is the key,  *)
(* platform, gate_policy and gate_version are the same in every record     *)
(* this pipeline builds, and the two timestamps are not compared.          *)
(***************************************************************************)
CONSTANTS
  Urls,      (* Post URLs LinkedIn can hand out.                           *)
  NoUrl,     (* The empty url of a block record.                           *)
  Claims,    (* Claim ids (unit ids).                                      *)
  NoClaim,   (* Stands for "no claim" in files that hold no record.        *)
  Reasons,   (* Texts a block_reason can have.                             *)
  NoReason   (* block_reason = None.                                       *)

(***************************************************************************)
(* The contents of one {content_id}.json: no file, a file that does not    *)
(* parse as a PublicationRecord (an interrupted write leaves one), a pass  *)
(* record or a block record.  The last two are all that                    *)
(* PublicationRecord's validator admits: a block record has a              *)
(* block_reason and a pass record has none.                                *)
(***************************************************************************)
Absent ==
  [kind |-> "absent", url |-> NoUrl, claim |-> NoClaim, reason |-> NoReason]

Unreadable ==
  [kind |-> "unreadable", url |-> NoUrl, claim |-> NoClaim, reason |-> NoReason]

PassRecord(url, claim) ==
  [kind |-> "pass", url |-> url, claim |-> claim, reason |-> NoReason]

BlockRecord(claim, reason) ==
  [kind |-> "block", url |-> NoUrl, claim |-> claim, reason |-> reason]

Record ==
  [kind : {"pass"}, url : Urls, claim : Claims, reason : {NoReason}]
    \cup [kind : {"block"}, url : {NoUrl}, claim : Claims, reason : Reasons]

File == Record \cup {Absent, Unreadable}

(* A wrong ReadRaises: an unreadable file read as no record. *)
UnreadableIsNone(file) == FALSE

(***************************************************************************)
(* read_record: None for a missing file, the record for a readable one,    *)
(* an exception for an unreadable one.                                     *)
(***************************************************************************)
ReadRaises(file) == file.kind = "unreadable"

(* A wrong AlreadyPublished: the guard is dropped. *)
NeverPublished(file) == FALSE
(* The guard's test: a pass record means published, a block record does not. *)
AlreadyPublished(file) == file.kind = "pass"

(* A wrong WriteResult: an existing file is overwritten. *)
WriteResultUnchecked(file, record) == "created"

(***************************************************************************)
(* What write_record does: it creates the file, or finds one that agrees,  *)
(* or raises.  Agreement is equality here: every compared field is part of *)
(* the abstract record.  Unless it raises, the file then holds the record. *)
(***************************************************************************)
WriteResult(file, record) ==
  CASE file = Absent -> "created"
    [] file = Unreadable -> "conflict"
    [] file \notin {Absent, Unreadable} /\ file = record -> "agrees"
    [] OTHER -> "conflict"

Written(file, record) == WriteResult(file, record) \in {"created", "agrees"}

(***************************************************************************)
(* write_record is not atomic: open(..., "w") creates an empty file before *)
(* the text reaches it.  A failure before the open leaves no file, one     *)
(* after it leaves a file that cannot be parsed.  An existing file is only *)
(* read, so it survives.                                                   *)
(***************************************************************************)
InterruptedWrites(file) ==
  IF file = Absent THEN {Absent, Unreadable} ELSE {file}

==============================================================================
