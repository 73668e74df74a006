--------------------------- MODULE PublicationLedger ---------------------------
(***************************************************************************)
(* What the Registry promises about publications, apart from how the       *)
(* workflow keeps the promise: a date may be posted while it has no        *)
(* record, a record names a post that was really made for its date, and a  *)
(* recorded date is closed.  Posts that never get recorded are allowed:    *)
(* ADR-0067 accepts a confirmed post whose record did not persist.         *)
(***************************************************************************)
CONSTANTS Dates, Posts, NoPost

VARIABLES
  posted,    (* the posts made for each date                               *)
  recorded   (* the post each date's record names                          *)

Init ==
  /\ posted = [d \in Dates |-> {}]
  /\ recorded = [d \in Dates |-> NoPost]

Publish(d, p) ==
  /\ recorded[d] = NoPost
  /\ \A e \in Dates : p \notin posted[e]
  /\ posted' = [posted EXCEPT ![d] = @ \cup {p}]
  /\ UNCHANGED recorded

Record(d, p) ==
  /\ recorded[d] = NoPost
  /\ p \in posted[d]
  /\ recorded' = [recorded EXCEPT ![d] = p]
  /\ UNCHANGED posted

Next == \E d \in Dates, p \in Posts : Publish(d, p) \/ Record(d, p)

Spec == Init /\ [][Next]_<<posted, recorded>>

==============================================================================
