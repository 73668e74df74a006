------------------------------- MODULE ToolFile -------------------------------
(***************************************************************************)
(* A file one of the owner's tools writes with open(path, "w") and         *)
(* json.dump: it exists and is torn from the moment it is opened until all *)
(* of it is written, and stays torn when the tool dies in between.         *)
(***************************************************************************)

Absent == [state |-> "absent"]
Torn == [state |-> "torn"]
Whole(body) == [state |-> "whole", body |-> body]

Exists(file) == file.state # "absent"
IsWhole(file) == file.state = "whole"

==============================================================================
