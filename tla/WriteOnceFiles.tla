---------------------------- MODULE WriteOnceFiles ----------------------------
(***************************************************************************)
(* What "Immutable Lineage" (docs/adr D-011) asks of the files the owner's *)
(* tools leave: a name is created once, by one tool, which alone may       *)
(* complete it; once that tool is gone the file never changes, whole or    *)
(* torn.                                                                   *)
(***************************************************************************)
EXTENDS ToolFile

CONSTANT Names

VARIABLES
  files,    (* Every name's file.                                          *)
  open      (* The names being written by a live tool.                     *)

Init ==
  /\ files = [name \in Names |-> Absent]
  /\ open = {}

Create(name) ==
  /\ files[name] = Absent
  /\ files' = [files EXCEPT ![name] = Torn]
  /\ open' = open \cup {name}

Complete(name) ==
  /\ name \in open
  /\ IsWhole(files'[name])
  /\ files' = [files EXCEPT ![name] = files'[name]]
  /\ open' = open \ {name}

(* The tool dies; what it was writing stays as it is. *)
Abandon(name) ==
  /\ name \in open
  /\ open' = open \ {name}
  /\ files' = files

Next == \E name \in Names : Create(name) \/ Complete(name) \/ Abandon(name)

Spec == Init /\ [][Next]_<<files, open>>

==============================================================================
