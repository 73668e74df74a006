------------------------------ MODULE OwnerTools ------------------------------
(***************************************************************************)
(* The tools the owner runs by hand in one checkout, and what they leave   *)
(* in it for each other: the selection of atoms, the artifacts of a Claim  *)
(* Extraction pilot, the searches for its claims, the Strategy Layer's     *)
(* verdicts on a manifest, and Owner Verdicts.                             *)
(*                                                                         *)
(* One of them runs at a time, and can die at any step.                    *)
(***************************************************************************)
EXTENDS EvidenceSearch, StrategyPilot, OwnerVerdict, SequencesExt

CONSTANTS
  Sizes,        (* The n of select_pilot_atoms.                            *)
  MaxStarts     (* Bound: tools started.                                   *)

ASSUME ToolsAssumption == Sizes \subseteq Nat /\ MaxStarts \in Nat

VARIABLE starts

vars == <<clock, selectionVars, pilotVars, searchVars, strategyVars, ownerVars, starts>>

Init ==
  /\ clock = 1
  /\ SelectionInit
  /\ PilotInit
  /\ SearchInit
  /\ StrategyInit
  /\ OwnerInit
  /\ starts = 0

-----------------------------------------------------------------------------
(* Who runs code. *)
Selecting == selector.stage # "idle"
Building == builder.stage # "idle"
Searching == session.stage = "searching"
Piloting == pilot.stage # "idle"
Recording == recorder.stage # "idle"

Working == Selecting \/ Building \/ Searching \/ Piloting \/ Recording

(* The claims file of a selection: what a session says of its atoms, or of *)
(* another list, reversed or with one left out.                            *)
AtomLists(selection) ==
  {selection.atoms, Reverse(selection.atoms),
   SubSeq(selection.atoms, 2, Len(selection.atoms))}

ClaimFiles(selection) ==
  UNION {{[i \in DOMAIN atoms |-> [atom |-> atoms[i], extraction |-> said[i]]] :
            said \in [DOMAIN atoms -> Extractions]} : atoms \in AtomLists(selection)}

(* A tool is started. *)
StartTool ==
  /\ ~Working /\ session.stage = "idle"
  /\ starts < MaxStarts
  /\ starts' = starts + 1
  /\ \/ /\ \E n \in Sizes : StartSelection(n)
        /\ UNCHANGED <<pilotVars, searchVars, strategyVars, ownerVars>>
     \/ /\ \E s \in DOMAIN selections : \E claims \in ClaimFiles(selections[s]) :
             StartBuild(selections[s], claims) \/ RefuseBuild(selections[s], claims)
        /\ UNCHANGED <<clock, selectionVars, searchVars, strategyVars, ownerVars>>
     \/ /\ \/ OpenRaises
           \/ \E budget \in RunBudgets, translate, counts_failures \in BOOLEAN :
                OpenSession(budget, translate, counts_failures)
        /\ UNCHANGED <<clock, selectionVars, pilotVars, strategyVars, ownerVars>>
     \/ /\ \E stamp \in Stamps :
             \/ PilotRefused(stamp)
             \/ \E script \in Scripts, manifest \in Manifests, token \in BOOLEAN,
                   answers \in ManifestAnswers :
                  StartPilot(script, manifest, token, answers, stamp)
        /\ UNCHANGED <<selectionVars, pilotVars, searchVars, ownerVars>>
     \/ /\ \E record \in VerdictRecord, id \in VerdictIds : StartVerdict(record, id)
        /\ UNCHANGED <<clock, selectionVars, pilotVars, searchVars, strategyVars>>

(* The started tool takes its next step. *)
ToolStep ==
  /\ UNCHANGED starts
  /\ \/ /\ SelectionStep
        /\ UNCHANGED <<pilotVars, searchVars, strategyVars, ownerVars>>
     \/ /\ PilotStep
        /\ UNCHANGED <<clock, selectionVars, searchVars, strategyVars, ownerVars>>
     \/ /\ SearchStep
        /\ UNCHANGED <<clock, selectionVars, pilotVars, strategyVars, ownerVars>>
     \/ /\ StrategyStep
        /\ UNCHANGED <<selectionVars, pilotVars, searchVars, ownerVars>>
     \/ /\ OwnerStep
        /\ UNCHANGED <<clock, selectionVars, pilotVars, searchVars, strategyVars>>

(* The owner's session retries a claim or is closed. *)
SessionStep ==
  /\ Retry \/ CloseSession
  /\ UNCHANGED <<clock, selectionVars, pilotVars, strategyVars, ownerVars, starts>>

(* A tool dies: interrupted, or the machine goes down. *)
ToolDies ==
  /\ UNCHANGED starts
  /\ \/ /\ SelectorDies
        /\ UNCHANGED <<pilotVars, searchVars, strategyVars, ownerVars>>
     \/ /\ BuilderDies
        /\ UNCHANGED <<clock, selectionVars, searchVars, strategyVars, ownerVars>>
     \/ /\ SessionDies
        /\ UNCHANGED <<clock, selectionVars, pilotVars, strategyVars, ownerVars>>
     \/ /\ PilotDies
        /\ UNCHANGED <<selectionVars, pilotVars, searchVars, ownerVars>>
     \/ /\ RecorderDies
        /\ UNCHANGED <<clock, selectionVars, pilotVars, searchVars, strategyVars>>

Next == StartTool \/ ToolStep \/ SessionStep \/ ToolDies

(* Each tool is a sequential program whose remote calls end. *)
Spec == Init /\ [][Next]_vars /\ WF_vars(ToolStep)

-----------------------------------------------------------------------------
TypeOK ==
  /\ SelectionTypeOK
  /\ PilotTypeOK
  /\ session \in Session
  /\ searches \in Searches
  /\ StrategyTypeOK
  /\ OwnerTypeOK
  /\ starts \in 0 .. MaxStarts

(* Every started tool ends, or hands over to the owner.  For               *)
(* select_pilot_atoms that is what the bound on attempts is for            *)
(* (select_pilot_atoms.py, MAX_ATTEMPTS_MULTIPLIER).                       *)
ToolsEnd == Working ~> ~Working

-----------------------------------------------------------------------------
(* Immutable Lineage: the files of all these tools together implement      *)
(* WriteOnceFiles.                                                         *)
Names == PilotNames \cup ({"verdict"} \X Stamps) \cup ({"owner"} \X VerdictNames)

FileOf(name) ==
  CASE name[1] \in Kinds -> pilot_files[name]
    [] name[1] = "verdict" -> verdicts[name[2]]
    [] name[1] = "owner" -> verdict_files[name[2]]

OpenNames ==
  {name \in {BuilderName} : builder.stage = "write"}
  \cup (IF pilot.stage = "write" THEN {<<"verdict", pilot.run_id>>} ELSE {})
  \cup (IF recorder.stage = "write" THEN {<<"owner", RecorderName>>} ELSE {})

WriteOnce == INSTANCE WriteOnceFiles WITH
  files <- [name \in Names |-> FileOf(name)], open <- OpenNames

FilesWrittenOnce == WriteOnce!Spec

==============================================================================
