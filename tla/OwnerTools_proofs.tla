-------------------------- MODULE OwnerTools_proofs --------------------------
(***************************************************************************)
(* Theorems about OwnerTools, for every graph of cards, set of clusters,   *)
(* manifest, verdict, budget and bound: the rotation is fair whatever      *)
(* dies, the tools' files together implement WriteOnceFiles, a log is true *)
(* of its run file, every search is accounted for, a digest is of its      *)
(* run's verdict, and read_verdicts answers with all that was recorded.    *)
(*                                                                         *)
(* The refinement rests on what each tool knows of its own file between    *)
(* its check and its creation: nobody else creates it, so that it is still *)
(* absent.  The log rests on the atoms of a selection being distinct; the  *)
(* searches on the session's total being at its budget from the first      *)
(* claim that is left pending.  The digest rests on what the pipeline says *)
(* of units being a function of them (VerdictOn), so that what a pilot     *)
(* holds is what it has written; the stream on the recorded ones being     *)
(* those whose files are whole.                                            *)
(***************************************************************************)
EXTENDS OwnerTools, AtomSelection_proofs

LEMMA StampMoves == \A stamp : Stamp(stamp) => clock' \in Stamps
BY DEF Stamp

LEMMA RotationStep ==
  ASSUME SelectionInv, [Next]_vars
  PROVE  SelectionInv'
<1>1. CASE UNCHANGED <<selectionVars, clock>>
  BY <1>1, OthersKeep DEF SelectionInv, SelectionTypeOK
<1>2. ASSUME UNCHANGED selectionVars, clock' \in Stamps PROVE SelectionInv'
  BY <1>2, OthersKeep
<1>3. CASE UNCHANGED vars
  BY <1>1, <1>3 DEF vars
<1>4. CASE StartTool
  <2>1. ASSUME NEW n \in Sizes, StartSelection(n) PROVE SelectionInv'
    <3>1. n \in Nat
      BY ToolsAssumption DEF ToolsAssumption
    <3> QED
      BY <2>1, <3>1, StartKeeps
  <2>2. \/ \E n \in Sizes : StartSelection(n)
        \/ UNCHANGED <<selectionVars, clock>>
        \/ UNCHANGED selectionVars /\ clock' \in Stamps
    BY <1>4, StampMoves DEF StartTool, PilotRefused, StartPilot
  <2> QED
    BY <1>1, <1>2, <2>1, <2>2
<1>5. CASE ToolStep
  <2>1. \/ SelectionStep
        \/ UNCHANGED <<selectionVars, clock>>
    BY <1>5 DEF ToolStep, StrategyStep, CreateVerdictFile, WriteVerdictFile,
                PrintDigest, DigestRefused
  <2> QED
    BY <1>1, <2>1, SelectionStepKeeps
<1>6. CASE SessionStep
  BY <1>1, <1>6 DEF SessionStep
<1>7. CASE ToolDies
  <2>1. SelectorDies \/ UNCHANGED <<selectionVars, clock>>
    BY <1>7 DEF ToolDies, PilotDies
  <2> QED
    BY <1>1, <2>1, EndKeeps
<1> QED
  BY <1>3, <1>4, <1>5, <1>6, <1>7 DEF Next

LEMMA RotationInvariant == Spec => []SelectionInv
<1>1. Init => SelectionInv
  BY SelectionInitInv DEF Init
<1>2. SelectionInv /\ [Next]_vars => SelectionInv'
  BY RotationStep
<1> QED
  BY <1>1, <1>2, PTL DEF Spec

(***************************************************************************)
(* No cluster with atoms is ever picked two times more than another one,   *)
(* whichever selections were cut short, raised or gave up, and whatever    *)
(* clusters are empty (atom_selector.py, last_cluster_index).              *)
(***************************************************************************)
THEOREM RotationIsFair == Spec => []RotationBalanced
BY RotationInvariant, SelectionInvBalances, PTL

-----------------------------------------------------------------------------
(* Immutable Lineage. *)

IsToolFile(file) == file = Absent \/ file = Torn \/ IsWhole(file)

LEMMA FileStates ==
  /\ IsToolFile(Absent) /\ IsToolFile(Torn)
  /\ \A body : IsToolFile(Whole(body)) /\ IsWhole(Whole(body))
  /\ \A file : IsToolFile(file) /\ ~Exists(file) => file = Absent
  /\ \A file : IsWhole(file) => IsToolFile(file)
BY DEF IsToolFile, IsWhole, Exists, Absent, Torn, Whole

(* What WriteOnceFiles allows a step to do to some names' files. *)
Moves(old, new, was, is, names) ==
  \/ new = old /\ is = was
  \/ \E name \in names : /\ old[name] = Absent
                         /\ new = [old EXCEPT ![name] = Torn]
                         /\ is = was \cup {name}
  \/ \E name \in names : /\ name \in was
                         /\ IsWhole(new[name])
                         /\ new = [old EXCEPT ![name] = new[name]]
                         /\ is = was \ {name}
  \/ \E name \in names : name \in was /\ new = old /\ is = was \ {name}

(* A step of one tool's files is a step of all the files. *)
LEMMA MovesLift ==
  ASSUME NEW N, NEW P \in SUBSET N,
         NEW all, NEW all1, NEW part, NEW part1,
         all = [name \in N |-> all[name]], all1 = [name \in N |-> all1[name]],
         part = [name \in P |-> part[name]],
         \A name \in P : all[name] = part[name] /\ all1[name] = part1[name],
         \A name \in N \ P : all1[name] = all[name],
         NEW was \in SUBSET P, NEW is, NEW rest, rest \cap P = {},
         Moves(part, part1, was, is, P)
  PROVE  Moves(all, all1, was \cup rest, is \cup rest, N)
<1>1. CASE part1 = part /\ is = was
  <2>1. all1 = all
    BY <1>1
  <2> QED
    BY <1>1, <2>1 DEF Moves
<1>2. ASSUME NEW name \in P, part[name] = Absent, part1 = [part EXCEPT ![name] = Torn],
             is = was \cup {name}
      PROVE  Moves(all, all1, was \cup rest, is \cup rest, N)
  <2>1. all1 = [all EXCEPT ![name] = Torn]
    BY <1>2
  <2>2. all[name] = Absent /\ is \cup rest = (was \cup rest) \cup {name} /\ name \in N
    BY <1>2
  <2> QED
    BY <2>1, <2>2 DEF Moves
<1>3. ASSUME NEW name \in P, name \in was, IsWhole(part1[name]),
             part1 = [part EXCEPT ![name] = part1[name]], is = was \ {name}
      PROVE  Moves(all, all1, was \cup rest, is \cup rest, N)
  <2>1. \A other \in P \ {name} : part1[other] = part[other]
    BY <1>3
  <2>2. all1 = [all EXCEPT ![name] = all1[name]]
    BY <1>3, <2>1
  <2>3. /\ IsWhole(all1[name]) /\ name \in was \cup rest /\ name \in N
        /\ is \cup rest = (was \cup rest) \ {name}
    BY <1>3
  <2> QED
    BY <2>2, <2>3 DEF Moves
<1>4. ASSUME NEW name \in P, name \in was, part1 = part, is = was \ {name}
      PROVE  Moves(all, all1, was \cup rest, is \cup rest, N)
  <2>1. all1 = all
    BY <1>4
  <2>2. /\ name \in was \cup rest /\ name \in N
        /\ is \cup rest = (was \cup rest) \ {name}
    BY <1>4
  <2> QED
    BY <2>1, <2>2 DEF Moves
<1> QED
  BY <1>1, <1>2, <1>3, <1>4 DEF Moves

-----------------------------------------------------------------------------
(* build_pilot_output: its log is absent until its run file is written.    *)
BuilderOpen == {name \in {BuilderName} : builder.stage = "write"}

BuilderInv ==
  /\ pilot_files = [name \in PilotNames |-> pilot_files[name]]
  /\ DOMAIN builder = {"stage", "stamp", "at", "output"}
  /\ \A name \in PilotNames : IsToolFile(pilot_files[name])
  /\ builder.stage # "idle" =>
       /\ builder.stamp \in Stamps
       /\ builder.at \in {1, 2}
       /\ \A kind \in Kinds : IsWhole(builder.output[kind])
       /\ builder.stage = "create" => pilot_files[BuilderName] = Absent
       /\ builder.at = 1 => pilot_files[<<"log", builder.stamp>>] = Absent

BuilderMoves ==
  Moves(pilot_files, pilot_files', BuilderOpen, BuilderOpen', PilotNames)

LEMMA BuilderNameType ==
  ASSUME builder.stamp \in Stamps
  PROVE  BuilderName \in PilotNames
BY DEF BuilderName, KindAt, PilotNames, Kinds

LEMMA BuilderStep ==
  ASSUME SelectionInv, BuilderInv, [Next]_vars
  PROVE  BuilderInv' /\ BuilderMoves
<1>1. CASE UNCHANGED pilotVars
  <2>1. BuilderOpen' = BuilderOpen
    BY <1>1 DEF pilotVars, BuilderOpen, BuilderName
  <2> QED
    BY <1>1, <2>1 DEF pilotVars, BuilderInv, BuilderName, BuilderMoves, Moves
<1>2. ASSUME NEW s \in DOMAIN selections, NEW claims, StartBuild(selections[s], claims)
      PROVE  BuilderInv' /\ BuilderMoves
  <2> DEFINE stamp == selections[s].stamp
             output == [run |-> Whole(PilotRun(selections[s], claims)),
                        log |-> Whole(PilotLog(selections[s], claims))]
  <2>1. stamp \in Stamps
    <3>1. selections \in Seq(Selection)
      BY DEF SelectionInv, SelectionTypeOK
    <3>2. selections[s] \in Selection
      BY <3>1
    <3> QED
      BY <3>2 DEF Selection
  <2>2. \A kind \in Kinds : IsWhole(output[kind])
    BY FileStates DEF Kinds
  <2>3. /\ builder' = [stage |-> "create", stamp |-> stamp, at |-> 1, output |-> output]
        /\ pilot_files' = pilot_files
        /\ builder.stage = "idle"
    BY <1>2 DEF StartBuild
  <2>4. \A kind \in Kinds : ~Exists(pilot_files[<<kind, stamp>>])
    BY <1>2 DEF StartBuild, NotBuiltYet
  <2> HIDE DEF stamp, output
  <2>5. \A kind \in Kinds : <<kind, stamp>> \in PilotNames
    BY <2>1 DEF PilotNames
  <2>6. \A kind \in Kinds : pilot_files[<<kind, stamp>>] = Absent
    BY <2>4, <2>5, FileStates DEF BuilderInv
  <2>7. BuilderName' = <<"run", stamp>> /\ "run" \in Kinds /\ "log" \in Kinds
    BY <2>3 DEF BuilderName, KindAt, Kinds
  <2>8. BuilderInv'
    BY <2>1, <2>2, <2>3, <2>6, <2>7 DEF BuilderInv
  <2>9. BuilderOpen' = BuilderOpen
    BY <2>3 DEF BuilderOpen
  <2> QED
    BY <2>3, <2>8, <2>9 DEF BuilderMoves, Moves
<1>3. CASE CreatePilotFile
  <2>1. /\ builder.stage = "create" /\ builder.stamp \in Stamps /\ builder.at \in {1, 2}
        /\ pilot_files[BuilderName] = Absent
        /\ DOMAIN builder = {"stage", "stamp", "at", "output"}
    BY <1>3 DEF CreatePilotFile, BuilderInv
  <2>2. BuilderName \in PilotNames
    BY <2>1, BuilderNameType
  <2>3. /\ pilot_files' = [pilot_files EXCEPT ![BuilderName] = Torn]
        /\ builder' = [builder EXCEPT !.stage = "write"]
    BY <1>3 DEF CreatePilotFile
  <2>4. /\ builder'.stage = "write" /\ builder'.stamp = builder.stamp
        /\ builder'.at = builder.at /\ builder'.output = builder.output
        /\ DOMAIN builder' = {"stage", "stamp", "at", "output"}
    BY <2>1, <2>3
  <2>5. BuilderName' = BuilderName
    BY <2>4 DEF BuilderName
  <2>6. /\ pilot_files' = [name \in PilotNames |-> pilot_files'[name]]
        /\ \A name \in PilotNames : IsToolFile(pilot_files'[name])
    BY <2>3, FileStates DEF BuilderInv
  <2>7. builder'.at = 1 => pilot_files'[<<"log", builder'.stamp>>] = Absent
    <3> SUFFICES ASSUME builder.at = 1
                 PROVE  pilot_files'[<<"log", builder.stamp>>] = Absent
      BY <2>4
    <3>1. pilot_files[<<"log", builder.stamp>>] = Absent
      BY <2>1 DEF BuilderInv
    <3>2. BuilderName # <<"log", builder.stamp>>
      BY DEF BuilderName, KindAt
    <3>3. <<"log", builder.stamp>> \in PilotNames
      BY <2>1 DEF PilotNames, Kinds
    <3> QED
      BY <2>3, <3>1, <3>2, <3>3 DEF BuilderInv
  <2>8. BuilderInv'
    BY <2>1, <2>4, <2>6, <2>7 DEF BuilderInv
  <2>9. BuilderOpen = {} /\ BuilderOpen' = {BuilderName}
    BY <2>1, <2>4, <2>5 DEF BuilderOpen
  <2>10. BuilderOpen' = BuilderOpen \cup {BuilderName}
    BY <2>9
  <2> QED
    BY <2>1, <2>2, <2>3, <2>8, <2>10 DEF BuilderMoves, Moves
<1>4. CASE WritePilotFile
  <2>1. /\ builder.stage = "write" /\ builder.stamp \in Stamps /\ builder.at \in {1, 2}
        /\ DOMAIN builder = {"stage", "stamp", "at", "output"}
    BY <1>4 DEF WritePilotFile, BuilderInv
  <2>2. BuilderName \in PilotNames /\ KindAt(builder.at) \in Kinds
    BY <2>1, BuilderNameType DEF KindAt, Kinds
  <2> DEFINE file == builder.output[KindAt(builder.at)]
  <2>3. IsWhole(file)
    BY <2>1, <2>2 DEF BuilderInv
  <2>4. pilot_files' = [pilot_files EXCEPT ![BuilderName] = file]
    BY <1>4 DEF WritePilotFile
  <2> HIDE DEF file
  <2>5. /\ pilot_files' = [name \in PilotNames |-> pilot_files'[name]]
        /\ pilot_files'[BuilderName] = file
        /\ \A name \in PilotNames : IsToolFile(pilot_files'[name])
    BY <2>2, <2>3, <2>4, FileStates DEF BuilderInv
  <2>6. BuilderInv' /\ BuilderOpen' = {}
    <3>1. CASE builder.at = 1
      <4>1. builder' = [builder EXCEPT !.stage = "create", !.at = 2]
        BY <1>4, <3>1 DEF WritePilotFile
      <4>2. /\ builder'.stage = "create" /\ builder'.stamp = builder.stamp
            /\ builder'.at = 2 /\ builder'.output = builder.output
            /\ DOMAIN builder' = {"stage", "stamp", "at", "output"}
        BY <2>1, <4>1
      <4>3. pilot_files[<<"log", builder.stamp>>] = Absent
        BY <2>1, <3>1 DEF BuilderInv
      <4>4. BuilderName # <<"log", builder.stamp>>
        BY <3>1 DEF BuilderName, KindAt
      <4>5. <<"log", builder.stamp>> \in PilotNames
        BY <2>1 DEF PilotNames, Kinds
      <4>6. pilot_files'[<<"log", builder.stamp>>] = Absent
        BY <2>4, <4>3, <4>4, <4>5 DEF BuilderInv
      <4>7. BuilderName' = <<"log", builder.stamp>>
        BY <4>2 DEF BuilderName, KindAt
      <4> QED
        BY <2>1, <2>5, <4>2, <4>6, <4>7 DEF BuilderInv, BuilderOpen
    <3>2. CASE builder.at # 1
      <4>1. builder' = IdleBuilder
        BY <1>4, <3>2 DEF WritePilotFile
      <4> QED
        BY <2>5, <4>1 DEF BuilderInv, BuilderOpen, IdleBuilder
    <3> QED
      BY <3>1, <3>2
  <2>7. BuilderOpen = {BuilderName}
    BY <2>1 DEF BuilderOpen
  <2>8. /\ IsWhole(pilot_files'[BuilderName]) /\ BuilderName \in BuilderOpen
        /\ pilot_files' = [pilot_files EXCEPT ![BuilderName] = pilot_files'[BuilderName]]
        /\ BuilderOpen' = BuilderOpen \ {BuilderName}
    BY <2>3, <2>4, <2>5, <2>6, <2>7
  <2> QED
    BY <2>2, <2>6, <2>8 DEF BuilderMoves, Moves
<1>5. CASE BuilderDies
  <2>1. builder' = IdleBuilder /\ pilot_files' = pilot_files /\ builder.stage # "idle"
    BY <1>5 DEF BuilderDies
  <2>2. BuilderInv' /\ BuilderOpen' = {}
    BY <2>1 DEF BuilderInv, BuilderOpen, IdleBuilder
  <2>3. BuilderOpen = {} \/ BuilderOpen = {BuilderName}
    BY DEF BuilderOpen
  <2>4. BuilderName \in PilotNames
    BY <2>1, BuilderNameType DEF BuilderInv
  <2> QED
    BY <2>1, <2>2, <2>3, <2>4 DEF BuilderMoves, Moves
<1>6. \/ UNCHANGED pilotVars
      \/ \E s \in DOMAIN selections : \E claims : StartBuild(selections[s], claims)
      \/ CreatePilotFile \/ WritePilotFile \/ BuilderDies
  BY DEF Next, vars, StartTool, RefuseBuild, ToolStep, PilotStep, SessionStep, ToolDies
<1> QED
  BY <1>1, <1>2, <1>3, <1>4, <1>5, <1>6

-----------------------------------------------------------------------------
(* The Strategy Layer's scripts. *)
StampNames == {"verdict"} \X Stamps
StampFiles == [name \in StampNames |-> verdicts[name[2]]]
StampOpen == IF pilot.stage = "write" THEN {<<"verdict", pilot.run_id>>} ELSE {}

PilotFields == {"stage", "script", "run_id", "units", "treatments", "confirmed"}

StampInv ==
  /\ DOMAIN verdicts = Stamps
  /\ \A stamp \in Stamps : IsToolFile(verdicts[stamp])
  /\ pilot.stage # "idle" =>
       /\ DOMAIN pilot = PilotFields
       /\ pilot.run_id \in Stamps
       /\ pilot.stage = "create" => verdicts[pilot.run_id] = Absent

StampMovesOnly == Moves(StampFiles, StampFiles', StampOpen, StampOpen', StampNames)

LEMMA StampFilesWith ==
  ASSUME NEW at \in Stamps, NEW file, DOMAIN verdicts = Stamps,
         verdicts' = [verdicts EXCEPT ![at] = file]
  PROVE  StampFiles' = [StampFiles EXCEPT ![<<"verdict", at>>] = file]
<1> DEFINE with == [StampFiles EXCEPT ![<<"verdict", at>>] = file]
<1>1. \A name \in StampNames : verdicts'[name[2]] = with[name]
  <2> SUFFICES ASSUME NEW other \in Stamps
               PROVE  verdicts'[other] = with[<<"verdict", other>>]
    BY DEF StampNames
  <2>1. <<"verdict", other>> \in StampNames /\ <<"verdict", at>> \in StampNames
    BY DEF StampNames
  <2>2. StampFiles[<<"verdict", other>>] = verdicts[other]
    BY <2>1 DEF StampFiles
  <2>3. CASE other = at
    BY <2>1, <2>3 DEF StampFiles
  <2>4. CASE other # at
    <3>1. <<"verdict", other>> # <<"verdict", at>>
      BY <2>4
    <3>2. with[<<"verdict", other>>] = StampFiles[<<"verdict", other>>]
      BY <2>1, <3>1 DEF StampFiles
    <3> QED
      BY <2>2, <2>4, <3>2
  <2> QED
    BY <2>3, <2>4
<1>2. with = [name \in StampNames |-> with[name]]
  BY DEF StampFiles
<1>3. StampFiles' = [name \in StampNames |-> verdicts'[name[2]]]
  BY DEF StampFiles
<1> HIDE DEF with
<1>4. StampFiles' = with
  BY <1>1, <1>2, <1>3
<1> QED
  BY <1>4 DEF with

LEMMA StrategyPartStep ==
  ASSUME StampInv, [Next]_vars
  PROVE  StampInv' /\ StampMovesOnly
<1>1. CASE UNCHANGED strategyVars
  <2>1. StampFiles' = StampFiles /\ StampOpen' = StampOpen
    BY <1>1 DEF strategyVars, StampFiles, StampOpen
  <2> QED
    BY <1>1, <2>1 DEF strategyVars, StampInv, StampMovesOnly, Moves
<1>2. ASSUME NEW script, NEW manifest, NEW token, NEW answers, NEW stamp,
             StartPilot(script, manifest, token, answers, stamp)
      PROVE  StampInv' /\ StampMovesOnly
  <2> DEFINE units == ByClaim(AdaptManifest(manifest, token, answers))
             treatments == PilotTreatments(units)
             confirmed == Confirmed(manifest, token, answers)
  <2>1. /\ pilot' = [stage |-> "create", script |-> script, run_id |-> stamp,
                     units |-> units, treatments |-> treatments, confirmed |-> confirmed]
        /\ verdicts' = verdicts /\ pilot.stage = "idle"
        /\ stamp \in Stamps /\ ~Exists(verdicts[stamp])
    BY <1>2 DEF StartPilot, Stamp
  <2> HIDE DEF units, treatments, confirmed
  <2>2. verdicts[stamp] = Absent
    BY <2>1, FileStates DEF StampInv
  <2>3. StampInv'
    BY <2>1, <2>2 DEF StampInv, PilotFields
  <2>4. StampFiles' = StampFiles /\ StampOpen' = StampOpen
    BY <2>1 DEF StampFiles, StampOpen
  <2> QED
    BY <2>3, <2>4 DEF StampMovesOnly, Moves
<1>3. CASE CreateVerdictFile
  <2> DEFINE name == <<"verdict", pilot.run_id>>
  <2>1. /\ pilot.stage = "create" /\ pilot.run_id \in Stamps
        /\ verdicts[pilot.run_id] = Absent /\ DOMAIN pilot = PilotFields
        /\ verdicts' = [verdicts EXCEPT ![pilot.run_id] = Torn]
        /\ pilot' = [pilot EXCEPT !.stage = "write"]
    BY <1>3 DEF CreateVerdictFile, StampInv
  <2>2. pilot'.stage = "write" /\ pilot'.run_id = pilot.run_id /\ DOMAIN pilot' = PilotFields
    BY <2>1 DEF PilotFields
  <2>3. StampInv'
    BY <2>1, <2>2, FileStates DEF StampInv
  <2>4. name \in StampNames /\ StampFiles[name] = Absent
    BY <2>1 DEF StampNames, StampFiles
  <2>5. StampFiles' = [StampFiles EXCEPT ![name] = Torn]
    BY <2>1, StampFilesWith DEF StampInv
  <2>6. StampOpen' = StampOpen \cup {name}
    BY <2>1, <2>2 DEF StampOpen
  <2> QED
    BY <2>3, <2>4, <2>5, <2>6 DEF StampMovesOnly, Moves
<1>4. CASE WriteVerdictFile
  <2> DEFINE name == <<"verdict", pilot.run_id>>
             file == Whole(BuildVerdict(pilot.units, pilot.treatments))
  <2>1. /\ pilot.stage = "write" /\ pilot.run_id \in Stamps /\ DOMAIN pilot = PilotFields
        /\ verdicts' = [verdicts EXCEPT ![pilot.run_id] = file]
        /\ pilot' = [pilot EXCEPT !.stage = "digest"] \/ pilot' = NoPilot
    BY <1>4 DEF WriteVerdictFile, StampInv
  <2>2. IsWhole(file)
    BY FileStates
  <2> HIDE DEF file
  <2>3. \/ pilot'.stage = "idle"
        \/ /\ pilot'.stage = "digest" /\ pilot'.run_id = pilot.run_id
           /\ DOMAIN pilot' = PilotFields
    BY <2>1 DEF PilotFields, NoPilot
  <2>4. StampInv'
    BY <2>1, <2>2, <2>3, FileStates DEF StampInv
  <2>5. name \in StampNames /\ name \in StampOpen /\ IsWhole(StampFiles'[name])
    BY <2>1, <2>2 DEF StampNames, StampFiles, StampOpen, StampInv
  <2>6. StampFiles' = [StampFiles EXCEPT ![name] = StampFiles'[name]]
    <3>1. StampFiles' = [StampFiles EXCEPT ![name] = file]
      BY <2>1, StampFilesWith DEF StampInv
    <3>2. name \in DOMAIN StampFiles
      BY <2>5 DEF StampFiles
    <3> QED
      BY <3>1, <3>2
  <2>7. StampOpen' = StampOpen \ {name}
    BY <2>1, <2>3 DEF StampOpen
  <2> QED
    BY <2>4, <2>5, <2>6, <2>7 DEF StampMovesOnly, Moves
<1>5. CASE (PrintDigest \/ DigestRefused \/ PilotDies)
  <2> DEFINE name == <<"verdict", pilot.run_id>>
  <2>1. /\ verdicts' = verdicts /\ pilot' = NoPilot
        /\ pilot.run_id \in Stamps
    BY <1>5 DEF PrintDigest, DigestRefused, PilotDies, StampInv
  <2>2. StampInv'
    BY <2>1 DEF StampInv, NoPilot
  <2>3. StampFiles' = StampFiles /\ StampOpen' = {} /\ name \in StampNames
    BY <2>1 DEF StampFiles, StampOpen, NoPilot, StampNames
  <2>4. StampOpen = {} \/ StampOpen = {name}
    BY DEF StampOpen
  <2> QED
    BY <2>2, <2>3, <2>4 DEF StampMovesOnly, Moves
<1>6. \/ UNCHANGED strategyVars
      \/ \E script, manifest, token, answers, stamp :
           StartPilot(script, manifest, token, answers, stamp)
      \/ CreateVerdictFile \/ WriteVerdictFile \/ PrintDigest \/ DigestRefused \/ PilotDies
  BY DEF Next, vars, StartTool, PilotRefused, ToolStep, StrategyStep, SessionStep, ToolDies
<1> QED
  BY <1>1, <1>2, <1>3, <1>4, <1>5, <1>6

-----------------------------------------------------------------------------
(* Owner Verdicts: an id that is drawn names no file yet. *)
OwnerNames == {"owner"} \X VerdictNames
OwnerFiles == [name \in OwnerNames |-> verdict_files[name[2]]]
OwnerOpen == IF recorder.stage = "write" THEN {<<"owner", RecorderName>>} ELSE {}

OwnerInv ==
  /\ DOMAIN verdict_files = VerdictNames
  /\ \A name \in VerdictNames : IsToolFile(verdict_files[name])
  /\ recorder.stage # "idle" =>
       /\ DOMAIN recorder = {"stage", "record", "id"}
       /\ RecorderName \in VerdictNames
       /\ recorder.stage = "create" => verdict_files[RecorderName] = Absent

OwnerMovesOnly == Moves(OwnerFiles, OwnerFiles', OwnerOpen, OwnerOpen', OwnerNames)

LEMMA OwnerFilesWith ==
  ASSUME NEW at \in VerdictNames, NEW file, DOMAIN verdict_files = VerdictNames,
         verdict_files' = [verdict_files EXCEPT ![at] = file]
  PROVE  OwnerFiles' = [OwnerFiles EXCEPT ![<<"owner", at>>] = file]
<1> DEFINE with == [OwnerFiles EXCEPT ![<<"owner", at>>] = file]
<1>1. \A name \in OwnerNames : verdict_files'[name[2]] = with[name]
  <2> SUFFICES ASSUME NEW other \in VerdictNames
               PROVE  verdict_files'[other] = with[<<"owner", other>>]
    BY DEF OwnerNames
  <2>1. <<"owner", other>> \in OwnerNames /\ <<"owner", at>> \in OwnerNames
    BY DEF OwnerNames
  <2>2. OwnerFiles[<<"owner", other>>] = verdict_files[other]
    BY <2>1 DEF OwnerFiles
  <2>3. CASE other = at
    BY <2>1, <2>3 DEF OwnerFiles
  <2>4. CASE other # at
    <3>1. <<"owner", other>> # <<"owner", at>>
      BY <2>4
    <3>2. with[<<"owner", other>>] = OwnerFiles[<<"owner", other>>]
      BY <2>1, <3>1 DEF OwnerFiles
    <3> QED
      BY <2>2, <2>4, <3>2
  <2> QED
    BY <2>3, <2>4
<1>2. with = [name \in OwnerNames |-> with[name]]
  BY DEF OwnerFiles
<1>3. OwnerFiles' = [name \in OwnerNames |-> verdict_files'[name[2]]]
  BY DEF OwnerFiles
<1> HIDE DEF with
<1>4. OwnerFiles' = with
  BY <1>1, <1>2, <1>3
<1> QED
  BY <1>4 DEF with

LEMMA OwnerPartStep ==
  ASSUME OwnerInv, [Next]_vars
  PROVE  OwnerInv' /\ OwnerMovesOnly
<1>1. CASE UNCHANGED ownerVars
  <2>1. OwnerFiles' = OwnerFiles /\ OwnerOpen' = OwnerOpen /\ RecorderName' = RecorderName
    BY <1>1 DEF ownerVars, OwnerFiles, OwnerOpen, RecorderName
  <2> QED
    BY <1>1, <2>1 DEF ownerVars, OwnerInv, OwnerMovesOnly, Moves
<1>2. ASSUME NEW record \in VerdictRecord, NEW id \in VerdictIds, StartVerdict(record, id)
      PROVE  OwnerInv' /\ OwnerMovesOnly
  <2>1. /\ recorder' = [stage |-> "create", record |-> record, id |-> id]
        /\ verdict_files' = verdict_files /\ recorder.stage = "idle"
        /\ record.content_id \in Contents
    BY <1>2 DEF StartVerdict, VerdictRecord
  <2> DEFINE name == <<record.content_id, id>>
  <2>2. name \in VerdictNames
    BY <2>1 DEF VerdictNames
  <2>3. ~Exists(verdict_files[name])
    BY <1>2, <2>1 DEF StartVerdict, FreshId, Listed
  <2>4. verdict_files[name] = Absent
    BY <2>2, <2>3, FileStates DEF OwnerInv
  <2>5. RecorderName' = name
    BY <2>1 DEF RecorderName
  <2>6. OwnerInv'
    BY <2>1, <2>2, <2>4, <2>5 DEF OwnerInv
  <2>7. OwnerFiles' = OwnerFiles /\ OwnerOpen' = OwnerOpen
    BY <2>1 DEF OwnerFiles, OwnerOpen
  <2> QED
    BY <2>6, <2>7 DEF OwnerMovesOnly, Moves
<1>3. CASE CreateVerdict
  <2> DEFINE name == <<"owner", RecorderName>>
  <2>1. /\ recorder.stage = "create" /\ RecorderName \in VerdictNames
        /\ verdict_files[RecorderName] = Absent
        /\ DOMAIN recorder = {"stage", "record", "id"}
        /\ verdict_files' = [verdict_files EXCEPT ![RecorderName] = Torn]
        /\ recorder' = [recorder EXCEPT !.stage = "write"]
    BY <1>3 DEF CreateVerdict, OwnerInv
  <2>2. /\ recorder'.stage = "write" /\ recorder'.record = recorder.record
        /\ recorder'.id = recorder.id /\ DOMAIN recorder' = {"stage", "record", "id"}
    BY <2>1
  <2>3. RecorderName' = RecorderName
    BY <2>2 DEF RecorderName
  <2>4. OwnerInv'
    BY <2>1, <2>2, <2>3, FileStates DEF OwnerInv
  <2>5. name \in OwnerNames /\ OwnerFiles[name] = Absent
    BY <2>1 DEF OwnerNames, OwnerFiles
  <2>6. OwnerFiles' = [OwnerFiles EXCEPT ![name] = Torn]
    BY <2>1, OwnerFilesWith DEF OwnerInv
  <2>7. OwnerOpen' = OwnerOpen \cup {name}
    BY <2>1, <2>2, <2>3 DEF OwnerOpen
  <2> QED
    BY <2>4, <2>5, <2>6, <2>7 DEF OwnerMovesOnly, Moves
<1>4. CASE WriteVerdict
  <2> DEFINE name == <<"owner", RecorderName>>
             file == Whole(recorder.record)
  <2>1. /\ recorder.stage = "write" /\ RecorderName \in VerdictNames
        /\ verdict_files' = [verdict_files EXCEPT ![RecorderName] = file]
        /\ recorder' = NoVerdict
    BY <1>4 DEF WriteVerdict, OwnerInv
  <2>2. IsWhole(file)
    BY FileStates
  <2> HIDE DEF file
  <2>3. OwnerInv'
    BY <2>1, <2>2, FileStates DEF OwnerInv, NoVerdict
  <2>4. name \in OwnerNames /\ name \in OwnerOpen /\ IsWhole(OwnerFiles'[name])
    BY <2>1, <2>2 DEF OwnerNames, OwnerFiles, OwnerOpen, OwnerInv
  <2>5. OwnerFiles' = [OwnerFiles EXCEPT ![name] = OwnerFiles'[name]]
    <3>1. OwnerFiles' = [OwnerFiles EXCEPT ![name] = file]
      BY <2>1, OwnerFilesWith DEF OwnerInv
    <3>2. name \in DOMAIN OwnerFiles
      BY <2>4 DEF OwnerFiles
    <3> QED
      BY <3>1, <3>2
  <2>6. OwnerOpen' = OwnerOpen \ {name}
    BY <2>1 DEF OwnerOpen, NoVerdict
  <2> QED
    BY <2>3, <2>4, <2>5, <2>6 DEF OwnerMovesOnly, Moves
<1>5. CASE RecorderDies
  <2> DEFINE name == <<"owner", RecorderName>>
  <2>1. verdict_files' = verdict_files /\ recorder' = NoVerdict /\ name \in OwnerNames
    BY <1>5 DEF RecorderDies, OwnerInv, OwnerNames
  <2>2. OwnerInv'
    BY <2>1 DEF OwnerInv, NoVerdict
  <2>3. OwnerFiles' = OwnerFiles /\ OwnerOpen' = {}
    BY <2>1 DEF OwnerFiles, OwnerOpen, NoVerdict
  <2>4. OwnerOpen = {} \/ OwnerOpen = {name}
    BY DEF OwnerOpen
  <2> QED
    BY <2>1, <2>2, <2>3, <2>4 DEF OwnerMovesOnly, Moves
<1>6. \/ UNCHANGED ownerVars
      \/ \E record \in VerdictRecord, id \in VerdictIds : StartVerdict(record, id)
      \/ CreateVerdict \/ WriteVerdict \/ RecorderDies
  BY DEF Next, vars, StartTool, ToolStep, OwnerStep, SessionStep, ToolDies
<1> QED
  BY <1>1, <1>2, <1>3, <1>4, <1>5, <1>6

-----------------------------------------------------------------------------
(* All together: a step moves the files of one tool at most. *)
AllFiles == [name \in Names |-> FileOf(name)]

FilesInv == SelectionInv /\ BuilderInv /\ StampInv /\ OwnerInv

LEMMA NamesParts ==
  /\ PilotNames \subseteq Names /\ StampNames \subseteq Names /\ OwnerNames \subseteq Names
  /\ \A name \in Names : name \in PilotNames \/ name \in StampNames \/ name \in OwnerNames
  /\ PilotNames \cap StampNames = {} /\ PilotNames \cap OwnerNames = {}
  /\ StampNames \cap OwnerNames = {}
<1>1. \A name \in PilotNames : name[1] \in {"run", "log"}
  BY DEF PilotNames, Kinds
<1>2. \A name \in StampNames : name[1] = "verdict"
  BY DEF StampNames
<1>3. \A name \in OwnerNames : name[1] = "owner"
  BY DEF OwnerNames
<1> QED
  BY <1>1, <1>2, <1>3 DEF Names, StampNames, OwnerNames

LEMMA FileOfParts ==
  /\ \A name \in PilotNames : FileOf(name) = pilot_files[name]
  /\ \A name \in StampNames : FileOf(name) = verdicts[name[2]]
  /\ \A name \in OwnerNames : FileOf(name) = verdict_files[name[2]]
BY DEF FileOf, PilotNames, StampNames, OwnerNames, Kinds

LEMMA AllFilesParts ==
  /\ \A name \in PilotNames : AllFiles[name] = pilot_files[name]
  /\ \A name \in StampNames : AllFiles[name] = StampFiles[name]
  /\ \A name \in OwnerNames : AllFiles[name] = OwnerFiles[name]
BY FileOfParts, NamesParts DEF AllFiles, StampFiles, OwnerFiles

LEMMA OpenNamesIs == OpenNames = BuilderOpen \cup (StampOpen \cup OwnerOpen)
BY DEF OpenNames, BuilderOpen, StampOpen, OwnerOpen

LEMMA OpenTypes ==
  ASSUME FilesInv
  PROVE  /\ BuilderOpen \subseteq PilotNames
         /\ StampOpen \subseteq StampNames
         /\ OwnerOpen \subseteq OwnerNames
<1>1. BuilderOpen \subseteq PilotNames
  BY BuilderNameType DEF FilesInv, BuilderInv, BuilderOpen
<1>2. StampOpen \subseteq StampNames
  BY DEF FilesInv, StampInv, StampOpen, StampNames
<1>3. OwnerOpen \subseteq OwnerNames
  BY DEF FilesInv, OwnerInv, OwnerOpen, OwnerNames
<1> QED
  BY <1>1, <1>2, <1>3

LEMMA OneMoves ==
  ASSUME [Next]_vars
  PROVE  \/ UNCHANGED <<strategyVars, ownerVars>>
         \/ UNCHANGED <<pilotVars, ownerVars>>
         \/ UNCHANGED <<pilotVars, strategyVars>>
BY DEF Next, vars, StartTool, ToolStep, SessionStep, ToolDies

LEMMA FilesStep ==
  ASSUME FilesInv, [Next]_vars
  PROVE  /\ FilesInv'
         /\ Moves(AllFiles, AllFiles', OpenNames, OpenNames', Names)
<1>1. FilesInv'
  BY RotationStep, BuilderStep, StrategyPartStep, OwnerPartStep DEF FilesInv
<1>2. BuilderMoves /\ StampMovesOnly /\ OwnerMovesOnly
  BY BuilderStep, StrategyPartStep, OwnerPartStep DEF FilesInv
<1>3. /\ AllFiles = [name \in Names |-> AllFiles[name]]
      /\ AllFiles' = [name \in Names |-> AllFiles'[name]]
      /\ StampFiles = [name \in StampNames |-> StampFiles[name]]
      /\ OwnerFiles = [name \in OwnerNames |-> OwnerFiles[name]]
  BY DEF AllFiles, StampFiles, OwnerFiles
<1>4. /\ \A name \in PilotNames : AllFiles'[name] = pilot_files'[name]
      /\ \A name \in StampNames : AllFiles'[name] = StampFiles'[name]
      /\ \A name \in OwnerNames : AllFiles'[name] = OwnerFiles'[name]
  <2>1. /\ \A name \in PilotNames : FileOf(name)' = pilot_files'[name]
        /\ \A name \in StampNames : FileOf(name)' = verdicts'[name[2]]
        /\ \A name \in OwnerNames : FileOf(name)' = verdict_files'[name[2]]
    BY DEF FileOf, PilotNames, StampNames, OwnerNames, Kinds
  <2> QED
    BY <2>1, NamesParts DEF AllFiles, StampFiles, OwnerFiles
<1>5. OpenNames' = BuilderOpen' \cup (StampOpen' \cup OwnerOpen')
  BY DEF OpenNames, BuilderOpen, StampOpen, OwnerOpen
<1>6. CASE UNCHANGED <<strategyVars, ownerVars>>
  <2>1. /\ StampFiles' = StampFiles /\ OwnerFiles' = OwnerFiles
        /\ StampOpen' = StampOpen /\ OwnerOpen' = OwnerOpen
    BY <1>6 DEF strategyVars, ownerVars, StampFiles, OwnerFiles, StampOpen, OwnerOpen,
                RecorderName
  <2>2. \A name \in Names \ PilotNames : AllFiles'[name] = AllFiles[name]
    BY <1>4, <2>1, AllFilesParts, NamesParts
  <2>3. /\ (StampOpen \cup OwnerOpen) \cap PilotNames = {}
        /\ BuilderOpen \in SUBSET PilotNames /\ PilotNames \in SUBSET Names
    BY OpenTypes, NamesParts
  <2>4. pilot_files = [name \in PilotNames |-> pilot_files[name]]
    BY DEF FilesInv, BuilderInv
  <2>5. \A name \in PilotNames : /\ AllFiles[name] = pilot_files[name]
                                 /\ AllFiles'[name] = pilot_files'[name]
    BY <1>4, AllFilesParts
  <2>6. Moves(AllFiles, AllFiles', BuilderOpen \cup (StampOpen \cup OwnerOpen),
              BuilderOpen' \cup (StampOpen \cup OwnerOpen), Names)
    BY <1>2, <1>3, <2>2, <2>3, <2>4, <2>5, MovesLift DEF BuilderMoves
  <2> QED
    BY <1>1, <1>5, <2>1, <2>6, OpenNamesIs
<1>7. CASE UNCHANGED <<pilotVars, ownerVars>>
  <2>1. /\ pilot_files' = pilot_files /\ OwnerFiles' = OwnerFiles
        /\ BuilderOpen' = BuilderOpen /\ OwnerOpen' = OwnerOpen
    BY <1>7 DEF pilotVars, ownerVars, OwnerFiles, BuilderOpen, BuilderName, OwnerOpen,
                RecorderName
  <2>2. \A name \in Names \ StampNames : AllFiles'[name] = AllFiles[name]
    BY <1>4, <2>1, AllFilesParts, NamesParts
  <2>3. /\ (BuilderOpen \cup OwnerOpen) \cap StampNames = {}
        /\ StampOpen \in SUBSET StampNames /\ StampNames \in SUBSET Names
    BY OpenTypes, NamesParts
  <2>4. \A name \in StampNames : /\ AllFiles[name] = StampFiles[name]
                                 /\ AllFiles'[name] = StampFiles'[name]
    BY <1>4, AllFilesParts
  <2>5. Moves(AllFiles, AllFiles', StampOpen \cup (BuilderOpen \cup OwnerOpen),
              StampOpen' \cup (BuilderOpen \cup OwnerOpen), Names)
    BY <1>2, <1>3, <2>2, <2>3, <2>4, MovesLift DEF StampMovesOnly
  <2>6. /\ OpenNames = StampOpen \cup (BuilderOpen \cup OwnerOpen)
        /\ OpenNames' = StampOpen' \cup (BuilderOpen \cup OwnerOpen)
    BY <1>5, <2>1, OpenNamesIs
  <2> QED
    BY <1>1, <2>5, <2>6
<1>8. CASE UNCHANGED <<pilotVars, strategyVars>>
  <2>1. /\ pilot_files' = pilot_files /\ StampFiles' = StampFiles
        /\ BuilderOpen' = BuilderOpen /\ StampOpen' = StampOpen
    BY <1>8 DEF pilotVars, strategyVars, StampFiles, BuilderOpen, BuilderName, StampOpen
  <2>2. \A name \in Names \ OwnerNames : AllFiles'[name] = AllFiles[name]
    BY <1>4, <2>1, AllFilesParts, NamesParts
  <2>3. /\ (BuilderOpen \cup StampOpen) \cap OwnerNames = {}
        /\ OwnerOpen \in SUBSET OwnerNames /\ OwnerNames \in SUBSET Names
    BY OpenTypes, NamesParts
  <2>4. \A name \in OwnerNames : /\ AllFiles[name] = OwnerFiles[name]
                                 /\ AllFiles'[name] = OwnerFiles'[name]
    BY <1>4, AllFilesParts
  <2>5. Moves(AllFiles, AllFiles', OwnerOpen \cup (BuilderOpen \cup StampOpen),
              OwnerOpen' \cup (BuilderOpen \cup StampOpen), Names)
    BY <1>2, <1>3, <2>2, <2>3, <2>4, MovesLift DEF OwnerMovesOnly
  <2>6. /\ OpenNames = OwnerOpen \cup (BuilderOpen \cup StampOpen)
        /\ OpenNames' = OwnerOpen' \cup (BuilderOpen \cup StampOpen)
    BY <1>5, <2>1, OpenNamesIs
  <2> QED
    BY <1>1, <2>5, <2>6
<1> QED
  BY <1>6, <1>7, <1>8, OneMoves

LEMMA SameFiles ==
  /\ WriteOnce!Absent = Absent /\ WriteOnce!Torn = Torn
  /\ \A file : WriteOnce!IsWhole(file) <=> IsWhole(file)
BY DEF WriteOnce!Absent, WriteOnce!Torn, WriteOnce!IsWhole, Absent, Torn, IsWhole

LEMMA FilesInit == Init => FilesInv /\ WriteOnce!Init
<1> SUFFICES ASSUME Init PROVE FilesInv /\ WriteOnce!Init
  OBVIOUS
<1>1. /\ SelectionInv
      /\ builder = IdleBuilder /\ pilot_files = [name \in PilotNames |-> Absent]
      /\ pilot = NoPilot /\ verdicts = [stamp \in Stamps |-> Absent]
      /\ recorder = NoVerdict /\ verdict_files = [name \in VerdictNames |-> Absent]
  BY SelectionInitInv DEF Init, PilotInit, StrategyInit, OwnerInit
<1>2. BuilderInv
  BY <1>1, FileStates DEF BuilderInv, IdleBuilder
<1>3. StampInv
  BY <1>1, FileStates DEF StampInv, NoPilot
<1>4. OwnerInv
  BY <1>1, FileStates DEF OwnerInv, NoVerdict
<1>5. \A name \in Names : FileOf(name) = Absent
  BY <1>1, FileOfParts, NamesParts DEF StampNames, OwnerNames
<1>6. OpenNames = {}
  BY <1>1 DEF OpenNames, IdleBuilder, NoPilot, NoVerdict
<1> QED
  BY <1>1, <1>2, <1>3, <1>4, <1>5, <1>6, SameFiles DEF FilesInv, WriteOnce!Init

(***************************************************************************)
(* Immutable Lineage: whatever tool dies at whatever step, its files and   *)
(* those of the others implement WriteOnceFiles (docs/adr D-011;           *)
(* write_outputs of the pilots, write_verdict of verdict/writer.py).       *)
(***************************************************************************)
THEOREM FilesAreWrittenOnce == Spec => FilesWrittenOnce
<1>1. Init => FilesInv
  BY FilesInit
<1>2. FilesInv /\ [Next]_vars => FilesInv'
  BY FilesStep
<1>3. FilesInv /\ [Next]_vars =>
        [WriteOnce!Next]_<<[name \in Names |-> FileOf(name)], OpenNames>>
  <2> SUFFICES ASSUME FilesInv, [Next]_vars
               PROVE  [WriteOnce!Next]_<<[name \in Names |-> FileOf(name)], OpenNames>>
    OBVIOUS
  <2>1. Moves(AllFiles, AllFiles', OpenNames, OpenNames', Names)
    BY FilesStep
  <2> QED
    BY <2>1, SameFiles
    DEF Moves, AllFiles, WriteOnce!Next, WriteOnce!Create, WriteOnce!Complete,
        WriteOnce!Abandon
<1>4. Init => WriteOnce!Init
  BY FilesInit
<1> QED
  BY <1>1, <1>2, <1>3, <1>4, PTL DEF Spec, FilesWrittenOnce, WriteOnce!Spec

-----------------------------------------------------------------------------
(* The log of a pilot and its run file. *)
Distinct(atoms) == \A i, j \in DOMAIN atoms : atoms[i] = atoms[j] => i = j

AtomsDistinct ==
  /\ Distinct(selector.atoms)
  /\ \A s \in DOMAIN selections : Distinct(selections[s].atoms)

(* A log and a run file of one selection. *)
Describes(run, log, stamp, printed) ==
  /\ LogDescribes(run, log)
  /\ \A i, j \in DOMAIN run : run[i].atom = run[j].atom => i = j
  /\ \E s \in DOMAIN printed :
       /\ printed[s].stamp = stamp
       /\ printed[s].atoms = [i \in DOMAIN run |-> run[i].atom]

(* What the builder is to write is of one selection, and so is what it has *)
(* written of it.                                                          *)
OutputInv ==
  builder.stage # "idle" =>
    /\ Describes(builder.output["run"].body, builder.output["log"].body, builder.stamp,
                 selections)
    /\ builder.at = 2 => pilot_files[<<"run", builder.stamp>>] = builder.output["run"]

LogInv ==
  \A stamp \in Stamps :
    LET run == pilot_files[<<"run", stamp>>]
        log == pilot_files[<<"log", stamp>>]
    IN IsWhole(log) => IsWhole(run) /\ Describes(run.body, log.body, stamp, selections)

LEMMA LogInvMatches == LogInv => LogMatchesRun
BY DEF LogInv, LogMatchesRun, Describes

LEMMA DistinctStep ==
  ASSUME SelectionInv, AtomsDistinct, [Next]_vars
  PROVE  AtomsDistinct'
<1>1. selector \in Selector /\ selections \in Seq(Selection)
  BY DEF SelectionInv, SelectionTypeOK
<1>2. ASSUME selector'.atoms = selector.atoms \/ selector'.atoms = <<>>,
             selections' = selections
      PROVE  AtomsDistinct'
  BY <1>2 DEF AtomsDistinct, Distinct
<1>3. ASSUME selector' = IdleSelector, selections' = selections
      PROVE  AtomsDistinct'
  BY <1>2, <1>3 DEF IdleSelector
<1>4. CASE SaveState
  <2> DEFINE duplicate == \E i \in DOMAIN selector.atoms : selector.atoms[i] = selector.card
  <2>1. /\ selector'.atoms = (IF duplicate THEN selector.atoms
                                           ELSE Append(selector.atoms, selector.card))
        /\ selections' = selections
    BY <1>1, <1>4 DEF SaveState, Selector
  <2>2. CASE duplicate
    BY <1>2, <2>1, <2>2
  <2>3. CASE ~duplicate
    <3>1. selector.atoms \in Seq(Cards)
      BY <1>1 DEF Selector
    <3>2. /\ selector'.atoms = Append(selector.atoms, selector.card)
          /\ DOMAIN selector'.atoms = 1 .. Len(selector.atoms) + 1
          /\ selector'.atoms[Len(selector.atoms) + 1] = selector.card
          /\ \A i \in 1 .. Len(selector.atoms) : selector'.atoms[i] = selector.atoms[i]
          /\ DOMAIN selector.atoms = 1 .. Len(selector.atoms)
          /\ Len(selector.atoms) \in Nat
      BY <2>1, <2>3, <3>1
    <3>3. Distinct(selector.atoms)
      BY DEF AtomsDistinct
    <3>4. ASSUME NEW i \in 1 .. Len(selector.atoms) + 1, NEW j \in 1 .. Len(selector.atoms) + 1,
                 selector'.atoms[i] = selector'.atoms[j]
          PROVE  i = j
      <4>1. CASE i \in 1 .. Len(selector.atoms) /\ j \in 1 .. Len(selector.atoms)
        BY <3>2, <3>3, <3>4, <4>1 DEF Distinct
      <4>2. CASE i = Len(selector.atoms) + 1 /\ j \in 1 .. Len(selector.atoms)
        BY <2>3, <3>2, <3>4, <4>2
      <4>3. CASE j = Len(selector.atoms) + 1 /\ i \in 1 .. Len(selector.atoms)
        BY <2>3, <3>2, <3>4, <4>3
      <4>4. CASE i = Len(selector.atoms) + 1 /\ j = Len(selector.atoms) + 1
        BY <4>4
      <4> QED
        BY <3>2, <4>1, <4>2, <4>3, <4>4
    <3>5. Distinct(selector.atoms)'
      BY <3>2, <3>4 DEF Distinct
    <3> QED
      BY <2>1, <3>5 DEF AtomsDistinct
  <2> QED
    BY <2>2, <2>3
<1>5. ASSUME NEW stamp \in Stamps, FinishSelection(stamp) PROVE AtomsDistinct'
  <2> DEFINE printed == [stamp |-> stamp, atoms |-> selector.atoms,
                         read_errors |-> selector.read_errors]
  <2>1. selections' = Append(selections, printed) /\ selector' = IdleSelector
    BY <1>5 DEF FinishSelection
  <2>2. printed.atoms = selector.atoms
    OBVIOUS
  <2> HIDE DEF printed
  <2>3. /\ DOMAIN selections' = 1 .. Len(selections) + 1
        /\ DOMAIN selections = 1 .. Len(selections) /\ Len(selections) \in Nat
        /\ selections'[Len(selections) + 1] = printed
        /\ \A s \in 1 .. Len(selections) : selections'[s] = selections[s]
    BY <1>1, <2>1
  <2>4. ASSUME NEW s \in DOMAIN selections' PROVE Distinct(selections'[s].atoms)
    <3>1. CASE s \in 1 .. Len(selections)
      BY <2>3, <3>1 DEF AtomsDistinct
    <3>2. CASE s = Len(selections) + 1
      BY <2>2, <2>3, <3>2 DEF AtomsDistinct
    <3> QED
      BY <2>3, <3>1, <3>2
  <2>5. Distinct(selector.atoms)'
    BY <2>1 DEF IdleSelector, Distinct
  <2>6. \A s \in DOMAIN selections' : Distinct(selections'[s].atoms)
    BY <2>4
  <2> QED
    BY <2>5, <2>6 DEF AtomsDistinct, Distinct
<1>6. CASE PickAtom
  <2>1. selector'.atoms = selector.atoms /\ selections' = selections
    BY <1>1, <1>6 DEF PickAtom, Selector
  <2> QED
    BY <1>2, <2>1
<1>7. CASE SelectionRaises \/ GiveUp \/ SelectorDies
  BY <1>3, <1>7 DEF SelectionRaises, GiveUp, SelectorDies
<1>8. ASSUME NEW n, StartSelection(n) PROVE AtomsDistinct'
  <2>1. selector'.atoms = <<>> /\ selections' = selections
    BY <1>8 DEF StartSelection, IdleSelector
  <2> QED
    BY <1>2, <2>1
<1>9. CASE UNCHANGED selectionVars
  BY <1>2, <1>9 DEF selectionVars
<1> QED
  BY <1>4, <1>5, <1>6, <1>7, <1>8, <1>9
  DEF Next, vars, StartTool, ToolStep, SelectionStep, SessionStep, ToolDies

(* What selections printed stays. *)
LEMMA SelectionsGrow ==
  ASSUME SelectionInv, [Next]_vars, NEW s \in DOMAIN selections
  PROVE  s \in DOMAIN selections' /\ selections'[s] = selections[s]
<1>1. selections \in Seq(Selection)
  BY DEF SelectionInv, SelectionTypeOK
<1>2. selections' = selections \/ \E printed \in Selection : selections' = Append(selections, printed)
  <2>1. ASSUME NEW stamp \in Stamps, FinishSelection(stamp)
        PROVE  \E printed \in Selection : selections' = Append(selections, printed)
    <3>1. selector \in Selector
      BY DEF SelectionInv, SelectionTypeOK
    <3>2. [stamp |-> stamp, atoms |-> selector.atoms, read_errors |-> selector.read_errors]
            \in Selection
      BY <3>1 DEF Selector, Selection
    <3> QED
      BY <2>1, <3>2 DEF FinishSelection
  <2> QED
    BY <2>1 DEF Next, vars, selectionVars, StartTool, StartSelection, ToolStep, SelectionStep,
                PickAtom, SaveState, SelectionRaises, GiveUp, SessionStep, ToolDies, SelectorDies
<1> QED
  BY <1>1, <1>2

LEMMA DescribesStays ==
  ASSUME SelectionInv, [Next]_vars, NEW run, NEW log, NEW stamp,
         Describes(run, log, stamp, selections)
  PROVE  Describes(run, log, stamp, selections')
BY SelectionsGrow DEF Describes

(* What a claims file of a selection is. *)
ClaimRow == [atom : Cards, extraction : Extractions]

LEMMA ClaimsAreRows ==
  ASSUME NEW selection \in Selection, NEW claims \in ClaimFiles(selection)
  PROVE  claims \in Seq(ClaimRow)
<1>1. PICK atoms \in AtomLists(selection) :
        \E said \in [DOMAIN atoms -> Extractions] :
          claims = [i \in DOMAIN atoms |-> [atom |-> atoms[i], extraction |-> said[i]]]
  BY DEF ClaimFiles
<1>2. selection.atoms \in Seq(Cards)
  BY DEF Selection
<1>3. Reverse(selection.atoms) \in Seq(Cards)
  BY <1>2 DEF Reverse
<1>4. SubSeq(selection.atoms, 2, Len(selection.atoms)) \in Seq(Cards)
  BY <1>2
<1>5. atoms \in Seq(Cards)
  BY <1>2, <1>3, <1>4 DEF AtomLists
<1>6. PICK said \in [DOMAIN atoms -> Extractions] :
        claims = [i \in DOMAIN atoms |-> [atom |-> atoms[i], extraction |-> said[i]]]
  BY <1>1
<1>7. DOMAIN atoms = 1 .. Len(atoms) /\ Len(atoms) \in Nat
  BY <1>5
<1>8. \A i \in 1 .. Len(atoms) : [atom |-> atoms[i], extraction |-> said[i]] \in ClaimRow
  BY <1>5, <1>6, <1>7 DEF ClaimRow
<1> QED
  BY <1>6, <1>7, <1>8

LEMMA CountedIsNat ==
  ASSUME NEW total \in Nat, NEW T \in SUBSET (1 .. total)
  PROVE  Cardinality(T) \in Nat
<1>1. IsFiniteSet(1 .. total)
  BY FS_Interval
<1> QED
  BY <1>1, FS_Subset, FS_CardinalityType

LEMMA BuildDescribes ==
  ASSUME NEW s \in DOMAIN selections, selections[s] \in Selection,
         Distinct(selections[s].atoms),
         NEW claims \in ClaimFiles(selections[s]), ClaimsMatch(selections[s], claims)
  PROVE  Describes(PilotRun(selections[s], claims), PilotLog(selections[s], claims),
                   selections[s].stamp, selections)
<1> DEFINE selection == selections[s]
           run == PilotRun(selection, claims)
           log == PilotLog(selection, claims)
           total == Len(selection.atoms)
<1>1. /\ claims \in Seq(ClaimRow) /\ selection.atoms \in Seq(Cards)
      /\ selection.read_errors \in Nat
  BY ClaimsAreRows DEF Selection
<1>2. /\ Len(claims) = total /\ total \in Nat
      /\ DOMAIN claims = 1 .. total /\ DOMAIN selection.atoms = 1 .. total
      /\ \A i \in 1 .. total : claims[i].atom = selection.atoms[i]
  BY <1>1 DEF ClaimsMatch
<1>3. /\ DOMAIN run = 1 .. total
      /\ \A i \in 1 .. total : /\ run[i].atom = claims[i].atom
                               /\ run[i].extraction = claims[i].extraction
      /\ run = [i \in 1 .. total |-> run[i]]
  BY <1>2 DEF PilotRun
<1>4. Len(run) = total
  BY <1>2, <1>3
<1>5. /\ log.total_atoms = total
      /\ log.category_counts = [category \in CountedCategories |->
                                  CategoryCount(selection, claims, category)]
      /\ log.insufficient = {claims[i].atom : i \in Insufficient(claims)}
      /\ log.reversal = ReversalTriggered(Cardinality(Insufficient(claims)), total)
  BY DEF PilotLog
<1> HIDE DEF run, log, total, selection
<1>6. \A category : {i \in DOMAIN claims : claims[i].extraction.category = category}
                  = {i \in DOMAIN run : run[i].extraction.category = category}
  BY <1>2, <1>3
<1>7. Insufficient(claims) = {i \in DOMAIN run : run[i].extraction.context_insufficiency}
  BY <1>2, <1>3 DEF Insufficient
<1>8. \A category \in CountedCategories \ {"technical_failure"} :
        log.category_counts[category] =
          Cardinality({i \in DOMAIN run : run[i].extraction.category = category})
  <2> SUFFICES ASSUME NEW category \in CountedCategories \ {"technical_failure"}
               PROVE  log.category_counts[category] =
                        Cardinality({i \in DOMAIN run : run[i].extraction.category = category})
    OBVIOUS
  <2> DEFINE count == Cardinality({i \in DOMAIN run : run[i].extraction.category = category})
  <2>1. log.category_counts[category] = count + 0
    <3>1. log.category_counts[category] = CategoryCount(selection, claims, category)
      BY <1>5
    <3>2. {i \in DOMAIN claims : claims[i].extraction.category = category}
            = {i \in DOMAIN run : run[i].extraction.category = category}
      BY <1>6
    <3> QED
      BY <3>1, <3>2 DEF CategoryCount
  <2>2. count \in Nat
    <3>1. {i \in DOMAIN run : run[i].extraction.category = category} \in SUBSET (1 .. total)
      BY <1>3
    <3> QED
      BY <1>2, <3>1, CountedIsNat
  <2> HIDE DEF count
  <2>3. log.category_counts[category] = count
    BY <2>1, <2>2
  <2> QED
    BY <2>3 DEF count
<1>9. log.category_counts["technical_failure"] >=
        Cardinality({i \in DOMAIN run : run[i].extraction.category = "technical_failure"})
  <2> DEFINE count ==
        Cardinality({i \in DOMAIN run : run[i].extraction.category = "technical_failure"})
  <2>1. log.category_counts["technical_failure"] = count + selection.read_errors
    <3>1. log.category_counts["technical_failure"] =
            CategoryCount(selection, claims, "technical_failure")
      BY <1>5 DEF CountedCategories
    <3>2. {i \in DOMAIN claims : claims[i].extraction.category = "technical_failure"}
            = {i \in DOMAIN run : run[i].extraction.category = "technical_failure"}
      BY <1>6
    <3> QED
      BY <3>1, <3>2 DEF CategoryCount
  <2>2. count \in Nat
    <3>1. {i \in DOMAIN run : run[i].extraction.category = "technical_failure"}
            \in SUBSET (1 .. total)
      BY <1>3
    <3> QED
      BY <1>2, <3>1, CountedIsNat
  <2> HIDE DEF count
  <2>3. log.category_counts["technical_failure"] >= count
    BY <1>1, <2>1, <2>2
  <2> QED
    BY <2>3 DEF count
<1>10. log.insufficient =
         {run[i].atom : i \in {j \in DOMAIN run : run[j].extraction.context_insufficiency}}
  <2>1. {claims[i].atom : i \in Insufficient(claims)} = {run[i].atom : i \in Insufficient(claims)}
    BY <1>2, <1>3 DEF Insufficient
  <2> QED
    BY <1>5, <1>7, <2>1
<1>11. log.reversal <=>
         /\ run # <<>>
         /\ 5 * Cardinality({j \in DOMAIN run : run[j].extraction.context_insufficiency})
              >= 2 * Len(run)
  <2>1. run # <<>> <=> total > 0
    <3>1. total = 0 => run = <<>>
      BY <1>3
    <3>2. run = <<>> => total = 0
      BY <1>4
    <3> QED
      BY <1>2, <3>1, <3>2
  <2> QED
    BY <1>4, <1>5, <1>7, <2>1 DEF ReversalTriggered
<1>12. LogDescribes(run, log)
  BY <1>4, <1>5, <1>8, <1>9, <1>10, <1>11 DEF LogDescribes
<1>13. \A i, j \in DOMAIN run : run[i].atom = run[j].atom => i = j
  <2>1. Distinct(selection.atoms)
    BY DEF selection
  <2> QED
    BY <1>2, <1>3, <2>1 DEF Distinct
<1>14. selection.atoms = [i \in DOMAIN run |-> run[i].atom]
  <2>1. selection.atoms = [i \in 1 .. total |-> selection.atoms[i]]
    BY <1>1, <1>2
  <2>2. \A i \in 1 .. total : selection.atoms[i] = run[i].atom
    BY <1>2, <1>3
  <2> QED
    BY <1>3, <2>1, <2>2
<1> QED
  BY <1>12, <1>13, <1>14 DEF Describes, selection, run, log

LEMMA OutputStep ==
  ASSUME SelectionInv, BuilderInv, AtomsDistinct, OutputInv, LogInv, [Next]_vars
  PROVE  OutputInv' /\ LogInv'
<1>1. \A run, log, stamp :
        Describes(run, log, stamp, selections) => Describes(run, log, stamp, selections')
  BY DescribesStays
<1>2. ASSUME pilot_files' = pilot_files
      PROVE  LogInv'
  BY <1>1, <1>2 DEF LogInv
<1>3. CASE UNCHANGED pilotVars
  BY <1>1, <1>2, <1>3 DEF pilotVars, OutputInv
<1>4. ASSUME NEW s \in DOMAIN selections, NEW claims \in ClaimFiles(selections[s]),
             StartBuild(selections[s], claims)
      PROVE  OutputInv' /\ LogInv'
  <2> DEFINE run == PilotRun(selections[s], claims)
             log == PilotLog(selections[s], claims)
             stamp == selections[s].stamp
  <2>1. selections[s] \in Selection /\ Distinct(selections[s].atoms)
    BY DEF SelectionInv, SelectionTypeOK, AtomsDistinct
  <2>2. Describes(run, log, stamp, selections)
    BY <1>4, <2>1, BuildDescribes DEF StartBuild
  <2>3. /\ builder' = [stage |-> "create", stamp |-> stamp, at |-> 1,
                       output |-> [run |-> Whole(run), log |-> Whole(log)]]
        /\ pilot_files' = pilot_files
    BY <1>4 DEF StartBuild
  <2> HIDE DEF run, log, stamp
  <2>4. /\ builder'.output["run"].body = run /\ builder'.output["log"].body = log
        /\ builder'.stamp = stamp /\ builder'.at = 1
    BY <2>3 DEF Whole
  <2> QED
    BY <1>1, <1>2, <2>2, <2>3, <2>4 DEF OutputInv
<1>5. CASE BuilderDies
  <2>1. builder'.stage = "idle" /\ pilot_files' = pilot_files
    BY <1>5 DEF BuilderDies, IdleBuilder
  <2> QED
    BY <1>2, <2>1 DEF OutputInv
<1>6. CASE CreatePilotFile \/ WritePilotFile
  <2>1. /\ builder.stage \in {"create", "write"}
        /\ builder.stamp \in Stamps /\ builder.at \in {1, 2}
        /\ DOMAIN builder = {"stage", "stamp", "at", "output"}
        /\ IsWhole(builder.output["run"]) /\ IsWhole(builder.output["log"])
        /\ builder.at = 1 => pilot_files[<<"log", builder.stamp>>] = Absent
    BY <1>6 DEF CreatePilotFile, WritePilotFile, BuilderInv, Kinds
  <2>2. /\ Describes(builder.output["run"].body, builder.output["log"].body, builder.stamp,
                 selections)
        /\ builder.at = 2 => pilot_files[<<"run", builder.stamp>>] = builder.output["run"]
    BY <2>1 DEF OutputInv
  <2>3. PICK file :
          /\ pilot_files' = [pilot_files EXCEPT ![BuilderName] = file]
          /\ \/ file = Torn /\ builder' = [builder EXCEPT !.stage = "write"]
             \/ /\ file = builder.output[KindAt(builder.at)]
                /\ builder' = IF builder.at = 1
                              THEN [builder EXCEPT !.stage = "create", !.at = 2]
                              ELSE IdleBuilder
    BY <1>6 DEF CreatePilotFile, WritePilotFile
  <2>4. DOMAIN pilot_files = PilotNames
    BY DEF BuilderInv
  <2>5. \A kind \in Kinds, stamp \in Stamps : <<kind, stamp>> \in PilotNames
    BY DEF PilotNames
  <2>6. ASSUME NEW name \in PilotNames, name # BuilderName
        PROVE  pilot_files'[name] = pilot_files[name]
    BY <2>3, <2>4, <2>6
  <2>7. BuilderName \in PilotNames
    BY <2>1, BuilderNameType
  <2>8. pilot_files'[BuilderName] = file
    BY <2>3, <2>4, <2>7
  <2>9. ASSUME NEW stamp \in Stamps, stamp # builder.stamp, NEW kind \in Kinds
        PROVE  pilot_files'[<<kind, stamp>>] = pilot_files[<<kind, stamp>>]
    BY <2>5, <2>6, <2>9 DEF BuilderName
  <2>10. ASSUME NEW stamp \in Stamps, stamp # builder.stamp,
                IsWhole(pilot_files'[<<"log", stamp>>])
         PROVE  /\ IsWhole(pilot_files'[<<"run", stamp>>])
                /\ Describes(pilot_files'[<<"run", stamp>>].body,
                             pilot_files'[<<"log", stamp>>].body, stamp, selections')
    <3>1. /\ pilot_files'[<<"run", stamp>>] = pilot_files[<<"run", stamp>>]
          /\ pilot_files'[<<"log", stamp>>] = pilot_files[<<"log", stamp>>]
      BY <2>9, <2>10 DEF Kinds
    <3>2. /\ IsWhole(pilot_files[<<"run", stamp>>])
          /\ Describes(pilot_files[<<"run", stamp>>].body, pilot_files[<<"log", stamp>>].body, stamp,
                       selections)
      BY <2>10, <3>1 DEF LogInv
    <3> QED
      BY <1>1, <3>1, <3>2
  <2>11. CASE builder.at = 1
    <3>1. BuilderName = <<"run", builder.stamp>>
      BY <2>11 DEF BuilderName, KindAt
    <3>2. pilot_files'[<<"log", builder.stamp>>] = Absent
      BY <2>1, <2>5, <2>6, <2>11, <3>1 DEF Kinds
    <3>3. ~IsWhole(pilot_files'[<<"log", builder.stamp>>])
      BY <3>2 DEF IsWhole, Absent
    <3>4. LogInv'
      BY <2>10, <3>3 DEF LogInv
    <3>5. /\ builder'.output = builder.output /\ builder'.stamp = builder.stamp
          /\ builder'.at = 2 => file = builder.output["run"]
      <4>1. CASE file = Torn /\ builder' = [builder EXCEPT !.stage = "write"]
        BY <2>1, <2>11, <4>1
      <4>2. CASE /\ file = builder.output["run"]
                 /\ builder' = [builder EXCEPT !.stage = "create", !.at = 2]
        BY <2>1, <4>2
      <4>3. KindAt(builder.at) = "run"
        BY <2>11 DEF KindAt
      <4> QED
        BY <2>3, <2>11, <4>1, <4>2, <4>3
    <3>6. OutputInv'
      BY <1>1, <2>2, <2>8, <3>1, <3>5 DEF OutputInv
    <3> QED
      BY <3>4, <3>6
  <2>12. CASE builder.at = 2
    <3>1. BuilderName = <<"log", builder.stamp>>
      BY <2>12 DEF BuilderName, KindAt
    <3>2. pilot_files'[<<"run", builder.stamp>>] = builder.output["run"]
      BY <2>1, <2>2, <2>5, <2>6, <2>12, <3>1 DEF Kinds
    <3>3. file = Torn \/ file = builder.output["log"]
      BY <2>3, <2>12 DEF KindAt
    <3>4. ~IsWhole(Torn)
      BY DEF IsWhole, Torn
    <3>5. ASSUME IsWhole(pilot_files'[<<"log", builder.stamp>>])
          PROVE  /\ IsWhole(pilot_files'[<<"run", builder.stamp>>])
                 /\ Describes(pilot_files'[<<"run", builder.stamp>>].body,
                              pilot_files'[<<"log", builder.stamp>>].body, builder.stamp,
                              selections')
      <4>1. pilot_files'[<<"log", builder.stamp>>] = builder.output["log"]
        BY <2>8, <3>1, <3>3, <3>4, <3>5
      <4> QED
        BY <1>1, <2>1, <2>2, <3>2, <4>1
    <3>6. LogInv'
      BY <2>10, <3>5 DEF LogInv
    <3>7. OutputInv'
      <4>1. CASE builder' = IdleBuilder
        BY <4>1 DEF OutputInv, IdleBuilder
      <4>2. CASE builder' = [builder EXCEPT !.stage = "write"]
        BY <1>1, <2>1, <2>2, <3>2, <4>2 DEF OutputInv
      <4> QED
        BY <2>3, <2>12, <4>1, <4>2
    <3> QED
      BY <3>6, <3>7
  <2> QED
    BY <2>1, <2>11, <2>12
<1>7. \/ UNCHANGED pilotVars
      \/ \E s \in DOMAIN selections : \E claims \in ClaimFiles(selections[s]) :
           StartBuild(selections[s], claims)
      \/ CreatePilotFile \/ WritePilotFile \/ BuilderDies
  BY DEF Next, vars, StartTool, RefuseBuild, ToolStep, PilotStep, SessionStep, ToolDies
<1> QED
  BY <1>3, <1>4, <1>5, <1>6, <1>7

LEMMA OutputInit == Init => BuilderInv /\ AtomsDistinct /\ OutputInv /\ LogInv
<1> SUFFICES ASSUME Init PROVE BuilderInv /\ AtomsDistinct /\ OutputInv /\ LogInv
  OBVIOUS
<1>1. /\ selector = IdleSelector /\ selections = <<>>
      /\ builder = IdleBuilder /\ pilot_files = [name \in PilotNames |-> Absent]
  BY DEF Init, SelectionInit, PilotInit
<1>2. BuilderInv
  BY FilesInit DEF FilesInv
<1>3. AtomsDistinct
  BY <1>1 DEF AtomsDistinct, Distinct, IdleSelector
<1>4. OutputInv
  BY <1>1 DEF OutputInv, IdleBuilder
<1>5. LogInv
  BY <1>1 DEF LogInv, PilotNames, Kinds, IsWhole, Absent
<1> QED
  BY <1>2, <1>3, <1>4, <1>5

(***************************************************************************)
(* For every selection and every claims file: whenever a log is whole, the *)
(* run file beside it is, and what the log counts is true of that file,    *)
(* whatever died between the two (build_pilot_output.py, build and         *)
(* write_outputs).                                                         *)
(***************************************************************************)
THEOREM LogsMatchRuns == Spec => []LogMatchesRun
<1> DEFINE I == SelectionInv /\ BuilderInv /\ AtomsDistinct /\ OutputInv /\ LogInv
<1>1. Init => I
  BY OutputInit, SelectionInitInv DEF Init
<1>2. I /\ [Next]_vars => I'
  BY RotationStep, BuilderStep, DistinctStep, OutputStep
<1>3. I => LogMatchesRun
  BY LogInvMatches
<1> QED
  BY <1>1, <1>2, <1>3, PTL DEF Spec

-----------------------------------------------------------------------------
(* The searches of a session. *)
SessionFields == {"stage", "claims", "max_requests_per_run", "use_translation", "records",
                  "requests_used_total", "budget_exhausted", "counts_failures", "retries"}

(* A session's records, of whatever claims it has. *)
RecordOf(claims) ==
  [claim : {claims[i] : i \in Nat}, requests_used : Nat, result_lists : Nat,
   status : {"none", "unverifiable", "pending"}]

Histories == [made : Nat, raised : Nat]

SearchTypes ==
  /\ DOMAIN session = SessionFields
  /\ session.counts_failures \in BOOLEAN /\ session.budget_exhausted \in BOOLEAN
  /\ session.records \in Seq(RecordOf(session.claims))
  /\ DOMAIN searches = {"of", "made", "uncounted"}
  /\ searches = [field \in DOMAIN searches |-> searches[field]]
  /\ searches.of \in Seq(Histories)
  /\ Len(searches.of) = Len(session.records)

NumberTypes ==
  /\ session.max_requests_per_run \in Nat /\ session.requests_used_total \in Nat
  /\ searches.made \in Nat /\ searches.uncounted \in Nat

(* What became of the claim at a position. *)
Accounted(i) ==
  /\ session.records[i].claim = session.claims[i]
  /\ RecordTells(session.records[i], searches.of[i])
  /\ session.records[i].status = "pending" => session.budget_exhausted

AllAccounted == \A i \in DOMAIN session.records : Accounted(i)

(* Once a claim is left pending the total is at its budget, so that no     *)
(* later claim is searched and that one is never retried.                  *)
AnyPending == \E i \in DOMAIN session.records : session.records[i].status = "pending"

PendingLast ==
  \A i, j \in DOMAIN session.records :
    session.records[i].status = "pending" /\ i <= j => session.records[j].status = "pending"

BudgetReached == session.requests_used_total >= session.max_requests_per_run

(* All searches are counted in the total but for the retries that are not. *)
TotalsInv ==
  /\ searches.made = session.requests_used_total + searches.uncounted
  /\ session.requests_used_total <= session.max_requests_per_run
  /\ session.counts_failures => searches.uncounted = 0

SearchInv ==
  /\ SearchTypes
  /\ NumberTypes
  /\ AllAccounted
  /\ PendingLast
  /\ AnyPending => BudgetReached
  /\ TotalsInv

LEMMA SearchInvAccounts == SearchInv => RequestsAccounted
<1> SUFFICES ASSUME SearchInv PROVE RequestsAccounted
  OBVIOUS
<1>1. ASSUME NEW i \in DOMAIN session.records, session.records[i].status = "pending"
      PROVE  PendingFrom(i)
  BY <1>1 DEF SearchInv, PendingLast, PendingFrom
<1>2. /\ searches.made <= session.max_requests_per_run + searches.uncounted
      /\ session.counts_failures => searches.uncounted = 0
  BY DEF SearchInv, NumberTypes, TotalsInv
<1> QED
  BY <1>1, <1>2 DEF SearchInv, AllAccounted, Accounted, RequestsAccounted

LEMMA EmptyRecords == \A S : <<>> \in Seq(S)
OBVIOUS

LEMMA NoSessionIsAccounted ==
  ASSUME session = IdleSession, searches = NoSearches
  PROVE  SearchInv
<1>1. /\ DOMAIN session = SessionFields
      /\ session.records = <<>> /\ session.max_requests_per_run = 0
      /\ session.requests_used_total = 0 /\ session.budget_exhausted = FALSE
      /\ session.counts_failures = FALSE
  BY DEF IdleSession, SessionFields
<1>2. /\ DOMAIN searches = {"of", "made", "uncounted"}
      /\ searches = [field \in DOMAIN searches |-> searches[field]]
      /\ searches.of = <<>> /\ searches.made = 0 /\ searches.uncounted = 0
  BY DEF NoSearches
<1>3. session.records \in Seq(RecordOf(session.claims)) /\ searches.of \in Seq(Histories)
  BY <1>1, <1>2, EmptyRecords
<1>4. SearchTypes
  BY <1>1, <1>2, <1>3 DEF SearchTypes
<1>5. NumberTypes /\ TotalsInv
  BY <1>1, <1>2 DEF NumberTypes, TotalsInv
<1> QED
  BY <1>1, <1>4, <1>5 DEF SearchInv, AllAccounted, PendingLast, AnyPending

LEMMA EndSessionKeeps ==
  ASSUME EndSession
  PROVE  SearchInv'
<1>1. session' = IdleSession /\ searches' = NoSearches
  BY DEF EndSession
<1>2. /\ DOMAIN session' = SessionFields
      /\ session'.records = <<>> /\ session'.max_requests_per_run = 0
      /\ session'.requests_used_total = 0 /\ session'.budget_exhausted = FALSE
      /\ session'.counts_failures = FALSE
  BY <1>1 DEF IdleSession, SessionFields
<1>3. /\ DOMAIN searches' = {"of", "made", "uncounted"}
      /\ searches' = [field \in DOMAIN searches' |-> searches'[field]]
      /\ searches'.of = <<>> /\ searches'.made = 0 /\ searches'.uncounted = 0
  BY <1>1 DEF NoSearches
<1>4. SearchTypes'
  <2>1. session'.records \in Seq(RecordOf(session'.claims)) /\ searches'.of \in Seq(Histories)
    BY <1>2, <1>3, EmptyRecords
  <2> QED
    BY <1>2, <1>3, <2>1 DEF SearchTypes
<1>5. NumberTypes' /\ TotalsInv'
  BY <1>2, <1>3 DEF NumberTypes, TotalsInv
<1> QED
  BY <1>2, <1>4, <1>5 DEF SearchInv, AllAccounted, PendingLast, AnyPending

LEMMA OpenKeeps ==
  ASSUME NEW budget \in RunBudgets, NEW translate \in BOOLEAN, NEW counts_failures \in BOOLEAN,
         OpenSession(budget, translate, counts_failures)
  PROVE  SearchInv'
<1> DEFINE claims == LoadClaims(LatestRun.body)
<1>1. /\ session' = [IdleSession EXCEPT !.stage = "searching", !.claims = claims,
                       !.max_requests_per_run = budget, !.use_translation = translate,
                       !.counts_failures = counts_failures]
      /\ searches' = NoSearches
  BY DEF OpenSession
<1> HIDE DEF claims
<1>2. budget \in Nat
  BY BudgetAssumption DEF BudgetAssumption
<1>3. /\ DOMAIN session' = SessionFields
      /\ session'.records = <<>> /\ session'.max_requests_per_run = budget
      /\ session'.requests_used_total = 0 /\ session'.budget_exhausted = FALSE
      /\ session'.counts_failures = counts_failures
  BY <1>1 DEF IdleSession, SessionFields
<1>4. /\ DOMAIN searches' = {"of", "made", "uncounted"}
      /\ searches' = [field \in DOMAIN searches' |-> searches'[field]]
      /\ searches'.of = <<>> /\ searches'.made = 0 /\ searches'.uncounted = 0
  BY <1>1 DEF NoSearches
<1>5. SearchTypes'
  <2>1. session'.records \in Seq(RecordOf(session'.claims)) /\ searches'.of \in Seq(Histories)
    BY <1>3, <1>4, EmptyRecords
  <2> QED
    BY <1>3, <1>4, <2>1 DEF SearchTypes
<1>6. NumberTypes' /\ TotalsInv'
  BY <1>2, <1>3, <1>4 DEF NumberTypes, TotalsInv
<1> QED
  BY <1>3, <1>5, <1>6 DEF SearchInv, AllAccounted, PendingLast, AnyPending

(* The next claim gets its record. *)
AddsRecord(record, history, exhausted) ==
  /\ record \in RecordOf(session.claims)
  /\ record.claim = NextClaim
  /\ RecordTells(record, history)
  /\ DOMAIN session' = SessionFields
  /\ session'.claims = session.claims
  /\ session'.records = Append(session.records, record)
  /\ session'.budget_exhausted = exhausted
  /\ exhausted \in BOOLEAN
  /\ session.budget_exhausted => exhausted
  /\ record.status = "pending" => exhausted
  /\ searches' = [searches EXCEPT !.of = Append(@, history), !.made = searches'.made]
  /\ history \in Histories

(* The totals after made more searches. *)
AddsSearches(made) ==
  /\ session'.max_requests_per_run = session.max_requests_per_run
  /\ session'.counts_failures = session.counts_failures
  /\ session'.requests_used_total = session.requests_used_total + made
  /\ searches'.made = searches.made + made
  /\ made = 1 => session.requests_used_total < session.max_requests_per_run
  /\ made = 0 => session.requests_used_total >= session.max_requests_per_run

LEMMA TotalsAdded ==
  ASSUME NumberTypes, TotalsInv, NEW made \in {0, 1}, AddsSearches(made),
         searches'.uncounted = searches.uncounted
  PROVE  /\ NumberTypes' /\ TotalsInv'
         /\ made = 0 => BudgetReached'
         /\ BudgetReached => made = 0
<1>1. NumberTypes'
  BY DEF NumberTypes, AddsSearches
<1>2. TotalsInv'
  BY DEF NumberTypes, TotalsInv, AddsSearches
<1>3. made = 0 => BudgetReached'
  BY DEF NumberTypes, BudgetReached, AddsSearches
<1>4. BudgetReached => made = 0
  BY DEF NumberTypes, BudgetReached, AddsSearches
<1> QED
  BY <1>1, <1>2, <1>3, <1>4

LEMMA RecordAdded ==
  ASSUME SearchInv, NEW record, NEW history, NEW exhausted, NEW made \in {0, 1},
         AddsRecord(record, history, exhausted), AddsSearches(made),
         record.status = "pending" <=> made = 0
  PROVE  SearchInv'
<1> DEFINE n == Len(session.records)
<1>1. /\ session.records \in Seq(RecordOf(session.claims)) /\ searches.of \in Seq(Histories)
      /\ Len(searches.of) = n /\ n \in Nat /\ DOMAIN session.records = 1 .. n
      /\ DOMAIN searches = {"of", "made", "uncounted"}
      /\ session.counts_failures \in BOOLEAN
      /\ searches = [field \in DOMAIN searches |-> searches[field]]
  BY DEF SearchInv, SearchTypes
<1>2. /\ record \in RecordOf(session.claims) /\ history \in Histories
      /\ session'.claims = session.claims
      /\ session'.records = Append(session.records, record)
  BY DEF AddsRecord
<1>3. /\ searches'.of = Append(searches.of, history) /\ searches'.uncounted = searches.uncounted
      /\ DOMAIN searches' = {"of", "made", "uncounted"}
      /\ searches' = [field \in DOMAIN searches' |-> searches'[field]]
  BY <1>1 DEF AddsRecord
<1>4. /\ Len(session'.records) = n + 1 /\ DOMAIN session'.records = 1 .. n + 1
      /\ session'.records[n + 1] = record
      /\ \A i \in 1 .. n : session'.records[i] = session.records[i]
      /\ session'.records \in Seq(RecordOf(session.claims))
  BY <1>1, <1>2
<1>5. /\ Len(searches'.of) = n + 1 /\ searches'.of \in Seq(Histories)
      /\ searches'.of[n + 1] = history
      /\ \A i \in 1 .. n : searches'.of[i] = searches.of[i]
  BY <1>1, <1>2, <1>3
<1> DEFINE m == n + 1
<1>6. m \notin 1 .. n /\ 1 .. m = 1 .. n \cup {m} /\ \A i \in 1 .. n : ~(m <= i)
  BY <1>1
<1>7. NumberTypes' /\ TotalsInv' /\ (made = 0 => BudgetReached') /\ (BudgetReached => made = 0)
  BY <1>3, TotalsAdded DEF SearchInv
<1>8. SearchTypes'
  BY <1>2, <1>3, <1>4, <1>5, <1>1 DEF SearchTypes, AddsRecord, AddsSearches
<1>9. NextClaim = session.claims[m]
  BY DEF NextClaim
<1> HIDE DEF m, n
<1>10. /\ DOMAIN session'.records = 1 .. n \cup {m}
       /\ session'.records[m] = record /\ searches'.of[m] = history
  BY <1>4, <1>5, <1>6 DEF m
<1>11. AllAccounted'
  <2> SUFFICES ASSUME NEW i \in 1 .. n \cup {m} PROVE Accounted(i)'
    BY <1>10 DEF AllAccounted
  <2>1. CASE i = m
    BY <1>9, <1>10, <2>1 DEF Accounted, AddsRecord
  <2>2. CASE i \in 1 .. n
    <3>1. Accounted(i)
      BY <1>1, <2>2 DEF SearchInv, AllAccounted
    <3>2. session'.records[i] = session.records[i] /\ searches'.of[i] = searches.of[i]
      BY <1>4, <1>5, <2>2
    <3> QED
      BY <3>1, <3>2 DEF Accounted, AddsRecord
  <2> QED
    BY <2>1, <2>2
<1>12. ASSUME NEW i \in 1 .. n, session.records[i].status = "pending"
       PROVE  made = 0
  BY <1>1, <1>7, <1>12 DEF SearchInv, AnyPending
<1>13. PendingLast'
  <2> SUFFICES ASSUME NEW i \in 1 .. n \cup {m}, NEW j \in 1 .. n \cup {m},
                      session'.records[i].status = "pending", i <= j
               PROVE  session'.records[j].status = "pending"
    BY <1>10 DEF PendingLast
  <2>1. CASE i \in 1 .. n /\ j \in 1 .. n
    BY <1>1, <1>4, <2>1 DEF SearchInv, PendingLast
  <2>2. CASE i \in 1 .. n /\ j = m
    BY <1>4, <1>10, <1>12, <2>2
  <2>3. CASE i = m
    <3>1. j \notin 1 .. n
      BY <1>6, <2>3
    <3> QED
      BY <2>3, <3>1
  <2> QED
    BY <2>1, <2>2, <2>3
<1>14. AnyPending' => BudgetReached'
  <2> SUFFICES ASSUME NEW i \in 1 .. n \cup {m}, session'.records[i].status = "pending"
               PROVE  made = 0
    BY <1>7, <1>10 DEF AnyPending
  <2>1. CASE i = m
    BY <1>10, <2>1
  <2>2. CASE i \in 1 .. n
    BY <1>4, <1>12, <2>2
  <2> QED
    BY <2>1, <2>2
<1> QED
  BY <1>7, <1>8, <1>11, <1>13, <1>14 DEF SearchInv

(* A retry changes one record. *)
ChangesRecord(i, record, history) ==
  /\ record \in RecordOf(session.claims) /\ history \in Histories
  /\ record.claim = session.records[i].claim
  /\ record.status = session.records[i].status
  /\ RecordTells(record, history)
  /\ DOMAIN session' = SessionFields
  /\ session'.claims = session.claims
  /\ session'.budget_exhausted = session.budget_exhausted
  /\ session'.counts_failures = session.counts_failures
  /\ session'.records = [session.records EXCEPT ![i] = record]
  /\ searches'.of = [searches.of EXCEPT ![i] = history]
  /\ DOMAIN searches' = {"of", "made", "uncounted"}
  /\ searches' = [field \in DOMAIN searches' |-> searches'[field]]

(* Its search is counted or not. *)
CountsRetry(counted) ==
  /\ session.requests_used_total < session.max_requests_per_run
  /\ session'.max_requests_per_run = session.max_requests_per_run
  /\ session'.requests_used_total = session.requests_used_total + counted
  /\ session'.counts_failures = session.counts_failures
  /\ session.counts_failures => counted = 1
  /\ searches'.made = searches.made + 1
  /\ searches'.uncounted = searches.uncounted + 1 - counted

LEMMA RetryCounted ==
  ASSUME NumberTypes, TotalsInv, NEW counted \in {0, 1}, CountsRetry(counted)
  PROVE  NumberTypes' /\ TotalsInv' /\ ~BudgetReached
<1>1. NumberTypes'
  BY DEF NumberTypes, CountsRetry
<1>2. TotalsInv'
  BY DEF NumberTypes, TotalsInv, CountsRetry
<1>3. ~BudgetReached
  BY DEF NumberTypes, BudgetReached, CountsRetry
<1> QED
  BY <1>1, <1>2, <1>3

LEMMA RecordChanged ==
  ASSUME SearchInv, NEW i \in DOMAIN session.records, NEW record, NEW history,
         ChangesRecord(i, record, history), ~AnyPending, NumberTypes', TotalsInv'
  PROVE  SearchInv'
<1>1. /\ session.records \in Seq(RecordOf(session.claims)) /\ searches.of \in Seq(Histories)
      /\ Len(searches.of) = Len(session.records)
      /\ DOMAIN searches.of = DOMAIN session.records
      /\ session.budget_exhausted \in BOOLEAN /\ session.counts_failures \in BOOLEAN
  BY DEF SearchInv, SearchTypes
<1>2. /\ record \in RecordOf(session.claims) /\ history \in Histories
      /\ session'.claims = session.claims
      /\ session'.records = [session.records EXCEPT ![i] = record]
      /\ searches'.of = [searches.of EXCEPT ![i] = history]
  BY DEF ChangesRecord
<1>3. /\ session'.records \in Seq(RecordOf(session.claims))
      /\ DOMAIN session'.records = DOMAIN session.records
      /\ Len(session'.records) = Len(session.records)
      /\ session'.records[i] = record
      /\ \A j \in DOMAIN session.records \ {i} : session'.records[j] = session.records[j]
  BY <1>1, <1>2
<1>4. /\ searches'.of \in Seq(Histories)
      /\ Len(searches'.of) = Len(searches.of)
      /\ searches'.of[i] = history
      /\ \A j \in DOMAIN session.records \ {i} : searches'.of[j] = searches.of[j]
  BY <1>1, <1>2
<1>5. SearchTypes'
  BY <1>1, <1>2, <1>3, <1>4 DEF SearchTypes, ChangesRecord
<1>6. ASSUME NEW j \in DOMAIN session.records
      PROVE  Accounted(j)' /\ session'.records[j].status # "pending"
  <2>1. session.records[j].status # "pending" /\ session.records[i].status # "pending"
    BY DEF AnyPending
  <2>2. Accounted(j) /\ Accounted(i)
    BY DEF SearchInv, AllAccounted
  <2>3. CASE j = i
    BY <1>3, <1>4, <2>1, <2>2, <2>3 DEF Accounted, ChangesRecord
  <2>4. CASE j # i
    BY <1>3, <1>4, <2>1, <2>2, <2>4 DEF Accounted, ChangesRecord
  <2> QED
    BY <2>3, <2>4
<1> QED
  BY <1>3, <1>5, <1>6 DEF SearchInv, AllAccounted, PendingLast, AnyPending

(* A step that leaves records and budgets as they are. *)
LEMMA RestKeeps ==
  ASSUME SearchInv, searches' = searches, DOMAIN session' = SessionFields,
         UNCHANGED <<session.claims, session.records, session.max_requests_per_run,
                     session.requests_used_total, session.counts_failures,
                     session.budget_exhausted>>
  PROVE  SearchInv'
<1>1. SearchTypes'
  BY DEF SearchInv, SearchTypes
<1>2. NumberTypes' /\ TotalsInv'
  BY DEF SearchInv, NumberTypes, TotalsInv
<1>3. AllAccounted' /\ PendingLast' /\ (AnyPending' => BudgetReached')
  BY DEF SearchInv, AllAccounted, Accounted, PendingLast, AnyPending, BudgetReached
<1> QED
  BY <1>1, <1>2, <1>3 DEF SearchInv

(* A record that is told the truth about, after one more search.           *)
LEMMA RetryTells ==
  ASSUME NEW claims, NEW old \in RecordOf(claims), NEW was \in Histories,
         RecordTells(old, was), old.status # "pending",
         old.requests_used < MAX_REQUESTS_PER_CLAIM
  PROVE  /\ LET record == [old EXCEPT !.requests_used = @ + 1, !.result_lists = @ + 1]
                history == [was EXCEPT !.made = @ + 1]
            IN record \in RecordOf(claims) /\ history \in Histories /\ RecordTells(record, history)
               /\ record.claim = old.claim /\ record.status = old.status
         /\ LET history == [was EXCEPT !.made = @ + 1, !.raised = @ + 1]
            IN history \in Histories /\ RecordTells(old, history)
<1>1. /\ old.requests_used \in Nat /\ old.result_lists \in Nat
      /\ was.made \in Nat /\ was.raised \in Nat
  BY DEF RecordOf, Histories
<1>2. MAX_REQUESTS_PER_CLAIM \in Nat
  BY BudgetAssumption DEF BudgetAssumption
<1> DEFINE record == [old EXCEPT !.requests_used = @ + 1, !.result_lists = @ + 1]
           history == [was EXCEPT !.made = @ + 1]
           raised == [was EXCEPT !.made = @ + 1, !.raised = @ + 1]
<1>3. /\ record.requests_used = old.requests_used + 1
      /\ record.result_lists = old.result_lists + 1
      /\ record.claim = old.claim /\ record.status = old.status
  BY DEF RecordOf
<1>4. record \in RecordOf(claims)
  <2>1. old.requests_used + 1 \in Nat /\ old.result_lists + 1 \in Nat
    BY <1>1
  <2> QED
    BY <2>1 DEF RecordOf
<1>5. /\ history.made = was.made + 1 /\ history.raised = was.raised
      /\ raised.made = was.made + 1 /\ raised.raised = was.raised + 1
  BY DEF Histories
<1>6. history \in Histories /\ raised \in Histories
  <2>1. was.made + 1 \in Nat /\ was.raised + 1 \in Nat
    BY <1>1
  <2> QED
    BY <2>1 DEF Histories
<1> HIDE DEF record, history, raised
<1>7. RecordTells(record, history)
  <2>1. record.requests_used <= MAX_REQUESTS_PER_CLAIM
    BY <1>1, <1>2, <1>3
  <2>2. history.made = record.requests_used + history.raised /\ history.made # 0
    BY <1>1, <1>3, <1>5 DEF RecordTells
  <2>3. record.requests_used =
          record.result_lists + (IF record.status = "unverifiable" THEN 1 ELSE 0)
    <3>1. old.requests_used = old.result_lists + (IF old.status = "unverifiable" THEN 1 ELSE 0)
      BY DEF RecordTells
    <3> QED
      BY <1>1, <1>3, <3>1
  <2>4. record.status # "pending"
    BY <1>3
  <2> QED
    BY <2>1, <2>2, <2>3, <2>4 DEF RecordTells
<1>8. RecordTells(old, raised)
  BY <1>1, <1>2, <1>5 DEF RecordTells
<1> QED
  BY <1>3, <1>4, <1>6, <1>7, <1>8 DEF record, history, raised

LEMMA RetryKeeps ==
  ASSUME SearchInv, Retry
  PROVE  SearchInv'
<1>1. PICK i \in DOMAIN session.records : RetryAnswers(i) \/ RetryRaises(i) \/ RetryRefused(i)
  BY DEF Retry
<1> DEFINE old == session.records[i]
           was == searches.of[i]
<1>2. /\ session.records \in Seq(RecordOf(session.claims)) /\ searches.of \in Seq(Histories)
      /\ i \in DOMAIN searches.of
      /\ DOMAIN session = SessionFields
      /\ DOMAIN searches = {"of", "made", "uncounted"}
      /\ searches = [field \in DOMAIN searches |-> searches[field]]
  BY DEF SearchInv, SearchTypes
<1>3. old \in RecordOf(session.claims) /\ was \in Histories
  BY <1>2
<1>4. RecordTells(old, was)
  BY DEF SearchInv, AllAccounted, Accounted
<1>5. CASE RetryRefused(i)
  <2>1. session' = [session EXCEPT !.retries = @ + 1] /\ searches' = searches
    BY <1>5 DEF RetryRefused
  <2> HIDE DEF old, was
  <2> QED
    BY <1>2, <2>1, RestKeeps DEF SessionFields
<1>6. ASSUME session.requests_used_total < session.max_requests_per_run
      PROVE  ~AnyPending /\ old.status # "pending"
  <2>1. ~BudgetReached
    BY <1>6 DEF SearchInv, NumberTypes, BudgetReached
  <2> QED
    BY <2>1 DEF SearchInv, AnyPending
<1>7. CASE MayRetry(old, session.requests_used_total) /\ RetryAnswers(i)
  <2> DEFINE record == [old EXCEPT !.requests_used = @ + 1, !.result_lists = @ + 1]
             history == [was EXCEPT !.made = @ + 1]
  <2>1. /\ session' = [session EXCEPT !.records[i].requests_used = @ + 1,
                                      !.records[i].result_lists = @ + 1,
                                      !.requests_used_total = @ + 1,
                                      !.retries = @ + 1]
        /\ searches' = [searches EXCEPT !.of[i].made = @ + 1, !.made = @ + 1]
    BY <1>7 DEF RetryAnswers
  <2>2. /\ session'.records = [session.records EXCEPT ![i] = record]
        /\ session'.requests_used_total = session.requests_used_total + 1
        /\ DOMAIN session' = SessionFields
        /\ session'.claims = session.claims
        /\ session'.max_requests_per_run = session.max_requests_per_run
        /\ session'.counts_failures = session.counts_failures
        /\ session'.budget_exhausted = session.budget_exhausted
    BY <1>2, <2>1 DEF SessionFields
  <2>3. /\ searches'.of = [searches.of EXCEPT ![i] = history]
        /\ searches'.made = searches.made + 1 /\ searches'.uncounted = searches.uncounted
        /\ DOMAIN searches' = {"of", "made", "uncounted"}
        /\ searches' = [field \in DOMAIN searches' |-> searches'[field]]
    BY <1>2, <2>1
  <2>4. /\ old.requests_used < MAX_REQUESTS_PER_CLAIM
        /\ session.requests_used_total < session.max_requests_per_run
    BY <1>7 DEF MayRetry
  <2>5. /\ record \in RecordOf(session.claims) /\ history \in Histories
        /\ RecordTells(record, history)
        /\ record.claim = old.claim /\ record.status = old.status
    BY <1>3, <1>4, <1>6, <2>4, RetryTells
  <2> HIDE DEF record, history
  <2>6. CountsRetry(1)
    <3>1. searches.uncounted + 1 - 1 = searches.uncounted
      BY DEF SearchInv, NumberTypes
    <3> QED
      BY <2>2, <2>3, <2>4, <3>1 DEF CountsRetry
  <2>7. ChangesRecord(i, record, history)
    BY <2>2, <2>3, <2>5 DEF ChangesRecord
  <2>8. NumberTypes' /\ TotalsInv'
    BY <2>6, RetryCounted DEF SearchInv
  <2> HIDE DEF old, was
  <2> QED
    BY <1>6, <2>4, <2>7, <2>8, RecordChanged
<1>8. CASE MayRetry(old, session.requests_used_total) /\ RetryRaises(i)
  <2> DEFINE history == [was EXCEPT !.made = @ + 1, !.raised = @ + 1]
             counted == IF session.counts_failures THEN 1 ELSE 0
  <2>1. /\ session' = [session EXCEPT
             !.requests_used_total = IF session.counts_failures THEN @ + 1 ELSE @,
             !.retries = @ + 1]
        /\ searches' = [searches EXCEPT
             !.of[i].made = @ + 1, !.of[i].raised = @ + 1, !.made = @ + 1,
             !.uncounted = IF session.counts_failures THEN @ ELSE @ + 1]
    BY <1>8 DEF RetryRaises
  <2>2. /\ session'.records = session.records
        /\ session'.requests_used_total = IF session.counts_failures
                                          THEN session.requests_used_total + 1
                                          ELSE session.requests_used_total
        /\ DOMAIN session' = SessionFields
        /\ session'.claims = session.claims
        /\ session'.max_requests_per_run = session.max_requests_per_run
        /\ session'.counts_failures = session.counts_failures
        /\ session'.budget_exhausted = session.budget_exhausted
    BY <1>2, <2>1 DEF SessionFields
  <2>3. session'.records = [session.records EXCEPT ![i] = old]
    BY <1>2, <2>2
  <2>4. /\ searches'.of = [searches.of EXCEPT ![i] = history]
        /\ searches'.made = searches.made + 1
        /\ searches'.uncounted = IF session.counts_failures THEN searches.uncounted
                                                            ELSE searches.uncounted + 1
        /\ DOMAIN searches' = {"of", "made", "uncounted"}
        /\ searches' = [field \in DOMAIN searches' |-> searches'[field]]
    BY <1>2, <2>1
  <2>5. /\ old.requests_used < MAX_REQUESTS_PER_CLAIM
        /\ session.requests_used_total < session.max_requests_per_run
    BY <1>8 DEF MayRetry
  <2>6. history \in Histories /\ RecordTells(old, history)
    BY <1>3, <1>4, <1>6, <2>5, RetryTells
  <2> HIDE DEF history
  <2>7. counted \in {0, 1} /\ CountsRetry(counted)
    <3>1. NumberTypes
      BY DEF SearchInv
    <3> QED
      BY <2>2, <2>4, <2>5, <3>1 DEF CountsRetry, NumberTypes
  <2> HIDE DEF counted
  <2>8. ChangesRecord(i, old, history)
    BY <1>3, <2>2, <2>3, <2>4, <2>6 DEF ChangesRecord
  <2>9. NumberTypes' /\ TotalsInv'
    BY <2>7, RetryCounted DEF SearchInv
  <2> HIDE DEF old, was
  <2> QED
    BY <1>6, <2>5, <2>8, <2>9, RecordChanged
<1> QED
  BY <1>1, <1>5, <1>7, <1>8 DEF RetryAnswers, RetryRaises

LEMMA NextClaimIn ==
  ASSUME SearchInv
  PROVE  NextClaim \in {session.claims[i] : i \in Nat}
<1>1. Len(session.records) + 1 \in Nat
  BY DEF SearchInv, SearchTypes
<1> QED
  BY <1>1 DEF NextClaim

(* What run_searches writes of a claim tells what it did for it.           *)
LEMMA NewRecordTells ==
  ASSUME NEW claims, NextClaim \in {claims[i] : i \in Nat},
         NEW status \in {"none", "unverifiable", "pending"},
         NEW used \in {0, 1}, NEW lists \in {0, 1},
         used = lists + (IF status = "unverifiable" THEN 1 ELSE 0),
         status = "pending" <=> used = 0
  PROVE  LET record == NewRecord(status, used, lists)
             history == [made |-> used, raised |-> 0]
         IN /\ record \in RecordOf(claims) /\ record.claim = NextClaim
            /\ record.status = status
            /\ history \in Histories /\ RecordTells(record, history)
<1> DEFINE record == NewRecord(status, used, lists)
           history == [made |-> used, raised |-> 0]
<1>1. record.claim = NextClaim /\ record.requests_used = used
      /\ record.result_lists = lists /\ record.status = status
  BY DEF NewRecord
<1>2. record \in RecordOf(claims)
  BY DEF NewRecord, RecordOf
<1>3. history.made = used /\ history.raised = 0 /\ history \in Histories
  BY DEF Histories
<1>4. used \in Nat /\ used + 0 = used /\ used <= 1
  OBVIOUS
<1>5. MAX_REQUESTS_PER_CLAIM \in Nat /\ MAX_REQUESTS_PER_CLAIM >= 1
  BY BudgetAssumption DEF BudgetAssumption
<1>6. used <= MAX_REQUESTS_PER_CLAIM
  BY <1>4, <1>5
<1> HIDE DEF record, history
<1>7. RecordTells(record, history)
  BY <1>1, <1>3, <1>4, <1>6 DEF RecordTells
<1> QED
  BY <1>1, <1>2, <1>3, <1>7 DEF record, history

LEMMA SearchStepKeeps ==
  ASSUME SearchInv, SearchStep
  PROVE  SearchInv'
<1>1. /\ DOMAIN session = SessionFields
      /\ session.budget_exhausted \in BOOLEAN
      /\ DOMAIN searches = {"of", "made", "uncounted"}
      /\ searches = [field \in DOMAIN searches |-> searches[field]]
  BY DEF SearchInv, SearchTypes
<1>2. NumberTypes
  BY DEF SearchInv
<1>3. CASE LeavePending
  <2> DEFINE record == NewRecord("pending", 0, 0)
             history == [made |-> 0, raised |-> 0]
  <2>1. /\ session' = [session EXCEPT !.records = Append(@, record), !.budget_exhausted = TRUE]
        /\ searches' = [searches EXCEPT !.of = Append(@, history)]
    BY <1>3 DEF LeavePending
  <2>2. /\ record \in RecordOf(session.claims) /\ record.claim = NextClaim
        /\ record.status = "pending"
        /\ history \in Histories /\ RecordTells(record, history)
    BY NextClaimIn, NewRecordTells
  <2> HIDE DEF record, history
  <2>3. AddsRecord(record, history, TRUE)
    BY <1>1, <2>1, <2>2 DEF AddsRecord, SessionFields
  <2>4. /\ session'.max_requests_per_run = session.max_requests_per_run
        /\ session'.counts_failures = session.counts_failures
        /\ session'.requests_used_total = session.requests_used_total
        /\ searches'.made = searches.made
    BY <1>1, <2>1 DEF SessionFields
  <2>5. session.requests_used_total >= session.max_requests_per_run
    BY <1>2, <1>3 DEF LeavePending, WithinRunBudget, NumberTypes
  <2>6. AddsSearches(0)
    BY <1>2, <2>4, <2>5 DEF AddsSearches, NumberTypes
  <2> QED
    BY <2>2, <2>3, <2>6, RecordAdded
<1>4. ASSUME NEW answers \in BOOLEAN, Search(answers) PROVE SearchInv'
  <2> DEFINE status == IF answers THEN "none" ELSE "unverifiable"
             lists == IF answers THEN 1 ELSE 0
             record == NewRecord(status, 1, lists)
             history == [made |-> 1, raised |-> 0]
  <2>1. /\ session' = [session EXCEPT !.records = Append(@, record),
                                      !.requests_used_total = @ + 1]
        /\ searches' = [searches EXCEPT !.of = Append(@, history), !.made = @ + 1]
    BY <1>4 DEF Search
  <2>2. /\ record \in RecordOf(session.claims) /\ record.claim = NextClaim
        /\ record.status = status
        /\ history \in Histories /\ RecordTells(record, history)
    BY NextClaimIn, NewRecordTells
  <2>3. status # "pending"
    OBVIOUS
  <2> HIDE DEF record, history, status
  <2>4. AddsRecord(record, history, session.budget_exhausted)
    BY <1>1, <2>1, <2>2, <2>3 DEF AddsRecord, SessionFields
  <2>5. /\ session'.max_requests_per_run = session.max_requests_per_run
        /\ session'.counts_failures = session.counts_failures
        /\ session'.requests_used_total = session.requests_used_total + 1
        /\ searches'.made = searches.made + 1
    BY <1>1, <2>1 DEF SessionFields
  <2>6. session.requests_used_total < session.max_requests_per_run
    BY <1>4 DEF Search, WithinRunBudget
  <2>7. AddsSearches(1)
    BY <2>5, <2>6 DEF AddsSearches
  <2> QED
    BY <2>2, <2>3, <2>4, <2>7, RecordAdded
<1>5. CASE SearchRaises
  BY <1>5, EndSessionKeeps DEF SearchRaises
<1>6. CASE FinishSearches
  <2>1. session' = [session EXCEPT !.stage = "reviewing"] /\ searches' = searches
    BY <1>6 DEF FinishSearches
  <2> QED
    BY <1>1, <2>1, RestKeeps DEF SessionFields
<1> QED
  BY <1>3, <1>4, <1>5, <1>6 DEF SearchStep

LEMMA SessionsStep ==
  ASSUME SearchInv, [Next]_vars
  PROVE  SearchInv'
<1>1. CASE UNCHANGED searchVars
  BY <1>1, RestKeeps DEF searchVars, SearchInv, SearchTypes
<1>2. \/ UNCHANGED searchVars
      \/ \E budget \in RunBudgets, translate, counts_failures \in BOOLEAN :
           OpenSession(budget, translate, counts_failures)
      \/ SearchStep \/ Retry \/ EndSession
  BY DEF Next, vars, StartTool, OpenRaises, ToolStep, SessionStep, ToolDies, CloseSession,
         SessionDies
<1> QED
  BY <1>1, <1>2, OpenKeeps, SearchStepKeeps, RetryKeeps, EndSessionKeeps

LEMMA SearchInitInv == Init => SearchInv
BY NoSessionIsAccounted DEF Init, SearchInit

(***************************************************************************)
(* For every budget and every list of claims, whichever searches raise and *)
(* whatever a session retries: each record tells what became of its claim, *)
(* the pending ones come last, and all searches stay within the budget but *)
(* for the retries that raised and were not counted (driver.py,            *)
(* run_searches and retry_search).                                         *)
(***************************************************************************)
THEOREM RequestsAreAccounted == Spec => []RequestsAccounted
<1>1. Init => SearchInv
  BY SearchInitInv
<1>2. SearchInv /\ [Next]_vars => SearchInv'
  BY SessionsStep
<1> QED
  BY <1>1, <1>2, SearchInvAccounts, PTL DEF Spec

-----------------------------------------------------------------------------
(* The types of a pilot's files. *)

LEMMA RunTyped ==
  ASSUME NEW selection \in Selection, NEW claims \in ClaimFiles(selection)
  PROVE  /\ PilotRun(selection, claims) \in Seq(PilotRecord)
         /\ PilotLog(selection, claims) \in PilotLogBody
<1> DEFINE total == Len(claims)
           counts == [category \in CountedCategories |->
                        CategoryCount(selection, claims, category)]
<1>1. /\ claims \in Seq(ClaimRow) /\ selection.atoms \in Seq(Cards)
      /\ selection.read_errors \in Nat /\ selection.stamp \in Stamps
  BY ClaimsAreRows DEF Selection
<1>2. total \in Nat /\ DOMAIN claims = 1 .. total
  BY <1>1
<1>3. \A i \in 1 .. total : /\ claims[i].atom \in Cards
                            /\ claims[i].extraction \in Extraction
  <2>1. \A i \in 1 .. total : claims[i] \in ClaimRow
    BY <1>1
  <2> QED
    BY <2>1, ExtractionsAssumption DEF ClaimRow, ExtractionsAssumption
<1>4. PilotRun(selection, claims) \in Seq(PilotRecord)
  <2>1. \A i \in 1 .. total : [claim_id |-> <<selection.stamp, i>>, atom |-> claims[i].atom,
                               extraction |-> claims[i].extraction] \in PilotRecord
    BY <1>1, <1>2, <1>3 DEF PilotRecord
  <2> QED
    BY <1>2, <2>1 DEF PilotRun
<1>5. counts \in [CountedCategories -> Nat]
  <2> SUFFICES ASSUME NEW category \in CountedCategories
               PROVE  CategoryCount(selection, claims, category) \in Nat
    OBVIOUS
  <2> DEFINE of == {i \in DOMAIN claims : claims[i].extraction.category = category}
  <2>1. Cardinality(of) \in Nat
    BY <1>2, CountedIsNat
  <2> HIDE DEF of
  <2>2. Cardinality(of) + (IF category = "technical_failure" THEN selection.read_errors ELSE 0)
          \in Nat
    BY <1>1, <2>1
  <2> QED
    BY <2>2 DEF CategoryCount, of
<1>6. {claims[i].atom : i \in Insufficient(claims)} \in SUBSET Cards
  BY <1>2, <1>3 DEF Insufficient
<1>7. Len(selection.atoms) \in Nat
  BY <1>1
<1>8. ReversalTriggered(Cardinality(Insufficient(claims)), Len(selection.atoms)) \in BOOLEAN
  BY DEF ReversalTriggered
<1>9. PilotLog(selection, claims) =
        [total_atoms |-> Len(selection.atoms), category_counts |-> counts,
         insufficient |-> {claims[i].atom : i \in Insufficient(claims)},
         reversal |-> ReversalTriggered(Cardinality(Insufficient(claims)), Len(selection.atoms))]
  BY DEF PilotLog
<1> HIDE DEF counts
<1>10. PilotLog(selection, claims) \in PilotLogBody
  BY <1>5, <1>6, <1>7, <1>8, <1>9 DEF PilotLogBody
<1> QED
  BY <1>4, <1>10

LEMMA PilotFileStates ==
  \A kind : /\ Absent \in PilotFile(kind) /\ Torn \in PilotFile(kind)
            /\ \A body \in (IF kind = "run" THEN Seq(PilotRecord) ELSE PilotLogBody) :
                 Whole(body) \in PilotFile(kind)
            /\ \A file \in PilotFile(kind) : IsWhole(file) =>
                 file.body \in (IF kind = "run" THEN Seq(PilotRecord) ELSE PilotLogBody)
<1> SUFFICES ASSUME NEW kind
             PROVE  /\ Absent \in PilotFile(kind) /\ Torn \in PilotFile(kind)
                    /\ \A body \in (IF kind = "run" THEN Seq(PilotRecord) ELSE PilotLogBody) :
                         Whole(body) \in PilotFile(kind)
                    /\ \A file \in PilotFile(kind) : IsWhole(file) =>
                         file.body \in (IF kind = "run" THEN Seq(PilotRecord) ELSE PilotLogBody)
  OBVIOUS
<1> DEFINE bodies == IF kind = "run" THEN Seq(PilotRecord) ELSE PilotLogBody
<1>1. PilotFile(kind) = {Absent, Torn} \cup [state : {"whole"}, body : bodies]
  BY DEF PilotFile
<1> HIDE DEF bodies
<1>2. /\ Absent \in PilotFile(kind) /\ Torn \in PilotFile(kind)
      /\ \A body \in bodies : Whole(body) \in PilotFile(kind)
      /\ \A file \in PilotFile(kind) : IsWhole(file) => file.body \in bodies
  BY <1>1 DEF Whole, IsWhole, Absent, Torn
<1> QED
  BY <1>2 DEF bodies

LEMMA PilotTypesStep ==
  ASSUME SelectionInv, BuilderInv, PilotTypeOK, [Next]_vars
  PROVE  PilotTypeOK'
<1>0. /\ MaxStamp \in Nat /\ Stamps = 1 .. MaxStamp
  BY ClockAssumption DEF ClockAssumption, Stamps
<1>1. CASE UNCHANGED pilotVars
  BY <1>1 DEF pilotVars, PilotTypeOK
<1>2. ASSUME NEW s \in DOMAIN selections, NEW claims \in ClaimFiles(selections[s]),
             StartBuild(selections[s], claims)
      PROVE  PilotTypeOK'
  <2> DEFINE run == PilotRun(selections[s], claims)
             log == PilotLog(selections[s], claims)
  <2>1. selections[s] \in Selection
    BY DEF SelectionInv, SelectionTypeOK
  <2>2. run \in Seq(PilotRecord) /\ log \in PilotLogBody
    BY <2>1, RunTyped
  <2>3. /\ builder' = [stage |-> "create", stamp |-> selections[s].stamp, at |-> 1,
                       output |-> [run |-> Whole(run), log |-> Whole(log)]]
        /\ pilot_files' = pilot_files
    BY <1>2 DEF StartBuild
  <2> HIDE DEF run, log
  <2>4. \A kind \in Kinds : builder'.output[kind] \in PilotFile(kind)
    BY <2>2, <2>3, PilotFileStates DEF Kinds
  <2>5. builder'.stamp \in 0 .. MaxStamp
    BY <1>0, <2>1, <2>3 DEF Selection
  <2> QED
    BY <2>3, <2>4, <2>5 DEF PilotTypeOK
<1>3. CASE CreatePilotFile
  <2>1. /\ builder.stamp \in Stamps /\ DOMAIN builder = {"stage", "stamp", "at", "output"}
        /\ pilot_files' = [pilot_files EXCEPT ![BuilderName] = Torn]
        /\ builder' = [builder EXCEPT !.stage = "write"]
    BY <1>3 DEF CreatePilotFile, BuilderInv
  <2>2. /\ builder'.stage = "write" /\ builder'.stamp = builder.stamp
        /\ builder'.at = builder.at /\ builder'.output = builder.output
    BY <2>1
  <2>3. \A name \in PilotNames : pilot_files'[name] = pilot_files[name] \/ pilot_files'[name] = Torn
    BY <2>1 DEF BuilderInv
  <2> QED
    BY <2>2, <2>3, PilotFileStates DEF PilotTypeOK
<1>4. CASE WritePilotFile
  <2>1. /\ builder.stamp \in Stamps /\ builder.at \in {1, 2}
        /\ DOMAIN builder = {"stage", "stamp", "at", "output"}
        /\ pilot_files' = [pilot_files EXCEPT ![BuilderName] = builder.output[KindAt(builder.at)]]
        /\ \/ builder' = [builder EXCEPT !.stage = "create", !.at = 2]
           \/ builder' = IdleBuilder
    BY <1>4 DEF WritePilotFile, BuilderInv
  <2>2. BuilderName \in PilotNames /\ BuilderName[1] = KindAt(builder.at)
        /\ KindAt(builder.at) \in Kinds
    BY <2>1, BuilderNameType DEF BuilderName, KindAt, Kinds
  <2>3. \A name \in PilotNames : pilot_files'[name] \in PilotFile(name[1])
    BY <2>1, <2>2 DEF BuilderInv, PilotTypeOK
  <2>4. CASE builder' = IdleBuilder
    BY <1>0, <2>3, <2>4, PilotFileStates DEF PilotTypeOK, IdleBuilder
  <2>5. CASE builder' = [builder EXCEPT !.stage = "create", !.at = 2]
    <3>1. /\ builder'.stage = "create" /\ builder'.stamp = builder.stamp
          /\ builder'.at = 2 /\ builder'.output = builder.output
      BY <2>1, <2>5
    <3> QED
      BY <2>3, <3>1 DEF PilotTypeOK
  <2> QED
    BY <2>1, <2>4, <2>5
<1>5. CASE BuilderDies
  BY <1>0, <1>5, PilotFileStates DEF BuilderDies, PilotTypeOK, IdleBuilder
<1>6. \/ UNCHANGED pilotVars
      \/ \E s \in DOMAIN selections : \E claims \in ClaimFiles(selections[s]) :
           StartBuild(selections[s], claims)
      \/ CreatePilotFile \/ WritePilotFile \/ BuilderDies
  BY DEF Next, vars, StartTool, RefuseBuild, ToolStep, PilotStep, SessionStep, ToolDies
<1> QED
  BY <1>1, <1>2, <1>3, <1>4, <1>5, <1>6

-----------------------------------------------------------------------------
(* The types of a session. *)

(* The fields of a session that SearchInv says nothing about; no session   *)
(* has more records than claims.                                           *)
SessionRest ==
  /\ session = [field \in SessionFields |-> session[field]]
  /\ session.stage \in {"idle", "searching", "reviewing"}
  /\ session.claims \in Seq(PilotRecord)
  /\ session.max_requests_per_run \in RunBudgets \cup {0}
  /\ session.use_translation \in BOOLEAN
  /\ session.retries \in 0 .. MaxRetries
  /\ Len(session.records) <= Len(session.claims)

LEMMA SessionTyped ==
  ASSUME SearchInv, SessionRest
  PROVE  session \in Session /\ searches \in Searches
<1>1. /\ session.records \in Seq(RecordOf(session.claims))
      /\ Len(session.records) \in Nat /\ Len(session.claims) \in Nat
      /\ session.claims \in Seq(PilotRecord)
  BY DEF SearchInv, SearchTypes, SessionRest
<1>2. session.records \in Seq(SearchRecord)
  <2>1. ASSUME NEW i \in 1 .. Len(session.records)
        PROVE  session.records[i] \in SearchRecord
    <3>1. session.records[i] \in RecordOf(session.claims) /\ i \in DOMAIN session.records
      BY <1>1
    <3>2. session.records[i].claim = session.claims[i]
      BY <3>1 DEF SearchInv, AllAccounted, Accounted
    <3>3. session.claims[i] \in PilotRecord
      BY <1>1 DEF SessionRest
    <3> QED
      BY <3>1, <3>2, <3>3 DEF RecordOf, SearchRecord
  <2> QED
    BY <1>1, <2>1
<1>3. session \in Session
  <2>1. /\ session = [field \in SessionFields |-> session[field]]
        /\ session.stage \in {"idle", "searching", "reviewing"}
        /\ session.claims \in Seq(PilotRecord)
        /\ session.max_requests_per_run \in RunBudgets \cup {0}
        /\ session.use_translation \in BOOLEAN
        /\ session.retries \in 0 .. MaxRetries
    BY DEF SessionRest
  <2>2. /\ session.requests_used_total \in Nat /\ session.budget_exhausted \in BOOLEAN
        /\ session.counts_failures \in BOOLEAN
    BY DEF SearchInv, SearchTypes, NumberTypes
  <2> QED
    BY <1>2, <2>1, <2>2 DEF Session, SessionFields
<1>4. searches \in Searches
  <2>1. /\ searches = [field \in {"of", "made", "uncounted"} |-> searches[field]]
        /\ searches.of \in Seq(Histories)
        /\ searches.made \in Nat /\ searches.uncounted \in Nat
    BY DEF SearchInv, SearchTypes, NumberTypes
  <2> QED
    BY <2>1 DEF Searches, Histories
<1> QED
  BY <1>3, <1>4

(* The newest of the run files is one of them. *)
LEMMA LatestIsRun ==
  ASSUME RunStamps # {}
  PROVE  Max(RunStamps) \in RunStamps
<1> DEFINE ages == {MaxStamp - stamp : stamp \in RunStamps}
<1>1. MaxStamp \in Nat /\ RunStamps \in SUBSET (1 .. MaxStamp)
  BY ClockAssumption DEF ClockAssumption, RunStamps, Stamps
<1>2. ages \in SUBSET Nat /\ ages # {}
  <2>1. \A stamp \in RunStamps : MaxStamp - stamp \in Nat
    BY <1>1
  <2> QED
    BY <2>1
<1>3. PICK age \in ages : \A other \in ages : age <= other
  BY <1>2, LeastExists
<1>4. PICK newest \in RunStamps : age = MaxStamp - newest
  OBVIOUS
<1>5. \A stamp \in RunStamps : newest >= stamp
  <2> SUFFICES ASSUME NEW stamp \in RunStamps PROVE newest >= stamp
    OBVIOUS
  <2>1. MaxStamp - newest <= MaxStamp - stamp
    BY <1>3, <1>4
  <2> QED
    BY <1>1, <2>1
<1> QED
  BY <1>5 DEF Max

LEMMA LoadedClaims ==
  ASSUME NEW records \in Seq(PilotRecord)
  PROVE  LoadClaims(records) \in Seq(PilotRecord)
<1> DEFINE positions == {i \in DOMAIN records : records[i].extraction.status = "claim"}
           claims == Kept(records, positions)
           limit == Min({CLAIM_LIMIT, Len(claims)})
<1>1. positions \in SUBSET DOMAIN records
  OBVIOUS
<1> HIDE DEF positions
<1>2. claims \in Seq(PilotRecord)
  BY <1>1, KeptSelects
<1>3. Len(claims) \in Nat /\ CLAIM_LIMIT \in Nat
  BY <1>2, BudgetAssumption DEF BudgetAssumption
<1> HIDE DEF claims
<1>4. limit \in {CLAIM_LIMIT, Len(claims)} /\ limit <= Len(claims)
  BY <1>3 DEF Min
<1> HIDE DEF limit
<1>5. SubSeq(claims, 1, limit) \in Seq(PilotRecord)
  BY <1>2, <1>3, <1>4
<1> QED
  BY <1>5 DEF LoadClaims, limit, claims, positions

LEMMA IdleRest == session' = IdleSession => SessionRest'
<1> SUFFICES ASSUME session' = IdleSession PROVE SessionRest'
  OBVIOUS
<1>1. /\ session'.stage = "idle" /\ session'.claims = <<>> /\ session'.records = <<>>
      /\ session'.max_requests_per_run = 0 /\ session'.use_translation = FALSE
      /\ session'.retries = 0
      /\ session' = [field \in SessionFields |-> session'[field]]
  BY DEF IdleSession, SessionFields
<1>2. 0 \in 0 .. MaxRetries
  BY BudgetAssumption DEF BudgetAssumption
<1>3. session'.claims \in Seq(PilotRecord) /\ Len(session'.records) <= Len(session'.claims)
  BY <1>1, EmptyRecords
<1> QED
  BY <1>1, <1>2, <1>3 DEF SessionRest

(* Steps that leave a session's claims and budget alone. *)
LEMMA RestStays ==
  ASSUME SessionRest,
         session' = [field \in SessionFields |-> session'[field]],
         session'.stage \in {"idle", "searching", "reviewing"},
         session'.claims = session.claims,
         session'.max_requests_per_run = session.max_requests_per_run,
         session'.use_translation = session.use_translation,
         session'.retries \in 0 .. MaxRetries,
         Len(session'.records) <= Len(session.claims)
  PROVE  SessionRest'
BY DEF SessionRest

LEMMA RestStep ==
  ASSUME PilotTypeOK, SearchInv, SessionRest, [Next]_vars
  PROVE  SessionRest'
<1>1. /\ session = [field \in SessionFields |-> session[field]]
      /\ session.records \in Seq(RecordOf(session.claims))
      /\ Len(session.records) \in Nat /\ Len(session.claims) \in Nat
      /\ session.retries \in Nat /\ MaxRetries \in Nat
  BY BudgetAssumption DEF SearchInv, SearchTypes, SessionRest, BudgetAssumption
<1>2. CASE UNCHANGED searchVars
  BY <1>2 DEF searchVars, SessionRest
<1>3. ASSUME NEW budget \in RunBudgets, NEW translate \in BOOLEAN,
             NEW counts_failures \in BOOLEAN, OpenSession(budget, translate, counts_failures)
      PROVE  SessionRest'
  <2>1. LatestRun.body \in Seq(PilotRecord)
    <3>1. RunStamps # {} /\ IsWhole(LatestRun)
      BY <1>3 DEF OpenSession
    <3>2. <<"run", Max(RunStamps)>> \in PilotNames
      BY <3>1, LatestIsRun DEF RunStamps, PilotNames, Kinds
    <3>3. LatestRun \in PilotFile("run")
      BY <3>2 DEF LatestRun, PilotTypeOK
    <3> QED
      BY <3>1, <3>3, PilotFileStates
  <2>2. LoadClaims(LatestRun.body) \in Seq(PilotRecord)
    BY <2>1, LoadedClaims
  <2>3. /\ session'.stage = "searching" /\ session'.claims = LoadClaims(LatestRun.body)
        /\ session'.max_requests_per_run = budget /\ session'.use_translation = translate
        /\ session'.retries = 0 /\ session'.records = <<>>
        /\ session' = [field \in SessionFields |-> session'[field]]
    BY <1>3 DEF OpenSession, IdleSession, SessionFields
  <2>4. Len(session'.claims) \in Nat /\ Len(session'.records) = 0
    BY <2>2, <2>3
  <2> QED
    BY <1>1, <2>2, <2>3, <2>4 DEF SessionRest
<1>4. ASSUME NEW record, ClaimsLeft,
             \/ session' = [session EXCEPT !.records = Append(@, record),
                                           !.budget_exhausted = TRUE]
             \/ session' = [session EXCEPT !.records = Append(@, record),
                                           !.requests_used_total = @ + 1]
      PROVE  SessionRest'
  <2>1. /\ session'.claims = session.claims /\ session'.stage = session.stage
        /\ session'.max_requests_per_run = session.max_requests_per_run
        /\ session'.use_translation = session.use_translation
        /\ session'.retries = session.retries
        /\ session'.records = Append(session.records, record)
        /\ session' = [field \in SessionFields |-> session'[field]]
    BY <1>1, <1>4 DEF SessionFields
  <2>2. Len(session'.records) = Len(session.records) + 1
    BY <1>1, <2>1
  <2>3. Len(session'.records) <= Len(session.claims)
    BY <1>1, <1>4, <2>2 DEF ClaimsLeft
  <2> QED
    BY <2>1, <2>3, RestStays DEF SessionRest
<1>5. CASE LeavePending
  <2>1. /\ ClaimsLeft
        /\ session' = [session EXCEPT !.records = Append(@, NewRecord("pending", 0, 0)),
                                      !.budget_exhausted = TRUE]
    BY <1>5 DEF LeavePending
  <2> QED
    BY <1>4, <2>1
<1>6. ASSUME NEW answers \in BOOLEAN, Search(answers) PROVE SessionRest'
  <2>1. /\ ClaimsLeft
        /\ session' = [session EXCEPT
             !.records = Append(@, IF answers THEN NewRecord("none", 1, 1)
                                              ELSE NewRecord("unverifiable", 1, 0)),
             !.requests_used_total = @ + 1]
    BY <1>6 DEF Search
  <2> QED
    BY <1>4, <2>1
<1>7. CASE EndSession
  BY <1>7, IdleRest DEF EndSession
<1>8. CASE FinishSearches
  <2>1. session' = [session EXCEPT !.stage = "reviewing"]
    BY <1>8 DEF FinishSearches
  <2>2. /\ session'.claims = session.claims /\ session'.stage = "reviewing"
        /\ session'.max_requests_per_run = session.max_requests_per_run
        /\ session'.use_translation = session.use_translation
        /\ session'.retries = session.retries /\ session'.records = session.records
        /\ session' = [field \in SessionFields |-> session'[field]]
    BY <1>1, <2>1 DEF SessionFields
  <2> QED
    BY <2>2, RestStays DEF SessionRest
<1>9. ASSUME NEW i \in DOMAIN session.records,
             RetryAnswers(i) \/ RetryRaises(i) \/ RetryRefused(i)
      PROVE  SessionRest'
  <2>1. /\ session'.claims = session.claims /\ session'.stage = session.stage
        /\ session'.max_requests_per_run = session.max_requests_per_run
        /\ session'.use_translation = session.use_translation
        /\ session'.retries = session.retries + 1
        /\ session' = [field \in SessionFields |-> session'[field]]
    BY <1>1, <1>9 DEF RetryAnswers, RetryRaises, RetryRefused, SessionFields
  <2>2. session.retries < MaxRetries
    BY <1>9 DEF RetryAnswers, RetryRaises, RetryRefused, Reviewing
  <2>3. session'.retries \in 0 .. MaxRetries
    BY <1>1, <2>1, <2>2
  <2>4. Len(session'.records) = Len(session.records)
    <3>1. CASE session'.records = session.records
      BY <3>1
    <3>2. CASE RetryAnswers(i)
      <4>1. DOMAIN session'.records = DOMAIN session.records
        BY <1>1, <3>2 DEF RetryAnswers, SessionFields
      <4>2. session'.records \in Seq(RecordOf(session'.claims))
        BY SessionsStep DEF SearchInv, SearchTypes
      <4> QED
        BY <1>1, <4>1, <4>2
    <3> QED
      BY <1>1, <1>9, <3>1, <3>2 DEF RetryRaises, RetryRefused, SessionFields
  <2> QED
    BY <2>1, <2>3, <2>4, RestStays DEF SessionRest
<1>10. \/ UNCHANGED searchVars
       \/ \E budget \in RunBudgets, translate, counts_failures \in BOOLEAN :
            OpenSession(budget, translate, counts_failures)
       \/ LeavePending \/ FinishSearches \/ EndSession
       \/ \E answers \in BOOLEAN : Search(answers)
       \/ \E i \in DOMAIN session.records : RetryAnswers(i) \/ RetryRaises(i) \/ RetryRefused(i)
  BY DEF Next, vars, StartTool, OpenRaises, ToolStep, SearchStep, SearchRaises, SessionStep,
         Retry, ToolDies, CloseSession, SessionDies
<1> QED
  BY <1>2, <1>3, <1>5, <1>6, <1>7, <1>8, <1>9, <1>10

-----------------------------------------------------------------------------
(* The Strategy Layer's verdicts and the digests built from them.          *)

(* Of an included unit the treatment is a framed include, of another an    *)
(* exclude without a framing.                                              *)
LEMMA TreatmentIs ==
  ASSUME NEW unit \in Unit
  PROVE  LET treatment == BuildClaimTreatment(unit,
               IF ClassifyUnit(unit) = "include" THEN Restatement ELSE NoFraming, 1)
         IN /\ treatment \in Treatment
            /\ treatment.repo = unit.repo
            /\ treatment.pre = ClassifyUnit(unit) /\ treatment.final = ClassifyUnit(unit)
            /\ treatment.framing <=> ClassifyUnit(unit) = "include"
<1> DEFINE decision == IF ClassifyUnit(unit) = "include" THEN Restatement ELSE NoFraming
           treatment == BuildClaimTreatment(unit, decision, 1)
<1>1. ClassifyUnit(unit) \in {"include", "exclude"} /\ unit.repo \in Repos
  BY DEF ClassifyUnit, Unit
<1>2. decision.final = "default"
  BY DEF Restatement, NoFraming
<1>3. RequestedFinal(ClassifyUnit(unit), decision) = ClassifyUnit(unit)
  BY <1>2 DEF RequestedFinal
<1>4. ~Refused(ClassifyUnit(unit), decision, unit.corroboration, 1)
  <2>1. CASE ClassifyUnit(unit) = "include"
    <3>1. decision.kind = "restatement"
      BY <2>1 DEF Restatement
    <3> QED
      BY <3>1 DEF Refused, Warranted
  <2>2. CASE ClassifyUnit(unit) # "include"
    BY <1>3, <2>2 DEF Refused
  <2> QED
    BY <2>1, <2>2
<1> HIDE DEF decision
<1>5. /\ treatment.repo = unit.repo
      /\ treatment.pre = ClassifyUnit(unit) /\ treatment.final = ClassifyUnit(unit)
      /\ treatment.framing = (ClassifyUnit(unit) = "include")
      /\ treatment.reason \in {"pre_filter", "none"}
      /\ treatment = [repo |-> treatment.repo, pre |-> treatment.pre, final |-> treatment.final,
                      framing |-> treatment.framing, reason |-> treatment.reason]
  BY <1>1, <1>3, <1>4 DEF BuildClaimTreatment
<1> HIDE DEF treatment
<1>6. treatment \in Treatment
  BY <1>1, <1>5 DEF Treatment
<1> QED
  BY <1>5, <1>6 DEF treatment, decision

LEMMA TreatmentsAre ==
  ASSUME NEW units \in Seq(Unit)
  PROVE  LET treatments == PilotTreatments(units)
         IN /\ treatments \in Seq(Treatment)
            /\ Len(treatments) = Len(units)
            /\ DOMAIN treatments = DOMAIN units
            /\ \A i \in DOMAIN units :
                 /\ treatments[i].repo = units[i].repo
                 /\ treatments[i].pre = ClassifyUnit(units[i])
                 /\ treatments[i].final = ClassifyUnit(units[i])
                 /\ treatments[i].framing <=> ClassifyUnit(units[i]) = "include"
<1> DEFINE treated(unit) == BuildClaimTreatment(unit,
             IF ClassifyUnit(unit) = "include" THEN Restatement ELSE NoFraming, 1)
           treatments == PilotTreatments(units)
<1>1. treatments = [i \in DOMAIN units |-> treated(units[i])]
  BY DEF PilotTreatments
<1>2. \A unit \in Unit :
        /\ treated(unit) \in Treatment /\ treated(unit).repo = unit.repo
        /\ treated(unit).pre = ClassifyUnit(unit) /\ treated(unit).final = ClassifyUnit(unit)
        /\ treated(unit).framing <=> ClassifyUnit(unit) = "include"
  BY TreatmentIs
<1>3. \A i \in DOMAIN units : units[i] \in Unit
  OBVIOUS
<1>4. DOMAIN units = 1 .. Len(units) /\ Len(units) \in Nat
  OBVIOUS
<1> HIDE DEF treated, treatments
<1>5. treatments \in Seq(Treatment) /\ Len(treatments) = Len(units)
      /\ DOMAIN treatments = DOMAIN units
  BY <1>1, <1>2, <1>3, <1>4
<1>6. \A i \in DOMAIN units :
        /\ treatments[i].repo = units[i].repo
        /\ treatments[i].pre = ClassifyUnit(units[i])
        /\ treatments[i].final = ClassifyUnit(units[i])
        /\ treatments[i].framing <=> ClassifyUnit(units[i]) = "include"
  BY <1>1, <1>2, <1>3
<1> QED
  BY <1>5, <1>6 DEF treatments

VerdictOn(units) == BuildVerdict(units, PilotTreatments(units))

LEMMA VerdictSays ==
  ASSUME NEW units \in Seq(Unit)
  PROVE  LET verdict == VerdictOn(units)
         IN /\ verdict \in VerdictBody
            /\ verdict.overrides = {}
            /\ \A i \in DOMAIN units :
                 ClassifyUnit(units[i]) = "include" => units[i].repo \in IncludedIn(verdict)
            /\ verdict.status = "gated" <=>
                 verdict.claim_treatments # <<>> /\ IncludedIn(verdict) = {}
<1> DEFINE treatments == PilotTreatments(units)
           verdict == VerdictOn(units)
<1>1. /\ treatments \in Seq(Treatment) /\ Len(treatments) = Len(units)
      /\ DOMAIN treatments = DOMAIN units
      /\ \A i \in DOMAIN units :
           /\ treatments[i].repo = units[i].repo
           /\ treatments[i].pre = ClassifyUnit(units[i])
           /\ treatments[i].final = ClassifyUnit(units[i])
           /\ treatments[i].framing <=> ClassifyUnit(units[i]) = "include"
  BY TreatmentsAre
<1>2. /\ verdict.status = (IF Gated(units) THEN "gated" ELSE "normal")
      /\ verdict.claim_treatments = treatments
      /\ verdict.overrides = DeriveOverrides(treatments)
      /\ verdict = [status |-> verdict.status, claim_treatments |-> verdict.claim_treatments,
                    overrides |-> verdict.overrides]
  BY DEF VerdictOn, BuildVerdict
<1> HIDE DEF treatments, verdict
<1>3. verdict.overrides = {}
  BY <1>1, <1>2 DEF DeriveOverrides
<1>4. verdict \in VerdictBody
  BY <1>1, <1>2, <1>3 DEF VerdictBody
<1>5. IncludedIn(verdict) =
        {units[i].repo : i \in {j \in DOMAIN units : ClassifyUnit(units[j]) = "include"}}
  BY <1>1, <1>2 DEF IncludedIn
<1>6. \A i \in DOMAIN units : ClassifyUnit(units[i]) \in {"include", "exclude"}
  BY DEF ClassifyUnit
<1>7. units # <<>> <=> treatments # <<>>
  <2>1. \A s : (s = <<>>) => Len(s) = 0
    OBVIOUS
  <2>2. Len(units) = 0 => units = <<>>
    OBVIOUS
  <2>3. Len(treatments) = 0 => treatments = <<>>
    BY <1>1
  <2> QED
    BY <1>1, <2>1, <2>2, <2>3
<1>8. Gated(units) <=> treatments # <<>> /\ IncludedIn(verdict) = {}
  BY <1>5, <1>6, <1>7 DEF Gated
<1> QED
  BY <1>2, <1>3, <1>4, <1>5, <1>8 DEF verdict

LEMMA ManifestUnits ==
  ASSUME NEW manifest \in Manifests, NEW token \in BOOLEAN, NEW answers \in ManifestAnswers
  PROVE  LET units == ByClaim(AdaptManifest(manifest, token, answers))
         IN /\ units \in Seq(Unit)
            /\ \A i \in DOMAIN units : ClassifyUnit(units[i]) = "include" =>
                 units[i].repo \in Confirmed(manifest, token, answers)
<1> DEFINE adapted == AdaptManifest(manifest, token, answers)
           units == ByClaim(adapted)
<1>1. manifest \in Seq(Entry)
  BY PilotAssumption DEF PilotAssumption
<1>2. /\ DOMAIN adapted = 1 .. Len(manifest) /\ Len(manifest) \in Nat
      /\ DOMAIN adapted = DOMAIN manifest
  BY <1>1 DEF AdaptManifest
<1>3. \A i \in DOMAIN adapted :
        adapted[i] = [repo |-> manifest[i].repo,
                      integrity |-> CheckIntegrity(manifest[i], token, answers[manifest[i].repo]),
                      corroboration |-> "not_applicable",
                      commits |-> manifest[i].commits, messages |-> {}]
  BY DEF AdaptManifest
<1>4. \A i \in DOMAIN adapted : manifest[i].repo \in Repos /\ manifest[i].commits \in Nat
  <2>1. \A i \in DOMAIN adapted : manifest[i] \in Entry
    BY <1>1, <1>2
  <2> QED
    BY <2>1 DEF Entry
<1>5. ASSUME NEW i \in DOMAIN adapted
      PROVE  adapted[i].integrity = "valid" =>
               adapted[i].repo \in Confirmed(manifest, token, answers)
  <2> DEFINE integrity == CheckIntegrity(manifest[i], token, answers[manifest[i].repo])
  <2>1. integrity = "valid" =>
          /\ manifest[i].head /\ manifest[i].branch /\ token
          /\ answers[manifest[i].repo].http = 200
          /\ answers[manifest[i].repo].status \in {"identical", "ahead"}
    BY DEF CheckIntegrity
  <2>2. adapted[i].repo = manifest[i].repo /\ adapted[i].integrity = integrity
    BY <1>3
  <2> HIDE DEF integrity
  <2>3. integrity = "valid" => manifest[i].repo \in Confirmed(manifest, token, answers)
    BY <1>2, <1>4, <2>1 DEF Confirmed
  <2> QED
    BY <2>2, <2>3
<1> HIDE DEF adapted
<1>6. /\ DOMAIN units = DOMAIN adapted
      /\ units = [i \in DOMAIN units |-> units[i]]
  BY DEF ByClaim
<1>7. \A i \in DOMAIN units :
        units[i] = [adapted[i] EXCEPT !.integrity =
                      IF JudgedValid(adapted, adapted[i].repo) THEN "valid" ELSE "invalid"]
  BY DEF ByClaim
<1> HIDE DEF units
<1>8. ASSUME NEW i \in DOMAIN units
      PROVE  /\ units[i] \in Unit
             /\ ClassifyUnit(units[i]) = "include" =>
                  units[i].repo \in Confirmed(manifest, token, answers)
  <2> DEFINE judged == IF JudgedValid(adapted, adapted[i].repo) THEN "valid" ELSE "invalid"
  <2>1. units[i] = [repo |-> manifest[i].repo, integrity |-> judged,
                    corroboration |-> "not_applicable",
                    commits |-> manifest[i].commits, messages |-> {}]
    BY <1>3, <1>6, <1>7
  <2>2. adapted[i].repo = manifest[i].repo
    BY <1>3, <1>6
  <2>3. judged \in {"valid", "invalid"}
    OBVIOUS
  <2>4. judged = "valid" => manifest[i].repo \in Confirmed(manifest, token, answers)
    <3>1. judged = "valid" => JudgedValid(adapted, manifest[i].repo)
      BY <2>2
    <3>2. JudgedValid(adapted, manifest[i].repo) =>
            \E j \in DOMAIN adapted :
              adapted[j].repo = manifest[i].repo /\ adapted[j].integrity = "valid"
      BY DEF JudgedValid
    <3> QED
      BY <1>5, <3>1, <3>2
  <2> HIDE DEF judged
  <2>5. units[i] \in Unit
    BY <1>4, <1>6, <2>1, <2>3 DEF Unit, CorroborationStatuses
  <2>6. ClassifyUnit(units[i]) = "include" => judged = "valid"
    BY <2>1 DEF ClassifyUnit
  <2>7. units[i].repo = manifest[i].repo
    BY <2>1
  <2> QED
    BY <2>4, <2>5, <2>6, <2>7
<1>9. units \in Seq(Unit)
  BY <1>2, <1>6, <1>8
<1> QED
  BY <1>8, <1>9 DEF units, adapted

LEMMA SectionsAre ==
  ASSUME NEW units \in Seq(Unit)
  PROVE  LET sections == DigestSections(units, PilotTreatments(units))
         IN /\ sections \in Seq(Repos)
            /\ \A n \in DOMAIN sections : \E i \in DOMAIN units :
                 sections[n] = units[i].repo /\ ClassifyUnit(units[i]) = "include"
<1> DEFINE treatments == PilotTreatments(units)
           repos == [i \in DOMAIN units |-> units[i].repo]
           positions == {i \in Contexts(units, treatments) :
                           treatments[i].framing /\ units[i].repo \in RussianRepos}
<1>1. \A i \in DOMAIN units : treatments[i].final = ClassifyUnit(units[i])
  BY TreatmentsAre
<1>2. repos \in Seq(Repos) /\ DOMAIN repos = DOMAIN units
  <2>1. \A i \in DOMAIN units : units[i].repo \in Repos
    <3>1. \A i \in DOMAIN units : units[i] \in Unit
      OBVIOUS
    <3> QED
      BY <3>1 DEF Unit
  <2>2. DOMAIN units = 1 .. Len(units) /\ Len(units) \in Nat
    OBVIOUS
  <2> QED
    BY <2>1, <2>2
<1> HIDE DEF treatments
<1>3. \A i \in positions : i \in DOMAIN units /\ ClassifyUnit(units[i]) = "include"
  BY <1>1 DEF Contexts
<1>4. \A i \in DOMAIN units : repos[i] = units[i].repo
  OBVIOUS
<1>5. DigestSections(units, treatments) = Kept(repos, positions)
  BY DEF DigestSections
<1> HIDE DEF repos, positions
<1>6. /\ Kept(repos, positions) \in Seq(Repos)
      /\ \A n \in DOMAIN Kept(repos, positions) :
           \E i \in positions : Kept(repos, positions)[n] = repos[i]
  <2>1. positions \in SUBSET DOMAIN repos
    BY <1>2, <1>3
  <2> QED
    BY <1>2, <2>1, KeptSelects
<1> QED
  BY <1>3, <1>4, <1>5, <1>6 DEF treatments

(***************************************************************************)
(* A run's units and treatments until it ends, what is in its file, and    *)
(* what a verdict and a digest were built from.                            *)
(***************************************************************************)
VerdictFile(file) ==
  file \in {Absent, Torn} \/ \E units \in Seq(Unit) : file = Whole(VerdictOn(units))

SoundDigest(digest, file) ==
  /\ digest \in [run_id : Stamps, sections : Seq(Repos), confirmed : SUBSET Repos]
  /\ digest.sections # <<>>
  /\ IsWhole(file)
  /\ \A i \in DOMAIN digest.sections :
       /\ digest.sections[i] \in digest.confirmed
       /\ digest.sections[i] \in IncludedIn(file.body)

PilotRunInv ==
  /\ pilot \in Pilot
  /\ pilot.stage # "idle" =>
       /\ pilot.treatments = PilotTreatments(pilot.units)
       /\ \A i \in DOMAIN pilot.units : ClassifyUnit(pilot.units[i]) = "include" =>
            pilot.units[i].repo \in pilot.confirmed
  /\ pilot.stage = "write" => verdicts[pilot.run_id] = Torn
  /\ pilot.stage = "digest" => verdicts[pilot.run_id] = Whole(VerdictOn(pilot.units))

StrategyInv ==
  /\ PilotRunInv
  /\ verdicts = [stamp \in Stamps |-> verdicts[stamp]]
  /\ \A stamp \in Stamps : VerdictFile(verdicts[stamp])
  /\ \A digest \in digests : SoundDigest(digest, verdicts[digest.run_id])

Piloted == [stage : {"create", "write", "digest"}, script : Scripts, run_id : Stamps,
            units : Seq(Unit), treatments : Seq(Treatment), confirmed : SUBSET Repos]

LEMMA PilotIs ==
  /\ Pilot = {NoPilot} \cup Piloted
  /\ NoPilot.stage = "idle"
  /\ \A run \in Piloted : /\ run.stage # "idle" /\ run.run_id \in Stamps
                          /\ run.units \in Seq(Unit) /\ run.confirmed \in SUBSET Repos
BY DEF Pilot, Piloted, NoPilot

(* A step that leaves the whole verdicts whole keeps the digests sound. *)
LEMMA DigestsStay ==
  ASSUME StrategyInv, digests' = digests,
         \A stamp \in Stamps : IsWhole(verdicts[stamp]) => verdicts'[stamp] = verdicts[stamp]
  PROVE  \A digest \in digests' : SoundDigest(digest, verdicts'[digest.run_id])
BY DEF StrategyInv, SoundDigest

LEMMA StrategyStepKeeps ==
  ASSUME StampInv, StrategyInv, [Next]_vars
  PROVE  StrategyInv'
<1>0. /\ ~IsWhole(Absent) /\ ~IsWhole(Torn) /\ \A body : IsWhole(Whole(body)) /\ Whole(body).body = body
      /\ VerdictFile(Absent) /\ VerdictFile(Torn)
  BY DEF IsWhole, Absent, Torn, Whole, VerdictFile
<1>1. CASE UNCHANGED strategyVars
  BY <1>1 DEF strategyVars, StrategyInv, PilotRunInv
<1>2. ASSUME NEW script \in Scripts, NEW manifest \in Manifests, NEW token \in BOOLEAN,
             NEW answers \in ManifestAnswers, NEW stamp \in Stamps,
             StartPilot(script, manifest, token, answers, stamp)
      PROVE  StrategyInv'
  <2> DEFINE units == ByClaim(AdaptManifest(manifest, token, answers))
             confirmed == Confirmed(manifest, token, answers)
  <2>1. /\ pilot' = [stage |-> "create", script |-> script, run_id |-> stamp, units |-> units,
                     treatments |-> PilotTreatments(units), confirmed |-> confirmed]
        /\ UNCHANGED <<verdicts, digests>>
    BY <1>2 DEF StartPilot
  <2>2. /\ units \in Seq(Unit)
        /\ \A i \in DOMAIN units : ClassifyUnit(units[i]) = "include" => units[i].repo \in confirmed
    BY ManifestUnits
  <2>3. confirmed \in SUBSET Repos
    BY DEF Confirmed
  <2> HIDE DEF units, confirmed
  <2>4. PilotTreatments(units) \in Seq(Treatment)
    BY <2>2, TreatmentsAre
  <2>5. pilot' \in Piloted
    BY <2>1, <2>2, <2>3, <2>4 DEF Piloted
  <2>6. PilotRunInv'
    BY <2>1, <2>2, <2>5, PilotIs DEF PilotRunInv
  <2> QED
    BY <2>1, <2>6 DEF StrategyInv
<1>3. CASE CreateVerdictFile
  <2>1. /\ pilot.stage = "create" /\ pilot.run_id \in Stamps /\ pilot \in Piloted
        /\ verdicts[pilot.run_id] = Absent /\ DOMAIN verdicts = Stamps
    BY <1>3, PilotIs DEF CreateVerdictFile, StrategyInv, PilotRunInv, StampInv
  <2>2. /\ verdicts' = [verdicts EXCEPT ![pilot.run_id] = Torn]
        /\ pilot' = [pilot EXCEPT !.stage = "write"] /\ digests' = digests
    BY <1>3 DEF CreateVerdictFile
  <2>3. /\ pilot' \in Piloted /\ pilot'.stage = "write" /\ pilot'.run_id = pilot.run_id
        /\ pilot'.units = pilot.units /\ pilot'.treatments = pilot.treatments
        /\ pilot'.confirmed = pilot.confirmed
    BY <2>1, <2>2 DEF Piloted
  <2>4. /\ verdicts'[pilot.run_id] = Torn
        /\ \A stamp \in Stamps : stamp # pilot.run_id => verdicts'[stamp] = verdicts[stamp]
    BY <2>1, <2>2
  <2>5. PilotRunInv'
    BY <2>1, <2>3, <2>4, PilotIs DEF StrategyInv, PilotRunInv
  <2>6. \A stamp \in Stamps : IsWhole(verdicts[stamp]) => verdicts'[stamp] = verdicts[stamp]
    BY <1>0, <2>1, <2>4
  <2>7. \A stamp \in Stamps : VerdictFile(verdicts'[stamp])
    BY <1>0, <2>4 DEF StrategyInv
  <2>8. verdicts' = [stamp \in Stamps |-> verdicts'[stamp]]
    BY <2>1, <2>2
  <2> QED
    BY <2>2, <2>5, <2>6, <2>7, <2>8, DigestsStay DEF StrategyInv
<1>4. CASE WriteVerdictFile
  <2>1. /\ pilot.stage = "write" /\ pilot.run_id \in Stamps /\ pilot \in Piloted
        /\ verdicts[pilot.run_id] = Torn /\ DOMAIN verdicts = Stamps
        /\ pilot.units \in Seq(Unit)
        /\ pilot.treatments = PilotTreatments(pilot.units)
    BY <1>4, PilotIs DEF WriteVerdictFile, StrategyInv, PilotRunInv, StampInv
  <2>2. /\ verdicts' = [verdicts EXCEPT ![pilot.run_id] = Whole(VerdictOn(pilot.units))]
        /\ pilot' = [pilot EXCEPT !.stage = "digest"] \/ pilot' = NoPilot
        /\ digests' = digests
    BY <1>4, <2>1 DEF WriteVerdictFile, VerdictOn
  <2>3. \/ pilot' = NoPilot
        \/ /\ pilot' \in Piloted /\ pilot'.stage = "digest" /\ pilot'.run_id = pilot.run_id
           /\ pilot'.units = pilot.units /\ pilot'.treatments = pilot.treatments
           /\ pilot'.confirmed = pilot.confirmed
    BY <2>1, <2>2 DEF Piloted
  <2>4. /\ verdicts'[pilot.run_id] = Whole(VerdictOn(pilot.units))
        /\ \A stamp \in Stamps : stamp # pilot.run_id => verdicts'[stamp] = verdicts[stamp]
    BY <2>1, <2>2
  <2>5. PilotRunInv'
    BY <2>1, <2>3, <2>4, PilotIs DEF StrategyInv, PilotRunInv
  <2>6. \A stamp \in Stamps : IsWhole(verdicts[stamp]) => verdicts'[stamp] = verdicts[stamp]
    BY <1>0, <2>1, <2>4
  <2>7. VerdictFile(Whole(VerdictOn(pilot.units)))
    BY <2>1 DEF VerdictFile
  <2>8. \A stamp \in Stamps : VerdictFile(verdicts'[stamp])
    BY <2>4, <2>7 DEF StrategyInv
  <2>9. verdicts' = [stamp \in Stamps |-> verdicts'[stamp]]
    BY <2>1, <2>2
  <2> QED
    BY <2>2, <2>5, <2>6, <2>8, <2>9, DigestsStay DEF StrategyInv
<1>5. CASE PrintDigest
  <2> DEFINE sections == DigestSections(pilot.units, pilot.treatments)
             digest == [run_id |-> pilot.run_id, sections |-> sections,
                        confirmed |-> pilot.confirmed]
  <2>1. /\ pilot.stage = "digest" /\ pilot \in Piloted
        /\ pilot.run_id \in Stamps /\ pilot.units \in Seq(Unit)
        /\ pilot.confirmed \in SUBSET Repos
        /\ pilot.treatments = PilotTreatments(pilot.units)
        /\ verdicts[pilot.run_id] = Whole(VerdictOn(pilot.units))
        /\ \A i \in DOMAIN pilot.units : ClassifyUnit(pilot.units[i]) = "include" =>
             pilot.units[i].repo \in pilot.confirmed
    BY <1>5, PilotIs DEF PrintDigest, StrategyInv, PilotRunInv
  <2>2. /\ sections # <<>> /\ digests' = digests \cup {digest}
        /\ pilot' = NoPilot /\ verdicts' = verdicts
    BY <1>5 DEF PrintDigest
  <2>3. /\ sections \in Seq(Repos)
        /\ \A n \in DOMAIN sections : \E i \in DOMAIN pilot.units :
             sections[n] = pilot.units[i].repo /\ ClassifyUnit(pilot.units[i]) = "include"
    BY <2>1, SectionsAre
  <2>4. \A i \in DOMAIN pilot.units : ClassifyUnit(pilot.units[i]) = "include" =>
          pilot.units[i].repo \in IncludedIn(VerdictOn(pilot.units))
    BY <2>1, VerdictSays
  <2>5. /\ digest.run_id = pilot.run_id /\ digest.sections = sections
        /\ digest.confirmed = pilot.confirmed
    OBVIOUS
  <2> HIDE DEF sections
  <2>6. digest \in [run_id : Stamps, sections : Seq(Repos), confirmed : SUBSET Repos]
    BY <2>1, <2>3
  <2> HIDE DEF digest
  <2>7. SoundDigest(digest, verdicts[digest.run_id])
    <3>1. \A n \in DOMAIN sections :
            sections[n] \in pilot.confirmed /\ sections[n] \in IncludedIn(VerdictOn(pilot.units))
      BY <2>1, <2>3, <2>4
    <3> QED
      BY <1>0, <2>1, <2>2, <2>5, <2>6, <3>1 DEF SoundDigest
  <2>8. PilotRunInv'
    BY <2>2, PilotIs DEF PilotRunInv
  <2> QED
    BY <2>2, <2>7, <2>8 DEF StrategyInv
<1>6. CASE DigestRefused \/ PilotDies
  <2>1. pilot' = NoPilot /\ UNCHANGED <<verdicts, digests>>
    BY <1>6 DEF DigestRefused, PilotDies
  <2>2. PilotRunInv'
    BY <2>1, PilotIs DEF PilotRunInv
  <2> QED
    BY <2>1, <2>2 DEF StrategyInv
<1>7. \/ UNCHANGED strategyVars
      \/ \E script \in Scripts, manifest \in Manifests, token \in BOOLEAN,
            answers \in ManifestAnswers, stamp \in Stamps :
           StartPilot(script, manifest, token, answers, stamp)
      \/ CreateVerdictFile \/ WriteVerdictFile \/ PrintDigest \/ DigestRefused \/ PilotDies
  BY DEF Next, vars, StartTool, PilotRefused, ToolStep, StrategyStep, SessionStep, ToolDies
<1> QED
  BY <1>1, <1>2, <1>3, <1>4, <1>5, <1>6, <1>7

LEMMA StrategyInitInv == Init => StrategyInv
<1> SUFFICES ASSUME Init PROVE StrategyInv
  OBVIOUS
<1>1. /\ pilot = NoPilot /\ digests = {} /\ \A stamp \in Stamps : verdicts[stamp] = Absent
      /\ verdicts = [stamp \in Stamps |-> verdicts[stamp]]
  BY DEF Init, StrategyInit
<1>2. PilotRunInv
  BY <1>1, PilotIs DEF PilotRunInv
<1> QED
  BY <1>1, <1>2 DEF StrategyInv, VerdictFile

LEMMA StrategyInvTyped == StampInv /\ StrategyInv => StrategyTypeOK /\ DigestOfVerdict
<1> SUFFICES ASSUME StampInv, StrategyInv PROVE StrategyTypeOK /\ DigestOfVerdict
  OBVIOUS
<1>1. /\ ~IsWhole(Absent) /\ ~IsWhole(Torn)
      /\ \A body \in VerdictBody :
           Whole(body).body = body /\ Whole(body) \in [state : {"whole"}, body : VerdictBody]
  BY DEF IsWhole, Absent, Torn, Whole
<1>2. ASSUME NEW stamp \in Stamps
      PROVE  /\ verdicts[stamp] \in {Absent, Torn} \cup [state : {"whole"}, body : VerdictBody]
             /\ IsWhole(verdicts[stamp]) =>
                  LET verdict == verdicts[stamp].body IN
                  /\ verdict.status = "gated" <=>
                       verdict.claim_treatments # <<>> /\ IncludedIn(verdict) = {}
                  /\ verdict.overrides = {}
  <2>1. VerdictFile(verdicts[stamp])
    BY DEF StrategyInv
  <2>2. CASE verdicts[stamp] \in {Absent, Torn}
    BY <1>1, <2>2
  <2>3. ASSUME NEW units \in Seq(Unit), verdicts[stamp] = Whole(VerdictOn(units))
        PROVE  <1>2!2
    <3>1. /\ VerdictOn(units) \in VerdictBody /\ VerdictOn(units).overrides = {}
          /\ VerdictOn(units).status = "gated" <=>
               VerdictOn(units).claim_treatments # <<>> /\ IncludedIn(VerdictOn(units)) = {}
      BY VerdictSays
    <3> QED
      BY <1>1, <2>3, <3>1
  <2> QED
    BY <2>1, <2>2, <2>3 DEF VerdictFile
<1>3. verdicts \in [Stamps -> {Absent, Torn} \cup [state : {"whole"}, body : VerdictBody]]
  BY <1>2 DEF StrategyInv
<1>4. pilot \in Pilot /\ \A digest \in digests : SoundDigest(digest, verdicts[digest.run_id])
  BY DEF StrategyInv, PilotRunInv
<1>5. StrategyTypeOK
  BY <1>3, <1>4 DEF StrategyTypeOK, SoundDigest
<1>6. DigestOfVerdict
  BY <1>2, <1>4 DEF DigestOfVerdict, SoundDigest
<1> QED
  BY <1>5, <1>6

-----------------------------------------------------------------------------
(* Owner Verdicts: what was recorded is what is whole.                     *)

RecordedInv ==
  /\ recorder \in Recorder
  /\ verdict_files = [name \in VerdictNames |-> verdict_files[name]]
  /\ \A name \in VerdictNames :
       verdict_files[name] \in {Absent, Torn} \cup [state : {"whole"}, body : VerdictRecord]
  /\ recorder.stage = "write" => verdict_files[RecorderName] = Torn
  /\ recorded = {<<name, verdict_files[name].body>> :
                   name \in {other \in VerdictNames : IsWhole(verdict_files[other])}}

LEMMA RecordedStep ==
  ASSUME OwnerInv, RecordedInv, [Next]_vars
  PROVE  RecordedInv'
<1>0. /\ ~IsWhole(Absent) /\ ~IsWhole(Torn)
      /\ \A body : IsWhole(Whole(body)) /\ Whole(body).body = body
      /\ \A body \in VerdictRecord : Whole(body) \in [state : {"whole"}, body : VerdictRecord]
      /\ NoVerdict.stage = "idle" /\ NoVerdict \in Recorder
  BY DEF IsWhole, Absent, Torn, Whole, NoVerdict, Recorder
<1>1. CASE UNCHANGED ownerVars
  BY <1>1 DEF ownerVars, RecordedInv, RecorderName
<1>2. ASSUME NEW record \in VerdictRecord, NEW id \in VerdictIds, StartVerdict(record, id)
      PROVE  RecordedInv'
  <2>1. /\ recorder' = [stage |-> "create", record |-> record, id |-> id]
        /\ UNCHANGED <<verdict_files, recorded>>
    BY <1>2 DEF StartVerdict
  <2>2. recorder' \in Recorder /\ recorder'.stage # "write"
    BY <2>1 DEF Recorder
  <2> QED
    BY <2>1, <2>2 DEF RecordedInv
<1>3. ASSUME recorder.stage \in {"create", "write"}
      PROVE  /\ recorder \in [stage : {"create", "write"}, record : VerdictRecord,
                              id : VerdictIds]
             /\ RecorderName \in VerdictNames
             /\ recorder.record \in VerdictRecord
  BY <1>3 DEF RecordedInv, Recorder, NoVerdict, OwnerInv
<1>4. CASE CreateVerdict
  <2>1. /\ recorder.stage = "create" /\ RecorderName \in VerdictNames
        /\ verdict_files[RecorderName] = Absent
        /\ recorder \in [stage : {"create", "write"}, record : VerdictRecord, id : VerdictIds]
    BY <1>3, <1>4 DEF CreateVerdict, OwnerInv
  <2>2. /\ verdict_files' = [verdict_files EXCEPT ![RecorderName] = Torn]
        /\ recorder' = [recorder EXCEPT !.stage = "write"] /\ recorded' = recorded
    BY <1>4 DEF CreateVerdict
  <2>3. /\ recorder' \in Recorder /\ recorder'.record = recorder.record
        /\ recorder'.id = recorder.id
    BY <2>1, <2>2 DEF Recorder
  <2>4. RecorderName' = RecorderName
    BY <2>3 DEF RecorderName
  <2>5. /\ verdict_files' = [name \in VerdictNames |-> verdict_files'[name]]
        /\ verdict_files'[RecorderName] = Torn
        /\ \A name \in VerdictNames : name # RecorderName => verdict_files'[name] = verdict_files[name]
    BY <2>1, <2>2 DEF RecordedInv
  <2>6. {other \in VerdictNames : IsWhole(verdict_files'[other])}
          = {other \in VerdictNames : IsWhole(verdict_files[other])}
    BY <1>0, <2>1, <2>5
  <2>7. recorded' = {<<name, verdict_files'[name].body>> :
                       name \in {other \in VerdictNames : IsWhole(verdict_files'[other])}}
    <3>1. \A name \in {other \in VerdictNames : IsWhole(verdict_files[other])} :
            verdict_files'[name] = verdict_files[name]
      BY <1>0, <2>1, <2>5
    <3> QED
      BY <2>2, <2>6, <3>1 DEF RecordedInv
  <2> QED
    BY <2>3, <2>4, <2>5, <2>7 DEF RecordedInv
<1>5. CASE WriteVerdict
  <2> DEFINE file == Whole(recorder.record)
  <2>1. /\ recorder.stage = "write" /\ RecorderName \in VerdictNames
        /\ recorder.record \in VerdictRecord /\ verdict_files[RecorderName] = Torn
    BY <1>3, <1>5 DEF WriteVerdict, RecordedInv
  <2>2. /\ verdict_files' = [verdict_files EXCEPT ![RecorderName] = file]
        /\ recorder' = NoVerdict
        /\ recorded' = recorded \cup {<<RecorderName, recorder.record>>}
    BY <1>5 DEF WriteVerdict
  <2>3. /\ IsWhole(file) /\ file.body = recorder.record
        /\ file \in [state : {"whole"}, body : VerdictRecord]
    BY <1>0, <2>1
  <2> HIDE DEF file
  <2>4. /\ verdict_files' = [name \in VerdictNames |-> verdict_files'[name]]
        /\ verdict_files'[RecorderName] = file
        /\ \A name \in VerdictNames : name # RecorderName => verdict_files'[name] = verdict_files[name]
    BY <2>1, <2>2 DEF RecordedInv
  <2> DEFINE were == {other \in VerdictNames : IsWhole(verdict_files[other])}
             are == {other \in VerdictNames : IsWhole(verdict_files'[other])}
  <2>5. are = were \cup {RecorderName} /\ RecorderName \notin were
        /\ \A name \in were : verdict_files'[name] = verdict_files[name]
    BY <1>0, <2>1, <2>3, <2>4
  <2>6. recorded = {<<name, verdict_files[name].body>> : name \in were}
    BY DEF RecordedInv
  <2> HIDE DEF were, are
  <2>7. {<<name, verdict_files'[name].body>> : name \in were \cup {RecorderName}}
          = {<<name, verdict_files[name].body>> : name \in were}
              \cup {<<RecorderName, recorder.record>>}
    BY <2>3, <2>4, <2>5
  <2>8. recorded' = {<<name, verdict_files'[name].body>> : name \in are}
    BY <2>2, <2>5, <2>6, <2>7
  <2>9. /\ recorder' \in Recorder /\ recorder'.stage # "write"
    BY <1>0, <2>2
  <2>10. \A name \in VerdictNames :
           verdict_files'[name] \in {Absent, Torn} \cup [state : {"whole"}, body : VerdictRecord]
    BY <2>3, <2>4 DEF RecordedInv
  <2> QED
    BY <2>4, <2>8, <2>9, <2>10 DEF RecordedInv, are
<1>6. CASE RecorderDies
  BY <1>0, <1>6 DEF RecorderDies, RecordedInv
<1>7. \/ UNCHANGED ownerVars
      \/ \E record \in VerdictRecord, id \in VerdictIds : StartVerdict(record, id)
      \/ CreateVerdict \/ WriteVerdict \/ RecorderDies
  BY DEF Next, vars, StartTool, ToolStep, OwnerStep, SessionStep, ToolDies
<1> QED
  BY <1>1, <1>2, <1>4, <1>5, <1>6, <1>7

LEMMA RecordedInit == Init => RecordedInv
<1> SUFFICES ASSUME Init PROVE RecordedInv
  OBVIOUS
<1>1. /\ recorder = NoVerdict /\ recorded = {}
      /\ \A name \in VerdictNames : verdict_files[name] = Absent
      /\ verdict_files = [name \in VerdictNames |-> verdict_files[name]]
  BY DEF Init, OwnerInit
<1>2. ~IsWhole(Absent) /\ NoVerdict.stage = "idle" /\ NoVerdict \in Recorder
  BY DEF IsWhole, Absent, NoVerdict, Recorder
<1> QED
  BY <1>1, <1>2 DEF RecordedInv

LEMMA RecordedTyped == RecordedInv => OwnerTypeOK
<1> SUFFICES ASSUME RecordedInv PROVE OwnerTypeOK
  OBVIOUS
<1>1. verdict_files \in [VerdictNames -> {Absent, Torn} \cup [state : {"whole"}, body : VerdictRecord]]
  BY DEF RecordedInv
<1>2. ASSUME NEW name \in VerdictNames, IsWhole(verdict_files[name])
      PROVE  verdict_files[name].body \in VerdictRecord
  <2>1. ~IsWhole(Absent) /\ ~IsWhole(Torn)
    BY DEF IsWhole, Absent, Torn
  <2>2. verdict_files[name] \in [state : {"whole"}, body : VerdictRecord]
    BY <1>2, <2>1 DEF RecordedInv
  <2> QED
    BY <2>2
<1>3. recorded \subseteq VerdictNames \X VerdictRecord
  BY <1>2 DEF RecordedInv
<1> QED
  BY <1>1, <1>3 DEF RecordedInv, OwnerTypeOK

(* A reader that is not refused finds whole files only, and among what was *)
(* recorded nothing else of the content.                                   *)
LEMMA ListedAreWhole ==
  ASSUME RecordedInv, NEW c \in Contents, ~ReadRaises(c)
  PROVE  /\ IsFiniteSet(Listed(c))
         /\ \A id \in Listed(c) :
              /\ IsWhole(verdict_files[<<c, id>>])
              /\ verdict_files[<<c, id>>].body.received_at \in Nat
         /\ {entry \in recorded : entry[1][1] = c}
              = {<<<<c, id>>, verdict_files[<<c, id>>].body>> : id \in Listed(c)}
<1>1. Listed(c) \in SUBSET VerdictIds
  BY DEF Listed
<1>2. IsFiniteSet(Listed(c))
  BY <1>1, VerdictAssumption, FS_Subset DEF VerdictAssumption
<1>3. ASSUME NEW id \in VerdictIds
      PROVE  /\ <<c, id>> \in VerdictNames
             /\ id \in Listed(c) <=> IsWhole(verdict_files[<<c, id>>])
             /\ IsWhole(verdict_files[<<c, id>>]) =>
                  verdict_files[<<c, id>>].body.received_at \in Nat
  <2>1. <<c, id>> \in VerdictNames
    BY DEF VerdictNames
  <2>2. verdict_files[<<c, id>>] \in
          {Absent, Torn} \cup [state : {"whole"}, body : VerdictRecord]
    BY <2>1 DEF RecordedInv
  <2>3. id \in Listed(c) => verdict_files[<<c, id>>] # Torn
    BY DEF ReadRaises
  <2>4. id \in Listed(c) <=> Exists(verdict_files[<<c, id>>])
    BY DEF Listed
  <2>5. ~Exists(Absent) /\ ~IsWhole(Absent) /\ ~IsWhole(Torn)
        /\ \A file \in [state : {"whole"}, body : VerdictRecord] :
             Exists(file) /\ IsWhole(file) /\ file.body.received_at \in Nat
    BY VerdictAssumption DEF Exists, IsWhole, Absent, Torn, VerdictRecord, VerdictAssumption
  <2> QED
    BY <2>1, <2>2, <2>3, <2>4, <2>5
<1>4. {entry \in recorded : entry[1][1] = c}
        = {<<<<c, id>>, verdict_files[<<c, id>>].body>> : id \in Listed(c)}
  <2> DEFINE whole == {other \in VerdictNames : IsWhole(verdict_files[other])}
  <2>1. recorded = {<<name, verdict_files[name].body>> : name \in whole}
    BY DEF RecordedInv
  <2>2. \A name \in whole : name[1] = c => \E id \in Listed(c) : name = <<c, id>>
    BY <1>3 DEF VerdictNames
  <2>3. \A id \in Listed(c) : <<c, id>> \in whole
    BY <1>1, <1>3
  <2> HIDE DEF whole
  <2>4. ASSUME NEW entry \in recorded, entry[1][1] = c
        PROVE  \E id \in Listed(c) : entry = <<<<c, id>>, verdict_files[<<c, id>>].body>>
    <3>1. PICK name \in whole : entry = <<name, verdict_files[name].body>>
      BY <2>1
    <3>2. entry[1] = name
      BY <3>1
    <3>3. name[1] = c
      BY <2>4, <3>2
    <3>4. PICK id \in Listed(c) : name = <<c, id>>
      BY <2>2, <3>3
    <3> QED
      BY <3>1, <3>4
  <2>5. ASSUME NEW id \in Listed(c)
        PROVE  \E entry \in recorded :
                 entry[1][1] = c /\ entry = <<<<c, id>>, verdict_files[<<c, id>>].body>>
    <3> DEFINE name == <<c, id>>
               entry == <<name, verdict_files[name].body>>
    <3>1. name \in whole /\ name[1] = c
      BY <2>3
    <3>2. entry[1] = name
      OBVIOUS
    <3>3. entry \in recorded
      BY <2>1, <3>1
    <3>4. entry[1][1] = c
      BY <3>1, <3>2
    <3> QED
      BY <3>3, <3>4
  <2> QED
    BY <2>4, <2>5
<1> QED
  BY <1>1, <1>2, <1>3, <1>4

LEMMA SortingIsTotal ==
  ASSUME NEW c, NEW N \in Nat, NEW listing, DOMAIN listing = 1 .. N,
         \A i \in 1 .. N : verdict_files[<<c, listing[i]>>].body.received_at \in Nat
  PROVE  /\ IsTotalOrder(1 .. N, Sorting(c, listing))
         /\ \A i, j \in 1 .. N : <<i, j>> \in Sorting(c, listing) =>
              verdict_files[<<c, listing[i]>>].body.received_at
                <= verdict_files[<<c, listing[j]>>].body.received_at
<1> DEFINE at(i) == verdict_files[<<c, listing[i]>>].body.received_at
           earlier(i, j) == at(i) < at(j) \/ (~(at(j) < at(i)) /\ i < j)
<1>1. \A i, j \in 1 .. N : <<i, j>> \in Sorting(c, listing) <=> earlier(i, j)
  BY DEF Sorting, Before
<1>2. \A i \in 1 .. N : at(i) \in Nat /\ i \in Nat
  OBVIOUS
<1> HIDE DEF at
<1>3. \A i \in 1 .. N : ~earlier(i, i)
  BY <1>2
<1>4. \A i, j, k \in 1 .. N : earlier(i, j) /\ earlier(j, k) => earlier(i, k)
  BY <1>2
<1>5. \A i, j \in 1 .. N : i # j => earlier(i, j) \/ earlier(j, i)
  BY <1>2
<1>6. \A i, j \in 1 .. N : earlier(i, j) => at(i) <= at(j)
  BY <1>2
<1> HIDE DEF earlier
<1>7. IsTotalOrder(1 .. N, Sorting(c, listing))
  BY <1>1, <1>3, <1>4, <1>5 DEF IsTotalOrder
<1>8. \A i, j \in 1 .. N : <<i, j>> \in Sorting(c, listing) => at(i) <= at(j)
  BY <1>1, <1>6
<1> QED
  BY <1>7, <1>8 DEF at

LEMMA ReadIsStream ==
  ASSUME RecordedInv, NEW c \in Contents, ~ReadRaises(c), NEW listing \in Readings(c)
  PROVE  LET answer == ReadVerdicts(c, listing)
             record(i) == verdict_files[<<c, answer[i]>>].body
             entries == {entry \in recorded : entry[1][1] = c}
         IN /\ {<<<<c, answer[i]>>, record(i)>> : i \in DOMAIN answer} = entries
            /\ Len(answer) = Cardinality(entries)
            /\ \A i, j \in DOMAIN answer : i < j => record(i).received_at <= record(j).received_at
<1> DEFINE ids == Listed(c)
           N == Cardinality(ids)
           entries == {entry \in recorded : entry[1][1] = c}
           body(id) == verdict_files[<<c, id>>].body
           order == Sorting(c, listing)
           positions == InOrder(1 .. N, order)
           answer == ReadVerdicts(c, listing)
<1>1. /\ IsFiniteSet(ids) /\ \A id \in ids : body(id).received_at \in Nat
      /\ entries = {<<<<c, id>>, body(id)>> : id \in ids}
  BY ListedAreWhole
<1>2. N \in Nat /\ IsFiniteSet(1 .. N) /\ Cardinality(1 .. N) = N
  BY <1>1, FS_CardinalityType, FS_Interval
<1>3. /\ listing \in [1 .. N -> ids] /\ \A id \in ids : \E i \in 1 .. N : listing[i] = id
      /\ DOMAIN listing = 1 .. N
  BY DEF Readings, Bijection, Injection, Surjection
<1>4. \A i \in 1 .. N : body(listing[i]).received_at \in Nat
  BY <1>1, <1>3
<1>5. /\ IsTotalOrder(1 .. N, order)
      /\ \A i, j \in 1 .. N : <<i, j>> \in order =>
           body(listing[i]).received_at <= body(listing[j]).received_at
  BY <1>2, <1>3, <1>4, SortingIsTotal
<1>6. answer = [n \in DOMAIN positions |-> listing[positions[n]]]
  BY <1>3 DEF ReadVerdicts
<1> HIDE DEF order, ids, N, entries, body
<1>7. /\ positions \in Seq(1 .. N) /\ Len(positions) = N
      /\ \A i \in 1 .. N : \E n \in 1 .. N : positions[n] = i
      /\ \A m, n \in 1 .. N : m < n => <<positions[m], positions[n]>> \in order
  <2> DEFINE places == 1 .. N
  <2>1. /\ IsFiniteSet(places) /\ IsTotalOrder(places, order) /\ Cardinality(places) = N
    BY <1>2, <1>5
  <2> HIDE DEF places
  <2>2. /\ positions \in Seq(places) /\ Len(positions) = Cardinality(places)
        /\ \A i \in places : \E n \in 1 .. Cardinality(places) : positions[n] = i
        /\ \A m, n \in 1 .. Cardinality(places) : m < n => <<positions[m], positions[n]>> \in order
    BY <2>1, InOrderSorts DEF places
  <2> QED
    BY <2>1, <2>2 DEF places
<1> HIDE DEF positions, answer
<1>8. /\ answer = [n \in 1 .. N |-> listing[positions[n]]]
      /\ \A n \in 1 .. N : positions[n] \in 1 .. N
  <2>1. DOMAIN positions = 1 .. N
    BY <1>2, <1>7
  <2>2. \A n \in 1 .. N : positions[n] \in 1 .. N
    BY <1>7, <2>1
  <2> QED
    BY <1>6, <2>1, <2>2
<1>9. /\ DOMAIN answer = 1 .. N /\ Len(answer) = N
      /\ \A n \in 1 .. N : answer[n] \in ids
      /\ \A id \in ids : \E n \in 1 .. N : answer[n] = id
  <2>1. DOMAIN answer = 1 .. N
    BY <1>8
  <2>2. \A n \in 1 .. N : answer[n] = listing[positions[n]]
    BY <1>8
  <2>3. \A n \in 1 .. N : answer[n] \in ids
    BY <1>3, <1>8, <2>2
  <2>4. answer \in Seq(ids) /\ Len(answer) = N
    <3>1. answer = [n \in 1 .. N |-> answer[n]]
      BY <1>8, <2>2
    <3>2. answer \in [1 .. N -> ids]
      BY <2>3, <3>1
    <3> QED
      BY <1>2, <2>1, <3>2
  <2>5. ASSUME NEW id \in ids PROVE \E n \in 1 .. N : answer[n] = id
    <3>1. PICK i \in 1 .. N : listing[i] = id
      BY <1>3
    <3>2. PICK n \in 1 .. N : positions[n] = i
      BY <1>7
    <3> QED
      BY <2>2, <3>1, <3>2
  <2> QED
    BY <2>1, <2>3, <2>4, <2>5
<1>10. {<<<<c, answer[i]>>, body(answer[i])>> : i \in DOMAIN answer} = entries
  BY <1>1, <1>9
<1>11. Cardinality(entries) = N
  <2> DEFINE f == [id \in ids |-> <<<<c, id>>, body(id)>>]
  <2>1. f \in Bijection(ids, entries)
    <3>1. f \in [ids -> entries]
      BY <1>1
    <3>2. \A one, other \in ids : f[one] = f[other] => one = other
      OBVIOUS
    <3>3. \A entry \in entries : \E id \in ids : f[id] = entry
      BY <1>1
    <3> QED
      BY <3>1, <3>2, <3>3 DEF Bijection, Injection, Surjection, IsInjective
  <2>2. ExistsBijection(ids, entries)
    BY <2>1 DEF ExistsBijection
  <2> QED
    BY <1>1, <2>2, FS_Bijection DEF N
<1>12. \A i, j \in DOMAIN answer : i < j =>
         body(answer[i]).received_at <= body(answer[j]).received_at
  <2> SUFFICES ASSUME NEW i \in 1 .. N, NEW j \in 1 .. N, i < j
               PROVE  body(answer[i]).received_at <= body(answer[j]).received_at
    BY <1>9
  <2>1. <<positions[i], positions[j]>> \in order
    BY <1>7
  <2> QED
    BY <1>5, <1>8, <2>1
<1> QED
  BY <1>9, <1>10, <1>11, <1>12 DEF answer, entries, body

LEMMA RecordedStream == RecordedInv => VerdictStream
<1> SUFFICES ASSUME RecordedInv PROVE VerdictStream
  OBVIOUS
<1> QED
  BY ReadIsStream DEF VerdictStream

-----------------------------------------------------------------------------
(* The invariant of the tools together. *)

ToolsInv ==
  /\ FilesInv
  /\ PilotTypeOK
  /\ SearchInv /\ SessionRest
  /\ StrategyInv
  /\ RecordedInv
  /\ starts \in 0 .. MaxStarts

LEMMA PilotInitTyped == Init => PilotTypeOK
<1> SUFFICES ASSUME Init PROVE PilotTypeOK
  OBVIOUS
<1>1. /\ builder.stage = "idle" /\ builder.stamp = 0 /\ builder.at = 1
      /\ \A kind \in Kinds : builder.output[kind] = Absent
      /\ \A name \in PilotNames : pilot_files[name] = Absent
  BY DEF Init, PilotInit, IdleBuilder
<1>2. 0 \in 0 .. MaxStamp
  BY ClockAssumption DEF ClockAssumption
<1> QED
  BY <1>1, <1>2, PilotFileStates DEF PilotTypeOK

LEMMA SessionInitRest == Init => SessionRest
<1> SUFFICES ASSUME Init PROVE SessionRest
  OBVIOUS
<1>1. /\ session.stage = "idle" /\ session.claims = <<>> /\ session.records = <<>>
      /\ session.max_requests_per_run = 0 /\ session.use_translation = FALSE
      /\ session.retries = 0
      /\ session = [field \in SessionFields |-> session[field]]
  BY DEF Init, SearchInit, IdleSession, SessionFields
<1>2. 0 \in 0 .. MaxRetries
  BY BudgetAssumption DEF BudgetAssumption
<1>3. session.claims \in Seq(PilotRecord) /\ Len(session.records) <= Len(session.claims)
  BY <1>1, EmptyRecords
<1> QED
  BY <1>1, <1>2, <1>3 DEF SessionRest

LEMMA StartsStep ==
  ASSUME starts \in 0 .. MaxStarts, [Next]_vars
  PROVE  starts' \in 0 .. MaxStarts
<1>1. MaxStarts \in Nat
  BY ToolsAssumption DEF ToolsAssumption
<1>2. starts' = starts \/ (starts < MaxStarts /\ starts' = starts + 1)
  BY DEF Next, vars, StartTool, ToolStep, SessionStep, ToolDies
<1> QED
  BY <1>1, <1>2

LEMMA ToolsInvariant == Spec => []ToolsInv
<1>1. Init => ToolsInv
  <2> SUFFICES ASSUME Init PROVE ToolsInv
    OBVIOUS
  <2>1. starts \in 0 .. MaxStarts
    BY ToolsAssumption DEF Init, ToolsAssumption
  <2> QED
    BY <2>1, FilesInit, PilotInitTyped, SearchInitInv, SessionInitRest, StrategyInitInv,
       RecordedInit DEF ToolsInv
<1>2. ToolsInv /\ [Next]_vars => ToolsInv'
  <2> SUFFICES ASSUME ToolsInv, [Next]_vars PROVE ToolsInv'
    OBVIOUS
  <2>1. FilesInv'
    BY FilesStep DEF ToolsInv
  <2>2. PilotTypeOK'
    BY PilotTypesStep DEF ToolsInv, FilesInv
  <2>3. SearchInv' /\ SessionRest'
    BY SessionsStep, RestStep DEF ToolsInv
  <2>4. StrategyInv'
    BY StrategyStepKeeps DEF ToolsInv, FilesInv
  <2>5. RecordedInv'
    BY RecordedStep DEF ToolsInv, FilesInv
  <2>6. starts' \in 0 .. MaxStarts
    BY StartsStep DEF ToolsInv
  <2> QED
    BY <2>1, <2>2, <2>3, <2>4, <2>5, <2>6 DEF ToolsInv
<1> QED
  BY <1>1, <1>2, PTL DEF Spec

(***************************************************************************)
(* For every graph of cards, manifest and budget, and whatever tool dies:  *)
(* all state of the tools has its type: among it, every claim that a       *)
(* session has loaded is a record such as a run file holds, never a part   *)
(* of one (driver.py, load_claims).                                        *)
(***************************************************************************)
THEOREM TypeCorrect == Spec => []TypeOK
<1>1. ToolsInv => TypeOK
  <2> SUFFICES ASSUME ToolsInv PROVE TypeOK
    OBVIOUS
  <2>1. SelectionTypeOK
    BY DEF ToolsInv, FilesInv, SelectionInv
  <2>2. session \in Session /\ searches \in Searches
    BY SessionTyped DEF ToolsInv
  <2>3. StrategyTypeOK
    BY StrategyInvTyped DEF ToolsInv, FilesInv
  <2>4. OwnerTypeOK
    BY RecordedTyped DEF ToolsInv
  <2> QED
    BY <2>1, <2>2, <2>3, <2>4 DEF ToolsInv, TypeOK
<1> QED
  BY <1>1, ToolsInvariant, PTL

(***************************************************************************)
(* For every manifest and whatever GitHub answers of it: a digest's        *)
(* sections are repositories that were confirmed in its run and that the   *)
(* whole verdict of that run includes; a verdict is gated exactly when it  *)
(* has claims and includes none of them (run_habr_pilot.py,                *)
(* write_verdict.py, habr_verdict_to_story.py).                            *)
(***************************************************************************)
THEOREM DigestsAreOfVerdicts == Spec => []DigestOfVerdict
<1>1. ToolsInv => DigestOfVerdict
  BY StrategyInvTyped DEF ToolsInv, FilesInv
<1> QED
  BY <1>1, ToolsInvariant, PTL

(***************************************************************************)
(* For every set of records, however many are written and whichever writer *)
(* dies, and in whatever order the directory lists them: a reader that is  *)
(* not refused gets each recorded verdict of its content once, unchanged   *)
(* and in the order they were received, and no other (verdict/writer.py,   *)
(* write_verdict and read_verdicts).                                       *)
(***************************************************************************)
THEOREM VerdictsAreStreamed == Spec => []VerdictStream
<1>1. ToolsInv => VerdictStream
  BY RecordedStream DEF ToolsInv
<1> QED
  BY <1>1, ToolsInvariant, PTL

==============================================================================
