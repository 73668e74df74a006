----------------------------- MODULE PilotOutput -----------------------------
(***************************************************************************)
(* The artifacts of a Claim Extraction pilot                               *)
(* (claim_extraction/build_pilot_output.py).  The tool reads a selection   *)
(* and the claims an interactive session extracted from its atoms, checks  *)
(* that they match, and writes pilot_run_<stamp>.json and then             *)
(* pilot_log_<stamp>.json, neither of which may exist.                     *)
(*                                                                         *)
(* The five texts of a claim and its confidence are left out.  A claim_id  *)
(* is the stamp and the position.                                          *)
(***************************************************************************)
EXTENDS AtomSelection, ToolFile

CONSTANT
  Extractions     (* What a session may say of one atom: its status, its   *)
                  (* category, and whether context was insufficient.       *)

CountedCategories == {"no_claim", "wrong_framing", "bad_evidence", "technical_failure"}

Extraction == [status : {"claim", "no_claim"},
               category : CountedCategories \cup {"none"},
               context_insufficiency : BOOLEAN]

ASSUME ExtractionsAssumption == Extractions \subseteq Extraction

PilotRecord == [claim_id : Stamps \X Nat, atom : Cards, extraction : Extraction]

PilotLogBody == [total_atoms : Nat, category_counts : [CountedCategories -> Nat],
                 insufficient : SUBSET Cards, reversal : BOOLEAN]

Kinds == {"run", "log"}

PilotFile(kind) ==
  {Absent, Torn} \cup
  [state : {"whole"}, body : IF kind = "run" THEN Seq(PilotRecord) ELSE PilotLogBody]

(* pilot_run_<stamp>.json and pilot_log_<stamp>.json *)
PilotNames == Kinds \X Stamps

VARIABLES
  builder,      (* the running build_pilot_output: its stage, its run_id,  *)
                (* which of the two files it is at, and what it will write *)
  pilot_files

pilotVars == <<builder, pilot_files>>

IdleBuilder == [stage |-> "idle", stamp |-> 0, at |-> 1,
                output |-> [kind \in Kinds |-> Absent]]

PilotInit ==
  /\ builder = IdleBuilder
  /\ pilot_files = [name \in PilotNames |-> Absent]

PilotTypeOK ==
  /\ builder.stage \in {"idle", "create", "write"}
  /\ builder.stamp \in 0 .. MaxStamp
  /\ builder.at \in 1 .. 2
  /\ \A kind \in Kinds : builder.output[kind] \in PilotFile(kind)
  /\ \A name \in PilotNames : pilot_files[name] \in PilotFile(name[1])

-----------------------------------------------------------------------------
(* claims.json is a sequence of [atom, extraction]: build() raises on a    *)
(* different number of atoms or another order.                             *)
ClaimsMatch(selection, claims) ==
  /\ Len(claims) = Len(selection.atoms)
  /\ \A i \in DOMAIN claims : claims[i].atom = selection.atoms[i]

PilotRun(selection, claims) ==
  [i \in DOMAIN claims |-> [claim_id |-> <<selection.stamp, i>>,
                            atom |-> claims[i].atom,
                            extraction |-> claims[i].extraction]]

Insufficient(claims) ==
  {i \in DOMAIN claims : claims[i].extraction.context_insufficiency}

(* D-013: at least 40% of the atoms lacked context. *)
ReversalTriggered(count, total) == total > 0 /\ 5 * count >= 2 * total

(* category_counts: what the records say; each read error of the selection *)
(* counts as a technical failure as well.                                  *)
CategoryCount(selection, claims, category) ==
  Cardinality({i \in DOMAIN claims : claims[i].extraction.category = category})
  + (IF category = "technical_failure" THEN selection.read_errors ELSE 0)

PilotLog(selection, claims) ==
  [total_atoms |-> Len(selection.atoms),
   category_counts |-> [category \in CountedCategories |->
                          CategoryCount(selection, claims, category)],
   insufficient |-> {claims[i].atom : i \in Insufficient(claims)},
   reversal |-> ReversalTriggered(Cardinality(Insufficient(claims)), Len(selection.atoms))]

(* A wrong NotBuiltYet: only the log, which is written last, is looked at. *)
NotBuiltYetByLog(stamp) == ~Exists(pilot_files[<<"log", stamp>>])

(* The existence check of write_outputs, over both paths. *)
NotBuiltYet(stamp) == \A kind \in Kinds : ~Exists(pilot_files[<<kind, stamp>>])

(* build() and the check of write_outputs. *)
StartBuild(selection, claims) ==
  /\ builder.stage = "idle"
  /\ ClaimsMatch(selection, claims)
  /\ NotBuiltYet(selection.stamp)
  /\ builder' = [stage |-> "create", stamp |-> selection.stamp, at |-> 1,
                 output |-> [run |-> Whole(PilotRun(selection, claims)),
                             log |-> Whole(PilotLog(selection, claims))]]
  /\ UNCHANGED pilot_files

(* ValueError or FileExistsError: nothing is written. *)
RefuseBuild(selection, claims) ==
  /\ builder.stage = "idle"
  /\ ~(ClaimsMatch(selection, claims) /\ NotBuiltYet(selection.stamp))
  /\ UNCHANGED pilotVars

(* A wrong KindAt: the log is written first. *)
KindAtLogFirst(position) == IF position = 1 THEN "log" ELSE "run"

(* write_outputs writes the run, then the log. *)
KindAt(position) == IF position = 1 THEN "run" ELSE "log"

BuilderName == <<KindAt(builder.at), builder.stamp>>

CreatePilotFile ==
  /\ builder.stage = "create"
  /\ pilot_files' = [pilot_files EXCEPT ![BuilderName] = Torn]
  /\ builder' = [builder EXCEPT !.stage = "write"]

WritePilotFile ==
  /\ builder.stage = "write"
  /\ pilot_files' = [pilot_files EXCEPT ![BuilderName] = builder.output[KindAt(builder.at)]]
  /\ builder' = IF builder.at = 1
                THEN [builder EXCEPT !.stage = "create", !.at = 2]
                ELSE IdleBuilder

BuilderDies ==
  /\ builder.stage # "idle"
  /\ builder' = IdleBuilder
  /\ UNCHANGED pilot_files

PilotStep == CreatePilotFile \/ WritePilotFile

-----------------------------------------------------------------------------
(***************************************************************************)
(* What a log says is true of the run file beside it, which is whole       *)
(* whenever the log is: the same atoms, each once and in the order they    *)
(* were selected, the counts of their categories, and the check of D-013   *)
(* (build_pilot_output.py, build and write_outputs).                       *)
(***************************************************************************)
LogDescribes(run, log) ==
  LET OfCategory(category) ==
        Cardinality({i \in DOMAIN run : run[i].extraction.category = category})
      lacking == {i \in DOMAIN run : run[i].extraction.context_insufficiency}
  IN /\ log.total_atoms = Len(run)
     /\ \A category \in CountedCategories \ {"technical_failure"} :
          log.category_counts[category] = OfCategory(category)
     /\ log.category_counts["technical_failure"] >= OfCategory("technical_failure")
     /\ log.insufficient = {run[i].atom : i \in lacking}
     /\ log.reversal <=> run # <<>> /\ 5 * Cardinality(lacking) >= 2 * Len(run)

LogMatchesRun ==
  \A stamp \in Stamps :
    LET run == pilot_files[<<"run", stamp>>]
        log == pilot_files[<<"log", stamp>>]
    IN IsWhole(log) =>
         /\ IsWhole(run)
         /\ LogDescribes(run.body, log.body)
         /\ \A i, j \in DOMAIN run.body : run.body[i].atom = run.body[j].atom => i = j
         /\ \E s \in DOMAIN selections :
              /\ selections[s].stamp = stamp
              /\ selections[s].atoms = [i \in DOMAIN run.body |-> run.body[i].atom]

==============================================================================
