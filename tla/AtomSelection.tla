---------------------------- MODULE AtomSelection ----------------------------
(***************************************************************************)
(* The selection of atoms for a Claim Extraction pilot                     *)
(* (claim_extraction/atom_selector.py, select_pilot_atoms.py,              *)
(* graph_reader.py).  select_pilot_atoms(n) calls select_atom() until it   *)
(* has n different atoms or has tried n * MAX_ATTEMPTS_MULTIPLIER times;   *)
(* every call takes the next cluster that has atoms, a random atom of it,  *)
(* and saves the cluster's index in atom_selector_state.json, truncating   *)
(* the file before writing it.                                             *)
(*                                                                         *)
(* A card is what detect_cluster() makes of its tags; its text is left     *)
(* out.  The cards do not change while the model runs.  Clusters are       *)
(* positions 1 .. NumClusters of CLUSTERS, so that the code's initial      *)
(* index -1 is 0 here.                                                     *)
(***************************************************************************)
EXTENDS Naturals, Sequences, FiniteSets, FiniteSetsExt, RunClock

CONSTANTS
  Cards,          (* The files of 02_Cards/.                               *)
  NoCard,
  NumClusters,    (* len(CLUSTERS); 4 in the code.                         *)
  MAX_ATTEMPTS_MULTIPLIER,
  Graphs          (* The clusterOf a model starts from.                    *)

Positions == 1 .. NumClusters

Unclustered == 0  (* "Без кластера"                                        *)
Unreadable == NumClusters + 1

ASSUME SelectionAssumption ==
  /\ NoCard \notin Cards
  /\ IsFiniteSet(Cards)
  /\ NumClusters \in Nat \ {0}
  /\ MAX_ATTEMPTS_MULTIPLIER \in Nat \ {0}
  /\ Graphs \subseteq [Cards -> 0 .. NumClusters + 1]

VARIABLES
  clusterOf,    (* each card's cluster, Unclustered or Unreadable            *)
  rotation,     (* atom_selector_state.json: its state, last_cluster_index *)
  selector,     (* the running select_pilot_atoms                          *)
  selections,   (* what selections that succeeded printed, oldest first    *)
  lead          (* history: picks of each cluster with atoms, less those   *)
                (* of the least picked one                                 *)

selectionVars == <<clusterOf, rotation, selector, selections, lead>>

-----------------------------------------------------------------------------
AtomsIn(position) == {card \in Cards : clusterOf[card] = position}
Occupied == {position \in Positions : AtomsIn(position) # {}}
UnreadableCards == {card \in Cards : clusterOf[card] = Unreadable}

(* The cluster reached from last in so many steps of the rotation. *)
After(last, steps) == ((last + steps - 1) % NumClusters) + 1

(* How many clusters are listed to find one with atoms after last. *)
Listings(last) ==
  CHOOSE steps \in Positions :
    /\ After(last, steps) \in Occupied
    /\ \A fewer \in 1 .. steps - 1 : After(last, fewer) \notin Occupied

NextCluster(last) == After(last, Listings(last))

(* A wrong SavedIndex: the index moves by one, whatever was skipped. *)
SavedIndexByOne(last, position) == After(last, 1)

(* Another: the index to start from next, without the modulo. *)
SavedIndexUnwrapped(last, position) == position + 1

(* last_cluster_index of _save_state: the cluster the atom came from. *)
SavedIndex(last, position) == position

Selector == [stage : {"idle", "selecting", "saving"}, want : Nat,
             attempts : Nat, atoms : Seq(Cards), read_errors : Nat,
             card : Cards \cup {NoCard}, index : 0 .. NumClusters]

IdleSelector == [stage |-> "idle", want |-> 0, attempts |-> 0, atoms |-> <<>>,
                 read_errors |-> 0, card |-> NoCard, index |-> 0]

Selection == [stamp : Stamps, atoms : Seq(Cards), read_errors : Nat]

SelectionInit ==
  /\ clusterOf \in Graphs
  /\ rotation = [file |-> "absent", last |-> 0]
  /\ selector = IdleSelector
  /\ selections = <<>>
  /\ lead = [position \in Positions |-> 0]

SelectionTypeOK ==
  /\ clusterOf \in Graphs
  /\ rotation \in [file : {"absent", "torn", "whole"}, last : 0 .. NumClusters]
  /\ selector \in Selector
  /\ selections \in Seq(Selection)
  /\ lead \in [Positions -> Nat]
  /\ clock \in Stamps

-----------------------------------------------------------------------------
StartSelection(n) ==
  /\ selector.stage = "idle"
  /\ selector' = [IdleSelector EXCEPT !.stage = "selecting", !.want = n]
  /\ UNCHANGED <<clusterOf, rotation, selections, lead, clock>>

(* The while condition of select_pilot_atoms. *)
WantsMore ==
  /\ selector.stage = "selecting"
  /\ Len(selector.atoms) < selector.want
  /\ selector.attempts < selector.want * MAX_ATTEMPTS_MULTIPLIER

(* select_atom up to the truncation of the state file.  Each cluster that  *)
(* is listed reads every card, and every unreadable card prints a line.    *)
PickAtom ==
  /\ WantsMore
  /\ rotation.file # "torn"
  /\ Occupied # {}
  /\ LET position == NextCluster(rotation.last) IN
     \E card \in AtomsIn(position) :
       selector' = [selector EXCEPT
         !.stage = "saving",
         !.card = card,
         !.index = SavedIndex(rotation.last, position),
         !.read_errors = @ + Listings(rotation.last) * Cardinality(UnreadableCards)]
  /\ rotation' = [file |-> "torn", last |-> 0]
  /\ UNCHANGED <<clusterOf, selections, lead, clock>>

(* A wrong AttemptsAfter: a duplicate is not counted as an attempt. *)
AttemptsAfterNew(attempts, duplicate) ==
  IF duplicate THEN attempts ELSE attempts + 1

AttemptsAfter(attempts, duplicate) == attempts + 1

(* lead after one more pick of a cluster. *)
LeadAfter(position) ==
  LET picked == [lead EXCEPT ![position] = @ + 1]
      least == Min({picked[other] : other \in Occupied})
  IN [other \in Positions |-> IF other \in Occupied THEN picked[other] - least ELSE 0]

(* The state is written, select_atom returns, and its atom is kept unless  *)
(* the run already has it.                                                 *)
SaveState ==
  /\ selector.stage = "saving"
  /\ rotation' = [file |-> "whole", last |-> selector.index]
  /\ LET card == selector.card
         duplicate == \E i \in DOMAIN selector.atoms : selector.atoms[i] = card
     IN /\ selector' = [selector EXCEPT
             !.stage = "selecting",
             !.attempts = AttemptsAfter(@, duplicate),
             !.atoms = IF duplicate THEN @ ELSE Append(@, card),
             !.card = NoCard,
             !.index = 0]
        /\ lead' = LeadAfter(clusterOf[card])
  /\ UNCHANGED <<clusterOf, selections, clock>>

(* select_atom raises: the state file holds no JSON, or no cluster has an  *)
(* atom.  Nothing is printed.                                              *)
SelectionRaises ==
  /\ WantsMore
  /\ rotation.file = "torn" \/ Occupied = {}
  /\ selector' = IdleSelector
  /\ UNCHANGED <<clusterOf, rotation, selections, lead, clock>>

FinishSelection(stamp) ==
  /\ selector.stage = "selecting"
  /\ Len(selector.atoms) = selector.want
  /\ Stamp(stamp)
  /\ selections' = Append(selections,
       [stamp |-> stamp, atoms |-> selector.atoms, read_errors |-> selector.read_errors])
  /\ selector' = IdleSelector
  /\ UNCHANGED <<clusterOf, rotation, lead>>

(* The attempts ran out: RuntimeError, and what was picked is lost. *)
GiveUp ==
  /\ selector.stage = "selecting"
  /\ Len(selector.atoms) < selector.want
  /\ ~WantsMore
  /\ selector' = IdleSelector
  /\ UNCHANGED <<clusterOf, rotation, selections, lead, clock>>

SelectorDies ==
  /\ selector.stage # "idle"
  /\ selector' = IdleSelector
  /\ UNCHANGED <<clusterOf, rotation, selections, lead, clock>>

SelectionStep ==
  \/ PickAtom \/ SaveState \/ SelectionRaises \/ GiveUp
  \/ \E stamp \in Stamps : FinishSelection(stamp)

-----------------------------------------------------------------------------
(***************************************************************************)
(* The rotation is fair across tools, processes and deaths: of the         *)
(* clusters that have atoms none was ever picked two times more than       *)
(* another (atom_selector.py, CLUSTERS and last_cluster_index).            *)
(***************************************************************************)
RotationBalanced == \A position \in Occupied : lead[position] <= 1

==============================================================================
