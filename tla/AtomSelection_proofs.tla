------------------------ MODULE AtomSelection_proofs ------------------------
(***************************************************************************)
(* Lemmas about AtomSelection, for every graph of cards and every number   *)
(* of clusters: what its steps keep of the types, and of the fairness of   *)
(* the rotation.                                                           *)
(*                                                                         *)
(* The argument for the rotation: clusters are ordered by how many steps   *)
(* after the saved index they come.  Those that come later were picked     *)
(* more recently, so that no cluster is ahead of one that comes after it;  *)
(* the next one is therefore a least picked one, and after it was picked   *)
(* it comes last.                                                          *)
(***************************************************************************)
EXTENDS AtomSelection, FiniteOrder_proofs

(* How many steps after last a position comes. *)
Distance(last, position) ==
  IF position > last THEN position - last ELSE position - last + NumClusters

(* No cluster with atoms is ahead of one that comes later. *)
Ordered(last, positions) ==
  \A one, other \in positions :
    Distance(last, one) < Distance(last, other) => lead[one] <= lead[other]

LeadInv ==
  /\ \A position \in Occupied : lead[position] \in {0, 1}
  /\ Occupied # {} => \E position \in Occupied : lead[position] = 0
  /\ rotation.file # "torn" => Ordered(rotation.last, Occupied)

(* Between the truncation of the state file and its writing: the cluster   *)
(* that was picked is a least picked one, and the others are in order from *)
(* it on.                                                                  *)
SavingInv ==
  selector.stage = "saving" =>
    /\ selector.card \in Cards
    /\ selector.index \in Occupied
    /\ clusterOf[selector.card] = selector.index
    /\ rotation.file = "torn"
    /\ lead[selector.index] = 0
    /\ Ordered(selector.index, Occupied \ {selector.index})

SelectionInv == SelectionTypeOK /\ LeadInv /\ SavingInv

-----------------------------------------------------------------------------
LEMMA MinIs ==
  ASSUME NEW T \in SUBSET Nat, NEW x \in T, \A y \in T : x <= y
  PROVE  Min(T) = x
<1>1. Min(T) \in T /\ \A y \in T : Min(T) <= y
  BY DEF Min
<1> DEFINE m == Min(T)
<1>2. m \in Nat /\ m <= x /\ x <= m
  BY <1>1
<1> HIDE DEF m
<1>3. m = x
  BY <1>2
<1> QED
  BY <1>3 DEF m

LEMMA ClustersExist == NumClusters \in Nat \ {0}
BY SelectionAssumption DEF SelectionAssumption

(* The rotation reaches every position, in Distance steps and not before.  *)
LEMMA DistanceType ==
  ASSUME NEW last \in 0 .. NumClusters, NEW position \in Positions
  PROVE  Distance(last, position) \in Positions
BY ClustersExist DEF Distance, Positions

LEMMA AfterDistance ==
  ASSUME NEW last \in 0 .. NumClusters, NEW position \in Positions
  PROVE  After(last, Distance(last, position)) = position
<1>1. CASE position > last
  <2>1. last + Distance(last, position) - 1 = position - 1
    BY <1>1, ClustersExist DEF Distance, Positions
  <2>2. (position - 1) % NumClusters = position - 1
    BY ClustersExist DEF Positions
  <2> QED
    BY <2>1, <2>2 DEF After, Positions
<1>2. CASE position <= last
  <2>1. last + Distance(last, position) - 1 = (position - 1) + NumClusters
    BY <1>2, ClustersExist DEF Distance, Positions
  <2>2. ((position - 1) + NumClusters) % NumClusters = position - 1
    BY ClustersExist DEF Positions
  <2> QED
    BY <2>1, <2>2 DEF After, Positions
<1> QED
  BY <1>1, <1>2, ClustersExist DEF Positions

LEMMA AfterType ==
  ASSUME NEW last \in 0 .. NumClusters, NEW steps \in Positions
  PROVE  After(last, steps) \in Positions
<1>1. last + steps - 1 \in Nat
  BY ClustersExist DEF Positions
<1>2. (last + steps - 1) % NumClusters \in 0 .. NumClusters - 1
  BY <1>1, ClustersExist
<1> QED
  BY <1>2, ClustersExist DEF After, Positions

LEMMA DistanceAfter ==
  ASSUME NEW last \in 0 .. NumClusters, NEW steps \in Positions
  PROVE  Distance(last, After(last, steps)) = steps
<1>1. CASE last + steps - 1 < NumClusters
  <2>1. (last + steps - 1) % NumClusters = last + steps - 1
    BY <1>1, ClustersExist DEF Positions
  <2> QED
    BY <2>1, ClustersExist DEF After, Distance, Positions
<1>2. CASE last + steps - 1 >= NumClusters
  <2>1. (last + steps - 1) % NumClusters = last + steps - 1 - NumClusters
    BY <1>2, ClustersExist DEF Positions
  <2> QED
    BY <1>2, <2>1, ClustersExist DEF After, Distance, Positions
<1> QED
  BY <1>1, <1>2, ClustersExist DEF Positions

(* select_atom finds the cluster with atoms that comes first. *)
LEMMA NextIsNearest ==
  ASSUME NEW last \in 0 .. NumClusters, Occupied # {}
  PROVE  /\ Listings(last) \in Positions
         /\ NextCluster(last) \in Occupied
         /\ \A other \in Occupied \ {NextCluster(last)} :
              Distance(last, NextCluster(last)) < Distance(last, other)
<1> DEFINE T == {steps \in Positions : After(last, steps) \in Occupied}
<1>1. PICK position \in Occupied : TRUE
  OBVIOUS
<1>2. position \in Positions /\ Distance(last, position) \in T
  BY DistanceType, AfterDistance DEF Occupied
<1>3. T \in SUBSET Nat /\ T # {}
  BY <1>2, ClustersExist DEF Positions
<1>4. PICK first \in T : \A y \in T : first <= y
  BY <1>3, LeastExists
<1>5. /\ first \in Positions
      /\ After(last, first) \in Occupied
      /\ \A fewer \in 1 .. first - 1 : After(last, fewer) \notin Occupied
  BY <1>4, ClustersExist DEF Positions
<1> DEFINE L == Listings(last)
<1>6. /\ L \in Positions
      /\ After(last, L) \in Occupied
      /\ \A fewer \in 1 .. L - 1 : After(last, fewer) \notin Occupied
  BY <1>5 DEF Listings
<1>7. NextCluster(last) = After(last, L)
  BY DEF NextCluster
<1> HIDE DEF L
<1>8. Distance(last, After(last, L)) = L
  BY <1>6, DistanceAfter
<1>9. ASSUME NEW other \in Occupied, other # After(last, L)
      PROVE  L < Distance(last, other)
  <2>1. other \in Positions
    BY DEF Occupied
  <2>2. Distance(last, other) \in Positions /\ After(last, Distance(last, other)) = other
    BY <2>1, DistanceType, AfterDistance
  <2>3. Distance(last, other) # L
    BY <1>9, <2>2
  <2>4. Distance(last, other) \notin 1 .. L - 1
    BY <1>6, <2>2
  <2> QED
    BY <1>6, <2>2, <2>3, <2>4, ClustersExist DEF Positions
<1> QED
  BY <1>6, <1>7, <1>8, <1>9 DEF L

(* Seen from the cluster that was picked, the others keep their order.     *)
LEMMA DistanceFromNext ==
  ASSUME NEW last \in 0 .. NumClusters, NEW here \in Positions, NEW other \in Positions,
         Distance(last, here) < Distance(last, other)
  PROVE  Distance(here, other) = Distance(last, other) - Distance(last, here)
BY ClustersExist DEF Distance, Positions

LEMMA FarthestIsItself ==
  ASSUME NEW here \in Positions, NEW other \in Positions
  PROVE  Distance(here, here) = NumClusters /\ Distance(here, other) <= NumClusters
BY ClustersExist DEF Distance, Positions

-----------------------------------------------------------------------------
(* The steps. *)

LEMMA IdleType == IdleSelector \in Selector /\ IdleSelector.stage = "idle"
<1>1. 0 \in 0 .. NumClusters
  BY ClustersExist
<1>2. <<>> \in Seq(Cards) /\ 0 \in Nat /\ NoCard \in Cards \cup {NoCard}
  OBVIOUS
<1>3. "idle" \in {"idle", "selecting", "saving"}
  OBVIOUS
<1> QED
  BY <1>1, <1>2, <1>3, Zenon DEF IdleSelector, Selector

LEMMA SelectionInitInv == SelectionInit /\ clock = 1 => SelectionInv
<1> SUFFICES ASSUME SelectionInit, clock = 1 PROVE SelectionInv
  OBVIOUS
<1>1. SelectionTypeOK
  <2>1. selector \in Selector
    BY IdleType DEF SelectionInit
  <2>2. rotation \in [file : {"absent", "torn", "whole"}, last : 0 .. NumClusters]
    BY ClustersExist DEF SelectionInit
  <2>3. lead \in [Positions -> Nat] /\ selections \in Seq(Selection)
    BY DEF SelectionInit
  <2>4. clock \in Stamps
    BY ClockAssumption DEF ClockAssumption, Stamps
  <2> QED
    BY <2>1, <2>2, <2>3, <2>4 DEF SelectionTypeOK, SelectionInit
<1>2. \A position \in Positions : lead[position] = 0
  BY DEF SelectionInit
<1>3. Occupied \subseteq Positions
  BY DEF Occupied
<1>4. LeadInv
  BY <1>2, <1>3 DEF LeadInv, Ordered
<1>5. SavingInv
  BY DEF SavingInv, SelectionInit, IdleSelector
<1> QED
  BY <1>1, <1>4, <1>5 DEF SelectionInv

(* Steps that change neither the rotation nor its history, and leave no    *)
(* selection saving.                                                       *)
LEMMA QuietKeeps ==
  ASSUME SelectionInv, UNCHANGED <<clusterOf, rotation, lead>>,
         selector' \in Selector, selector'.stage # "saving",
         selections' \in Seq(Selection), clock' \in Stamps
  PROVE  SelectionInv'
<1>1. SelectionTypeOK'
  BY DEF SelectionInv, SelectionTypeOK
<1>2. LeadInv'
  BY DEF SelectionInv, LeadInv, Ordered, Occupied, AtomsIn
<1>3. SavingInv'
  BY DEF SavingInv
<1> QED
  BY <1>1, <1>2, <1>3 DEF SelectionInv

LEMMA StartKeeps ==
  ASSUME SelectionInv, NEW n \in Nat, StartSelection(n)
  PROVE  SelectionInv'
<1>1. selector' \in Selector /\ selector'.stage # "saving"
  BY IdleType DEF StartSelection, IdleSelector, Selector
<1> QED
  BY <1>1, QuietKeeps DEF StartSelection, SelectionInv, SelectionTypeOK

(* Steps after which the selector is idle and nothing else has changed. *)
LEMMA EndKeeps ==
  ASSUME SelectionInv, SelectionRaises \/ GiveUp \/ SelectorDies
  PROVE  SelectionInv'
<1>1. selector' \in Selector /\ selector'.stage # "saving"
  BY IdleType DEF SelectionRaises, GiveUp, SelectorDies
<1> QED
  BY <1>1, QuietKeeps
  DEF SelectionRaises, GiveUp, SelectorDies, SelectionInv, SelectionTypeOK

LEMMA FinishKeeps ==
  ASSUME SelectionInv, NEW stamp \in Stamps, FinishSelection(stamp)
  PROVE  SelectionInv'
<1>1. selector' \in Selector /\ selector'.stage # "saving"
  BY IdleType DEF FinishSelection
<1>2. selector \in Selector /\ selections \in Seq(Selection)
  BY DEF SelectionInv, SelectionTypeOK
<1> DEFINE printed == [stamp |-> stamp, atoms |-> selector.atoms,
                       read_errors |-> selector.read_errors]
<1>3. printed \in Selection
  BY <1>2 DEF Selector, Selection
<1>4. selections' = Append(selections, printed)
  BY DEF FinishSelection
<1> HIDE DEF printed
<1>5. selections' \in Seq(Selection)
  BY <1>2, <1>3, <1>4
<1>6. clock' \in Stamps /\ UNCHANGED <<clusterOf, rotation, lead>>
  BY DEF FinishSelection, Stamp
<1> QED
  BY <1>1, <1>5, <1>6, QuietKeeps

LEMMA UnreadableCounted == Cardinality(UnreadableCards) \in Nat
<1>1. UnreadableCards \in SUBSET Cards /\ IsFiniteSet(Cards)
  BY SelectionAssumption DEF UnreadableCards, SelectionAssumption
<1> QED
  BY <1>1, FS_Subset, FS_CardinalityType

LEMMA PickKeeps ==
  ASSUME SelectionInv, PickAtom
  PROVE  SelectionInv'
<1> DEFINE last == rotation.last
           here == NextCluster(last)
<1>1. /\ last \in 0 .. NumClusters /\ rotation.file # "torn" /\ Occupied # {}
      /\ selector \in Selector /\ lead \in [Positions -> Nat]
      /\ Ordered(last, Occupied)
      /\ \A position \in Occupied : lead[position] \in {0, 1}
      /\ \E position \in Occupied : lead[position] = 0
  BY DEF PickAtom, SelectionInv, SelectionTypeOK, LeadInv
<1>2. PICK card \in AtomsIn(here) :
        selector' = [selector EXCEPT
          !.stage = "saving", !.card = card,
          !.index = SavedIndex(rotation.last, here),
          !.read_errors = @ + Listings(rotation.last) * Cardinality(UnreadableCards)]
  BY DEF PickAtom
<1>3. /\ Listings(last) \in Positions
      /\ here \in Occupied
      /\ \A other \in Occupied \ {here} : Distance(last, here) < Distance(last, other)
  BY <1>1, NextIsNearest
<1>4. Listings(last) * Cardinality(UnreadableCards) \in Nat
  BY <1>3, UnreadableCounted, ClustersExist DEF Positions
<1>5. here \in Positions /\ Occupied \subseteq Positions
  BY <1>3 DEF Occupied
<1>6. card \in Cards /\ clusterOf[card] = here
  BY <1>2 DEF AtomsIn
<1> HIDE DEF last, here
<1>7. /\ rotation' = [file |-> "torn", last |-> 0]
      /\ UNCHANGED <<clusterOf, selections, lead, clock>>
  BY DEF PickAtom
<1>8. /\ selector' \in Selector
      /\ selector'.stage = "saving" /\ selector'.card = card /\ selector'.index = here
  <2> DEFINE listed == Listings(rotation.last) * Cardinality(UnreadableCards)
             index == SavedIndex(rotation.last, here)
  <2>1. listed \in Nat /\ index = here
    BY <1>4 DEF SavedIndex, last
  <2>2. selector' = [selector EXCEPT !.stage = "saving", !.card = card, !.index = index,
                                     !.read_errors = @ + listed]
    BY <1>2
  <2> HIDE DEF listed, index
  <2>3. here \in 0 .. NumClusters
    BY <1>5, ClustersExist DEF Positions
  <2>4. selector.read_errors + listed \in Nat
    BY <1>1, <2>1 DEF Selector
  <2> QED
    BY <1>1, <1>6, <2>1, <2>2, <2>3, <2>4 DEF Selector
<1>9. Occupied' = Occupied
  BY <1>7 DEF Occupied, AtomsIn
<1>10. SelectionTypeOK'
  BY <1>7, <1>8, ClustersExist DEF SelectionInv, SelectionTypeOK
<1>11. LeadInv'
  BY <1>1, <1>7, <1>9 DEF LeadInv
<1>12. lead[here] = 0
  <2>1. PICK zero \in Occupied : lead[zero] = 0
    BY <1>1
  <2>2. CASE zero = here
    BY <2>1, <2>2
  <2>3. CASE zero # here
    <3>1. lead[here] <= lead[zero]
      BY <1>1, <1>3, <2>3 DEF Ordered
    <3> QED
      BY <1>1, <1>3, <2>1, <3>1
  <2> QED
    BY <2>2, <2>3
<1>13. Ordered(here, Occupied \ {here})
  <2> SUFFICES ASSUME NEW one \in Occupied \ {here}, NEW other \in Occupied \ {here},
                      Distance(here, one) < Distance(here, other)
               PROVE  lead[one] <= lead[other]
    BY DEF Ordered
  <2>1. /\ Distance(here, one) = Distance(last, one) - Distance(last, here)
        /\ Distance(here, other) = Distance(last, other) - Distance(last, here)
    BY <1>1, <1>3, <1>5, DistanceFromNext
  <2>2. /\ Distance(last, one) \in Nat /\ Distance(last, other) \in Nat
        /\ Distance(last, here) \in Nat
    <3>1. /\ Distance(last, one) \in Positions /\ Distance(last, other) \in Positions
          /\ Distance(last, here) \in Positions
      BY <1>1, <1>5, DistanceType
    <3> QED
      BY <3>1, ClustersExist DEF Positions
  <2>3. Distance(last, one) < Distance(last, other)
    BY <2>1, <2>2
  <2> QED
    BY <1>1, <2>3 DEF Ordered
<1>14. SavingInv'
  BY <1>3, <1>6, <1>7, <1>8, <1>9, <1>12, <1>13 DEF SavingInv, Ordered
<1> QED
  BY <1>10, <1>11, <1>14 DEF SelectionInv

(* The history after the picked cluster's pick. *)
LEMMA LeadAfterIs ==
  ASSUME NEW here \in Occupied, lead \in [Positions -> Nat],
         \A position \in Occupied : lead[position] \in {0, 1},
         lead[here] = 0
  PROVE  \/ /\ \A other \in Occupied \ {here} : lead[other] = 1
            /\ \A position \in Occupied : LeadAfter(here)[position] = 0
         \/ /\ \E other \in Occupied \ {here} : lead[other] = 0
            /\ LeadAfter(here)[here] = 1
            /\ \A other \in Occupied \ {here} : LeadAfter(here)[other] = lead[other]
<1> DEFINE picked == [lead EXCEPT ![here] = @ + 1]
           values == {picked[other] : other \in Occupied}
<1>1. Occupied \subseteq Positions
  BY DEF Occupied
<1>2. picked[here] = 1 /\ \A other \in Occupied \ {here} : picked[other] = lead[other]
  BY <1>1
<1>3. \A position \in Occupied :
        LeadAfter(here)[position] = picked[position] - Min(values)
  BY <1>1 DEF LeadAfter
<1>4. values \in SUBSET Nat
  BY <1>1, <1>2
<1>5. CASE \A other \in Occupied \ {here} : lead[other] = 1
  <2>1. \A position \in Occupied : picked[position] = 1
    BY <1>2, <1>5
  <2>2. 1 \in values /\ \A y \in values : 1 <= y
    BY <2>1
  <2> HIDE DEF values
  <2>3. Min(values) = 1
    BY <1>4, <2>2, MinIs
  <2> QED
    BY <1>3, <1>5, <2>1, <2>3
<1>6. CASE \E other \in Occupied \ {here} : lead[other] = 0
  <2>1. 0 \in values
    BY <1>2, <1>6
  <2>2. \A y \in values : 0 <= y
    BY <1>4
  <2> HIDE DEF values
  <2>3. Min(values) = 0
    BY <1>4, <2>1, <2>2, MinIs
  <2> HIDE DEF picked
  <2> QED
    BY <1>1, <1>2, <1>3, <1>6, <2>3
<1> QED
  BY <1>5, <1>6

LEMMA SaveKeeps ==
  ASSUME SelectionInv, SaveState
  PROVE  SelectionInv'
<1> DEFINE here == selector.index
<1>1. /\ selector \in Selector /\ selector.stage = "saving"
      /\ lead \in [Positions -> Nat] /\ selector.card \in Cards
      /\ here \in Occupied /\ clusterOf[selector.card] = here
      /\ lead[here] = 0
      /\ Ordered(here, Occupied \ {here})
      /\ \A position \in Occupied : lead[position] \in {0, 1}
  BY DEF SaveState, SelectionInv, SelectionTypeOK, SavingInv, LeadInv
<1>2. /\ rotation' = [file |-> "whole", last |-> here]
      /\ UNCHANGED <<clusterOf, selections, clock>>
      /\ lead' = LeadAfter(here)
  BY <1>1 DEF SaveState
<1>3. Occupied' = Occupied /\ Occupied \subseteq Positions
  BY <1>2 DEF Occupied, AtomsIn
<1>4. here \in 0 .. NumClusters
  BY <1>1 DEF Selector
<1>5. selector' \in Selector /\ selector'.stage = "selecting"
  <2>1. PICK duplicate \in BOOLEAN :
          selector' = [selector EXCEPT
             !.stage = "selecting",
             !.attempts = AttemptsAfter(@, duplicate),
             !.atoms = IF duplicate THEN @ ELSE Append(@, selector.card),
             !.card = NoCard,
             !.index = 0]
    BY DEF SaveState
  <2>2. selector.attempts + 1 \in Nat /\ selector.atoms \in Seq(Cards)
    BY <1>1 DEF Selector
  <2>3. Append(selector.atoms, selector.card) \in Seq(Cards)
    BY <1>1, <2>2
  <2>4. (IF duplicate THEN selector.atoms ELSE Append(selector.atoms, selector.card))
          \in Seq(Cards)
    BY <2>2, <2>3
  <2> DEFINE atoms == IF duplicate THEN selector.atoms
                                   ELSE Append(selector.atoms, selector.card)
  <2>5. selector' = [selector EXCEPT !.stage = "selecting", !.attempts = @ + 1,
                                     !.atoms = atoms, !.card = NoCard, !.index = 0]
    BY <2>1 DEF AttemptsAfter
  <2>6. atoms \in Seq(Cards)
    BY <2>4
  <2> HIDE DEF atoms
  <2>7. 0 \in 0 .. NumClusters /\ NoCard \in Cards \cup {NoCard}
    BY ClustersExist
  <2> QED
    BY <1>1, <2>2, <2>5, <2>6, <2>7 DEF Selector
<1> HIDE DEF here
<1>6. lead' \in [Positions -> Nat]
  <2>1. lead' = [other \in Positions |-> IF other \in Occupied THEN lead'[other] ELSE 0]
    BY <1>2 DEF LeadAfter
  <2>2. \A other \in Occupied : lead'[other] \in Nat
    BY <1>1, <1>2, LeadAfterIs
  <2> QED
    BY <2>1, <2>2
<1>7. SelectionTypeOK'
  BY <1>2, <1>4, <1>5, <1>6 DEF SelectionInv, SelectionTypeOK
<1>8. SavingInv'
  BY <1>5 DEF SavingInv
<1>9. ASSUME \A position \in Occupied : lead'[position] = 0
      PROVE  LeadInv'
  <2>1. /\ \A position \in Occupied' : lead'[position] \in {0, 1}
        /\ Occupied' # {} => \E position \in Occupied' : lead'[position] = 0
    BY <1>1, <1>3, <1>9
  <2>2. \A one, other \in Occupied' : lead'[one] <= lead'[other]
    BY <1>3, <1>9
  <2> QED
    BY <2>1, <2>2 DEF LeadInv, Ordered
<1>10. ASSUME \E other \in Occupied \ {here} : lead[other] = 0,
              lead'[here] = 1,
              \A other \in Occupied \ {here} : lead'[other] = lead[other]
       PROVE  LeadInv'
  <2>1. \A position \in Occupied : lead'[position] \in {0, 1}
    BY <1>1, <1>10
  <2>2. \E position \in Occupied : lead'[position] = 0
    BY <1>10
  <2>3. ASSUME NEW one \in Occupied, NEW other \in Occupied,
               Distance(here, one) < Distance(here, other)
        PROVE  lead'[one] <= lead'[other]
    <3>1. one # here
      <4>1. here \in Positions /\ other \in Positions
        BY <1>1, <1>3
      <4>2. Distance(here, here) = NumClusters /\ Distance(here, other) <= NumClusters
        BY <4>1, FarthestIsItself
      <4>3. Distance(here, other) \in Nat
        <5>1. Distance(here, other) \in Positions
          BY <1>4, <4>1, DistanceType
        <5> QED
          BY <5>1, ClustersExist DEF Positions
      <4> QED
        BY <2>3, <4>2, <4>3, ClustersExist
    <3>2. CASE other = here
      BY <3>2, <2>1, <1>10
    <3>3. CASE other # here
      BY <3>1, <3>3, <2>3, <1>1, <1>10 DEF Ordered
    <3> QED
      BY <3>2, <3>3
  <2>4. rotation'.last = here
    BY <1>2
  <2>5. /\ \A position \in Occupied' : lead'[position] \in {0, 1}
        /\ Occupied' # {} => \E position \in Occupied' : lead'[position] = 0
    BY <1>3, <2>1, <2>2
  <2>6. \A one, other \in Occupied' :
          Distance(rotation'.last, one) < Distance(rotation'.last, other)
            => lead'[one] <= lead'[other]
    BY <1>3, <2>3, <2>4
  <2> QED
    BY <2>5, <2>6 DEF LeadInv, Ordered
<1>11. LeadInv'
  <2>1. \/ \A position \in Occupied : lead'[position] = 0
        \/ /\ \E other \in Occupied \ {here} : lead[other] = 0
           /\ lead'[here] = 1
           /\ \A other \in Occupied \ {here} : lead'[other] = lead[other]
    BY <1>1, <1>2, LeadAfterIs
  <2> QED
    BY <1>9, <1>10, <2>1
<1> QED
  BY <1>7, <1>8, <1>11 DEF SelectionInv

(* Steps of other tools. *)
LEMMA OthersKeep ==
  ASSUME SelectionInv, UNCHANGED selectionVars, clock' \in Stamps
  PROVE  SelectionInv'
<1>1. UNCHANGED <<clusterOf, rotation, selector, selections, lead>>
  BY DEF selectionVars
<1>2. SelectionTypeOK'
  BY <1>1 DEF SelectionInv, SelectionTypeOK
<1>3. LeadInv' /\ SavingInv'
  BY <1>1 DEF SelectionInv, LeadInv, SavingInv, Ordered, Occupied, AtomsIn
<1> QED
  BY <1>2, <1>3 DEF SelectionInv

LEMMA SelectionStepKeeps ==
  ASSUME SelectionInv, SelectionStep
  PROVE  SelectionInv'
BY PickKeeps, SaveKeeps, EndKeeps, FinishKeeps DEF SelectionStep

LEMMA SelectionInvBalances == SelectionInv => RotationBalanced
BY DEF SelectionInv, LeadInv, RotationBalanced

==============================================================================
