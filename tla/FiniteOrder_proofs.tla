-------------------------- MODULE FiniteOrder_proofs --------------------------
(***************************************************************************)
(* Facts about least numbers and about FiniteOrder, for every finite set   *)
(* and every total order of it.  The library's induction theorems cannot   *)
(* be instantiated here, so these rest on counting: the elements of a      *)
(* finite set are preceded by different numbers of others, and there are   *)
(* no more numbers than elements.                                          *)
(***************************************************************************)
EXTENDS FiniteOrder, FiniteSetTheorems, WellFoundedInduction, TLAPS

(* By the well-founded order of finite sets: 1 .. t of the least t is      *)
(* strictly contained in that of every other.                              *)
LEMMA LeastExists ==
  ASSUME NEW T \in SUBSET Nat, T # {}
  PROVE  \E x \in T : \A y \in T : x <= y
<1> DEFINE Below == {1 .. t : t \in T}
<1>1. Below # {} /\ Below \subseteq FiniteSubsetsOf(Nat)
  <2>1. Below # {}
    OBVIOUS
  <2>2. ASSUME NEW t \in T
        PROVE  1 .. t \in FiniteSubsetsOf(Nat)
    <3>1. IsFiniteSet(1 .. t)
      <4>1. 1 \in Int /\ t \in Int
        OBVIOUS
      <4> QED
        BY <4>1, FS_Interval
    <3>2. 1 .. t \in SUBSET Nat
      OBVIOUS
    <3> QED
      BY <3>1, <3>2 DEF FiniteSubsetsOf
  <2> QED
    BY <2>1, <2>2
<1>2. PICK least \in Below : \A other \in Below :
        ~ (<<other, least>> \in StrictSubsetOrdering(Nat))
  <2> HIDE DEF Below
  <2> QED
    BY <1>1, FS_StrictSubsetOrderingWellFounded, WFMin
<1>3. PICK x \in T : least = 1 .. x
  OBVIOUS
<1>4. ASSUME NEW y \in T, y < x
      PROVE  FALSE
  <2>1. 1 .. y \subseteq 1 .. x /\ x \in 1 .. x /\ x \notin 1 .. y
    BY <1>4
  <2>2. <<1 .. y, 1 .. x>> \in StrictSubsetOrdering(Nat)
    BY <2>1 DEF StrictSubsetOrdering
  <2> QED
    BY <1>2, <1>3, <2>2
<1>5. \A y \in T : x <= y
  BY <1>4
<1> QED
  BY <1>5

(* Induction for a set of numbers. *)
LEMMA ReachesAll ==
  ASSUME NEW N \in Nat, NEW T, 0 \in T, \A n \in 1 .. N : n - 1 \in T => n \in T
  PROVE  0 .. N \subseteq T
<1> DEFINE left == {n \in 0 .. N : n \notin T}
<1>1. SUFFICES ASSUME left # {} PROVE FALSE
  OBVIOUS
<1>2. PICK n \in left : \A other \in left : n <= other
  <2>1. left \in SUBSET Nat
    OBVIOUS
  <2> QED
    BY <1>1, <2>1, LeastExists
<1>3. n \in 1 .. N
  OBVIOUS
<1>4. n - 1 \in T
  BY <1>2, <1>3
<1> QED
  BY <1>3, <1>4

-----------------------------------------------------------------------------
IsTotalOrder(S, order) ==
  /\ \A x \in S : <<x, x>> \notin order
  /\ \A x, y, z \in S : <<x, y>> \in order /\ <<y, z>> \in order => <<x, z>> \in order
  /\ \A x, y \in S : x # y => <<x, y>> \in order \/ <<y, x>> \in order

(* How many elements precede one, and that fewer precede an earlier one. *)
LEMMA PrecedingCounted ==
  ASSUME NEW S, IsFiniteSet(S), NEW order, IsTotalOrder(S, order), NEW x \in S
  PROVE  /\ IsFiniteSet(Preceding(S, order, x))
         /\ Cardinality(Preceding(S, order, x)) \in 0 .. Cardinality(S) - 1
<1>1. Preceding(S, order, x) \in SUBSET (S \ {x})
  BY DEF Preceding, IsTotalOrder
<1>2. /\ IsFiniteSet(S \ {x}) /\ Cardinality(S \ {x}) = Cardinality(S) - 1
      /\ Cardinality(S) \in Nat
  BY FS_RemoveElement, FS_CardinalityType
<1>3. /\ IsFiniteSet(Preceding(S, order, x))
      /\ Cardinality(Preceding(S, order, x)) <= Cardinality(S) - 1
  BY <1>1, <1>2, FS_Subset
<1>4. Cardinality(Preceding(S, order, x)) \in Nat
  BY <1>3, FS_CardinalityType
<1> QED
  BY <1>2, <1>3, <1>4

LEMMA PrecedingGrows ==
  ASSUME NEW S, IsFiniteSet(S), NEW order, IsTotalOrder(S, order),
         NEW x \in S, NEW y \in S, <<x, y>> \in order
  PROVE  Cardinality(Preceding(S, order, x)) < Cardinality(Preceding(S, order, y))
<1>1. Preceding(S, order, x) \in SUBSET Preceding(S, order, y)
  BY DEF Preceding, IsTotalOrder
<1>2. x \in Preceding(S, order, y) /\ x \notin Preceding(S, order, x)
  BY DEF Preceding, IsTotalOrder
<1>3. /\ IsFiniteSet(Preceding(S, order, y))
      /\ Cardinality(Preceding(S, order, x)) \in Nat
      /\ Cardinality(Preceding(S, order, y)) \in Nat
  <2>1. Cardinality(S) \in Nat
    BY FS_CardinalityType
  <2> QED
    BY <2>1, PrecedingCounted
<1>4. /\ Cardinality(Preceding(S, order, x)) <= Cardinality(Preceding(S, order, y))
      /\ Cardinality(Preceding(S, order, x)) # Cardinality(Preceding(S, order, y))
  BY <1>1, <1>2, <1>3, FS_Subset
<1> QED
  BY <1>3, <1>4

(* Every place of the order is some element's. *)
LEMMA PlaceTaken ==
  ASSUME NEW S, IsFiniteSet(S), NEW order, IsTotalOrder(S, order),
         NEW n \in 1 .. Cardinality(S)
  PROVE  \E x \in S : Cardinality(Preceding(S, order, x)) = n - 1
<1> DEFINE places == 0 .. Cardinality(S) - 1
           place == [x \in S |-> Cardinality(Preceding(S, order, x))]
<1>1. Cardinality(S) \in Nat
  BY FS_CardinalityType
<1>2. place \in [S -> places]
  BY PrecedingCounted
<1>3. ASSUME NEW x \in S, NEW y \in S, place[x] = place[y] PROVE x = y
  <2>1. SUFFICES ASSUME x # y PROVE FALSE
    OBVIOUS
  <2>2. /\ Cardinality(Preceding(S, order, x)) \in Nat
        /\ Cardinality(Preceding(S, order, y)) \in Nat
    BY <1>1, PrecedingCounted
  <2>3. CASE <<x, y>> \in order
    BY <1>3, <2>2, <2>3, PrecedingGrows
  <2>4. CASE <<y, x>> \in order
    BY <1>3, <2>2, <2>4, PrecedingGrows
  <2> QED
    BY <2>1, <2>3, <2>4 DEF IsTotalOrder
<1>4. place \in Injection(S, places)
  <2> HIDE DEF place, places
  <2>1. DOMAIN place = S
    BY <1>2
  <2> QED
    BY <1>2, <1>3, <2>1 DEF Injection, IsInjective
<1>5. IsFiniteSet(places) /\ Cardinality(places) = Cardinality(S)
  <2>1. 0 \in Int /\ Cardinality(S) - 1 \in Int
    BY <1>1
  <2>2. Cardinality(places) = IF 0 > Cardinality(S) - 1 THEN 0
                              ELSE (Cardinality(S) - 1) - 0 + 1
    BY <2>1, FS_Interval
  <2> QED
    BY <1>1, <2>1, <2>2, FS_Interval
<1>6. place \in Surjection(S, places)
  <2> HIDE DEF place, places
  <2> QED
    BY <1>4, <1>5, FS_Injection
<1>7. n - 1 \in places
  BY <1>1
<1>8. PICK x \in S : place[x] = n - 1
  <2> HIDE DEF place, places
  <2> QED
    BY <1>6, <1>7 DEF Surjection
<1> QED
  BY <1>8

(* InOrder is a sequence of all the elements, each once, in the order. *)
LEMMA InOrderSorts ==
  ASSUME NEW S, IsFiniteSet(S), NEW order, IsTotalOrder(S, order)
  PROVE  /\ InOrder(S, order) \in Seq(S)
         /\ Len(InOrder(S, order)) = Cardinality(S)
         /\ \A x \in S : \E n \in 1 .. Cardinality(S) : InOrder(S, order)[n] = x
         /\ \A m, n \in 1 .. Cardinality(S) :
              m < n => <<InOrder(S, order)[m], InOrder(S, order)[n]>> \in order
         /\ \A m, n \in 1 .. Cardinality(S) :
              InOrder(S, order)[m] = InOrder(S, order)[n] => m = n
<1> DEFINE sorted == InOrder(S, order)
           place(x) == Cardinality(Preceding(S, order, x))
<1>1. Cardinality(S) \in Nat
  BY FS_CardinalityType
<1>2. ASSUME NEW n \in 1 .. Cardinality(S)
      PROVE  sorted[n] \in S /\ place(sorted[n]) = n - 1
  <2>1. sorted[n] = CHOOSE x \in S : Cardinality(Preceding(S, order, x)) = n - 1
    BY DEF InOrder
  <2> QED
    BY <2>1, PlaceTaken
<1>3. sorted = [n \in 1 .. Cardinality(S) |-> sorted[n]]
  BY DEF InOrder
<1> HIDE DEF sorted
<1>4. sorted \in Seq(S) /\ Len(sorted) = Cardinality(S)
  BY <1>1, <1>2, <1>3
<1>5. \A x \in S : place(x) \in Nat /\ place(x) < Cardinality(S)
  BY <1>1, PrecedingCounted
<1>6. ASSUME NEW x \in S, NEW y \in S, <<x, y>> \in order PROVE place(x) < place(y)
  BY <1>6, PrecedingGrows
<1>t. \A x, y \in S : x # y => <<x, y>> \in order \/ <<y, x>> \in order
  BY DEF IsTotalOrder
<1> HIDE DEF place
<1>7. ASSUME NEW x \in S PROVE \E n \in 1 .. Cardinality(S) : sorted[n] = x
  <2> DEFINE n == place(x) + 1
  <2>1. n \in 1 .. Cardinality(S) /\ place(x) = n - 1
    BY <1>1, <1>5
  <2>2. sorted[n] \in S /\ place(sorted[n]) = place(x)
    BY <1>2, <2>1
  <2>3. sorted[n] = x
    <3> DEFINE y == sorted[n]
    <3> HIDE DEF y
    <3>1. y \in S /\ place(y) = place(x) /\ place(x) \in Nat
      BY <1>5, <2>2 DEF y
    <3>2. ~(place(x) < place(y)) /\ ~(place(y) < place(x))
      BY <3>1
    <3>3. y = x
      BY <1>6, <1>t, <3>1, <3>2
    <3> QED
      BY <3>3 DEF y
  <2> QED
    BY <2>1, <2>3
<1>8. ASSUME NEW m \in 1 .. Cardinality(S), NEW n \in 1 .. Cardinality(S), m < n
      PROVE  <<sorted[m], sorted[n]>> \in order
  <2>1. /\ sorted[m] \in S /\ place(sorted[m]) = m - 1
        /\ sorted[n] \in S /\ place(sorted[n]) = n - 1
    BY <1>2
  <2>2. place(sorted[m]) < place(sorted[n])
    BY <1>8, <2>1
  <2>3. ~(place(sorted[n]) < place(sorted[m])) /\ sorted[m] # sorted[n]
    BY <1>8, <2>1
  <2> QED
    BY <1>6, <1>t, <2>1, <2>3
<1>9. ASSUME NEW m \in 1 .. Cardinality(S), NEW n \in 1 .. Cardinality(S),
             sorted[m] = sorted[n]
      PROVE  m = n
  <2>1. m - 1 = n - 1
    BY <1>2, <1>9
  <2> QED
    BY <2>1
<1> QED
  BY <1>4, <1>7, <1>8, <1>9 DEF sorted

(* Positions of a sequence are finitely many and totally ordered. *)
LEMMA AscendingIsTotal ==
  ASSUME NEW S \in SUBSET Nat
  PROVE  IsTotalOrder(S, Ascending(S))
BY DEF IsTotalOrder, Ascending

LEMMA PositionsFinite ==
  ASSUME NEW T, NEW sequence \in Seq(T)
  PROVE  /\ DOMAIN sequence \in SUBSET Nat
         /\ IsFiniteSet(DOMAIN sequence)
         /\ Cardinality(DOMAIN sequence) = Len(sequence)
<1>1. DOMAIN sequence = 1 .. Len(sequence) /\ Len(sequence) \in Nat
  OBVIOUS
<1> QED
  BY <1>1, FS_Interval

(* Kept gives a sequence of what is at the positions, and of all of it. *)
LEMMA KeptSelects ==
  ASSUME NEW T, NEW sequence \in Seq(T), NEW positions \in SUBSET DOMAIN sequence
  PROVE  /\ Kept(sequence, positions) \in Seq(T)
         /\ \A n \in DOMAIN Kept(sequence, positions) :
              \E i \in positions : Kept(sequence, positions)[n] = sequence[i]
         /\ \A i \in positions :
              \E n \in DOMAIN Kept(sequence, positions) :
                Kept(sequence, positions)[n] = sequence[i]
<1> DEFINE kept == InOrder(positions, Ascending(positions))
           result == [n \in DOMAIN kept |-> sequence[kept[n]]]
<1>1. positions \in SUBSET Nat /\ IsFiniteSet(positions)
  BY PositionsFinite, FS_Subset
<1>2. IsTotalOrder(positions, Ascending(positions))
  BY <1>1, AscendingIsTotal
<1>3. /\ kept \in Seq(positions) /\ Len(kept) = Cardinality(positions)
      /\ \A i \in positions : \E n \in 1 .. Cardinality(positions) : kept[n] = i
  BY <1>1, <1>2, InOrderSorts
<1> HIDE DEF kept
<1>4. DOMAIN kept = 1 .. Cardinality(positions) /\ Cardinality(positions) \in Nat
  BY <1>3
<1>5. \A n \in DOMAIN kept : kept[n] \in positions /\ sequence[kept[n]] \in T
  BY <1>3
<1>6. result \in Seq(T) /\ DOMAIN result = DOMAIN kept
  BY <1>4, <1>5
<1>7. result = Kept(sequence, positions)
  BY DEF Kept, kept
<1>8. \A n \in DOMAIN kept : result[n] = sequence[kept[n]]
  OBVIOUS
<1> HIDE DEF result
<1>9. \A n \in DOMAIN result : \E i \in positions : result[n] = sequence[i]
  BY <1>5, <1>6, <1>8
<1>10. \A i \in positions : \E n \in DOMAIN result : result[n] = sequence[i]
  BY <1>3, <1>4, <1>6, <1>8
<1> QED
  BY <1>6, <1>7, <1>9, <1>10

================================================================================
