------------------------------ MODULE FiniteOrder ------------------------------
(***************************************************************************)
(* What Python's sorted() and a list comprehension with a condition do, as *)
(* operators of sets and positions.                                        *)
(***************************************************************************)
EXTENDS Naturals, Sequences, FiniteSets

(* The elements of a finite set in the order of a relation, which is a     *)
(* total order of them: each where as many are as precede it.              *)
Preceding(S, order, x) == {y \in S : <<y, x>> \in order}

InOrder(S, order) ==
  [n \in 1 .. Cardinality(S) |->
     CHOOSE x \in S : Cardinality(Preceding(S, order, x)) = n - 1]

(* The order of numbers. *)
Ascending(numbers) == {pair \in numbers \X numbers : pair[1] < pair[2]}

(* What a sequence has at some positions, in its order. *)
Kept(sequence, positions) ==
  LET kept == InOrder(positions, Ascending(positions))
  IN [n \in DOMAIN kept |-> sequence[kept[n]]]

================================================================================
