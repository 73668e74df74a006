--------------------------- MODULE MCHabrDelivery ---------------------------
(* Small instances of HabrDelivery.  The runs are interchangeable.         *)
EXTENDS HabrDelivery, TLC

Symmetric == Permutations(Runs)

==============================================================================
