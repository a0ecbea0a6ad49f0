------------------------- MODULE MCDealNegotiation -------------------------
(* DealNegotiation on small instances: model values, interchangeable users *)
(* and interchangeable request slots.  All terms have a description.       *)
EXTENDS DealNegotiation, TLC

MCDefaulted == [t \in Terms |-> t]
MCSymmetry == Permutations(Users) \cup Permutations(Requests)
=============================================================================
