--------------------------- MODULE MCEscrowMoney ---------------------------
(* EscrowMoney on small instances: two amounts, one of which a buyer can   *)
(* pay once and the other not with the first one gone.                     *)
EXTENDS EscrowMoney, TLC

CONSTANTS cheap, dear

MCAmount == [t \in Terms |-> IF t = cheap THEN 1 ELSE 2]
MCInitialBalance == [u \in Users |-> 2]
MCSymmetry == Permutations(Users) \cup Permutations(Requests)
=============================================================================
