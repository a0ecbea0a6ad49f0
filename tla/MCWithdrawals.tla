---------------------------- MODULE MCWithdrawals ----------------------------
(* Withdrawals on small instances: sellers of different means, and         *)
(* interchangeable request rows and slots.                                 *)
EXTENDS Withdrawals, TLC

CONSTANTS rich, poor

MCFunds == [s \in Sellers |-> IF s = rich THEN 3 ELSE 1]
MCSymmetry == Permutations(Withdrawals) \cup Permutations(SellerCalls)
                \cup Permutations(AdminCalls)

(***************************************************************************)
(* Bounds on the search: four entries are followed by one more at most,    *)
(* and nobody pages through the ledger while three or more calls are in    *)
(* flight.                                                                 *)
(***************************************************************************)
Focus ==
  /\ Cardinality(ledger) <= 4
  /\ reading # Unread =>
       Cardinality({c \in DOMAIN errand : errand[c] # Free}) <= 2
=============================================================================
