----------------------------- MODULE MCDealRoom -----------------------------
(* DealRoom on small instances: terms that state two different amounts,    *)
(* all of them with a description.                                         *)
EXTENDS DealRoom

CONSTANTS cheap, dear

MCAmount == [t \in Terms |-> IF t = cheap THEN 1 ELSE 2]
MCDefaulted == [t \in Terms |-> t]
MCInitialBalance == [u \in Users |-> 2]
=============================================================================
