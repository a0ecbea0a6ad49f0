--------------------------- MODULE EscrowContract ---------------------------
(***************************************************************************)
(* What the platform promises about each deal, with no request, status     *)
(* column or wallet in sight: two people agree, one of them pays a price,  *)
(* the platform keeps exactly that price, and it gives it away once.       *)
(* There is one way for the platform to lose money: somebody claims to     *)
(* have transferred the price, the claim is disputed before anybody has    *)
(* seen the money, and the dispute is settled by paying it out all the     *)
(* same.                                                                   *)
(***************************************************************************)
EXTENDS Integers

CONSTANTS
  Deals,
  Prices   \* the sums a deal may be about, in minor units

VARIABLES
  phase,   \* phase[d]
  stake    \* stake[d]: what the platform keeps for the deal, or its loss

Phases == {"open", "agreed", "escrowed", "claimed", "released", "refunded"}

Outcomes == {"released", "refunded"}

Init ==
  /\ phase = [d \in Deals |-> "open"]
  /\ stake = [d \in Deals |-> 0]

Agree(d) ==
  /\ phase[d] = "open"
  /\ phase' = [phase EXCEPT ![d] = "agreed"]
  /\ UNCHANGED stake

\* Somebody changes the terms.
Reopen(d) ==
  /\ phase[d] = "agreed"
  /\ phase' = [phase EXCEPT ![d] = "open"]
  /\ UNCHANGED stake

Fund(d, price) ==
  /\ phase[d] = "agreed"
  /\ phase' = [phase EXCEPT ![d] = "escrowed"]
  /\ stake' = [stake EXCEPT ![d] = price]

Settle(d, outcome) ==
  /\ phase[d] = "escrowed"
  /\ phase' = [phase EXCEPT ![d] = outcome]
  /\ stake' = [stake EXCEPT ![d] = 0]

\* The transfer somebody claims to have made is disputed.
Contest(d) ==
  /\ phase[d] = "agreed"
  /\ phase' = [phase EXCEPT ![d] = "claimed"]
  /\ UNCHANGED stake

\* The dispute is settled out of the platform's pocket.
Advance(d, outcome, price) ==
  /\ phase[d] = "claimed"
  /\ phase' = [phase EXCEPT ![d] = outcome]
  /\ stake' = [stake EXCEPT ![d] = -price]

Step(d) ==
  \/ Agree(d)
  \/ Reopen(d)
  \/ Contest(d)
  \/ \E price \in Prices : Fund(d, price)
  \/ \E outcome \in Outcomes : Settle(d, outcome)
  \/ \E outcome \in Outcomes, price \in Prices : Advance(d, outcome, price)

Next == \E d \in Deals : Step(d)

Spec == Init /\ [][Next]_<<phase, stake>>
=============================================================================
