------------------------------ MODULE DealRoom ------------------------------
(***************************************************************************)
(* The whole life of a deal: negotiation, sections, payment code and money *)
(* on the same deal rows and the same request slots.  The parts share      *)
(* status, terms, party and the calls in flight; each leaves the others'   *)
(* variables alone.  What their calls may do to each other is the subject  *)
(* of this module.                                                         *)
(***************************************************************************)
EXTENDS DealSections, KhqrPayment, EscrowMoney

\* An absent description does not change the amount.
ASSUME AmountAssumption == \A t \in Terms : Amount[Defaulted[t]] = Amount[t]

dealRoomVars == <<status, terms, party, call, negotiation, escrow, sections, qr>>

DealRoomInit == NegotiationInit /\ MoneyInit /\ SectionsInit /\ QrInit

\* Every handler of the deal, each leaving the other components' columns alone.
RoomWork ==
  \/ NegotiationStep /\ UNCHANGED <<escrow, sections, qr>>
  \/ EscrowStep /\ UNCHANGED <<negotiation, sections, qr>>
  \/ SectionStep /\ UNCHANGED <<negotiation, escrow, qr>>
  \/ KhqrStep /\ UNCHANGED <<negotiation, escrow, sections>>

AbortRoom(r) == Abort(r) /\ UNCHANGED <<negotiation, escrow, sections, qr>>

DealRoomNext == RoomWork \/ \E r \in Requests : AbortRoom(r)

DealRoomSpec == DealRoomInit /\ [][DealRoomNext]_dealRoomVars

\* The automatic release that follows a confirmation.
Releasing(r) == call[r].op \in {"settle", "autoRelease"}

(***************************************************************************)
(* Accepted requests of the money half go on or fail, and the automatic    *)
(* release does not fail.                                                  *)
(***************************************************************************)
SoundReleaseSpec ==
  /\ DealRoomInit
  /\ [][RoomWork \/ \E r \in Requests : ~Releasing(r) /\ AbortRoom(r)]_dealRoomVars
  /\ \A r \in Requests :
       WF_dealRoomVars(EscrowProgress(r) /\ UNCHANGED <<negotiation, sections, qr>>)

-----------------------------------------------------------------------------
(* What holds however calls overlap *)

\* Buyer and seller have each recorded an approval of the same complete terms.
BothConsented(d) ==
  \E t \in CompleteTerms : \A role \in Roles : Recorded(d, role, t)

(***************************************************************************)
(* "So that we both consent before money moves" (requirement 8): money is  *)
(* held or owed for a deal, or a transfer reported, only if both sides     *)
(* have recorded an approval of the same complete terms, whatever calls    *)
(* of whatever age overwrite the status.                                   *)
(***************************************************************************)
ConsentBeforeMoney ==
  \A d \in Deals :
    \/ status[d] \notin BeforeAgreement
    \/ held[d] # 0
    \/ receipts[d] > 0
    => BothConsented(d)

-----------------------------------------------------------------------------
(* The contract that a deal implements *)

PhaseOf(d) ==
  CASE status[d] \in BeforeAgreement -> "open"
    [] status[d] \in {"READY_FOR_PAYMENT", "PAYMENT_PENDING_VERIFICATION"} -> "agreed"
    [] status[d] = "DISPUTED" /\ held[d] = 0 -> "claimed"
    [] status[d] = "RELEASED" -> "released"
    [] status[d] = "REFUNDED" -> "refunded"
    [] OTHER -> "escrowed"

Contract ==
  INSTANCE EscrowContract WITH
    Prices <- {Amount[t] : t \in Terms},
    phase  <- [d \in Deals |-> PhaseOf(d)],
    stake  <- held

(***************************************************************************)
(* A deal room keeps the escrow contract when its calls do not overlap: it *)
(* holds the price from payment to settlement and gives it away once, and  *)
(* loses money only on a transfer that was disputed before it was verified.*)
(***************************************************************************)
KeepsContract == Contract!Spec
=============================================================================
