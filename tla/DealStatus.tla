----------------------------- MODULE DealStatus -----------------------------
(***************************************************************************)
(* The status of a deal room and the table of legal status changes that    *)
(* DealService.transition consults before every update of the status       *)
(* column.  Everything here is a constant: the components that move a      *)
(* deal (negotiation, payment, delivery, dispute) extend this module.      *)
(***************************************************************************)

\* What each status may change into.
DealStatusTransitions ==
  [ DRAFT                        |-> {"AWAITING_COUNTERPARTY"},
    AWAITING_COUNTERPARTY        |-> {"AWAITING_BOTH_APPROVAL", "EXPIRED",
                                      "CANCELLED"},
    AWAITING_BOTH_APPROVAL       |-> {"READY_FOR_PAYMENT", "CANCELLED"},
    READY_FOR_PAYMENT            |-> {"PAID_ESCROWED",
                                      "PAYMENT_PENDING_VERIFICATION",
                                      "AWAITING_BOTH_APPROVAL"},
    PAYMENT_PENDING_VERIFICATION |-> {"PAID_ESCROWED", "READY_FOR_PAYMENT",
                                      "DISPUTED"},
    PAID_ESCROWED                |-> {"SELLER_PREPARING", "REFUNDED",
                                      "DISPUTED"},
    SELLER_PREPARING             |-> {"SHIPPED", "DISPUTED"},
    SHIPPED                      |-> {"RELEASE_PENDING", "DISPUTED"},
    BUYER_CONFIRMED              |-> {"RELEASE_PENDING"},
    RELEASE_PENDING              |-> {"RELEASED"},
    DISPUTED                     |-> {"RELEASED", "REFUNDED"},
    RELEASED                     |-> {},
    REFUNDED                     |-> {},
    CANCELLED                    |-> {},
    EXPIRED                      |-> {} ]

DealStatuses == DOMAIN DealStatusTransitions

TerminalDealStatuses == {"RELEASED", "REFUNDED", "CANCELLED", "EXPIRED"}

CanTransition(from, to) == to \in DealStatusTransitions[from]

\* The section patches are accepted in these statuses only.
EditableStatuses ==
  {"DRAFT", "AWAITING_COUNTERPARTY", "AWAITING_BOTH_APPROVAL",
   "READY_FOR_PAYMENT"}

\* A dispute may be opened in these statuses only.
DisputableStatuses ==
  {"PAYMENT_PENDING_VERIFICATION", "PAID_ESCROWED", "SELLER_PREPARING",
   "SHIPPED"}

\* The sides of a deal.
Roles == {"buyer", "seller"}

OppositeRole(role) == IF role = "buyer" THEN "seller" ELSE "buyer"
=============================================================================
