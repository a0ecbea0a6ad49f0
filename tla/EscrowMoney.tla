---------------------------- MODULE EscrowMoney ----------------------------
(***************************************************************************)
(* The money of a deal, from the moment it is payable until it has been    *)
(* paid out: payment from the buyer's wallet, payment by bank transfer     *)
(* with a receipt that an administrator verifies or rejects, shipping, the *)
(* buyer's confirmation with the automatic release behind it, disputes and *)
(* the two ways an administrator settles them.                             *)
(*                                                                         *)
(* The wallet ledger is append-only and a balance is always computed from  *)
(* it, so a wallet is represented by the sum of its entries.  There is one *)
(* currency and the platform's escrow wallet exists (the seed creates it). *)
(***************************************************************************)
EXTENDS DealRows, Functions

CONSTANTS
  Escrow,          \* the platform's escrow wallet
  Amount,          \* Amount[t]: the deal amount that terms t state
  InitialBalance,  \* InitialBalance[u]: what a user's wallet holds at first
  MaxReceipts      \* bound: payment receipts submitted for one deal

ASSUME EscrowAssumption ==
  /\ Escrow \notin Users \cup {Nobody}
  /\ Amount \in [Terms -> Nat \ {0}]
  /\ InitialBalance \in [Users -> Nat]
  /\ MaxReceipts \in Nat

\* The ledger's totals are sums over the rows of tables.
ASSUME FiniteRows == IsFiniteSet(Users) /\ IsFiniteSet(Deals)

VARIABLES
  balance,    \* balance[w]: credits minus debits of wallet w
  held,       \* held[d]: credits minus debits of the escrow wallet for deal d
  transferred, \* credits for bank transfers, which debit no wallet
  paidOut,    \* paidOut[d][way]: payouts of the deal by that way
  receipts,   \* receipts[d]: payment_proof rows
  confirmed,  \* confirmed[d]: the unique confirmation row exists
  openDispute \* openDispute[d]: a dispute row with status open exists

escrow == <<balance, held, transferred, paidOut, receipts, confirmed,
            openDispute>>

escrowVars == <<status, terms, party, call, escrow>>

Wallets == Users \cup {Escrow}

\* The automatic release and the two decisions of an administrator.
Ways == {"auto", "release", "refund"}

NoPayouts == [way \in Ways |-> 0]

MoneyInit ==
  /\ balance = [w \in Wallets |-> IF w = Escrow THEN 0 ELSE InitialBalance[w]]
  /\ held = [d \in Deals |-> 0]
  /\ transferred = 0
  /\ paidOut = [d \in Deals |-> NoPayouts]
  /\ receipts = [d \in Deals |-> 0]
  /\ confirmed = [d \in Deals |-> FALSE]
  /\ openDispute = [d \in Deals |-> FALSE]

\* On its own this component starts with agreed deals.
EscrowInit ==
  /\ status = [d \in Deals |-> "READY_FOR_PAYMENT"]
  /\ terms \in [Deals -> Terms]
  /\ party \in [Deals -> [Roles -> Users]]
  /\ \A d \in Deals : party[d]["buyer"] # party[d]["seller"]
  /\ call = [r \in Requests |-> Idle]
  /\ MoneyInit

\* A call that keeps the deal row it read; who calls is not told apart later.
OpenOnDeal(r, op, d) ==
  /\ Open(r, op, d, Nobody, [seen |-> status[d], terms |-> terms[d]])
  /\ UNCHANGED <<status, terms, party, escrow>>

-----------------------------------------------------------------------------
(* Payment *)

\* payFromWallet loads the deal outside any transaction.
PayRead(r, d) == status[d] = "READY_FOR_PAYMENT" /\ OpenOnDeal(r, "pay", d)

\* Fault: the balance is one that was computed long before.
CoveredOnce(u, amount) == InitialBalance[u] >= amount

\* computeBalance under the lock, against the deal amount.
Covered(u, amount) == balance[u] >= amount

(***************************************************************************)
(* payDealFromWallet: both wallets are locked before the balance is summed *)
(* up, so balance check and ledger entries are one step; status and amount *)
(* are those of the deal object loaded earlier.                            *)
(***************************************************************************)
PayWrite(r) ==
  LET q == call[r]
      d == q.deal
      buyer == party[d]["buyer"]
      amount == Amount[q.kept.terms]
  IN  /\ q.op = "pay"
      /\ Covered(buyer, amount)
      /\ balance' = [balance EXCEPT ![buyer] = @ - amount,
                                    ![Escrow] = @ + amount]
      /\ held' = [held EXCEPT ![d] = @ + amount]
      /\ CanTransition(q.kept.seen, "PAID_ESCROWED")
      /\ Transition(d, "PAID_ESCROWED", "SELLER_PREPARING")
      /\ Close(r)
      /\ UNCHANGED <<terms, party, transferred, paidOut, receipts, confirmed,
                     openDispute>>

\* The buyer's wallet does not cover the amount: nothing is written.
PayRefused(r) ==
  LET q == call[r]
  IN  /\ q.op = "pay"
      /\ ~Covered(party[q.deal]["buyer"], Amount[q.kept.terms])
      /\ Close(r)
      /\ UNCHANGED <<status, terms, party, escrow>>

SubmitReceiptRead(r, d) ==
  /\ status[d] = "READY_FOR_PAYMENT"
  /\ receipts[d] < MaxReceipts
  /\ OpenOnDeal(r, "submitReceipt", d)

SubmitReceiptWrite(r) ==
  LET q == call[r]
      d == q.deal
  IN  /\ q.op = "submitReceipt"
      /\ receipts' = [receipts EXCEPT ![d] = @ + 1]
      /\ Transition(d, q.kept.seen, "PAYMENT_PENDING_VERIFICATION")
      /\ Close(r)
      /\ UNCHANGED <<terms, party, balance, held, transferred, paidOut,
                     confirmed, openDispute>>

\* The proof row has no state of its own: any receipt of the deal will do.
VerifyProofRead(r, d) ==
  /\ status[d] = "PAYMENT_PENDING_VERIFICATION"
  /\ receipts[d] > 0
  /\ OpenOnDeal(r, "verifyProof", d)

\* Fault: the entry is written in the wrong direction.
DebitTransfer(d, amount) ==
  /\ balance' = [balance EXCEPT ![Escrow] = @ - amount]
  /\ held' = [held EXCEPT ![d] = @ - amount]
  /\ transferred' = transferred - amount

\* Fault: what the receipt claims is credited, not the deal amount.
CreditClaimed(d, amount) ==
  /\ balance' = [balance EXCEPT ![Escrow] = @ + 1]
  /\ held' = [held EXCEPT ![d] = @ + 1]
  /\ transferred' = transferred + 1

\* The ledger entry for money that reached the bank account.
CreditTransfer(d, amount) ==
  /\ balance' = [balance EXCEPT ![Escrow] = @ + amount]
  /\ held' = [held EXCEPT ![d] = @ + amount]
  /\ transferred' = transferred + amount

VerifyProofWrite(r) ==
  LET q == call[r]
      d == q.deal
  IN  /\ q.op = "verifyProof"
      /\ CreditTransfer(d, Amount[q.kept.terms])
      /\ CanTransition(q.kept.seen, "PAID_ESCROWED")
      /\ Transition(d, "PAID_ESCROWED", "SELLER_PREPARING")
      /\ Close(r)
      /\ UNCHANGED <<terms, party, paidOut, receipts, confirmed, openDispute>>

RejectProofRead(r, d) ==
  /\ status[d] = "PAYMENT_PENDING_VERIFICATION"
  /\ receipts[d] > 0
  /\ OpenOnDeal(r, "rejectProof", d)

RejectProofWrite(r) ==
  LET q == call[r]
  IN  /\ q.op = "rejectProof"
      /\ Transition(q.deal, q.kept.seen, "READY_FOR_PAYMENT")
      /\ Close(r)
      /\ UNCHANGED <<terms, party, escrow>>

-----------------------------------------------------------------------------
(* Delivery and the automatic release *)

ShipRead(r, d) == status[d] = "SELLER_PREPARING" /\ OpenOnDeal(r, "ship", d)

ShipWrite(r) ==
  LET q == call[r]
  IN  /\ q.op = "ship"
      /\ Transition(q.deal, q.kept.seen, "SHIPPED")
      /\ Close(r)
      /\ UNCHANGED <<terms, party, escrow>>

\* A second confirmation returns at once and changes nothing.
ConfirmRead(r, d) ==
  /\ ~confirmed[d]
  /\ status[d] = "SHIPPED"
  /\ OpenOnDeal(r, "confirm", d)

\* Fault: the confirmation row is not unique.
InsertAnyConfirmation(d) == confirmed' = [confirmed EXCEPT ![d] = TRUE]

\* deal_id is unique among the confirmation rows.
InsertConfirmation(d) ==
  /\ ~confirmed[d]
  /\ confirmed' = [confirmed EXCEPT ![d] = TRUE]

\* The confirmation commits; the handler goes on outside the transaction.
ConfirmWrite(r) ==
  LET q == call[r]
      d == q.deal
  IN  /\ q.op = "confirm"
      /\ InsertConfirmation(d)
      /\ Transition(d, q.kept.seen, "RELEASE_PENDING")
      /\ Become(r, "settle", q.kept)
      /\ UNCHANGED <<terms, party, balance, held, transferred, paidOut,
                     receipts, openDispute>>

\* Fault: the handler waits for a status that confirmation never sets.
SettleNothing(r) ==
  /\ call[r].op = "settle"
  /\ Close(r)
  /\ UNCHANGED <<status, terms, party, escrow>>

\* It loads the deal again and releases only what is still RELEASE_PENDING.
SettleRead(r) ==
  LET q == call[r]
      d == q.deal
  IN  /\ q.op = "settle"
      /\ \/ /\ status[d] = "RELEASE_PENDING"
            /\ Become(r, "autoRelease",
                      [seen |-> status[d], terms |-> terms[d]])
         \/ /\ status[d] # "RELEASE_PENDING"
            /\ Close(r)
      /\ UNCHANGED <<status, terms, party, escrow>>

\* Fault: the receiving wallet gets no entry.
PayNobody(d, w, amount, way) ==
  /\ balance' = [balance EXCEPT ![Escrow] = @ - amount]
  /\ held' = [held EXCEPT ![d] = @ - amount]
  /\ paidOut' = [paidOut EXCEPT ![d][way] = @ + 1]

\* Fault: the entries are written twice.
PayOutTwice(d, w, amount, way) ==
  /\ balance' = [balance EXCEPT ![Escrow] = @ - 2 * amount,
                                ![w] = @ + 2 * amount]
  /\ held' = [held EXCEPT ![d] = @ - 2 * amount]
  /\ paidOut' = [paidOut EXCEPT ![d][way] = @ + 2]

\* Money leaves escrow for w; no check that escrow holds it.
PayOut(d, w, amount, way) ==
  /\ balance' = [balance EXCEPT ![Escrow] = @ - amount, ![w] = @ + amount]
  /\ held' = [held EXCEPT ![d] = @ - amount]
  /\ paidOut' = [paidOut EXCEPT ![d][way] = @ + 1]

(***************************************************************************)
(* autoReleaseToSeller in a transaction of its own.  When it fails the     *)
(* exception is swallowed: that is Abort, and nothing tries again.         *)
(***************************************************************************)
AutoReleaseWrite(r) ==
  LET q == call[r]
      d == q.deal
  IN  /\ q.op = "autoRelease"
      /\ PayOut(d, party[d]["seller"], Amount[q.kept.terms], "auto")
      /\ Transition(d, q.kept.seen, "RELEASED")
      /\ Close(r)
      /\ UNCHANGED <<terms, party, transferred, receipts, confirmed,
                     openDispute>>

-----------------------------------------------------------------------------
(* Disputes *)

OpenDisputeRead(r, d) ==
  /\ status[d] \in DisputableStatuses
  /\ ~openDispute[d]
  /\ OpenOnDeal(r, "openDispute", d)

\* The partial unique index admits one open dispute for a deal.
OpenDisputeWrite(r) ==
  LET q == call[r]
      d == q.deal
  IN  /\ q.op = "openDispute"
      /\ ~openDispute[d]
      /\ openDispute' = [openDispute EXCEPT ![d] = TRUE]
      /\ Transition(d, q.kept.seen, "DISPUTED")
      /\ Close(r)
      /\ UNCHANGED <<terms, party, balance, held, transferred, paidOut,
                     receipts, confirmed>>

AdminReleaseRead(r, d) ==
  status[d] = "DISPUTED" /\ OpenOnDeal(r, "adminRelease", d)

AdminRefundRead(r, d) ==
  status[d] \in {"DISPUTED", "PAID_ESCROWED"} /\ OpenOnDeal(r, "adminRefund", d)

\* Fault: the dispute rows are left open.
LeaveDisputes(d) == UNCHANGED openDispute

ResolveDisputes(d) == openDispute' = [openDispute EXCEPT ![d] = FALSE]

\* Both decisions: pay one side, end the deal, resolve what disputes are open.
Decide(r, side, way, final) ==
  LET q == call[r]
      d == q.deal
  IN  /\ PayOut(d, party[d][side], Amount[q.kept.terms], way)
      /\ Transition(d, q.kept.seen, final)
      /\ ResolveDisputes(d)
      /\ Close(r)
      /\ UNCHANGED <<terms, party, transferred, receipts, confirmed>>

AdminReleaseWrite(r) ==
  call[r].op = "adminRelease" /\ Decide(r, "seller", "release", "RELEASED")

AdminRefundWrite(r) ==
  call[r].op = "adminRefund" /\ Decide(r, "buyer", "refund", "REFUNDED")

-----------------------------------------------------------------------------
(* The whole component *)

AbortEscrow(r) == Abort(r) /\ UNCHANGED escrow

PaymentRequest(r, d) ==
  \/ PayRead(r, d)
  \/ SubmitReceiptRead(r, d)
  \/ VerifyProofRead(r, d)
  \/ RejectProofRead(r, d)

DeliveryRequest(r, d) == ShipRead(r, d) \/ ConfirmRead(r, d)

DisputeRequest(r, d) ==
  \/ OpenDisputeRead(r, d)
  \/ AdminReleaseRead(r, d)
  \/ AdminRefundRead(r, d)

\* A request arrives.
EscrowRequest(r, d) ==
  PaymentRequest(r, d) \/ DeliveryRequest(r, d) \/ DisputeRequest(r, d)

\* A request in flight goes on.
EscrowProgress(r) ==
  \/ PayWrite(r)
  \/ PayRefused(r)
  \/ SubmitReceiptWrite(r)
  \/ VerifyProofWrite(r)
  \/ RejectProofWrite(r)
  \/ ShipWrite(r)
  \/ ConfirmWrite(r)
  \/ SettleRead(r)
  \/ AutoReleaseWrite(r)
  \/ OpenDisputeWrite(r)
  \/ AdminReleaseWrite(r)
  \/ AdminRefundWrite(r)

EscrowStep ==
  \E r \in Requests : EscrowProgress(r) \/ \E d \in Deals : EscrowRequest(r, d)

EscrowNext == EscrowStep \/ \E r \in Requests : AbortEscrow(r)

EscrowSpec == EscrowInit /\ [][EscrowNext]_escrowVars

(***************************************************************************)
(* A request that the server has accepted does not stand still: it goes on *)
(* or it ends in an error.  Nothing is assumed about new requests.         *)
(***************************************************************************)
EscrowFairness ==
  \A r \in Requests : WF_escrowVars(EscrowProgress(r) \/ AbortEscrow(r))

EscrowFairSpec == EscrowSpec /\ EscrowFairness

-----------------------------------------------------------------------------
(* Types *)

EscrowCalls ==
  [op : {"pay", "submitReceipt", "verifyProof", "rejectProof", "ship",
         "confirm", "settle", "autoRelease", "openDispute", "adminRelease",
         "adminRefund"},
   deal : Deals, by : {Nobody}, kept : [seen : DealStatuses, terms : Terms]]

\* Type invariant.
EscrowTypeOK ==
  /\ RowsTypeOK
  /\ call \in [Requests -> EscrowCalls \cup {Idle}]
  /\ balance \in [Wallets -> Int]
  /\ held \in [Deals -> Int]
  /\ transferred \in Nat
  /\ paidOut \in [Deals -> [Ways -> Nat]]
  /\ receipts \in [Deals -> Nat]
  /\ confirmed \in [Deals -> BOOLEAN]
  /\ openDispute \in [Deals -> BOOLEAN]

-----------------------------------------------------------------------------
(* What holds however calls overlap *)

(***************************************************************************)
(* Every entry has its counterpart (R14.4): the wallets together hold what *)
(* they held at first plus what bank transfers brought in, and the escrow  *)
(* wallet holds exactly what its entries for the deals add up to.          *)
(***************************************************************************)
BooksBalance ==
  /\ SumFunction(balance) = SumFunction(InitialBalance) + transferred
  /\ balance[Escrow] = SumFunction(held)

(***************************************************************************)
(* No user's wallet is overdrawn, even by payments of two deals at once:   *)
(* the wallet rows are locked "so concurrent payments serialise".          *)
(***************************************************************************)
NoOverdraft == \A u \in Users : balance[u] >= 0

(***************************************************************************)
(* The automatic release pays a deal once at most, and only after the      *)
(* buyer's confirmation (R13.2), although the call that does it runs       *)
(* outside the transaction that confirmed.                                 *)
(***************************************************************************)
AutoReleaseOnce ==
  \A d \in Deals :
    /\ paidOut[d]["auto"] <= 1
    /\ paidOut[d]["auto"] = 1 => confirmed[d]

-----------------------------------------------------------------------------
(* What must happen *)

\* Unless the release itself fails, a confirmed deal is released (R13.3).
ConfirmedIsReleased ==
  \A d \in Deals : confirmed[d] ~> status[d] = "RELEASED"

-----------------------------------------------------------------------------
(* Claims of the documents that the code does not meet when calls overlap  *)

(***************************************************************************)
(* Money enters escrow for a deal only while it is payable or its transfer *)
(* is being verified (R9.5, R11.6: otherwise no ledger entry is written),  *)
(* and leaves it only while the deal awaits release or is disputed.        *)
(***************************************************************************)
MoneyFollowsStatus ==
  [][\A d \in Deals :
       /\ held'[d] > held[d] =>
            status[d] \in {"READY_FOR_PAYMENT", "PAYMENT_PENDING_VERIFICATION"}
       /\ paidOut'[d] # paidOut[d] =>
            status[d] \in {"RELEASE_PENDING", "DISPUTED"}]_escrowVars

-----------------------------------------------------------------------------
(* Claims of the documents that the code does not meet, even one call at a *)
(* time                                                                    *)

(***************************************************************************)
(* A deal does not stay in RELEASE_PENDING: a failed release leaves it     *)
(* there "so an admin retry path can re-trigger (R13.6)".                  *)
(***************************************************************************)
ReleasePendingEnds ==
  \A d \in Deals : status[d] = "RELEASE_PENDING" ~> status[d] # "RELEASE_PENDING"
=============================================================================
