----------------------------- MODULE RoomHistory -----------------------------
(***************************************************************************)
(* The deal room with a memory of what overlapping calls did to each other *)
(* (history variables: they watch the steps of DealRoom and restrict none).*)
(*                                                                         *)
(* A handler writes by primary key without looking again at what it read.  *)
(* Whether that did any harm is recorded per deal: outdated has the deals  *)
(* to which a call wrote although the deal row was no longer the one it    *)
(* had decided on, missed those to which it wrote although the approvals   *)
(* were not.  Everything else may overlap as it likes.  So the properties  *)
(* of deals outside the two sets say which writes have to be checked again *)
(* for the deal to come out right, and that no others have.                *)
(***************************************************************************)
EXTENDS DealRoom

\* The slots for requests are counted.
ASSUME SlotsAssumption == IsFiniteSet(Requests)

VARIABLES
  outdated,  \* deals written by a call that relied on an older deal row
  missed,    \* deals written by a call that relied on older approvals or terms
  late       \* late[d]: edits written since the deal was last locked

history == <<outdated, missed, late>>

historyVars == <<status, terms, party, call, negotiation, escrow, sections, qr,
                 history>>

\* Operations of the money half that decide on the deal row they have read.
MoneyCalls == {"pay", "submitReceipt", "verifyProof", "rejectProof", "ship",
               "confirm", "autoRelease", "openDispute", "adminRelease",
               "adminRefund"}

\* Operations that write what is locked once the deal is paid for.
EditCalls == {"patchProduct", "patchParticipant", "patchSection", "generate",
              "store", "approve", "approveCommit"}

\* What a call relies on of the deal row is still so.
RowAsRead(r) ==
  LET q == call[r]
      d == q.deal
  IN  /\ q.op \in MoneyCalls => q.kept.seen = status[d] /\ q.kept.terms = terms[d]
      /\ q.op = "approveCommit" /\ q.kept.both => q.kept.seen = status[d]
      /\ q.op = "patchProduct" => status[d] \in EditableStatuses

\* What it relies on of the approvals, and of the terms they are about, is too.
ApprovalsAsRead(r) ==
  LET q == call[r]
      d == q.deal
      role == RoleOf(d, q.by)
  IN  /\ q.op = "approveCommit" =>
           /\ q.kept.seen = status[d] /\ q.kept.terms = terms[d]
           /\ q.kept.existing \in LiveRow(d, role)
           /\ q.kept.both = BothApproved(d, role, terms[d])
      /\ q.op = "patchProduct" =>
           q.kept.material = IsMaterial(d, q.kept.columns)

\* The columns of a deal that others decide on.
Columns(d) == <<status[d], terms[d], active[d], held[d], paidOut[d], receipts[d],
                confirmed[d], openDispute[d]>>

\* The step is one of the call in slot r, and it changes deal d.
WritesTo(r, d) ==
  /\ ~IsIdle(r) /\ call[r].deal = d
  /\ call'[r] # call[r]
  /\ Columns(d)' # Columns(d)

\* The columns that nobody may change any more are locked.
IsLocked(d) == status[d] \notin EditableStatuses \cup {Uncreated}

LockedColumns(d) == <<terms[d], filled[d], sections[d], qr[d], party[d],
                      active[d], withdrawn[d]>>

HistoryInit ==
  /\ DealRoomInit
  /\ outdated = {} /\ missed = {}
  /\ late = [d \in Deals |-> 0]

Remember ==
  /\ outdated' = outdated \cup
       {d \in Deals : \E r \in Requests : WritesTo(r, d) /\ ~RowAsRead(r)}
  /\ missed' = missed \cup
       {d \in Deals : \E r \in Requests : WritesTo(r, d) /\ ~ApprovalsAsRead(r)}
  /\ late' = [d \in Deals |->
       IF ~IsLocked(d)' THEN 0
       ELSE IF IsLocked(d) /\ LockedColumns(d)' # LockedColumns(d) THEN late[d] + 1
       ELSE late[d]]

HistoryNext == DealRoomNext /\ Remember

HistorySpec == HistoryInit /\ [][HistoryNext]_historyVars

\* Deals on which nobody relied on an older row, or on older approvals either.
Intact == Deals \ outdated

Understood == Intact \ missed

-----------------------------------------------------------------------------
(* What holds however calls overlap *)

(***************************************************************************)
(* R7.5 with overlaps.  A deal that is paid for is locked, but a call that *)
(* was authorised before may write afterwards.  It is one edit for each    *)
(* such call and no more: fewer than there are slots, since the call that  *)
(* locked the deal had one.  With one slot nothing is written to a locked  *)
(* deal.                                                                   *)
(***************************************************************************)
LateEditsAreFew ==
  \A d \in Deals : late[d] = 0 \/ late[d] < Cardinality(Requests)

-----------------------------------------------------------------------------
(* What holds unless a call wrote on what was no longer so *)

Approved(d, t) == \A role \in Roles : active[d][role][t] > 0

(***************************************************************************)
(* A deal that is payable, or further, carries live approvals by both      *)
(* sides of its terms (R7.3, R8.3), or of terms that differ from them in   *)
(* an absent description that has become an empty one: that change is not  *)
(* material to the code.  A material edit withdraws the approvals and      *)
(* takes the deal back in one transaction.                                 *)
(***************************************************************************)
ConsentStands ==
  \A d \in Understood : status[d] \notin BeforeAgreement =>
    \E t \in Terms : Approved(d, t) /\ terms[d] \in {t, Defaulted[t]}

(***************************************************************************)
(* When both sides hold a live approval of the same terms, the deal does   *)
(* not stay in AWAITING_BOTH_APPROVAL (R8.3).                              *)
(***************************************************************************)
ApprovedMeansPayable ==
  \A d \in Understood, t \in Terms :
    Approved(d, t) => status[d] # "AWAITING_BOTH_APPROVAL"

\* A side has one live approval row at most (R8.7: no duplicate record).
OneLiveApproval ==
  \A d \in Understood, role \in Roles :
    /\ \A t \in Terms : active[d][role][t] <= 1
    /\ \A t, u \in Terms :
         active[d][role][t] > 0 /\ active[d][role][u] > 0 => t = u

Settled == {"RELEASED", "REFUNDED"}

TimesPaidOut(d) ==
  paidOut[d]["auto"] + paidOut[d]["release"] + paidOut[d]["refund"]

(***************************************************************************)
(* A deal has been paid out exactly when it is settled, and then once,     *)
(* to one of the parties, however approvals and edits overlapped.          *)
(***************************************************************************)
PaidOutIffSettled ==
  \A d \in Intact :
    TimesPaidOut(d) = IF status[d] \in Settled THEN 1 ELSE 0

(***************************************************************************)
(* What escrow holds for a deal follows from its status: the amount its    *)
(* terms state while the deal is being fulfilled (R9.2), nothing before it *)
(* is paid.  A dispute may concern a transfer that was never verified;     *)
(* settling that one takes an amount out of escrow that never came in.     *)
(***************************************************************************)
HeldMatchesStatus ==
  \A d \in Intact :
    LET amount == Amount[terms[d]]
    IN  /\ status[d] \in BeforeAgreement \cup
                         {"READY_FOR_PAYMENT", "PAYMENT_PENDING_VERIFICATION"}
             => held[d] = 0
        /\ status[d] \in {"SELLER_PREPARING", "SHIPPED", "RELEASE_PENDING"}
             => held[d] = amount
        /\ status[d] = "DISPUTED" => held[d] \in {0, amount}
        /\ status[d] \in Settled => held[d] \in {0, -amount}
        /\ held[d] = -amount => receipts[d] > 0 /\ ~confirmed[d]

\* A dispute is open exactly while the deal is DISPUTED (R17.5 to R17.8).
DisputeMatchesStatus ==
  \A d \in Intact : openDispute[d] <=> status[d] = "DISPUTED"

\* The step is one of the contract, or none, for every deal still intact.
ContractStep ==
  \A d \in Deals \ outdated' :
    Contract!Step(d) \/ (PhaseOf(d)' = PhaseOf(d) /\ held'[d] = held[d])

(***************************************************************************)
(* Each deal that nobody wrote to on an older row keeps the contract, step *)
(* by step, whatever overlaps on it and on the other deals.                *)
(***************************************************************************)
IntactDealsKeepContract == [][ContractStep]_historyVars
=============================================================================
