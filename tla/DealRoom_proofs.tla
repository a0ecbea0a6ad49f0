-------------------------- MODULE DealRoom_proofs --------------------------
(***************************************************************************)
(* Proofs about the whole deal room for every set of deals, users, terms,  *)
(* notes and request slots, whatever calls overlap.  The theorems are      *)
(* about RoomHistory's specification, whose history variables watch the    *)
(* steps of DealRoom and restrict none of them.                            *)
(*                                                                         *)
(* RoomInv is what every deal and every call in flight satisfies.  On top  *)
(* of it stand four invariants that do not need each other: Funded for     *)
(* deals that are not outdated, Consented for those that are not missed    *)
(* either, LateOK which counts edits, and ConsentInv, the evidence of      *)
(* consent that each call holds.                                           *)
(***************************************************************************)
EXTENDS RoomHistory, FiniteSetTheorems, TLAPS

-----------------------------------------------------------------------------
(* The invariant of every deal and every call *)

Codes == [terms : Terms, note : Notes]

RoomCalls ==
  NegotiationCalls \cup EscrowCalls
  \cup [op : {"patchSection"}, deal : Deals, by : Users,
        kept : [section : FreeSections, detail : Details]]
  \cup [op : {"generate"}, deal : Deals, by : Users, kept : [terms : Terms]]
  \cup [op : {"store"}, deal : Deals, by : Users, kept : Codes]

\* Types of everything but the wallets, which no property here reads.
RoomTypeOK ==
  /\ RowsTypeOK
  /\ call \in [Requests -> RoomCalls \cup {Idle}]
  /\ filled \in [Deals -> SUBSET FilledColumns]
  /\ invite \in [Deals -> InviteStates]
  /\ active \in [Deals -> [Roles -> [Terms -> Nat]]]
  /\ withdrawn \in [Deals -> SUBSET (Roles \X Terms)]
  /\ held \in [Deals -> Int]
  /\ paidOut \in [Deals -> [Ways -> Nat]]
  /\ receipts \in [Deals -> Nat]
  /\ confirmed \in [Deals -> BOOLEAN]
  /\ openDispute \in [Deals -> BOOLEAN]
  /\ sections \in [Deals -> [FreeSections -> SUBSET Details]]
  /\ qr \in [Deals -> SUBSET Codes]

\* The statuses in which a committed row is ever left.
RestingStatuses ==
  {Uncreated, "AWAITING_COUNTERPARTY", "AWAITING_BOTH_APPROVAL",
   "READY_FOR_PAYMENT", "PAYMENT_PENDING_VERIFICATION", "SELLER_PREPARING",
   "SHIPPED", "RELEASE_PENDING", "DISPUTED", "RELEASED", "REFUNDED"}

\* A deal rests in one of them; before it exists nobody takes part in it, and
\* nobody takes part on both sides.
DealInv(d) ==
  /\ status[d] \in RestingStatuses
  /\ status[d] = Uncreated => \A role \in Roles : party[d][role] = Nobody
  /\ party[d]["buyer"] = party[d]["seller"] => party[d]["buyer"] = Nobody

Patches == {"patchProduct", "patchParticipant", "patchSection"}

\* Operations of somebody who takes part in the deal.
Members == Patches \cup {"approve", "approveCommit"}

\* The statuses in which a call of each operation finds its deal.
FoundIn(op) ==
  CASE op \in {"approve", "approveCommit"} -> {"AWAITING_BOTH_APPROVAL"}
    [] op \in {"pay", "submitReceipt"} -> {"READY_FOR_PAYMENT"}
    [] op \in {"verifyProof", "rejectProof"} -> {"PAYMENT_PENDING_VERIFICATION"}
    [] op = "ship" -> {"SELLER_PREPARING"}
    [] op = "confirm" -> {"SHIPPED"}
    [] op = "autoRelease" -> {"RELEASE_PENDING"}
    [] op = "openDispute" -> DisputableStatuses \ {"PAID_ESCROWED"}
    [] op \in {"adminRelease", "adminRefund"} -> {"DISPUTED"}
    [] OTHER -> DealStatuses

\* What a call in flight knows of its deal, for good: it exists, the caller
\* takes part, and the status that was read is one the operation accepts.
CallInv(r) ==
  LET q == call[r]
      d == q.deal
  IN  q.op # "idle" =>
        /\ status[d] # Uncreated
        /\ q.op \in Members => IsParticipant(d, q.by)
        /\ q.op \in MoneyCalls \cup {"approve", "approveCommit"} =>
             q.kept.seen \in FoundIn(q.op)

RoomInv ==
  /\ RoomTypeOK
  /\ \A d \in Deals : DealInv(d)
  /\ \A r \in Requests : CallInv(r)

-----------------------------------------------------------------------------
(* Names *)

\* The statuses a deal rests in are statuses of the column.
LEMMA StatusNames ==
  /\ RestingStatuses \ {Uncreated} \subseteq DealStatuses
  /\ EditableStatuses \subseteq DealStatuses
  /\ DisputableStatuses \subseteq DealStatuses
  /\ Uncreated \notin DealStatuses
  /\ RestingStatuses \subseteq RowStatuses
  /\ RowStatuses = DealStatuses \cup {Uncreated}
BY DEF RestingStatuses, DealStatuses, DealStatusTransitions, EditableStatuses,
   DisputableStatuses, Uncreated, RowStatuses

\* FoundIn, spelt out.
LEMMA FoundInTable ==
  /\ FoundIn("approve") = {"AWAITING_BOTH_APPROVAL"}
  /\ FoundIn("approveCommit") = {"AWAITING_BOTH_APPROVAL"}
  /\ FoundIn("pay") = {"READY_FOR_PAYMENT"}
  /\ FoundIn("submitReceipt") = {"READY_FOR_PAYMENT"}
  /\ FoundIn("verifyProof") = {"PAYMENT_PENDING_VERIFICATION"}
  /\ FoundIn("rejectProof") = {"PAYMENT_PENDING_VERIFICATION"}
  /\ FoundIn("ship") = {"SELLER_PREPARING"}
  /\ FoundIn("confirm") = {"SHIPPED"}
  /\ FoundIn("autoRelease") = {"RELEASE_PENDING"}
  /\ FoundIn("openDispute") =
       {"PAYMENT_PENDING_VERIFICATION", "SELLER_PREPARING", "SHIPPED"}
  /\ FoundIn("adminRelease") = {"DISPUTED"}
  /\ FoundIn("adminRefund") = {"DISPUTED"}
BY DEF FoundIn, DisputableStatuses

\* The fields of a call in flight.
LEMMA CallShape ==
  ASSUME RoomTypeOK, NEW r \in Requests, call[r].op # "idle"
  PROVE  /\ call[r].deal \in Deals
         /\ call[r].op \in MoneyCalls \cup {"settle"} =>
              /\ call[r].by = Nobody
              /\ call[r].kept \in [seen : DealStatuses, terms : Terms]
         /\ call[r].op \in Members \cup {"join", "generate", "store"} =>
              call[r].by \in Users
         /\ call[r].op = "patchProduct" =>
              call[r].kept \in [columns : ColumnEdits, productType : Edits,
                                material : BOOLEAN]
         /\ call[r].op = "patchParticipant" => call[r].kept \in [edit : Edits]
         /\ call[r].op = "approve" =>
              call[r].kept \in [seen : DealStatuses, terms : Terms]
         /\ call[r].op = "approveCommit" =>
              call[r].kept \in [seen : DealStatuses, terms : Terms,
                                existing : ColumnEdits, both : BOOLEAN]
         /\ call[r].op = "patchSection" =>
              call[r].kept \in [section : FreeSections, detail : Details]
         /\ call[r].op = "generate" => call[r].kept \in [terms : Terms]
         /\ call[r].op = "store" => call[r].kept \in Codes
<1>1. call[r] \in RoomCalls
  BY DEF RoomTypeOK, Idle
<1> QED
  BY <1>1 DEF RoomCalls, NegotiationCalls, EscrowCalls, MoneyCalls, Members,
     Patches

\* Who takes part has a role, one only, and keeps it.
LEMMA RoleFound ==
  ASSUME NEW d, NEW u, IsParticipant(d, u)
  PROVE  RoleOf(d, u) \in Roles /\ party[d][RoleOf(d, u)] = u
BY DEF IsParticipant, RoleOf

\* The other side is the other side.
LEMMA TwoRoles ==
  ASSUME NEW role \in Roles
  PROVE  /\ OppositeRole(role) \in Roles /\ OppositeRole(role) # role
         /\ Roles = {role, OppositeRole(role)}
BY DEF Roles, OppositeRole

-----------------------------------------------------------------------------
(* Frames *)

\* Rows only ever come to be, and participants only ever join.
RowsLast ==
  /\ \A e \in Deals : status[e] # Uncreated => status'[e] # Uncreated
  /\ \A e \in Deals, role \in Roles :
       party[e][role] # Nobody => party'[e][role] = party[e][role]

\* What the end of a call leaves.
LEMMA ClosedCall ==
  ASSUME RoomTypeOK, NEW r \in Requests, Close(r)
  PROVE  /\ call' \in [Requests -> RoomCalls \cup {Idle}]
         /\ \A s \in Requests \ {r} : call'[s] = call[s]
         /\ call'[r].op = "idle"
         /\ CallInv(r)'
BY DEF RoomTypeOK, Close, CallInv, Idle

\* A participant stays one.
LEMMA MembersStay ==
  ASSUME RowsLast, NEW d \in Deals, NEW u \in Users, IsParticipant(d, u)
  PROVE  IsParticipant(d, u)'
BY NobodyAssumption DEF IsParticipant, RowsLast

\* So a call that goes on unchanged keeps what it knows.
LEMMA CallStays ==
  ASSUME RoomTypeOK, RowsLast, NEW r \in Requests, CallInv(r), call'[r] = call[r]
  PROVE  CallInv(r)'
<1>1. SUFFICES ASSUME call[r].op # "idle" PROVE CallInv(r)'
  BY DEF CallInv
<1>2. PICK d \in Deals : d = call[r].deal
  BY <1>1, CallShape
<1>3. call[r].op \in Members => IsParticipant(d, call[r].by)'
  BY <1>1, <1>2, CallShape, MembersStay DEF CallInv
<1>4. status'[d] # Uncreated
  BY <1>1, <1>2 DEF CallInv, RowsLast
<1> QED
  BY <1>2, <1>3, <1>4 DEF CallInv

(***************************************************************************)
(* A step of the call in slot r, or of none.                               *)
(***************************************************************************)
LEMMA RoomStep ==
  ASSUME RoomInv, RoomTypeOK', RowsLast, \A e \in Deals : DealInv(e)',
         \A s \in Requests : call'[s] = call[s] \/ CallInv(s)'
  PROVE  RoomInv'
BY CallStays DEF RoomInv

\* A step that leaves the columns of the rows that the invariant reads.
LEMMA DealsStay ==
  ASSUME RoomInv, UNCHANGED <<status, party>>
  PROVE  RowsLast /\ \A e \in Deals : DealInv(e)'
BY DEF RoomInv, DealInv, RowsLast

\* A step that changes a status, to one of those in which deals rest.
LEMMA StatusMoves ==
  ASSUME RoomInv, NEW d \in Deals, NEW to \in RestingStatuses \ {Uncreated},
         status' = [status EXCEPT ![d] = to], UNCHANGED party
  PROVE  /\ RowsLast /\ \A e \in Deals : DealInv(e)'
         /\ status' \in [Deals -> RowStatuses]
BY StatusNames DEF RoomInv, RoomTypeOK, RowsTypeOK, DealInv, RowsLast

-----------------------------------------------------------------------------
(* Steps that read keep the invariant *)

\* A call starts, or goes on to another step, and nothing else changes.
LEMMA ReadStep ==
  ASSUME RoomInv, NEW r \in Requests, NEW d \in Deals, NEW op, NEW u, NEW kept,
         Call(op, d, u, kept) \in RoomCalls,
         call' = [call EXCEPT ![r] = Call(op, d, u, kept)],
         UNCHANGED <<status, terms, party, negotiation, escrow, sections, qr>>,
         status[d] # Uncreated,
         op \in Members => IsParticipant(d, u),
         op \in MoneyCalls \cup {"approve", "approveCommit"} =>
           kept.seen \in FoundIn(op)
  PROVE  RoomInv'
<1> USE DEF negotiation, escrow
<1>1. /\ call'[r] = Call(op, d, u, kept)
      /\ \A s \in Requests \ {r} : call'[s] = call[s]
  BY DEF RoomInv, RoomTypeOK
<1>2. RoomTypeOK'
  BY DEF RoomInv, RoomTypeOK, RowsTypeOK
<1>3. CallInv(r)'
  BY <1>1 DEF CallInv, Call, IsParticipant
<1> QED
  BY <1>1, <1>2, <1>3, DealsStay, RoomStep

\* The reads of the negotiation.
LEMMA NegotiationReads ==
  ASSUME RoomInv, NEW r \in Requests, NEW d \in Deals, NEW u \in Users,
         UNCHANGED <<escrow, sections, qr>>,
         \/ JoinRead(r, d, u)
         \/ ApproveRead(r, d, u)
         \/ \E columns \in ColumnEdits, edit \in Edits :
              PatchProductRead(r, d, u, columns, edit)
         \/ \E edit \in {"set", "clear"} : PatchParticipantRead(r, d, u, edit)
  PROVE  RoomInv'
<1> USE DEF MoneyCalls
<1>0. terms[d] \in Terms /\ status[d] \in RowStatuses
        /\ Uncreated \notin EditableStatuses
  BY DEF RoomInv, RoomTypeOK, RowsTypeOK, EditableStatuses, Uncreated
<1>1. CASE JoinRead(r, d, u)
  <2> DEFINE kept == [seen |-> status[d]]
  <2>1. status[d] \in DealStatuses
    BY <1>0, <1>1, StatusNames DEF JoinRead
  <2>2. Call("join", d, u, kept) \in RoomCalls
    BY <2>1 DEF Call, RoomCalls, NegotiationCalls
  <2>3. /\ call' = [call EXCEPT ![r] = Call("join", d, u, kept)]
        /\ UNCHANGED <<status, terms, party, negotiation, escrow, sections, qr>>
        /\ "join" \notin Members /\ status[d] # Uncreated
    BY <1>1 DEF JoinRead, Open, Members, Patches
  <2> HIDE DEF kept
  <2> QED
    BY <2>2, <2>3, ReadStep
<1>2. CASE ApproveRead(r, d, u)
  <2> DEFINE kept == [seen |-> status[d], terms |-> terms[d]]
  <2>1. status[d] = "AWAITING_BOTH_APPROVAL" /\ IsParticipant(d, u)
    BY <1>2 DEF ApproveRead
  <2>2. status[d] \in DealStatuses /\ status[d] # Uncreated
    BY <2>1, StatusNames DEF RestingStatuses, Uncreated
  <2>3. Call("approve", d, u, kept) \in RoomCalls
    BY <1>0, <2>2 DEF Call, RoomCalls, NegotiationCalls
  <2>4. kept.seen \in FoundIn("approve")
    BY <2>1, FoundInTable
  <2>5. /\ call' = [call EXCEPT ![r] = Call("approve", d, u, kept)]
        /\ UNCHANGED <<status, terms, party, negotiation, escrow, sections, qr>>
    BY <1>2 DEF ApproveRead, Open
  <2> HIDE DEF kept
  <2> QED
    BY <2>1, <2>2, <2>3, <2>4, <2>5, ReadStep
<1>3. ASSUME NEW columns \in ColumnEdits, NEW edit \in Edits,
             PatchProductRead(r, d, u, columns, edit)
      PROVE  RoomInv'
  <2> DEFINE kept == [columns |-> columns, productType |-> edit,
                      material |-> IsMaterial(d, columns)]
  <2>1. IsMaterial(d, columns) \in BOOLEAN
    BY DEF IsMaterial
  <2>2. Call("patchProduct", d, u, kept) \in RoomCalls
    BY <2>1 DEF Call, RoomCalls, NegotiationCalls
  <2>3. /\ call' = [call EXCEPT ![r] = Call("patchProduct", d, u, kept)]
        /\ UNCHANGED <<status, terms, party, negotiation, escrow, sections, qr>>
        /\ IsParticipant(d, u) /\ status[d] # Uncreated
    BY <1>0, <1>3 DEF PatchProductRead, MayEdit, Open
  <2> HIDE DEF kept
  <2> QED
    BY <2>2, <2>3, ReadStep
<1>4. ASSUME NEW edit \in {"set", "clear"}, PatchParticipantRead(r, d, u, edit)
      PROVE  RoomInv'
  <2>1. Call("patchParticipant", d, u, [edit |-> edit]) \in RoomCalls
    BY DEF Call, RoomCalls, NegotiationCalls, Edits
  <2>2. /\ call' = [call EXCEPT
                     ![r] = Call("patchParticipant", d, u, [edit |-> edit])]
        /\ UNCHANGED <<status, terms, party, negotiation, escrow, sections, qr>>
        /\ IsParticipant(d, u) /\ status[d] # Uncreated
    BY <1>0, <1>4 DEF PatchParticipantRead, MayEdit, Open
  <2> QED
    BY <2>1, <2>2, ReadStep
<1> QED
  BY <1>1, <1>2, <1>3, <1>4

\* The reads of a free section and of the payment code.
LEMMA OtherReads ==
  ASSUME RoomInv, NEW r \in Requests, NEW d \in Deals, NEW u \in Users,
         UNCHANGED <<negotiation, escrow, sections, qr>>,
         \/ GenerateRead(r, d, u)
         \/ \E section \in FreeSections, detail \in Details :
              PatchSectionRead(r, d, u, section, detail)
  PROVE  RoomInv'
<1> USE DEF MoneyCalls
<1>1. CASE GenerateRead(r, d, u)
  <2> DEFINE kept == [terms |-> terms[d]]
  <2>1. Call("generate", d, u, kept) \in RoomCalls
    BY DEF Call, RoomCalls, RoomInv, RoomTypeOK, RowsTypeOK
  <2>2. /\ call' = [call EXCEPT ![r] = Call("generate", d, u, kept)]
        /\ UNCHANGED <<status, terms, party, negotiation, escrow, sections, qr>>
        /\ "generate" \notin Members /\ status[d] # Uncreated
    BY <1>1 DEF GenerateRead, Open, Members, Patches, Uncreated
  <2> HIDE DEF kept
  <2> QED
    BY <2>1, <2>2, ReadStep
<1>2. ASSUME NEW section \in FreeSections, NEW detail \in Details,
             PatchSectionRead(r, d, u, section, detail)
      PROVE  RoomInv'
  <2> DEFINE kept == [section |-> section, detail |-> detail]
  <2>1. Call("patchSection", d, u, kept) \in RoomCalls
    BY DEF Call, RoomCalls
  <2>2. /\ call' = [call EXCEPT ![r] = Call("patchSection", d, u, kept)]
        /\ UNCHANGED <<status, terms, party, negotiation, escrow, sections, qr>>
        /\ IsParticipant(d, u) /\ status[d] # Uncreated
    BY <1>2 DEF PatchSectionRead, MayEdit, Open, EditableStatuses, Uncreated
  <2> HIDE DEF kept
  <2> QED
    BY <2>1, <2>2, ReadStep
<1> QED
  BY <1>1, <1>2

\* The reads of the money half.
LEMMA EscrowReads ==
  ASSUME RoomInv, NEW r \in Requests, NEW d \in Deals, EscrowRequest(r, d),
         UNCHANGED <<negotiation, sections, qr>>
  PROVE  RoomInv'
<1> DEFINE kept == [seen |-> status[d], terms |-> terms[d]]
<1>1. PICK op \in MoneyCalls \ {"autoRelease"} :
        OpenOnDeal(r, op, d) /\ status[d] \in FoundIn(op)
  <2>1. status[d] # "PAID_ESCROWED"
    BY DEF RoomInv, DealInv, RestingStatuses, Uncreated
  <2> QED
    BY <2>1, FoundInTable
    DEF EscrowRequest, PaymentRequest, DeliveryRequest, DisputeRequest, PayRead,
        SubmitReceiptRead, VerifyProofRead, RejectProofRead, ShipRead,
        ConfirmRead, OpenDisputeRead, AdminReleaseRead, AdminRefundRead,
        MoneyCalls, DisputableStatuses
<1>2. status[d] \in DealStatuses /\ terms[d] \in Terms /\ status[d] # Uncreated
  <2>1. status[d] # Uncreated
    BY <1>1, FoundInTable DEF MoneyCalls, Uncreated
  <2> QED
    BY <2>1, StatusNames DEF RoomInv, RoomTypeOK, RowsTypeOK
<1>3. Call(op, d, Nobody, kept) \in RoomCalls
  BY <1>1, <1>2 DEF Call, RoomCalls, EscrowCalls, MoneyCalls
<1>4. op \notin Members /\ kept.seen \in FoundIn(op)
  BY <1>1 DEF MoneyCalls, Members, Patches
<1>5. /\ call' = [call EXCEPT ![r] = Call(op, d, Nobody, kept)]
      /\ UNCHANGED <<status, terms, party, negotiation, escrow, sections, qr>>
  BY <1>1 DEF OpenOnDeal, Open
<1> HIDE DEF kept
<1> QED
  BY <1>2, <1>3, <1>4, <1>5, ReadStep

\* The lookups of an approval.
LEMMA ApproveCheckKept ==
  ASSUME RoomInv, NEW r \in Requests, ApproveCheck(r),
         UNCHANGED <<escrow, sections, qr>>
  PROVE  RoomInv'
<1>1. PICK d \in Deals, u \in Users : d = call[r].deal /\ u = call[r].by
  BY CallShape DEF RoomInv, ApproveCheck, Members
<1>2. PICK seen \in DealStatuses, t \in Terms :
        seen = call[r].kept.seen /\ t = call[r].kept.terms
  BY CallShape DEF RoomInv, ApproveCheck
<1>3. PICK role : role = RoleOf(d, u)
  OBVIOUS
<1>4. PICK e \in LiveRow(d, role) :
        call' = [call EXCEPT ![r] = Call("approveCommit", d, u,
          [seen |-> seen, terms |-> t, existing |-> e,
           both |-> BothApproved(d, role, t)])]
  BY <1>1, <1>2, <1>3 DEF ApproveCheck, Become
<1>5. e \in ColumnEdits /\ BothApproved(d, role, t) \in BOOLEAN
  BY DEF LiveRow, ColumnEdits, BothApproved
<1> DEFINE kept == [seen |-> seen, terms |-> t, existing |-> e,
                    both |-> BothApproved(d, role, t)]
<1>6. Call("approveCommit", d, u, kept) \in RoomCalls
  BY <1>5 DEF Call, RoomCalls, NegotiationCalls
<1>7. /\ status[d] # Uncreated /\ IsParticipant(d, u)
      /\ kept.seen \in FoundIn("approveCommit")
  BY <1>1, <1>2, FoundInTable DEF RoomInv, CallInv, ApproveCheck, Members
<1>8. /\ call' = [call EXCEPT ![r] = Call("approveCommit", d, u, kept)]
      /\ UNCHANGED <<status, terms, party, negotiation, escrow, sections, qr>>
  BY <1>4 DEF ApproveCheck
<1> HIDE DEF kept
<1> QED
  BY <1>6, <1>7, <1>8, ReadStep

\* The choice of a note.
LEMMA AllocateKept ==
  ASSUME RoomInv, NEW r \in Requests, AllocateNote(r),
         UNCHANGED <<negotiation, escrow, sections>>
  PROVE  RoomInv'
<1>1. PICK note \in Notes :
        call' = [call EXCEPT ![r] =
          Call("store", call[r].deal, call[r].by,
               [terms |-> call[r].kept.terms, note |-> note])]
  BY DEF AllocateNote, Become
<1>2. PICK d \in Deals, u \in Users, t \in Terms :
        d = call[r].deal /\ u = call[r].by /\ t = call[r].kept.terms
  BY CallShape DEF RoomInv, AllocateNote
<1> DEFINE kept == [terms |-> t, note |-> note]
<1>3. Call("store", d, u, kept) \in RoomCalls
  BY DEF Call, RoomCalls, Codes
<1>4. /\ call' = [call EXCEPT ![r] = Call("store", d, u, kept)]
      /\ UNCHANGED <<status, terms, party, negotiation, escrow, sections, qr>>
      /\ status[d] # Uncreated
      /\ "store" \notin Members \cup MoneyCalls
  BY <1>1, <1>2
  DEF AllocateNote, RoomInv, CallInv, Members, Patches, MoneyCalls
<1> HIDE DEF kept
<1> QED
  BY <1>3, <1>4, ReadStep

\* What the call does after the buyer's confirmation.
LEMMA SettleKept ==
  ASSUME RoomInv, NEW r \in Requests, SettleRead(r),
         UNCHANGED <<negotiation, sections, qr>>
  PROVE  RoomInv'
<1>1. PICK d \in Deals : d = call[r].deal /\ call[r].by = Nobody
  BY CallShape DEF RoomInv, SettleRead
<1>2. terms[d] \in Terms
  BY DEF RoomInv, RoomTypeOK, RowsTypeOK
<1>3. CASE status[d] = "RELEASE_PENDING"
  <2> DEFINE kept == [seen |-> status[d], terms |-> terms[d]]
  <2>1. /\ call' = [call EXCEPT ![r] = Call("autoRelease", d, Nobody, kept)]
        /\ UNCHANGED <<status, terms, party, negotiation, escrow, sections, qr>>
    BY <1>1, <1>3 DEF SettleRead, Become
  <2>2. Call("autoRelease", d, Nobody, kept) \in RoomCalls
    <3>1. status[d] \in DealStatuses
      BY <1>3, StatusNames DEF RestingStatuses, Uncreated
    <3> QED
      BY <1>2, <3>1 DEF Call, RoomCalls, EscrowCalls
  <2>3. /\ kept.seen \in FoundIn("autoRelease") /\ status[d] # Uncreated
        /\ "autoRelease" \notin Members
    BY <1>3, FoundInTable DEF Members, Patches, Uncreated
  <2> HIDE DEF kept
  <2> QED
    BY <2>1, <2>2, <2>3, ReadStep
<1>4. CASE status[d] # "RELEASE_PENDING"
  <2>1. Close(r) /\ UNCHANGED <<status, terms, party, escrow>>
    BY <1>1, <1>4 DEF SettleRead
  <2>2. RoomTypeOK'
    BY <2>1, ClosedCall DEF RoomInv, RoomTypeOK, RowsTypeOK, negotiation, escrow
  <2> QED
    BY <2>1, <2>2, ClosedCall, DealsStay, RoomStep DEF RoomInv
<1> QED
  BY <1>3, <1>4

-----------------------------------------------------------------------------
(* Steps that write keep the invariant *)

LEMMA CreateKept ==
  ASSUME RoomInv, NEW d \in Deals, NEW u \in Users, NEW role \in Roles,
         NEW t \in CompleteTerms, NEW columns \in SUBSET FilledColumns,
         CreateDeal(d, u, role, t, columns), UNCHANGED <<escrow, sections, qr>>
  PROVE  RoomInv'
<1> USE DEF RoomInv, RoomTypeOK, RowsTypeOK
<1>1. /\ status[d] = Uncreated
      /\ status' = [status EXCEPT ![d] = "AWAITING_COUNTERPARTY"]
      /\ terms' = [terms EXCEPT ![d] = t]
      /\ party' = [party EXCEPT ![d][role] = u]
      /\ filled' = [filled EXCEPT ![d] = columns \cap Settable(role)]
      /\ invite' = [invite EXCEPT ![d] = "live"]
      /\ UNCHANGED <<call, active, withdrawn, held, paidOut, receipts,
                     confirmed, openDispute, sections, qr>>
  BY DEF CreateDeal, InsertDeal, Transition, escrow
<1>2. /\ "AWAITING_COUNTERPARTY" \in RestingStatuses \ {Uncreated}
      /\ "live" \in InviteStates /\ t \in Terms
      /\ columns \cap Settable(role) \in SUBSET FilledColumns
  BY CompleteTermsAssumption DEF RestingStatuses, Uncreated, InviteStates
<1>3. RoomTypeOK'
  BY <1>1, <1>2, StatusNames
<1>4. \A side \in Roles : party[d][side] = Nobody
  BY <1>1 DEF DealInv
<1>5. RowsLast
  BY <1>1, <1>2, <1>4 DEF RowsLast
<1>6. \A e \in Deals : DealInv(e)'
  BY <1>1, <1>2, <1>4, NobodyAssumption DEF DealInv, Roles
<1> QED
  BY <1>1, <1>3, <1>5, <1>6, RoomStep

LEMMA JoinKept ==
  ASSUME RoomInv, NEW r \in Requests, JoinWrite(r),
         UNCHANGED <<escrow, sections, qr>>
  PROVE  RoomInv'
<1> USE DEF RoomTypeOK, RowsTypeOK
<1>0. RoomTypeOK /\ \A e \in Deals : DealInv(e)
  BY DEF RoomInv
<1>1. PICK d \in Deals, u \in Users : d = call[r].deal /\ u = call[r].by
  BY CallShape DEF RoomInv, JoinWrite
<1>2. PICK role \in Roles :
        /\ party[d][role] = Nobody /\ ~IsParticipant(d, u)
        /\ party' = [party EXCEPT ![d][role] = u]
        /\ invite' = [invite EXCEPT ![d] = "spent"]
        /\ filled' = [filled EXCEPT ![d] = @ \cup {NameColumn(role)}]
        /\ status' = [status EXCEPT ![d] = "AWAITING_BOTH_APPROVAL"]
        /\ Close(r)
        /\ UNCHANGED <<terms, active, withdrawn, held, paidOut, receipts,
                       confirmed, openDispute, sections, qr>>
  BY <1>1 DEF JoinWrite, SpendInvite, InsertParticipant, BackfillName,
     Transition, escrow
<1>3. /\ "AWAITING_BOTH_APPROVAL" \in RestingStatuses \ {Uncreated}
      /\ "spent" \in InviteStates /\ NameColumn(role) \in FilledColumns
  BY DEF RestingStatuses, Uncreated, InviteStates, NameColumn, FilledColumns
<1>4. RoomTypeOK'
  BY <1>0, <1>2, <1>3, ClosedCall, StatusNames
<1>5. RowsLast
  BY <1>0, <1>2, <1>3 DEF RowsLast
<1>6. \A e \in Deals : DealInv(e)'
  BY <1>0, <1>2, <1>3, NobodyAssumption DEF DealInv, Roles, IsParticipant
<1> QED
  BY <1>0, <1>2, <1>4, <1>5, <1>6, ClosedCall, RoomStep

\* Writes that leave the status and the participants alone.
LEMMA AsideKept ==
  ASSUME RoomInv, NEW r \in Requests, Close(r),
         UNCHANGED <<status, terms, party, invite, active, withdrawn, held,
                     paidOut, receipts, confirmed, openDispute>>,
         filled' \in [Deals -> SUBSET FilledColumns],
         sections' \in [Deals -> [FreeSections -> SUBSET Details]],
         qr' \in [Deals -> SUBSET Codes]
  PROVE  RoomInv'
<1>1. RoomTypeOK'
  BY ClosedCall DEF RoomInv, RoomTypeOK, RowsTypeOK
<1> QED
  BY <1>1, ClosedCall, DealsStay, RoomStep DEF RoomInv

LEMMA PatchParticipantKept ==
  ASSUME RoomInv, NEW r \in Requests, PatchParticipantWrite(r),
         UNCHANGED <<escrow, sections, qr>>
  PROVE  RoomInv'
<1>1. call[r].deal \in Deals /\ call[r].kept \in [edit : Edits]
  BY CallShape DEF RoomInv, PatchParticipantWrite
<1>2. \A x : NameColumn(x) \in FilledColumns
  BY DEF NameColumn, FilledColumns
<1>3. \A x \in FilledColumns, s \in SUBSET FilledColumns :
        PresenceAfter(s, x, call[r].kept.edit) \in SUBSET FilledColumns
  BY <1>1 DEF PresenceAfter, Edits
<1>4. filled' \in [Deals -> SUBSET FilledColumns]
  BY <1>1, <1>2, <1>3 DEF PatchParticipantWrite, RoomInv, RoomTypeOK
<1> QED
  BY <1>4, AsideKept DEF PatchParticipantWrite, escrow, RoomInv, RoomTypeOK

LEMMA PatchSectionKept ==
  ASSUME RoomInv, NEW r \in Requests, PatchSectionWrite(r),
         UNCHANGED <<negotiation, escrow, qr>>
  PROVE  RoomInv'
<1>1. /\ call[r].deal \in Deals
      /\ call[r].kept \in [section : FreeSections, detail : Details]
  BY CallShape DEF RoomInv, PatchSectionWrite
<1>2. sections' \in [Deals -> [FreeSections -> SUBSET Details]]
  BY <1>1 DEF PatchSectionWrite, RoomInv, RoomTypeOK
<1> QED
  BY <1>2, AsideKept
  DEF PatchSectionWrite, negotiation, escrow, RoomInv, RoomTypeOK

LEMMA StoreQrKept ==
  ASSUME RoomInv, NEW r \in Requests, StoreQr(r),
         UNCHANGED <<negotiation, escrow, sections>>
  PROVE  RoomInv'
<1>1. call[r].deal \in Deals /\ call[r].kept \in Codes
  BY CallShape DEF RoomInv, StoreQr
<1>2. qr' \in [Deals -> SUBSET Codes]
  BY <1>1 DEF StoreQr, RoomInv, RoomTypeOK
<1> QED
  BY <1>2, AsideKept DEF StoreQr, negotiation, escrow, RoomInv, RoomTypeOK

LEMMA AbortKept ==
  ASSUME RoomInv, NEW r \in Requests, Close(r),
         UNCHANGED <<status, terms, party, negotiation, escrow, sections, qr>>
  PROVE  RoomInv'
BY AsideKept DEF negotiation, escrow, RoomInv, RoomTypeOK

\* What a product patch makes of the terms, and of the columns beside them.
LEMMA PatchIs ==
  ASSUME RoomTypeOK, NEW r \in Requests, PatchProductWrite(r)
  PROVE  \E d \in Deals, new \in Terms :
           /\ d = call[r].deal
           /\ \/ call[r].kept.columns = {} /\ new = terms[d]
              \/ call[r].kept.columns = {new}
           /\ call[r].kept.material \in BOOLEAN
           /\ terms' = [terms EXCEPT ![d] = new]
           /\ filled' \in [Deals -> SUBSET FilledColumns]
<1>1. PICK d \in Deals : d = call[r].deal
  BY CallShape DEF PatchProductWrite
<1>2. call[r].kept \in [columns : ColumnEdits, productType : Edits,
                        material : BOOLEAN]
  BY CallShape DEF PatchProductWrite
<1>0. PICK columns : columns = call[r].kept.columns
  OBVIOUS
<1>3. PICK new : new = IF columns = {} THEN terms[d] ELSE CHOOSE t \in columns : TRUE
  OBVIOUS
<1>4. /\ new \in Terms
      /\ \/ columns = {} /\ new = terms[d]
         \/ columns = {new}
  BY <1>0, <1>2, <1>3 DEF ColumnEdits, RoomTypeOK, RowsTypeOK
<1>5. PICK present : present = PresenceAfter(filled[d], "Product_Type",
                                             call[r].kept.productType)
  OBVIOUS
<1>6. present \in SUBSET FilledColumns
  BY <1>2, <1>5 DEF PresenceAfter, Edits, FilledColumns, RoomTypeOK
<1>7. /\ terms' = [terms EXCEPT ![d] = new]
      /\ filled' = [filled EXCEPT ![d] = present]
  BY <1>0, <1>1, <1>3, <1>5 DEF PatchProductWrite
<1>8. filled' \in [Deals -> SUBSET FilledColumns]
  BY <1>6, <1>7 DEF RoomTypeOK
<1>9. call[r].kept.material \in BOOLEAN
  BY <1>2
<1> QED
  BY <1>0, <1>1, <1>4, <1>7, <1>8, <1>9

\* A material edit leaves no live approval of its deal.
LEMMA InvalidationTyped ==
  ASSUME RoomTypeOK, NEW d \in Deals, InvalidateApprovals(d)
  PROVE  /\ active' \in [Deals -> [Roles -> [Terms -> Nat]]]
         /\ withdrawn' \in [Deals -> SUBSET (Roles \X Terms)]
<1> DEFINE more == {a \in Roles \X Terms : active[d][a[1]][a[2]] > 0}
<1>1. withdrawn' = [withdrawn EXCEPT ![d] = @ \cup more]
  BY DEF InvalidateApprovals
<1>2. more \subseteq Roles \X Terms
  OBVIOUS
<1> HIDE DEF more
<1>3. NoApprovals \in [Roles -> [Terms -> Nat]]
  BY DEF NoApprovals
<1>4. active' = [active EXCEPT ![d] = NoApprovals]
  BY DEF InvalidateApprovals
<1> QED
  BY <1>1, <1>2, <1>3, <1>4 DEF RoomTypeOK

LEMMA PatchProductKept ==
  ASSUME RoomInv, NEW r \in Requests, PatchProductWrite(r),
         UNCHANGED <<escrow, sections, qr>>
  PROVE  RoomInv'
<1>0. RoomTypeOK
  BY DEF RoomInv
<1>1. PICK d \in Deals, new \in Terms :
        /\ d = call[r].deal
        /\ terms' = [terms EXCEPT ![d] = new]
        /\ filled' \in [Deals -> SUBSET FilledColumns]
  BY <1>0, PatchIs
<1>2. /\ Close(r)
      /\ UNCHANGED <<party, invite, held, paidOut, receipts, confirmed,
                     openDispute, sections, qr>>
      /\ \/ InvalidateApprovals(d)
         \/ UNCHANGED <<active, withdrawn>>
      /\ \/ UNCHANGED status
         \/ status' = [status EXCEPT ![d] = "AWAITING_BOTH_APPROVAL"]
  BY <1>1 DEF PatchProductWrite, Transition, escrow
<1>3. /\ RowsLast /\ \A e \in Deals : DealInv(e)'
      /\ status' \in [Deals -> RowStatuses]
  <2>1. "AWAITING_BOTH_APPROVAL" \in RestingStatuses \ {Uncreated}
    BY DEF RestingStatuses, Uncreated
  <2> QED
    BY <1>0, <1>2, <2>1, DealsStay, StatusMoves DEF RoomTypeOK, RowsTypeOK
<1>4. /\ active' \in [Deals -> [Roles -> [Terms -> Nat]]]
      /\ withdrawn' \in [Deals -> SUBSET (Roles \X Terms)]
  <2>1. CASE InvalidateApprovals(d)
    BY <1>0, <2>1, InvalidationTyped
  <2>2. CASE UNCHANGED <<active, withdrawn>>
    BY <1>0, <2>2 DEF RoomTypeOK
  <2> QED
    BY <1>2, <2>1, <2>2
<1>5. RoomTypeOK'
  <2>1. terms' \in [Deals -> Terms]
    BY <1>0, <1>1 DEF RoomTypeOK, RowsTypeOK
  <2>2. call' \in [Requests -> RoomCalls \cup {Idle}]
    BY <1>0, <1>2, ClosedCall
  <2> QED
    BY <1>0, <1>1, <1>2, <1>3, <1>4, <2>1, <2>2 DEF RoomTypeOK, RowsTypeOK
<1> QED
  BY <1>0, <1>2, <1>3, <1>5, ClosedCall, RoomStep

\* What the upsert writes, row by row.
LEMMA UpsertIs ==
  ASSUME RoomTypeOK, NEW d \in Deals, NEW role \in Roles, NEW t \in Terms,
         NEW e \in ColumnEdits, UpsertApproval(d, role, t, e)
  PROVE  /\ active' \in [Deals -> [Roles -> [Terms -> Nat]]]
         /\ withdrawn' \in [Deals -> SUBSET (Roles \X Terms)]
         /\ \A x \in Deals \ {d} : active'[x] = active[x] /\ withdrawn'[x] = withdrawn[x]
         /\ \A side \in Roles \ {role} : active'[d][side] = active[d][side]
         /\ \A v \in Terms : active'[d][role][v] =
              IF v \in e \ {t} /\ active[d][role][v] > 0
              THEN active[d][role][v] - 1
              ELSE IF v = t /\ t \notin e THEN active[d][role][v] + 1
              ELSE active[d][role][v]
         /\ withdrawn'[d] = withdrawn[d] \cup ({role} \X (e \ {t}))
<1> DEFINE rows == active[d][role]
           after == [v \in Terms |->
                       IF v \in e \ {t} /\ rows[v] > 0 THEN rows[v] - 1
                       ELSE IF v = t /\ t \notin e THEN rows[v] + 1
                       ELSE rows[v]]
<1>1. rows \in [Terms -> Nat]
  BY DEF RoomTypeOK
<1>2. after \in [Terms -> Nat]
  BY <1>1
<1>3. active' = [active EXCEPT ![d][role] = after]
  BY DEF UpsertApproval
<1>4. \A v \in Terms : after[v] =
        IF v \in e \ {t} /\ rows[v] > 0 THEN rows[v] - 1
        ELSE IF v = t /\ t \notin e THEN rows[v] + 1
        ELSE rows[v]
  OBVIOUS
<1>5. PICK more : more = {role} \X (e \ {t})
  OBVIOUS
<1>6. withdrawn' = [withdrawn EXCEPT ![d] = @ \cup more]
  BY <1>5 DEF UpsertApproval
<1>7. more \subseteq Roles \X Terms
  BY <1>5 DEF ColumnEdits
<1> HIDE DEF after
<1>8. /\ active' \in [Deals -> [Roles -> [Terms -> Nat]]]
      /\ \A x \in Deals \ {d} : active'[x] = active[x]
      /\ \A side \in Roles \ {role} : active'[d][side] = active[d][side]
      /\ active'[d][role] = after
  BY <1>2, <1>3 DEF RoomTypeOK
<1>9. /\ withdrawn' \in [Deals -> SUBSET (Roles \X Terms)]
      /\ \A x \in Deals \ {d} : withdrawn'[x] = withdrawn[x]
      /\ withdrawn'[d] = withdrawn[d] \cup more
  BY <1>6, <1>7 DEF RoomTypeOK
<1> QED
  BY <1>4, <1>5, <1>8, <1>9

\* Who approves, what, and what the lookups found.
LEMMA ApprovalIs ==
  ASSUME RoomInv, NEW r \in Requests, ApproveWrite(r)
  PROVE  \E d \in Deals, u \in Users, role \in Roles, t \in Terms, e \in ColumnEdits :
           /\ d = call[r].deal /\ u = call[r].by /\ role = RoleOf(d, u)
           /\ t = call[r].kept.terms /\ e = call[r].kept.existing
           /\ party[d][role] = u
           /\ call[r].kept.both \in BOOLEAN
           /\ call[r].kept.seen = "AWAITING_BOTH_APPROVAL"
           /\ UpsertApproval(d, role, t, e)
           /\ \/ /\ call[r].kept.both
                 /\ status' = [status EXCEPT ![d] = "READY_FOR_PAYMENT"]
              \/ ~call[r].kept.both /\ UNCHANGED status
<1>1. PICK d \in Deals, u \in Users : d = call[r].deal /\ u = call[r].by
  BY CallShape DEF RoomInv, ApproveWrite, Members
<1>2. /\ call[r].kept \in [seen : DealStatuses, terms : Terms,
                           existing : ColumnEdits, both : BOOLEAN]
      /\ IsParticipant(d, u) /\ call[r].kept.seen = "AWAITING_BOTH_APPROVAL"
  BY <1>1, CallShape, FoundInTable DEF RoomInv, CallInv, ApproveWrite, Members
<1>3. PICK role \in Roles : role = RoleOf(d, u) /\ party[d][role] = u
  BY <1>2, RoleFound
<1>4. PICK t \in Terms, e \in ColumnEdits, both \in BOOLEAN :
        t = call[r].kept.terms /\ e = call[r].kept.existing /\ both = call[r].kept.both
  BY <1>2
<1>5. UpsertApproval(d, role, t, e)
  BY <1>1, <1>3, <1>4 DEF ApproveWrite
<1>6. \/ both /\ status' = [status EXCEPT ![d] = "READY_FOR_PAYMENT"]
      \/ ~both /\ UNCHANGED status
  BY <1>1, <1>4 DEF ApproveWrite, Transition
<1> QED
  BY <1>1, <1>2, <1>3, <1>4, <1>5, <1>6

LEMMA ApproveWriteKept ==
  ASSUME RoomInv, NEW r \in Requests, ApproveWrite(r),
         UNCHANGED <<escrow, sections, qr>>
  PROVE  RoomInv'
<1>0. RoomTypeOK
  BY DEF RoomInv
<1>1. PICK d \in Deals, role \in Roles, t \in Terms, e \in ColumnEdits :
        /\ UpsertApproval(d, role, t, e)
        /\ \/ status' = [status EXCEPT ![d] = "READY_FOR_PAYMENT"]
           \/ UNCHANGED status
  BY ApprovalIs
<1>2. /\ Close(r)
      /\ UNCHANGED <<terms, party, filled, invite, held, paidOut, receipts,
                     confirmed, openDispute, sections, qr>>
  BY DEF ApproveWrite, escrow
<1>3. /\ RowsLast /\ \A x \in Deals : DealInv(x)'
      /\ status' \in [Deals -> RowStatuses]
  <2>1. "READY_FOR_PAYMENT" \in RestingStatuses \ {Uncreated}
    BY DEF RestingStatuses, Uncreated
  <2>2. status \in [Deals -> RowStatuses]
    BY <1>0 DEF RoomTypeOK, RowsTypeOK
  <2> QED
    BY <1>1, <1>2, <2>1, <2>2, DealsStay, StatusMoves
<1>4. RoomTypeOK'
  <2>1. /\ active' \in [Deals -> [Roles -> [Terms -> Nat]]]
        /\ withdrawn' \in [Deals -> SUBSET (Roles \X Terms)]
    BY <1>0, <1>1, UpsertIs
  <2>2. call' \in [Requests -> RoomCalls \cup {Idle}]
    BY <1>0, <1>2, ClosedCall
  <2> QED
    BY <1>0, <1>2, <1>3, <2>1, <2>2 DEF RoomTypeOK, RowsTypeOK
<1> QED
  BY <1>0, <1>2, <1>3, <1>4, ClosedCall, RoomStep

\* Types of what the money half writes, and that it writes one deal only.
FundsTyped ==
  /\ held' \in [Deals -> Int]
  /\ paidOut' \in [Deals -> [Ways -> Nat]]
  /\ receipts' \in [Deals -> Nat]
  /\ confirmed' \in [Deals -> BOOLEAN]
  /\ openDispute' \in [Deals -> BOOLEAN]

SameFunds(e) ==
  /\ held'[e] = held[e] /\ paidOut'[e] = paidOut[e] /\ receipts'[e] = receipts[e]
  /\ confirmed'[e] = confirmed[e] /\ openDispute'[e] = openDispute[e]

\* What a call of the money half knows when it writes.
LEMMA MoneyCallIs ==
  ASSUME RoomInv, NEW r \in Requests, call[r].op \in MoneyCalls
  PROVE  \E d \in Deals, t \in Terms :
           /\ d = call[r].deal /\ t = call[r].kept.terms
           /\ call[r].by = Nobody
           /\ call[r].kept \in [seen : DealStatuses, terms : Terms]
           /\ call[r].kept.seen \in FoundIn(call[r].op)
           /\ Amount[t] \in Nat \ {0}
           /\ held[d] \in Int /\ paidOut[d] \in [Ways -> Nat] /\ receipts[d] \in Nat
<1>1. call[r].op # "idle"
  BY DEF MoneyCalls
<1>2. /\ call[r].deal \in Deals /\ call[r].by = Nobody
      /\ call[r].kept \in [seen : DealStatuses, terms : Terms]
      /\ call[r].kept.seen \in FoundIn(call[r].op)
  BY <1>1, CallShape DEF RoomInv, CallInv
<1> QED
  BY <1>2, EscrowAssumption DEF RoomInv, RoomTypeOK

\* Money comes in, by wallet or by transfer.
LEMMA PaymentIs ==
  ASSUME RoomInv, NEW r \in Requests, PayWrite(r) \/ VerifyProofWrite(r)
  PROVE  \E d \in Deals, t \in Terms :
           /\ d = call[r].deal /\ t = call[r].kept.terms /\ Amount[t] \in Nat \ {0}
           /\ call[r].op \in MoneyCalls
           /\ call[r].kept.seen \in {"READY_FOR_PAYMENT", "PAYMENT_PENDING_VERIFICATION"}
           /\ held' = [held EXCEPT ![d] = @ + Amount[t]]
           /\ status' = [status EXCEPT ![d] = "SELLER_PREPARING"]
           /\ Close(r)
           /\ UNCHANGED <<terms, party, paidOut, receipts, confirmed, openDispute>>
           /\ FundsTyped /\ \A e \in Deals \ {d} : SameFunds(e)
<1>1. call[r].op \in {"pay", "verifyProof"}
  BY DEF PayWrite, VerifyProofWrite
<1>2. PICK d \in Deals, t \in Terms :
        /\ d = call[r].deal /\ t = call[r].kept.terms /\ Amount[t] \in Nat \ {0}
        /\ call[r].kept.seen \in {"READY_FOR_PAYMENT", "PAYMENT_PENDING_VERIFICATION"}
  BY <1>1, MoneyCallIs, FoundInTable DEF MoneyCalls
<1>3. /\ held' = [held EXCEPT ![d] = @ + Amount[t]]
      /\ status' = [status EXCEPT ![d] = "SELLER_PREPARING"]
      /\ Close(r)
      /\ UNCHANGED <<terms, party, paidOut, receipts, confirmed, openDispute>>
  BY <1>2 DEF PayWrite, VerifyProofWrite, CreditTransfer, Transition
<1>4. FundsTyped /\ \A e \in Deals \ {d} : SameFunds(e)
  BY <1>2, <1>3 DEF FundsTyped, SameFunds, RoomInv, RoomTypeOK
<1> QED
  BY <1>1, <1>2, <1>3, <1>4 DEF MoneyCalls

\* Where a receipt that is filed or rejected, or a shipment, takes a deal.
Move(from, to) ==
  \/ from = "READY_FOR_PAYMENT" /\ to = "PAYMENT_PENDING_VERIFICATION"
  \/ from = "PAYMENT_PENDING_VERIFICATION" /\ to = "READY_FOR_PAYMENT"
  \/ from = "SELLER_PREPARING" /\ to = "SHIPPED"

LEMMA MoveIs ==
  ASSUME RoomInv, NEW r \in Requests,
         SubmitReceiptWrite(r) \/ RejectProofWrite(r) \/ ShipWrite(r)
  PROVE  \E d \in Deals, to \in RestingStatuses :
           /\ d = call[r].deal /\ call[r].op \in MoneyCalls
           /\ Move(call[r].kept.seen, to)
           /\ IF to = "PAYMENT_PENDING_VERIFICATION"
              THEN receipts' = [receipts EXCEPT ![d] = @ + 1]
              ELSE UNCHANGED receipts
           /\ status' = [status EXCEPT ![d] = to]
           /\ Close(r)
           /\ UNCHANGED <<terms, party, held, paidOut, confirmed, openDispute>>
           /\ FundsTyped /\ \A e \in Deals \ {d} : SameFunds(e)
<1>1. call[r].op \in {"submitReceipt", "rejectProof", "ship"}
  BY DEF SubmitReceiptWrite, RejectProofWrite, ShipWrite
<1>2. PICK d \in Deals :
        d = call[r].deal /\ call[r].kept.seen \in FoundIn(call[r].op)
  BY <1>1, MoneyCallIs DEF MoneyCalls
<1>3. PICK to \in RestingStatuses :
        /\ Move(call[r].kept.seen, to)
        /\ IF to = "PAYMENT_PENDING_VERIFICATION"
           THEN receipts' = [receipts EXCEPT ![d] = @ + 1]
           ELSE UNCHANGED receipts
        /\ status' = [status EXCEPT ![d] = to]
  BY <1>1, <1>2, FoundInTable
  DEF SubmitReceiptWrite, RejectProofWrite, ShipWrite, Transition, escrow, Move,
      RestingStatuses
<1>4. Close(r) /\ UNCHANGED <<terms, party, held, paidOut, confirmed, openDispute>>
  BY DEF SubmitReceiptWrite, RejectProofWrite, ShipWrite, escrow
<1>5. FundsTyped /\ \A e \in Deals \ {d} : SameFunds(e)
  <2>1. CASE UNCHANGED receipts
    BY <1>4, <2>1 DEF FundsTyped, SameFunds, RoomInv, RoomTypeOK
  <2>2. CASE receipts' = [receipts EXCEPT ![d] = @ + 1]
    BY <1>4, <2>2 DEF FundsTyped, SameFunds, RoomInv, RoomTypeOK
  <2> QED
    BY <1>3, <2>1, <2>2
<1> QED
  BY <1>1, <1>2, <1>3, <1>4, <1>5 DEF MoneyCalls

\* The buyer confirms, and the call goes on to the release.
LEMMA ConfirmIs ==
  ASSUME RoomInv, NEW r \in Requests, ConfirmWrite(r)
  PROVE  \E d \in Deals :
           /\ d = call[r].deal /\ call[r].op \in MoneyCalls
           /\ call[r].kept.seen = "SHIPPED"
           /\ confirmed' = [confirmed EXCEPT ![d] = TRUE]
           /\ status' = [status EXCEPT ![d] = "RELEASE_PENDING"]
           /\ call' \in [Requests -> RoomCalls \cup {Idle}]
           /\ \A s \in Requests \ {r} : call'[s] = call[s]
           /\ call'[r].op = "settle" /\ call'[r].deal = d
           /\ UNCHANGED <<terms, party, held, paidOut, receipts, openDispute>>
           /\ FundsTyped /\ \A e \in Deals \ {d} : SameFunds(e)
<1>1. call[r].op = "confirm"
  BY DEF ConfirmWrite
<1>2. PICK d \in Deals :
        /\ d = call[r].deal /\ call[r].by = Nobody
        /\ call[r].kept \in [seen : DealStatuses, terms : Terms]
        /\ call[r].kept.seen = "SHIPPED"
  BY <1>1, MoneyCallIs, FoundInTable DEF MoneyCalls
<1>3. PICK kept \in [seen : DealStatuses, terms : Terms] : kept = call[r].kept
  BY <1>2
<1>4. /\ confirmed' = [confirmed EXCEPT ![d] = TRUE]
      /\ status' = [status EXCEPT ![d] = "RELEASE_PENDING"]
      /\ call' = [call EXCEPT ![r] = Call("settle", d, Nobody, kept)]
      /\ UNCHANGED <<terms, party, held, paidOut, receipts, openDispute>>
  BY <1>2, <1>3 DEF ConfirmWrite, InsertConfirmation, Transition, Become
<1>5. Call("settle", d, Nobody, kept) \in RoomCalls
  BY DEF Call, RoomCalls, EscrowCalls
<1>6. /\ call' \in [Requests -> RoomCalls \cup {Idle}]
      /\ \A s \in Requests \ {r} : call'[s] = call[s]
      /\ call'[r] = Call("settle", d, Nobody, kept)
  BY <1>4, <1>5 DEF RoomInv, RoomTypeOK
<1>7. call'[r].op = "settle" /\ call'[r].deal = d
  BY <1>6 DEF Call
<1>8. FundsTyped /\ \A e \in Deals \ {d} : SameFunds(e)
  BY <1>4 DEF FundsTyped, SameFunds, RoomInv, RoomTypeOK
<1> QED
  BY <1>1, <1>2, <1>4, <1>6, <1>7, <1>8 DEF MoneyCalls

\* A dispute is opened.
LEMMA DisputeIs ==
  ASSUME RoomInv, NEW r \in Requests, OpenDisputeWrite(r)
  PROVE  \E d \in Deals :
           /\ d = call[r].deal /\ call[r].op \in MoneyCalls
           /\ call[r].kept.seen \in {"PAYMENT_PENDING_VERIFICATION",
                                     "SELLER_PREPARING", "SHIPPED"}
           /\ openDispute' = [openDispute EXCEPT ![d] = TRUE]
           /\ status' = [status EXCEPT ![d] = "DISPUTED"]
           /\ Close(r)
           /\ UNCHANGED <<terms, party, held, paidOut, receipts, confirmed>>
           /\ FundsTyped /\ \A e \in Deals \ {d} : SameFunds(e)
<1>1. call[r].op = "openDispute"
  BY DEF OpenDisputeWrite
<1>2. PICK d \in Deals :
        /\ d = call[r].deal
        /\ call[r].kept.seen \in {"PAYMENT_PENDING_VERIFICATION",
                                  "SELLER_PREPARING", "SHIPPED"}
  BY <1>1, MoneyCallIs, FoundInTable DEF MoneyCalls
<1>3. /\ openDispute' = [openDispute EXCEPT ![d] = TRUE]
      /\ status' = [status EXCEPT ![d] = "DISPUTED"]
      /\ Close(r)
      /\ UNCHANGED <<terms, party, held, paidOut, receipts, confirmed>>
  BY <1>2 DEF OpenDisputeWrite, Transition
<1>4. FundsTyped /\ \A e \in Deals \ {d} : SameFunds(e)
  BY <1>3 DEF FundsTyped, SameFunds, RoomInv, RoomTypeOK
<1> QED
  BY <1>1, <1>2, <1>3, <1>4 DEF MoneyCalls

\* Money leaves escrow, whichever way it goes.
LEMMA PayOutIs ==
  ASSUME RoomInv, NEW r \in Requests,
         AutoReleaseWrite(r) \/ AdminReleaseWrite(r) \/ AdminRefundWrite(r)
  PROVE  \E d \in Deals, t \in Terms, final \in Settled :
           /\ d = call[r].deal /\ t = call[r].kept.terms /\ Amount[t] \in Nat \ {0}
           /\ call[r].op \in MoneyCalls
           /\ held'[d] = held[d] - Amount[t]
           /\ TimesPaidOut(d)' = TimesPaidOut(d) + 1
           /\ status' = [status EXCEPT ![d] = final]
           /\ \/ call[r].kept.seen = "RELEASE_PENDING" /\ UNCHANGED openDispute
              \/ call[r].kept.seen = "DISPUTED" /\ ~openDispute'[d]
           /\ Close(r)
           /\ UNCHANGED <<terms, party, receipts, confirmed>>
           /\ FundsTyped /\ \A e \in Deals \ {d} : SameFunds(e)
<1>1. call[r].op \in {"autoRelease", "adminRelease", "adminRefund"}
  BY DEF AutoReleaseWrite, AdminReleaseWrite, AdminRefundWrite
<1>2. PICK d \in Deals, t \in Terms :
        /\ d = call[r].deal /\ t = call[r].kept.terms /\ Amount[t] \in Nat \ {0}
        /\ call[r].kept.seen \in FoundIn(call[r].op)
        /\ held[d] \in Int /\ paidOut[d] \in [Ways -> Nat]
  BY <1>1, MoneyCallIs DEF MoneyCalls
<1>3. PICK way \in Ways, final \in Settled :
        /\ held' = [held EXCEPT ![d] = @ - Amount[t]]
        /\ paidOut' = [paidOut EXCEPT ![d][way] = @ + 1]
        /\ status' = [status EXCEPT ![d] = final]
        /\ \/ call[r].kept.seen = "RELEASE_PENDING" /\ UNCHANGED openDispute
           \/ /\ call[r].kept.seen = "DISPUTED"
              /\ openDispute' = [openDispute EXCEPT ![d] = FALSE]
        /\ Close(r)
        /\ UNCHANGED <<terms, party, receipts, confirmed>>
  BY <1>1, <1>2, FoundInTable
  DEF AutoReleaseWrite, AdminReleaseWrite, AdminRefundWrite, Decide, PayOut,
      ResolveDisputes, Transition, Ways, Settled
<1>4. FundsTyped /\ \A e \in Deals \ {d} : SameFunds(e)
  <2>1. /\ held' \in [Deals -> Int]
        /\ \A e \in Deals \ {d} : held'[e] = held[e]
    BY <1>2, <1>3 DEF RoomInv, RoomTypeOK
  <2>2. /\ paidOut' \in [Deals -> [Ways -> Nat]]
        /\ \A e \in Deals \ {d} : paidOut'[e] = paidOut[e]
    BY <1>2, <1>3 DEF RoomInv, RoomTypeOK
  <2>3. /\ openDispute' \in [Deals -> BOOLEAN]
        /\ \A e \in Deals \ {d} : openDispute'[e] = openDispute[e]
    BY <1>2, <1>3 DEF RoomInv, RoomTypeOK
  <2> QED
    BY <1>3, <2>1, <2>2, <2>3 DEF FundsTyped, SameFunds, RoomInv, RoomTypeOK
<1>5. call[r].op \in MoneyCalls
  BY <1>1 DEF MoneyCalls
<1>6. /\ held'[d] = held[d] - Amount[t]
      /\ TimesPaidOut(d)' = TimesPaidOut(d) + 1
      /\ \/ call[r].kept.seen = "RELEASE_PENDING" /\ UNCHANGED openDispute
         \/ call[r].kept.seen = "DISPUTED" /\ ~openDispute'[d]
  <2>1. RoomTypeOK
    BY DEF RoomInv
  <2>2. held'[d] = held[d] - Amount[t]
    BY <1>3, <2>1 DEF RoomTypeOK
  <2>3. TimesPaidOut(d)' = TimesPaidOut(d) + 1
    <3>1. paidOut \in [Deals -> [Ways -> Nat]]
      BY <2>1 DEF RoomTypeOK
    <3>2. paidOut' = [paidOut EXCEPT ![d][way] = @ + 1]
      BY <1>3
    <3> QED
      BY <3>1, <3>2 DEF TimesPaidOut, Ways
  <2>4. openDispute' = [openDispute EXCEPT ![d] = FALSE] => ~openDispute'[d]
    BY <2>1 DEF RoomTypeOK
  <2> QED
    BY <1>3, <2>2, <2>3, <2>4
<1> QED
  BY <1>2, <1>3, <1>4, <1>5, <1>6

\* The writes of the money half.
MoneyWrite(r) ==
  \/ PayWrite(r) \/ VerifyProofWrite(r)
  \/ SubmitReceiptWrite(r) \/ RejectProofWrite(r) \/ ShipWrite(r)
  \/ ConfirmWrite(r)
  \/ OpenDisputeWrite(r)
  \/ AutoReleaseWrite(r) \/ AdminReleaseWrite(r) \/ AdminRefundWrite(r)

\* Each moves the status of its deal to one past agreement.
LEMMA MoneyWriteIs ==
  ASSUME RoomInv, NEW r \in Requests, MoneyWrite(r)
  PROVE  \E d \in Deals, to \in RestingStatuses \ BeforeAgreement :
           /\ d = call[r].deal /\ call[r].op \in MoneyCalls
           /\ status' = [status EXCEPT ![d] = to]
           /\ UNCHANGED <<terms, party>>
           /\ FundsTyped /\ \A e \in Deals \ {d} : SameFunds(e)
           /\ call' \in [Requests -> RoomCalls \cup {Idle}]
           /\ \A s \in Requests \ {r} : call'[s] = call[s]
           /\ call'[r].op \in {"idle", "settle"}
           /\ call'[r].op = "settle" => call'[r].deal = d
<1> DEFINE Past == RestingStatuses \ BeforeAgreement
<1>0. /\ RoomTypeOK
      /\ \A to : to \in Settled \/ to \in {"SELLER_PREPARING", "RELEASE_PENDING", "DISPUTED"}
                   => to \in Past
      /\ \A from, to : Move(from, to) => to \in Past
  BY DEF RoomInv, Settled, RestingStatuses, BeforeAgreement, Uncreated, Move
<1> HIDE DEF Past
<1>1. CASE PayWrite(r) \/ VerifyProofWrite(r)
  BY <1>0, <1>1, PaymentIs, ClosedCall DEF Past
<1>2. CASE SubmitReceiptWrite(r) \/ RejectProofWrite(r) \/ ShipWrite(r)
  BY <1>0, <1>2, MoveIs, ClosedCall DEF Past
<1>3. CASE ConfirmWrite(r)
  BY <1>0, <1>3, ConfirmIs DEF Past
<1>4. CASE OpenDisputeWrite(r)
  BY <1>0, <1>4, DisputeIs, ClosedCall DEF Past
<1>5. CASE AutoReleaseWrite(r) \/ AdminReleaseWrite(r) \/ AdminRefundWrite(r)
  BY <1>0, <1>5, PayOutIs, ClosedCall DEF Past
<1> QED
  BY <1>1, <1>2, <1>3, <1>4, <1>5 DEF MoneyWrite

LEMMA MoneyWriteKept ==
  ASSUME RoomInv, NEW r \in Requests, MoneyWrite(r),
         UNCHANGED <<negotiation, sections, qr>>
  PROVE  RoomInv'
<1>1. PICK d \in Deals, to \in RestingStatuses \ BeforeAgreement :
        /\ status' = [status EXCEPT ![d] = to]
        /\ UNCHANGED <<terms, party>> /\ FundsTyped
        /\ call' \in [Requests -> RoomCalls \cup {Idle}]
        /\ \A s \in Requests \ {r} : call'[s] = call[s]
        /\ call'[r].op \in {"idle", "settle"}
        /\ call'[r].op = "settle" => call'[r].deal = d
  BY MoneyWriteIs
<1>2. to \in RestingStatuses \ {Uncreated}
  BY DEF BeforeAgreement
<1>3. /\ RowsLast /\ \A e \in Deals : DealInv(e)'
      /\ status' \in [Deals -> RowStatuses]
  BY <1>1, <1>2, StatusMoves
<1>4. RoomTypeOK'
  BY <1>1, <1>3 DEF RoomInv, RoomTypeOK, RowsTypeOK, FundsTyped, negotiation
<1>5. CallInv(r)'
  <2>1. status'[d] # Uncreated
    BY <1>1, <1>2 DEF RoomInv, RoomTypeOK, RowsTypeOK
  <2> QED
    BY <1>1, <2>1 DEF CallInv, Members, Patches, MoneyCalls
<1> QED
  BY <1>1, <1>3, <1>4, <1>5, RoomStep

-----------------------------------------------------------------------------
(* The invariant of the room *)

LEMMA InitRoomInv == DealRoomInit => RoomInv
<1> SUFFICES ASSUME DealRoomInit PROVE RoomInv
  OBVIOUS
<1> USE DEF DealRoomInit, NegotiationInit, MoneyInit, SectionsInit, QrInit
<1>1. PICK t \in CompleteTerms : terms = [d \in Deals |-> t]
  BY CompleteTermsAssumption
<1>2. t \in Terms
  BY CompleteTermsAssumption
<1>3. RowsTypeOK
  BY <1>1, <1>2 DEF RowsTypeOK, RowStatuses
<1>4. active \in [Deals -> [Roles -> [Terms -> Nat]]]
  BY DEF NoApprovals
<1>5. paidOut \in [Deals -> [Ways -> Nat]]
  BY DEF NoPayouts
<1>6. sections \in [Deals -> [FreeSections -> SUBSET Details]]
  OBVIOUS
<1>7. RoomTypeOK
  BY <1>3, <1>4, <1>5, <1>6 DEF RoomTypeOK, InviteStates
<1>8. \A d \in Deals : DealInv(d)
  BY DEF DealInv, Roles, RestingStatuses
<1>9. \A r \in Requests : CallInv(r)
  BY DEF CallInv, Idle
<1> QED
  BY <1>7, <1>8, <1>9 DEF RoomInv

\* Every step keeps it, whatever overlaps.
LEMMA StepRoomInv == RoomInv /\ [DealRoomNext]_dealRoomVars => RoomInv'
<1> SUFFICES ASSUME RoomInv, [DealRoomNext]_dealRoomVars PROVE RoomInv'
  OBVIOUS
<1>1. CASE NegotiationStep /\ UNCHANGED <<escrow, sections, qr>>
  <2>1. ASSUME NEW d \in Deals, ExpireInvite(d) PROVE RoomInv'
    <3>1. /\ invite' = [invite EXCEPT ![d] = "expired"]
          /\ UNCHANGED <<status, terms, party, call, filled, active, withdrawn,
                         held, paidOut, receipts, confirmed, openDispute,
                         sections, qr>>
      BY <1>1, <2>1 DEF ExpireInvite, escrow
    <3>2. RoomTypeOK'
      BY <3>1 DEF RoomInv, RoomTypeOK, RowsTypeOK, InviteStates
    <3> QED
      BY <3>1, <3>2, DealsStay, RoomStep
  <2> QED
    BY <1>1, <2>1, CreateKept, NegotiationReads, JoinKept, PatchProductKept,
       PatchParticipantKept, ApproveCheckKept, ApproveWriteKept
    DEF NegotiationStep, NegotiationCall, PatchCall
<1>2. CASE EscrowStep /\ UNCHANGED <<negotiation, sections, qr>>
  <2>1. ASSUME NEW r \in Requests, PayRefused(r) PROVE RoomInv'
    BY <1>2, <2>1, AbortKept DEF PayRefused
  <2> QED
    BY <1>2, <2>1, EscrowReads, SettleKept, MoneyWriteKept
    DEF EscrowStep, EscrowProgress, MoneyWrite
<1>3. CASE SectionStep /\ UNCHANGED <<negotiation, escrow, qr>>
  <2>1. ASSUME NEW r \in Requests, NEW d \in Deals, NEW u \in Users,
               NEW section \in FreeSections, NEW detail \in Details,
               PatchSectionRead(r, d, u, section, detail)
        PROVE  RoomInv'
    <3>1. UNCHANGED <<negotiation, escrow, sections, qr>>
      BY <1>3, <2>1 DEF PatchSectionRead
    <3> QED
      BY <2>1, <3>1, OtherReads
  <2> QED
    BY <1>3, <2>1, PatchSectionKept DEF SectionStep
<1>4. CASE KhqrStep /\ UNCHANGED <<negotiation, escrow, sections>>
  <2>1. ASSUME NEW r \in Requests, NEW d \in Deals, NEW u \in Users,
               GenerateRead(r, d, u)
        PROVE  RoomInv'
    <3>1. UNCHANGED <<negotiation, escrow, sections, qr>>
      BY <1>4, <2>1 DEF GenerateRead
    <3> QED
      BY <2>1, <3>1, OtherReads
  <2> QED
    BY <1>4, <2>1, AllocateKept, StoreQrKept DEF KhqrStep
<1>5. ASSUME NEW r \in Requests, AbortRoom(r) PROVE RoomInv'
  BY <1>5, AbortKept DEF AbortRoom, Abort
<1>6. CASE UNCHANGED dealRoomVars
  <2>1. RoomTypeOK'
    BY <1>6
    DEF dealRoomVars, negotiation, escrow, RoomInv, RoomTypeOK, RowsTypeOK
  <2>2. UNCHANGED <<status, party, call>>
    BY <1>6 DEF dealRoomVars
  <2> QED
    BY <2>1, <2>2, DealsStay, RoomStep
<1> QED
  BY <1>1, <1>2, <1>3, <1>4, <1>5, <1>6 DEF DealRoomNext, RoomWork

\* The history watches the steps of the room.
LEMMA HistoryStepIs ==
  [HistoryNext]_historyVars =>
    \/ DealRoomNext /\ Remember
    \/ UNCHANGED <<dealRoomVars, outdated, missed, late>>
BY DEF HistoryNext, historyVars, history, dealRoomVars, negotiation, escrow

\* The invariant holds of the room with a memory.
LEMMA AlwaysRoomInv == HistorySpec => []RoomInv
<1>1. HistoryInit => RoomInv
  BY InitRoomInv DEF HistoryInit
<1>2. RoomInv /\ [HistoryNext]_historyVars => RoomInv'
  BY HistoryStepIs, StepRoomInv
<1> QED
  BY <1>1, <1>2, PTL DEF HistorySpec

-----------------------------------------------------------------------------
(* Who writes to a deal *)

\* The writes of the negotiation to what others decide on.
AgreementWrite(r) == JoinWrite(r) \/ PatchProductWrite(r) \/ ApproveWrite(r)

\* The money half's requests open a call and change nothing else.
LEMMA RequestsRead ==
  ASSUME NEW r \in Requests, NEW d \in Deals, EscrowRequest(r, d)
  PROVE  UNCHANGED <<status, terms, party, escrow>>
BY DEF EscrowRequest, PaymentRequest, DeliveryRequest, DisputeRequest, PayRead,
   SubmitReceiptRead, VerifyProofRead, RejectProofRead, ShipRead, ConfirmRead,
   OpenDisputeRead, AdminReleaseRead, AdminRefundRead, OpenOnDeal

\* Columns, value by value.
LEMMA ColumnsStay ==
  ASSUME NEW d, status'[d] = status[d], terms'[d] = terms[d],
         active'[d] = active[d], held'[d] = held[d], paidOut'[d] = paidOut[d],
         receipts'[d] = receipts[d], confirmed'[d] = confirmed[d],
         openDispute'[d] = openDispute[d]
  PROVE  Columns(d)' = Columns(d)
BY DEF Columns

\* A call that writes to deals ends or goes on, and writes to its own deal only.
LEMMA CallWrites ==
  ASSUME RoomInv, NEW r \in Requests,
         \/ AgreementWrite(r) /\ UNCHANGED escrow
         \/ MoneyWrite(r) /\ UNCHANGED negotiation
  PROVE  /\ ~IsIdle(r) /\ call[r].deal \in Deals /\ call'[r] # call[r]
         /\ \A e \in Deals \ {call[r].deal} :
              /\ Columns(e)' = Columns(e)
              /\ status'[e] = status[e] /\ held'[e] = held[e]
<1>0. RoomTypeOK
  BY DEF RoomInv
<1> DEFINE Same(e) ==
      /\ status'[e] = status[e] /\ terms'[e] = terms[e]
      /\ active'[e] = active[e] /\ held'[e] = held[e] /\ paidOut'[e] = paidOut[e]
      /\ receipts'[e] = receipts[e] /\ confirmed'[e] = confirmed[e]
      /\ openDispute'[e] = openDispute[e]
<1>1. ASSUME Close(r), call[r].op # "idle"
      PROVE  call'[r] # call[r] /\ ~IsIdle(r)
  BY <1>0, <1>1, ClosedCall DEF IsIdle
<1>2. CASE JoinWrite(r) /\ UNCHANGED escrow
  <2>1. call[r].op # "idle" /\ Close(r)
    BY <1>2 DEF JoinWrite
  <2>2. \A e \in Deals \ {call[r].deal} : Same(e)
    BY <1>0, <1>2 DEF JoinWrite, Transition, escrow, RoomTypeOK, RowsTypeOK
  <2> QED
    BY <1>0, <1>1, <2>1, <2>2, ColumnsStay, CallShape
<1>3. CASE PatchProductWrite(r) /\ UNCHANGED escrow
  <2>1. call[r].op # "idle" /\ Close(r)
    BY <1>3 DEF PatchProductWrite
  <2>2. \A e \in Deals \ {call[r].deal} : Same(e)
    BY <1>0, <1>3
    DEF PatchProductWrite, InvalidateApprovals, Transition, escrow, RoomTypeOK,
        RowsTypeOK
  <2> QED
    BY <1>0, <1>1, <2>1, <2>2, ColumnsStay, CallShape
<1>4. CASE ApproveWrite(r) /\ UNCHANGED escrow
  <2>1. call[r].op # "idle" /\ Close(r) /\ UNCHANGED <<terms, escrow>>
    BY <1>4 DEF ApproveWrite
  <2>2. PICK d \in Deals, role \in Roles, t \in Terms, e \in ColumnEdits :
          /\ d = call[r].deal
          /\ UpsertApproval(d, role, t, e)
          /\ \/ status' = [status EXCEPT ![d] = "READY_FOR_PAYMENT"]
             \/ UNCHANGED status
    BY <1>4, ApprovalIs
  <2>3. \A x \in Deals \ {d} : active'[x] = active[x]
    BY <1>0, <2>2, UpsertIs
  <2>4. \A x \in Deals \ {d} : Same(x)
    BY <1>0, <2>1, <2>2, <2>3 DEF escrow, RoomTypeOK, RowsTypeOK
  <2> QED
    BY <1>1, <2>1, <2>2, <2>4, ColumnsStay
<1>5. CASE MoneyWrite(r) /\ UNCHANGED negotiation
  <2>1. PICK d \in Deals, to \in RestingStatuses \ BeforeAgreement :
          /\ d = call[r].deal /\ call[r].op \in MoneyCalls
          /\ status' = [status EXCEPT ![d] = to]
          /\ UNCHANGED <<terms, party>> /\ \A e \in Deals \ {d} : SameFunds(e)
          /\ call'[r].op \in {"idle", "settle"}
    BY <1>5, MoneyWriteIs
  <2>2. \A e \in Deals \ {d} : Same(e)
    BY <1>0, <1>5, <2>1 DEF SameFunds, negotiation, RoomTypeOK, RowsTypeOK
  <2>3. call'[r] # call[r] /\ ~IsIdle(r)
    BY <2>1 DEF MoneyCalls, IsIdle
  <2> QED
    BY <2>1, <2>2, <2>3, ColumnsStay
<1> QED
  BY <1>2, <1>3, <1>4, <1>5 DEF AgreementWrite

(***************************************************************************)
(* A step that changes the columns of a deal creates it, or is the write   *)
(* of a call on it.                                                        *)
(***************************************************************************)
LEMMA StepWrites ==
  ASSUME RoomInv, DealRoomNext, NEW d \in Deals, Columns(d)' # Columns(d)
  PROVE  \/ /\ \E u \in Users, role \in Roles, t \in CompleteTerms,
                  columns \in SUBSET FilledColumns :
                 CreateDeal(d, u, role, t, columns)
            /\ UNCHANGED escrow
         \/ \E r \in Requests :
              /\ call[r].deal = d /\ WritesTo(r, d)
              /\ \/ AgreementWrite(r) /\ UNCHANGED escrow
                 \/ MoneyWrite(r) /\ UNCHANGED negotiation
<1> USE DEF escrow, negotiation
<1>1. ~UNCHANGED <<status, terms, active, held, paidOut, receipts, confirmed,
                   openDispute>>
  BY ColumnsStay
<1>2. ASSUME NEW r \in Requests,
             \/ AgreementWrite(r) /\ UNCHANGED escrow
             \/ MoneyWrite(r) /\ UNCHANGED negotiation
      PROVE  call[r].deal = d /\ WritesTo(r, d)
  <2>1. /\ ~IsIdle(r) /\ call'[r] # call[r]
        /\ \A e \in Deals \ {call[r].deal} : Columns(e)' = Columns(e)
    BY <1>2, CallWrites
  <2> QED
    BY <2>1 DEF WritesTo
<1>3. ASSUME NEW e \in Deals, NEW u \in Users, NEW role \in Roles,
             NEW t \in CompleteTerms, NEW columns \in SUBSET FilledColumns,
             CreateDeal(e, u, role, t, columns), UNCHANGED escrow
      PROVE  e = d
  <2> SUFFICES ASSUME e # d PROVE FALSE
    OBVIOUS
  <2>1. status'[d] = status[d] /\ terms'[d] = terms[d] /\ active'[d] = active[d]
    BY <1>3 DEF CreateDeal, InsertDeal, Transition, RoomInv, RoomTypeOK, RowsTypeOK
  <2> QED
    BY <1>3, <2>1, ColumnsStay
<1>4. CASE NegotiationStep /\ UNCHANGED <<escrow, sections, qr>>
  <2>1. ASSUME NEW r \in Requests, NegotiationCall(r) PROVE AgreementWrite(r)
    <3>1. ASSUME NEW e \in Deals, NEW u \in Users, JoinRead(r, e, u) \/ ApproveRead(r, e, u)
          PROVE  FALSE
      BY <1>1, <1>4, <3>1 DEF JoinRead, ApproveRead
    <3>2. ASSUME NEW e \in Deals, NEW u \in Users, NEW columns \in ColumnEdits,
                 NEW edit \in Edits, PatchProductRead(r, e, u, columns, edit)
          PROVE  FALSE
      BY <1>1, <1>4, <3>2 DEF PatchProductRead
    <3>3. ASSUME NEW e \in Deals, NEW u \in Users, NEW edit \in {"set", "clear"},
                 PatchParticipantRead(r, e, u, edit)
          PROVE  FALSE
      BY <1>1, <1>4, <3>3 DEF PatchParticipantRead
    <3>4. ~PatchParticipantWrite(r)
      BY <1>1, <1>4 DEF PatchParticipantWrite
    <3>5. ~ApproveCheck(r)
      BY <1>1, <1>4 DEF ApproveCheck
    <3> QED
      BY <2>1, <3>1, <3>2, <3>3, <3>4, <3>5
      DEF NegotiationCall, PatchCall, AgreementWrite
  <2>2. ASSUME NEW e \in Deals, ExpireInvite(e) PROVE FALSE
    BY <1>1, <1>4, <2>2 DEF ExpireInvite
  <2> QED
    BY <1>2, <1>3, <1>4, <2>1, <2>2 DEF NegotiationStep
<1>5. CASE EscrowStep /\ UNCHANGED <<negotiation, sections, qr>>
  <2>1. \E r \in Requests : MoneyWrite(r)
    <3>1. ASSUME NEW r \in Requests, NEW e \in Deals, EscrowRequest(r, e)
          PROVE  FALSE
      BY <1>1, <1>5, <3>1, RequestsRead
    <3>2. ASSUME NEW r \in Requests, PayRefused(r) \/ SettleRead(r) PROVE FALSE
      BY <1>1, <1>5, <3>2 DEF PayRefused, SettleRead
    <3> QED
      BY <1>5, <3>1, <3>2 DEF EscrowStep, EscrowProgress, MoneyWrite
  <2> QED
    BY <1>2, <1>5, <2>1
<1>6. CASE SectionStep /\ UNCHANGED <<negotiation, escrow, qr>>
  BY <1>1, <1>6 DEF SectionStep, PatchSectionRead, PatchSectionWrite
<1>7. CASE KhqrStep /\ UNCHANGED <<negotiation, escrow, sections>>
  BY <1>1, <1>7 DEF KhqrStep, GenerateRead, AllocateNote, StoreQr
<1>8. CASE \E r \in Requests : AbortRoom(r)
  BY <1>1, <1>8 DEF AbortRoom, Abort
<1> QED
  BY <1>4, <1>5, <1>6, <1>7, <1>8 DEF DealRoomNext, RoomWork

-----------------------------------------------------------------------------
(* Deals that nobody wrote to on an older row: what escrow holds *)

\* What escrow holds, what was paid out, and the rows that say why.
DealFunds(d) ==
  LET amount == Amount[terms[d]]
      s == status[d]
  IN  /\ s \in BeforeAgreement \cup
               {"READY_FOR_PAYMENT", "PAYMENT_PENDING_VERIFICATION"}
           => held[d] = 0
      /\ s \in {"SELLER_PREPARING", "SHIPPED", "RELEASE_PENDING"}
           => held[d] = amount
      /\ s = "DISPUTED" => held[d] = amount \/ (held[d] = 0 /\ receipts[d] > 0)
      /\ s \in Settled =>
           \/ held[d] = 0
           \/ held[d] = -amount /\ receipts[d] > 0 /\ ~confirmed[d]
      /\ s = "PAYMENT_PENDING_VERIFICATION" => receipts[d] > 0
      /\ confirmed[d] => s \in {"RELEASE_PENDING"} \cup Settled
      /\ openDispute[d] <=> s = "DISPUTED"
      /\ TimesPaidOut(d) = IF s \in Settled THEN 1 ELSE 0

Funded == \A d \in Deals \ outdated : DealFunds(d)

\* The values a deal's funds are judged by.
LEMMA FundsTypes ==
  ASSUME RoomInv, NEW d \in Deals
  PROVE  /\ status[d] \in RestingStatuses /\ terms[d] \in Terms
         /\ Amount[terms[d]] \in Nat \ {0}
         /\ held[d] \in Int /\ receipts[d] \in Nat /\ paidOut[d] \in [Ways -> Nat]
         /\ confirmed[d] \in BOOLEAN /\ openDispute[d] \in BOOLEAN
BY EscrowAssumption DEF RoomInv, RoomTypeOK, RowsTypeOK, DealInv

\* The negotiation moves a deal without money about among these.
Unpaid == BeforeAgreement \cup {"READY_FOR_PAYMENT"}

LEMMA UnpaidFunds ==
  ASSUME RoomInv, NEW d \in Deals, DealFunds(d), UNCHANGED escrow,
         status[d] \in Unpaid, status'[d] \in Unpaid
  PROVE  DealFunds(d)'
BY DEF DealFunds, Unpaid, BeforeAgreement, Settled, TimesPaidOut, Uncreated, escrow

\* A write of the negotiation that relies on the row as it is.
LEMMA AgreementIs ==
  ASSUME RoomInv, NEW r \in Requests, AgreementWrite(r), RowAsRead(r),
         NEW d \in Deals, call[r].deal = d
  PROVE  /\ \/ status[d] \in Unpaid /\ status'[d] \in Unpaid
            \/ UNCHANGED <<status, terms>>
         /\ \A e \in Deals \ {d} : status'[e] = status[e]
<1> USE DEF RoomTypeOK, RowsTypeOK
<1>0. RoomTypeOK
  BY DEF RoomInv
<1>1. CASE JoinWrite(r)
  BY <1>0, <1>1
  DEF JoinWrite, SpendInvite, Transition, Unpaid, BeforeAgreement
<1>2. CASE PatchProductWrite(r)
  <2>1. status[d] \in EditableStatuses
    BY <1>2 DEF PatchProductWrite, RowAsRead
  <2>2. \/ UNCHANGED status
        \/ status' = [status EXCEPT ![d] = "AWAITING_BOTH_APPROVAL"]
    BY <1>2 DEF PatchProductWrite, Transition
  <2> QED
    BY <1>0, <2>1, <2>2 DEF EditableStatuses, Unpaid, BeforeAgreement
<1>3. CASE ApproveWrite(r)
  <2>1. /\ call[r].op = "approveCommit" /\ call[r].kept.seen = "AWAITING_BOTH_APPROVAL"
        /\ call[r].kept.both \in BOOLEAN
        /\ \/ /\ call[r].kept.both
              /\ status' = [status EXCEPT ![d] = "READY_FOR_PAYMENT"]
           \/ ~call[r].kept.both /\ UNCHANGED status
        /\ UNCHANGED terms
    BY <1>3, ApprovalIs DEF ApproveWrite
  <2> QED
    BY <1>0, <2>1 DEF RowAsRead, Unpaid, BeforeAgreement
<1> QED
  BY <1>1, <1>2, <1>3 DEF AgreementWrite

LEMMA AgreementFunds ==
  ASSUME RoomInv, NEW r \in Requests, AgreementWrite(r), UNCHANGED escrow,
         RowAsRead(r), NEW d \in Deals, call[r].deal = d, DealFunds(d)
  PROVE  DealFunds(d)'
<1>1. CASE status[d] \in Unpaid /\ status'[d] \in Unpaid
  BY <1>1, UnpaidFunds
<1>2. CASE UNCHANGED <<status, terms>>
  BY <1>2 DEF DealFunds, TimesPaidOut, escrow
<1> QED
  BY <1>1, <1>2, AgreementIs

\* A write of the money half that relies on the row as it is.
LEMMA MoneyFunds ==
  ASSUME RoomInv, NEW r \in Requests, MoneyWrite(r), RowAsRead(r),
         NEW d \in Deals, call[r].deal = d, DealFunds(d)
  PROVE  DealFunds(d)'
<1> USE DEF Settled, Uncreated, BeforeAgreement
<1>1. RoomTypeOK /\ status \in [Deals -> RowStatuses] /\ terms \in [Deals -> Terms]
  BY DEF RoomInv, RoomTypeOK, RowsTypeOK
<1>2. ASSUME call[r].op \in MoneyCalls
      PROVE  call[r].kept.seen = status[d] /\ call[r].kept.terms = terms[d]
  BY <1>2 DEF RowAsRead
<1>3. CASE PayWrite(r) \/ VerifyProofWrite(r)
  <2>1. /\ status[d] \in {"READY_FOR_PAYMENT", "PAYMENT_PENDING_VERIFICATION"}
        /\ status'[d] = "SELLER_PREPARING"
        /\ held'[d] = held[d] + Amount[terms[d]]
        /\ UNCHANGED <<terms, paidOut, receipts, confirmed, openDispute>>
    BY <1>1, <1>2, <1>3, PaymentIs DEF RoomTypeOK
  <2> QED
    BY <2>1, FundsTypes DEF DealFunds, TimesPaidOut
<1>4. CASE SubmitReceiptWrite(r) \/ RejectProofWrite(r) \/ ShipWrite(r)
  <2>1. PICK to \in RestingStatuses :
          /\ Move(status[d], to) /\ status'[d] = to
          /\ IF to = "PAYMENT_PENDING_VERIFICATION"
             THEN receipts'[d] = receipts[d] + 1
             ELSE UNCHANGED receipts
          /\ UNCHANGED <<terms, held, paidOut, confirmed, openDispute>>
    BY <1>1, <1>2, <1>4, MoveIs DEF RoomTypeOK
  <2> QED
    BY <2>1, FundsTypes DEF DealFunds, TimesPaidOut, Move
<1>5. CASE ConfirmWrite(r)
  <2>1. /\ status[d] = "SHIPPED" /\ status'[d] = "RELEASE_PENDING"
        /\ confirmed'[d] = TRUE
        /\ UNCHANGED <<terms, held, paidOut, receipts, openDispute>>
    BY <1>1, <1>2, <1>5, ConfirmIs DEF RoomTypeOK
  <2> QED
    BY <2>1, FundsTypes DEF DealFunds, TimesPaidOut
<1>6. CASE OpenDisputeWrite(r)
  <2>1. /\ status[d] \in {"PAYMENT_PENDING_VERIFICATION", "SELLER_PREPARING", "SHIPPED"}
        /\ status'[d] = "DISPUTED" /\ openDispute'[d] = TRUE
        /\ UNCHANGED <<terms, held, paidOut, receipts, confirmed>>
    BY <1>1, <1>2, <1>6, DisputeIs DEF RoomTypeOK
  <2> QED
    BY <2>1, FundsTypes DEF DealFunds, TimesPaidOut
<1>7. CASE AutoReleaseWrite(r) \/ AdminReleaseWrite(r) \/ AdminRefundWrite(r)
  <2>1. PICK final \in Settled :
          /\ held'[d] = held[d] - Amount[terms[d]]
          /\ TimesPaidOut(d)' = TimesPaidOut(d) + 1
          /\ status'[d] = final
          /\ \/ status[d] = "RELEASE_PENDING" /\ UNCHANGED openDispute
             \/ status[d] = "DISPUTED" /\ ~openDispute'[d]
          /\ UNCHANGED <<terms, receipts, confirmed>>
    BY <1>1, <1>2, <1>7, PayOutIs
  <2>2. TimesPaidOut(d) = 0
    BY <2>1 DEF DealFunds
  <2> QED
    BY <2>1, <2>2, FundsTypes DEF DealFunds
<1> QED
  BY <1>3, <1>4, <1>5, <1>6, <1>7 DEF MoneyWrite

\* Whoever writes to a deal that is not outdated afterwards relied on the row.
LEMMA ReliedOnRow ==
  ASSUME Remember, NEW d \in Deals \ outdated', NEW r \in Requests, WritesTo(r, d)
  PROVE  RowAsRead(r)
BY DEF Remember

LEMMA FundedStep ==
  ASSUME RoomInv, Funded, [HistoryNext]_historyVars
  PROVE  Funded'
<1>1. CASE UNCHANGED <<dealRoomVars, outdated, missed, late>>
  BY <1>1 DEF Funded, DealFunds, TimesPaidOut, dealRoomVars, escrow
<1>2. CASE DealRoomNext /\ Remember
  <2> SUFFICES ASSUME NEW d \in Deals \ outdated' PROVE DealFunds(d)'
    BY DEF Funded
  <2>1. DealFunds(d)
    BY <1>2 DEF Funded, Remember
  <2>2. CASE Columns(d)' = Columns(d)
    BY <2>1, <2>2 DEF Columns, DealFunds, TimesPaidOut
  <2>3. ASSUME NEW u \in Users, NEW role \in Roles, NEW t \in CompleteTerms,
               NEW columns \in SUBSET FilledColumns,
               CreateDeal(d, u, role, t, columns), UNCHANGED escrow
        PROVE  DealFunds(d)'
    <3>1. status[d] \in Unpaid /\ status'[d] \in Unpaid
      BY <2>3
      DEF CreateDeal, InsertDeal, Transition, Unpaid, BeforeAgreement, RoomInv,
          RoomTypeOK, RowsTypeOK
    <3> QED
      BY <2>1, <2>3, <3>1, UnpaidFunds
  <2>4. ASSUME NEW r \in Requests, call[r].deal = d, WritesTo(r, d),
               \/ AgreementWrite(r) /\ UNCHANGED escrow
               \/ MoneyWrite(r) /\ UNCHANGED negotiation
        PROVE  DealFunds(d)'
    BY <1>2, <2>1, <2>4, ReliedOnRow, AgreementFunds, MoneyFunds
  <2> QED
    BY <1>2, <2>2, <2>3, <2>4, StepWrites
<1> QED
  BY <1>1, <1>2, HistoryStepIs

LEMMA AlwaysFunded == HistorySpec => []Funded
<1>1. HistoryInit => Funded
  BY DEF HistoryInit, DealRoomInit, NegotiationInit, MoneyInit, NoPayouts, Funded,
     DealFunds, TimesPaidOut, Settled, Uncreated, Ways
<1>2. RoomInv /\ Funded /\ [HistoryNext]_historyVars => Funded'
  BY FundedStep
<1> QED
  BY <1>1, <1>2, AlwaysRoomInv, PTL DEF HistorySpec

(***************************************************************************)
(* A deal that nobody wrote to on an older row is paid out exactly when it *)
(* is settled, and then once, whatever else overlaps on it.                *)
(***************************************************************************)
THEOREM PaidOutTheorem == HistorySpec => []PaidOutIffSettled
<1>1. Funded => PaidOutIffSettled
  BY DEF Funded, Intact, DealFunds, PaidOutIffSettled
<1> QED
  BY <1>1, AlwaysFunded, PTL

(***************************************************************************)
(* What escrow holds for such a deal follows from its status and terms.    *)
(***************************************************************************)
THEOREM HeldTheorem == HistorySpec => []HeldMatchesStatus
<1>1. RoomInv /\ Funded => HeldMatchesStatus
  <2> SUFFICES ASSUME RoomInv, Funded, NEW d \in Intact
               PROVE  HeldMatchesStatus!(d)
    BY DEF HeldMatchesStatus
  <2>1. d \in Deals /\ DealFunds(d) /\ Amount[terms[d]] > 0 /\ held[d] \in Int
        /\ status[d] \in RestingStatuses
    BY FundsTypes DEF Funded, Intact
  <2>2. held[d] = -Amount[terms[d]] => receipts[d] > 0 /\ ~confirmed[d]
    BY <2>1, FundsTypes
    DEF DealFunds, RestingStatuses, Settled, BeforeAgreement
  <2> QED
    BY <2>1, <2>2 DEF DealFunds
<1> QED
  BY <1>1, AlwaysFunded, AlwaysRoomInv, PTL

\* A dispute of such a deal is open exactly while the deal is DISPUTED.
THEOREM DisputeTheorem == HistorySpec => []DisputeMatchesStatus
<1>1. Funded => DisputeMatchesStatus
  BY DEF Funded, Intact, DealFunds, DisputeMatchesStatus
<1> QED
  BY <1>1, AlwaysFunded, PTL

-----------------------------------------------------------------------------
(* Deals on which nobody relied on older approvals either: consent *)

\* One live row for each side, and what a deal's status says about them.
DealApprovals(d) ==
  /\ \A role \in Roles :
       /\ \A t \in Terms : active[d][role][t] <= 1
       /\ \A t, u \in Terms :
            active[d][role][t] > 0 /\ active[d][role][u] > 0 => t = u
  /\ status[d] \notin BeforeAgreement =>
       \E t \in Terms : Approved(d, t) /\ terms[d] \in {t, Defaulted[t]}
  /\ status[d] = "AWAITING_BOTH_APPROVAL" => \A t \in Terms : ~Approved(d, t)
  /\ status[d] \in {Uncreated, "AWAITING_COUNTERPARTY"} =>
       \A role \in Roles, t \in Terms : active[d][role][t] = 0

Consented == \A d \in Understood : DealApprovals(d)

\* The side that approves has one live row afterwards, for the current terms.
LEMMA UpsertLeavesOne ==
  ASSUME RoomTypeOK, NEW d \in Deals, DealApprovals(d), NEW role \in Roles,
         NEW e \in LiveRow(d, role), e \in ColumnEdits,
         UpsertApproval(d, role, terms[d], e)
  PROVE  /\ \A side \in Roles \ {role} : active'[d][side] = active[d][side]
         /\ \A t \in Terms :
              active'[d][role][t] = IF t = terms[d] THEN 1 ELSE 0
<1> DEFINE rows == active[d][role]
           now == terms[d]
<1>1. rows \in [Terms -> Nat] /\ now \in Terms
  BY DEF RoomTypeOK, RowsTypeOK
<1>2. /\ \A t \in Terms : rows[t] <= 1
      /\ \A t, u \in Terms : rows[t] > 0 /\ rows[u] > 0 => t = u
  BY DEF DealApprovals
<1>3. \/ e = {} /\ \A t \in Terms : rows[t] = 0
      \/ \E t \in Terms : e = {t} /\ rows[t] > 0
  BY <1>1 DEF LiveRow
<1>4. /\ \A side \in Roles \ {role} : active'[d][side] = active[d][side]
      /\ \A v \in Terms : active'[d][role][v] =
           IF v \in e \ {now} /\ rows[v] > 0 THEN rows[v] - 1
           ELSE IF v = now /\ now \notin e THEN rows[v] + 1
           ELSE rows[v]
  BY <1>1, UpsertIs
<1> QED
  BY <1>1, <1>2, <1>3, <1>4

\* A side's approval of the terms as they are, with the other's seen as it is.
LEMMA ApproveApprovals ==
  ASSUME RoomInv, NEW r \in Requests, ApproveWrite(r), ApprovalsAsRead(r),
         NEW d \in Deals, call[r].deal = d, DealApprovals(d)
  PROVE  DealApprovals(d)'
<1>0. RoomTypeOK
  BY DEF RoomInv
<1>1. PICK role \in Roles, e \in ColumnEdits, both \in BOOLEAN :
        /\ role = RoleOf(d, call[r].by)
        /\ e = call[r].kept.existing /\ both = call[r].kept.both
        /\ call[r].kept.seen = "AWAITING_BOTH_APPROVAL"
        /\ UpsertApproval(d, role, call[r].kept.terms, e)
        /\ \/ both /\ status' = [status EXCEPT ![d] = "READY_FOR_PAYMENT"]
           \/ ~both /\ UNCHANGED status
  BY ApprovalIs
<1>2. /\ status[d] = "AWAITING_BOTH_APPROVAL" /\ call[r].kept.terms = terms[d]
      /\ e \in LiveRow(d, role)
      /\ both = (active[d][OppositeRole(role)][terms[d]] > 0)
      /\ UNCHANGED terms
  BY <1>1 DEF ApprovalsAsRead, ApproveWrite, BothApproved
<1>3. /\ \A side \in Roles \ {role} : active'[d][side] = active[d][side]
      /\ \A t \in Terms : active'[d][role][t] = IF t = terms[d] THEN 1 ELSE 0
  BY <1>0, <1>1, <1>2, UpsertLeavesOne
<1>4. PICK other \in Roles :
        other = OppositeRole(role) /\ other # role /\ Roles = {role, other}
  BY TwoRoles
<1>5. /\ \A side \in Roles, t \in Terms : active[d][side][t] \in Nat
      /\ terms[d] \in Terms
  BY <1>0 DEF RoomTypeOK, RowsTypeOK
<1>6. \A side \in Roles :
        /\ \A t \in Terms : active'[d][side][t] <= 1
        /\ \A t, u \in Terms :
             active'[d][side][t] > 0 /\ active'[d][side][u] > 0 => t = u
  BY <1>3, <1>4, <1>5 DEF DealApprovals
<1>7. CASE both
  <2>1. status'[d] = "READY_FOR_PAYMENT"
    BY <1>0, <1>1, <1>7 DEF RoomTypeOK, RowsTypeOK
  <2>2. active[d][other][terms[d]] > 0
    BY <1>2, <1>4, <1>7
  <2>3. active'[d][role][terms[d]] > 0 /\ active'[d][other][terms[d]] > 0
    BY <1>3, <1>4, <1>5, <2>2
  <2>4. Approved(d, terms[d])'
    BY <1>2, <1>4, <2>3 DEF Approved
  <2> QED
    BY <1>2, <1>5, <1>6, <2>1, <2>4 DEF DealApprovals, Uncreated, BeforeAgreement
<1>8. CASE ~both
  <2>1. status'[d] = "AWAITING_BOTH_APPROVAL"
    BY <1>1, <1>2, <1>8
  <2>2. ~(active[d][other][terms[d]] > 0)
    BY <1>2, <1>4, <1>8
  <2>3. ASSUME NEW t \in Terms
        PROVE  ~(active'[d][role][t] > 0) \/ ~(active'[d][other][t] > 0)
    BY <1>3, <1>4, <1>5, <2>2
  <2>4. \A t \in Terms : ~Approved(d, t)'
    BY <1>4, <2>3 DEF Approved
  <2> QED
    BY <1>6, <2>1, <2>4 DEF DealApprovals, Uncreated, BeforeAgreement
<1> QED
  BY <1>7, <1>8

\* A patch that takes the deal back with its approvals, or was no material one.
LEMMA PatchApprovals ==
  ASSUME RoomInv, NEW r \in Requests, PatchProductWrite(r), RowAsRead(r),
         ApprovalsAsRead(r), NEW d \in Deals, call[r].deal = d, DealApprovals(d)
  PROVE  DealApprovals(d)'
<1>0. RoomTypeOK
  BY DEF RoomInv
<1>1. PICK new \in Terms :
        /\ \/ call[r].kept.columns = {} /\ new = terms[d]
           \/ call[r].kept.columns = {new}
        /\ terms' = [terms EXCEPT ![d] = new]
  BY <1>0, PatchIs
<1>2. /\ terms'[d] = new /\ terms[d] \in Terms
      /\ active \in [Deals -> [Roles -> [Terms -> Nat]]]
      /\ status \in [Deals -> RowStatuses]
  BY <1>0, <1>1 DEF RoomTypeOK, RowsTypeOK
<1>3. CASE /\ InvalidateApprovals(d)
           /\ \/ status[d] = "AWAITING_BOTH_APPROVAL" /\ UNCHANGED status
              \/ Transition(d, status[d], "AWAITING_BOTH_APPROVAL")
  <2>1. \A role \in Roles, t \in Terms : active'[d][role][t] = 0
    BY <1>2, <1>3 DEF InvalidateApprovals, NoApprovals
  <2>2. status'[d] = "AWAITING_BOTH_APPROVAL"
    BY <1>2, <1>3 DEF Transition
  <2>3. \A t \in Terms : ~Approved(d, t)'
    BY <2>1 DEF Approved, Roles
  <2> QED
    BY <2>1, <2>2, <2>3 DEF DealApprovals, Uncreated, BeforeAgreement
<1>4. CASE ~IsMaterial(d, call[r].kept.columns) /\ UNCHANGED <<status, active>>
  <2>1. new \in {terms[d], Defaulted[terms[d]]}
    BY <1>1, <1>4 DEF IsMaterial
  <2>2. \A t \in Terms : Approved(d, t)' <=> Approved(d, t)
    BY <1>4 DEF Approved
  <2>3. ASSUME NEW t \in Terms, terms[d] \in {t, Defaulted[t]}
        PROVE  terms'[d] \in {t, Defaulted[t]}
    BY <1>2, <2>1, <2>3, DefaultedAssumption
  <2> QED
    BY <1>4, <2>2, <2>3 DEF DealApprovals
<1>5. call[r].kept.material = IsMaterial(d, call[r].kept.columns)
  BY DEF PatchProductWrite, ApprovalsAsRead
<1>6. \/ /\ call[r].kept.material /\ InvalidateApprovals(d)
         /\ \/ status[d] = "AWAITING_BOTH_APPROVAL" /\ UNCHANGED status
            \/ Transition(d, status[d], "AWAITING_BOTH_APPROVAL")
      \/ ~call[r].kept.material /\ UNCHANGED <<status, active>>
  BY DEF PatchProductWrite
<1> QED
  BY <1>3, <1>4, <1>5, <1>6

LEMMA AgreementApprovals ==
  ASSUME RoomInv, NEW r \in Requests, AgreementWrite(r), RowAsRead(r),
         ApprovalsAsRead(r), NEW d \in Deals, call[r].deal = d, DealApprovals(d)
  PROVE  DealApprovals(d)'
<1>1. CASE JoinWrite(r)
  <2>1. /\ status[d] = "AWAITING_COUNTERPARTY"
        /\ status'[d] = "AWAITING_BOTH_APPROVAL" /\ UNCHANGED <<terms, active>>
    BY <1>1 DEF JoinWrite, SpendInvite, Transition, RoomInv, RoomTypeOK, RowsTypeOK
  <2> QED
    BY <2>1 DEF DealApprovals, Approved, Roles, Uncreated, BeforeAgreement
<1> QED
  BY <1>1, PatchApprovals, ApproveApprovals DEF AgreementWrite

\* The money half starts from an agreed deal and leaves the approvals alone.
LEMMA MoneyApprovals ==
  ASSUME RoomInv, NEW r \in Requests, MoneyWrite(r), UNCHANGED negotiation,
         RowAsRead(r), NEW d \in Deals, call[r].deal = d, DealApprovals(d)
  PROVE  DealApprovals(d)'
<1>1. PICK to \in RestingStatuses \ BeforeAgreement :
        /\ call[r].op \in MoneyCalls
        /\ status' = [status EXCEPT ![d] = to] /\ UNCHANGED terms
  BY MoneyWriteIs
<1>2. status[d] \in FoundIn(call[r].op)
  BY <1>1, MoneyCallIs DEF RowAsRead
<1>3. status[d] \notin BeforeAgreement
  BY <1>1, <1>2, FoundInTable
  DEF MoneyCalls, BeforeAgreement, Uncreated, DisputableStatuses
<1>4. status'[d] \notin BeforeAgreement
  BY <1>1 DEF RoomInv, RoomTypeOK, RowsTypeOK
<1> QED
  BY <1>1, <1>3, <1>4
  DEF DealApprovals, Approved, negotiation, BeforeAgreement, Uncreated

\* Whoever writes to a deal that is not missed afterwards relied on the approvals.
LEMMA ReliedOnApprovals ==
  ASSUME Remember, NEW d \in Deals \ missed', NEW r \in Requests, WritesTo(r, d)
  PROVE  ApprovalsAsRead(r)
BY DEF Remember

LEMMA ConsentedStep ==
  ASSUME RoomInv, Consented, [HistoryNext]_historyVars
  PROVE  Consented'
<1>1. CASE UNCHANGED <<dealRoomVars, outdated, missed, late>>
  BY <1>1
  DEF Consented, Understood, Intact, DealApprovals, Approved, dealRoomVars,
      negotiation
<1>2. CASE DealRoomNext /\ Remember
  <2> SUFFICES ASSUME NEW d \in Deals, d \notin outdated', d \notin missed'
               PROVE  DealApprovals(d)'
    BY DEF Consented, Understood, Intact
  <2>1. DealApprovals(d)
    BY <1>2 DEF Consented, Understood, Intact, Remember
  <2>2. CASE Columns(d)' = Columns(d)
    BY <2>1, <2>2 DEF Columns, DealApprovals, Approved
  <2>3. ASSUME NEW u \in Users, NEW role \in Roles, NEW t \in CompleteTerms,
               NEW columns \in SUBSET FilledColumns,
               CreateDeal(d, u, role, t, columns)
        PROVE  DealApprovals(d)'
    <3>1. /\ status[d] = Uncreated /\ status'[d] = "AWAITING_COUNTERPARTY"
          /\ UNCHANGED active
      BY <2>3
      DEF CreateDeal, InsertDeal, Transition, RoomInv, RoomTypeOK, RowsTypeOK
    <3> QED
      BY <2>1, <3>1 DEF DealApprovals, Uncreated, BeforeAgreement
  <2>4. ASSUME NEW r \in Requests, call[r].deal = d, WritesTo(r, d),
               \/ AgreementWrite(r) /\ UNCHANGED escrow
               \/ MoneyWrite(r) /\ UNCHANGED negotiation
        PROVE  DealApprovals(d)'
    <3>1. RowAsRead(r) /\ ApprovalsAsRead(r)
      BY <1>2, <2>4, ReliedOnRow, ReliedOnApprovals
    <3> QED
      BY <2>1, <2>4, <3>1, AgreementApprovals, MoneyApprovals
  <2> QED
    BY <1>2, <2>2, <2>3, <2>4, StepWrites
<1> QED
  BY <1>1, <1>2, HistoryStepIs

LEMMA AlwaysConsented == HistorySpec => []Consented
<1>1. HistoryInit => Consented
  BY DEF HistoryInit, DealRoomInit, NegotiationInit, NoApprovals, Consented,
     Understood, Intact, DealApprovals, Uncreated, BeforeAgreement
<1>2. RoomInv /\ Consented /\ [HistoryNext]_historyVars => Consented'
  BY ConsentedStep
<1> QED
  BY <1>1, <1>2, AlwaysRoomInv, PTL DEF HistorySpec

(***************************************************************************)
(* A deal on which nobody relied on an older row or on older approvals is  *)
(* payable, or further, only with live approvals by both sides of its      *)
(* terms, or of terms that an absent description sets apart.               *)
(***************************************************************************)
THEOREM ConsentTheorem == HistorySpec => []ConsentStands
<1>1. Consented => ConsentStands
  BY DEF Consented, DealApprovals, ConsentStands
<1> QED
  BY <1>1, AlwaysConsented, PTL

\* Once both sides approve the same terms of such a deal, it does not wait.
THEOREM ApprovedTheorem == HistorySpec => []ApprovedMeansPayable
<1>1. Consented => ApprovedMeansPayable
  BY DEF Consented, DealApprovals, ApprovedMeansPayable
<1> QED
  BY <1>1, AlwaysConsented, PTL

\* A side of such a deal has one live approval row at most.
THEOREM OneApprovalTheorem == HistorySpec => []OneLiveApproval
<1>1. Consented => OneLiveApproval
  BY DEF Consented, DealApprovals, OneLiveApproval
<1> QED
  BY <1>1, AlwaysConsented, PTL

-----------------------------------------------------------------------------
(* Such deals keep the escrow contract *)

Prices == {Amount[t] : t \in Terms}

\* The moves of one deal that the contract admits, in terms of phase and stake.
ContractMove(d) ==
  LET from == PhaseOf(d)
      to == PhaseOf(d)'
  IN  \/ /\ \/ from = "open" /\ to = "agreed"
            \/ from = "agreed" /\ to \in {"open", "claimed"}
         /\ held'[d] = held[d]
      \/ from = "agreed" /\ to = "escrowed" /\ held'[d] \in Prices
      \/ from = "escrowed" /\ to \in {"released", "refunded"} /\ held'[d] = 0
      \/ /\ from = "claimed" /\ to \in {"released", "refunded"}
         /\ \E price \in Prices : held'[d] = -price

SamePhase(d) == PhaseOf(d)' = PhaseOf(d) /\ held'[d] = held[d]

\* A move of one deal, the others staying as they are, is a step of the contract.
LEMMA MoveKeepsContract ==
  ASSUME RoomTypeOK, RoomTypeOK', NEW d \in Deals, ContractMove(d),
         \A e \in Deals \ {d} : status'[e] = status[e] /\ held'[e] = held[e]
  PROVE  Contract!Step(d)
<1> DEFINE phase == [e \in Deals |-> PhaseOf(e)]
<1>1. \A e \in Deals \ {d} : PhaseOf(e)' = PhaseOf(e)
  BY DEF PhaseOf
<1>2. phase' = [phase EXCEPT ![d] = PhaseOf(d)'] /\ phase[d] = PhaseOf(d)
  BY <1>1
<1>3. held' = [held EXCEPT ![d] = held'[d]]
  BY DEF RoomTypeOK
<1>4. held'[d] = held[d] => held' = held
  BY DEF RoomTypeOK
<1> USE DEF Contract!Step, Prices
<1>5. CASE PhaseOf(d) = "open" /\ PhaseOf(d)' = "agreed" /\ held'[d] = held[d]
  BY <1>2, <1>4, <1>5 DEF Contract!Agree
<1>6. CASE PhaseOf(d) = "agreed" /\ PhaseOf(d)' = "open" /\ held'[d] = held[d]
  BY <1>2, <1>4, <1>6 DEF Contract!Reopen
<1>7. CASE PhaseOf(d) = "agreed" /\ PhaseOf(d)' = "claimed" /\ held'[d] = held[d]
  BY <1>2, <1>4, <1>7 DEF Contract!Contest
<1>8. CASE /\ PhaseOf(d) = "agreed" /\ PhaseOf(d)' = "escrowed"
           /\ held'[d] \in Prices
  BY <1>2, <1>3, <1>8 DEF Contract!Fund
<1>9. CASE /\ PhaseOf(d) = "escrowed" /\ PhaseOf(d)' \in {"released", "refunded"}
           /\ held'[d] = 0
  BY <1>2, <1>3, <1>9 DEF Contract!Settle, Contract!Outcomes
<1>10. CASE /\ PhaseOf(d) = "claimed" /\ PhaseOf(d)' \in {"released", "refunded"}
            /\ \E price \in Prices : held'[d] = -price
  <2>1. PICK price \in Prices : held'[d] = -price
    BY <1>10
  <2>2. PICK outcome \in {"released", "refunded"} : outcome = PhaseOf(d)'
    BY <1>10
  <2>3. Contract!Advance(d, outcome, price)
    BY <1>2, <1>3, <1>10, <2>1, <2>2 DEF Contract!Advance
  <2> QED
    BY <2>3 DEF Contract!Outcomes
<1> QED
  BY <1>5, <1>6, <1>7, <1>8, <1>9, <1>10 DEF ContractMove

\* The phase of each status a deal rests in.
LEMMA PhaseTable ==
  ASSUME NEW d
  PROVE  /\ status[d] \in BeforeAgreement => PhaseOf(d) = "open"
         /\ status[d] \in {"READY_FOR_PAYMENT", "PAYMENT_PENDING_VERIFICATION"}
              => PhaseOf(d) = "agreed"
         /\ status[d] \in {"SELLER_PREPARING", "SHIPPED", "RELEASE_PENDING"}
              => PhaseOf(d) = "escrowed"
         /\ status[d] = "DISPUTED" =>
              PhaseOf(d) = IF held[d] = 0 THEN "claimed" ELSE "escrowed"
         /\ status[d] = "RELEASED" => PhaseOf(d) = "released"
         /\ status[d] = "REFUNDED" => PhaseOf(d) = "refunded"
BY DEF PhaseOf, BeforeAgreement, Uncreated

\* The same of the state after a step.
LEMMA NextPhaseTable ==
  ASSUME NEW d
  PROVE  /\ status'[d] \in BeforeAgreement => PhaseOf(d)' = "open"
         /\ status'[d] \in {"READY_FOR_PAYMENT", "PAYMENT_PENDING_VERIFICATION"}
              => PhaseOf(d)' = "agreed"
         /\ status'[d] \in {"SELLER_PREPARING", "SHIPPED", "RELEASE_PENDING"}
              => PhaseOf(d)' = "escrowed"
         /\ status'[d] = "DISPUTED" =>
              PhaseOf(d)' = IF held'[d] = 0 THEN "claimed" ELSE "escrowed"
         /\ status'[d] = "RELEASED" => PhaseOf(d)' = "released"
         /\ status'[d] = "REFUNDED" => PhaseOf(d)' = "refunded"
BY DEF PhaseOf, BeforeAgreement, Uncreated

LEMMA AgreementKeepsContract ==
  ASSUME RoomInv, NEW r \in Requests, AgreementWrite(r), UNCHANGED escrow,
         RowAsRead(r), NEW d \in Deals, call[r].deal = d
  PROVE  ContractMove(d) \/ SamePhase(d)
<1>1. UNCHANGED held
  BY DEF escrow
<1>2. CASE UNCHANGED <<status, terms>>
  BY <1>1, <1>2 DEF SamePhase, PhaseOf
<1>3. CASE status[d] \in Unpaid /\ status'[d] \in Unpaid
  BY <1>1, <1>3, PhaseTable, NextPhaseTable DEF Unpaid, ContractMove, SamePhase
<1> QED
  BY <1>2, <1>3, AgreementIs

LEMMA MoneyKeepsContract ==
  ASSUME RoomInv, NEW r \in Requests, MoneyWrite(r), RowAsRead(r),
         NEW d \in Deals, call[r].deal = d, DealFunds(d)
  PROVE  ContractMove(d) \/ SamePhase(d)
<1>1. /\ status \in [Deals -> RowStatuses]
      /\ Amount[terms[d]] \in Prices /\ Amount[terms[d]] > 0 /\ held[d] \in Int
  BY FundsTypes DEF RoomInv, RoomTypeOK, RowsTypeOK, Prices
<1>2. ASSUME call[r].op \in MoneyCalls
      PROVE  call[r].kept.seen = status[d] /\ call[r].kept.terms = terms[d]
  BY <1>2 DEF RowAsRead
<1>3. CASE PayWrite(r) \/ VerifyProofWrite(r)
  <2>1. /\ status[d] \in {"READY_FOR_PAYMENT", "PAYMENT_PENDING_VERIFICATION"}
        /\ status'[d] = "SELLER_PREPARING"
        /\ held'[d] = held[d] + Amount[terms[d]]
    BY <1>1, <1>2, <1>3, PaymentIs DEF RoomInv, RoomTypeOK
  <2>2. held'[d] = Amount[terms[d]]
    BY <1>1, <2>1, FundsTypes DEF DealFunds
  <2> QED
    BY <1>1, <2>1, <2>2, PhaseTable, NextPhaseTable DEF ContractMove
<1>4. CASE SubmitReceiptWrite(r) \/ RejectProofWrite(r) \/ ShipWrite(r)
  <2>1. Move(status[d], status'[d]) /\ UNCHANGED held
    BY <1>1, <1>2, <1>4, MoveIs
  <2> QED
    BY <2>1, PhaseTable, NextPhaseTable DEF Move, SamePhase
<1>5. CASE ConfirmWrite(r)
  <2>1. status[d] = "SHIPPED" /\ status'[d] = "RELEASE_PENDING" /\ UNCHANGED held
    BY <1>1, <1>2, <1>5, ConfirmIs
  <2> QED
    BY <2>1, PhaseTable, NextPhaseTable DEF SamePhase
<1>6. CASE OpenDisputeWrite(r)
  <2>1. /\ status[d] \in {"PAYMENT_PENDING_VERIFICATION", "SELLER_PREPARING", "SHIPPED"}
        /\ status'[d] = "DISPUTED" /\ UNCHANGED held
    BY <1>1, <1>2, <1>6, DisputeIs
  <2>2. CASE status[d] = "PAYMENT_PENDING_VERIFICATION"
    <3>1. held[d] = 0
      BY <2>2 DEF DealFunds
    <3> QED
      BY <2>1, <2>2, <3>1, PhaseTable, NextPhaseTable DEF ContractMove
  <2>3. CASE status[d] \in {"SELLER_PREPARING", "SHIPPED"}
    <3>1. held[d] # 0
      BY <1>1, <2>3 DEF DealFunds
    <3> QED
      BY <2>1, <2>3, <3>1, PhaseTable, NextPhaseTable DEF SamePhase
  <2> QED
    BY <2>1, <2>2, <2>3
<1>7. CASE AutoReleaseWrite(r) \/ AdminReleaseWrite(r) \/ AdminRefundWrite(r)
  <2>1. /\ status[d] \in {"RELEASE_PENDING", "DISPUTED"} /\ status'[d] \in Settled
        /\ held'[d] = held[d] - Amount[terms[d]]
    BY <1>1, <1>2, <1>7, PayOutIs
  <2>2. PhaseOf(d)' \in {"released", "refunded"}
    BY <2>1, NextPhaseTable DEF Settled
  <2>3. held[d] = Amount[terms[d]] \/ (status[d] = "DISPUTED" /\ held[d] = 0)
    BY <2>1 DEF DealFunds
  <2>4. CASE held[d] = Amount[terms[d]]
    <3>1. held'[d] = 0 /\ PhaseOf(d) = "escrowed"
      BY <1>1, <2>1, <2>4, FundsTypes, PhaseTable
    <3> QED
      BY <2>2, <3>1 DEF ContractMove
  <2>5. CASE status[d] = "DISPUTED" /\ held[d] = 0
    <3>1. held'[d] = -Amount[terms[d]] /\ PhaseOf(d) = "claimed"
      BY <2>1, <2>5, FundsTypes, PhaseTable
    <3> QED
      BY <1>1, <2>2, <3>1 DEF ContractMove
  <2> QED
    BY <2>3, <2>4, <2>5
<1> QED
  BY <1>3, <1>4, <1>5, <1>6, <1>7 DEF MoneyWrite

\* Every step of such a deal is one the contract admits, or none.
LEMMA StepKeepsContract ==
  ASSUME RoomInv, RoomInv', Funded, [HistoryNext]_historyVars,
         NEW d \in Deals \ outdated'
  PROVE  Contract!Step(d) \/ SamePhase(d)
<1>1. CASE UNCHANGED <<dealRoomVars, outdated, missed, late>>
  BY <1>1 DEF SamePhase, PhaseOf, dealRoomVars, escrow
<1>2. CASE DealRoomNext /\ Remember
  <2>1. DealFunds(d)
    BY <1>2 DEF Funded, Remember
  <2>2. CASE Columns(d)' = Columns(d)
    BY <2>2 DEF Columns, SamePhase, PhaseOf
  <2>3. ASSUME NEW u \in Users, NEW role \in Roles, NEW t \in CompleteTerms,
               NEW columns \in SUBSET FilledColumns,
               CreateDeal(d, u, role, t, columns), UNCHANGED escrow
        PROVE  SamePhase(d)
    <3>1. status[d] \in BeforeAgreement /\ status'[d] \in BeforeAgreement
      BY <2>3
      DEF CreateDeal, InsertDeal, Transition, BeforeAgreement, RoomInv, RoomTypeOK,
          RowsTypeOK
    <3> QED
      BY <2>3, <3>1, PhaseTable, NextPhaseTable DEF SamePhase, escrow
  <2>4. ASSUME NEW r \in Requests, call[r].deal = d, WritesTo(r, d),
               \/ AgreementWrite(r) /\ UNCHANGED escrow
               \/ MoneyWrite(r) /\ UNCHANGED negotiation
        PROVE  Contract!Step(d) \/ SamePhase(d)
    <3>1. ContractMove(d) \/ SamePhase(d)
      BY <1>2, <2>1, <2>4, ReliedOnRow, AgreementKeepsContract, MoneyKeepsContract
    <3>2. \A e \in Deals \ {d} : status'[e] = status[e] /\ held'[e] = held[e]
      BY <2>4, CallWrites
    <3> QED
      BY <3>1, <3>2, MoveKeepsContract DEF RoomInv
  <2> QED
    BY <1>2, <2>2, <2>3, <2>4, StepWrites
<1> QED
  BY <1>1, <1>2, HistoryStepIs

(***************************************************************************)
(* A deal that nobody wrote to on an older row keeps the escrow contract,  *)
(* step by step, whatever overlaps on it and on the other deals.           *)
(***************************************************************************)
THEOREM ContractTheorem == HistorySpec => IntactDealsKeepContract
<1>1. RoomInv /\ RoomInv' /\ Funded /\ [HistoryNext]_historyVars
        => [ContractStep]_historyVars
  BY StepKeepsContract DEF SamePhase, ContractStep
<1> QED
  BY <1>1, AlwaysRoomInv, AlwaysFunded, PTL DEF HistorySpec, IntactDealsKeepContract

-----------------------------------------------------------------------------
(* Edits of a locked deal *)

\* The calls under way that may still edit deal d.
EditsOf(d) == {r \in Requests : call[r].op \in EditCalls /\ call[r].deal = d}

\* What was edited and what may still be, against the slots there are.
LateInv(d) ==
  /\ late[d] \in Nat
  /\ ~IsLocked(d) => late[d] = 0
  /\ IsLocked(d) => late[d] + Cardinality(EditsOf(d)) < Cardinality(Requests)

LateOK == late \in [Deals -> Nat] /\ \A d \in Deals : LateInv(d)

\* The calls that edit a deal are finitely many.
LEMMA EditsFinite ==
  ASSUME NEW d
  PROVE  /\ IsFiniteSet(EditsOf(d)) /\ Cardinality(EditsOf(d)) \in Nat
         /\ IsFiniteSet(EditsOf(d))' /\ Cardinality(EditsOf(d))' \in Nat
         /\ Cardinality(Requests) \in Nat
<1>1. EditsOf(d) \subseteq Requests /\ EditsOf(d)' \subseteq Requests
  BY DEF EditsOf
<1> QED
  BY <1>1, SlotsAssumption, FS_Subset, FS_CardinalityType

\* A call becomes one that edits a deal only while the deal may be edited.
LEMMA EditsStart ==
  ASSUME RoomInv, DealRoomNext, NEW d \in Deals, IsLocked(d)
  PROVE  EditsOf(d)' \subseteq EditsOf(d)
<1> DEFINE Later(s) ==
      \/ call'[s] = call[s]
      \/ call'[s].op \notin EditCalls
      \/ status[call'[s].deal] \in EditableStatuses
      \/ call[s].op \in EditCalls /\ call'[s].deal = call[s].deal
<1> USE DEF EditCalls
<1>0. call \in [Requests -> RoomCalls \cup {Idle}]
  BY DEF RoomInv, RoomTypeOK
<1>1. SUFFICES \A s \in Requests : Later(s)
  BY DEF EditsOf, IsLocked
<1>2. ASSUME NEW r \in Requests, Close(r) PROVE \A s \in Requests : Later(s)
  BY <1>0, <1>2 DEF Close, Idle
<1>3. ASSUME NEW r \in Requests, NEW op, NEW e, NEW u, NEW kept,
             Open(r, op, e, u, kept),
             op \in EditCalls => status[e] \in EditableStatuses
      PROVE  \A s \in Requests : Later(s)
  <2>1. /\ \A s \in Requests \ {r} : call'[s] = call[s]
        /\ call'[r].op = op /\ call'[r].deal = e
    BY <1>0, <1>3 DEF Open, Call
  <2> QED
    BY <1>3, <2>1
<1>4. ASSUME NEW r \in Requests, NEW op, NEW kept, Become(r, op, kept),
             op \in EditCalls => call[r].op \in EditCalls
      PROVE  \A s \in Requests : Later(s)
  <2>1. /\ \A s \in Requests \ {r} : call'[s] = call[s]
        /\ call'[r].op = op /\ call'[r].deal = call[r].deal
    BY <1>0, <1>4 DEF Become, Call
  <2> QED
    BY <1>4, <2>1
<1>5. ASSUME UNCHANGED call PROVE \A s \in Requests : Later(s)
  BY <1>5
<1> HIDE DEF Later
<1>6. CASE NegotiationStep
  <2>1. ASSUME NEW r \in Requests, NEW e \in Deals, NEW u \in Users,
               JoinRead(r, e, u) \/ ApproveRead(r, e, u)
        PROVE  \A s \in Requests : Later(s)
    <3>1. CASE JoinRead(r, e, u)
      BY <1>3, <3>1 DEF JoinRead
    <3>2. CASE ApproveRead(r, e, u)
      <4>1. status[e] \in EditableStatuses
        BY <3>2 DEF ApproveRead, EditableStatuses
      <4> QED
        BY <1>3, <3>2, <4>1 DEF ApproveRead
    <3> QED
      BY <2>1, <3>1, <3>2
  <2>2. ASSUME NEW r \in Requests, PatchCall(r) PROVE \A s \in Requests : Later(s)
    <3>1. ASSUME NEW e \in Deals, NEW u \in Users, NEW columns \in ColumnEdits,
                 NEW edit \in Edits, PatchProductRead(r, e, u, columns, edit)
          PROVE  \A s \in Requests : Later(s)
      BY <1>3, <3>1 DEF PatchProductRead, MayEdit
    <3>2. ASSUME NEW e \in Deals, NEW u \in Users, NEW edit \in {"set", "clear"},
                 PatchParticipantRead(r, e, u, edit)
          PROVE  \A s \in Requests : Later(s)
      BY <1>3, <3>2 DEF PatchParticipantRead, MayEdit
    <3>3. CASE PatchProductWrite(r) \/ PatchParticipantWrite(r)
      BY <1>2, <3>3 DEF PatchProductWrite, PatchParticipantWrite
    <3> QED
      BY <2>2, <3>1, <3>2, <3>3 DEF PatchCall
  <2>3. ASSUME NEW r \in Requests, JoinWrite(r) \/ ApproveWrite(r)
        PROVE  \A s \in Requests : Later(s)
    BY <1>2, <2>3 DEF JoinWrite, ApproveWrite
  <2>4. ASSUME NEW r \in Requests, ApproveCheck(r)
        PROVE  \A s \in Requests : Later(s)
    <3>1. call[r].op \in EditCalls /\ \E kept : Become(r, "approveCommit", kept)
      BY <2>4 DEF ApproveCheck
    <3> QED
      BY <1>4, <3>1
  <2>5. ASSUME \/ \E e \in Deals : ExpireInvite(e)
               \/ \E e \in Deals, u \in Users, role \in Roles, t \in CompleteTerms,
                     columns \in SUBSET FilledColumns :
                    CreateDeal(e, u, role, t, columns)
        PROVE  \A s \in Requests : Later(s)
    BY <1>5, <2>5 DEF ExpireInvite, CreateDeal
  <2> QED
    BY <1>6, <2>1, <2>2, <2>3, <2>4, <2>5 DEF NegotiationStep, NegotiationCall
<1>7. CASE EscrowStep
  <2>1. ASSUME NEW r \in Requests, NEW e \in Deals, EscrowRequest(r, e)
        PROVE  \A s \in Requests : Later(s)
    <3>1. \E op \in MoneyCalls : OpenOnDeal(r, op, e)
      BY <2>1
      DEF EscrowRequest, PaymentRequest, DeliveryRequest, DisputeRequest, PayRead,
          SubmitReceiptRead, VerifyProofRead, RejectProofRead, ShipRead, ConfirmRead,
          OpenDisputeRead, AdminReleaseRead, AdminRefundRead, MoneyCalls
    <3>2. PICK op \in MoneyCalls : OpenOnDeal(r, op, e)
      BY <3>1
    <3>3. op \notin EditCalls
      BY DEF MoneyCalls
    <3> QED
      BY <1>3, <3>2, <3>3 DEF OpenOnDeal
  <2>2. ASSUME NEW r \in Requests, EscrowProgress(r)
        PROVE  \A s \in Requests : Later(s)
    <3>1. \/ Close(r)
          \/ \E op \in {"settle", "autoRelease"} : \E kept : Become(r, op, kept)
      BY <2>2
      DEF EscrowProgress, PayWrite, PayRefused, SubmitReceiptWrite, VerifyProofWrite,
          RejectProofWrite, ShipWrite, ConfirmWrite, SettleRead, AutoReleaseWrite,
          OpenDisputeWrite, AdminReleaseWrite, AdminRefundWrite, Decide
    <3> QED
      BY <1>2, <1>4, <3>1
  <2> QED
    BY <1>7, <2>1, <2>2 DEF EscrowStep
<1>8. CASE SectionStep
  <2>1. ASSUME NEW r \in Requests, NEW e \in Deals, NEW u \in Users,
               NEW section \in FreeSections, NEW detail \in Details,
               PatchSectionRead(r, e, u, section, detail)
        PROVE  \A s \in Requests : Later(s)
    BY <1>3, <2>1 DEF PatchSectionRead, MayEdit
  <2> QED
    BY <1>2, <1>8, <2>1 DEF SectionStep, PatchSectionWrite
<1>9. CASE KhqrStep
  <2>1. ASSUME NEW r \in Requests, NEW e \in Deals, NEW u \in Users,
               GenerateRead(r, e, u)
        PROVE  \A s \in Requests : Later(s)
    BY <1>3, <2>1 DEF GenerateRead, EditableStatuses
  <2>2. ASSUME NEW r \in Requests, AllocateNote(r)
        PROVE  \A s \in Requests : Later(s)
    <3>1. call[r].op \in EditCalls /\ \E kept : Become(r, "store", kept)
      BY <2>2 DEF AllocateNote
    <3> QED
      BY <1>4, <3>1
  <2>3. ASSUME NEW r \in Requests, StoreQr(r) PROVE \A s \in Requests : Later(s)
    BY <1>2, <2>3 DEF StoreQr
  <2> QED
    BY <1>9, <2>1, <2>2, <2>3 DEF KhqrStep
<1>10. CASE \E r \in Requests : AbortRoom(r)
  BY <1>2, <1>10 DEF AbortRoom, Abort
<1> QED
  BY <1>6, <1>7, <1>8, <1>9, <1>10 DEF DealRoomNext, RoomWork

\* What is locked of a deal changes at the end of a call that may edit it.
LEMMA EditsEnd ==
  ASSUME RoomInv, DealRoomNext, NEW d \in Deals, IsLocked(d),
         LockedColumns(d)' # LockedColumns(d)
  PROVE  \E r \in EditsOf(d) : r \notin EditsOf(d)'
<1> DEFINE Same == /\ terms'[d] = terms[d] /\ filled'[d] = filled[d]
                   /\ sections'[d] = sections[d] /\ qr'[d] = qr[d]
                   /\ party'[d] = party[d] /\ active'[d] = active[d]
                   /\ withdrawn'[d] = withdrawn[d]
<1>0. RoomTypeOK /\ terms \in [Deals -> Terms]
        /\ party \in [Deals -> [Roles -> Users \cup {Nobody}]]
  BY DEF RoomInv, RoomTypeOK, RowsTypeOK
<1>1. ~Same
  BY DEF LockedColumns
<1> HIDE DEF Same
<1>2. ASSUME NEW r \in Requests, call[r].op \in EditCalls, Close(r),
             call[r].deal # d => Same
      PROVE  r \in EditsOf(d) /\ r \notin EditsOf(d)'
  <2>1. call'[r].op \notin EditCalls
    BY <1>0, <1>2, ClosedCall DEF EditCalls
  <2> QED
    BY <1>1, <1>2, <2>1 DEF EditsOf
<1>3. CASE NegotiationStep /\ UNCHANGED <<escrow, sections, qr>>
  <2>1. ASSUME NEW r \in Requests, PatchProductWrite(r)
        PROVE  \E s \in EditsOf(d) : s \notin EditsOf(d)'
    <3>1. call[r].op \in EditCalls /\ Close(r)
      BY <2>1 DEF PatchProductWrite, EditCalls
    <3>2. call[r].deal # d => Same
      BY <1>0, <1>3, <2>1
      DEF PatchProductWrite, InvalidateApprovals, Same, RoomTypeOK
    <3> QED
      BY <1>2, <3>1, <3>2
  <2>2. ASSUME NEW r \in Requests, PatchParticipantWrite(r)
        PROVE  \E s \in EditsOf(d) : s \notin EditsOf(d)'
    <3>1. call[r].op \in EditCalls /\ Close(r)
      BY <2>2 DEF PatchParticipantWrite, EditCalls
    <3>2. call[r].deal # d => Same
      BY <1>0, <1>3, <2>2 DEF PatchParticipantWrite, Same, RoomTypeOK
    <3> QED
      BY <1>2, <3>1, <3>2
  <2>3. ASSUME NEW r \in Requests, ApproveWrite(r)
        PROVE  \E s \in EditsOf(d) : s \notin EditsOf(d)'
    <3>1. call[r].op \in EditCalls /\ Close(r)
      BY <2>3 DEF ApproveWrite, EditCalls
    <3>2. PICK e \in Deals, role \in Roles, t \in Terms, x \in ColumnEdits :
            e = call[r].deal /\ UpsertApproval(e, role, t, x)
      BY <2>3, ApprovalIs
    <3>3. e # d => active'[d] = active[d] /\ withdrawn'[d] = withdrawn[d]
      BY <1>0, <3>2, UpsertIs
    <3>4. call[r].deal # d => Same
      BY <1>3, <2>3, <3>2, <3>3 DEF ApproveWrite, Same
    <3> QED
      BY <1>2, <3>1, <3>4
  <2>4. ASSUME NEW r \in Requests, JoinWrite(r) PROVE Same
    <3>1. status[call[r].deal] = "AWAITING_COUNTERPARTY"
      BY <2>4 DEF JoinWrite, SpendInvite
    <3>2. call[r].deal # d
      BY <3>1 DEF IsLocked, EditableStatuses
    <3> QED
      BY <1>0, <1>3, <2>4, <3>2
      DEF JoinWrite, InsertParticipant, BackfillName, Same, RoomTypeOK
  <2>5. ASSUME NEW e \in Deals, NEW u \in Users, NEW role \in Roles,
               NEW t \in CompleteTerms, NEW columns \in SUBSET FilledColumns,
               CreateDeal(e, u, role, t, columns)
        PROVE  Same
    <3>1. e # d
      BY <2>5 DEF CreateDeal, IsLocked
    <3> QED
      BY <1>0, <1>3, <2>5, <3>1 DEF CreateDeal, InsertDeal, Same, RoomTypeOK
  <2>6. ASSUME NEW r \in Requests, NEW e \in Deals, NEW u \in Users,
               JoinRead(r, e, u) \/ ApproveRead(r, e, u)
        PROVE  Same
    BY <1>3, <2>6 DEF JoinRead, ApproveRead, negotiation, Same
  <2>7. ASSUME NEW r \in Requests, NEW e \in Deals, NEW u \in Users,
               \/ \E columns \in ColumnEdits, edit \in Edits :
                    PatchProductRead(r, e, u, columns, edit)
               \/ \E edit \in {"set", "clear"} : PatchParticipantRead(r, e, u, edit)
        PROVE  Same
    BY <1>3, <2>7 DEF PatchProductRead, PatchParticipantRead, negotiation, Same
  <2>8. ASSUME NEW r \in Requests, ApproveCheck(r) PROVE Same
    BY <1>3, <2>8 DEF ApproveCheck, negotiation, Same
  <2>9. ASSUME NEW e \in Deals, ExpireInvite(e) PROVE Same
    BY <1>3, <2>9 DEF ExpireInvite, Same
  <2> QED
    BY <1>1, <1>3, <2>1, <2>2, <2>3, <2>4, <2>5, <2>6, <2>7, <2>8, <2>9
    DEF NegotiationStep, NegotiationCall, PatchCall
<1>4. CASE EscrowStep /\ UNCHANGED <<negotiation, sections, qr>>
  <2>1. UNCHANGED <<terms, party>>
    <3>1. ASSUME NEW r \in Requests, EscrowProgress(r)
          PROVE  UNCHANGED <<terms, party>>
      BY <3>1
      DEF EscrowProgress, PayWrite, PayRefused, SubmitReceiptWrite, VerifyProofWrite,
          RejectProofWrite, ShipWrite, ConfirmWrite, SettleRead, AutoReleaseWrite,
          OpenDisputeWrite, AdminReleaseWrite, AdminRefundWrite, Decide
    <3> QED
      BY <1>4, <3>1, RequestsRead DEF EscrowStep
  <2> QED
    BY <1>1, <1>4, <2>1 DEF negotiation, Same
<1>5. CASE SectionStep /\ UNCHANGED <<negotiation, escrow, qr>>
  <2>1. ASSUME NEW r \in Requests, PatchSectionWrite(r)
        PROVE  \E s \in EditsOf(d) : s \notin EditsOf(d)'
    <3>1. call[r].op \in EditCalls /\ Close(r)
      BY <2>1 DEF PatchSectionWrite, EditCalls
    <3>2. call[r].deal # d => Same
      BY <1>0, <1>5, <2>1 DEF PatchSectionWrite, negotiation, Same, RoomTypeOK
    <3> QED
      BY <1>2, <3>1, <3>2
  <2>2. ASSUME NEW r \in Requests, NEW e \in Deals, NEW u \in Users,
               NEW section \in FreeSections, NEW detail \in Details,
               PatchSectionRead(r, e, u, section, detail)
        PROVE  Same
    BY <1>5, <2>2 DEF PatchSectionRead, negotiation, Same
  <2> QED
    BY <1>1, <1>5, <2>1, <2>2 DEF SectionStep
<1>6. CASE KhqrStep /\ UNCHANGED <<negotiation, escrow, sections>>
  <2>1. ASSUME NEW r \in Requests, StoreQr(r)
        PROVE  \E s \in EditsOf(d) : s \notin EditsOf(d)'
    <3>1. call[r].op \in EditCalls /\ Close(r)
      BY <2>1 DEF StoreQr, EditCalls
    <3>2. call[r].deal # d => Same
      BY <1>0, <1>6, <2>1 DEF StoreQr, negotiation, Same, RoomTypeOK
    <3> QED
      BY <1>2, <3>1, <3>2
  <2>2. ASSUME NEW r \in Requests, NEW e \in Deals, NEW u \in Users,
               GenerateRead(r, e, u)
        PROVE  Same
    BY <1>6, <2>2 DEF GenerateRead, negotiation, Same
  <2>3. ASSUME NEW r \in Requests, AllocateNote(r) PROVE Same
    BY <1>6, <2>3 DEF AllocateNote, negotiation, Same
  <2> QED
    BY <1>1, <1>6, <2>1, <2>2, <2>3 DEF KhqrStep
<1>7. CASE \E r \in Requests : AbortRoom(r)
  BY <1>1, <1>7 DEF AbortRoom, Abort, negotiation, Same
<1> QED
  BY <1>3, <1>4, <1>5, <1>6, <1>7 DEF DealRoomNext, RoomWork

\* A deal is locked by a call of the money half, which edits nothing.
LEMMA MoneyLocks ==
  ASSUME RoomInv, DealRoomNext, NEW d \in Deals, ~IsLocked(d), IsLocked(d)'
  PROVE  \E r \in Requests : r \notin EditsOf(d)'
<1>1. status[d] \in EditableStatuses \cup {Uncreated}
        /\ status'[d] \notin EditableStatuses \cup {Uncreated}
  BY DEF IsLocked
<1>2. Columns(d)' # Columns(d)
  BY <1>1 DEF Columns
<1>3. ASSUME NEW u \in Users, NEW role \in Roles, NEW t \in CompleteTerms,
             NEW columns \in SUBSET FilledColumns, CreateDeal(d, u, role, t, columns)
      PROVE  FALSE
  BY <1>1, <1>3
  DEF CreateDeal, InsertDeal, Transition, EditableStatuses, RoomInv, RoomTypeOK,
      RowsTypeOK
<1>4. ASSUME NEW r \in Requests, AgreementWrite(r) PROVE FALSE
  <2>0. status \in [Deals -> RowStatuses]
    BY DEF RoomInv, RoomTypeOK, RowsTypeOK
  <2>1. \A e, to : status' = [status EXCEPT ![e] = to] =>
          status'[d] \in {status[d], to}
    BY <2>0
  <2>2. \/ UNCHANGED status
        \/ \E e, to : /\ to \in EditableStatuses
                      /\ status' = [status EXCEPT ![e] = to]
    <3>1. CASE JoinWrite(r) \/ PatchProductWrite(r)
      BY <3>1 DEF JoinWrite, PatchProductWrite, Transition, EditableStatuses
    <3>2. CASE ApproveWrite(r)
      BY <3>2 DEF ApproveWrite, Transition, EditableStatuses
    <3> QED
      BY <1>4, <3>1, <3>2 DEF AgreementWrite
  <2> QED
    BY <1>1, <2>1, <2>2
<1>5. ASSUME NEW r \in Requests, MoneyWrite(r) PROVE r \notin EditsOf(d)'
  <2>1. call'[r].op \in {"idle", "settle"}
    BY <1>5, MoneyWriteIs
  <2> QED
    BY <2>1 DEF EditsOf, EditCalls
<1> QED
  BY <1>2, <1>3, <1>4, <1>5, StepWrites

LEMMA LateStep ==
  ASSUME RoomInv, LateOK, [HistoryNext]_historyVars
  PROVE  LateOK'
<1>1. CASE UNCHANGED <<dealRoomVars, outdated, missed, late>>
  <2>1. UNCHANGED <<status, call, late>>
    BY <1>1 DEF dealRoomVars
  <2> QED
    BY <2>1 DEF LateOK, LateInv, IsLocked, EditsOf
<1>2. CASE DealRoomNext /\ Remember
  <2> SUFFICES ASSUME NEW d \in Deals
               PROVE  late'[d] \in Nat /\ LateInv(d)'
    BY <1>2 DEF LateOK, Remember
  <2>1. late'[d] = IF ~IsLocked(d)' THEN 0
                   ELSE IF IsLocked(d) /\ LockedColumns(d)' # LockedColumns(d)
                        THEN late[d] + 1
                   ELSE late[d]
    BY <1>2 DEF Remember
  <2>2. LateInv(d) /\ late[d] \in Nat
    BY DEF LateOK
  <2>3. late'[d] \in Nat
    BY <2>1, <2>2
  <2>4. CASE ~IsLocked(d)'
    BY <2>1, <2>3, <2>4 DEF LateInv
  <2>5. CASE ~IsLocked(d) /\ IsLocked(d)'
    <3>1. PICK r \in Requests : r \notin EditsOf(d)'
      BY <1>2, <2>5, MoneyLocks
    <3>2. EditsOf(d)' \subseteq Requests \ {r}
      BY <3>1 DEF EditsOf
    <3>3. /\ IsFiniteSet(Requests \ {r})
          /\ Cardinality(Requests \ {r}) = Cardinality(Requests) - 1
      BY SlotsAssumption, FS_RemoveElement
    <3>4. Cardinality(EditsOf(d))' <= Cardinality(Requests) - 1
      BY <3>2, <3>3, FS_Subset
    <3>5. late'[d] = 0
      BY <2>1, <2>2, <2>5 DEF LateInv
    <3> QED
      BY <2>3, <2>5, <3>4, <3>5, EditsFinite DEF LateInv
  <2>6. CASE IsLocked(d) /\ IsLocked(d)'
    <3>1. EditsOf(d)' \subseteq EditsOf(d)
      BY <1>2, <2>6, EditsStart
    <3>2. late[d] + Cardinality(EditsOf(d)) < Cardinality(Requests)
      BY <2>2, <2>6 DEF LateInv
    <3>3. CASE LockedColumns(d)' # LockedColumns(d)
      <4>1. PICK r \in EditsOf(d) : r \notin EditsOf(d)'
        BY <1>2, <2>6, <3>3, EditsEnd
      <4>2. /\ IsFiniteSet(EditsOf(d) \ {r})
            /\ Cardinality(EditsOf(d) \ {r}) = Cardinality(EditsOf(d)) - 1
        BY EditsFinite, FS_RemoveElement
      <4>3. EditsOf(d)' \subseteq EditsOf(d) \ {r}
        BY <3>1, <4>1
      <4>4. Cardinality(EditsOf(d))' <= Cardinality(EditsOf(d)) - 1
        BY <4>2, <4>3, FS_Subset
      <4>5. late'[d] = late[d] + 1
        BY <2>1, <2>6, <3>3
      <4> QED
        BY <2>2, <2>3, <2>6, <3>2, <4>4, <4>5, EditsFinite DEF LateInv
    <3>4. CASE LockedColumns(d)' = LockedColumns(d)
      <4>1. Cardinality(EditsOf(d))' <= Cardinality(EditsOf(d))
        BY <3>1, EditsFinite, FS_Subset
      <4>2. late'[d] = late[d]
        BY <2>1, <2>6, <3>4
      <4> QED
        BY <2>2, <2>3, <2>6, <3>2, <4>1, <4>2, EditsFinite DEF LateInv
    <3> QED
      BY <3>3, <3>4
  <2> QED
    BY <2>3, <2>4, <2>5, <2>6
<1> QED
  BY <1>1, <1>2, HistoryStepIs

(***************************************************************************)
(* However calls overlap, what is locked of a deal that is paid for is     *)
(* edited less often than there are slots for requests: once for each call *)
(* that was authorised before the lock.                                    *)
(***************************************************************************)
THEOREM LateTheorem == HistorySpec => []LateEditsAreFew
<1>1. HistoryInit => LateOK
  BY DEF HistoryInit, DealRoomInit, NegotiationInit, LateOK, LateInv, IsLocked
<1>2. RoomInv /\ LateOK /\ [HistoryNext]_historyVars => LateOK'
  BY LateStep
<1>3. LateOK => LateEditsAreFew
  <2> SUFFICES ASSUME LateOK, NEW d \in Deals
               PROVE  late[d] = 0 \/ late[d] < Cardinality(Requests)
    BY DEF LateEditsAreFew
  <2> QED
    BY EditsFinite DEF LateOK, LateInv
<1> QED
  BY <1>1, <1>2, <1>3, AlwaysRoomInv, PTL DEF HistorySpec

-----------------------------------------------------------------------------
(* Consent before money *)

\* What a call in flight can show for what it is about to do: complete terms,
\* approvals recorded by its side and by the other, or by both.
Evidence(r) ==
  LET q == call[r]
      role == RoleOf(q.deal, q.by)
  IN  /\ q.op \in {"approve", "approveCommit"} => q.kept.terms \in CompleteTerms
      /\ q.op = "approveCommit" =>
           /\ \A t \in q.kept.existing : Recorded(q.deal, role, t)
           /\ q.kept.both => Recorded(q.deal, OppositeRole(role), q.kept.terms)
      /\ q.op \in MoneyCalls \cup {"settle"} => BothConsented(q.deal)

ConsentInv == ConsentBeforeMoney /\ \A r \in Requests : Evidence(r)

\* A step of the room that changes its approvals or its participants.
LEMMA WhoWrites ==
  ASSUME DealRoomNext
  PROVE  /\ \/ UNCHANGED <<active, withdrawn>>
            \/ \E r \in Requests : PatchProductWrite(r) \/ ApproveWrite(r)
         /\ \/ UNCHANGED party
            \/ \E r \in Requests : JoinWrite(r)
            \/ \E e \in Deals, u \in Users, role \in Roles, t \in CompleteTerms,
                  columns \in SUBSET FilledColumns :
                 CreateDeal(e, u, role, t, columns)
<1>1. CASE NegotiationStep
  <2>1. ASSUME NEW r \in Requests, NegotiationCall(r)
        PROVE  /\ UNCHANGED <<active, withdrawn>> \/ PatchProductWrite(r) \/ ApproveWrite(r)
               /\ UNCHANGED party \/ JoinWrite(r)
    <3>1. CASE PatchCall(r)
      BY <3>1
      DEF PatchCall, PatchProductRead, PatchProductWrite, PatchParticipantRead,
          PatchParticipantWrite, negotiation
    <3>2. CASE JoinWrite(r)
      BY <3>2 DEF JoinWrite
    <3>3. CASE ApproveCheck(r) \/ ApproveWrite(r)
      BY <3>3 DEF ApproveCheck, ApproveWrite, negotiation
    <3>4. CASE \E d \in Deals, u \in Users : JoinRead(r, d, u) \/ ApproveRead(r, d, u)
      BY <3>4 DEF JoinRead, ApproveRead, negotiation
    <3> QED
      BY <2>1, <3>1, <3>2, <3>3, <3>4 DEF NegotiationCall
  <2>2. ASSUME NEW d \in Deals, ExpireInvite(d)
        PROVE  UNCHANGED <<active, withdrawn, party>>
    BY <2>2 DEF ExpireInvite
  <2>3. ASSUME NEW e \in Deals, NEW u \in Users, NEW role \in Roles,
               NEW t \in CompleteTerms, NEW columns \in SUBSET FilledColumns,
               CreateDeal(e, u, role, t, columns)
        PROVE  UNCHANGED <<active, withdrawn>>
    BY <2>3 DEF CreateDeal
  <2> QED
    BY <1>1, <2>1, <2>2, <2>3 DEF NegotiationStep
<1>2. CASE EscrowStep /\ UNCHANGED negotiation
  <2>1. ASSUME NEW r \in Requests, EscrowProgress(r) PROVE UNCHANGED party
    BY <2>1
    DEF EscrowProgress, PayWrite, PayRefused, SubmitReceiptWrite, VerifyProofWrite,
        RejectProofWrite, ShipWrite, ConfirmWrite, SettleRead, AutoReleaseWrite,
        OpenDisputeWrite, AdminReleaseWrite, AdminRefundWrite, Decide
  <2> QED
    BY <1>2, <2>1, RequestsRead DEF EscrowStep, negotiation
<1>3. CASE SectionStep /\ UNCHANGED negotiation
  BY <1>3 DEF SectionStep, PatchSectionRead, PatchSectionWrite, negotiation
<1>4. CASE KhqrStep /\ UNCHANGED negotiation
  BY <1>4 DEF KhqrStep, GenerateRead, AllocateNote, StoreQr, negotiation
<1>5. CASE \E r \in Requests : AbortRoom(r)
  BY <1>5 DEF AbortRoom, Abort, negotiation
<1> QED
  BY <1>1, <1>2, <1>3, <1>4, <1>5 DEF DealRoomNext, RoomWork

\* A recorded approval is never lost: it stays live or becomes withdrawn.
LEMMA RecordedStays ==
  ASSUME RoomInv, DealRoomNext, NEW d \in Deals, NEW role \in Roles,
         NEW t \in Terms, Recorded(d, role, t)
  PROVE  Recorded(d, role, t)'
<1>0. RoomTypeOK
  BY DEF RoomInv
<1>1. CASE UNCHANGED <<active, withdrawn>>
  BY <1>1 DEF Recorded
<1>2. ASSUME NEW r \in Requests, PatchProductWrite(r)
      PROVE  Recorded(d, role, t)'
  <2>1. PICK e \in Deals : e = call[r].deal
    BY <1>0, <1>2, CallShape DEF PatchProductWrite
  <2>2. CASE InvalidateApprovals(e)
    <3>1. CASE e = d /\ active[d][role][t] > 0
      BY <1>0, <2>2, <3>1 DEF InvalidateApprovals, Recorded, RoomTypeOK
    <3>2. CASE ~(e = d /\ active[d][role][t] > 0)
      BY <1>0, <2>2, <3>2 DEF InvalidateApprovals, Recorded, RoomTypeOK
    <3> QED
      BY <3>1, <3>2
  <2> QED
    BY <1>1, <1>2, <2>1, <2>2 DEF PatchProductWrite
<1>3. ASSUME NEW r \in Requests, ApproveWrite(r)
      PROVE  Recorded(d, role, t)'
  <2>1. PICK e \in Deals, side \in Roles, v \in Terms, x \in ColumnEdits :
          UpsertApproval(e, side, v, x)
    BY <1>3, ApprovalIs
  <2>2. CASE e = d /\ side = role /\ t \in x \ {v}
    BY <1>0, <2>1, <2>2, UpsertIs DEF Recorded
  <2>3. CASE ~(e = d /\ side = role /\ t \in x \ {v})
    <3>1. active'[d][role][t] >= active[d][role][t]
      <4>1. active[d][role][t] \in Nat
        BY <1>0 DEF RoomTypeOK
      <4> QED
        BY <1>0, <2>1, <2>3, <4>1, UpsertIs, SMTT(30)
    <3>2. withdrawn[d] \subseteq withdrawn'[d]
      BY <1>0, <2>1, UpsertIs
    <3>3. active[d][role][t] \in Nat /\ active'[d][role][t] \in Nat
      BY <1>0, <2>1, UpsertIs DEF RoomTypeOK
    <3> QED
      BY <3>1, <3>2, <3>3 DEF Recorded
  <2> QED
    BY <2>2, <2>3
<1> QED
  BY <1>1, <1>2, <1>3, WhoWrites

\* So consent, once given by both, stays on record.
LEMMA ConsentStays ==
  ASSUME RoomInv, DealRoomNext, NEW d \in Deals, BothConsented(d)
  PROVE  BothConsented(d)'
<1>1. PICK t \in CompleteTerms : \A role \in Roles : Recorded(d, role, t)
  BY DEF BothConsented
<1>2. \A role \in Roles : Recorded(d, role, t)'
  BY <1>1, CompleteTermsAssumption, RecordedStays
<1> QED
  BY <1>2 DEF BothConsented

\* Whoever takes part stays on the side where they are, so RoleOf finds it again.
LEMMA RoleStays ==
  ASSUME RoomInv, RoomInv', DealRoomNext, NEW d \in Deals, NEW u \in Users,
         IsParticipant(d, u)
  PROVE  RoleOf(d, u)' = RoleOf(d, u)
<1> DEFINE mine == RoleOf(d, u)
<1>0. /\ party \in [Deals -> [Roles -> Users \cup {Nobody}]]
      /\ \A e \in Deals : DealInv(e) /\ DealInv(e)'
  BY DEF RoomInv, RoomTypeOK, RowsTypeOK
<1>1. mine \in Roles /\ party[d][mine] = u
  BY RoleFound
<1> HIDE DEF mine
<1>2. party'[d][mine] = u
  <2>1. ASSUME NEW r \in Requests, JoinWrite(r) PROVE party'[d][mine] = u
    BY <1>0, <1>1, <2>1, NobodyAssumption DEF JoinWrite, InsertParticipant
  <2>2. ASSUME NEW e \in Deals, NEW v \in Users, NEW role \in Roles,
               NEW t \in CompleteTerms, NEW columns \in SUBSET FilledColumns,
               CreateDeal(e, v, role, t, columns)
        PROVE  party'[d][mine] = u
    <3>1. e # d
      BY <1>0, <1>1, <2>2, NobodyAssumption DEF CreateDeal, DealInv
    <3> QED
      BY <1>0, <1>1, <2>2, <3>1 DEF CreateDeal, InsertDeal
  <2> QED
    BY <1>1, <2>1, <2>2, WhoWrites
<1>3. \A s \in Roles : party'[d][s] = u <=> s = mine
  BY <1>0, <1>1, <1>2, NobodyAssumption DEF DealInv, Roles
<1>4. RoleOf(d, u)' = CHOOSE s \in Roles : party'[d][s] = u
  BY DEF RoleOf
<1>5. RoleOf(d, u)' = mine
  BY <1>1, <1>3, <1>4
<1> QED
  BY <1>5 DEF mine

\* A call that goes on unchanged keeps its evidence.
LEMMA EvidenceStays ==
  ASSUME RoomInv, RoomInv', DealRoomNext, NEW r \in Requests, Evidence(r),
         call'[r] = call[r]
  PROVE  Evidence(r)'
<1> DEFINE q == call[r]
<1>1. CASE q.op \in {"approve", "approveCommit"}
  <2>1. /\ q.deal \in Deals /\ q.by \in Users /\ IsParticipant(q.deal, q.by)
        /\ q.op = "approveCommit" =>
             q.kept.existing \subseteq Terms /\ q.kept.terms \in Terms
    BY <1>1, CallShape DEF RoomInv, CallInv, Members, ColumnEdits
  <2>2. PICK role \in Roles : role = RoleOf(q.deal, q.by)
    BY <2>1, RoleFound
  <2>3. RoleOf(q.deal, q.by)' = role
    BY <2>1, <2>2, RoleStays
  <2>4. \A t \in Terms, s \in Roles :
          Recorded(q.deal, s, t) => Recorded(q.deal, s, t)'
    BY <2>1, RecordedStays
  <2>5. OppositeRole(role) \in Roles
    BY TwoRoles
  <2>6. q.op \notin MoneyCalls \cup {"settle"}
    BY <1>1 DEF MoneyCalls
  <2> QED
    BY <1>1, <2>1, <2>2, <2>3, <2>4, <2>5, <2>6 DEF Evidence
<1>2. CASE q.op \in MoneyCalls \cup {"settle"}
  <2>1. q.op # "idle" /\ q.op \notin {"approve", "approveCommit"}
    BY <1>2 DEF MoneyCalls
  <2>2. BothConsented(q.deal)'
    BY <1>2, <2>1, CallShape, ConsentStays DEF RoomInv, Evidence
  <2> QED
    BY <2>1, <2>2 DEF Evidence
<1>3. CASE q.op \notin {"approve", "approveCommit"} \cup MoneyCalls \cup {"settle"}
  BY <1>3 DEF Evidence
<1> QED
  BY <1>1, <1>2, <1>3

\* Operations that need evidence.
Witnessed == {"approve", "approveCommit", "settle"} \cup MoneyCalls

\* How a call comes to be one of them.
LEMMA EvidenceStarts ==
  ASSUME RoomInv, DealRoomNext, NEW r \in Requests, call'[r] # call[r],
         call'[r].op \in Witnessed
  PROVE  \/ \E d \in Deals, u \in Users :
              ApproveRead(r, d, u) /\ UNCHANGED <<party, active, withdrawn>>
         \/ ApproveCheck(r) /\ UNCHANGED <<party, active, withdrawn>>
         \/ \E d \in Deals, op \in MoneyCalls :
              /\ status[d] \notin BeforeAgreement /\ call'[r].op = op
              /\ call'[r].deal = d
         \/ /\ call[r].op \in {"confirm", "settle"}
            /\ call'[r].deal = call[r].deal
            /\ call'[r].op \in {"settle", "autoRelease"}
<1> DEFINE Goal ==
      \/ \E d \in Deals, u \in Users :
           ApproveRead(r, d, u) /\ UNCHANGED <<party, active, withdrawn>>
      \/ ApproveCheck(r) /\ UNCHANGED <<party, active, withdrawn>>
      \/ \E d \in Deals, op \in MoneyCalls :
           /\ status[d] \notin BeforeAgreement /\ call'[r].op = op
           /\ call'[r].deal = d
      \/ /\ call[r].op \in {"confirm", "settle"}
         /\ call'[r].deal = call[r].deal
         /\ call'[r].op \in {"settle", "autoRelease"}
<1>0. call \in [Requests -> RoomCalls \cup {Idle}] /\ call' # call
  BY DEF RoomInv, RoomTypeOK
<1>1. ASSUME NEW s \in Requests, Close(s) PROVE FALSE
  BY <1>0, <1>1 DEF Close, Idle, Witnessed, MoneyCalls
<1>2. ASSUME NEW s \in Requests, NEW op, NEW e, NEW u, NEW kept,
             Open(s, op, e, u, kept)
      PROVE  s = r /\ call'[r].op = op /\ call'[r].deal = e /\ op \in Witnessed
  BY <1>0, <1>2 DEF Open, Call
<1>3. ASSUME NEW s \in Requests, NEW op, NEW kept, Become(s, op, kept)
      PROVE  /\ s = r /\ call'[r].op = op /\ call'[r].deal = call[r].deal
             /\ op \in Witnessed
  BY <1>0, <1>3 DEF Become, Call
<1>4. /\ "join" \notin Witnessed /\ "patchProduct" \notin Witnessed
      /\ "patchParticipant" \notin Witnessed /\ "patchSection" \notin Witnessed
      /\ "generate" \notin Witnessed /\ "store" \notin Witnessed
  BY DEF Witnessed, MoneyCalls
<1> SUFFICES Goal
  OBVIOUS
<1> HIDE DEF Goal
<1>5. CASE NegotiationStep
  <2>1. ASSUME NEW s \in Requests, NEW e \in Deals, NEW u \in Users,
               ApproveRead(s, e, u)
        PROVE  Goal
    BY <1>2, <2>1 DEF ApproveRead, negotiation, Goal
  <2>2. ASSUME NEW s \in Requests, NEW e \in Deals, NEW u \in Users,
               \/ JoinRead(s, e, u)
               \/ \E columns \in ColumnEdits, edit \in Edits :
                    PatchProductRead(s, e, u, columns, edit)
               \/ \E edit \in {"set", "clear"} : PatchParticipantRead(s, e, u, edit)
        PROVE  FALSE
    BY <1>2, <1>4, <2>2 DEF JoinRead, PatchProductRead, PatchParticipantRead
  <2>3. ASSUME NEW s \in Requests, ApproveCheck(s) PROVE Goal
    <3>1. \E kept : Become(s, "approveCommit", kept)
      BY <2>3 DEF ApproveCheck
    <3>2. s = r
      BY <1>3, <3>1
    <3> QED
      BY <2>3, <3>2 DEF ApproveCheck, negotiation, Goal
  <2>4. ASSUME NEW s \in Requests,
               \/ JoinWrite(s) \/ ApproveWrite(s) \/ PatchProductWrite(s)
               \/ PatchParticipantWrite(s)
        PROVE  FALSE
    BY <1>1, <2>4
    DEF JoinWrite, ApproveWrite, PatchProductWrite, PatchParticipantWrite
  <2>5. ASSUME \/ \E e \in Deals : ExpireInvite(e)
               \/ \E e \in Deals, u \in Users, role \in Roles, t \in CompleteTerms,
                     columns \in SUBSET FilledColumns :
                    CreateDeal(e, u, role, t, columns)
        PROVE  FALSE
    BY <1>0, <2>5 DEF ExpireInvite, CreateDeal
  <2> QED
    BY <1>5, <2>1, <2>2, <2>3, <2>4, <2>5
    DEF NegotiationStep, NegotiationCall, PatchCall
<1>6. CASE EscrowStep
  <2>1. ASSUME NEW s \in Requests, NEW e \in Deals, EscrowRequest(s, e)
        PROVE  Goal
    <3>1. \E op \in MoneyCalls :
            OpenOnDeal(s, op, e) /\ status[e] \notin BeforeAgreement
      BY <2>1
      DEF EscrowRequest, PaymentRequest, DeliveryRequest, DisputeRequest, PayRead,
          SubmitReceiptRead, VerifyProofRead, RejectProofRead, ShipRead, ConfirmRead,
          OpenDisputeRead, AdminReleaseRead, AdminRefundRead, MoneyCalls,
          BeforeAgreement, Uncreated, DisputableStatuses
    <3>2. PICK op \in MoneyCalls :
            OpenOnDeal(s, op, e) /\ status[e] \notin BeforeAgreement
      BY <3>1
    <3> QED
      BY <1>2, <3>2 DEF OpenOnDeal, Goal
  <2>2. ASSUME NEW s \in Requests, EscrowProgress(s) PROVE Goal
    <3>1. \/ Close(s)
          \/ /\ call[s].op \in {"confirm", "settle"}
             /\ \E op \in {"settle", "autoRelease"} : \E kept : Become(s, op, kept)
      BY <2>2
      DEF EscrowProgress, PayWrite, PayRefused, SubmitReceiptWrite, VerifyProofWrite,
          RejectProofWrite, ShipWrite, ConfirmWrite, SettleRead, AutoReleaseWrite,
          OpenDisputeWrite, AdminReleaseWrite, AdminRefundWrite, Decide
    <3> QED
      BY <1>1, <1>3, <3>1 DEF Goal
  <2> QED
    BY <1>6, <2>1, <2>2 DEF EscrowStep
<1>7. CASE SectionStep
  <2>1. ASSUME NEW s \in Requests, NEW e \in Deals, NEW u \in Users,
               NEW section \in FreeSections, NEW detail \in Details,
               PatchSectionRead(s, e, u, section, detail)
        PROVE  FALSE
    BY <1>2, <1>4, <2>1 DEF PatchSectionRead
  <2> QED
    BY <1>1, <1>7, <2>1 DEF SectionStep, PatchSectionWrite
<1>8. CASE KhqrStep
  <2>1. ASSUME NEW s \in Requests, NEW e \in Deals, NEW u \in Users,
               GenerateRead(s, e, u)
        PROVE  FALSE
    BY <1>2, <1>4, <2>1 DEF GenerateRead
  <2>2. ASSUME NEW s \in Requests, AllocateNote(s) PROVE FALSE
    <3>1. \E kept : Become(s, "store", kept)
      BY <2>2 DEF AllocateNote
    <3> QED
      BY <1>3, <1>4, <3>1
  <2> QED
    BY <1>1, <1>8, <2>1, <2>2 DEF KhqrStep, StoreQr
<1>9. CASE \E s \in Requests : AbortRoom(s)
  BY <1>1, <1>9 DEF AbortRoom, Abort
<1> QED
  BY <1>5, <1>6, <1>7, <1>8, <1>9 DEF DealRoomNext, RoomWork

\* A call that comes to need evidence finds it.
LEMMA EvidenceFound ==
  ASSUME RoomInv, ConsentInv, DealRoomNext, NEW r \in Requests,
         call'[r] # call[r]
  PROVE  Evidence(r)'
<1>0. call \in [Requests -> RoomCalls \cup {Idle}]
        /\ "approve" \notin MoneyCalls /\ "approveCommit" \notin MoneyCalls
        /\ "confirm" \in MoneyCalls
  BY DEF RoomInv, RoomTypeOK, MoneyCalls
<1>1. CASE call'[r].op \notin Witnessed
  BY <1>1 DEF Evidence, Witnessed
<1>2. ASSUME NEW d \in Deals, NEW u \in Users, ApproveRead(r, d, u)
      PROVE  Evidence(r)'
  <2>1. call'[r] = Call("approve", d, u, [seen |-> status[d], terms |-> terms[d]])
    BY <1>0, <1>2 DEF ApproveRead, Open
  <2>2. terms[d] \in CompleteTerms
    BY <1>2 DEF ApproveRead, NothingMissing
  <2> QED
    BY <1>0, <2>1, <2>2 DEF Evidence, Call
<1>3. CASE ApproveCheck(r) /\ UNCHANGED <<party, active, withdrawn>>
  <2>1. PICK d, u, k : d = call[r].deal /\ u = call[r].by /\ k = call[r].kept
    OBVIOUS
  <2>2. PICK role : role = RoleOf(d, u)
    OBVIOUS
  <2>3. PICK e, both :
          /\ e \in LiveRow(d, role)
          /\ both = BothApproved(d, role, k.terms)
          /\ call' = [call EXCEPT ![r] = Call("approveCommit", d, u,
                       [seen |-> k.seen, terms |-> k.terms,
                        existing |-> e, both |-> both])]
    BY <1>3, <2>1, <2>2 DEF ApproveCheck, Become
  <2>4. RoleOf(d, u)' = role
    BY <1>3, <2>2 DEF RoleOf
  <2>5. k.terms \in CompleteTerms
    BY <1>3, <2>1 DEF ApproveCheck, ConsentInv, Evidence
  <2>6. \A t \in e : active[d][role][t] > 0
    BY <2>3 DEF LiveRow
  <2>7. both => active[d][OppositeRole(role)][k.terms] > 0
    BY <2>3 DEF BothApproved
  <2>8. call'[r] = Call("approveCommit", d, u,
                        [seen |-> k.seen, terms |-> k.terms,
                         existing |-> e, both |-> both])
    BY <1>0, <2>3
  <2> QED
    BY <1>0, <1>3, <2>4, <2>5, <2>6, <2>7, <2>8 DEF Evidence, Recorded, Call
<1>4. ASSUME NEW d \in Deals, NEW op \in MoneyCalls,
             status[d] \notin BeforeAgreement, call'[r].op = op, call'[r].deal = d
      PROVE  Evidence(r)'
  <2>1. BothConsented(d)'
    BY <1>4, ConsentStays DEF ConsentInv, ConsentBeforeMoney
  <2> QED
    BY <1>0, <1>4, <2>1 DEF Evidence
<1>5. ASSUME call[r].op \in {"confirm", "settle"}, call'[r].deal = call[r].deal,
             call'[r].op \in {"settle", "autoRelease"}
      PROVE  Evidence(r)'
  <2>1. PICK d \in Deals : d = call[r].deal
    BY <1>5, CallShape DEF RoomInv
  <2>2. BothConsented(d)
    BY <1>0, <1>5, <2>1 DEF ConsentInv, Evidence
  <2>3. BothConsented(d)'
    BY <2>2, ConsentStays
  <2> QED
    BY <1>5, <2>1, <2>3 DEF Evidence
<1> QED
  BY <1>1, <1>2, <1>3, <1>4, <1>5, EvidenceStarts

\* The approval that takes a deal out of the approval phase completes consent.
LEMMA ApprovalConsents ==
  ASSUME RoomInv, ConsentInv, DealRoomNext, NEW r \in Requests, ApproveWrite(r),
         NEW d \in Deals, call[r].deal = d, call[r].kept.both
  PROVE  BothConsented(d)'
<1>0. RoomTypeOK
  BY DEF RoomInv
<1>1. PICK role \in Roles, t \in Terms, e \in ColumnEdits :
        /\ role = RoleOf(d, call[r].by)
        /\ t = call[r].kept.terms /\ e = call[r].kept.existing
        /\ UpsertApproval(d, role, t, e)
  BY ApprovalIs
<1>2. /\ t \in CompleteTerms
      /\ \A v \in e : Recorded(d, role, v)
      /\ Recorded(d, OppositeRole(role), t)
  BY <1>1 DEF ConsentInv, Evidence, ApproveWrite
<1>3. OppositeRole(role) \in Roles /\ Roles = {role, OppositeRole(role)}
  BY TwoRoles
<1>4. Recorded(d, OppositeRole(role), t)'
  BY <1>2, <1>3, RecordedStays
<1>5. Recorded(d, role, t)'
  <2>1. CASE t \in e
    BY <1>2, <2>1, RecordedStays
  <2>2. CASE t \notin e
    <3>1. active'[d][role][t] = active[d][role][t] + 1
      BY <1>0, <1>1, <2>2, UpsertIs
    <3>2. active[d][role][t] \in Nat
      BY <1>0 DEF RoomTypeOK
    <3> QED
      BY <3>1, <3>2 DEF Recorded
  <2> QED
    BY <2>1, <2>2
<1> QED
  BY <1>2, <1>3, <1>4, <1>5 DEF BothConsented

\* What consent must come before.
Committed(d) == \/ status[d] \notin BeforeAgreement
                \/ held[d] # 0
                \/ receipts[d] > 0

\* Every step keeps consent ahead of money.
LEMMA StepConsent ==
  ASSUME RoomInv, RoomInv', ConsentInv, DealRoomNext
  PROVE  ConsentInv'
<1>1. \A r \in Requests : Evidence(r)'
  BY EvidenceStays, EvidenceFound DEF ConsentInv
<1>2. ASSUME NEW d \in Deals, Committed(d)' PROVE BothConsented(d)'
  <2>1. CASE Committed(d)
    BY <2>1, ConsentStays DEF ConsentInv, ConsentBeforeMoney, Committed
  <2>2. CASE ~Committed(d)
    <3>1. Columns(d)' # Columns(d)
      BY <1>2, <2>2 DEF Columns, Committed
    <3>2. status[d] \in BeforeAgreement /\ status \in [Deals -> RowStatuses]
      BY <2>2 DEF Committed, RoomInv, RoomTypeOK, RowsTypeOK
    <3>3. UNCHANGED escrow => status'[d] \notin BeforeAgreement
      BY <1>2, <2>2 DEF Committed, escrow
    <3>4. ASSUME NEW u \in Users, NEW role \in Roles, NEW t \in CompleteTerms,
                 NEW columns \in SUBSET FilledColumns,
                 CreateDeal(d, u, role, t, columns), UNCHANGED escrow
          PROVE  FALSE
      BY <3>2, <3>3, <3>4 DEF CreateDeal, InsertDeal, Transition, BeforeAgreement
    <3>5. ASSUME NEW r \in Requests, call[r].deal = d,
                 AgreementWrite(r), UNCHANGED escrow
          PROVE  BothConsented(d)'
      <4>1. CASE JoinWrite(r) \/ PatchProductWrite(r)
        <5>1. \/ UNCHANGED status
              \/ status' = [status EXCEPT ![d] = "AWAITING_BOTH_APPROVAL"]
          BY <3>5, <4>1 DEF JoinWrite, PatchProductWrite, Transition
        <5> QED
          BY <3>2, <3>3, <3>5, <5>1 DEF BeforeAgreement
      <4>2. CASE ApproveWrite(r)
        <5>1. call[r].kept.both
          BY <3>2, <3>3, <3>5, <4>2 DEF ApproveWrite
        <5> QED
          BY <3>5, <4>2, <5>1, ApprovalConsents
      <4> QED
        BY <3>5, <4>1, <4>2 DEF AgreementWrite
    <3>6. ASSUME NEW r \in Requests, call[r].deal = d, MoneyWrite(r)
          PROVE  BothConsented(d)'
      <4>1. BothConsented(d)
        BY <3>6, MoneyWriteIs DEF ConsentInv, Evidence
      <4> QED
        BY <4>1, ConsentStays
    <3> QED
      BY <3>1, <3>4, <3>5, <3>6, StepWrites
  <2> QED
    BY <2>1, <2>2
<1> QED
  BY <1>1, <1>2 DEF ConsentInv, ConsentBeforeMoney, Committed

(***************************************************************************)
(* However calls overlap, money is held for a deal, or reported, only if   *)
(* both sides have recorded an approval of the same complete terms.        *)
(***************************************************************************)
THEOREM MoneyTheorem == DealRoomSpec => []ConsentBeforeMoney
<1>1. DealRoomInit => RoomInv /\ ConsentInv
  <2> SUFFICES ASSUME DealRoomInit PROVE RoomInv /\ ConsentInv
    OBVIOUS
  <2>1. /\ \A r \in Requests : call[r].op = "idle"
        /\ \A d \in Deals : /\ status[d] = Uncreated /\ held[d] = 0
                            /\ receipts[d] = 0
    BY DEF DealRoomInit, NegotiationInit, MoneyInit, Idle
  <2>2. ConsentInv
    BY <2>1 DEF ConsentInv, ConsentBeforeMoney, Evidence, BeforeAgreement, MoneyCalls
  <2> QED
    BY <2>2, InitRoomInv
<1>2. RoomInv /\ ConsentInv /\ [DealRoomNext]_dealRoomVars => RoomInv' /\ ConsentInv'
  <2> SUFFICES ASSUME RoomInv, ConsentInv, [DealRoomNext]_dealRoomVars
               PROVE  RoomInv' /\ ConsentInv'
    OBVIOUS
  <2>1. RoomInv'
    BY StepRoomInv
  <2>2. CASE DealRoomNext
    BY <2>1, <2>2, StepConsent
  <2>3. CASE UNCHANGED dealRoomVars
    BY <2>1, <2>3
    DEF ConsentInv, ConsentBeforeMoney, BothConsented, Evidence, Recorded, RoleOf,
        dealRoomVars, negotiation, escrow
  <2> QED
    BY <2>1, <2>2, <2>3
<1>3. ConsentInv => ConsentBeforeMoney
  BY DEF ConsentInv
<1> QED
  BY <1>1, <1>2, <1>3, PTL DEF DealRoomSpec
=============================================================================
