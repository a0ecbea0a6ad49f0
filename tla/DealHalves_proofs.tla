-------------------------- MODULE DealHalves_proofs --------------------------
(***************************************************************************)
(* Proofs about the two halves of a deal, DealNegotiation and EscrowMoney, *)
(* for every set of deals, users, terms, prices and request slots, that is *)
(* for any number of overlapping calls.  Each half is taken for itself,    *)
(* under its own specification; DealRoom_proofs is about both together.    *)
(***************************************************************************)
EXTENDS DealNegotiation, EscrowMoney, FiniteSums, TLAPS

-----------------------------------------------------------------------------
(* Negotiation: the status table *)

\* The statuses the component writes are statuses of the table.
LEMMA StatusNames ==
  /\ "DRAFT" \in DealStatuses
  /\ "AWAITING_COUNTERPARTY" \in DealStatuses
  /\ "AWAITING_BOTH_APPROVAL" \in DealStatuses
  /\ "READY_FOR_PAYMENT" \in DealStatuses
  /\ DealStatuses \subseteq RowStatuses
  /\ Uncreated \notin DealStatuses
BY DEF DealStatuses, DealStatusTransitions, RowStatuses, Uncreated

-----------------------------------------------------------------------------
(* Negotiation: the inductive invariants *)

\* A deal that does not exist yet has no invite and no participants.
Unborn ==
  \A d \in Deals : status[d] = Uncreated =>
    invite[d] = "none" /\ \A role \in Roles : party[d][role] = Nobody

\* Whoever has passed the authorisation of a call takes part in the deal.
CallersTakePart ==
  \A r \in Requests :
    call[r].op \in {"approve", "approveCommit", "patchParticipant"} =>
      IsParticipant(call[r].deal, call[r].by)

\* Who takes part in a deal, and since when.
MembershipInv ==
  NegotiationTypeOK /\ Unborn /\ SpentIffJoined /\ CallersTakePart

\* What an approval in flight has seen: terms that were complete, and live
\* rows, which by now may have been invalidated but not forgotten.
Evidence(r) ==
  LET q == call[r]
      role == RoleOf(q.deal, q.by)
  IN  /\ q.op \in {"approve", "approveCommit"} =>
           q.kept.terms \in CompleteTerms
      /\ q.op = "approveCommit" =>
           /\ \A t \in q.kept.existing : Recorded(q.deal, role, t)
           /\ q.kept.both =>
                Recorded(q.deal, OppositeRole(role), q.kept.terms)

CommitsHaveEvidence == \A r \in Requests : Evidence(r)

AgreementInv == MembershipInv /\ CommitsHaveEvidence /\ AgreedByBoth

-----------------------------------------------------------------------------
(* Negotiation: type correctness *)

\* The initial state has the types of the rows and finds no call in flight.
LEMMA InitTypeOK == NegotiationInit => NegotiationTypeOK
<1> SUFFICES ASSUME NegotiationInit PROVE NegotiationTypeOK
  OBVIOUS
<1>1. PICK t \in CompleteTerms : terms = [d \in Deals |-> t]
  BY CompleteTermsAssumption DEF NegotiationInit
<1>2. t \in Terms
  BY CompleteTermsAssumption
<1>3. RowsTypeOK
  BY <1>1, <1>2, StatusNames DEF NegotiationInit, RowsTypeOK, RowStatuses
<1>4. hash \in [Deals -> Terms]
  BY <1>1, <1>2 DEF NegotiationInit
<1>5. active \in [Deals -> [Roles -> [Terms -> Nat]]]
  BY DEF NegotiationInit, NoApprovals
<1> QED
  BY <1>3, <1>4, <1>5 DEF NegotiationInit, NegotiationTypeOK, InviteStates

\* The call records of the component, spelt out.
LEMMA CallTypes ==
  ASSUME NEW d \in Deals, NEW u \in Users
  PROVE  /\ \A seen \in DealStatuses :
              Call("join", d, u, [seen |-> seen]) \in NegotiationCalls
         /\ \A seen \in DealStatuses, t \in Terms :
              Call("approve", d, u, [seen |-> seen, terms |-> t])
                \in NegotiationCalls
         /\ \A columns \in ColumnEdits, edit \in Edits, m \in BOOLEAN :
              Call("patchProduct", d, u,
                   [columns |-> columns, productType |-> edit, material |-> m])
                \in NegotiationCalls
         /\ \A edit \in Edits :
              Call("patchParticipant", d, u, [edit |-> edit])
                \in NegotiationCalls
         /\ \A seen \in DealStatuses, t \in Terms, e \in ColumnEdits,
               both \in BOOLEAN :
              Call("approveCommit", d, u,
                   [seen |-> seen, terms |-> t, existing |-> e, both |-> both])
                \in NegotiationCalls
BY DEF Call, NegotiationCalls

\* What the op field of a call in flight says about its other fields.
LEMMA CallFields ==
  ASSUME NegotiationTypeOK, NEW r \in Requests, call[r] # Idle
  PROVE  /\ call[r].deal \in Deals
         /\ call[r].by \in Users
         /\ call[r] = Call(call[r].op, call[r].deal, call[r].by, call[r].kept)
         /\ call[r].op = "join" => call[r].kept \in [seen : DealStatuses]
         /\ call[r].op = "approve" =>
              call[r].kept \in [seen : DealStatuses, terms : Terms]
         /\ call[r].op = "patchProduct" =>
              call[r].kept \in [columns : ColumnEdits, productType : Edits,
                                material : BOOLEAN]
         /\ call[r].op = "patchParticipant" => call[r].kept \in [edit : Edits]
         /\ call[r].op = "approveCommit" =>
              call[r].kept \in [seen : DealStatuses, terms : Terms,
                                existing : ColumnEdits, both : BOOLEAN]
BY DEF NegotiationTypeOK, NegotiationCalls, Call

\* An idle slot holds no fields but its op.
LEMMA IdleOp == ASSUME NegotiationTypeOK, NEW r \in Requests
                PROVE  /\ call[r].op # "idle" => call[r] # Idle
                       /\ call[r] # Idle => call[r].op # "idle"
BY DEF NegotiationTypeOK, NegotiationCalls, Idle

\* RoleOf finds the side of whoever takes part.
LEMMA RoleOfParticipant ==
  ASSUME NEW d \in Deals, NEW u, IsParticipant(d, u)
  PROVE  RoleOf(d, u) \in Roles /\ party[d][RoleOf(d, u)] = u
BY DEF IsParticipant, RoleOf

\* Every step of the component preserves the types.
LEMMA StepTypeOK ==
  NegotiationTypeOK /\ CallersTakePart /\ [NegotiationNext]_negotiationVars
    => NegotiationTypeOK'
<1> SUFFICES ASSUME NegotiationTypeOK, CallersTakePart,
                    [NegotiationNext]_negotiationVars
             PROVE  NegotiationTypeOK'
  OBVIOUS
<1> USE StatusNames
<1>1. ASSUME NEW d \in Deals, NEW u \in Users, NEW role \in Roles,
             NEW t \in CompleteTerms, NEW columns \in SUBSET FilledColumns,
             CreateDeal(d, u, role, t, columns)
      PROVE  NegotiationTypeOK'
  <2>1. t \in Terms
    BY CompleteTermsAssumption
  <2> QED
    BY <1>1, <2>1
    DEF CreateDeal, RequiredGiven, InsertDeal, Transition, NegotiationTypeOK,
        RowsTypeOK, InviteStates
<1>2. ASSUME NEW d \in Deals, ExpireInvite(d) PROVE NegotiationTypeOK'
  BY <1>2 DEF ExpireInvite, NegotiationTypeOK, RowsTypeOK, InviteStates
<1>3. ASSUME NEW r \in Requests, NEW d \in Deals, NEW u \in Users,
             JoinRead(r, d, u)
      PROVE  NegotiationTypeOK'
  <2>1. status[d] \in DealStatuses
    BY <1>3 DEF JoinRead, NegotiationTypeOK, RowsTypeOK, RowStatuses
  <2>2. Call("join", d, u, [seen |-> status[d]]) \in NegotiationCalls
    BY <2>1, CallTypes
  <2> QED
    BY <1>3, <2>2
    DEF JoinRead, Open, negotiation, NegotiationTypeOK, RowsTypeOK
<1>4. ASSUME NEW r \in Requests, JoinWrite(r) PROVE NegotiationTypeOK'
  <2>1. call[r].deal \in Deals /\ call[r].by \in Users
    BY <1>4, IdleOp, CallFields DEF JoinWrite
  <2>2. \A role \in Roles : NameColumn(role) \in FilledColumns
    BY DEF Roles, NameColumn, FilledColumns
  <2> QED
    BY <1>4, <2>1, <2>2
    DEF JoinWrite, SpendInvite, BackfillName, InsertParticipant, Transition,
        Close, NegotiationTypeOK,
        RowsTypeOK, InviteStates
<1>5. ASSUME NEW r \in Requests, NEW d \in Deals, NEW u \in Users,
             NEW columns \in ColumnEdits, NEW edit \in Edits,
             PatchProductRead(r, d, u, columns, edit)
      PROVE  NegotiationTypeOK'
  <2>1. IsMaterial(d, columns) \in BOOLEAN
    BY DEF IsMaterial
  <2>2. Call("patchProduct", d, u,
             [columns |-> columns, productType |-> edit,
              material |-> IsMaterial(d, columns)]) \in NegotiationCalls
    BY <2>1, CallTypes
  <2> QED
    BY <1>5, <2>2
    DEF PatchProductRead, Open, negotiation, NegotiationTypeOK, RowsTypeOK
<1>6. ASSUME NEW r \in Requests, PatchProductWrite(r)
      PROVE  NegotiationTypeOK'
  <2> DEFINE d == call[r].deal
             new == IF call[r].kept.columns = {} THEN terms[d]
                    ELSE CHOOSE t \in call[r].kept.columns : TRUE
             pt == PresenceAfter(filled[d], "Product_Type",
                                 call[r].kept.productType)
  <2>1. /\ d \in Deals
        /\ call[r].kept.columns \in ColumnEdits
        /\ call[r].kept.productType \in Edits
    BY <1>6, IdleOp, CallFields DEF PatchProductWrite
  <2>2. new \in Terms
    BY <2>1 DEF ColumnEdits, NegotiationTypeOK, RowsTypeOK
  <2>3. pt \in SUBSET FilledColumns
    BY <2>1 DEF PresenceAfter, Edits, FilledColumns, NegotiationTypeOK
  <2>4. NoApprovals \in [Roles -> [Terms -> Nat]]
    BY DEF NoApprovals
  <2>5. status' \in [Deals -> RowStatuses]
    BY <1>6, <2>1
    DEF PatchProductWrite, Transition, NegotiationTypeOK, RowsTypeOK
  <2>7. active' \in [Deals -> [Roles -> [Terms -> Nat]]]
    BY <1>6, <2>1, <2>4
    DEF PatchProductWrite, InvalidateApprovals, NegotiationTypeOK
  <2> DEFINE more == {a \in Roles \X Terms : active[d][a[1]][a[2]] > 0}
  <2>8. \/ withdrawn' = [withdrawn EXCEPT ![d] = @ \cup more]
        \/ withdrawn' = withdrawn
    BY <1>6 DEF PatchProductWrite, InvalidateApprovals
  <2>9. more \subseteq Roles \X Terms
    OBVIOUS
  <2> HIDE DEF more
  <2>10. withdrawn' \in [Deals -> SUBSET (Roles \X Terms)]
    BY <2>1, <2>8, <2>9 DEF NegotiationTypeOK
  <2>6. /\ terms' = [terms EXCEPT ![d] = new]
        /\ hash' = [hash EXCEPT ![d] = new]
        /\ filled' = [filled EXCEPT ![d] = pt]
        /\ call' = [call EXCEPT ![r] = Idle]
        /\ UNCHANGED <<party, invite>>
    BY <1>6 DEF PatchProductWrite, RefreshTermsHash, Close
  <2> QED
    BY <2>1, <2>2, <2>3, <2>5, <2>6, <2>7, <2>10
    DEF NegotiationTypeOK, RowsTypeOK
<1>7. ASSUME NEW r \in Requests, NEW d \in Deals, NEW u \in Users,
             NEW edit \in {"set", "clear"}, PatchParticipantRead(r, d, u, edit)
      PROVE  NegotiationTypeOK'
  <2>1. Call("patchParticipant", d, u, [edit |-> edit]) \in NegotiationCalls
    BY CallTypes DEF Edits
  <2> QED
    BY <1>7, <2>1
    DEF PatchParticipantRead, Open, negotiation, NegotiationTypeOK, RowsTypeOK
<1>8. ASSUME NEW r \in Requests, PatchParticipantWrite(r)
      PROVE  NegotiationTypeOK'
  <2>1. call[r].deal \in Deals /\ call[r].kept.edit \in Edits
    BY <1>8, IdleOp, CallFields DEF PatchParticipantWrite
  <2>2. \A x : NameColumn(x) \in FilledColumns
    BY DEF NameColumn, FilledColumns
  <2>3. \A x \in FilledColumns, s \in SUBSET FilledColumns :
          PresenceAfter(s, x, call[r].kept.edit) \in SUBSET FilledColumns
    BY <2>1 DEF PresenceAfter, Edits
  <2> QED
    BY <1>8, <2>1, <2>2, <2>3
    DEF PatchParticipantWrite, Close, NegotiationTypeOK, RowsTypeOK
<1>9. ASSUME NEW r \in Requests, NEW d \in Deals, NEW u \in Users,
             ApproveRead(r, d, u)
      PROVE  NegotiationTypeOK'
  <2>1. Call("approve", d, u, [seen |-> status[d], terms |-> terms[d]])
          \in NegotiationCalls
    BY <1>9, CallTypes DEF ApproveRead, NegotiationTypeOK, RowsTypeOK
  <2> QED
    BY <1>9, <2>1
    DEF ApproveRead, Open, negotiation, NegotiationTypeOK, RowsTypeOK
<1>10. ASSUME NEW r \in Requests, ApproveCheck(r) PROVE NegotiationTypeOK'
  <2> DEFINE q == call[r]
             role == RoleOf(q.deal, q.by)
  <2>1. PICK e \in LiveRow(q.deal, role) :
          call' = [call EXCEPT ![r] =
                    Call("approveCommit", q.deal, q.by,
                         [seen |-> q.kept.seen, terms |-> q.kept.terms,
                          existing |-> e,
                          both |-> BothApproved(q.deal, role, q.kept.terms)])]
    BY <1>10 DEF ApproveCheck, Become
  <2>2. e \in ColumnEdits
    BY <2>1 DEF LiveRow, ColumnEdits
  <2>3. /\ q.deal \in Deals
        /\ q.by \in Users
        /\ q.kept \in [seen : DealStatuses, terms : Terms]
    BY <1>10, IdleOp, CallFields DEF ApproveCheck
  <2>4. BothApproved(q.deal, role, q.kept.terms) \in BOOLEAN
    BY DEF BothApproved
  <2>6. call'[r] \in NegotiationCalls
    BY <2>1, <2>2, <2>3, <2>4, CallTypes DEF NegotiationTypeOK
  <2> QED
    BY <1>10, <2>1, <2>6
    DEF ApproveCheck, negotiation, NegotiationTypeOK, RowsTypeOK
<1>11. ASSUME NEW r \in Requests, ApproveWrite(r) PROVE NegotiationTypeOK'
  <2> DEFINE q == call[r]
             d == q.deal
             role == RoleOf(d, q.by)
  <2>1. /\ d \in Deals
        /\ q.kept \in [seen : DealStatuses, terms : Terms,
                       existing : ColumnEdits, both : BOOLEAN]
    BY <1>11, IdleOp, CallFields DEF ApproveWrite
  <2> DEFINE rows == active[d][role]
             after == [v \in Terms |->
                        IF v \in q.kept.existing \ {q.kept.terms} /\ rows[v] > 0
                        THEN rows[v] - 1
                        ELSE IF /\ v = q.kept.terms
                                /\ q.kept.terms \notin q.kept.existing
                             THEN rows[v] + 1
                             ELSE rows[v]]
  <2>3. role \in Roles
    BY <1>11, <2>1, RoleOfParticipant DEF ApproveWrite, CallersTakePart
  <2>2. active' \in [Deals -> [Roles -> [Terms -> Nat]]]
    <3>1. rows \in [Terms -> Nat]
      BY <2>1, <2>3 DEF NegotiationTypeOK
    <3>2. after \in [Terms -> Nat]
      BY <3>1
    <3>3. active' = [active EXCEPT ![d][role] = after]
      BY <1>11 DEF ApproveWrite, UpsertApproval
    <3> HIDE DEF after
    <3> QED
      BY <2>1, <2>3, <3>2, <3>3 DEF NegotiationTypeOK
  <2>4. q.kept.existing \subseteq Terms
    BY <2>1 DEF ColumnEdits
  <2> DEFINE more == {role} \X (q.kept.existing \ {q.kept.terms})
  <2>5. more \subseteq Roles \X Terms
    BY <2>3, <2>4
  <2>6. withdrawn' = [withdrawn EXCEPT ![d] = @ \cup more]
    BY <1>11 DEF ApproveWrite, UpsertApproval
  <2> HIDE DEF more
  <2>7. withdrawn' \in [Deals -> SUBSET (Roles \X Terms)]
    BY <2>1, <2>5, <2>6 DEF NegotiationTypeOK
  <2> QED
    BY <1>11, <2>1, <2>2, <2>7
    DEF ApproveWrite, UpsertApproval, Transition, Close, NegotiationTypeOK,
        RowsTypeOK
<1>12. ASSUME NEW r \in Requests, AbortNegotiation(r) PROVE NegotiationTypeOK'
  BY <1>12
  DEF AbortNegotiation, Abort, Close, negotiation, NegotiationTypeOK, RowsTypeOK
<1>13. CASE UNCHANGED negotiationVars
  BY <1>13 DEF negotiationVars, negotiation, NegotiationTypeOK, RowsTypeOK
<1> QED
  BY <1>1, <1>2, <1>3, <1>4, <1>5, <1>6, <1>7, <1>8, <1>9, <1>10, <1>11,
     <1>12, <1>13
  DEF NegotiationNext, NegotiationStep, NegotiationCall, PatchCall

-----------------------------------------------------------------------------
(* Membership *)

\* Nobody takes part in anything at the start.
LEMMA InitMembership == NegotiationInit => MembershipInv
<1> SUFFICES ASSUME NegotiationInit PROVE MembershipInv
  OBVIOUS
<1>1. NegotiationTypeOK
  BY InitTypeOK
<1>2. Unborn /\ SpentIffJoined /\ CallersTakePart
  BY DEF NegotiationInit, Unborn, SpentIffJoined, CallersTakePart, Idle, Roles
<1> QED
  BY <1>1, <1>2 DEF MembershipInv

\* A step that changes neither rows nor invites keeps the facts about them.
LEMMA RowsKept ==
  ASSUME MembershipInv, UNCHANGED <<party, invite>>,
         \A d \in Deals : status'[d] = Uncreated => status[d] = Uncreated
  PROVE  Unborn' /\ SpentIffJoined'
BY DEF MembershipInv, Unborn, SpentIffJoined

\* The call of one slot may end, or change into an authorised one.
LEMMA CallerKept ==
  ASSUME MembershipInv, NEW r \in Requests, NEW c,
         call' = [call EXCEPT ![r] = c], UNCHANGED party,
         c.op \in {"approve", "approveCommit", "patchParticipant"} =>
           IsParticipant(c.deal, c.by)
  PROVE  CallersTakePart'
BY DEF MembershipInv, CallersTakePart, IsParticipant, NegotiationTypeOK

\* No status ever becomes Uncreated again.
LEMMA NeverUncreated ==
  ASSUME MembershipInv, [NegotiationNext]_negotiationVars
  PROVE  \A d \in Deals : status'[d] = Uncreated => status[d] = Uncreated
<1> USE StatusNames DEF MembershipInv, NegotiationTypeOK, RowsTypeOK
<1>1. ASSUME NEW e \in Deals, NEW u \in Users, NEW role \in Roles,
             NEW t \in CompleteTerms, NEW columns \in SUBSET FilledColumns,
             CreateDeal(e, u, role, t, columns)
      PROVE  \A d \in Deals : status'[d] = Uncreated => status[d] = Uncreated
  BY <1>1 DEF CreateDeal, InsertDeal, Transition
<1>2. ASSUME NEW r \in Requests,
             JoinWrite(r) \/ PatchProductWrite(r) \/ ApproveWrite(r)
      PROVE  \A d \in Deals : status'[d] = Uncreated => status[d] = Uncreated
  BY <1>2
  DEF JoinWrite, PatchProductWrite, ApproveWrite, Transition
<1>3. CASE UNCHANGED status
  BY <1>3
<1> QED
  BY <1>1, <1>2, <1>3
  DEF NegotiationNext, NegotiationStep, NegotiationCall, PatchCall,
      negotiationVars,
      ExpireInvite, JoinRead, PatchProductRead, PatchParticipantRead,
      PatchParticipantWrite, ApproveRead, ApproveCheck, AbortNegotiation, Abort

\* Every step preserves the facts about membership.
LEMMA StepMembership ==
  MembershipInv /\ [NegotiationNext]_negotiationVars => MembershipInv'
<1> SUFFICES ASSUME MembershipInv, [NegotiationNext]_negotiationVars
             PROVE  MembershipInv'
  OBVIOUS
<1>0. NegotiationTypeOK'
  BY StepTypeOK DEF MembershipInv
<1> DEFINE Goal == Unborn' /\ SpentIffJoined' /\ CallersTakePart'
<1>1. ASSUME NEW d \in Deals, NEW u \in Users, NEW role \in Roles,
             NEW t \in CompleteTerms, NEW columns \in SUBSET FilledColumns,
             CreateDeal(d, u, role, t, columns)
      PROVE  Goal
  <2>1. /\ status[d] = Uncreated
        /\ status' = [status EXCEPT ![d] = "AWAITING_COUNTERPARTY"]
        /\ party' = [party EXCEPT ![d][role] = u]
        /\ invite' = [invite EXCEPT ![d] = "live"]
        /\ call' = call
    BY <1>1 DEF CreateDeal, InsertDeal, Transition
  <2>2. \A s \in Roles : party[d][s] = Nobody
    BY <2>1 DEF MembershipInv, Unborn
  <2>3. Unborn'
    BY <2>1, StatusNames
    DEF MembershipInv, Unborn, NegotiationTypeOK, RowsTypeOK
  <2>4. OppositeRole(role) \in Roles /\ OppositeRole(role) # role
    BY DEF OppositeRole, Roles
  <2>5. party'[d][OppositeRole(role)] = Nobody
    BY <2>1, <2>2, <2>4 DEF MembershipInv, NegotiationTypeOK, RowsTypeOK
  <2>6. SpentIffJoined'
    BY <2>1, <2>4, <2>5
    DEF MembershipInv, SpentIffJoined, NegotiationTypeOK, RowsTypeOK
  <2>7. ASSUME NEW r \in Requests,
               call[r].op \in {"approve", "approveCommit", "patchParticipant"}
        PROVE  IsParticipant(call[r].deal, call[r].by)'
    <3>1. call[r].by \in Users /\ call[r].deal \in Deals
      BY <2>7, CallFields, IdleOp DEF MembershipInv
    <3>2. PICK s \in Roles : party[call[r].deal][s] = call[r].by
      BY <2>7 DEF MembershipInv, CallersTakePart, IsParticipant
    <3>3. call[r].deal # d
      BY <2>2, <3>1, <3>2, NobodyAssumption
    <3> QED
      BY <2>1, <3>1, <3>2, <3>3
      DEF IsParticipant, MembershipInv, NegotiationTypeOK, RowsTypeOK
  <2> QED
    BY <2>1, <2>3, <2>6, <2>7 DEF CallersTakePart
<1>2. ASSUME NEW d \in Deals, ExpireInvite(d) PROVE Goal
  <2>1. Unborn' /\ SpentIffJoined'
    BY <1>2
    DEF ExpireInvite, MembershipInv, Unborn, SpentIffJoined, NegotiationTypeOK
  <2> QED
    BY <1>2, <2>1
    DEF ExpireInvite, MembershipInv, CallersTakePart, IsParticipant
<1>3. ASSUME NEW r \in Requests, JoinWrite(r) PROVE Goal
  <2> DEFINE d == call[r].deal
  <2>1. d \in Deals /\ call[r].by \in Users
    BY <1>3, IdleOp, CallFields DEF JoinWrite, MembershipInv
  <2>2. PICK role \in Roles :
          /\ status[d] = "AWAITING_COUNTERPARTY"
          /\ invite[d] = "live"
          /\ invite' = [invite EXCEPT ![d] = "spent"]
          /\ party[d][OppositeRole(role)] # Nobody
          /\ party[d][role] = Nobody
          /\ ~IsParticipant(d, call[r].by)
          /\ party' = [party EXCEPT ![d][role] = call[r].by]
          /\ status' = [status EXCEPT ![d] = "AWAITING_BOTH_APPROVAL"]
          /\ call' = [call EXCEPT ![r] = Idle]
    BY <1>3 DEF JoinWrite, SpendInvite, InsertParticipant, Transition, Close
  <2>3. /\ OppositeRole(role) \in Roles
        /\ OppositeRole(role) # role
        /\ Roles = {role, OppositeRole(role)}
        /\ Roles = {"buyer", "seller"}
    BY DEF OppositeRole, Roles
  <2>4. Unborn'
    BY <2>1, <2>2, StatusNames
    DEF MembershipInv, Unborn, NegotiationTypeOK, RowsTypeOK
  <2>5. /\ party'[d][role] = call[r].by
        /\ party'[d][OppositeRole(role)] = party[d][OppositeRole(role)]
        /\ party[d][OppositeRole(role)] # call[r].by
    BY <2>1, <2>2, <2>3
    DEF MembershipInv, NegotiationTypeOK, RowsTypeOK, IsParticipant
  <2>6. ASSUME NEW e \in Deals
        PROVE  /\ invite'[e] = "spent" <=>
                    \A s \in Roles : party'[e][s] # Nobody
               /\ invite'[e] = "spent" =>
                    party'[e]["buyer"] # party'[e]["seller"]
    <3>1. CASE e = d
      BY <2>1, <2>2, <2>3, <2>5, <3>1, NobodyAssumption
      DEF MembershipInv, NegotiationTypeOK
    <3>2. CASE e # d
      BY <2>1, <2>2, <2>3, <3>2
      DEF MembershipInv, SpentIffJoined, NegotiationTypeOK, RowsTypeOK
    <3> QED
      BY <3>1, <3>2
  <2>7. SpentIffJoined'
    BY <2>6 DEF SpentIffJoined
  <2>8. ASSUME NEW q \in Requests,
               call'[q].op \in {"approve", "approveCommit", "patchParticipant"}
        PROVE  IsParticipant(call[q].deal, call[q].by)' /\ call'[q] = call[q]
    <3>1. q # r /\ call'[q] = call[q]
      BY <2>2, <2>8 DEF Idle, MembershipInv, NegotiationTypeOK
    <3>2. call[q].by \in Users /\ call[q].deal \in Deals
      BY <2>8, <3>1, CallFields, IdleOp DEF MembershipInv
    <3>3. PICK s \in Roles : party[call[q].deal][s] = call[q].by
      BY <2>8, <3>1 DEF MembershipInv, CallersTakePart, IsParticipant
    <3>4. party'[call[q].deal][s] = call[q].by
      BY <2>1, <2>2, <3>2, <3>3, NobodyAssumption
      DEF MembershipInv, NegotiationTypeOK, RowsTypeOK
    <3> QED
      BY <3>1, <3>4 DEF IsParticipant
  <2> QED
    BY <2>4, <2>7, <2>8 DEF CallersTakePart
<1>4. ASSUME NEW r \in Requests, NEW c, call' = [call EXCEPT ![r] = c],
             UNCHANGED <<party, invite>>,
             c.op \in {"approve", "approveCommit", "patchParticipant"} =>
               IsParticipant(c.deal, c.by)
      PROVE  Goal
  BY <1>4, RowsKept, CallerKept, NeverUncreated
<1>5. ASSUME NEW r \in Requests, NEW d \in Deals, NEW u \in Users,
             JoinRead(r, d, u)
      PROVE  Goal
  BY <1>4, <1>5 DEF JoinRead, Open, Call, negotiation
<1>6. ASSUME NEW r \in Requests, NEW d \in Deals, NEW u \in Users,
             NEW columns \in ColumnEdits, NEW edit \in Edits,
             PatchProductRead(r, d, u, columns, edit)
      PROVE  Goal
  BY <1>4, <1>6 DEF PatchProductRead, Open, Call, negotiation
<1>7. ASSUME NEW r \in Requests, NEW d \in Deals, NEW u \in Users,
             NEW edit \in {"set", "clear"}, PatchParticipantRead(r, d, u, edit)
      PROVE  Goal
  BY <1>4, <1>7 DEF PatchParticipantRead, MayEdit, Open, Call, negotiation
<1>8. ASSUME NEW r \in Requests, NEW d \in Deals, NEW u \in Users,
             ApproveRead(r, d, u)
      PROVE  Goal
  BY <1>4, <1>8 DEF ApproveRead, Open, Call, negotiation
<1>9. ASSUME NEW r \in Requests,
             \/ PatchProductWrite(r)
             \/ PatchParticipantWrite(r)
             \/ ApproveWrite(r)
             \/ AbortNegotiation(r)
      PROVE  Goal
  <2>1. call' = [call EXCEPT ![r] = Idle] /\ UNCHANGED <<party, invite>>
    BY <1>9
    DEF PatchProductWrite, PatchParticipantWrite, ApproveWrite,
        AbortNegotiation, Abort, Close, negotiation
  <2> QED
    BY <1>4, <2>1 DEF Idle
<1>10. ASSUME NEW r \in Requests, ApproveCheck(r) PROVE Goal
  <2>1. PICK k : call' = [call EXCEPT
                   ![r] = Call("approveCommit", call[r].deal, call[r].by, k)]
    BY <1>10 DEF ApproveCheck, Become
  <2>4. IsParticipant(call[r].deal, call[r].by)
    BY <1>10 DEF ApproveCheck, MembershipInv, CallersTakePart
  <2>5. UNCHANGED <<party, invite>>
    BY <1>10 DEF ApproveCheck, negotiation
  <2> QED
    BY <1>4, <2>1, <2>4, <2>5 DEF Call
<1>11. ASSUME UNCHANGED negotiationVars PROVE Goal
  <2>1. UNCHANGED <<status, party, call, invite>>
    BY <1>11 DEF negotiationVars, negotiation
  <2>2. CallersTakePart'
    BY <2>1 DEF MembershipInv, CallersTakePart, IsParticipant
  <2>3. \A d \in Deals : status'[d] = Uncreated => status[d] = Uncreated
    BY <2>1
  <2>4. UNCHANGED <<party, invite>>
    BY <2>1
  <2>5. Unborn' /\ SpentIffJoined'
    BY <2>3, <2>4, RowsKept
  <2> QED
    BY <2>2, <2>5
<1> HIDE DEF Goal
<1>12. Goal
  BY <1>1, <1>2, <1>3, <1>5, <1>6, <1>7, <1>8, <1>9, <1>10, <1>11
  DEF NegotiationNext, NegotiationStep, NegotiationCall, PatchCall
<1> QED
  BY <1>0, <1>12 DEF MembershipInv, Goal

-----------------------------------------------------------------------------
(* Agreement *)

\* Whoever takes part stays on the side where they are.
LEMMA SidesKept ==
  ASSUME MembershipInv, [NegotiationNext]_negotiationVars,
         NEW d \in Deals, NEW role \in Roles, party[d][role] # Nobody
  PROVE  party'[d][role] = party[d][role]
<1> USE DEF MembershipInv, NegotiationTypeOK, RowsTypeOK
<1>1. ASSUME NEW e \in Deals, NEW u \in Users, NEW s \in Roles,
             NEW t \in CompleteTerms, NEW columns \in SUBSET FilledColumns,
             CreateDeal(e, u, s, t, columns)
      PROVE  party'[d][role] = party[d][role]
  BY <1>1 DEF CreateDeal, InsertDeal, Unborn
<1>2. ASSUME NEW r \in Requests, JoinWrite(r)
      PROVE  party'[d][role] = party[d][role]
  BY <1>2 DEF JoinWrite, InsertParticipant
<1>3. CASE UNCHANGED party
  BY <1>3
<1> QED
  BY <1>1, <1>2, <1>3
  DEF NegotiationNext, NegotiationStep, NegotiationCall, PatchCall,
      negotiationVars,
      ExpireInvite, JoinRead, PatchProductRead, PatchProductWrite,
      PatchParticipantRead, PatchParticipantWrite, ApproveRead, ApproveCheck,
      ApproveWrite, AbortNegotiation, Abort

\* So RoleOf finds the same side after the step.
LEMMA RoleKept ==
  ASSUME MembershipInv, [NegotiationNext]_negotiationVars,
         NEW d \in Deals, NEW u \in Users, IsParticipant(d, u)
  PROVE  RoleOf(d, u)' = RoleOf(d, u)
<1>1. RoleOf(d, u) \in Roles /\ party[d][RoleOf(d, u)] = u
  BY RoleOfParticipant
<1>2. party'[d][RoleOf(d, u)] = u
  BY <1>1, SidesKept, NobodyAssumption
<1>3. MembershipInv'
  BY StepMembership
<1>4. \A s \in Roles : party'[d][s] = u <=> s = RoleOf(d, u)
  <2> SUFFICES ASSUME NEW s \in Roles, party'[d][s] = u
               PROVE  s = RoleOf(d, u)
    BY <1>2
  <2> QED
    BY <1>1, <1>2, <1>3, NobodyAssumption
    DEF MembershipInv, SpentIffJoined, Roles
<1>5. RoleOf(d, u)' = CHOOSE s \in Roles : party'[d][s] = u
  BY DEF RoleOf
<1> QED
  BY <1>1, <1>4, <1>5

\* A recorded approval is never lost: it stays live or becomes withdrawn.
LEMMA RecordedKept ==
  ASSUME MembershipInv, [NegotiationNext]_negotiationVars,
         NEW d \in Deals, NEW role \in Roles, NEW t \in Terms,
         Recorded(d, role, t)
  PROVE  Recorded(d, role, t)'
<1> USE DEF MembershipInv, NegotiationTypeOK, RowsTypeOK
<1>1. ASSUME NEW r \in Requests, PatchProductWrite(r)
      PROVE  Recorded(d, role, t)'
  <2>1. CASE UNCHANGED <<active, withdrawn>>
    BY <2>1 DEF Recorded
  <2>2. CASE InvalidateApprovals(call[r].deal)
    <3>1. CASE call[r].deal = d /\ active[d][role][t] > 0
      BY <2>2, <3>1 DEF InvalidateApprovals, Recorded
    <3>2. CASE call[r].deal # d \/ ~(active[d][role][t] > 0)
      BY <2>2, <3>2 DEF InvalidateApprovals, Recorded
    <3> QED
      BY <3>1, <3>2
  <2> QED
    BY <1>1, <2>1, <2>2 DEF PatchProductWrite
<1>2. ASSUME NEW r \in Requests, ApproveWrite(r)
      PROVE  Recorded(d, role, t)'
  <2> DEFINE q == call[r]
             side == RoleOf(q.deal, q.by)
             replaced == q.kept.existing \ {q.kept.terms}
  <2>1. /\ q.deal \in Deals
        /\ side \in Roles
    BY <1>2, IdleOp, CallFields, RoleOfParticipant
    DEF ApproveWrite, CallersTakePart
  <2>2. withdrawn' = [withdrawn EXCEPT ![q.deal] = @ \cup ({side} \X replaced)]
    BY <1>2 DEF ApproveWrite, UpsertApproval
  <2>3. CASE d = q.deal /\ role = side /\ t \in replaced
    BY <2>1, <2>2, <2>3 DEF Recorded
  <2>4. CASE ~(d = q.deal /\ role = side /\ t \in replaced)
    <3>1. active'[d][role][t] >= active[d][role][t]
      <4>1. active' = [active EXCEPT ![q.deal][side] =
                         [v \in Terms |->
                            IF v \in replaced /\ @[v] > 0 THEN @[v] - 1
                            ELSE IF v = q.kept.terms /\ q.kept.terms \notin q.kept.existing
                            THEN @[v] + 1 ELSE @[v]]]
        BY <1>2 DEF ApproveWrite, UpsertApproval
      <4>2. active \in [Deals -> [Roles -> [Terms -> Nat]]]
        BY DEF MembershipInv, NegotiationTypeOK
      <4> HIDE DEF q, side, replaced
      <4>3. CASE d = q.deal /\ role = side
        BY <2>1, <2>4, <4>1, <4>2, <4>3
      <4>4. CASE ~(d = q.deal /\ role = side)
        BY <2>1, <4>1, <4>2, <4>4
      <4> QED
        BY <4>3, <4>4
    <3>2. withdrawn[d] \subseteq withdrawn'[d]
      BY <2>1, <2>2
    <3>3. active'[d][role][t] \in Nat
      BY StepMembership
    <3> QED
      BY <3>1, <3>2, <3>3 DEF Recorded
  <2> QED
    BY <2>3, <2>4
<1>3. CASE UNCHANGED <<active, withdrawn>>
  BY <1>3 DEF Recorded
<1> QED
  BY <1>1, <1>2, <1>3
  DEF NegotiationNext, NegotiationStep, NegotiationCall, PatchCall,
      negotiationVars,
      negotiation, CreateDeal, ExpireInvite, JoinRead, JoinWrite,
      PatchProductRead, PatchParticipantRead, PatchParticipantWrite,
      ApproveRead, ApproveCheck, AbortNegotiation, Abort

\* No deal has left the approval phase at the start.
LEMMA InitAgreement == NegotiationInit => AgreementInv
<1> SUFFICES ASSUME NegotiationInit PROVE AgreementInv
  OBVIOUS
<1>1. MembershipInv
  BY InitMembership
<1>2. CommitsHaveEvidence /\ AgreedByBoth
  BY DEF NegotiationInit, CommitsHaveEvidence, Evidence, AgreedByBoth, Idle,
         BeforeAgreement, Uncreated
<1> QED
  BY <1>1, <1>2 DEF AgreementInv

\* A call that a step leaves alone keeps its evidence.
LEMMA EvidenceKept ==
  ASSUME MembershipInv, [NegotiationNext]_negotiationVars,
         NEW r \in Requests, Evidence(r), call'[r] = call[r]
  PROVE  Evidence(r)'
<1> DEFINE q == call[r]
           role == RoleOf(q.deal, q.by)
<1>1. CASE q.op \notin {"approve", "approveCommit"}
  BY <1>1 DEF Evidence
<1>2. CASE q.op \in {"approve", "approveCommit"}
  <2>1. q.deal \in Deals /\ q.by \in Users /\ IsParticipant(q.deal, q.by)
    BY <1>2, CallFields, IdleOp DEF MembershipInv, CallersTakePart
  <2>2. RoleOf(q.deal, q.by)' = role /\ role \in Roles
    BY <1>2, <2>1, RoleKept, RoleOfParticipant
  <2>3. OppositeRole(role) \in Roles
    BY DEF OppositeRole, Roles
  <2>4. ASSUME q.op = "approveCommit"
        PROVE  q.kept.existing \subseteq Terms /\ q.kept.terms \in Terms
    BY <2>4, CallFields, IdleOp DEF MembershipInv, ColumnEdits
  <2>5. \A t \in Terms, s \in Roles :
          Recorded(q.deal, s, t) => Recorded(q.deal, s, t)'
    BY <2>1, RecordedKept
  <2> QED
    BY <2>1, <2>2, <2>3, <2>4, <2>5 DEF Evidence
<1> QED
  BY <1>1, <1>2

\* The steps that open an approval or look up its rows find evidence.
LEMMA EvidenceFound ==
  ASSUME MembershipInv, [NegotiationNext]_negotiationVars,
         NEW r \in Requests, Evidence(r), call'[r] # call[r]
  PROVE  Evidence(r)'
<1> USE DEF MembershipInv
<1>1. ASSUME NEW s \in Requests, NEW d \in Deals, NEW u \in Users,
             ApproveRead(s, d, u)
      PROVE  Evidence(r)'
  <2>1. call' = [call EXCEPT ![s] = Call("approve", d, u,
                   [seen |-> status[d], terms |-> terms[d]])]
    BY <1>1 DEF ApproveRead, Open
  <2>2. call'[r] = Call("approve", d, u,
                        [seen |-> status[d], terms |-> terms[d]])
    BY <2>1 DEF NegotiationTypeOK
  <2>3. terms[d] \in CompleteTerms
    BY <1>1 DEF ApproveRead, NothingMissing
  <2> QED
    BY <2>2, <2>3 DEF Evidence, Call
<1>2. ASSUME NEW s \in Requests, ApproveCheck(s) PROVE Evidence(r)'
  <2>1. PICK d, u, k :
          d = call[s].deal /\ u = call[s].by /\ k = call[s].kept
    OBVIOUS
  <2>2. PICK role : role = RoleOf(d, u)
    OBVIOUS
  <2>3. PICK e, both :
          /\ e \in LiveRow(d, role)
          /\ both = BothApproved(d, role, k.terms)
          /\ call' = [call EXCEPT ![s] = Call("approveCommit", d, u,
                       [seen |-> k.seen, terms |-> k.terms,
                        existing |-> e, both |-> both])]
    BY <1>2, <2>1, <2>2 DEF ApproveCheck, Become
  <2>4. r = s
    BY <2>3 DEF NegotiationTypeOK
  <2>5. UNCHANGED <<party, active, withdrawn>>
    BY <1>2 DEF ApproveCheck, negotiation
  <2>6. RoleOf(d, u)' = role
    BY <2>2, <2>5 DEF RoleOf
  <2>7. k.terms \in CompleteTerms
    BY <1>2, <2>1, <2>4 DEF ApproveCheck, Evidence
  <2>8. \A t \in e : active[d][role][t] > 0
    BY <2>3 DEF LiveRow
  <2>9. both => active[d][OppositeRole(role)][k.terms] > 0
    BY <2>3 DEF BothApproved
  <2>10. call'[r] = Call("approveCommit", d, u,
                         [seen |-> k.seen, terms |-> k.terms,
                          existing |-> e, both |-> both])
    BY <2>3, <2>4 DEF NegotiationTypeOK
  <2> QED
    BY <2>5, <2>6, <2>7, <2>8, <2>9, <2>10 DEF Evidence, Recorded, Call
<1>3. ASSUME call'[r].op \notin {"approve", "approveCommit"}
      PROVE  Evidence(r)'
  BY <1>3 DEF Evidence
<1>4. ASSUME NEW s \in Requests, NEW d \in Deals, NEW u \in Users,
             \/ JoinRead(s, d, u)
             \/ \E columns \in ColumnEdits, edit \in Edits :
                  PatchProductRead(s, d, u, columns, edit)
             \/ \E edit \in {"set", "clear"} :
                  PatchParticipantRead(s, d, u, edit)
      PROVE  Evidence(r)'
  <2>1. \E op \in {"join", "patchProduct", "patchParticipant"} :
          \E k : call' = [call EXCEPT ![s] = Call(op, d, u, k)]
    BY <1>4 DEF JoinRead, PatchProductRead, PatchParticipantRead, Open
  <2>2. PICK op \in {"join", "patchProduct", "patchParticipant"} :
          \E k : call' = [call EXCEPT ![s] = Call(op, d, u, k)]
    BY <2>1
  <2>3. PICK k : call' = [call EXCEPT ![s] = Call(op, d, u, k)]
    BY <2>2
  <2>4. call'[r] = Call(op, d, u, k)
    BY <2>3 DEF NegotiationTypeOK
  <2>5. call'[r].op = op
    BY <2>4 DEF Call
  <2> QED
    BY <1>3, <2>5
<1>5. ASSUME NEW s \in Requests,
             \/ JoinWrite(s)
             \/ PatchProductWrite(s)
             \/ PatchParticipantWrite(s)
             \/ ApproveWrite(s)
             \/ AbortNegotiation(s)
      PROVE  Evidence(r)'
  <2>1. call' = [call EXCEPT ![s] = Idle]
    BY <1>5
    DEF JoinWrite, PatchProductWrite, PatchParticipantWrite, ApproveWrite,
        AbortNegotiation, Abort, Close
  <2>2. call'[r] = Idle
    BY <2>1 DEF NegotiationTypeOK
  <2>3. call'[r].op = "idle"
    BY <2>2 DEF Idle
  <2> QED
    BY <1>3, <2>3
<1>6. ~ UNCHANGED call
  OBVIOUS
<1> QED
  BY <1>1, <1>2, <1>4, <1>5, <1>6
  DEF NegotiationNext, NegotiationStep, NegotiationCall, PatchCall,
      negotiationVars,
      CreateDeal, ExpireInvite

\* Only the commit of an approval that saw the other side's row takes a deal
\* out of the approval phase.
LEMMA NewlyAgreed ==
  ASSUME MembershipInv, [NegotiationNext]_negotiationVars, NEW d \in Deals,
         status[d] \in BeforeAgreement, status'[d] \notin BeforeAgreement
  PROVE  \E r \in Requests :
           ApproveWrite(r) /\ call[r].deal = d /\ call[r].kept.both
<1> USE DEF MembershipInv, NegotiationTypeOK, RowsTypeOK, BeforeAgreement
<1>1. ASSUME NEW e \in Deals, NEW u \in Users, NEW role \in Roles,
             NEW t \in CompleteTerms, NEW columns \in SUBSET FilledColumns,
             CreateDeal(e, u, role, t, columns)
      PROVE  FALSE
  BY <1>1 DEF CreateDeal, InsertDeal, Transition
<1>2. ASSUME NEW r \in Requests, JoinWrite(r) \/ PatchProductWrite(r)
      PROVE  FALSE
  BY <1>2 DEF JoinWrite, PatchProductWrite, Transition
<1>3. ASSUME NEW r \in Requests, ApproveWrite(r)
      PROVE  call[r].deal = d /\ call[r].kept.both
  BY <1>3 DEF ApproveWrite, Transition
<1>4. ~ UNCHANGED status
  OBVIOUS
<1> QED
  BY <1>1, <1>2, <1>3, <1>4
  DEF NegotiationNext, NegotiationStep, NegotiationCall, PatchCall,
      negotiationVars,
      ExpireInvite, JoinRead, PatchProductRead, PatchParticipantRead,
      PatchParticipantWrite, ApproveRead, ApproveCheck, AbortNegotiation, Abort

\* Every step preserves the agreement invariant.
LEMMA StepAgreement ==
  AgreementInv /\ [NegotiationNext]_negotiationVars => AgreementInv'
<1> SUFFICES ASSUME AgreementInv, [NegotiationNext]_negotiationVars
             PROVE  AgreementInv'
  OBVIOUS
<1>1. MembershipInv /\ MembershipInv'
  BY StepMembership DEF AgreementInv
<1>2. CommitsHaveEvidence'
  BY <1>1, EvidenceKept, EvidenceFound DEF AgreementInv, CommitsHaveEvidence
<1>3. ASSUME NEW d \in Deals, status'[d] \notin BeforeAgreement
      PROVE  \E t \in CompleteTerms : \A role \in Roles : Recorded(d, role, t)'
  <2>1. CASE status[d] \notin BeforeAgreement
    <3>1. PICK t \in CompleteTerms : \A role \in Roles : Recorded(d, role, t)
      BY <2>1 DEF AgreementInv, AgreedByBoth
    <3>2. t \in Terms
      BY CompleteTermsAssumption
    <3> QED
      BY <1>1, <3>1, <3>2, RecordedKept
  <2>2. CASE status[d] \in BeforeAgreement
    <3>1. PICK r \in Requests :
            ApproveWrite(r) /\ call[r].deal = d /\ call[r].kept.both
      BY <1>1, <1>3, <2>2, NewlyAgreed
    <3> DEFINE q == call[r]
    <3>0. PICK side, t : side = RoleOf(d, q.by) /\ t = q.kept.terms
      OBVIOUS
    <3>2. /\ q.op = "approveCommit"
          /\ t \in Terms
          /\ q.kept.existing \subseteq Terms
          /\ side \in Roles
          /\ OppositeRole(side) \in Roles
          /\ Roles = {side, OppositeRole(side)}
      BY <1>1, <3>0, <3>1, CallFields, IdleOp, RoleOfParticipant
      DEF ApproveWrite, MembershipInv, CallersTakePart, ColumnEdits,
          OppositeRole, Roles
    <3>3. /\ t \in CompleteTerms
          /\ \A v \in q.kept.existing : Recorded(d, side, v)
          /\ Recorded(d, OppositeRole(side), t)
      BY <3>0, <3>1, <3>2 DEF AgreementInv, CommitsHaveEvidence, Evidence
    <3>4. \A role \in Roles : Recorded(d, role, t) => Recorded(d, role, t)'
      BY <1>1, <3>2, RecordedKept
    <3>5. Recorded(d, side, t)'
      <4>1. CASE t \in q.kept.existing
        BY <3>2, <3>3, <3>4, <4>1
      <4>2. CASE t \notin q.kept.existing
        <5>1. active[d][side][t] \in Nat
          BY <1>1, <3>2 DEF MembershipInv, NegotiationTypeOK
        <5>2. active'[d][side][t] = active[d][side][t] + 1
          <6>1. active \in [Deals -> [Roles -> [Terms -> Nat]]]
            BY <1>1 DEF MembershipInv, NegotiationTypeOK
          <6>2. UpsertApproval(d, side, t, q.kept.existing)
            BY <1>1, <3>0, <3>1 DEF ApproveWrite
          <6> QED
            BY <3>2, <4>2, <5>1, <6>1, <6>2 DEF UpsertApproval
        <5> QED
          BY <5>1, <5>2 DEF Recorded
      <4> QED
        BY <4>1, <4>2
    <3> QED
      BY <3>2, <3>3, <3>4, <3>5
  <2> QED
    BY <2>1, <2>2
<1> QED
  BY <1>1, <1>2, <1>3 DEF AgreementInv, AgreedByBoth

-----------------------------------------------------------------------------
(* The stored hash *)

\* Every step writes the hashed columns and their hash together.
LEMMA StepHash ==
  StoredHashIsCurrent /\ [NegotiationNext]_negotiationVars
    => StoredHashIsCurrent'
<1> SUFFICES ASSUME StoredHashIsCurrent, [NegotiationNext]_negotiationVars
             PROVE  StoredHashIsCurrent'
  OBVIOUS
<1>1. ASSUME NEW d \in Deals, NEW u \in Users, NEW role \in Roles,
             NEW t \in CompleteTerms, NEW columns \in SUBSET FilledColumns,
             CreateDeal(d, u, role, t, columns)
      PROVE  StoredHashIsCurrent'
  BY <1>1 DEF CreateDeal, InsertDeal, StoredHashIsCurrent
<1>2. ASSUME NEW r \in Requests, PatchProductWrite(r)
      PROVE  StoredHashIsCurrent'
  BY <1>2 DEF PatchProductWrite, RefreshTermsHash, StoredHashIsCurrent
<1>3. CASE UNCHANGED <<terms, hash>>
  BY <1>3 DEF StoredHashIsCurrent
<1> QED
  BY <1>1, <1>2, <1>3
  DEF NegotiationNext, NegotiationStep, NegotiationCall, PatchCall,
      negotiationVars,
      negotiation, ExpireInvite, JoinRead, JoinWrite, PatchProductRead,
      PatchParticipantRead, PatchParticipantWrite, ApproveRead, ApproveCheck,
      ApproveWrite, AbortNegotiation, Abort

-----------------------------------------------------------------------------
(* Negotiation: the theorems *)

(***************************************************************************)
(* Every reachable state, whatever calls overlap, has columns and calls of *)
(* the types that the schema and the handlers give them, and an invite     *)
(* that is spent exactly when two different people take part.              *)
(***************************************************************************)
THEOREM MembershipTheorem ==
  NegotiationSpec => [](NegotiationTypeOK /\ SpentIffJoined)
<1>1. MembershipInv => NegotiationTypeOK /\ SpentIffJoined
  BY DEF MembershipInv
<1> QED
  BY <1>1, InitMembership, StepMembership, PTL DEF NegotiationSpec

(***************************************************************************)
(* An invite lets in one person: it is spent exactly when a second person, *)
(* another than the creator, takes part, although two calls may have read  *)
(* it as unspent.                                                          *)
(***************************************************************************)
THEOREM InviteTheorem == NegotiationSpec => []SpentIffJoined
BY MembershipTheorem, PTL

(***************************************************************************)
(* recordApproval makes no deal payable unless buyer and seller have each  *)
(* recorded an approval of the same complete terms, with any number of     *)
(* joins, patches and approvals in flight at once.                         *)
(***************************************************************************)
THEOREM AgreementTheorem == NegotiationSpec => []AgreedByBoth
<1>1. AgreementInv => AgreedByBoth
  BY DEF AgreementInv
<1> QED
  BY <1>1, InitAgreement, StepAgreement, PTL DEF NegotiationSpec

(***************************************************************************)
(* terms_hash is the hash of the stored terms in every reachable state:    *)
(* an edit whose base was stale still stores the hash of what it wrote.    *)
(***************************************************************************)
THEOREM StoredHashTheorem == NegotiationSpec => []StoredHashIsCurrent
<1>1. NegotiationInit => StoredHashIsCurrent
  BY DEF NegotiationInit, StoredHashIsCurrent
<1> QED
  BY <1>1, StepHash, PTL DEF NegotiationSpec

-----------------------------------------------------------------------------
(* Money: the inductive invariants *)

\* Both sides of an agreed deal are people, who have wallets.
PartiesKnown == \A d \in Deals, role \in Roles : party[d][role] \in Users

\* Types, and what the money of users rests on.
MoneyInv == EscrowTypeOK /\ PartiesKnown /\ NoOverdraft

\* The call in slot r has confirmed deal d and has yet to release it.
Releasing(r, d) == call[r].op \in {"settle", "autoRelease"} /\ call[r].deal = d

\* Only the one call that wrote the confirmation goes on to the release.
OneReleases ==
  \A d \in Deals, r, s \in Requests :
    Releasing(r, d) /\ Releasing(s, d) => r = s

\* That call comes after the confirmation and before the payout.
ReleaseIsPending ==
  \A d \in Deals, r \in Requests :
    Releasing(r, d) => confirmed[d] /\ paidOut[d]["auto"] = 0

\* An unconfirmed deal has not been released automatically.
UnconfirmedIsUnpaid ==
  \A d \in Deals : ~confirmed[d] => paidOut[d]["auto"] = 0

ReleaseInv ==
  /\ MoneyInv
  /\ OneReleases
  /\ ReleaseIsPending
  /\ UnconfirmedIsUnpaid
  /\ AutoReleaseOnce

\* The ledger adds up, for wallets and deals of the right types.
BooksInv == MoneyInv /\ BooksBalance

-----------------------------------------------------------------------------
(* Money: types *)

\* The statuses the component writes are statuses of the table.
LEMMA MoneyStatuses ==
  /\ {"READY_FOR_PAYMENT", "PAYMENT_PENDING_VERIFICATION", "PAID_ESCROWED",
      "SELLER_PREPARING", "SHIPPED", "RELEASE_PENDING", "RELEASED",
      "DISPUTED", "REFUNDED"} \subseteq DealStatuses
  /\ DisputableStatuses \subseteq DealStatuses
  /\ DealStatuses \subseteq RowStatuses
BY DEF DealStatuses, DealStatusTransitions, DisputableStatuses, RowStatuses

Operations == {"pay", "submitReceipt", "verifyProof", "rejectProof", "ship",
               "confirm", "settle", "autoRelease", "openDispute",
               "adminRelease", "adminRefund"}

\* What the fields of a call in flight hold, and that an idle slot is Idle.
LEMMA MoneyCallFields ==
  ASSUME EscrowTypeOK, NEW r \in Requests, call[r].op # "idle"
  PROVE  /\ call[r].op \in Operations
         /\ call[r].deal \in Deals
         /\ call[r].by = Nobody
         /\ call[r].kept \in [seen : DealStatuses, terms : Terms]
         /\ call[r].kept.seen \in DealStatuses
         /\ call[r].kept.terms \in Terms
         /\ Amount[call[r].kept.terms] \in Nat \ {0}
<1>1. call[r] \in EscrowCalls
  BY DEF EscrowTypeOK, Idle
<1>2. call[r].kept.terms \in Terms
  BY <1>1 DEF EscrowCalls
<1> QED
  BY <1>1, <1>2, EscrowAssumption DEF EscrowCalls, Operations

\* Opening or continuing a call leaves a well-formed call.
LEMMA CallKept ==
  ASSUME EscrowTypeOK, NEW r \in Requests, NEW op \in Operations,
         NEW d \in Deals, NEW kept \in [seen : DealStatuses, terms : Terms],
         call' = [call EXCEPT ![r] = Call(op, d, Nobody, kept)]
  PROVE  call' \in [Requests -> EscrowCalls \cup {Idle}]
<1>1. Call(op, d, Nobody, kept) \in EscrowCalls
  BY DEF Call, EscrowCalls, Operations
<1> QED
  BY <1>1 DEF EscrowTypeOK

\* Closing a call leaves an idle slot.
LEMMA CallClosed ==
  ASSUME EscrowTypeOK, NEW r \in Requests, Close(r)
  PROVE  call' \in [Requests -> EscrowCalls \cup {Idle}]
BY DEF EscrowTypeOK, Close

\* A status change keeps the type of the status column.
LEMMA TransitionTyped ==
  ASSUME EscrowTypeOK, NEW d \in Deals, NEW from, NEW to \in DealStatuses,
         Transition(d, from, to)
  PROVE  status' \in [Deals -> RowStatuses]
BY MoneyStatuses DEF EscrowTypeOK, RowsTypeOK, Transition

\* Initially the types hold and every wallet has what it started with.
LEMMA InitMoneyInv == EscrowInit => MoneyInv
<1> SUFFICES ASSUME EscrowInit PROVE MoneyInv
  OBVIOUS
<1>1. RowsTypeOK
  BY MoneyStatuses DEF EscrowInit, RowsTypeOK
<1>2. PartiesKnown
  BY DEF EscrowInit, PartiesKnown
<1>3. \A u \in Users : balance[u] = InitialBalance[u] /\ InitialBalance[u] \in Nat
  BY EscrowAssumption DEF EscrowInit, MoneyInit, Wallets
<1>4. balance \in [Wallets -> Int]
  BY EscrowAssumption DEF EscrowInit, MoneyInit, Wallets
<1>5. paidOut \in [Deals -> [Ways -> Nat]]
  BY DEF EscrowInit, MoneyInit, NoPayouts
<1>6. EscrowTypeOK
  BY <1>1, <1>4, <1>5 DEF EscrowInit, MoneyInit, EscrowTypeOK
<1> QED
  BY <1>2, <1>3, <1>6 DEF MoneyInv, NoOverdraft

\* A payout keeps the types and takes nothing out of a user's wallet.
LEMMA PayOutKept ==
  ASSUME MoneyInv, NEW d \in Deals, NEW w \in Users, NEW amount \in Nat,
         NEW way \in Ways, PayOut(d, w, amount, way)
  PROVE  /\ balance' \in [Wallets -> Int]
         /\ held' \in [Deals -> Int]
         /\ paidOut' \in [Deals -> [Ways -> Nat]]
         /\ \A u \in Users : balance'[u] >= 0
<1>1. w \in Wallets /\ Escrow \in Wallets /\ Escrow \notin Users
  BY EscrowAssumption DEF Wallets
<1>2. balance \in [Wallets -> Int] /\ \A u \in Users : balance[u] >= 0
  BY DEF MoneyInv, EscrowTypeOK, NoOverdraft
<1>3. balance' = [balance EXCEPT ![Escrow] = @ - amount, ![w] = @ + amount]
  BY DEF PayOut
<1>4. balance' \in [Wallets -> Int]
  BY <1>1, <1>2, <1>3
<1>5. ASSUME NEW u \in Users PROVE balance'[u] >= 0
  <2>1. u \in Wallets /\ u # Escrow /\ balance[u] \in Int /\ balance[u] >= 0
    BY <1>1, <1>2 DEF Wallets
  <2>2. balance'[u] = IF u = w THEN balance[u] + amount ELSE balance[u]
    BY <1>1, <1>2, <1>3, <2>1
  <2> QED
    BY <2>1, <2>2
<1>6. held' \in [Deals -> Int] /\ paidOut' \in [Deals -> [Ways -> Nat]]
  BY DEF PayOut, MoneyInv, EscrowTypeOK
<1> QED
  BY <1>4, <1>5, <1>6

\* A request that arrives opens a call on the row as it is, and writes nothing.
LEMMA RequestOpens ==
  ASSUME EscrowTypeOK, NEW r \in Requests, NEW d \in Deals, EscrowRequest(r, d)
  PROVE  /\ UNCHANGED <<status, terms, party, escrow>>
         /\ \E op \in Operations \ {"settle", "autoRelease"},
              kept \in [seen : DealStatuses, terms : Terms] :
                call' = [call EXCEPT ![r] = Call(op, d, Nobody, kept)]
<1> DEFINE kept == [seen |-> status[d], terms |-> terms[d]]
<1>1. \E op \in Operations \ {"settle", "autoRelease"} :
        status[d] \in DealStatuses /\ OpenOnDeal(r, op, d)
  BY MoneyStatuses DEF EscrowRequest, PaymentRequest, DeliveryRequest,
     DisputeRequest, PayRead, SubmitReceiptRead,
     VerifyProofRead, RejectProofRead, ShipRead, ConfirmRead, OpenDisputeRead,
     AdminReleaseRead, AdminRefundRead, Operations
<1>2. kept \in [seen : DealStatuses, terms : Terms]
  BY <1>1 DEF EscrowTypeOK, RowsTypeOK
<1> QED
  BY <1>1, <1>2 DEF OpenOnDeal, Open

\* Every step keeps the types and leaves no wallet of a user overdrawn.
LEMMA StepMoneyInv == MoneyInv /\ [EscrowNext]_escrowVars => MoneyInv'
<1> SUFFICES ASSUME MoneyInv, [EscrowNext]_escrowVars PROVE MoneyInv'
  OBVIOUS
<1> USE DEF MoneyInv
<1>1. ASSUME NEW r \in Requests, NEW d \in Deals, EscrowRequest(r, d)
      PROVE  MoneyInv'
  <2>1. call' \in [Requests -> EscrowCalls \cup {Idle}]
    BY <1>1, RequestOpens, CallKept
  <2> QED
    BY <1>1, <2>1, RequestOpens
       DEF escrow, EscrowTypeOK, RowsTypeOK, PartiesKnown, NoOverdraft
<1>2. ASSUME NEW r \in Requests, Close(r),
             UNCHANGED <<status, terms, party, escrow>>
      PROVE  MoneyInv'
  BY <1>2, CallClosed
     DEF escrow, EscrowTypeOK, RowsTypeOK, PartiesKnown, NoOverdraft
<1>3. ASSUME NEW r \in Requests, NEW d \in Deals, NEW from,
             NEW to \in DealStatuses, Transition(d, from, to),
             UNCHANGED <<terms, party>>,
             call' \in [Requests -> EscrowCalls \cup {Idle}]
      PROVE  RowsTypeOK' /\ PartiesKnown'
                /\ call' \in [Requests -> EscrowCalls \cup {Idle}]
  BY <1>3, TransitionTyped DEF EscrowTypeOK, RowsTypeOK, PartiesKnown
<1>4. ASSUME NEW r \in Requests, PayWrite(r) PROVE MoneyInv'
  <2> DEFINE q == call[r]
             d == q.deal
             buyer == party[d]["buyer"]
             amount == Amount[q.kept.terms]
  <2>1. d \in Deals /\ amount \in Nat
    BY <1>4, MoneyCallFields DEF PayWrite
  <2>2. RowsTypeOK' /\ PartiesKnown' /\ call' \in [Requests -> EscrowCalls \cup {Idle}]
    BY <1>3, <1>4, <2>1, CallClosed, MoneyStatuses DEF PayWrite
  <2>3. buyer \in Users /\ buyer \in Wallets /\ Escrow \in Wallets
          /\ Escrow \notin Users
    BY <2>1, EscrowAssumption DEF PartiesKnown, Roles, Wallets
  <2>4. balance' = [balance EXCEPT ![buyer] = @ - amount,
                                   ![Escrow] = @ + amount]
    BY <1>4 DEF PayWrite
  <2>5. balance' \in [Wallets -> Int]
    BY <2>1, <2>3, <2>4 DEF EscrowTypeOK
  <2>6. ASSUME NEW u \in Users PROVE balance'[u] >= 0
    <3>1. u \in Wallets /\ u # Escrow /\ balance[u] \in Int /\ balance[u] >= 0
      BY <2>3 DEF EscrowTypeOK, NoOverdraft, Wallets
    <3>2. balance'[u] = IF u = buyer THEN balance[u] - amount ELSE balance[u]
      BY <2>3, <2>4, <3>1 DEF EscrowTypeOK
    <3>3. balance[buyer] >= amount
      BY <1>4 DEF PayWrite, Covered
    <3> QED
      BY <2>1, <3>1, <3>2, <3>3
  <2>7. held' \in [Deals -> Int]
    BY <1>4, <2>1 DEF PayWrite, EscrowTypeOK
  <2> QED
    BY <1>4, <2>2, <2>5, <2>6, <2>7 DEF PayWrite, EscrowTypeOK, NoOverdraft
<1>5. ASSUME NEW r \in Requests, SubmitReceiptWrite(r) PROVE MoneyInv'
  <2>1. call[r].deal \in Deals
    BY <1>5, MoneyCallFields DEF SubmitReceiptWrite
  <2>2. RowsTypeOK' /\ PartiesKnown' /\ call' \in [Requests -> EscrowCalls \cup {Idle}]
    BY <1>3, <1>5, <2>1, CallClosed, MoneyStatuses DEF SubmitReceiptWrite
  <2>3. receipts' \in [Deals -> Nat]
    BY <1>5, <2>1 DEF SubmitReceiptWrite, EscrowTypeOK
  <2> QED
    BY <1>5, <2>2, <2>3 DEF SubmitReceiptWrite, EscrowTypeOK, NoOverdraft
<1>6. ASSUME NEW r \in Requests, VerifyProofWrite(r) PROVE MoneyInv'
  <2> DEFINE d == call[r].deal
             amount == Amount[call[r].kept.terms]
  <2>1. d \in Deals /\ amount \in Nat
    BY <1>6, MoneyCallFields DEF VerifyProofWrite
  <2>2. RowsTypeOK' /\ PartiesKnown' /\ call' \in [Requests -> EscrowCalls \cup {Idle}]
    BY <1>3, <1>6, <2>1, CallClosed, MoneyStatuses DEF VerifyProofWrite
  <2>3. CreditTransfer(d, amount)
    BY <1>6 DEF VerifyProofWrite
  <2>4. /\ balance' \in [Wallets -> Int]
        /\ held' \in [Deals -> Int]
        /\ transferred' \in Nat
    BY <2>1, <2>3 DEF CreditTransfer, EscrowTypeOK, Wallets
  <2>5. \A u \in Users : balance'[u] = balance[u]
    BY <2>3, EscrowAssumption DEF CreditTransfer, EscrowTypeOK, Wallets
  <2> QED
    BY <1>6, <2>2, <2>4, <2>5 DEF VerifyProofWrite, EscrowTypeOK, NoOverdraft
<1>7. ASSUME NEW r \in Requests, RejectProofWrite(r) \/ ShipWrite(r)
      PROVE  MoneyInv'
  <2>1. call[r].deal \in Deals
    BY <1>7, MoneyCallFields DEF RejectProofWrite, ShipWrite
  <2>2. RowsTypeOK' /\ PartiesKnown' /\ call' \in [Requests -> EscrowCalls \cup {Idle}]
    BY <1>3, <1>7, <2>1, CallClosed, MoneyStatuses DEF RejectProofWrite, ShipWrite
  <2>3. UNCHANGED escrow
    BY <1>7 DEF RejectProofWrite, ShipWrite
  <2> QED
    BY <2>2, <2>3 DEF escrow, EscrowTypeOK, NoOverdraft
<1>8. ASSUME NEW r \in Requests, ConfirmWrite(r) PROVE MoneyInv'
  <2>1. call[r].deal \in Deals /\ call[r].by = Nobody
          /\ call[r].kept \in [seen : DealStatuses, terms : Terms]
    BY <1>8, MoneyCallFields DEF ConfirmWrite
  <2>2. "settle" \in Operations
    BY DEF Operations
  <2>3. call' \in [Requests -> EscrowCalls \cup {Idle}]
    BY <1>8, <2>1, <2>2, CallKept DEF ConfirmWrite, Become
  <2>4. RowsTypeOK' /\ PartiesKnown'
    BY <1>3, <1>8, <2>1, <2>3, MoneyStatuses DEF ConfirmWrite
  <2>5. confirmed' \in [Deals -> BOOLEAN]
    BY <1>8, <2>1 DEF ConfirmWrite, InsertConfirmation, EscrowTypeOK
  <2> QED
    BY <1>8, <2>3, <2>4, <2>5 DEF ConfirmWrite, EscrowTypeOK, NoOverdraft
<1>9. ASSUME NEW r \in Requests, SettleRead(r) PROVE MoneyInv'
  <2>1. call[r].deal \in Deals /\ call[r].by = Nobody
    BY <1>9, MoneyCallFields DEF SettleRead
  <2>2. CASE Close(r)
    BY <1>2, <1>9, <2>2 DEF SettleRead
  <2>3. CASE /\ status[call[r].deal] = "RELEASE_PENDING"
             /\ Become(r, "autoRelease", [seen |-> status[call[r].deal],
                                          terms |-> terms[call[r].deal]])
    <3>1. [seen |-> status[call[r].deal], terms |-> terms[call[r].deal]]
            \in [seen : DealStatuses, terms : Terms]
      BY <2>1, <2>3, MoneyStatuses DEF EscrowTypeOK, RowsTypeOK
    <3>2. "autoRelease" \in Operations
      BY DEF Operations
    <3>3. call' \in [Requests -> EscrowCalls \cup {Idle}]
      BY <2>1, <2>3, <3>1, <3>2, CallKept DEF Become
    <3> QED
      BY <1>9, <3>3 DEF SettleRead, escrow, EscrowTypeOK, RowsTypeOK,
         PartiesKnown, NoOverdraft
  <2> QED
    BY <1>9, <2>2, <2>3 DEF SettleRead
<1>10. ASSUME NEW r \in Requests, AutoReleaseWrite(r) PROVE MoneyInv'
  <2>1. call[r].deal \in Deals /\ Amount[call[r].kept.terms] \in Nat
    BY <1>10, MoneyCallFields DEF AutoReleaseWrite
  <2>2. RowsTypeOK' /\ PartiesKnown' /\ call' \in [Requests -> EscrowCalls \cup {Idle}]
    BY <1>3, <1>10, <2>1, CallClosed, MoneyStatuses DEF AutoReleaseWrite
  <2>3. "auto" \in Ways /\ party[call[r].deal]["seller"] \in Users
    BY <2>1 DEF Ways, PartiesKnown, Roles
  <2>4. /\ balance' \in [Wallets -> Int]
        /\ held' \in [Deals -> Int]
        /\ paidOut' \in [Deals -> [Ways -> Nat]]
        /\ \A u \in Users : balance'[u] >= 0
    BY <1>10, <2>1, <2>3, PayOutKept DEF AutoReleaseWrite
  <2> QED
    BY <1>10, <2>2, <2>4 DEF AutoReleaseWrite, EscrowTypeOK, NoOverdraft
<1>11. ASSUME NEW r \in Requests, OpenDisputeWrite(r) PROVE MoneyInv'
  <2>1. call[r].deal \in Deals
    BY <1>11, MoneyCallFields DEF OpenDisputeWrite
  <2>2. RowsTypeOK' /\ PartiesKnown' /\ call' \in [Requests -> EscrowCalls \cup {Idle}]
    BY <1>3, <1>11, <2>1, CallClosed, MoneyStatuses DEF OpenDisputeWrite
  <2>3. openDispute' \in [Deals -> BOOLEAN]
    BY <1>11, <2>1 DEF OpenDisputeWrite, EscrowTypeOK
  <2> QED
    BY <1>11, <2>2, <2>3 DEF OpenDisputeWrite, EscrowTypeOK, NoOverdraft
<1>12. ASSUME NEW r \in Requests, NEW side \in Roles,
              NEW way \in Ways, NEW final \in {"RELEASED", "REFUNDED"},
              call[r].op \in {"adminRelease", "adminRefund"},
              Decide(r, side, way, final)
       PROVE  MoneyInv'
  <2>1. call[r].deal \in Deals /\ Amount[call[r].kept.terms] \in Nat
    BY <1>12, MoneyCallFields
  <2>2. RowsTypeOK' /\ PartiesKnown' /\ call' \in [Requests -> EscrowCalls \cup {Idle}]
    BY <1>3, <1>12, <2>1, CallClosed, MoneyStatuses DEF Decide
  <2>3. party[call[r].deal][side] \in Users
    BY <2>1 DEF PartiesKnown
  <2>4. /\ balance' \in [Wallets -> Int]
        /\ held' \in [Deals -> Int]
        /\ paidOut' \in [Deals -> [Ways -> Nat]]
        /\ \A u \in Users : balance'[u] >= 0
    BY <1>12, <2>1, <2>3, PayOutKept DEF Decide
  <2>5. openDispute' \in [Deals -> BOOLEAN]
    BY <1>12, <2>1 DEF Decide, ResolveDisputes, EscrowTypeOK
  <2> QED
    BY <1>12, <2>2, <2>4, <2>5 DEF Decide, EscrowTypeOK, NoOverdraft
<1>13. ASSUME NEW r \in Requests, AdminReleaseWrite(r) \/ AdminRefundWrite(r)
       PROVE  MoneyInv'
  BY <1>12, <1>13 DEF AdminReleaseWrite, AdminRefundWrite, Ways, Roles
<1>14. ASSUME NEW r \in Requests, PayRefused(r) \/ AbortEscrow(r)
       PROVE  MoneyInv'
  BY <1>2, <1>14 DEF PayRefused, AbortEscrow, Abort
<1>15. CASE UNCHANGED escrowVars
  BY <1>15 DEF escrowVars, escrow, EscrowTypeOK, RowsTypeOK, PartiesKnown,
     NoOverdraft
<1> QED
  BY <1>1, <1>4, <1>5, <1>6, <1>7, <1>8, <1>9, <1>10, <1>11, <1>13, <1>14,
     <1>15 DEF EscrowNext, EscrowStep, EscrowProgress

-----------------------------------------------------------------------------
(* The automatic release *)

\* Initially no call is in flight and nothing is paid out.
LEMMA InitReleaseInv == EscrowInit => ReleaseInv
<1> SUFFICES ASSUME EscrowInit PROVE ReleaseInv
  OBVIOUS
<1>1. \A d \in Deals : paidOut[d]["auto"] = 0
  BY DEF EscrowInit, MoneyInit, NoPayouts, Ways
<1>2. \A r \in Requests, d \in Deals : ~Releasing(r, d)
  BY DEF EscrowInit, Idle, Releasing
<1> QED
  BY <1>1, <1>2, InitMoneyInv DEF ReleaseInv, OneReleases, ReleaseIsPending,
     UnconfirmedIsUnpaid, AutoReleaseOnce

(***************************************************************************)
(* A step after which no call is newly on its way to a release, and which  *)
(* neither withdraws a confirmation nor pays one out automatically, keeps  *)
(* the invariant.                                                          *)
(***************************************************************************)
LEMMA QuietStep ==
  ASSUME ReleaseInv, MoneyInv',
         \A r \in Requests, d \in Deals : Releasing(r, d)' => Releasing(r, d),
         \A d \in Deals : confirmed[d] => confirmed'[d],
         \A d \in Deals : paidOut'[d]["auto"] = paidOut[d]["auto"]
  PROVE  ReleaseInv'
BY DEF ReleaseInv, OneReleases, ReleaseIsPending, UnconfirmedIsUnpaid,
   AutoReleaseOnce

\* A call that ends is on its way to nothing; the other calls stay as they are.
LEMMA ClosedCalls ==
  ASSUME EscrowTypeOK, NEW s \in Requests, Close(s)
  PROVE  /\ \A r \in Requests, d \in Deals : Releasing(r, d)' => Releasing(r, d)
         /\ \A d \in Deals : ~Releasing(s, d)'
BY DEF EscrowTypeOK, Close, Idle, Releasing

\* A call that goes on with op leaves the other calls as they are.
LEMMA ContinuedCalls ==
  ASSUME EscrowTypeOK, NEW s \in Requests, NEW op, NEW e, NEW kept,
         call' = [call EXCEPT ![s] = Call(op, e, Nobody, kept)]
  PROVE  /\ \A r \in Requests, d \in Deals :
              r # s => (Releasing(r, d)' <=> Releasing(r, d))
         /\ \A d \in Deals :
              Releasing(s, d)' <=> op \in {"settle", "autoRelease"} /\ e = d
BY DEF EscrowTypeOK, Call, Releasing

\* Every step keeps the chain from the confirmation to the payout single.
LEMMA StepReleaseInv == ReleaseInv /\ [EscrowNext]_escrowVars => ReleaseInv'
<1> SUFFICES ASSUME ReleaseInv, [EscrowNext]_escrowVars PROVE ReleaseInv'
  OBVIOUS
<1>1. MoneyInv /\ EscrowTypeOK
  BY DEF ReleaseInv, MoneyInv
<1>2. MoneyInv'
  BY <1>1, StepMoneyInv
<1>3. ASSUME NEW r \in Requests, NEW d \in Deals, EscrowRequest(r, d)
      PROVE  ReleaseInv'
  <2>1. \A s \in Requests, e \in Deals : Releasing(s, e)' => Releasing(s, e)
    BY <1>1, <1>3, RequestOpens, ContinuedCalls
  <2>2. UNCHANGED <<confirmed, paidOut>>
    BY <1>1, <1>3, RequestOpens DEF escrow
  <2> QED
    BY <1>2, <2>1, <2>2, QuietStep
<1>4. ASSUME NEW r \in Requests, Close(r), UNCHANGED <<confirmed, paidOut>>
      PROVE  ReleaseInv'
  BY <1>1, <1>2, <1>4, ClosedCalls, QuietStep
<1>5. ASSUME NEW r \in Requests,
             \/ PayWrite(r) \/ PayRefused(r) \/ SubmitReceiptWrite(r)
             \/ VerifyProofWrite(r) \/ RejectProofWrite(r) \/ ShipWrite(r)
             \/ OpenDisputeWrite(r) \/ AbortEscrow(r)
      PROVE  ReleaseInv'
  BY <1>4, <1>5 DEF PayWrite, PayRefused, SubmitReceiptWrite,
     VerifyProofWrite, RejectProofWrite, ShipWrite, OpenDisputeWrite,
     AbortEscrow, Abort, escrow
<1>6. ASSUME NEW r \in Requests, ConfirmWrite(r) PROVE ReleaseInv'
  <2> DEFINE d == call[r].deal
  <2>1. d \in Deals /\ call[r].by = Nobody
    BY <1>1, <1>6, MoneyCallFields DEF ConfirmWrite
  <2>2. /\ \A s \in Requests, e \in Deals :
             s # r => (Releasing(s, e)' <=> Releasing(s, e))
        /\ \A e \in Deals : Releasing(r, e)' <=> d = e
    <3> DEFINE kept == call[r].kept
    <3>1. call' = [call EXCEPT ![r] = Call("settle", d, Nobody, kept)]
      BY <1>6, <2>1 DEF ConfirmWrite, Become
    <3> HIDE DEF d, kept
    <3> QED
      BY <1>1, <3>1, ContinuedCalls
  <2>3. ~confirmed[d] /\ UNCHANGED paidOut
    BY <1>6 DEF ConfirmWrite, InsertConfirmation
  <2>4. \A e \in Deals : confirmed'[e] <=> confirmed[e] \/ e = d
    BY <1>1, <1>6, <2>1 DEF ConfirmWrite, InsertConfirmation, EscrowTypeOK
  <2>5. paidOut[d]["auto"] = 0 /\ \A s \in Requests : ~Releasing(s, d)
    BY <2>1, <2>3 DEF ReleaseInv, UnconfirmedIsUnpaid, ReleaseIsPending
  <2>6. OneReleases'
    BY <2>2, <2>5 DEF ReleaseInv, OneReleases
  <2>7. ReleaseIsPending'
    BY <2>2, <2>3, <2>4, <2>5 DEF ReleaseInv, ReleaseIsPending
  <2>8. UnconfirmedIsUnpaid' /\ AutoReleaseOnce'
    BY <2>3, <2>4 DEF ReleaseInv, UnconfirmedIsUnpaid, AutoReleaseOnce
  <2> QED
    BY <1>2, <2>6, <2>7, <2>8 DEF ReleaseInv
<1>7. ASSUME NEW r \in Requests, SettleRead(r) PROVE ReleaseInv'
  <2> DEFINE d == call[r].deal
  <2>1. d \in Deals /\ call[r].by = Nobody /\ Releasing(r, d)
    BY <1>1, <1>7, MoneyCallFields DEF SettleRead, Releasing
  <2>2. UNCHANGED <<confirmed, paidOut>>
    BY <1>7 DEF SettleRead, escrow
  <2>3. CASE Close(r)
    BY <1>4, <2>2, <2>3
  <2>4. CASE Become(r, "autoRelease", [seen |-> status[d], terms |-> terms[d]])
    <3>1. \A s \in Requests, e \in Deals : Releasing(s, e)' => Releasing(s, e)
      <4> DEFINE kept == [seen |-> status[d], terms |-> terms[d]]
      <4>1. call' = [call EXCEPT ![r] = Call("autoRelease", d, Nobody, kept)]
        BY <2>1, <2>4 DEF Become
      <4> HIDE DEF d, kept
      <4> QED
        BY <1>1, <2>1, <4>1, ContinuedCalls
    <3> QED
      BY <1>2, <2>2, <3>1, QuietStep
  <2> QED
    BY <1>7, <2>3, <2>4 DEF SettleRead
<1>8. ASSUME NEW r \in Requests, AutoReleaseWrite(r) PROVE ReleaseInv'
  <2> DEFINE d == call[r].deal
  <2>1. d \in Deals /\ Releasing(r, d)
    BY <1>1, <1>8, MoneyCallFields DEF AutoReleaseWrite, Releasing
  <2>2. confirmed[d] /\ paidOut[d]["auto"] = 0 /\ UNCHANGED confirmed
    BY <1>8, <2>1 DEF AutoReleaseWrite, ReleaseInv, ReleaseIsPending
  <2>3. \A e \in Deals :
          paidOut'[e]["auto"] = IF e = d THEN 1 ELSE paidOut[e]["auto"]
    BY <1>1, <1>8, <2>1, <2>2
       DEF AutoReleaseWrite, PayOut, EscrowTypeOK, Ways
  <2>4. \A s \in Requests, e \in Deals :
          Releasing(s, e)' => Releasing(s, e) /\ s # r
    BY <1>1, <1>8, ClosedCalls DEF AutoReleaseWrite
  <2>5. \A s \in Requests, e \in Deals : Releasing(s, e)' => e # d
    BY <2>1, <2>4 DEF ReleaseInv, OneReleases
  <2>6. OneReleases'
    BY <2>4 DEF ReleaseInv, OneReleases
  <2>7. ReleaseIsPending'
    BY <2>2, <2>3, <2>4, <2>5 DEF ReleaseInv, ReleaseIsPending
  <2>8. UnconfirmedIsUnpaid' /\ AutoReleaseOnce'
    BY <2>2, <2>3 DEF ReleaseInv, UnconfirmedIsUnpaid, AutoReleaseOnce
  <2> QED
    BY <1>2, <2>6, <2>7, <2>8 DEF ReleaseInv
<1>9. ASSUME NEW r \in Requests, AdminReleaseWrite(r) \/ AdminRefundWrite(r)
      PROVE  ReleaseInv'
  <2>1. PICK side \in Roles, way \in {"release", "refund"},
             final \in {"RELEASED", "REFUNDED"} : Decide(r, side, way, final)
    BY <1>9 DEF AdminReleaseWrite, AdminRefundWrite, Roles
  <2>2. \A d \in Deals : paidOut'[d]["auto"] = paidOut[d]["auto"]
    BY <1>1, <2>1 DEF Decide, PayOut, EscrowTypeOK, Ways
  <2>3. Close(r) /\ UNCHANGED confirmed
    BY <2>1 DEF Decide
  <2> QED
    BY <1>1, <1>2, <2>2, <2>3, ClosedCalls, QuietStep
<1>10. CASE UNCHANGED escrowVars
  <2>1. \A r \in Requests, d \in Deals : Releasing(r, d)' <=> Releasing(r, d)
    BY <1>10 DEF escrowVars, Releasing
  <2> QED
    BY <1>2, <1>10, <2>1, QuietStep DEF escrowVars, escrow
<1> QED
  BY <1>3, <1>5, <1>6, <1>7, <1>8, <1>9, <1>10
     DEF EscrowNext, EscrowStep, EscrowProgress

-----------------------------------------------------------------------------
(* The ledger *)

\* The users and the platform are finitely many wallets.
LEMMA WalletsFinite ==
  IsFiniteSet(Wallets) /\ Escrow \in Wallets /\ Escrow \notin Users
    /\ Users \subseteq Wallets
BY FiniteRows, FS_AddElement, EscrowAssumption DEF Wallets

\* At first the escrow wallet is empty and holds nothing for any deal.
LEMMA InitBooksInv == EscrowInit => BooksInv
<1> SUFFICES ASSUME EscrowInit PROVE BooksInv
  OBVIOUS
<1>1. /\ balance = [w \in Wallets |-> IF w = Escrow THEN 0 ELSE InitialBalance[w]]
      /\ held = [d \in Deals |-> 0]
      /\ transferred = 0
  BY DEF EscrowInit, MoneyInit
<1>2. balance[Escrow] = 0 /\ \A u \in Users : balance[u] = InitialBalance[u]
  BY <1>1, WalletsFinite
<1>3. SumFunction(held) = 0
  BY <1>1, FiniteRows, SumOfZeros
<1>4. SumFunction(balance) = SumFunction(InitialBalance)
  <2>1. InitialBalance \in [Users -> Int] /\ Escrow \notin Users
    BY EscrowAssumption
  <2>2. balance \in [Users \cup {Escrow} -> Int]
    BY InitMoneyInv DEF MoneyInv, EscrowTypeOK, Wallets
  <2>3. SumFunction(balance) = SumFunction(InitialBalance) + balance[Escrow]
    BY <1>2, <2>1, <2>2, FiniteRows, SumExtended
  <2>4. SumFunction(InitialBalance) \in Int
    BY <2>1, FiniteRows, SumIsInt
  <2> QED
    BY <1>2, <2>3, <2>4
<1>5. SumFunction(InitialBalance) \in Int
  <2>1. InitialBalance \in [Users -> Int]
    BY EscrowAssumption
  <2> QED
    BY <2>1, FiniteRows, SumIsInt
<1> QED
  BY <1>1, <1>2, <1>3, <1>4, <1>5, InitMoneyInv DEF BooksInv, BooksBalance

(***************************************************************************)
(* Money that moves between a user's wallet and escrow, booked on a deal,  *)
(* keeps the books: amount is negative when it leaves escrow.              *)
(***************************************************************************)
Transferred(u, d, amount) ==
  /\ balance'[Escrow] = balance[Escrow] + amount
  /\ balance'[u] = balance[u] - amount
  /\ \A w \in Wallets \ {Escrow, u} : balance'[w] = balance[w]
  /\ held'[d] = held[d] + amount
  /\ \A e \in Deals \ {d} : held'[e] = held[e]
  /\ transferred' = transferred

LEMMA TransferKept ==
  ASSUME BooksInv, MoneyInv', NEW u \in Users, NEW d \in Deals,
         NEW amount \in Int, Transferred(u, d, amount)
  PROVE  BooksBalance'
<1>0. PICK half : half = [balance EXCEPT ![u] = balance'[u]]
  OBVIOUS
<1>1. /\ balance \in [Wallets -> Int] /\ balance' \in [Wallets -> Int]
      /\ held \in [Deals -> Int] /\ held' \in [Deals -> Int]
      /\ transferred \in Nat
  BY DEF BooksInv, MoneyInv, EscrowTypeOK
<1>2. u \in Wallets /\ Escrow \in Wallets /\ u # Escrow
  BY WalletsFinite
<1>3. /\ half \in [Wallets -> Int]
      /\ half[u] = balance'[u] /\ \A w \in Wallets : w # u => half[w] = balance[w]
  BY <1>0, <1>1, <1>2
<1>4. half[Escrow] = balance[Escrow]
        /\ \A w \in Wallets : w # Escrow => balance'[w] = half[w]
  BY <1>2, <1>3 DEF Transferred
<1>5. SumFunction(balance) \in Int
        /\ SumFunction(half) = SumFunction(balance) + (half[u] - balance[u])
  <2>1. half \in [Wallets -> Int] /\ balance \in [Wallets -> Int]
    BY <1>1, <1>3
  <2>2. \A w \in Wallets : w # u => half[w] = balance[w]
    BY <1>3
  <2>3. IsFiniteSet(Wallets) /\ u \in Wallets
    BY <1>2, WalletsFinite
  <2> QED
    BY <2>1, <2>2, <2>3, SumUpdate
<1>6. SumFunction(balance') = SumFunction(half) + (balance'[Escrow] - half[Escrow])
  <2>1. \A w \in Wallets : w # Escrow => balance'[w] = half[w]
    BY <1>4
  <2>2. half \in [Wallets -> Int] /\ balance' \in [Wallets -> Int]
    BY <1>1, <1>3
  <2>3. IsFiniteSet(Wallets) /\ Escrow \in Wallets
    BY WalletsFinite
  <2> QED
    BY <2>1, <2>2, <2>3, SumUpdate
<1>7. SumFunction(balance') = SumFunction(balance)
  <2>1. balance[u] \in Int /\ balance[Escrow] \in Int
    BY <1>1, <1>2
  <2> QED
    BY <1>3, <1>4, <1>5, <1>6, <2>1 DEF Transferred
<1>8. SumFunction(held) \in Int
        /\ SumFunction(held') = SumFunction(held) + (held'[d] - held[d])
  <2>1. \A e \in Deals : e # d => held'[e] = held[e]
    BY DEF Transferred
  <2> QED
    BY <1>1, <2>1, FiniteRows, SumUpdate
<1>9. held[d] \in Int
  BY <1>1
<1> QED
  BY <1>7, <1>8, <1>9 DEF BooksInv, BooksBalance, Transferred

\* A transfer to the bank account brings new money into escrow.
LEMMA CreditKept ==
  ASSUME BooksInv, MoneyInv', NEW d \in Deals, NEW amount \in Nat,
         CreditTransfer(d, amount)
  PROVE  BooksBalance'
<1>1. /\ balance \in [Wallets -> Int] /\ balance' \in [Wallets -> Int]
      /\ held \in [Deals -> Int] /\ held' \in [Deals -> Int]
      /\ transferred \in Nat /\ transferred' = transferred + amount
  BY DEF BooksInv, MoneyInv, EscrowTypeOK, CreditTransfer
<1>2. balance'[Escrow] = balance[Escrow] + amount /\ balance[Escrow] \in Int
        /\ \A w \in Wallets : w # Escrow => balance'[w] = balance[w]
  BY <1>1, WalletsFinite DEF CreditTransfer
<1>3. held'[d] = held[d] + amount /\ held[d] \in Int
        /\ \A e \in Deals : e # d => held'[e] = held[e]
  BY <1>1 DEF CreditTransfer
<1>4. SumFunction(balance) \in Int
        /\ SumFunction(balance')
             = SumFunction(balance) + (balance'[Escrow] - balance[Escrow])
  BY <1>1, <1>2, WalletsFinite, SumUpdate
<1>5. SumFunction(held) \in Int
        /\ SumFunction(held') = SumFunction(held) + (held'[d] - held[d])
  BY <1>1, <1>3, FiniteRows, SumUpdate
<1>6. SumFunction(InitialBalance) \in Int
  <2>1. InitialBalance \in [Users -> Int]
    BY EscrowAssumption
  <2> QED
    BY <2>1, FiniteRows, SumIsInt
<1> QED
  BY <1>1, <1>2, <1>3, <1>4, <1>5, <1>6 DEF BooksInv, BooksBalance

\* A payout is a transfer out of escrow.
LEMMA PayOutBooked ==
  ASSUME BooksInv, MoneyInv', NEW d \in Deals, NEW u \in Users,
         NEW amount \in Nat, NEW way \in Ways, PayOut(d, u, amount, way),
         transferred' = transferred
  PROVE  BooksBalance'
<1>1. balance \in [Wallets -> Int] /\ held \in [Deals -> Int]
  BY DEF BooksInv, MoneyInv, EscrowTypeOK
<1>2. u \in Wallets /\ Escrow \in Wallets /\ u # Escrow
  BY WalletsFinite
<1>3. balance[u] \in Int /\ balance[Escrow] \in Int /\ held[d] \in Int
  BY <1>1, <1>2
<1>4. /\ balance'[Escrow] = balance[Escrow] - amount
      /\ balance'[u] = balance[u] + amount
      /\ \A w \in Wallets \ {Escrow, u} : balance'[w] = balance[w]
      /\ held'[d] = held[d] - amount
      /\ \A e \in Deals \ {d} : held'[e] = held[e]
  BY <1>1, <1>2 DEF PayOut
<1>5. /\ balance'[Escrow] = balance[Escrow] + -amount
      /\ balance'[u] = balance[u] - -amount
      /\ held'[d] = held[d] + -amount
      /\ -amount \in Int
  BY <1>3, <1>4
<1>6. Transferred(u, d, -amount)
  BY <1>4, <1>5 DEF Transferred
<1> QED
  BY <1>5, <1>6, TransferKept

\* Every step keeps the books.
LEMMA StepBooksInv == BooksInv /\ [EscrowNext]_escrowVars => BooksInv'
<1> SUFFICES ASSUME BooksInv, [EscrowNext]_escrowVars PROVE BooksInv'
  OBVIOUS
<1>1. MoneyInv /\ EscrowTypeOK /\ PartiesKnown
  BY DEF BooksInv, MoneyInv
<1>2. MoneyInv'
  BY <1>1, StepMoneyInv
<1>3. ASSUME UNCHANGED <<balance, held, transferred>> PROVE BooksInv'
  BY <1>2, <1>3 DEF BooksInv, BooksBalance
<1>4. ASSUME NEW r \in Requests, NEW d \in Deals, EscrowRequest(r, d)
      PROVE  BooksInv'
  BY <1>1, <1>3, <1>4, RequestOpens DEF escrow
<1>5. ASSUME NEW r \in Requests,
             \/ PayRefused(r) \/ SubmitReceiptWrite(r) \/ RejectProofWrite(r)
             \/ ShipWrite(r) \/ ConfirmWrite(r) \/ SettleRead(r)
             \/ OpenDisputeWrite(r) \/ AbortEscrow(r)
      PROVE  BooksInv'
  BY <1>3, <1>5 DEF PayRefused, SubmitReceiptWrite, RejectProofWrite,
     ShipWrite, ConfirmWrite, SettleRead, OpenDisputeWrite, AbortEscrow, escrow
<1>6. ASSUME NEW r \in Requests, PayWrite(r) PROVE BooksInv'
  <2>1. call[r].deal \in Deals /\ Amount[call[r].kept.terms] \in Nat
    BY <1>1, <1>6, MoneyCallFields DEF PayWrite
  <2>2. PICK d \in Deals, amount \in Int :
          d = call[r].deal /\ amount = Amount[call[r].kept.terms]
    BY <2>1
  <2>3. PICK buyer \in Users : buyer = party[d]["buyer"]
    BY <1>1 DEF PartiesKnown, Roles
  <2>4. /\ balance' = [balance EXCEPT ![buyer] = @ - amount,
                                      ![Escrow] = @ + amount]
        /\ held' = [held EXCEPT ![d] = @ + amount]
        /\ transferred' = transferred
    BY <1>6, <2>2, <2>3 DEF PayWrite
  <2>5. buyer \in Wallets /\ Escrow \in Wallets /\ buyer # Escrow
    BY WalletsFinite
  <2>6. balance \in [Wallets -> Int] /\ held \in [Deals -> Int]
    BY <1>1 DEF EscrowTypeOK
  <2>7. /\ balance'[Escrow] = balance[Escrow] + amount
        /\ balance'[buyer] = balance[buyer] - amount
        /\ \A w \in Wallets \ {Escrow, buyer} : balance'[w] = balance[w]
    BY <2>4, <2>5, <2>6
  <2>8. /\ held'[d] = held[d] + amount
        /\ \A e \in Deals \ {d} : held'[e] = held[e]
    BY <2>4, <2>6
  <2>9. Transferred(buyer, d, amount)
    BY <2>4, <2>7, <2>8 DEF Transferred
  <2>10. BooksBalance'
    BY <1>2, <2>9, TransferKept
  <2> QED
    BY <1>2, <2>10 DEF BooksInv
<1>7. ASSUME NEW r \in Requests, VerifyProofWrite(r) PROVE BooksInv'
  <2>1. call[r].deal \in Deals /\ Amount[call[r].kept.terms] \in Nat
    BY <1>1, <1>7, MoneyCallFields DEF VerifyProofWrite
  <2>2. CreditTransfer(call[r].deal, Amount[call[r].kept.terms])
    BY <1>7 DEF VerifyProofWrite
  <2> QED
    BY <1>2, <2>1, <2>2, CreditKept DEF BooksInv
<1>8. ASSUME NEW r \in Requests, NEW side \in Roles, NEW way \in Ways,
             call[r].op # "idle", transferred' = transferred,
             PayOut(call[r].deal, party[call[r].deal][side],
                    Amount[call[r].kept.terms], way)
      PROVE  BooksInv'
  <2>1. call[r].deal \in Deals /\ Amount[call[r].kept.terms] \in Nat
    BY <1>1, <1>8, MoneyCallFields
  <2>2. party[call[r].deal][side] \in Users
    BY <1>1, <2>1 DEF PartiesKnown
  <2> QED
    BY <1>2, <1>8, <2>1, <2>2, PayOutBooked DEF BooksInv
<1>9. ASSUME NEW r \in Requests, AutoReleaseWrite(r) PROVE BooksInv'
  BY <1>8, <1>9 DEF AutoReleaseWrite, Ways, Roles
<1>10. ASSUME NEW r \in Requests, AdminReleaseWrite(r) \/ AdminRefundWrite(r)
       PROVE  BooksInv'
  BY <1>8, <1>10 DEF AdminReleaseWrite, AdminRefundWrite, Decide, Ways, Roles
<1>11. CASE UNCHANGED escrowVars
  BY <1>3, <1>11 DEF escrowVars, escrow
<1> QED
  BY <1>4, <1>5, <1>6, <1>7, <1>9, <1>10, <1>11
     DEF EscrowNext, EscrowStep, EscrowProgress

-----------------------------------------------------------------------------
(* Money: the theorems *)

(***************************************************************************)
(* The money half keeps its types, and no wallet of a user is ever         *)
(* overdrawn by payments of any number of deals at once: the balance is    *)
(* summed up under the lock that the entry is written under.               *)
(***************************************************************************)
THEOREM NoOverdraftTheorem == EscrowSpec => [](EscrowTypeOK /\ NoOverdraft)
<1>1. MoneyInv => EscrowTypeOK /\ NoOverdraft
  BY DEF MoneyInv
<1> QED
  BY <1>1, InitMoneyInv, StepMoneyInv, PTL DEF EscrowSpec

(***************************************************************************)
(* The automatic release pays a deal at most once and only after the       *)
(* confirmation, however many calls overlap: the unique confirmation row   *)
(* lets only one call into the release, although that runs in another      *)
(* transaction and may fail at any moment.                                 *)
(***************************************************************************)
THEOREM AutoReleaseTheorem == EscrowSpec => []AutoReleaseOnce
<1>1. ReleaseInv => AutoReleaseOnce
  BY DEF ReleaseInv
<1> QED
  BY <1>1, InitReleaseInv, StepReleaseInv, PTL DEF EscrowSpec

(***************************************************************************)
(* The ledger adds up whatever calls overlap: every payment, payout and    *)
(* verified transfer writes both of its sides, so the wallets hold what    *)
(* they started with plus what transfers brought in, and escrow holds what *)
(* it holds for the deals.                                                 *)
(***************************************************************************)
THEOREM BooksTheorem == EscrowSpec => []BooksBalance
<1>1. BooksInv => BooksBalance
  BY DEF BooksInv
<1> QED
  BY <1>1, InitBooksInv, StepBooksInv, PTL DEF EscrowSpec

\* The money half keeps its types, for any number of overlapping calls.
THEOREM EscrowTypeTheorem == EscrowSpec => []EscrowTypeOK
BY NoOverdraftTheorem, PTL
==============================================================================
