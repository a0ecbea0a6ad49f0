-------------------------- MODULE DealNegotiation --------------------------
(***************************************************************************)
(* A deal room from its creation until both sides have approved its terms: *)
(* create, invite expiry, join, the section patches and approval.          *)
(*                                                                         *)
(* Every operation but create and the expiry of the invite is a read step  *)
(* and a write step (see DealRows).  Approval is three steps: after it has *)
(* read the deal it reads the approval rows of both sides, and other       *)
(* transactions may commit on either side of that read.                    *)
(***************************************************************************)
EXTENDS DealRows

CONSTANTS
  CompleteTerms, \* terms with a non-blank title and a legal amount
  Defaulted      \* Defaulted[t]: terms t with an absent description read as ""

ASSUME CompleteTermsAssumption ==
  CompleteTerms \subseteq Terms /\ CompleteTerms # {}

ASSUME DefaultedAssumption ==
  /\ Defaulted \in [Terms -> Terms]
  /\ \A t \in Terms :
       /\ Defaulted[Defaulted[t]] = Defaulted[t]
       /\ Defaulted[t] \in CompleteTerms <=> t \in CompleteTerms

VARIABLES
  filled,     \* filled[d]: required columns outside the hash that are not blank
  hash,       \* hash[d]: the terms whose hash is stored in terms_hash
  invite,     \* invite[d]: the invite token row
  active,     \* active[d][role][t]: live approval rows of that side for terms t
  withdrawn   \* withdrawn[d]: <<role, t>> that have an invalidated approval row

negotiation == <<filled, hash, invite, active, withdrawn>>

negotiationVars == <<status, terms, party, call, negotiation>>

\* The required columns that the terms hash leaves out.
FilledColumns == {"Product_Type", "Buyer_Name", "Seller_Name"}

NameColumn(role) == IF role = "buyer" THEN "Buyer_Name" ELSE "Seller_Name"

InviteStates == {"none", "live", "spent", "expired"}

NoApprovals == [role \in Roles |-> [t \in Terms |-> 0]]

\* computeMissingFields(deal) is empty.
NothingMissing(d) == terms[d] \in CompleteTerms /\ filled[d] = FilledColumns

NegotiationInit ==
  /\ status = [d \in Deals |-> Uncreated]
  /\ terms = [d \in Deals |-> CHOOSE t \in CompleteTerms : TRUE]
  /\ party = [d \in Deals |-> [role \in Roles |-> Nobody]]
  /\ call = [r \in Requests |-> Idle]
  /\ filled = [d \in Deals |-> {}]
  /\ hash = terms
  /\ invite = [d \in Deals |-> "none"]
  /\ active = [d \in Deals |-> NoApprovals]
  /\ withdrawn = [d \in Deals |-> {}]

-----------------------------------------------------------------------------
(* Creation and the invite *)

\* pickSections: what the creator may set; other columns are silently dropped.
Settable(role) ==
  {NameColumn(role)} \cup IF role = "buyer" THEN {"Product_Type"} ELSE {}

\* collectMissingRequired and assertValidDealAmount find nothing wrong.
RequiredGiven(role, t, columns) ==
  t \in CompleteTerms /\ NameColumn(role) \in columns

\* The writes of create.  The row is written as DRAFT and moved on in the same
\* transaction, so nobody ever sees the draft.
InsertDeal(d, u, role, t, columns) ==
  /\ Transition(d, "DRAFT", "AWAITING_COUNTERPARTY")
  /\ terms' = [terms EXCEPT ![d] = t]
  /\ hash' = [hash EXCEPT ![d] = t]
  /\ party' = [party EXCEPT ![d][role] = u]
  /\ filled' = [filled EXCEPT ![d] = columns]
  /\ invite' = [invite EXCEPT ![d] = "live"]

\* DealService.create.
CreateDeal(d, u, role, t, columns) ==
  LET kept == columns \cap Settable(role)
  IN  /\ status[d] = Uncreated
      /\ RequiredGiven(role, t, kept)
      /\ InsertDeal(d, u, role, t, kept)
      /\ UNCHANGED <<call, active, withdrawn>>

\* Time passes expires_at; no code ever issues a second invite for a deal.
ExpireInvite(d) ==
  /\ invite[d] = "live"
  /\ invite' = [invite EXCEPT ![d] = "expired"]
  /\ UNCHANGED <<status, terms, party, call, filled, hash, active, withdrawn>>

\* Step 1 of the join handler: load the deal, whatever its status.
JoinRead(r, d, u) ==
  /\ status[d] # Uncreated
  /\ Open(r, "join", d, u, [seen |-> status[d]])
  /\ UNCHANGED <<status, terms, party, negotiation>>

\* Fault: nothing stops the creator from taking the other side too.
InsertParticipantTwice(d, role, u) ==
  /\ party[d][role] = Nobody
  /\ party' = [party EXCEPT ![d][role] = u]

\* The participant insert, under the unique constraints on (deal, role) and on
\* (deal, user).
InsertParticipant(d, role, u) ==
  /\ party[d][role] = Nobody
  /\ ~IsParticipant(d, u)
  /\ party' = [party EXCEPT ![d][role] = u]

\* consume: spend the invite by compare-and-set, then look at the status once
\* more, inside the same transaction.
SpendInvite(d) ==
  /\ invite[d] = "live"
  /\ status[d] = "AWAITING_COUNTERPARTY"
  /\ invite' = [invite EXCEPT ![d] = "spent"]

\* The joiner's name is required and fills the column of the joiner's role.
BackfillName(d, role) ==
  filled' = [filled EXCEPT ![d] = @ \cup {NameColumn(role)}]

(***************************************************************************)
(* The rest of join: spend the invite, insert the participant opposite to  *)
(* the creator, fill in the joiner's name and move the deal on from the    *)
(* status read in step 1.                                                  *)
(***************************************************************************)
JoinWrite(r) ==
  LET q == call[r]
      d == q.deal
  IN  \E role \in Roles :
        /\ q.op = "join"
        /\ SpendInvite(d)
        /\ party[d][OppositeRole(role)] # Nobody
        /\ InsertParticipant(d, role, q.by)
        /\ BackfillName(d, role)
        /\ Transition(d, q.kept.seen, "AWAITING_BOTH_APPROVAL")
        /\ Close(r)
        /\ UNCHANGED <<terms, hash, active, withdrawn>>

-----------------------------------------------------------------------------
(* Section patches *)

\* What a request may do to one column, and to the hashed columns together.
Edits == {"set", "clear", "keep"}

ColumnEdits == {{}} \cup {{t} : t \in Terms}

\* Fault: nothing is locked after payment.
MayEditAlways(d, u) == status[d] # Uncreated /\ IsParticipant(d, u)

\* loadAndAuthorise: an editable deal and a participant of it.
MayEdit(d, u) ==
  /\ status[d] \in EditableStatuses
  /\ IsParticipant(d, u)

\* Fault: an edit is never taken for a material one.
NeverMaterial(d, columns) == FALSE

(***************************************************************************)
(* detectMaterialEdit, against the row as it is now.  The value sent is    *)
(* compared with the stored one, an absent description being read as the   *)
(* empty string.  So a description that goes from absent to empty is no    *)
(* material edit, although the hash distinguishes them; and one that is    *)
(* absent and set to null again is.                                        *)
(***************************************************************************)
IsMaterial(d, columns) == \E t \in columns : t # Defaulted[terms[d]]

(***************************************************************************)
(* patchProduct, first half.  columns is {} when the request names none of *)
(* the hashed columns and {t} when it sets them to t; productType says     *)
(* what it does to the product type.  Whether the edit is material is      *)
(* decided here, against the row as read.                                  *)
(***************************************************************************)
PatchProductRead(r, d, u, columns, productType) ==
  /\ MayEdit(d, u)
  /\ Open(r, "patchProduct", d, u,
          [columns |-> columns, productType |-> productType,
           material |-> IsMaterial(d, columns)])
  /\ UNCHANGED <<status, terms, party, negotiation>>

\* Fault: the approvals survive.
KeepApprovals(d) == UNCHANGED <<active, withdrawn>>

\* A material edit invalidates every live approval of the deal.
InvalidateApprovals(d) ==
  /\ active' = [active EXCEPT ![d] = NoApprovals]
  /\ withdrawn' = [withdrawn EXCEPT ![d] = @ \cup
       {a \in Roles \X Terms : active[d][a[1]][a[2]] > 0}]

PresenceAfter(columns, column, edit) ==
  CASE edit = "set"   -> columns \cup {column}
    [] edit = "clear" -> columns \ {column}
    [] edit = "keep"  -> columns

\* Fault: the hash is taken of the row as it was before the update.
RefreshStaleHash(d, row) == hash' = [hash EXCEPT ![d] = terms[d]]

\* Fault: the hash is dropped and left for someone else to compute.
DropTermsHash(d, row) == hash' = [hash EXCEPT ![d] = Nobody]

\* refreshTermsHash, on the row that the update has just returned.
RefreshTermsHash(d, row) == hash' = [hash EXCEPT ![d] = row]

(***************************************************************************)
(* patchProduct, second half.  The row is updated without looking at its   *)
(* status; the update returns the row as it is now, and a material edit    *)
(* moves that status back to AWAITING_BOTH_APPROVAL if the table allows it *)
(* (otherwise the transaction rolls back, which is Abort).                 *)
(***************************************************************************)
PatchProductWrite(r) ==
  LET q == call[r]
      d == q.deal
      new == IF q.kept.columns = {} THEN terms[d]
             ELSE CHOOSE t \in q.kept.columns : TRUE
  IN  /\ q.op = "patchProduct"
      /\ terms' = [terms EXCEPT ![d] = new]
      /\ RefreshTermsHash(d, new)
      /\ filled' = [filled EXCEPT
                     ![d] = PresenceAfter(@, "Product_Type", q.kept.productType)]
      /\ \/ /\ q.kept.material
            /\ InvalidateApprovals(d)
            /\ \/ /\ status[d] = "AWAITING_BOTH_APPROVAL"
                  /\ UNCHANGED status
               \/ Transition(d, status[d], "AWAITING_BOTH_APPROVAL")
         \/ /\ ~q.kept.material
            /\ UNCHANGED <<status, active, withdrawn>>
      /\ Close(r)
      /\ UNCHANGED <<party, invite>>

\* patchParticipant on the caller's own name; a blank passes the DTO's bounds.
PatchParticipantRead(r, d, u, edit) ==
  /\ MayEdit(d, u)
  /\ Open(r, "patchParticipant", d, u, [edit |-> edit])
  /\ UNCHANGED <<status, terms, party, negotiation>>

PatchParticipantWrite(r) ==
  LET q == call[r]
      name == NameColumn(RoleOf(q.deal, q.by))
  IN  /\ q.op = "patchParticipant"
      /\ filled' = [filled EXCEPT ![q.deal] = PresenceAfter(@, name, q.kept.edit)]
      /\ Close(r)
      /\ UNCHANGED <<status, terms, party, hash, invite, active, withdrawn>>

-----------------------------------------------------------------------------
(* Approval *)

\* recordApproval up to the terms hash: all checks are on the row as read.
ApproveRead(r, d, u) ==
  /\ status[d] = "AWAITING_BOTH_APPROVAL"
  /\ IsParticipant(d, u)
  /\ NothingMissing(d)
  /\ Open(r, "approve", d, u, [seen |-> status[d], terms |-> terms[d]])
  /\ UNCHANGED <<status, terms, party, negotiation>>

\* Fault: the row is looked up by a hash nobody stored, so never found.
LiveRowNeverFound(d, role) == {{}}

\* upsertApproval's lookup of the side's live row: findFirst without an order,
\* so any of them, as a set of at most one.
LiveRow(d, role) ==
  LET live == {t \in Terms : active[d][role][t] > 0}
  IN  IF live = {} THEN {{}} ELSE {{t} : t \in live}

\* Fault: the caller's own row is enough.
BothApprovedByOne(d, role, t) == TRUE

\* areBothApproved: the caller's own uncommitted row counts, so the answer is
\* whether the other side has a committed live row for the same hash.
BothApproved(d, role, t) == active[d][OppositeRole(role)][t] > 0

\* The two lookups of recordApproval, between its checks and its writes.
ApproveCheck(r) ==
  LET q == call[r]
      d == q.deal
      role == RoleOf(d, q.by)
  IN  /\ q.op = "approve"
      /\ \E existing \in LiveRow(d, role) :
           Become(r, "approveCommit",
                  [seen |-> q.kept.seen, terms |-> q.kept.terms,
                   existing |-> existing,
                   both |-> BothApproved(d, role, q.kept.terms)])
      /\ UNCHANGED <<status, terms, party, negotiation>>

\* The writes of upsertApproval: invalidate the side's row for other terms and
\* insert a row unless the one found was already for these terms.
UpsertApproval(d, role, t, existing) ==
  LET replaced == existing \ {t}
      inserted == t \notin existing
  IN  /\ active' = [active EXCEPT ![d][role] =
           [v \in Terms |->
              IF v \in replaced /\ @[v] > 0 THEN @[v] - 1
              ELSE IF v = t /\ inserted THEN @[v] + 1
              ELSE @[v]]]
      /\ withdrawn' = [withdrawn EXCEPT ![d] = @ \cup ({role} \X replaced)]

(***************************************************************************)
(* The writes of recordApproval: record the side's approval and move the   *)
(* deal on, from the status read at the start, if both sides were seen to  *)
(* have approved.                                                          *)
(***************************************************************************)
ApproveWrite(r) ==
  LET q == call[r]
      d == q.deal
  IN  /\ q.op = "approveCommit"
      /\ UpsertApproval(d, RoleOf(d, q.by), q.kept.terms, q.kept.existing)
      /\ \/ q.kept.both /\ Transition(d, q.kept.seen, "READY_FOR_PAYMENT")
         \/ ~q.kept.both /\ UNCHANGED status
      /\ Close(r)
      /\ UNCHANGED <<terms, party, filled, hash, invite>>

-----------------------------------------------------------------------------
(* The whole component *)

AbortNegotiation(r) == Abort(r) /\ UNCHANGED negotiation

PatchCall(r) ==
  \/ \E d \in Deals, u \in Users :
       \/ \E columns \in ColumnEdits, edit \in Edits :
            PatchProductRead(r, d, u, columns, edit)
       \/ \E edit \in {"set", "clear"} : PatchParticipantRead(r, d, u, edit)
  \/ PatchProductWrite(r)
  \/ PatchParticipantWrite(r)

NegotiationCall(r) ==
  \/ \E d \in Deals, u \in Users : JoinRead(r, d, u) \/ ApproveRead(r, d, u)
  \/ JoinWrite(r)
  \/ PatchCall(r)
  \/ ApproveCheck(r)
  \/ ApproveWrite(r)

NegotiationStep ==
  \/ \E r \in Requests : NegotiationCall(r)
  \/ \E d \in Deals : ExpireInvite(d)
  \/ \E d \in Deals, u \in Users, role \in Roles, t \in CompleteTerms,
        columns \in SUBSET FilledColumns :
       CreateDeal(d, u, role, t, columns)

NegotiationNext == NegotiationStep \/ \E r \in Requests : AbortNegotiation(r)

NegotiationSpec == NegotiationInit /\ [][NegotiationNext]_negotiationVars

-----------------------------------------------------------------------------
(* Types *)

NegotiationCalls ==
  LET Calls(op, kept) == [op : {op}, deal : Deals, by : Users, kept : kept]
  IN  Calls("join", [seen : DealStatuses])
      \cup Calls("patchProduct", [columns : ColumnEdits, productType : Edits,
                                  material : BOOLEAN])
      \cup Calls("patchParticipant", [edit : Edits])
      \cup Calls("approve", [seen : DealStatuses, terms : Terms])
      \cup Calls("approveCommit", [seen : DealStatuses, terms : Terms,
                                   existing : ColumnEdits, both : BOOLEAN])

\* Type invariant.
NegotiationTypeOK ==
  /\ RowsTypeOK
  /\ call \in [Requests -> NegotiationCalls \cup {Idle}]
  /\ filled \in [Deals -> SUBSET FilledColumns]
  /\ hash \in [Deals -> Terms]
  /\ invite \in [Deals -> InviteStates]
  /\ active \in [Deals -> [Roles -> [Terms -> Nat]]]
  /\ withdrawn \in [Deals -> SUBSET (Roles \X Terms)]

-----------------------------------------------------------------------------
(* What holds however calls overlap *)

Recorded(d, role, t) == active[d][role][t] > 0 \/ <<role, t>> \in withdrawn[d]

BeforeAgreement ==
  {Uncreated, "DRAFT", "AWAITING_COUNTERPARTY", "AWAITING_BOTH_APPROVAL"}

(***************************************************************************)
(* No deal becomes payable on one side's word: once it has left the        *)
(* approval phase there are complete terms for which buyer and seller each *)
(* recorded an approval row (areBothApproved asks for one hash, and rows   *)
(* are invalidated but never deleted).                                     *)
(***************************************************************************)
AgreedByBoth ==
  \A d \in Deals : status[d] \notin BeforeAgreement =>
    \E t \in CompleteTerms : \A role \in Roles : Recorded(d, role, t)

(***************************************************************************)
(* The invite is spent exactly when the second participant row exists, and *)
(* the two rows belong to two people: the compare-and-set on the invite    *)
(* and the participant insert of join stand or fall together.              *)
(***************************************************************************)
SpentIffJoined ==
  \A d \in Deals :
    /\ invite[d] = "spent" <=> \A role \in Roles : party[d][role] # Nobody
    /\ invite[d] = "spent" => party[d]["buyer"] # party[d]["seller"]

(***************************************************************************)
(* terms_hash is always the hash of the stored columns: refreshTermsHash   *)
(* works on the row its own update returned, not on the row read before.   *)
(***************************************************************************)
StoredHashIsCurrent == hash = terms
=============================================================================
