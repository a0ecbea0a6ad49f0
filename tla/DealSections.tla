---------------------------- MODULE DealSections ----------------------------
(***************************************************************************)
(* The two sections of a deal that neither the terms hash nor the missing  *)
(* fields know of: where the goods go and where the money goes.  They are  *)
(* locked with the others once the deal is paid for, by the same check on  *)
(* the row as read, and written by primary key like the others.            *)
(***************************************************************************)
EXTENDS DealNegotiation

CONSTANT Details   \* what a delivery or payout section may say

VARIABLE sections  \* sections[d][s]: {} when section s is blank, {x} when it says x

FreeSections == {"delivery", "payout"}

SectionsInit == sections = [d \in Deals |-> [s \in FreeSections |-> {}]]

\* patchDelivery and patchPayout, up to the update: a payout section is its
\* seller's.
PatchSectionRead(r, d, u, section, detail) ==
  /\ MayEdit(d, u)
  /\ section = "payout" => RoleOf(d, u) = "seller"
  /\ Open(r, "patchSection", d, u, [section |-> section, detail |-> detail])
  /\ UNCHANGED <<status, terms, party, sections>>

\* The update; neither the hash, the approvals nor the status is touched.
PatchSectionWrite(r) ==
  LET q == call[r]
  IN  /\ q.op = "patchSection"
      /\ sections' = [sections EXCEPT ![q.deal][q.kept.section] = {q.kept.detail}]
      /\ Close(r)
      /\ UNCHANGED <<status, terms, party>>

SectionStep ==
  \E r \in Requests :
    \/ \E d \in Deals, u \in Users, section \in FreeSections, detail \in Details :
         PatchSectionRead(r, d, u, section, detail)
    \/ PatchSectionWrite(r)
=============================================================================
