--------------------------- MODULE MCRoomHistory ---------------------------
(* RoomHistory on small instances: bare terms, which have no description,  *)
(* and plain ones, which are the same with an empty one.                   *)
EXTENDS RoomHistory, TLC

CONSTANTS bare, plain

MCAmount == [t \in Terms |-> 2]
MCDefaulted == [t \in Terms |-> plain]
MCInitialBalance == [u \in Users |-> 2]
MCSymmetry == Permutations(Users) \cup Permutations(Requests)

(***************************************************************************)
(* Bounds on the search.  A deal that was written to on an older row is    *)
(* not followed any further, nor one in which approvals of the plain terms *)
(* were withdrawn.  The rest leaves to the run of DealNegotiation what it  *)
(* covers: expiry, filling in columns, deals that a seller creates, and    *)
(* joining late.                                                           *)
(***************************************************************************)
Focus ==
  /\ Intact # {}
  /\ \A d \in Deals :
       /\ withdrawn[d] \subseteq Roles \X {bare}
       /\ invite[d] # "expired"
       /\ status[d] # Uncreated => party[d]["buyer"] # Nobody
       /\ status[d] \in BeforeAgreement \ {Uncreated} =>
            {"Product_Type", "Buyer_Name"} \subseteq filled[d]
  /\ \A r \in Requests :
       LET q == call[r]
       IN  /\ q.op = "join" => q.kept.seen = "AWAITING_COUNTERPARTY"
           /\ q.op = "patchProduct" =>
                q.kept.columns # {} /\ q.kept.productType = "keep"
           /\ q.op = "patchParticipant" =>
                /\ q.kept.edit = "clear" /\ RoleOf(q.deal, q.by) = "buyer"
                /\ status[q.deal] \notin BeforeAgreement
=============================================================================
