---------------------------- MODULE KhqrPayment ----------------------------
(***************************************************************************)
(* The KHQR code with which a buyer pays by bank transfer.  It states the  *)
(* deal amount and carries a reference note that no other deal has.  The   *)
(* deal row keeps the last one; nothing removes it when the terms change.  *)
(* Drawing the code is the bank library's work and always succeeds or      *)
(* throws (then the call ends without effect).                             *)
(***************************************************************************)
EXTENDS DealRows

CONSTANT Notes   \* reference notes

VARIABLE qr      \* qr[d]: {} or {the terms and the note of the stored code}

QrInit == qr = [d \in Deals |-> {}]

NotesTaken == {code.note : code \in UNION {qr[d] : d \in Deals}}

\* generateKhqr, its checks: three statements outside any transaction.
GenerateRead(r, d, u) ==
  /\ IsParticipant(d, u)
  /\ RoleOf(d, u) = "buyer"
  /\ status[d] = "READY_FOR_PAYMENT"
  /\ Open(r, "generate", d, u, [terms |-> terms[d]])
  /\ UNCHANGED <<status, terms, party, qr>>

\* allocateReferenceNote: a note that no row has, looked up before it is used.
AllocateNote(r) ==
  LET q == call[r]
  IN  /\ q.op = "generate"
      /\ \E note \in Notes \ NotesTaken :
           Become(r, "store", [terms |-> q.kept.terms, note |-> note])
      /\ UNCHANGED <<status, terms, party, qr>>

\* The update, whatever the deal has become; the unique constraint refuses a
\* note that another deal has taken meanwhile.
StoreQr(r) ==
  LET q == call[r]
  IN  /\ q.op = "store"
      /\ \A e \in Deals \ {q.deal} : \A code \in qr[e] : code.note # q.kept.note
      /\ qr' = [qr EXCEPT ![q.deal] = {q.kept}]
      /\ Close(r)
      /\ UNCHANGED <<status, terms, party>>

KhqrStep ==
  \E r \in Requests :
    \/ \E d \in Deals, u \in Users : GenerateRead(r, d, u)
    \/ AllocateNote(r)
    \/ StoreQr(r)
=============================================================================
