------------------------- MODULE Withdrawals_proofs -------------------------
(***************************************************************************)
(* Proofs about Withdrawals for any number of sellers, requests and slots, *)
(* any amounts and any page size.                                          *)
(*                                                                         *)
(* Calls may overlap at will: nothing is assumed of how many creations of  *)
(* one seller, or decisions about one request, are under way.              *)
(***************************************************************************)
EXTENDS Withdrawals, FiniteSums

-----------------------------------------------------------------------------
(* Types *)

Creations ==
  [op : {"sum"}, seller : Sellers, amount : Sums, since : 0..MaxTime, credits : Nat]
  \cup [op : {"create"}, seller : Sellers, amount : Sums, since : 0..MaxTime]

Decisions == [op : {"approve", "reject"}, request : Withdrawals, since : 0..MaxTime]

Entry == [id : Nat, at : 0..MaxTime, type : EntryTypes, request : Withdrawals]

\* The ledger is finite, the calls are of their slots' kinds, and what entries
\* and decisions refer to is there.
TypesInv ==
  /\ WithdrawalsTypeOK
  /\ now \in 0..MaxTime
  /\ IsFiniteSet(ledger) /\ ledger \subseteq Entry
  /\ \A c \in SellerCalls : errand[c] \in Creations \cup {Free}
  /\ \A c \in AdminCalls :
       \/ errand[c] = Free
       \/ errand[c] \in Decisions /\ request[errand[c].request] \in Rows
  /\ \A e \in ledger : request[e.request] \in Rows

LEMMA Bounds ==
  /\ IsFiniteSet(Withdrawals) /\ Sums \subseteq Nat /\ Funds \in [Sellers -> Nat]
  /\ IsFiniteSet(SellerCalls) /\ IsFiniteSet(AdminCalls)
  /\ SellerCalls \cap AdminCalls = {}
  /\ PageSize \in Nat \ {0} /\ MaxTime \in Nat
BY WithdrawalsAssumption

LEMMA FreeIs ==
  /\ Free \notin Creations /\ Free \notin Decisions /\ Creations \cap Decisions = {}
  /\ Absent \notin Rows /\ Absent.status = "absent"
BY DEF Free, Creations, Decisions, Absent, Rows

\* The call of a seller's slot, and of an administrator's.
LEMMA CreationIs ==
  ASSUME TypesInv, NEW c \in SellerCalls, errand[c] # Free
  PROVE  /\ errand[c] \in Creations
         /\ errand[c].seller \in Sellers /\ errand[c].amount \in Sums
         /\ errand[c].since \in 0..MaxTime
         /\ errand[c].op = "sum" => errand[c].credits \in Nat
BY DEF TypesInv, Creations

LEMMA DecisionIs ==
  ASSUME TypesInv, NEW c \in AdminCalls, errand[c] # Free
  PROVE  /\ errand[c] \in Decisions /\ errand[c].request \in Withdrawals
         /\ errand[c].since \in 0..MaxTime
         /\ request[errand[c].request] \in Rows
BY DEF TypesInv, Decisions

\* What a step does to one slot.
LEMMA ErrandChanged ==
  ASSUME TypesInv, NEW c \in SellerCalls \cup AdminCalls, NEW call,
         errand' = [errand EXCEPT ![c] = call]
  PROVE  /\ errand'[c] = call
         /\ \A d \in SellerCalls \cup AdminCalls : d # c => errand'[d] = errand[d]
         /\ call \in Errands \cup {Free} =>
              errand' \in [SellerCalls \cup AdminCalls -> Errands \cup {Free}]
BY DEF TypesInv, WithdrawalsTypeOK

\* Rows stay, and keep their seller and their amount.
RowsKept ==
  \A w \in Withdrawals : request[w] \in Rows =>
    /\ request'[w] \in Rows
    /\ request'[w].seller = request[w].seller /\ request'[w].amount = request[w].amount

\* A new entry has a number of its own.
LEMMA BookIs ==
  ASSUME TypesInv, NEW type \in EntryTypes, NEW w \in Withdrawals, NEW since \in 0..MaxTime,
         Book(type, w, since)
  PROVE  \E e \in Entry :
           /\ e \notin ledger /\ ledger' = ledger \cup {e}
           /\ e.type = type /\ e.request = w
           /\ IsFiniteSet(ledger') /\ ledger' \subseteq Entry
           /\ ledger' \subseteq [id : 1..Cardinality(ledger'), at : 0..MaxTime,
                                 type : EntryTypes, request : Withdrawals]
           /\ \A f, g \in ledger' : f.id = g.id => f = g
<1>1. PICK n \in Nat : n = Cardinality(ledger)
  BY FS_CardinalityType DEF TypesInv
<1>2. PICK e : e = [id |-> n + 1, at |-> since, type |-> type, request |-> w]
  OBVIOUS
<1>3. e \in Entry /\ e.id = n + 1 /\ e.type = type /\ e.request = w /\ e.at = since
  BY <1>2 DEF Entry
<1>4. ledger' = ledger \cup {e}
  BY <1>1, <1>2 DEF Book
<1>5. \A f \in ledger : f.id \in 1..n
  BY <1>1 DEF TypesInv, WithdrawalsTypeOK
<1>6. e \notin ledger
  BY <1>3, <1>5
<1>7. IsFiniteSet(ledger') /\ Cardinality(ledger') = n + 1
  BY <1>1, <1>4, <1>6, FS_AddElement DEF TypesInv
<1>8. ledger' \subseteq [id : 1..Cardinality(ledger'), at : 0..MaxTime,
                         type : EntryTypes, request : Withdrawals]
  <2>1. \A f \in ledger : f \in [id : 1..n + 1, at : 0..MaxTime,
                                 type : EntryTypes, request : Withdrawals]
    <3>1. \A f \in ledger : f \in [id : 1..n, at : 0..MaxTime,
                                   type : EntryTypes, request : Withdrawals]
      BY <1>1 DEF TypesInv, WithdrawalsTypeOK
    <3>2. 1..n \subseteq 1..n + 1
      OBVIOUS
    <3> QED
      BY <3>1, <3>2
  <2>2. e \in [id : 1..n + 1, at : 0..MaxTime, type : EntryTypes, request : Withdrawals]
    BY <1>2
  <2> QED
    BY <1>4, <1>7, <2>1, <2>2
<1>9. \A f, g \in ledger' : f.id = g.id => f = g
  BY <1>3, <1>4, <1>5 DEF TypesInv, WithdrawalsTypeOK
<1>10. ledger' \subseteq Entry
  BY <1>3, <1>4 DEF TypesInv
<1> QED
  BY <1>3, <1>4, <1>6, <1>7, <1>8, <1>9, <1>10

\* The row of request w is written, an entry of some type is booked for it, and
\* the call that does so ends.
Writes(c, w, row, type, e) ==
  /\ row \in Rows /\ request' = [request EXCEPT ![w] = row]
  /\ request[w] \in Rows => row.seller = request[w].seller /\ row.amount = request[w].amount
  /\ e \in Entry /\ e \notin ledger /\ e.type = type /\ e.request = w
  /\ ledger' = ledger \cup {e}
  /\ ledger' \subseteq [id : 1..Cardinality(ledger'), at : 0..MaxTime,
                        type : EntryTypes, request : Withdrawals]
  /\ \A f, g \in ledger' : f.id = g.id => f = g
  /\ errand' = [errand EXCEPT ![c] = Free]

\* Steps without a write.
NoWrite == UNCHANGED <<request, ledger, notices, trail>>

LEMMA WritesRows ==
  ASSUME TypesInv, NEW c, NEW w \in Withdrawals, NEW row, NEW type, NEW e,
         Writes(c, w, row, type, e)
  PROVE  /\ RowsKept
         /\ request' \in [Withdrawals -> Rows \cup {Absent}]
         /\ request'[w] = row /\ \A v \in Withdrawals : v # w => request'[v] = request[v]
<1>1. request \in [Withdrawals -> Rows \cup {Absent}]
  BY DEF TypesInv, WithdrawalsTypeOK
<1>2. row \in Rows /\ request' = [request EXCEPT ![w] = row]
  BY DEF Writes
<1>3. request'[w] = row /\ \A v \in Withdrawals : v # w => request'[v] = request[v]
  BY <1>1, <1>2
<1>4. request' \in [Withdrawals -> Rows \cup {Absent}]
  BY <1>1, <1>2
<1>5. RowsKept
  <2> SUFFICES ASSUME NEW v \in Withdrawals, request[v] \in Rows
               PROVE  /\ request'[v] \in Rows
                      /\ request'[v].seller = request[v].seller
                      /\ request'[v].amount = request[v].amount
    BY DEF RowsKept
  <2>1. CASE v = w
    BY <1>2, <1>3, <2>1 DEF Writes
  <2>2. CASE v # w
    BY <1>3, <2>2
  <2> QED
    BY <2>1, <2>2
<1> QED
  BY <1>3, <1>4, <1>5

LEMMA CreateWriteIs ==
  ASSUME TypesInv, NEW c \in SellerCalls, NEW w \in Withdrawals, CreateWrite(c, w)
  PROVE  /\ errand[c] # Free /\ errand[c].op = "create" /\ request[w] = Absent
         /\ \E row, e :
              /\ Writes(c, w, row, "SELLER_PAYOUT_PENDING", e)
              /\ row.status = "pending_admin_review"
              /\ row.seller = errand[c].seller /\ row.amount = errand[c].amount
<1>1. errand[c] # Free /\ errand[c].op = "create" /\ request[w] = Absent
  BY DEF CreateWrite, Free
<1>2. errand[c].seller \in Sellers /\ errand[c].amount \in Sums /\ errand[c].since \in 0..MaxTime
  BY <1>1, CreationIs
<1>3. PICK row : row = [status |-> "pending_admin_review", seller |-> errand[c].seller,
                        amount |-> errand[c].amount]
  OBVIOUS
<1>4. row \in Rows
  BY <1>2, <1>3 DEF Rows
<1>5. Book("SELLER_PAYOUT_PENDING", w, errand[c].since)
  BY DEF CreateWrite
<1>6. "SELLER_PAYOUT_PENDING" \in EntryTypes
  BY DEF EntryTypes
<1>7. PICK since \in 0..MaxTime : since = errand[c].since
  BY <1>2
<1>8. Book("SELLER_PAYOUT_PENDING", w, since)
  BY <1>5, <1>7
<1>9. PICK e \in Entry :
           /\ e \notin ledger /\ ledger' = ledger \cup {e}
           /\ e.type = "SELLER_PAYOUT_PENDING" /\ e.request = w
           /\ IsFiniteSet(ledger') /\ ledger' \subseteq Entry
           /\ ledger' \subseteq [id : 1..Cardinality(ledger'), at : 0..MaxTime,
                                 type : EntryTypes, request : Withdrawals]
           /\ \A f, g \in ledger' : f.id = g.id => f = g
  BY <1>6, <1>8, BookIs
<1>10. request' = [request EXCEPT ![w] = row]
  BY <1>3 DEF CreateWrite
<1>11. Writes(c, w, row, "SELLER_PAYOUT_PENDING", e)
  BY <1>1, <1>4, <1>9, <1>10, FreeIs DEF Writes, CreateWrite, End
<1> QED
  BY <1>1, <1>3, <1>11

\* Both decisions, with what they differ in.
Decides(c, op, status, type) ==
  /\ errand[c].op = op
  /\ request' = [request EXCEPT ![errand[c].request].status = status]
  /\ Book(type, errand[c].request, errand[c].since)
  /\ End(c)

LEMMA DecidesIs ==
  ASSUME TypesInv, NEW c \in AdminCalls, NEW op \in {"approve", "reject"},
         NEW status \in {"paid", "rejected"}, NEW type \in EntryTypes,
         Decides(c, op, status, type)
  PROVE  /\ errand[c] # Free /\ errand[c].request \in Withdrawals
         /\ \E row, e :
              /\ Writes(c, errand[c].request, row, type, e)
              /\ row.status = status
<1>1. errand[c] # Free
  BY DEF Decides, Free
<1>2. errand[c].request \in Withdrawals /\ errand[c].since \in 0..MaxTime
      /\ request[errand[c].request] \in Rows
  BY <1>1, DecisionIs
<1>3. PICK w \in Withdrawals : w = errand[c].request
  BY <1>2
<1>4. PICK row : row = [request[w] EXCEPT !.status = status]
  OBVIOUS
<1>5. row \in Rows /\ row.status = status
      /\ row.seller = request[w].seller /\ row.amount = request[w].amount
  BY <1>2, <1>3, <1>4 DEF Rows
<1>6. request' = [request EXCEPT ![w] = row]
  BY <1>3, <1>4 DEF Decides
<1>7. PICK since \in 0..MaxTime : since = errand[c].since
  BY <1>2
<1>8. Book(type, w, since)
  BY <1>3, <1>7 DEF Decides
<1>9. PICK e \in Entry :
           /\ e \notin ledger /\ ledger' = ledger \cup {e}
           /\ e.type = type /\ e.request = w
           /\ IsFiniteSet(ledger') /\ ledger' \subseteq Entry
           /\ ledger' \subseteq [id : 1..Cardinality(ledger'), at : 0..MaxTime,
                                 type : EntryTypes, request : Withdrawals]
           /\ \A f, g \in ledger' : f.id = g.id => f = g
  BY <1>8, BookIs
<1>10. Writes(c, w, row, type, e)
  BY <1>5, <1>6, <1>9 DEF Writes, Decides, End
<1> QED
  BY <1>1, <1>2, <1>3, <1>5, <1>10

LEMMA ApproveIs ==
  ASSUME TypesInv, NEW c \in AdminCalls, ApprovePayout(c)
  PROVE  Decides(c, "approve", "paid", "SELLER_PAYOUT_SENT")
BY DEF ApprovePayout, Decides

LEMMA RejectIs ==
  ASSUME TypesInv, NEW c \in AdminCalls, RejectPayout(c)
  PROVE  Decides(c, "reject", "rejected", "ADJUSTMENT")
BY DEF RejectPayout, Decides
-----------------------------------------------------------------------------
(* Sums of entries *)

\* The entries that a sum is over, and its summands.
Counted(s, types) == {e \in EntriesOf(s) : e.type \in types}

Summands(s, types) == [e \in Counted(s, types) |-> request[e.request].amount]

LEMMA BookedIs ==
  ASSUME TypesInv, NEW s \in Sellers, NEW types
  PROVE  /\ IsFiniteSet(Counted(s, types)) /\ Counted(s, types) \subseteq ledger
         /\ Summands(s, types) \in [Counted(s, types) -> Nat]
         /\ Booked(s, types) = SumFunction(Summands(s, types))
         /\ Booked(s, types) \in Nat
<1>1. Counted(s, types) \subseteq ledger
  BY DEF Counted, EntriesOf
<1>2. IsFiniteSet(Counted(s, types))
  BY <1>1, FS_Subset DEF TypesInv
<1>3. Summands(s, types) \in [Counted(s, types) -> Nat]
  <2>1. \A e \in Counted(s, types) : request[e.request].amount \in Nat
    BY <1>1, Bounds DEF TypesInv, Rows
  <2> QED
    BY <2>1 DEF Summands
<1>4. Booked(s, types) = SumFunction(Summands(s, types))
  BY DEF Booked, Summands, Counted
<1>5. SumFunction(Summands(s, types)) \in Nat
  <2> DEFINE S == Counted(s, types)
             f == Summands(s, types)
  <2>1. IsFiniteSet(S) /\ f \in [S -> Nat]
    BY <1>2, <1>3
  <2> HIDE DEF S, f
  <2>2. SumFunction(f) \in Nat
    BY <2>1, SumIsNat
  <2> QED
    BY <2>2 DEF f
<1> QED
  BY <1>1, <1>2, <1>3, <1>4, <1>5

\* What an entry adds to a sum of its seller's.
Added(s, types, row, type) == IF row.seller = s /\ type \in types THEN row.amount ELSE 0

\* The summands are as the lemma says in the next state as well.
SummandsFit ==
  \A s \in Sellers, types \in SUBSET EntryTypes :
    /\ Summands(s, types) \in [Counted(s, types) -> Nat]
    /\ Booked(s, types) = SumFunction(Summands(s, types))

LEMMA SummandsDoFit == TypesInv => SummandsFit
BY BookedIs DEF SummandsFit

LEMMA BookedGrows ==
  ASSUME TypesInv, TypesInv', NEW c, NEW w \in Withdrawals, NEW row, NEW type, NEW e,
         Writes(c, w, row, type, e), NEW CONSTANT s \in Sellers,
         NEW CONSTANT types \in SUBSET EntryTypes
  PROVE  Booked(s, types)' = Booked(s, types) + Added(s, types, row, type)
<1> DEFINE S == Counted(s, types)
           f == Summands(s, types)
           h == Summands(s, types)'
<1>1. IsFiniteSet(S) /\ f \in [S -> Nat] /\ Booked(s, types) = SumFunction(f)
      /\ Booked(s, types) \in Nat /\ S \subseteq ledger
  BY BookedIs
<1>2. /\ h \in [Counted(s, types)' -> Nat] /\ Booked(s, types)' = SumFunction(h)
  <2>1. SummandsFit'
    BY SummandsDoFit, PTL
  <2> QED
    BY <2>1 DEF SummandsFit
<1>3. /\ RowsKept /\ request'[w] = row
  BY WritesRows
<1>4. e \notin ledger /\ ledger' = ledger \cup {e} /\ e.type = type /\ e.request = w
  BY DEF Writes
<1>5. \A g \in ledger : /\ request[g.request] \in Rows /\ g.request \in Withdrawals
                        /\ request'[g.request].seller = request[g.request].seller
                        /\ request'[g.request].amount = request[g.request].amount
  BY <1>3 DEF TypesInv, Entry, RowsKept
<1>6. EntriesOf(s)' = IF row.seller = s THEN EntriesOf(s) \cup {e} ELSE EntriesOf(s)
  BY <1>3, <1>4, <1>5 DEF EntriesOf
<1>7. Counted(s, types)' = IF row.seller = s /\ type \in types THEN S \cup {e} ELSE S
  BY <1>4, <1>6 DEF Counted
<1>8. \A g \in S : h[g] = f[g]
  BY <1>1, <1>5, <1>7 DEF Summands
<1>9. CASE row.seller = s /\ type \in types
  <2>1. h \in [S \cup {e} -> Nat] /\ e \notin S /\ h[e] = row.amount
    BY <1>1, <1>2, <1>3, <1>4, <1>7, <1>9 DEF Summands
  <2>2. f \in [S -> Int] /\ h \in [S \cup {e} -> Int]
    BY <1>1, <2>1
  <2> HIDE DEF S, f, h
  <2>3. SumFunction(h) = SumFunction(f) + h[e]
    BY <1>1, <1>8, <2>1, <2>2, SumExtended
  <2> QED
    BY <1>1, <1>2, <1>9, <2>1, <2>3 DEF Added
<1>10. CASE ~(row.seller = s /\ type \in types)
  <2>1. h = f
    <3>1. h \in [S -> Nat]
      BY <1>2, <1>7, <1>10
    <3> HIDE DEF S, f, h
    <3> QED
      BY <1>1, <1>8, <3>1
  <2> QED
    BY <1>1, <1>2, <1>10, <2>1 DEF Added
<1> QED
  BY <1>9, <1>10

LEMMA BookedStays ==
  ASSUME NoWrite, NEW CONSTANT s \in Sellers, NEW CONSTANT types
  PROVE  Booked(s, types)' = Booked(s, types)
BY DEF NoWrite, Booked, EntriesOf

-----------------------------------------------------------------------------
(* Types are kept *)

LEMMA CreditsIs ==
  ASSUME TypesInv, NEW s \in Sellers
  PROVE  Credits(s) \in Nat
BY BookedIs, Bounds DEF Credits

LEMMA QuietTypes ==
  ASSUME TypesInv, NoWrite, now' \in 0..MaxTime,
         NEW c \in SellerCalls \cup AdminCalls, NEW call,
         errand' = [errand EXCEPT ![c] = call],
         call = Free \/ (c \in SellerCalls /\ call \in Creations)
           \/ (c \in AdminCalls /\ call \in Decisions /\ request[call.request] \in Rows)
  PROVE  TypesInv'
<1>1. /\ errand'[c] = call
      /\ \A d \in SellerCalls \cup AdminCalls : d # c => errand'[d] = errand[d]
      /\ call \in Errands \cup {Free} =>
           errand' \in [SellerCalls \cup AdminCalls -> Errands \cup {Free}]
  BY ErrandChanged
<1>2. call \in Errands \cup {Free}
  BY DEF Errands, Creations, Decisions
<1>3. WithdrawalsTypeOK'
  BY <1>1, <1>2 DEF TypesInv, WithdrawalsTypeOK, NoWrite
<1>4. \A d \in SellerCalls : errand'[d] \in Creations \cup {Free}
  BY <1>1, Bounds DEF TypesInv
<1>5. \A d \in AdminCalls :
        \/ errand'[d] = Free
        \/ errand'[d] \in Decisions /\ request'[errand'[d].request] \in Rows
  BY <1>1, Bounds DEF TypesInv, NoWrite
<1> QED
  BY <1>3, <1>4, <1>5 DEF TypesInv, NoWrite

LEMMA WritesTypes ==
  ASSUME TypesInv, NEW c \in SellerCalls \cup AdminCalls, NEW w \in Withdrawals,
         NEW row, NEW type, NEW e, Writes(c, w, row, type, e), now' = now,
         NEW event \in NoticeEvents, NEW action \in Actions,
         Notify(w, event), Record(w, action)
  PROVE  TypesInv'
<1>1. /\ RowsKept
      /\ request' \in [Withdrawals -> Rows \cup {Absent}]
      /\ request'[w] = row
  BY WritesRows
<1>2. /\ errand'[c] = Free
      /\ \A d \in SellerCalls \cup AdminCalls : d # c => errand'[d] = errand[d]
      /\ errand' \in [SellerCalls \cup AdminCalls -> Errands \cup {Free}]
  BY ErrandChanged DEF Writes
<1>3. notices' \in [Withdrawals -> [NoticeEvents -> Nat]]
  <2>1. notices \in [Withdrawals -> [NoticeEvents -> Nat]]
    BY DEF TypesInv, WithdrawalsTypeOK
  <2>2. notices[w][event] + 1 \in Nat
    BY <2>1
  <2>3. [notices[w] EXCEPT ![event] = @ + 1] \in [NoticeEvents -> Nat]
    BY <2>1, <2>2
  <2> QED
    BY <2>1, <2>3 DEF Notify
<1>4. trail' \in [Withdrawals -> Seq(Actions)]
  <2>1. trail \in [Withdrawals -> Seq(Actions)]
    BY DEF TypesInv, WithdrawalsTypeOK
  <2>2. Append(trail[w], action) \in Seq(Actions)
    BY <2>1
  <2> QED
    BY <2>1, <2>2 DEF Record
<1>5. WithdrawalsTypeOK'
  BY <1>1, <1>2, <1>3, <1>4 DEF Writes, WithdrawalsTypeOK
<1>6. \A d \in SellerCalls : errand'[d] \in Creations \cup {Free}
  BY <1>2 DEF TypesInv
<1>7. \A d \in AdminCalls :
        \/ errand'[d] = Free
        \/ errand'[d] \in Decisions /\ request'[errand'[d].request] \in Rows
  BY <1>1, <1>2 DEF TypesInv, RowsKept, Decisions
<1>8. \A f \in ledger' : request'[f.request] \in Rows
  BY <1>1 DEF TypesInv, RowsKept, Writes, Entry
<1>9. IsFiniteSet(ledger') /\ ledger' \subseteq Entry
  BY FS_AddElement DEF TypesInv, Writes
<1> QED
  BY <1>5, <1>6, <1>7, <1>8, <1>9 DEF TypesInv

LEMMA InitTypes == WithdrawalsInit => TypesInv
<1> SUFFICES ASSUME WithdrawalsInit PROVE TypesInv
  OBVIOUS
<1>1. IsFiniteSet(ledger)
  BY FS_EmptySet DEF WithdrawalsInit
<1>2. trail \in [Withdrawals -> Seq(Actions)]
  BY DEF WithdrawalsInit
<1> QED
  BY <1>1, <1>2, Bounds
  DEF WithdrawalsInit, TypesInv, WithdrawalsTypeOK

\* The steps of calls that do not write.
LEMMA CreateReadIs ==
  ASSUME TypesInv, NEW c \in SellerCalls, NEW s \in Sellers, NEW amount \in Sums,
         CreateRead(c, s, amount)
  PROVE  /\ errand[c] = Free
         /\ \E call \in Creations :
              /\ call.op = "sum" /\ call.seller = s /\ call.amount = amount
              /\ call.credits = Credits(s)
              /\ errand' = [errand EXCEPT ![c] = call]
<1>1. PICK k \in Nat : k = Credits(s)
  BY CreditsIs
<1>2. PICK call : call = [op |-> "sum", seller |-> s, amount |-> amount, since |-> now,
                          credits |-> k]
  OBVIOUS
<1>3. call \in Creations
  BY <1>2 DEF Creations, TypesInv
<1> QED
  BY <1>1, <1>2, <1>3 DEF CreateRead, Begin

LEMMA CreateCheckIs ==
  ASSUME TypesInv, NEW c \in SellerCalls, CreateCheck(c)
  PROVE  /\ errand[c] # Free /\ errand[c].op = "sum"
         /\ errand[c].credits - Debits(errand[c].seller) >= errand[c].amount
         /\ \E call \in Creations :
              /\ call.op = "create" /\ call.seller = errand[c].seller
              /\ call.amount = errand[c].amount
              /\ errand' = [errand EXCEPT ![c] = call]
<1>1. errand[c] # Free /\ errand[c].op = "sum"
      /\ errand[c].credits - Debits(errand[c].seller) >= errand[c].amount
  BY DEF CreateCheck, Free
<1>2. errand[c].seller \in Sellers /\ errand[c].amount \in Sums /\ errand[c].since \in 0..MaxTime
  BY <1>1, CreationIs
<1>3. PICK call : call = [op |-> "create", seller |-> errand[c].seller,
                          amount |-> errand[c].amount, since |-> errand[c].since]
  OBVIOUS
<1>4. call \in Creations
  BY <1>2, <1>3 DEF Creations
<1> QED
  BY <1>1, <1>3, <1>4 DEF CreateCheck, Proceed

LEMMA DecisionReadIs ==
  ASSUME TypesInv, NEW c \in AdminCalls, NEW w \in Withdrawals,
         NEW op \in {"approve", "reject"}, DecisionRead(c, op, w)
  PROVE  \E call \in Decisions :
           /\ call.request = w /\ request[w] \in Rows
           /\ request[w].status = "pending_admin_review"
           /\ errand' = [errand EXCEPT ![c] = call]
<1>1. PICK call : call = [op |-> op, request |-> w, since |-> now]
  OBVIOUS
<1>2. call \in Decisions
  BY <1>1 DEF Decisions, TypesInv
<1>3. request[w] \in Rows
  BY FreeIs DEF DecisionRead, Decidable, TypesInv, WithdrawalsTypeOK
<1> QED
  BY <1>1, <1>2, <1>3 DEF DecisionRead, Decidable, Begin

LEMMA StepTypes == TypesInv /\ [WithdrawalsNext]_withdrawalVars => TypesInv'
<1> SUFFICES ASSUME TypesInv, [WithdrawalsNext]_withdrawalVars PROVE TypesInv'
  OBVIOUS
<1>0. now \in 0..MaxTime
  BY DEF TypesInv
<1>1. ASSUME NEW c \in SellerCalls, NEW s \in Sellers, NEW amount \in Sums,
             CreateRead(c, s, amount)
      PROVE  TypesInv'
  <2>1. PICK call \in Creations : errand' = [errand EXCEPT ![c] = call]
    BY <1>1, CreateReadIs
  <2>2. NoWrite /\ now' = now
    BY <1>1 DEF CreateRead, NoWrite
  <2> QED
    BY <1>0, <2>1, <2>2, QuietTypes
<1>2. ASSUME NEW c \in SellerCalls, CreateCheck(c)
      PROVE  TypesInv'
  <2>1. PICK call \in Creations : errand' = [errand EXCEPT ![c] = call]
    BY <1>2, CreateCheckIs
  <2>2. NoWrite /\ now' = now
    BY <1>2 DEF CreateCheck, NoWrite
  <2> QED
    BY <1>0, <2>1, <2>2, QuietTypes
<1>3. ASSUME NEW c \in SellerCalls, NEW w \in Withdrawals, CreateWrite(c, w)
      PROVE  TypesInv'
  <2>1. PICK row, e : Writes(c, w, row, "SELLER_PAYOUT_PENDING", e)
    BY <1>3, CreateWriteIs
  <2>2. Notify(w, "WITHDRAWAL_REQUESTED") /\ Record(w, "WITHDRAWAL_HOLD") /\ now' = now
    BY <1>3 DEF CreateWrite
  <2>3. "WITHDRAWAL_REQUESTED" \in NoticeEvents /\ "WITHDRAWAL_HOLD" \in Actions
    BY DEF NoticeEvents, Actions
  <2> QED
    BY <2>1, <2>2, <2>3, WritesTypes
<1>4. ASSUME NEW c \in AdminCalls, NEW w \in Withdrawals, NEW op \in {"approve", "reject"},
             DecisionRead(c, op, w)
      PROVE  TypesInv'
  <2>1. PICK call \in Decisions : /\ call.request = w /\ request[w] \in Rows
                                  /\ errand' = [errand EXCEPT ![c] = call]
    BY <1>4, DecisionReadIs
  <2>2. NoWrite /\ now' = now
    BY <1>4 DEF DecisionRead, NoWrite
  <2> QED
    BY <1>0, <2>1, <2>2, QuietTypes
<1>5. ASSUME NEW c \in AdminCalls, ApprovePayout(c)
      PROVE  TypesInv'
  <2>1. PICK w \in Withdrawals : w = errand[c].request
    BY <1>5, ApproveIs, DecidesIs DEF EntryTypes
  <2>2. PICK row, e : Writes(c, w, row, "SELLER_PAYOUT_SENT", e)
    BY <1>5, <2>1, ApproveIs, DecidesIs DEF EntryTypes
  <2>3. Notify(w, "WITHDRAWAL_PAID") /\ Record(w, "WITHDRAWAL_PAYOUT") /\ now' = now
    BY <1>5, <2>1 DEF ApprovePayout
  <2>4. "WITHDRAWAL_PAID" \in NoticeEvents /\ "WITHDRAWAL_PAYOUT" \in Actions
    BY DEF NoticeEvents, Actions
  <2> QED
    BY <2>2, <2>3, <2>4, WritesTypes
<1>6. ASSUME NEW c \in AdminCalls, RejectPayout(c)
      PROVE  TypesInv'
  <2>1. PICK w \in Withdrawals : w = errand[c].request
    BY <1>6, RejectIs, DecidesIs DEF EntryTypes
  <2>2. PICK row, e : Writes(c, w, row, "ADJUSTMENT", e)
    BY <1>6, <2>1, RejectIs, DecidesIs DEF EntryTypes
  <2>3. Notify(w, "WITHDRAWAL_REJECTED") /\ Record(w, "WITHDRAWAL_REJECTED") /\ now' = now
    BY <1>6, <2>1 DEF RejectPayout
  <2>4. "WITHDRAWAL_REJECTED" \in NoticeEvents /\ "WITHDRAWAL_REJECTED" \in Actions
    BY DEF NoticeEvents, Actions
  <2> QED
    BY <2>2, <2>3, <2>4, WritesTypes
<1>7. ASSUME NEW c \in SellerCalls \cup AdminCalls, RollBack(c)
      PROVE  TypesInv'
  <2>1. NoWrite /\ now' = now /\ errand' = [errand EXCEPT ![c] = Free]
    BY <1>7 DEF RollBack, End, NoWrite
  <2> QED
    BY <1>0, <2>1, QuietTypes
<1>8. ASSUME NoWrite, errand' = errand, now' \in 0..MaxTime
      PROVE  TypesInv'
  BY <1>8 DEF NoWrite, TypesInv, WithdrawalsTypeOK
<1>9. ASSUME NEW s \in Sellers, OpenLedger(s)
      PROVE  TypesInv'
  BY <1>0, <1>8, <1>9 DEF OpenLedger, NoWrite
<1>10. CASE NextPage
  BY <1>0, <1>8, <1>10 DEF NextPage, NoWrite
<1>11. CASE CloseLedger
  BY <1>0, <1>8, <1>11 DEF CloseLedger, NoWrite
<1>12. CASE Tick
  <2>1. now' \in 0..MaxTime
    BY <1>0, <1>12, Bounds DEF Tick
  <2> QED
    BY <1>8, <1>12, <2>1 DEF Tick, NoWrite
<1>13. CASE UNCHANGED withdrawalVars
  BY <1>0, <1>8, <1>13 DEF withdrawalVars, NoWrite
<1> QED
  BY <1>1, <1>2, <1>3, <1>4, <1>5, <1>6, <1>7, <1>9, <1>10, <1>11, <1>12, <1>13
  DEF WithdrawalsNext
-----------------------------------------------------------------------------
(* Holds *)

\* What a seller has asked for.
Held(s) == Booked(s, {"SELLER_PAYOUT_PENDING"})

\* What a call will add to that: its check is behind it.
Pledge(call, s) ==
  IF call # Free /\ call.op = "create" /\ call.seller = s THEN call.amount ELSE 0

Pledges(s) == [c \in SellerCalls |-> Pledge(errand[c], s)]

Pledged(s) == SumFunction(Pledges(s))

\* No call is for more than the wallet was given, which only grows.
CallFits(call) ==
  /\ call.op = "sum" => call.credits <= Credits(call.seller)
  /\ call.op = "create" => call.amount <= Credits(call.seller)

\* Each slot may use up the whole wallet once: what is held already was found
\* by every check still to come, so that such a check leaves room for it in the
\* share of its own slot.
HoldsInv ==
  /\ \A s \in Sellers :
       /\ Held(s) <= Debits(s)
       /\ Held(s) + Pledged(s) <= Credits(s) * Cardinality(SellerCalls)
  /\ \A c \in SellerCalls : errand[c] # Free => CallFits(errand[c])

LEMMA SumsTyped ==
  ASSUME TypesInv, NEW s \in Sellers
  PROVE  Held(s) \in Nat /\ Credits(s) \in Nat /\ Debits(s) \in Nat
BY BookedIs, CreditsIs DEF Held, Debits

\* What a write does to the sums.
SumsMove(row, type) ==
  \A s \in Sellers :
    /\ row.seller # s => /\ Held(s)' = Held(s) /\ Credits(s)' = Credits(s)
                         /\ Debits(s)' = Debits(s)
    /\ row.seller = s =>
         /\ Held(s)' = Held(s) + (IF type = "SELLER_PAYOUT_PENDING" THEN row.amount ELSE 0)
         /\ Credits(s)' = Credits(s) + (IF type = "ADJUSTMENT" THEN row.amount ELSE 0)
         /\ Debits(s)' = Debits(s) + (IF type = "ADJUSTMENT" THEN 0 ELSE row.amount)

LEMMA WritesSums ==
  ASSUME TypesInv, TypesInv', NEW c, NEW w \in Withdrawals, NEW row,
         NEW type \in EntryTypes, NEW e, Writes(c, w, row, type, e)
  PROVE  SumsMove(row, type)
<1>0. row.amount \in Nat
  BY Bounds DEF Writes, Rows
<1>1. ASSUME NEW CONSTANT s \in Sellers
      PROVE  /\ row.seller # s => /\ Held(s)' = Held(s) /\ Credits(s)' = Credits(s)
                                  /\ Debits(s)' = Debits(s)
             /\ row.seller = s =>
                  /\ Held(s)' = Held(s) + (IF type = "SELLER_PAYOUT_PENDING" THEN row.amount ELSE 0)
                  /\ Credits(s)' = Credits(s) + (IF type = "ADJUSTMENT" THEN row.amount ELSE 0)
                  /\ Debits(s)' = Debits(s) + (IF type = "ADJUSTMENT" THEN 0 ELSE row.amount)
  <2> DEFINE P == {"SELLER_PAYOUT_PENDING"}
             A == {"ADJUSTMENT"}
             D == EntryTypes \ {"ADJUSTMENT"}
  <2>1. P \in SUBSET EntryTypes /\ A \in SUBSET EntryTypes /\ D \in SUBSET EntryTypes
    BY DEF EntryTypes
  <2>2. /\ Booked(s, P) \in Nat /\ Booked(s, A) \in Nat /\ Booked(s, D) \in Nat
        /\ Funds[s] \in Nat
    BY BookedIs, Bounds
  <2>3. Held(s)' = Held(s) + Added(s, P, row, type)
    BY <2>1, BookedGrows DEF Held
  <2>4. Booked(s, A)' = Booked(s, A) + Added(s, A, row, type)
    BY <2>1, BookedGrows
  <2>5. Debits(s)' = Debits(s) + Added(s, D, row, type)
    BY <2>1, BookedGrows DEF Debits
  <2>6. Added(s, A, row, type) \in Nat
    BY <1>0 DEF Added
  <2>7. Credits(s)' = Credits(s) + Added(s, A, row, type)
    BY <2>2, <2>4, <2>6 DEF Credits
  <2>8. Held(s) \in Nat /\ Credits(s) \in Nat /\ Debits(s) \in Nat
    BY SumsTyped
  <2> QED
    BY <1>0, <2>3, <2>5, <2>7, <2>8 DEF Added
<1> QED
  BY <1>1 DEF SumsMove

LEMMA SumsStay ==
  ASSUME NoWrite
  PROVE  \A s \in Sellers :
           Held(s)' = Held(s) /\ Credits(s)' = Credits(s) /\ Debits(s)' = Debits(s)
<1>1. ASSUME NEW CONSTANT s \in Sellers
      PROVE  Held(s)' = Held(s) /\ Credits(s)' = Credits(s) /\ Debits(s)' = Debits(s)
  <2>1. Held(s)' = Held(s)
    BY BookedStays DEF Held
  <2>2. Debits(s)' = Debits(s)
    BY BookedStays DEF Debits
  <2>3. Booked(s, {"ADJUSTMENT"})' = Booked(s, {"ADJUSTMENT"})
    BY BookedStays
  <2> QED
    BY <2>1, <2>2, <2>3 DEF Credits
<1> QED
  BY <1>1

\* A call of a seller's slot pledges its amount at most.
LEMMA PledgesAre ==
  TypesInv => \A s \in Sellers :
    /\ Pledges(s) \in [SellerCalls -> Nat] /\ Pledged(s) \in Nat
    /\ HoldsInv => Pledges(s) \in [SellerCalls -> 0..Credits(s)]
<1> SUFFICES ASSUME TypesInv, NEW s \in Sellers
             PROVE  /\ Pledges(s) \in [SellerCalls -> Nat] /\ Pledged(s) \in Nat
                    /\ HoldsInv => Pledges(s) \in [SellerCalls -> 0..Credits(s)]
  OBVIOUS
<1>1. \A c \in SellerCalls : Pledge(errand[c], s) \in Nat
  BY CreationIs, Bounds DEF Pledge
<1>2. Pledges(s) \in [SellerCalls -> Nat]
  BY <1>1 DEF Pledges
<1>3. Pledged(s) \in Nat
  BY <1>2, Bounds, SumIsNat DEF Pledged
<1>4. ASSUME HoldsInv PROVE Pledges(s) \in [SellerCalls -> 0..Credits(s)]
  <2>1. Credits(s) \in Nat
    BY SumsTyped
  <2>2. \A c \in SellerCalls : Pledge(errand[c], s) <= Credits(s)
    BY <1>4, <2>1 DEF Pledge, HoldsInv, CallFits
  <2>3. \A c \in SellerCalls : Pledge(errand[c], s) \in 0..Credits(s)
    BY <1>1, <2>1, <2>2
  <2> QED
    BY <2>3 DEF Pledges
<1> QED
  BY <1>2, <1>3, <1>4

PledgesTyped == \A s \in Sellers : Pledges(s) \in [SellerCalls -> Nat]

LEMMA PledgesAreTyped == TypesInv => PledgesTyped
BY PledgesAre DEF PledgesTyped

\* A step that changes one slot moves the pledges by that slot's.
LEMMA PledgesMove ==
  ASSUME TypesInv, TypesInv', NEW c \in SellerCalls, NEW call,
         errand' = [errand EXCEPT ![c] = call], NEW CONSTANT s \in Sellers
  PROVE  /\ Pledge(call, s) \in Nat /\ Pledge(errand[c], s) \in Nat
         /\ Pledged(s)' = Pledged(s) + (Pledge(call, s) - Pledge(errand[c], s))
<1> DEFINE f == Pledges(s)
           h == Pledges(s)'
<1>1. PledgesTyped /\ PledgesTyped'
  BY PledgesAreTyped, PTL
<1>3. f \in [SellerCalls -> Nat] /\ h \in [SellerCalls -> Nat]
  BY <1>1 DEF PledgesTyped
<1>4. /\ errand'[c] = call
      /\ \A d \in SellerCalls : d # c => errand'[d] = errand[d]
  BY ErrandChanged
<1>5. h[c] = Pledge(call, s) /\ f[c] = Pledge(errand[c], s)
  BY <1>4 DEF Pledges, Pledge
<1>6. \A d \in SellerCalls : d # c => h[d] = f[d]
  BY <1>4 DEF Pledges, Pledge
<1>7. Pledged(s) = SumFunction(f) /\ Pledged(s)' = SumFunction(h)
  BY DEF Pledged
<1>8. IsFiniteSet(SellerCalls)
  BY Bounds
<1> HIDE DEF f, h
<1>9. f \in [SellerCalls -> Int] /\ h \in [SellerCalls -> Int]
  BY <1>3
<1>10. SumFunction(h) = SumFunction(f) + (h[c] - f[c])
  BY <1>6, <1>8, <1>9, SumUpdate
<1>11. h[c] \in Nat /\ f[c] \in Nat
  BY <1>3
<1> QED
  BY <1>5, <1>7, <1>10, <1>11

LEMMA PledgesStay ==
  ASSUME \A d \in SellerCalls : errand'[d] = errand[d], NEW CONSTANT s \in Sellers
  PROVE  Pledged(s)' = Pledged(s)
BY DEF Pledged, Pledges, Pledge

\* A check leaves room for what it pledges in the share of its own slot.
LEMMA CheckFits ==
  ASSUME TypesInv, HoldsInv, NEW c \in SellerCalls, NEW s \in Sellers, NEW amount \in Nat,
         Held(s) + amount <= Credits(s), Pledge(errand[c], s) = 0
  PROVE  Held(s) + (Pledged(s) + amount) <= Credits(s) * Cardinality(SellerCalls)
<1> DEFINE f == Pledges(s)
           h == [f EXCEPT ![c] = Held(s) + amount]
           k == Credits(s)
<1>1. k \in Nat /\ Held(s) \in Nat
  BY SumsTyped
<1>2. f \in [SellerCalls -> 0..k] /\ Pledged(s) = SumFunction(f) /\ f[c] = 0
  BY PledgesAre DEF Pledged, Pledges
<1>3. IsFiniteSet(SellerCalls) /\ Held(s) + amount \in 0..k
  BY <1>1, Bounds
<1> HIDE DEF f, k
<1>4. /\ h \in [SellerCalls -> 0..k] /\ h[c] = Held(s) + amount
      /\ \A d \in SellerCalls : d # c => h[d] = f[d]
  BY <1>2, <1>3
<1> HIDE DEF h
<1>5. f \in [SellerCalls -> Int] /\ h \in [SellerCalls -> Int]
  BY <1>1, <1>2, <1>4
<1>6. SumFunction(f) \in Int /\ SumFunction(h) = SumFunction(f) + (h[c] - f[c])
  BY <1>3, <1>4, <1>5, SumUpdate
<1>7. SumFunction(h) \in 0..k * Cardinality(SellerCalls)
  BY <1>1, <1>3, <1>4, SumWithin
<1>8. SumFunction(h) <= k * Cardinality(SellerCalls)
  <2>1. Cardinality(SellerCalls) \in Nat
    BY <1>3, FS_CardinalityType
  <2> QED
    BY <1>1, <1>7, <2>1
<1>9. Held(s) + (Pledged(s) + amount) = SumFunction(h)
  BY <1>1, <1>2, <1>4, <1>6
<1> QED
  BY <1>8, <1>9 DEF k

\* A larger wallet has room for as much.
LEMMA RoomGrows ==
  ASSUME NEW k \in Nat, NEW a \in Nat, NEW n \in Nat
  PROVE  k * n \in Nat /\ (k + a) * n \in Nat /\ k * n <= (k + a) * n
OBVIOUS

LEMMA InitHolds == WithdrawalsInit => HoldsInv
<1> SUFFICES ASSUME WithdrawalsInit PROVE HoldsInv
  OBVIOUS
<1>1. ASSUME NEW s \in Sellers, NEW types
      PROVE  Booked(s, types) = 0
  <2>1. Summands(s, types) = [x \in {} |-> 0] /\ Booked(s, types) = SumFunction(Summands(s, types))
    BY DEF WithdrawalsInit, Booked, Summands, Counted, EntriesOf
  <2>2. SumFunction([x \in {} |-> 0]) = 0
    BY FS_EmptySet, SumOfZeros
  <2> QED
    BY <2>1, <2>2
<1>2. \A s \in Sellers : Held(s) = 0 /\ Debits(s) = 0 /\ Credits(s) \in Nat
  BY <1>1, InitTypes, SumsTyped DEF Held, Debits
<1>3. \A c \in SellerCalls : errand[c] = Free
  BY DEF WithdrawalsInit
<1>4. ASSUME NEW s \in Sellers
      PROVE  Pledged(s) = 0
  <2>1. Pledges(s) = [c \in SellerCalls |-> 0]
    BY <1>3 DEF Pledges, Pledge
  <2>2. SumFunction([c \in SellerCalls |-> 0]) = 0
    BY Bounds, SumOfZeros
  <2> QED
    BY <2>1, <2>2 DEF Pledged
<1>5. Cardinality(SellerCalls) \in Nat
  BY Bounds, FS_CardinalityType
<1>6. \A s \in Sellers : 0 <= Credits(s) * Cardinality(SellerCalls)
  BY <1>2, <1>5, RoomGrows
<1> QED
  BY <1>2, <1>3, <1>4, <1>6 DEF HoldsInv

\* Calls that fit go on fitting while credits grow.
LEMMA FitsKept ==
  ASSUME TypesInv, HoldsInv, NEW d \in SellerCalls, errand[d] # Free, errand'[d] = errand[d],
         \A s \in Sellers : Credits(s) \in Nat /\ Credits(s)' \in Nat
                            /\ Credits(s) <= Credits(s)'
  PROVE  CallFits(errand[d])'
<1>1. /\ CallFits(errand[d]) /\ errand[d].seller \in Sellers
      /\ errand[d].amount \in Nat
      /\ errand[d].op = "sum" => errand[d].credits \in Nat
  BY CreationIs, Bounds DEF HoldsInv
<1> QED
  BY <1>1 DEF CallFits

\* Nothing is written, and one slot changes.
LEMMA QuietHolds ==
  ASSUME TypesInv, TypesInv', HoldsInv, NoWrite,
         NEW c \in SellerCalls \cup AdminCalls, NEW call,
         errand' = [errand EXCEPT ![c] = call],
         \/ c \in AdminCalls
         \/ call = Free
         \/ /\ call \in Creations /\ CallFits(call)
            /\ call.op = "create" =>
                 /\ Pledge(errand[c], call.seller) = 0
                 /\ Held(call.seller) + call.amount <= Credits(call.seller)
  PROVE  HoldsInv'
<1>1. /\ errand'[c] = call
      /\ \A d \in SellerCalls \cup AdminCalls : d # c => errand'[d] = errand[d]
  BY ErrandChanged
<1>2. \A s \in Sellers :
        Held(s)' = Held(s) /\ Credits(s)' = Credits(s) /\ Debits(s)' = Debits(s)
  BY SumsStay
<1>3. \A s \in Sellers : Held(s) \in Nat /\ Credits(s) \in Nat /\ Debits(s) \in Nat
  BY SumsTyped
<1>4. ASSUME NEW CONSTANT s \in Sellers
      PROVE  Held(s) + Pledged(s)' <= Credits(s) * Cardinality(SellerCalls)
  <2>1. Held(s) + Pledged(s) <= Credits(s) * Cardinality(SellerCalls)
    BY DEF HoldsInv
  <2>2. CASE c \in AdminCalls
    <3>1. \A d \in SellerCalls : errand'[d] = errand[d]
      BY <1>1, <2>2, Bounds
    <3>2. Pledged(s)' = Pledged(s)
      BY <3>1, PledgesStay
    <3> QED
      BY <2>1, <3>2
  <2>3. CASE c \in SellerCalls
    <3>1. /\ Pledge(call, s) \in Nat /\ Pledge(errand[c], s) \in Nat
          /\ Pledged(s)' = Pledged(s) + (Pledge(call, s) - Pledge(errand[c], s))
      BY <2>3, PledgesMove
    <3>2. Pledged(s) \in Nat
      BY PledgesAre
    <3>3. Credits(s) * Cardinality(SellerCalls) \in Nat
      <4>1. Cardinality(SellerCalls) \in Nat
        BY Bounds, FS_CardinalityType
      <4> QED
        BY <1>3, <4>1, RoomGrows
    <3>4. CASE Pledge(call, s) = 0
      BY <1>3, <2>1, <3>1, <3>2, <3>3, <3>4
    <3>5. CASE Pledge(call, s) # 0
      <4>1. call # Free /\ call.op = "create" /\ call.seller = s /\ Pledge(call, s) = call.amount
        BY <3>5 DEF Pledge
      <4>2. Pledge(errand[c], s) = 0 /\ Held(s) + Pledge(call, s) <= Credits(s)
        BY <2>3, <4>1, Bounds
      <4>3. PICK amount \in Nat : amount = Pledge(call, s)
        BY <3>1
      <4>4. Held(s) + amount <= Credits(s)
        BY <4>2, <4>3
      <4>5. Held(s) + (Pledged(s) + amount) <= Credits(s) * Cardinality(SellerCalls)
        BY <2>3, <4>2, <4>4, CheckFits
      <4>6. Pledged(s)' = Pledged(s) + amount
        BY <3>1, <3>2, <4>2, <4>3
      <4> QED
        BY <4>5, <4>6
    <3> QED
      BY <3>4, <3>5
  <2> QED
    BY <2>2, <2>3
<1>5. \A s \in Sellers : (/\ Held(s) <= Debits(s)
                          /\ Held(s) + Pledged(s) <= Credits(s) * Cardinality(SellerCalls))'
  <2>1. ASSUME NEW CONSTANT s \in Sellers
        PROVE  (/\ Held(s) <= Debits(s)
                /\ Held(s) + Pledged(s) <= Credits(s) * Cardinality(SellerCalls))'
    BY <1>2, <1>4 DEF HoldsInv
  <2> QED
    BY <2>1
<1>6. ASSUME NEW d \in SellerCalls, errand'[d] # Free
      PROVE  CallFits(errand[d])'
  <2>1. CASE d = c
    <3>1. c \notin AdminCalls /\ errand'[d] = call
      BY <1>1, <2>1, Bounds
    <3>2. call \in Creations /\ CallFits(call)
      BY <1>6, <3>1
    <3>3. call.seller \in Sellers
      BY <3>2 DEF Creations
    <3> QED
      BY <1>2, <3>1, <3>2, <3>3 DEF CallFits
  <2>2. CASE d # c
    <3>1. errand'[d] = errand[d]
      BY <1>1, <2>2
    <3>2. \A s \in Sellers : Credits(s) \in Nat /\ Credits(s)' \in Nat /\ Credits(s) <= Credits(s)'
      BY <1>2, <1>3
    <3> QED
      BY <1>6, <3>1, <3>2, FitsKept
  <2> QED
    BY <2>1, <2>2
<1> QED
  BY <1>5, <1>6 DEF HoldsInv

\* Decisions add credits, or debits that are no holds.
LEMMA DecisionHolds ==
  ASSUME TypesInv, TypesInv', HoldsInv, NEW c \in AdminCalls, NEW w \in Withdrawals, NEW row,
         NEW type \in {"SELLER_PAYOUT_SENT", "ADJUSTMENT"}, NEW e, Writes(c, w, row, type, e)
  PROVE  HoldsInv'
<1>1. \A d \in SellerCalls : errand'[d] = errand[d]
  BY ErrandChanged, Bounds DEF Writes
<1>2. row.amount \in Nat
  BY Bounds DEF Writes, Rows
<1>3. ASSUME NEW CONSTANT s \in Sellers
      PROVE  /\ Held(s) \in Nat /\ Credits(s) \in Nat /\ Debits(s) \in Nat
             /\ Held(s)' = Held(s)
             /\ Credits(s)' \in Nat /\ Credits(s) <= Credits(s)'
             /\ Debits(s)' \in Nat /\ Debits(s)' >= Debits(s)
  <2>1. type \in EntryTypes /\ type # "SELLER_PAYOUT_PENDING"
    BY DEF EntryTypes
  <2>2. SumsMove(row, type)
    BY <2>1, WritesSums
  <2>3. Held(s) \in Nat /\ Credits(s) \in Nat /\ Debits(s) \in Nat
    BY SumsTyped
  <2> QED
    BY <1>2, <2>1, <2>2, <2>3 DEF SumsMove
<1>4. ASSUME NEW CONSTANT s \in Sellers
      PROVE  (/\ Held(s) <= Debits(s)
              /\ Held(s) + Pledged(s) <= Credits(s) * Cardinality(SellerCalls))'
  <2>1. Pledged(s)' = Pledged(s) /\ Pledged(s) \in Nat
    BY <1>1, PledgesStay, PledgesAre
  <2>2. Cardinality(SellerCalls) \in Nat
    BY Bounds, FS_CardinalityType
  <2>3. PICK a \in Nat : Credits(s)' = Credits(s) + a
    <3>1. Credits(s)' - Credits(s) \in Nat /\ Credits(s)' = Credits(s) + (Credits(s)' - Credits(s))
      BY <1>3
    <3> QED
      BY <3>1
  <2>4. /\ Credits(s) * Cardinality(SellerCalls) \in Nat
        /\ Credits(s)' * Cardinality(SellerCalls) \in Nat
        /\ Credits(s) * Cardinality(SellerCalls) <= Credits(s)' * Cardinality(SellerCalls)
    BY <1>3, <2>2, <2>3, RoomGrows
  <2>5. Held(s) <= Debits(s) /\ Held(s) + Pledged(s) <= Credits(s) * Cardinality(SellerCalls)
    BY DEF HoldsInv
  <2> QED
    BY <1>3, <2>1, <2>4, <2>5
<1>5. ASSUME NEW d \in SellerCalls, errand'[d] # Free
      PROVE  CallFits(errand[d])'
  BY <1>1, <1>3, <1>5, FitsKept
<1> QED
  BY <1>4, <1>5 DEF HoldsInv

\* A creation turns what it pledged into a hold.
LEMMA CreationHolds ==
  ASSUME TypesInv, TypesInv', HoldsInv,
         NEW c \in SellerCalls, NEW w \in Withdrawals, NEW row, NEW e,
         Writes(c, w, row, "SELLER_PAYOUT_PENDING", e), errand[c] # Free,
         errand[c].op = "create",
         row.seller = errand[c].seller, row.amount = errand[c].amount
  PROVE  HoldsInv'
<1>1. /\ errand'[c] = Free
      /\ \A d \in SellerCalls \cup AdminCalls : d # c => errand'[d] = errand[d]
  BY ErrandChanged DEF Writes
<1>2. row.amount \in Nat /\ row.seller \in Sellers
  BY Bounds DEF Writes, Rows
<1>3. \A s \in Sellers : Held(s) \in Nat /\ Credits(s) \in Nat /\ Debits(s) \in Nat
  BY SumsTyped
<1>4. \A s \in Sellers :
        /\ row.seller # s => /\ Held(s)' = Held(s) /\ Credits(s)' = Credits(s)
                             /\ Debits(s)' = Debits(s)
        /\ row.seller = s => /\ Held(s)' = Held(s) + row.amount
                             /\ Credits(s)' = Credits(s)
                             /\ Debits(s)' = Debits(s) + row.amount
  <2>1. PICK type \in EntryTypes : type = "SELLER_PAYOUT_PENDING"
    BY DEF EntryTypes
  <2>2. Writes(c, w, row, type, e)
    BY <2>1
  <2>3. SumsMove(row, type)
    BY <2>2, WritesSums
  <2>4. ASSUME NEW s \in Sellers, row.seller = s
        PROVE  /\ Held(s)' = Held(s) + row.amount
               /\ Credits(s)' = Credits(s)
               /\ Debits(s)' = Debits(s) + row.amount
    <3>1. Credits(s) \in Nat
      BY <1>3
    <3>2. type # "ADJUSTMENT"
      BY <2>1
    <3> QED
      BY <2>1, <2>3, <2>4, <3>1, <3>2 DEF SumsMove
  <2> QED
    BY <2>3, <2>4 DEF SumsMove
<1>5. ASSUME NEW CONSTANT s \in Sellers
      PROVE  (/\ Held(s) <= Debits(s)
              /\ Held(s) + Pledged(s) <= Credits(s) * Cardinality(SellerCalls))'
  <2>1. Held(s) <= Debits(s) /\ Held(s) + Pledged(s) <= Credits(s) * Cardinality(SellerCalls)
    BY DEF HoldsInv
  <2>2. errand' = [errand EXCEPT ![c] = Free]
    BY DEF Writes
  <2>3. /\ Pledge(errand[c], s) \in Nat /\ Pledge(Free, s) \in Nat
        /\ Pledged(s)' = Pledged(s) + (Pledge(Free, s) - Pledge(errand[c], s))
    BY <2>2, PledgesMove
  <2>4. Pledge(Free, s) = 0
    BY DEF Pledge
  <2>5. Pledge(errand[c], s) = IF row.seller = s THEN row.amount ELSE 0
    BY DEF Pledge
  <2>6. Pledged(s) \in Nat
    BY PledgesAre
  <2>7. Held(s)' + Pledged(s)' = Held(s) + Pledged(s)
    BY <1>2, <1>3, <1>4, <2>3, <2>4, <2>5, <2>6
  <2>8. Credits(s)' = Credits(s) /\ Held(s)' <= Debits(s)'
    BY <1>2, <1>3, <1>4, <2>1
  <2> QED
    BY <2>1, <2>7, <2>8
<1>6. ASSUME NEW d \in SellerCalls, errand'[d] # Free
      PROVE  CallFits(errand[d])'
  <2>1. errand'[d] = errand[d]
    BY <1>1, <1>6
  <2>2. \A s \in Sellers : Credits(s) \in Nat /\ Credits(s)' \in Nat /\ Credits(s) <= Credits(s)'
    BY <1>3, <1>4
  <2> QED
    BY <1>6, <2>1, <2>2, FitsKept
<1> QED
  BY <1>5, <1>6 DEF HoldsInv

LEMMA StepHolds ==
  TypesInv /\ TypesInv' /\ HoldsInv
    /\ [WithdrawalsNext]_withdrawalVars => HoldsInv'
<1> SUFFICES ASSUME TypesInv, TypesInv', HoldsInv,
                    [WithdrawalsNext]_withdrawalVars
             PROVE  HoldsInv'
  OBVIOUS
<1>1. ASSUME NEW c \in SellerCalls, NEW s \in Sellers, NEW amount \in Sums,
             CreateRead(c, s, amount)
      PROVE  HoldsInv'
  <2>1. PICK call \in Creations : /\ call.op = "sum" /\ call.seller = s
                                  /\ call.credits = Credits(s)
                                  /\ errand' = [errand EXCEPT ![c] = call]
    BY <1>1, CreateReadIs
  <2>2. CallFits(call)
    BY <2>1, CreditsIs DEF CallFits
  <2>3. NoWrite
    BY <1>1 DEF CreateRead, NoWrite
  <2> QED
    BY <2>1, <2>2, <2>3, QuietHolds
<1>2. ASSUME NEW c \in SellerCalls, CreateCheck(c)
      PROVE  HoldsInv'
  <2>1. PICK call \in Creations : /\ call.op = "create" /\ call.seller = errand[c].seller
                                  /\ call.amount = errand[c].amount
                                  /\ errand' = [errand EXCEPT ![c] = call]
    BY <1>2, CreateCheckIs
  <2>2. PICK s \in Sellers : s = errand[c].seller
    BY <1>2, CreateCheckIs, CreationIs
  <2>3. errand[c] # Free /\ errand[c].op = "sum"
        /\ errand[c].credits - Debits(s) >= errand[c].amount
    BY <1>2, <2>2, CreateCheckIs
  <2>4. errand[c].credits \in Nat /\ errand[c].amount \in Nat
    BY <2>3, CreationIs, Bounds
  <2>5. errand[c].credits <= Credits(s) /\ Held(s) <= Debits(s)
    BY <2>2, <2>3 DEF HoldsInv, CallFits
  <2>6. Held(s) + errand[c].amount <= Credits(s)
    BY <2>3, <2>4, <2>5, SumsTyped
  <2>7. CallFits(call)
    BY <2>1, <2>2, <2>4, <2>6, SumsTyped DEF CallFits
  <2>8. Pledge(errand[c], call.seller) = 0
        /\ Held(call.seller) + call.amount <= Credits(call.seller)
    BY <2>1, <2>2, <2>3, <2>6 DEF Pledge
  <2>9. NoWrite
    BY <1>2 DEF CreateCheck, NoWrite
  <2> QED
    BY <2>1, <2>7, <2>8, <2>9, QuietHolds
<1>3. ASSUME NEW c \in SellerCalls, NEW w \in Withdrawals, CreateWrite(c, w)
      PROVE  HoldsInv'
  <2>1. PICK row, e :
          /\ Writes(c, w, row, "SELLER_PAYOUT_PENDING", e)
          /\ row.seller = errand[c].seller /\ row.amount = errand[c].amount
    BY <1>3, CreateWriteIs
  <2>2. errand[c] # Free /\ errand[c].op = "create"
    BY <1>3, CreateWriteIs
  <2> QED
    BY <2>1, <2>2, CreationHolds
<1>4. ASSUME NEW c \in AdminCalls, NEW w \in Withdrawals, NEW op \in {"approve", "reject"},
             DecisionRead(c, op, w)
      PROVE  HoldsInv'
  <2>1. PICK call \in Decisions : errand' = [errand EXCEPT ![c] = call]
    BY <1>4, DecisionReadIs
  <2>2. NoWrite
    BY <1>4 DEF DecisionRead, NoWrite
  <2> QED
    BY <2>1, <2>2, QuietHolds
<1>5. ASSUME NEW c \in AdminCalls, ApprovePayout(c)
      PROVE  HoldsInv'
  <2>1. PICK w \in Withdrawals : w = errand[c].request
    BY <1>5, ApproveIs, DecidesIs DEF EntryTypes
  <2>2. PICK row, e : Writes(c, w, row, "SELLER_PAYOUT_SENT", e)
    BY <1>5, <2>1, ApproveIs, DecidesIs DEF EntryTypes
  <2> QED
    BY <2>2, DecisionHolds
<1>6. ASSUME NEW c \in AdminCalls, RejectPayout(c)
      PROVE  HoldsInv'
  <2>1. PICK w \in Withdrawals : w = errand[c].request
    BY <1>6, RejectIs, DecidesIs DEF EntryTypes
  <2>2. PICK row, e : Writes(c, w, row, "ADJUSTMENT", e)
    BY <1>6, <2>1, RejectIs, DecidesIs DEF EntryTypes
  <2> QED
    BY <2>2, DecisionHolds
<1>7. ASSUME NEW c \in SellerCalls \cup AdminCalls, RollBack(c)
      PROVE  HoldsInv'
  <2>1. NoWrite /\ errand' = [errand EXCEPT ![c] = Free]
    BY <1>7 DEF RollBack, End, NoWrite
  <2> QED
    BY <2>1, QuietHolds
<1>8. ASSUME NoWrite, errand' = errand
      PROVE  HoldsInv'
  <2>1. \A s \in Sellers :
          Held(s)' = Held(s) /\ Credits(s)' = Credits(s) /\ Debits(s)' = Debits(s)
    BY <1>8, SumsStay
  <2>2. ASSUME NEW CONSTANT s \in Sellers
        PROVE  (/\ Held(s) <= Debits(s)
                /\ Held(s) + Pledged(s) <= Credits(s) * Cardinality(SellerCalls))'
    <3>1. Pledged(s)' = Pledged(s)
      BY <1>8, PledgesStay
    <3> QED
      BY <2>1, <3>1 DEF HoldsInv
  <2>3. ASSUME NEW c \in SellerCalls, errand[c] # Free
        PROVE  CallFits(errand[c])'
    <3>1. \A s \in Sellers : Credits(s) \in Nat /\ Credits(s)' \in Nat
                              /\ Credits(s) <= Credits(s)'
      BY <2>1, SumsTyped
    <3> QED
      BY <1>8, <2>3, <3>1, FitsKept
  <2> QED
    BY <1>8, <2>2, <2>3 DEF HoldsInv
<1>9. ASSUME NEW s \in Sellers, OpenLedger(s)
      PROVE  HoldsInv'
  BY <1>8, <1>9 DEF OpenLedger, NoWrite
<1>10. CASE NextPage
  BY <1>8, <1>10 DEF NextPage, NoWrite
<1>11. CASE CloseLedger
  BY <1>8, <1>11 DEF CloseLedger, NoWrite
<1>12. CASE Tick
  BY <1>8, <1>12 DEF Tick, NoWrite
<1>13. CASE UNCHANGED withdrawalVars
  BY <1>8, <1>13 DEF withdrawalVars, NoWrite
<1> QED
  BY <1>1, <1>2, <1>3, <1>4, <1>5, <1>6, <1>7, <1>9, <1>10, <1>11, <1>12, <1>13
  DEF WithdrawalsNext
-----------------------------------------------------------------------------
(* The story of a request *)

\* The decisions recorded about a request, and those under way.
Decided(w) == Times(w, "WITHDRAWAL_PAYOUT") + Times(w, "WITHDRAWAL_REJECTED")

Deciding(w) == {c \in AdminCalls : errand[c] # Free /\ errand[c].request = w}

Pending(w) == request[w].status = "pending_admin_review"

Told(w, type, event, action) ==
  /\ Cardinality(Entries(w, type)) = Times(w, action)
  /\ notices[w][event] = Times(w, action)

\* Each decision under way may still be recorded; nothing was recorded about a
\* request that is still pending, which is all that a new decision looks at.
StoryOf(w) ==
  /\ request[w].status =
       IF trail[w] = <<>> THEN "absent" ELSE StatusOf(trail[w][Len(trail[w])])
  /\ Told(w, "SELLER_PAYOUT_PENDING", "WITHDRAWAL_REQUESTED", "WITHDRAWAL_HOLD")
  /\ Told(w, "SELLER_PAYOUT_SENT", "WITHDRAWAL_PAID", "WITHDRAWAL_PAYOUT")
  /\ Told(w, "ADJUSTMENT", "WITHDRAWAL_REJECTED", "WITHDRAWAL_REJECTED")
  /\ Times(w, "WITHDRAWAL_HOLD") <= 1
  /\ Pending(w) => Decided(w) = 0

\* At most as many decisions as there are slots.
Bounded(w) == Decided(w) + Cardinality(Deciding(w)) <= Cardinality(AdminCalls)

StoryInv == \A w \in Withdrawals : StoryOf(w) /\ Bounded(w)

LEMMA TimesIs ==
  ASSUME TypesInv, NEW w \in Withdrawals, NEW action
  PROVE  /\ trail[w] \in Seq(Actions)
         /\ IsFiniteSet({i \in DOMAIN trail[w] : trail[w][i] = action})
         /\ Times(w, action) \in Nat
<1>1. trail[w] \in Seq(Actions)
  BY DEF TypesInv, WithdrawalsTypeOK
<1>2. DOMAIN trail[w] = 1..Len(trail[w]) /\ Len(trail[w]) \in Nat
  BY <1>1
<1>3. IsFiniteSet(1..Len(trail[w]))
  BY <1>2, FS_Interval
<1>4. IsFiniteSet({i \in DOMAIN trail[w] : trail[w][i] = action})
  BY <1>2, <1>3, FS_Subset
<1> QED
  BY <1>1, <1>4, FS_CardinalityType DEF Times

LEMMA DecidingIs ==
  ASSUME NEW w
  PROVE  /\ IsFiniteSet(Deciding(w)) /\ Cardinality(Deciding(w)) \in Nat
         /\ Cardinality(Deciding(w)) <= Cardinality(AdminCalls)
<1>1. Deciding(w) \subseteq AdminCalls /\ IsFiniteSet(AdminCalls)
  BY Bounds DEF Deciding
<1> QED
  BY <1>1, FS_Subset, FS_CardinalityType

LEMMA DecidedIs ==
  ASSUME TypesInv, NEW w \in Withdrawals
  PROVE  Decided(w) \in Nat
<1>1. Times(w, "WITHDRAWAL_PAYOUT") \in Nat /\ Times(w, "WITHDRAWAL_REJECTED") \in Nat
  BY TimesIs
<1> QED
  BY <1>1 DEF Decided

LEMMA StoryImplies == TypesInv /\ StoryInv => OneStory
<1> SUFFICES ASSUME TypesInv, StoryInv, NEW w \in Withdrawals
             PROVE  /\ StoryOf(w)
                    /\ Times(w, "WITHDRAWAL_PAYOUT") + Times(w, "WITHDRAWAL_REJECTED")
                         <= Cardinality(AdminCalls)
  BY DEF OneStory, StoryOf, Told
<1>1. StoryOf(w) /\ Bounded(w)
  BY DEF StoryInv
<1>2. Decided(w) \in Nat
  BY DecidedIs
<1>3. Cardinality(Deciding(w)) \in Nat /\ Cardinality(AdminCalls) \in Nat
  BY DecidingIs, Bounds, FS_CardinalityType
<1> QED
  BY <1>1, <1>2, <1>3 DEF Bounded, Decided

LEMMA InitStory == WithdrawalsInit => StoryInv
<1> SUFFICES ASSUME WithdrawalsInit, NEW w \in Withdrawals
             PROVE  StoryOf(w) /\ Bounded(w)
  BY DEF StoryInv
<1>1. \A type : Cardinality(Entries(w, type)) = 0
  BY FS_EmptySet DEF WithdrawalsInit, Entries
<1>2. trail[w] = <<>> /\ request[w] = Absent
      /\ notices[w]["WITHDRAWAL_REQUESTED"] = 0
      /\ notices[w]["WITHDRAWAL_PAID"] = 0 /\ notices[w]["WITHDRAWAL_REJECTED"] = 0
  BY DEF WithdrawalsInit, NoticeEvents
<1>3. \A action : Times(w, action) = 0
  BY <1>2, FS_EmptySet DEF Times
<1>4. Deciding(w) = {}
  BY DEF WithdrawalsInit, Deciding
<1>5. Bounded(w)
  BY <1>3, <1>4, FS_EmptySet, FS_CardinalityType, Bounds DEF Bounded, Decided
<1>6. request[w].status = "absent"
  BY <1>2, FreeIs
<1> QED
  BY <1>1, <1>2, <1>3, <1>5, <1>6 DEF StoryOf, Told, Decided, Pending

\* What a write does to the counts of the entries.
CountsMove(w, type) ==
  \A v \in Withdrawals, t \in EntryTypes :
    /\ Cardinality(Entries(v, t)) \in Nat
    /\ Cardinality(Entries(v, t))' = IF v = w /\ t = type
                                     THEN Cardinality(Entries(v, t)) + 1
                                     ELSE Cardinality(Entries(v, t))

LEMMA WritesCounts ==
  ASSUME TypesInv, NEW c, NEW w \in Withdrawals, NEW row, NEW type, NEW e,
         Writes(c, w, row, type, e)
  PROVE  CountsMove(w, type)
<1>1. e \notin ledger /\ ledger' = ledger \cup {e} /\ e.type = type /\ e.request = w
  BY DEF Writes
<1>2. ASSUME NEW v \in Withdrawals, NEW t \in EntryTypes
      PROVE  /\ Cardinality(Entries(v, t)) \in Nat
             /\ Cardinality(Entries(v, t))' = IF v = w /\ t = type
                                              THEN Cardinality(Entries(v, t)) + 1
                                              ELSE Cardinality(Entries(v, t))
  <2>1. IsFiniteSet(Entries(v, t)) /\ e \notin Entries(v, t)
    <3>1. Entries(v, t) \subseteq ledger
      BY DEF Entries
    <3> QED
      BY <1>1, <3>1, FS_Subset DEF TypesInv
  <2>2. Entries(v, t)' = IF v = w /\ t = type THEN Entries(v, t) \cup {e} ELSE Entries(v, t)
    BY <1>1 DEF Entries
  <2>3. Cardinality(Entries(v, t)) \in Nat
    BY <2>1, FS_CardinalityType
  <2>4. Cardinality(Entries(v, t) \cup {e}) = Cardinality(Entries(v, t)) + 1
    BY <2>1, FS_AddElement
  <2> QED
    BY <2>2, <2>3, <2>4
<1> QED
  BY <1>2 DEF CountsMove

\* What a record does to the trail and to the counts of its actions.
LEMMA RecordIs ==
  ASSUME TypesInv, NEW w \in Withdrawals, NEW action \in Actions, Record(w, action)
  PROVE  /\ trail'[w] # <<>> /\ trail'[w][Len(trail'[w])] = action
         /\ \A b \in Actions :
              /\ Times(w, b) \in Nat
              /\ Times(w, b)' = IF b = action THEN Times(w, b) + 1 ELSE Times(w, b)
         /\ \A v \in Withdrawals : v # w => trail'[v] = trail[v]
<1> DEFINE s == trail[w]
           t == trail'[w]
           n == Len(trail[w])
<1>1. trail \in [Withdrawals -> Seq(Actions)] /\ s \in Seq(Actions) /\ n \in Nat
  BY DEF TypesInv, WithdrawalsTypeOK
<1>2. t = Append(s, action) /\ \A v \in Withdrawals : v # w => trail'[v] = trail[v]
  BY <1>1 DEF Record
<1>3. /\ DOMAIN s = 1..n /\ DOMAIN t = 1..n + 1 /\ Len(t) = n + 1
      /\ t[n + 1] = action /\ \A i \in 1..n : t[i] = s[i]
  BY <1>1, <1>2
<1>4. t # <<>> /\ t[Len(t)] = action
  BY <1>1, <1>3
<1>5. ASSUME NEW b \in Actions
      PROVE  /\ Times(w, b) \in Nat
             /\ Times(w, b)' = IF b = action THEN Times(w, b) + 1 ELSE Times(w, b)
  <2> DEFINE S == {i \in DOMAIN s : s[i] = b}
             T == {i \in DOMAIN t : t[i] = b}
  <2>1. IsFiniteSet(S) /\ Times(w, b) = Cardinality(S) /\ Times(w, b) \in Nat
    BY TimesIs DEF Times
  <2>2. Times(w, b)' = Cardinality(T)
    BY DEF Times
  <2>3. n + 1 \notin S
    BY <1>1, <1>3
  <2>4. T = IF b = action THEN S \cup {n + 1} ELSE S
    BY <1>1, <1>3
  <2> HIDE DEF S, T
  <2>5. Cardinality(S \cup {n + 1}) = Cardinality(S) + 1
    BY <2>1, <2>3, FS_AddElement
  <2> QED
    BY <2>1, <2>2, <2>4, <2>5
<1> QED
  BY <1>2, <1>4, <1>5

LEMMA NotifyIs ==
  ASSUME TypesInv, NEW w \in Withdrawals, NEW event \in NoticeEvents, Notify(w, event)
  PROVE  /\ \A e \in NoticeEvents :
              notices'[w][e] = IF e = event THEN notices[w][e] + 1 ELSE notices[w][e]
         /\ \A v \in Withdrawals : v # w => notices'[v] = notices[v]
<1>1. notices \in [Withdrawals -> [NoticeEvents -> Nat]]
  BY DEF TypesInv, WithdrawalsTypeOK
<1>2. notices[w] \in [NoticeEvents -> Nat]
  BY <1>1
<1>3. notices'[w] = [notices[w] EXCEPT ![event] = @ + 1]
  BY <1>1 DEF Notify
<1> QED
  BY <1>1, <1>2, <1>3 DEF Notify

\* Entry, notice and record are written together, or none of them is.
LEMMA ToldMoves ==
  ASSUME TypesInv, NEW c, NEW w \in Withdrawals, NEW row, NEW type \in EntryTypes, NEW e,
         Writes(c, w, row, type, e), NEW event \in NoticeEvents, NEW action \in Actions,
         Notify(w, event), Record(w, action),
         NEW t \in EntryTypes, NEW ev \in NoticeEvents, NEW ac \in Actions,
         Told(w, t, ev, ac), t = type <=> ac = action, ev = event <=> ac = action
  PROVE  Told(w, t, ev, ac)'
<1>1. CountsMove(w, type)
  BY WritesCounts
<1>2. Cardinality(Entries(w, t))' = IF t = type THEN Cardinality(Entries(w, t)) + 1
                                    ELSE Cardinality(Entries(w, t))
  BY <1>1 DEF CountsMove
<1>3. notices'[w][ev] = IF ev = event THEN notices[w][ev] + 1 ELSE notices[w][ev]
  BY NotifyIs
<1>4. Times(w, ac)' = IF ac = action THEN Times(w, ac) + 1 ELSE Times(w, ac)
  BY RecordIs
<1> QED
  BY <1>2, <1>3, <1>4 DEF Told

\* The other requests are left alone.
LEMMA OtherStories ==
  ASSUME TypesInv, StoryInv, NEW c, NEW w \in Withdrawals, NEW row,
         NEW type \in EntryTypes, NEW e,
         Writes(c, w, row, type, e), NEW event \in NoticeEvents, NEW action \in Actions,
         Notify(w, event), Record(w, action), NEW v \in Withdrawals, v # w
  PROVE  StoryOf(v)' /\ Decided(v)' = Decided(v)
<1>1. request'[v] = request[v] /\ notices'[v] = notices[v] /\ trail'[v] = trail[v]
  BY WritesRows, NotifyIs, RecordIs
<1>2. CountsMove(w, type)
  BY WritesCounts
<1>3. \A t \in EntryTypes : Cardinality(Entries(v, t))' = Cardinality(Entries(v, t))
  BY <1>2 DEF CountsMove
<1>4. \A a : Times(v, a)' = Times(v, a)
  BY <1>1 DEF Times
<1>5. StoryOf(v)
  BY DEF StoryInv
<1>6. Decided(v)' = Decided(v)
  BY <1>4 DEF Decided
<1>7. "SELLER_PAYOUT_PENDING" \in EntryTypes /\ "SELLER_PAYOUT_SENT" \in EntryTypes
      /\ "ADJUSTMENT" \in EntryTypes
  BY DEF EntryTypes
<1> QED
  BY <1>1, <1>3, <1>4, <1>5, <1>6, <1>7 DEF StoryOf, Told, Pending

LEMMA Names ==
  /\ EntryTypes = {"SELLER_PAYOUT_PENDING", "SELLER_PAYOUT_SENT", "ADJUSTMENT"}
  /\ NoticeEvents = {"WITHDRAWAL_REQUESTED", "WITHDRAWAL_PAID", "WITHDRAWAL_REJECTED"}
  /\ Actions = {"WITHDRAWAL_HOLD", "WITHDRAWAL_PAYOUT", "WITHDRAWAL_REJECTED"}
BY DEF EntryTypes, NoticeEvents, Actions

LEMMA CreationStory ==
  ASSUME TypesInv, StoryInv, NEW c \in SellerCalls, NEW w \in Withdrawals,
         CreateWrite(c, w)
  PROVE  StoryInv'
<1>1. PICK row, e : /\ Writes(c, w, row, "SELLER_PAYOUT_PENDING", e)
                    /\ row.status = "pending_admin_review"
  BY CreateWriteIs
<1>2. request[w] = Absent /\ Notify(w, "WITHDRAWAL_REQUESTED") /\ Record(w, "WITHDRAWAL_HOLD")
  BY DEF CreateWrite
<1>3. PICK type \in EntryTypes, event \in NoticeEvents, action \in Actions :
        type = "SELLER_PAYOUT_PENDING" /\ event = "WITHDRAWAL_REQUESTED"
        /\ action = "WITHDRAWAL_HOLD"
  BY Names
<1>4. Writes(c, w, row, type, e) /\ Notify(w, event) /\ Record(w, action)
  BY <1>1, <1>2, <1>3
<1>5. StoryOf(w) /\ request[w].status = "absent"
  BY <1>2, FreeIs DEF StoryInv
<1>6. trail[w] = <<>>
  <2> SUFFICES ASSUME trail[w] # <<>> PROVE FALSE
    OBVIOUS
  <2>1. trail[w] \in Seq(Actions)
    BY TimesIs
  <2>2. trail[w][Len(trail[w])] \in Actions
    BY <2>1
  <2>3. StatusOf(trail[w][Len(trail[w])]) # "absent"
    BY <2>2, Names DEF StatusOf
  <2> QED
    BY <1>5, <2>3 DEF StoryOf
<1>7. \A a : Times(w, a) = 0
  BY <1>6, FS_EmptySet DEF Times
<1>8. /\ Told(w, "SELLER_PAYOUT_PENDING", "WITHDRAWAL_REQUESTED", "WITHDRAWAL_HOLD")'
      /\ Told(w, "SELLER_PAYOUT_SENT", "WITHDRAWAL_PAID", "WITHDRAWAL_PAYOUT")'
      /\ Told(w, "ADJUSTMENT", "WITHDRAWAL_REJECTED", "WITHDRAWAL_REJECTED")'
  <2>1. /\ Told(w, "SELLER_PAYOUT_PENDING", "WITHDRAWAL_REQUESTED", "WITHDRAWAL_HOLD")
        /\ Told(w, "SELLER_PAYOUT_SENT", "WITHDRAWAL_PAID", "WITHDRAWAL_PAYOUT")
        /\ Told(w, "ADJUSTMENT", "WITHDRAWAL_REJECTED", "WITHDRAWAL_REJECTED")
    BY <1>5 DEF StoryOf
  <2> QED
    BY <1>3, <1>4, <2>1, Names, ToldMoves
<1>9. /\ trail'[w] # <<>> /\ trail'[w][Len(trail'[w])] = "WITHDRAWAL_HOLD"
      /\ Times(w, "WITHDRAWAL_HOLD")' = 1
      /\ Times(w, "WITHDRAWAL_PAYOUT")' = 0 /\ Times(w, "WITHDRAWAL_REJECTED")' = 0
  BY <1>2, <1>3, <1>7, Names, RecordIs
<1>10. request'[w].status = "pending_admin_review"
  BY <1>1, WritesRows
<1>11. StoryOf(w)' /\ Decided(w)' = Decided(w)
  BY <1>7, <1>8, <1>9, <1>10 DEF StoryOf, StatusOf, Decided
<1>12. \A d \in AdminCalls : errand'[d] = errand[d]
  BY <1>1, ErrandChanged, Bounds DEF Writes
<1>13. ASSUME NEW v \in Withdrawals
       PROVE  StoryOf(v)' /\ Bounded(v)'
  <2>1. StoryOf(v)' /\ Decided(v)' = Decided(v)
    BY <1>4, <1>11, OtherStories
  <2>2. Deciding(v)' = Deciding(v)
    BY <1>12 DEF Deciding
  <2>3. Bounded(v)
    BY DEF StoryInv
  <2> QED
    BY <2>1, <2>2, <2>3 DEF Bounded
<1> QED
  BY <1>13 DEF StoryInv

\* A decision ends: what it recorded takes the place of what was under way.
LEMMA DecisionStory ==
  ASSUME TypesInv, StoryInv, NEW c \in AdminCalls, NEW w \in Withdrawals,
         w = errand[c].request, errand[c] # Free, NEW row,
         NEW type \in EntryTypes, NEW e, Writes(c, w, row, type, e),
         NEW event \in NoticeEvents, NEW action \in Actions,
         Notify(w, event), Record(w, action),
         row.status \in {"paid", "rejected"}, row.status = StatusOf(action),
         \/ /\ type = "SELLER_PAYOUT_SENT" /\ event = "WITHDRAWAL_PAID"
            /\ action = "WITHDRAWAL_PAYOUT"
         \/ /\ type = "ADJUSTMENT" /\ event = "WITHDRAWAL_REJECTED"
            /\ action = "WITHDRAWAL_REJECTED"
  PROVE  StoryInv'
<1>1. /\ errand'[c] = Free
      /\ \A d \in SellerCalls \cup AdminCalls : d # c => errand'[d] = errand[d]
  BY ErrandChanged DEF Writes
<1>2. StoryOf(w) /\ Bounded(w)
  BY DEF StoryInv
<1>3. /\ Told(w, "SELLER_PAYOUT_PENDING", "WITHDRAWAL_REQUESTED", "WITHDRAWAL_HOLD")'
      /\ Told(w, "SELLER_PAYOUT_SENT", "WITHDRAWAL_PAID", "WITHDRAWAL_PAYOUT")'
      /\ Told(w, "ADJUSTMENT", "WITHDRAWAL_REJECTED", "WITHDRAWAL_REJECTED")'
  <2>1. /\ Told(w, "SELLER_PAYOUT_PENDING", "WITHDRAWAL_REQUESTED", "WITHDRAWAL_HOLD")
        /\ Told(w, "SELLER_PAYOUT_SENT", "WITHDRAWAL_PAID", "WITHDRAWAL_PAYOUT")
        /\ Told(w, "ADJUSTMENT", "WITHDRAWAL_REJECTED", "WITHDRAWAL_REJECTED")
    BY <1>2 DEF StoryOf
  <2> QED
    BY <2>1, Names, ToldMoves
<1>4. /\ trail'[w] # <<>> /\ trail'[w][Len(trail'[w])] = action
      /\ \A b \in Actions :
           /\ Times(w, b) \in Nat
           /\ Times(w, b)' = IF b = action THEN Times(w, b) + 1 ELSE Times(w, b)
  BY RecordIs
<1>5. Times(w, "WITHDRAWAL_HOLD")' = Times(w, "WITHDRAWAL_HOLD")
      /\ Decided(w) \in Nat /\ Decided(w)' = Decided(w) + 1
  BY <1>4, Names DEF Decided
<1>6. request'[w].status = row.status
  BY WritesRows
<1>7. StoryOf(w)'
  BY <1>2, <1>3, <1>4, <1>5, <1>6 DEF StoryOf, Pending
<1>8. Bounded(w)'
  <2>1. IsFiniteSet(Deciding(w)) /\ c \in Deciding(w) /\ Deciding(w)' = Deciding(w) \ {c}
    BY <1>1, DecidingIs DEF Deciding
  <2>2. Cardinality(Deciding(w)) \in Nat /\ Cardinality(Deciding(w) \ {c}) = Cardinality(Deciding(w)) - 1
    BY <2>1, FS_RemoveElement, FS_CardinalityType
  <2>3. Cardinality(Deciding(w))' = Cardinality(Deciding(w)) - 1
    BY <2>1, <2>2
  <2> QED
    BY <1>2, <1>5, <2>2, <2>3 DEF Bounded
<1>9. ASSUME NEW v \in Withdrawals, v # w
      PROVE  StoryOf(v)' /\ Bounded(v)'
  <2>1. StoryOf(v)' /\ Decided(v)' = Decided(v)
    BY <1>9, OtherStories
  <2>2. Deciding(v)' = Deciding(v)
    BY <1>1, <1>9 DEF Deciding
  <2>3. Bounded(v)
    BY DEF StoryInv
  <2> QED
    BY <2>1, <2>2, <2>3 DEF Bounded
<1> QED
  BY <1>7, <1>8, <1>9 DEF StoryInv

LEMMA ApprovalStory ==
  ASSUME TypesInv, StoryInv, NEW c \in AdminCalls, ApprovePayout(c)
  PROVE  StoryInv'
<1>0. Decides(c, "approve", "paid", "SELLER_PAYOUT_SENT")
  BY ApproveIs
<1>1. PICK w \in Withdrawals : w = errand[c].request
  BY <1>0, DecidesIs DEF EntryTypes
<1>2. PICK row, e : Writes(c, w, row, "SELLER_PAYOUT_SENT", e) /\ row.status = "paid"
  BY <1>0, <1>1, DecidesIs DEF EntryTypes
<1>3. errand[c] # Free
  BY <1>0, DecidesIs DEF EntryTypes
<1>4. Notify(w, "WITHDRAWAL_PAID") /\ Record(w, "WITHDRAWAL_PAYOUT")
  BY <1>1 DEF ApprovePayout
<1>5. StatusOf("WITHDRAWAL_PAYOUT") = "paid"
  BY DEF StatusOf
<1> QED
  BY <1>1, <1>2, <1>3, <1>4, <1>5, Names, DecisionStory

LEMMA RejectionStory ==
  ASSUME TypesInv, StoryInv, NEW c \in AdminCalls, RejectPayout(c)
  PROVE  StoryInv'
<1>0. Decides(c, "reject", "rejected", "ADJUSTMENT")
  BY RejectIs
<1>1. PICK w \in Withdrawals : w = errand[c].request
  BY <1>0, DecidesIs DEF EntryTypes
<1>2. PICK row, e : Writes(c, w, row, "ADJUSTMENT", e) /\ row.status = "rejected"
  BY <1>0, <1>1, DecidesIs DEF EntryTypes
<1>3. errand[c] # Free
  BY <1>0, DecidesIs DEF EntryTypes
<1>4. Notify(w, "WITHDRAWAL_REJECTED") /\ Record(w, "WITHDRAWAL_REJECTED")
  BY <1>1 DEF RejectPayout
<1>5. StatusOf("WITHDRAWAL_REJECTED") = "rejected"
  BY DEF StatusOf
<1> QED
  BY <1>1, <1>2, <1>3, <1>4, <1>5, Names, DecisionStory

\* Nothing is written: decisions end, or one begins about a pending request.
LEMMA QuietStory ==
  ASSUME TypesInv, StoryInv, NoWrite,
         NEW v \in Withdrawals, Deciding(v)' \subseteq Deciding(v) \/ Pending(v)
  PROVE  StoryOf(v)' /\ Bounded(v)'
<1>1. request' = request /\ ledger' = ledger /\ notices' = notices /\ trail' = trail
  BY DEF NoWrite
<1>2. \A t : Entries(v, t)' = Entries(v, t)
  BY <1>1 DEF Entries
<1>3. \A a : Times(v, a)' = Times(v, a)
  BY <1>1 DEF Times
<1>4. Decided(v)' = Decided(v)
  BY <1>3 DEF Decided
<1>5. StoryOf(v) /\ Bounded(v)
  BY DEF StoryInv
<1>6. StoryOf(v)'
  BY <1>1, <1>2, <1>3, <1>4, <1>5 DEF StoryOf, Told, Pending
<1>7. Bounded(v)'
  <2>1. Decided(v) \in Nat
    BY DecidedIs
  <2>2. IsFiniteSet(AdminCalls) /\ IsFiniteSet(Deciding(v)) /\ Deciding(v)' \subseteq AdminCalls
    BY Bounds, DecidingIs DEF Deciding
  <2>3. CASE Pending(v)
    <3>1. Decided(v) = 0
      BY <1>5, <2>3 DEF StoryOf
    <3>2. Cardinality(Deciding(v)') <= Cardinality(AdminCalls) /\ Cardinality(Deciding(v)') \in Nat
      BY <2>2, FS_Subset, FS_CardinalityType
    <3> QED
      BY <1>4, <3>1, <3>2 DEF Bounded
  <2>4. CASE Deciding(v)' \subseteq Deciding(v)
    <3>1. Cardinality(Deciding(v)') <= Cardinality(Deciding(v)) /\ Cardinality(Deciding(v)') \in Nat
          /\ Cardinality(Deciding(v)) \in Nat /\ Cardinality(AdminCalls) \in Nat
      BY <2>2, <2>4, FS_Subset, FS_CardinalityType
    <3> QED
      BY <1>4, <1>5, <2>1, <3>1 DEF Bounded
  <2> QED
    BY <2>3, <2>4
<1> QED
  BY <1>6, <1>7

\* One slot changes.
LEMMA SlotStory ==
  ASSUME TypesInv, StoryInv, NoWrite, NEW c \in SellerCalls \cup AdminCalls, NEW call,
         errand' = [errand EXCEPT ![c] = call],
         c \in SellerCalls \/ call = Free \/ Pending(call.request)
  PROVE  StoryInv'
<1>1. /\ errand'[c] = call
      /\ \A d \in SellerCalls \cup AdminCalls : d # c => errand'[d] = errand[d]
  BY ErrandChanged
<1>2. ASSUME NEW v \in Withdrawals
      PROVE  Deciding(v)' \subseteq Deciding(v) \/ Pending(v)
  BY <1>1, Bounds DEF Deciding
<1> QED
  BY <1>2, QuietStory DEF StoryInv

LEMMA StepStory ==
  TypesInv /\ StoryInv /\ [WithdrawalsNext]_withdrawalVars => StoryInv'
<1> SUFFICES ASSUME TypesInv, StoryInv,
                    [WithdrawalsNext]_withdrawalVars
             PROVE  StoryInv'
  OBVIOUS
<1>1. ASSUME NEW c \in SellerCalls, NEW s \in Sellers, NEW amount \in Sums,
             CreateRead(c, s, amount)
      PROVE  StoryInv'
  <2>1. PICK call \in Creations : errand' = [errand EXCEPT ![c] = call]
    BY <1>1, CreateReadIs
  <2>2. NoWrite
    BY <1>1 DEF CreateRead, NoWrite
  <2> QED
    BY <2>1, <2>2, SlotStory
<1>2. ASSUME NEW c \in SellerCalls, CreateCheck(c)
      PROVE  StoryInv'
  <2>1. PICK call \in Creations : errand' = [errand EXCEPT ![c] = call]
    BY <1>2, CreateCheckIs
  <2>2. NoWrite
    BY <1>2 DEF CreateCheck, NoWrite
  <2> QED
    BY <2>1, <2>2, SlotStory
<1>3. ASSUME NEW c \in SellerCalls, NEW w \in Withdrawals, CreateWrite(c, w)
      PROVE  StoryInv'
  BY <1>3, CreationStory
<1>4. ASSUME NEW c \in AdminCalls, NEW w \in Withdrawals, NEW op \in {"approve", "reject"},
             DecisionRead(c, op, w)
      PROVE  StoryInv'
  <2>1. PICK call \in Decisions : /\ call.request = w
                                  /\ request[w].status = "pending_admin_review"
                                  /\ errand' = [errand EXCEPT ![c] = call]
    BY <1>4, DecisionReadIs
  <2>2. NoWrite /\ Pending(call.request)
    BY <1>4, <2>1 DEF DecisionRead, NoWrite, Pending
  <2> QED
    BY <2>1, <2>2, SlotStory
<1>5. ASSUME NEW c \in AdminCalls, ApprovePayout(c)
      PROVE  StoryInv'
  BY <1>5, ApprovalStory
<1>6. ASSUME NEW c \in AdminCalls, RejectPayout(c)
      PROVE  StoryInv'
  BY <1>6, RejectionStory
<1>7. ASSUME NEW c \in SellerCalls \cup AdminCalls, RollBack(c)
      PROVE  StoryInv'
  <2>1. NoWrite /\ errand' = [errand EXCEPT ![c] = Free]
    BY <1>7 DEF RollBack, End, NoWrite
  <2> QED
    BY <2>1, SlotStory
<1>8. ASSUME NoWrite, errand' = errand
      PROVE  StoryInv'
  <2>1. \A v \in Withdrawals : Deciding(v)' = Deciding(v)
    BY <1>8 DEF Deciding
  <2> QED
    BY <1>8, <2>1, QuietStory DEF StoryInv
<1>9. ASSUME NEW s \in Sellers, OpenLedger(s)
      PROVE  StoryInv'
  BY <1>8, <1>9 DEF OpenLedger, NoWrite
<1>10. CASE NextPage
  BY <1>8, <1>10 DEF NextPage, NoWrite
<1>11. CASE CloseLedger
  BY <1>8, <1>11 DEF CloseLedger, NoWrite
<1>12. CASE Tick
  BY <1>8, <1>12 DEF Tick, NoWrite
<1>13. CASE UNCHANGED withdrawalVars
  BY <1>8, <1>13 DEF withdrawalVars, NoWrite
<1> QED
  BY <1>1, <1>2, <1>3, <1>4, <1>5, <1>6, <1>7, <1>9, <1>10, <1>11, <1>12, <1>13
  DEF WithdrawalsNext
-----------------------------------------------------------------------------
(* Pages *)

\* The newest and the oldest of a set of entries.
NewestIn(rows, e) == e \in rows /\ \A f \in rows : f = e \/ Newer(e, f)
OldestIn(rows, e) == e \in rows /\ \A f \in rows : f = e \/ Newer(f, e)

\* Entries are ordered by date and number.
LEMMA NewerOrders ==
  /\ \A e, f, g \in Entry : Newer(e, f) /\ Newer(f, g) => Newer(e, g)
  /\ \A e, f \in Entry : Newer(e, f) => ~Newer(f, e) /\ e # f
  /\ \A e, f \in Entry : e.id # f.id => Newer(e, f) \/ Newer(f, e)
<1>1. \A e \in Entry : e.id \in Int /\ e.at \in Int
  BY Bounds DEF Entry
<1> QED
  BY <1>1 DEF Newer

\* Some rows of the ledger.
LEMMA RowsOrder ==
  ASSUME TypesInv, NEW rows \in SUBSET ledger
  PROVE  /\ IsFiniteSet(rows) /\ rows \subseteq Entry
         /\ \A e, f \in rows : e # f => Newer(e, f) \/ Newer(f, e)
<1>1. IsFiniteSet(rows) /\ rows \subseteq Entry
  BY FS_Subset DEF TypesInv
<1>2. \A e, f \in rows : e # f => e.id # f.id
  BY DEF TypesInv, WithdrawalsTypeOK
<1> QED
  BY <1>1, <1>2, NewerOrders

LEMMA EndsExist ==
  ASSUME TypesInv, NEW rows \in SUBSET ledger, rows # {}
  PROVE  (\E e : NewestIn(rows, e)) /\ (\E e : OldestIn(rows, e))
<1> DEFINE T == {s \in SUBSET rows :
                   s # {} => (\E e \in s : NewestIn(s, e)) /\ (\E e \in s : OldestIn(s, e))}
<1>1. /\ IsFiniteSet(rows) /\ rows \subseteq Entry
      /\ \A e, f \in rows : e # f => Newer(e, f) \/ Newer(f, e)
  BY RowsOrder
<1>2. ASSUME NEW s \in SUBSET rows, \A x \in s : s \ {x} \in T
      PROVE  s \in T
  <2> SUFFICES ASSUME s # {}
               PROVE  (\E e \in s : NewestIn(s, e)) /\ (\E e \in s : OldestIn(s, e))
    OBVIOUS
  <2>1. PICK x \in s : TRUE
    OBVIOUS
  <2>2. CASE s \ {x} = {}
    <3>1. s = {x}
      BY <2>1, <2>2
    <3> QED
      BY <3>1 DEF NewestIn, OldestIn
  <2>3. CASE s \ {x} # {}
    <3>1. PICK k \in s \ {x} : NewestIn(s \ {x}, k)
      BY <1>2, <2>1, <2>3
    <3>2. PICK n \in s \ {x} : OldestIn(s \ {x}, n)
      BY <1>2, <2>1, <2>3
    <3>3. \E e \in s : NewestIn(s, e)
      <4>1. CASE Newer(k, x)
        BY <2>1, <3>1, <4>1 DEF NewestIn
      <4>2. CASE Newer(x, k)
        <5>1. \A f \in s : f = x \/ Newer(x, f)
          BY <1>1, <2>1, <3>1, <4>2, NewerOrders DEF NewestIn
        <5> QED
          BY <2>1, <5>1 DEF NewestIn
      <4> QED
        BY <1>1, <2>1, <3>1, <4>1, <4>2
    <3>4. \E e \in s : OldestIn(s, e)
      <4>1. CASE Newer(x, n)
        BY <2>1, <3>2, <4>1 DEF OldestIn
      <4>2. CASE Newer(n, x)
        <5>1. \A f \in s : f = x \/ Newer(f, x)
          BY <1>1, <2>1, <3>2, <4>2, NewerOrders DEF OldestIn
        <5> QED
          BY <2>1, <5>1 DEF OldestIn
      <4> QED
        BY <1>1, <2>1, <3>2, <4>1, <4>2
    <3> QED
      BY <3>3, <3>4
  <2> QED
    BY <2>2, <2>3
<1>3. T \in SUBSET (SUBSET rows)
  OBVIOUS
<1>4. T = SUBSET rows
  <2> HIDE DEF T
  <2> QED
    BY <1>1, <1>2, <1>3, SubsetsUpwards
<1>5. rows \in T
  BY <1>4
<1> QED
  BY <1>5

\* What is on a page is newer than what is left, a page is empty only if there
\* is nothing to show, and a page that may hold everything does.
LEMMA PageIs ==
  ASSUME TypesInv, NEW rows \in SUBSET ledger
  PROVE  /\ PageOf(rows) \subseteq rows
         /\ \A e \in PageOf(rows), f \in rows \ PageOf(rows) : Newer(e, f)
         /\ rows # {} => PageOf(rows) # {}
         /\ Cardinality(rows) <= PageSize => PageOf(rows) = rows
<1> DEFINE Before(e) == {f \in rows : Newer(f, e)}
<1>0. /\ IsFiniteSet(rows) /\ rows \subseteq Entry
      /\ \A e, f \in rows : e # f => Newer(e, f) \/ Newer(f, e)
  BY RowsOrder
<1>1. PageOf(rows) \subseteq rows /\ PageOf(rows) = {e \in rows : Cardinality(Before(e)) < PageSize}
  BY DEF PageOf
<1>2. PageSize \in Nat \ {0}
  BY Bounds
<1>3. \A e \in rows : /\ IsFiniteSet(Before(e)) /\ Cardinality(Before(e)) \in Nat
  <2> TAKE e \in rows
  <2>1. Before(e) \subseteq rows
    OBVIOUS
  <2> QED
    BY <1>0, <2>1, FS_Subset, FS_CardinalityType
<1>4. ASSUME NEW e \in PageOf(rows), NEW f \in rows \ PageOf(rows)
      PROVE  Newer(e, f)
  <2> SUFFICES ASSUME ~Newer(e, f) PROVE FALSE
    OBVIOUS
  <2>1. Newer(f, e)
    BY <1>0, <1>1, <1>4
  <2>2. Before(f) \subseteq Before(e)
    BY <1>0, <1>1, <1>4, <2>1, NewerOrders
  <2>3. Cardinality(Before(f)) <= Cardinality(Before(e))
    BY <1>1, <1>3, <1>4, <2>2, FS_Subset
  <2>4. Cardinality(Before(e)) < PageSize
    BY <1>1, <1>4
  <2>5. f \in PageOf(rows)
    <3> HIDE DEF Before
    <3> QED
      BY <1>1, <1>2, <1>3, <1>4, <2>3, <2>4
  <2> QED
    BY <1>4, <2>5
<1>5. ASSUME rows # {}
      PROVE  PageOf(rows) # {}
  <2>1. PICK e : NewestIn(rows, e)
    BY <1>5, EndsExist
  <2>2. Before(e) = {} /\ e \in rows
    BY <1>0, <2>1, NewerOrders DEF NewestIn
  <2>3. Cardinality(Before(e)) = 0
    BY <2>2, FS_EmptySet
  <2> QED
    BY <1>1, <1>2, <2>2, <2>3
<1>6. ASSUME Cardinality(rows) <= PageSize, NEW e \in rows
      PROVE  e \in PageOf(rows)
  <2>1. Before(e) \subseteq rows \ {e}
    BY <1>0, NewerOrders
  <2>2. IsFiniteSet(rows \ {e}) /\ Cardinality(rows \ {e}) = Cardinality(rows) - 1
    BY <1>0, FS_RemoveElement
  <2>3. Cardinality(Before(e)) <= Cardinality(rows \ {e})
    BY <2>1, <2>2, FS_Subset
  <2>4. Cardinality(rows) \in Nat
    BY <1>0, FS_CardinalityType
  <2>5. Cardinality(Before(e)) < PageSize
    <3> HIDE DEF Before
    <3> QED
      BY <1>2, <1>3, <1>6, <2>2, <2>3, <2>4
  <2> QED
    BY <1>1, <2>5
<1> QED
  BY <1>1, <1>4, <1>5, <1>6

\* An entry is on one of the pages shown.
Shown(e) == \E i \in DOMAIN reading.shown : e \in reading.shown[i]

\* While there is more, the reader stands behind the oldest entry shown, which
\* is the cursor; what is due is shown or still below it.
PagesInv ==
  reading # Unread =>
    /\ reading \in [of : Sellers, cursor : SUBSET Entry, shown : Seq(SUBSET Entry),
                    due : SUBSET Entry, more : BOOLEAN]
    /\ reading.due \subseteq EntriesOf(reading.of)
    /\ \A i, j \in DOMAIN reading.shown :
         i < j => \A e \in reading.shown[i], f \in reading.shown[j] : Newer(e, f)
    /\ reading.more =>
         /\ \A i \in DOMAIN reading.shown : \A e \in reading.shown[i] :
              \E k \in reading.cursor : e = k \/ Newer(e, k)
         /\ \A e \in reading.due : Shown(e) \/ e \in Below(reading.of, reading.cursor)
    /\ ~reading.more => \A e \in reading.due : Shown(e)

LEMMA PagesImply == PagesInv => PagesAreComplete
<1> SUFFICES ASSUME PagesInv, reading # Unread
             PROVE  /\ \A i, j \in DOMAIN reading.shown :
                         i < j => \A e \in reading.shown[i], f \in reading.shown[j] : Newer(e, f)
                    /\ ~reading.more => reading.due \subseteq UNION Range(reading.shown)
  BY DEF PagesAreComplete
<1>1. \A e : Shown(e) => e \in UNION Range(reading.shown)
  BY DEF Shown, Range
<1> QED
  BY <1>1 DEF PagesInv

\* The ledger only grows, and entries stay with their seller.
LEMMA EntriesStay ==
  ASSUME TypesInv, RowsKept, ledger \subseteq ledger'
  PROVE  \A s : EntriesOf(s) \subseteq EntriesOf(s)'
<1>1. \A e \in ledger : e.request \in Withdrawals /\ request[e.request] \in Rows
  BY DEF TypesInv, Entry
<1> QED
  BY <1>1 DEF EntriesOf, RowsKept

LEMMA PagesStay ==
  ASSUME TypesInv, PagesInv, RowsKept, ledger \subseteq ledger', reading' = reading
  PROVE  PagesInv'
<1> SUFFICES ASSUME reading' # Unread PROVE PagesInv'
  BY DEF PagesInv
<1>1. EntriesOf(reading.of) \subseteq EntriesOf(reading.of)'
  BY EntriesStay
<1>2. Below(reading.of, reading.cursor) \subseteq Below(reading.of, reading.cursor)'
  BY <1>1 DEF Below
<1>3. \A e : Shown(e) <=> Shown(e)'
  BY DEF Shown
<1> QED
  BY <1>1, <1>2, <1>3 DEF PagesInv

LEMMA OpenLedgerPages ==
  ASSUME TypesInv, NEW s \in Sellers, OpenLedger(s)
  PROVE  PagesInv'
<1>1. PICK entries \in SUBSET Entry : entries = EntriesOf(s)
  BY DEF EntriesOf, TypesInv
<1>2. reading' = [of |-> s, cursor |-> {}, shown |-> <<>>, due |-> entries, more |-> TRUE]
  BY <1>1 DEF OpenLedger
<1>3. EntriesOf(s)' = EntriesOf(s) /\ Below(s, {})' = EntriesOf(s)
  BY DEF OpenLedger, EntriesOf, Below
<1>4. reading' \in [of : Sellers, cursor : SUBSET Entry, shown : Seq(SUBSET Entry),
                    due : SUBSET Entry, more : BOOLEAN]
  BY <1>2
<1>5. /\ reading'.of = s /\ reading'.cursor = {} /\ DOMAIN reading'.shown = {}
      /\ reading'.due = entries /\ reading'.more
  BY <1>2
<1> QED
  BY <1>1, <1>3, <1>4, <1>5 DEF PagesInv, Below
LEMMA NextPagePages ==
  ASSUME TypesInv, PagesInv, NextPage
  PROVE  PagesInv'
<1> DEFINE rows == Below(reading.of, reading.cursor)
           page == PageOf(rows)
           n == Len(reading.shown)
<1>1. reading # Unread /\ reading.more
  BY DEF NextPage
<1>2. reading \in [of : Sellers, cursor : SUBSET Entry, shown : Seq(SUBSET Entry),
                   due : SUBSET Entry, more : BOOLEAN]
  BY <1>1 DEF PagesInv
<1>3. /\ reading.due \subseteq EntriesOf(reading.of)
      /\ \A i, j \in DOMAIN reading.shown :
           i < j => \A e \in reading.shown[i], f \in reading.shown[j] : Newer(e, f)
      /\ \A i \in DOMAIN reading.shown : \A e \in reading.shown[i] :
           \E k \in reading.cursor : e = k \/ Newer(e, k)
      /\ \A e \in reading.due : Shown(e) \/ e \in rows
  BY <1>1 DEF PagesInv
<1>4. rows \in SUBSET ledger /\ rows \subseteq EntriesOf(reading.of)
  BY DEF Below, EntriesOf
<1>5. /\ page \subseteq rows
      /\ \A e \in page, f \in rows \ page : Newer(e, f)
      /\ rows # {} => page # {}
      /\ Cardinality(rows) <= PageSize => page = rows
  BY <1>4, PageIs
<1>6. rows \subseteq Entry /\ page \subseteq Entry /\ page \in SUBSET ledger
      /\ Cardinality(rows) \in Nat /\ PageSize \in Nat /\ PageSize # 0
  BY <1>4, <1>5, RowsOrder, FS_CardinalityType, Bounds
<1>7. PICK more \in BOOLEAN : more <=> Cardinality(rows) > PageSize
  OBVIOUS
<1>8. PICK cursor : cursor = IF more THEN {Oldest(page)} ELSE reading.cursor
  OBVIOUS
<1>9. more => /\ \E k \in page : cursor = {k}
              /\ \A k \in cursor : k \in page /\ \A e \in page : e = k \/ Newer(e, k)
  <2> SUFFICES ASSUME more
               PROVE  /\ \E k \in page : cursor = {k}
                      /\ \A k \in cursor : k \in page /\ \A e \in page : e = k \/ Newer(e, k)
    OBVIOUS
  <2>1. rows # {}
    BY <1>6, <1>7, FS_EmptySet
  <2>2. PICK k : OldestIn(page, k)
    BY <1>5, <1>6, <2>1, EndsExist
  <2>3. OldestIn(page, Oldest(page))
    BY <2>2 DEF OldestIn, Oldest
  <2> QED
    BY <1>8, <2>3 DEF OldestIn
<1>10. /\ reading'.of = reading.of /\ reading'.due = reading.due
       /\ reading'.shown = Append(reading.shown, page)
       /\ reading'.more = more /\ reading'.cursor = cursor
       /\ reading' # Unread
       /\ reading' \in [of : Sellers, cursor : SUBSET Entry, shown : Seq(SUBSET Entry),
                        due : SUBSET Entry, more : BOOLEAN]
  <2>1. reading' = [reading EXCEPT !.shown = Append(@, page), !.more = Cardinality(rows) > PageSize,
                      !.cursor = IF Cardinality(rows) > PageSize THEN {Oldest(page)} ELSE @]
    BY DEF NextPage
  <2>2. cursor \in SUBSET Entry
    BY <1>2, <1>6, <1>8, <1>9
  <2>3. PICK shown \in Seq(SUBSET Entry) : shown = Append(reading.shown, page)
    <3> HIDE DEF rows, page
    <3>1. page \in SUBSET Entry /\ reading.shown \in Seq(SUBSET Entry)
      BY <1>2, <1>6
    <3>2. Append(reading.shown, page) \in Seq(SUBSET Entry)
      BY <3>1
    <3> QED
      BY <3>2
  <2>4. (Cardinality(rows) > PageSize) = more
    BY <1>6, <1>7
  <2>5. reading' = [reading EXCEPT !.shown = shown, !.more = more, !.cursor = cursor]
    <3> HIDE DEF rows, page
    <3> QED
      BY <1>2, <1>8, <2>1, <2>3, <2>4
  <2> HIDE DEF rows, page
  <2> QED
    BY <1>2, <2>2, <2>3, <2>5 DEF Unread
<1>11. /\ n \in Nat /\ DOMAIN reading.shown = 1..n
       /\ DOMAIN reading'.shown = 1..n + 1
       /\ \A i \in 1..n : reading'.shown[i] = reading.shown[i]
       /\ reading'.shown[n + 1] = page
  <2> HIDE DEF rows, page
  <2> QED
    BY <1>2, <1>6, <1>10
<1>12. \A i \in 1..n : \A e \in reading.shown[i], f \in rows : Newer(e, f)
  <2> TAKE i \in 1..n
  <2> TAKE e \in reading.shown[i], f \in rows
  <2>1. PICK k \in reading.cursor : e = k \/ Newer(e, k)
    BY <1>3, <1>11
  <2>2. e \in Entry /\ k \in Entry /\ f \in Entry
    <3>1. reading.shown[i] \in SUBSET Entry
      BY <1>2, <1>11
    <3> QED
      BY <1>2, <1>6, <3>1
  <2>3. Newer(k, f)
    BY DEF Below
  <2> QED
    BY <2>1, <2>2, <2>3, NewerOrders
<1>13. \A i, j \in DOMAIN reading'.shown :
         i < j => \A e \in reading'.shown[i], f \in reading'.shown[j] : Newer(e, f)
  <2> TAKE i, j \in DOMAIN reading'.shown
  <2> HAVE i < j
  <2> TAKE e \in reading'.shown[i], f \in reading'.shown[j]
  <2>1. CASE j = n + 1
    <3>1. i \in 1..n /\ f \in page
      BY <1>11, <2>1
    <3> QED
      BY <1>5, <1>11, <1>12, <3>1
  <2>2. CASE j # n + 1
    <3>1. i \in 1..n /\ j \in 1..n
      BY <1>11, <2>2
    <3> QED
      BY <1>3, <1>11, <3>1
  <2> QED
    BY <2>1, <2>2
<1>14. \A e : (Shown(e) \/ e \in page) => Shown(e)'
  BY <1>11 DEF Shown
<1>15. EntriesOf(reading.of)' = EntriesOf(reading.of)
       /\ Below(reading.of, cursor)' = {e \in EntriesOf(reading.of) : \A f \in cursor : Newer(f, e)}
  BY <1>10 DEF NextPage, EntriesOf, Below
<1>16. ASSUME more
       PROVE  /\ \A i \in DOMAIN reading'.shown : \A e \in reading'.shown[i] :
                   \E k \in cursor : e = k \/ Newer(e, k)
              /\ \A e \in reading.due : Shown(e)' \/ e \in Below(reading.of, cursor)'
  <2>1. PICK k \in page : cursor = {k} /\ \A e \in page : e = k \/ Newer(e, k)
    BY <1>9, <1>16
  <2>2. \A i \in DOMAIN reading'.shown : \A e \in reading'.shown[i] : e = k \/ Newer(e, k)
    BY <1>5, <1>11, <1>12, <2>1
  <2>3. ASSUME NEW e \in reading.due, ~Shown(e)'
        PROVE  e \in Below(reading.of, cursor)'
    <3>1. e \in rows \ page
      BY <1>3, <1>14, <2>3
    <3>2. Newer(k, e)
      BY <1>5, <2>1, <3>1
    <3> QED
      BY <1>4, <1>15, <2>1, <3>1, <3>2
  <2> QED
    BY <2>1, <2>2, <2>3
<1>17. ASSUME ~more
       PROVE  \A e \in reading.due : Shown(e)'
  <2>1. page = rows
    BY <1>5, <1>6, <1>7, <1>17
  <2> QED
    BY <1>3, <1>14, <2>1
<1> HIDE DEF rows, page, n
<1> QED
  BY <1>3, <1>10, <1>13, <1>15, <1>16, <1>17 DEF PagesInv, Below

LEMMA StepPages == TypesInv /\ PagesInv /\ [WithdrawalsNext]_withdrawalVars => PagesInv'
<1> SUFFICES ASSUME TypesInv, PagesInv, [WithdrawalsNext]_withdrawalVars
             PROVE  PagesInv'
  OBVIOUS
<1>1. ASSUME NEW c \in SellerCalls, NEW w \in Withdrawals, CreateWrite(c, w)
      PROVE  PagesInv'
  <2>1. PICK row, e : Writes(c, w, row, "SELLER_PAYOUT_PENDING", e)
    BY <1>1, CreateWriteIs
  <2>2. RowsKept
    BY <1>1, <2>1, WritesRows
  <2>3. ledger \subseteq ledger'
    BY <2>1 DEF Writes
  <2>4. reading' = reading
    BY <1>1 DEF CreateWrite
  <2> QED
    BY <2>2, <2>3, <2>4, PagesStay
<1>2. ASSUME NEW c \in AdminCalls, ApprovePayout(c)
      PROVE  PagesInv'
  <2>1. PICK w \in Withdrawals : w = errand[c].request
    BY <1>2, ApproveIs, DecidesIs DEF EntryTypes
  <2>2. PICK row, e : Writes(c, w, row, "SELLER_PAYOUT_SENT", e)
    BY <1>2, <2>1, ApproveIs, DecidesIs DEF EntryTypes
  <2>3. RowsKept
    BY <2>1, <2>2, WritesRows
  <2>4. ledger \subseteq ledger'
    BY <2>2 DEF Writes
  <2>5. reading' = reading
    BY <1>2 DEF ApprovePayout
  <2> QED
    BY <2>3, <2>4, <2>5, PagesStay
<1>3. ASSUME NEW c \in AdminCalls, RejectPayout(c)
      PROVE  PagesInv'
  <2>1. PICK w \in Withdrawals : w = errand[c].request
    BY <1>3, RejectIs, DecidesIs DEF EntryTypes
  <2>2. PICK row, e : Writes(c, w, row, "ADJUSTMENT", e)
    BY <1>3, <2>1, RejectIs, DecidesIs DEF EntryTypes
  <2>3. RowsKept
    BY <2>1, <2>2, WritesRows
  <2>4. ledger \subseteq ledger'
    BY <2>2 DEF Writes
  <2>5. reading' = reading
    BY <1>3 DEF RejectPayout
  <2> QED
    BY <2>3, <2>4, <2>5, PagesStay
<1>4. ASSUME UNCHANGED <<request, ledger, reading>>
      PROVE  PagesInv'
  <2>1. RowsKept /\ ledger \subseteq ledger' /\ reading' = reading
    BY <1>4 DEF RowsKept
  <2> QED
    BY <2>1, PagesStay
<1>5. ASSUME NEW c \in SellerCalls, NEW s \in Sellers, NEW amount \in Sums,
             CreateRead(c, s, amount)
      PROVE  PagesInv'
  BY <1>4, <1>5 DEF CreateRead
<1>6. ASSUME NEW c \in SellerCalls, CreateCheck(c)
      PROVE  PagesInv'
  BY <1>4, <1>6 DEF CreateCheck
<1>7. ASSUME NEW c \in AdminCalls, NEW w \in Withdrawals, NEW op \in {"approve", "reject"},
             DecisionRead(c, op, w)
      PROVE  PagesInv'
  BY <1>4, <1>7 DEF DecisionRead
<1>8. ASSUME NEW c \in SellerCalls \cup AdminCalls, RollBack(c)
      PROVE  PagesInv'
  BY <1>4, <1>8 DEF RollBack
<1>9. ASSUME NEW s \in Sellers, OpenLedger(s)
      PROVE  PagesInv'
  BY <1>9, OpenLedgerPages
<1>10. CASE NextPage
  BY <1>10, NextPagePages
<1>11. CASE CloseLedger
  BY <1>11 DEF CloseLedger, PagesInv
<1>12. CASE Tick
  BY <1>4, <1>12 DEF Tick
<1>13. CASE UNCHANGED withdrawalVars
  BY <1>4, <1>13 DEF withdrawalVars
<1> QED
  BY <1>1, <1>2, <1>3, <1>5, <1>6, <1>7, <1>8, <1>9, <1>10, <1>11, <1>12, <1>13
  DEF WithdrawalsNext

-----------------------------------------------------------------------------
(* Theorems *)

\* Types, for any number of overlapping calls.
LEMMA AlwaysTyped == WithdrawalsSpec => []TypesInv
BY InitTypes, StepTypes, PTL DEF WithdrawalsSpec

(***************************************************************************)
(* The rows, entries and calls are well formed, and the numbers of the     *)
(* entries are a key, however calls overlap.                               *)
(***************************************************************************)
THEOREM WithdrawalsTypeTheorem == WithdrawalsSpec => []WithdrawalsTypeOK
<1>1. TypesInv => WithdrawalsTypeOK
  BY DEF TypesInv
<1> QED
  BY <1>1, AlwaysTyped, PTL

(***************************************************************************)
(* What a seller has asked for is covered by what the wallet was given, as *)
(* many times as creations can be under way at once, however creations and *)
(* decisions overlap (R15.6 with overlaps).                                *)
(***************************************************************************)
THEOREM HoldsTheorem == WithdrawalsSpec => []HoldsAreCovered
<1>1. TypesInv /\ HoldsInv => HoldsAreCovered
  <2> SUFFICES ASSUME TypesInv, HoldsInv, NEW s \in Sellers
               PROVE  Booked(s, {"SELLER_PAYOUT_PENDING"})
                        <= Cardinality(SellerCalls) * Credits(s)
    BY DEF HoldsAreCovered
  <2>1. Held(s) \in Nat /\ Pledged(s) \in Nat /\ Credits(s) \in Nat
        /\ Cardinality(SellerCalls) \in Nat
    BY SumsTyped, PledgesAre, Bounds, FS_CardinalityType
  <2>2. Held(s) + Pledged(s) <= Credits(s) * Cardinality(SellerCalls)
    BY DEF HoldsInv
  <2>3. Credits(s) * Cardinality(SellerCalls) = Cardinality(SellerCalls) * Credits(s)
    BY <2>1
  <2>4. Credits(s) * Cardinality(SellerCalls) \in Nat
    BY <2>1, RoomGrows
  <2> QED
    BY <2>1, <2>2, <2>3, <2>4 DEF Held
<1> QED
  BY <1>1, AlwaysTyped, InitHolds, StepHolds, PTL DEF WithdrawalsSpec

(***************************************************************************)
(* Row, ledger, notices and audit trail tell one story of every request,   *)
(* and it is decided no more often than decisions can be under way at      *)
(* once, however decisions about it overlap.                               *)
(***************************************************************************)
THEOREM StoryTheorem == WithdrawalsSpec => []OneStory
BY AlwaysTyped, InitStory, StepStory, StoryImplies, PTL DEF WithdrawalsSpec

(***************************************************************************)
(* A seller who pages to the end of the ledger has seen every entry that   *)
(* was there at the beginning, in order, whatever is written meanwhile and *)
(* however large the pages are.                                            *)
(***************************************************************************)
THEOREM PagesTheorem == WithdrawalsSpec => []PagesAreComplete
<1>1. WithdrawalsInit => PagesInv
  BY DEF WithdrawalsInit, PagesInv
<1> QED
  BY <1>1, AlwaysTyped, StepPages, PagesImply, PTL DEF WithdrawalsSpec
=============================================================================
