----------------------------- MODULE Withdrawals -----------------------------
(***************************************************************************)
(* Withdrawal requests: a seller asks for money out of the wallet, which   *)
(* puts a hold on it, and an administrator approves the request (the       *)
(* payout was made by hand) or rejects it (the hold is given back).  The   *)
(* seller pages through the wallet's ledger meanwhile.                     *)
(*                                                                         *)
(* Every handler is one transaction without row locks: it reads, decides,  *)
(* and writes by primary key, so it is some read steps and a write step,   *)
(* and other transactions may commit in between.  An entry of the ledger   *)
(* is dated when its transaction starts and numbered when it is written,   *)
(* so entries become visible in another order than that of their dates.    *)
(***************************************************************************)
EXTENDS Integers, Sequences, FiniteSets, Functions

CONSTANTS
  Sellers,
  Withdrawals,    \* identities of withdrawal requests; bounds their number
  Sums,           \* amounts that may be asked for, in minor units
  Funds,          \* Funds[s]: what the seller's wallet holds at first
  SellerCalls,    \* slots for creations in flight
  AdminCalls,     \* slots for decisions in flight
  PageSize,       \* entries on a page of the ledger
  MaxTime         \* bound: ticks of the clock

ASSUME WithdrawalsAssumption ==
  /\ IsFiniteSet(Withdrawals)
  /\ IsFiniteSet(SellerCalls) /\ IsFiniteSet(AdminCalls)
  /\ Sums \subseteq Nat
  /\ Funds \in [Sellers -> Nat]
  /\ SellerCalls \cap AdminCalls = {}
  /\ PageSize \in Nat \ {0} /\ MaxTime \in Nat

VARIABLES
  request,   \* request[w]: the withdrawal_request row, or Absent
  ledger,    \* the wallet_ledger_entry rows that withdrawals cause
  notices,   \* notices[w]: outbox rows about the request, by event
  trail,     \* trail[w]: its audit rows, by action, in the order written
  errand,    \* errand[c]: the call that slot c is running, or Free
  now,       \* the clock
  reading    \* the seller's paging through the ledger, or Unread

withdrawalVars == <<request, ledger, notices, trail, errand, now, reading>>

Absent == [status |-> "absent"]

Rows == [status : {"pending_admin_review", "paid", "rejected"},
         seller : Sellers, amount : Sums]

Free == [op |-> "free"]

NoticeEvents == {"WITHDRAWAL_REQUESTED", "WITHDRAWAL_PAID", "WITHDRAWAL_REJECTED"}

\* Audit actions.
Actions == {"WITHDRAWAL_HOLD", "WITHDRAWAL_PAYOUT", "WITHDRAWAL_REJECTED"}

EntryTypes == {"SELLER_PAYOUT_PENDING", "SELLER_PAYOUT_SENT", "ADJUSTMENT"}

Unread == [of |-> "nobody"]

WithdrawalsInit ==
  /\ request = [w \in Withdrawals |-> Absent]
  /\ ledger = {}
  /\ notices = [w \in Withdrawals |-> [e \in NoticeEvents |-> 0]]
  /\ trail = [w \in Withdrawals |-> <<>>]
  /\ errand = [c \in SellerCalls \cup AdminCalls |-> Free]
  /\ now = 0
  /\ reading = Unread

Entries(w, type) == {e \in ledger : e.request = w /\ e.type = type}

EntriesOf(s) == {e \in ledger : request[e.request].seller = s}

\* An entry is dated when its transaction started.
Book(type, w, since) ==
  ledger' = ledger \cup
    {[id |-> Cardinality(ledger) + 1, at |-> since, type |-> type, request |-> w]}

Notify(w, event) == notices' = [notices EXCEPT ![w][event] = @ + 1]

\* AuditService.record, in the caller's transaction.
Record(w, action) == trail' = [trail EXCEPT ![w] = Append(@, action)]

Begin(c, call) == errand[c] = Free /\ errand' = [errand EXCEPT ![c] = call]

Proceed(c, call) == errand' = [errand EXCEPT ![c] = call]

End(c) == errand' = [errand EXCEPT ![c] = Free]

-----------------------------------------------------------------------------
(* Creation *)

\* The sum of a seller's entries of some types.
Booked(s, types) ==
  SumFunction([e \in {e \in EntriesOf(s) : e.type \in types} |-> request[e.request].amount])

\* What the wallet was given, in the first of the two sums of computeBalance.
Credits(s) == Funds[s] + Booked(s, {"ADJUSTMENT"})

\* Fault: the holds are not looked at.
DebitsWithoutHolds(s) == Booked(s, {"SELLER_PAYOUT_SENT"})

\* What was taken, in the second; getAvailableBalance takes the difference as
\* it is, since the holds are debits like any other.
Debits(s) == Booked(s, EntryTypes \ {"ADJUSTMENT"})

\* create up to the first sum.  Neither sum takes a lock.
CreateRead(c, s, amount) ==
  /\ Begin(c, [op |-> "sum", seller |-> s, amount |-> amount, since |-> now,
               credits |-> Credits(s)])
  /\ UNCHANGED <<request, ledger, notices, trail, now, reading>>

\* The second sum and the check.
CreateCheck(c) ==
  LET call == errand[c]
  IN  /\ call.op = "sum"
      /\ call.credits - Debits(call.seller) >= call.amount
      /\ Proceed(c, [op |-> "create", seller |-> call.seller,
                     amount |-> call.amount, since |-> call.since])
      /\ UNCHANGED <<request, ledger, notices, trail, now, reading>>

\* The request row, the hold and the notice to the administrators.
CreateWrite(c, w) ==
  /\ errand[c].op = "create"
  /\ request[w] = Absent
  /\ request' = [request EXCEPT ![w] =
       [status |-> "pending_admin_review", seller |-> errand[c].seller,
        amount |-> errand[c].amount]]
  /\ Book("SELLER_PAYOUT_PENDING", w, errand[c].since)
  /\ Notify(w, "WITHDRAWAL_REQUESTED")
  /\ Record(w, "WITHDRAWAL_HOLD")
  /\ End(c)
  /\ UNCHANGED <<now, reading>>

-----------------------------------------------------------------------------
(* Decisions *)

\* Fault: a request may be decided again.
DecidableAlways(w) == request[w] # Absent

\* A repeated decision returns at once, a contrary one is refused; neither
\* writes, so only a pending request starts a decision.
Decidable(w) == request[w].status = "pending_admin_review"

DecisionRead(c, op, w) ==
  /\ Decidable(w)
  /\ Begin(c, [op |-> op, request |-> w, since |-> now])
  /\ UNCHANGED <<request, ledger, notices, trail, now, reading>>

\* adminApprove: the update goes by id, the payout is a further debit.
ApprovePayout(c) ==
  LET w == errand[c].request
  IN  /\ errand[c].op = "approve"
      /\ request' = [request EXCEPT ![w].status = "paid"]
      /\ Book("SELLER_PAYOUT_SENT", w, errand[c].since)
      /\ Notify(w, "WITHDRAWAL_PAID")
      /\ Record(w, "WITHDRAWAL_PAYOUT")
      /\ End(c)
      /\ UNCHANGED <<now, reading>>

\* Fault: the compensating entry is of a type of its own.
RejectUnbooked(c) ==
  /\ errand[c].op = "reject"
  /\ Book("RETURNED", errand[c].request, errand[c].since)
  /\ End(c)
  /\ UNCHANGED <<request, notices, trail, now, reading>>

\* adminReject: the compensating credit releases the hold.
RejectPayout(c) ==
  LET w == errand[c].request
  IN  /\ errand[c].op = "reject"
      /\ request' = [request EXCEPT ![w].status = "rejected"]
      /\ Book("ADJUSTMENT", w, errand[c].since)
      /\ Notify(w, "WITHDRAWAL_REJECTED")
      /\ Record(w, "WITHDRAWAL_REJECTED")
      /\ End(c)
      /\ UNCHANGED <<now, reading>>

\* The transaction rolls back: an error, or the process dies.
RollBack(c) ==
  /\ errand[c] # Free
  /\ End(c)
  /\ UNCHANGED <<request, ledger, notices, trail, now, reading>>

-----------------------------------------------------------------------------
(* The pages of the ledger *)

\* Newest first, by date and then by number.
Newer(e, f) == e.at > f.at \/ (e.at = f.at /\ e.id > f.id)

\* Fault: the next page goes on below the date of the last entry shown.
BelowDate(s, cursor) == {e \in EntriesOf(s) : \A f \in cursor : f.at > e.at}

\* The entries of the seller below the cursor, which is {} at first.
Below(s, cursor) == {e \in EntriesOf(s) : \A f \in cursor : Newer(f, e)}

\* The newest of the rows, as many as a page holds.
PageOf(rows) == {e \in rows : Cardinality({f \in rows : Newer(f, e)}) < PageSize}

Oldest(rows) == CHOOSE e \in rows : \A f \in rows : f = e \/ Newer(f, e)

\* A seller begins to page through the ledger.  What is there now is due.
OpenLedger(s) ==
  /\ reading = Unread
  /\ reading' = [of |-> s, cursor |-> {}, shown |-> <<>>, due |-> EntriesOf(s),
                 more |-> TRUE]
  /\ UNCHANGED <<request, ledger, notices, trail, errand, now>>

\* getMyLedger: one entry more than the page holds tells whether to go on.
NextPage ==
  LET rows == Below(reading.of, reading.cursor)
      more == Cardinality(rows) > PageSize
  IN  /\ reading # Unread /\ reading.more
      /\ reading' = [reading EXCEPT
           !.shown = Append(@, PageOf(rows)),
           !.more = more,
           !.cursor = IF more THEN {Oldest(PageOf(rows))} ELSE @]
      /\ UNCHANGED <<request, ledger, notices, trail, errand, now>>

CloseLedger ==
  /\ reading # Unread
  /\ reading' = Unread
  /\ UNCHANGED <<request, ledger, notices, trail, errand, now>>

Tick ==
  /\ now < MaxTime
  /\ now' = now + 1
  /\ UNCHANGED <<request, ledger, notices, trail, errand, reading>>

WithdrawalsNext ==
  \/ \E c \in SellerCalls :
       \/ \E s \in Sellers, amount \in Sums : CreateRead(c, s, amount)
       \/ CreateCheck(c)
       \/ \E w \in Withdrawals : CreateWrite(c, w)
  \/ \E c \in AdminCalls :
       \/ \E w \in Withdrawals, op \in {"approve", "reject"} :
            DecisionRead(c, op, w)
       \/ ApprovePayout(c)
       \/ RejectPayout(c)
  \/ \E c \in SellerCalls \cup AdminCalls : RollBack(c)
  \/ \E s \in Sellers : OpenLedger(s)
  \/ NextPage
  \/ CloseLedger
  \/ Tick

WithdrawalsSpec == WithdrawalsInit /\ [][WithdrawalsNext]_withdrawalVars

-----------------------------------------------------------------------------
(* Types *)

Errands ==
  [op : {"sum"}, seller : Sellers, amount : Sums, since : 0..MaxTime, credits : Nat]
  \cup [op : {"create"}, seller : Sellers, amount : Sums, since : 0..MaxTime]
  \cup [op : {"approve", "reject"}, request : Withdrawals, since : 0..MaxTime]

\* Type invariant; the numbers of the entries are a primary key.
WithdrawalsTypeOK ==
  /\ request \in [Withdrawals -> Rows \cup {Absent}]
  /\ ledger \subseteq [id : 1..Cardinality(ledger), at : 0..MaxTime,
                       type : EntryTypes, request : Withdrawals]
  /\ \A e, f \in ledger : e.id = f.id => e = f
  /\ notices \in [Withdrawals -> [NoticeEvents -> Nat]]
  /\ trail \in [Withdrawals -> Seq(Actions)]
  /\ errand \in [SellerCalls \cup AdminCalls -> Errands \cup {Free}]

-----------------------------------------------------------------------------
(* What holds however calls overlap *)

(***************************************************************************)
(* R15.6 with overlaps.  What a seller has asked for is covered by what    *)
(* the wallet was given, as many times as creations can be under way at    *)
(* once: each of them may find the same balance, since create sums it up   *)
(* without a lock, but none is taken in on a balance that a hold written   *)
(* before its check has used up.  With one slot this is R15.6.             *)
(***************************************************************************)
HoldsAreCovered ==
  \A s \in Sellers :
    Booked(s, {"SELLER_PAYOUT_PENDING"}) <= Cardinality(SellerCalls) * Credits(s)

\* How often an action on the request was recorded.
Times(w, action) == Cardinality({i \in DOMAIN trail[w] : trail[w][i] = action})

\* The status that an action leaves behind.
StatusOf(action) ==
  CASE action = "WITHDRAWAL_HOLD" -> "pending_admin_review"
    [] action = "WITHDRAWAL_PAYOUT" -> "paid"
    [] action = "WITHDRAWAL_REJECTED" -> "rejected"

(***************************************************************************)
(* Row, ledger, notices and audit trail tell one story of a request,       *)
(* although decisions may overlap: the row has the status of the last      *)
(* action on the trail, and there is one entry and one notice for each     *)
(* action (R16.2 to R16.4, R20.3).  A request is decided no more often     *)
(* than decisions can be under way at once; with one slot, once.           *)
(***************************************************************************)
OneStory ==
  \A w \in Withdrawals :
    LET told(type, event, action) ==
          /\ Cardinality(Entries(w, type)) = Times(w, action)
          /\ notices[w][event] = Times(w, action)
    IN  /\ request[w].status =
             IF trail[w] = <<>> THEN "absent" ELSE StatusOf(trail[w][Len(trail[w])])
        /\ told("SELLER_PAYOUT_PENDING", "WITHDRAWAL_REQUESTED", "WITHDRAWAL_HOLD")
        /\ told("SELLER_PAYOUT_SENT", "WITHDRAWAL_PAID", "WITHDRAWAL_PAYOUT")
        /\ told("ADJUSTMENT", "WITHDRAWAL_REJECTED", "WITHDRAWAL_REJECTED")
        /\ Times(w, "WITHDRAWAL_HOLD") <= 1
        /\ Times(w, "WITHDRAWAL_PAYOUT") + Times(w, "WITHDRAWAL_REJECTED")
             <= Cardinality(AdminCalls)

(***************************************************************************)
(* Whoever pages to the end of the ledger has seen every entry that was    *)
(* there at the beginning, and nothing twice, newest first, although       *)
(* entries of the same and of earlier dates are written meanwhile (R14.3). *)
(***************************************************************************)
PagesAreComplete ==
  reading # Unread =>
    /\ \A i, j \in DOMAIN reading.shown :
         i < j => \A e \in reading.shown[i], f \in reading.shown[j] : Newer(e, f)
    /\ ~reading.more => reading.due \subseteq UNION Range(reading.shown)

-----------------------------------------------------------------------------
(* A claim of a comment that the code does not meet, even one call at a    *)
(* time                                                                    *)

(***************************************************************************)
(* A request costs its seller its amount at most: the hold lowers the      *)
(* balance "until either an ADJUSTMENT compensates it (rejection) or a     *)
(* SELLER_PAYOUT_SENT confirms it".                                        *)
(***************************************************************************)
CostsItsAmount ==
  \A w \in Withdrawals :
    Cardinality(Entries(w, "SELLER_PAYOUT_PENDING") \cup Entries(w, "SELLER_PAYOUT_SENT"))
      <= 1 + Cardinality(Entries(w, "ADJUSTMENT"))
=============================================================================
