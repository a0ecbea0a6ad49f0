------------------------------ MODULE DealRows ------------------------------
(***************************************************************************)
(* The deal_room and deal_participant rows that every deal operation       *)
(* shares, and the requests in flight against them.                        *)
(*                                                                         *)
(* A handler runs in one database transaction at the default isolation     *)
(* level (runInTransaction passes no option, so PostgreSQL runs READ       *)
(* COMMITTED).  It loads the deal with a plain SELECT, decides on what it  *)
(* saw, and later writes by primary key without re-checking the status.    *)
(* So a handler is two steps here: one that reads and opens a call holding *)
(* the snapshot, and one that writes and commits.  The writes of one       *)
(* transaction become visible together; other calls may run in between.    *)
(***************************************************************************)
EXTENDS DealStatus, Integers, FiniteSets

CONSTANTS
  Deals,      \* deal rooms
  Users,      \* people who take part in deals
  Terms,      \* values of the hashed columns: title, description, amount, currency
  Requests,   \* slots for calls in flight; one slot means no two calls overlap
  Nobody      \* no participant on that side yet

ASSUME NobodyAssumption == Nobody \notin Users

VARIABLES
  status,     \* status[d]: the status column, or Uncreated
  terms,      \* terms[d]: the hashed columns of the deal row
  party,      \* party[d][role]: the participant row's user, or Nobody
  call        \* call[r]: the call that slot r is running, or Idle

Uncreated == "UNCREATED"

RowStatuses == DealStatuses \cup {Uncreated}

\* A call in flight: the operation, its deal and caller, and what the handler
\* keeps of what it read for the steps that follow.
Call(op, d, u, kept) == [op |-> op, deal |-> d, by |-> u, kept |-> kept]

Idle == [op |-> "idle"]

IsIdle(r) == call[r].op = "idle"

Open(r, op, d, u, kept) ==
  /\ IsIdle(r)
  /\ call' = [call EXCEPT ![r] = Call(op, d, u, kept)]

\* The call goes on to another step and keeps something else.
Become(r, op, kept) ==
  call' = [call EXCEPT ![r] = Call(op, call[r].deal, call[r].by, kept)]

Close(r) == call' = [call EXCEPT ![r] = Idle]

RoleOf(d, u) == CHOOSE role \in Roles : party[d][role] = u

IsParticipant(d, u) == \E role \in Roles : party[d][role] = u

(***************************************************************************)
(* DealService.transition: the check is made on the status the caller read *)
(* earlier (from), the update on whatever row is there now.                *)
(***************************************************************************)
Transition(d, from, to) ==
  /\ from \notin TerminalDealStatuses
  /\ CanTransition(from, to)
  /\ status' = [status EXCEPT ![d] = to]

(***************************************************************************)
(* A transaction may end without effect before it commits: a later check   *)
(* of the handler throws, the database reports an error, or the process    *)
(* dies.  PostgreSQL rolls everything back and only the call is gone.      *)
(***************************************************************************)
Abort(r) ==
  /\ ~IsIdle(r)
  /\ Close(r)
  /\ UNCHANGED <<status, terms, party>>

\* The columns of the deal rows hold values of their types.
RowsTypeOK ==
  /\ status \in [Deals -> RowStatuses]
  /\ terms \in [Deals -> Terms]
  /\ party \in [Deals -> [Roles -> Users \cup {Nobody}]]
=============================================================================
