-------------------------- MODULE OutboxDispatcher --------------------------
(***************************************************************************)
(* The notification outbox and the cron job that drains it.  A row is      *)
(* written in the transaction of the event it tells of; every few seconds  *)
(* drain reads a batch of pending rows, oldest first, and for each row     *)
(* that is not in backoff calls an adapter and then records the outcome.   *)
(*                                                                         *)
(* Nothing keeps one drain from overlapping the next, and the outcome is   *)
(* recorded by id with the attempt count read at the start of the drain.   *)
(* The backoff of a row grows with its attempt count and is measured from  *)
(* its creation, so what time has done for a row is one number: the        *)
(* highest attempt count whose backoff is over.                            *)
(***************************************************************************)
EXTENDS Integers, Sequences, FiniteSets

CONSTANTS
  MaxRows,      \* bound: rows written to the outbox
  MaxRetries,   \* MAX_RETRIES, 5 in the code
  BatchSize,    \* BATCH_SIZE, 50 in the code
  Drains,       \* drains that may overlap
  MaxStops      \* bound: drains that end before they have recorded an outcome

ASSUME OutboxAssumption ==
  /\ {MaxRows, MaxStops} \subseteq Nat
  /\ {MaxRetries, BatchSize} \subseteq Nat \ {0}

VARIABLES
  outbox,     \* the rows, oldest first
  patience,   \* patience[i]: the highest attempt count whose backoff is over
  tries,      \* tries[i]: times an adapter was called for row i
  delivered,  \* rows an adapter has delivered
  drain,      \* drain[p]: the rows, as read, that drain p has still to handle
  stops       \* drains that ended early so far

outboxVars == <<outbox, patience, tries, delivered, drain, stops>>

RowIds == 1..MaxRows

NewRow == [status |-> "pending", attempts |-> 0]

NoDrain == [todo |-> {}, stage |-> "idle"]

OutboxInit ==
  /\ outbox = <<>>
  /\ patience = [i \in RowIds |-> 0]
  /\ tries = [i \in RowIds |-> 0]
  /\ delivered = {}
  /\ drain = [p \in Drains |-> NoDrain]
  /\ stops = 0

\* A transaction that tells of an event commits.
Enqueue ==
  /\ Len(outbox) < MaxRows
  /\ outbox' = Append(outbox, NewRow)
  /\ UNCHANGED <<patience, tries, delivered, drain, stops>>

-----------------------------------------------------------------------------
(* A drain *)

\* Rows that still have attempts left, as the query selects them.
Waiting(i) == outbox[i].status = "pending" /\ outbox[i].attempts < MaxRetries

\* The batch: the limit is applied to the oldest waiting rows.
Batch ==
  {i \in DOMAIN outbox :
     /\ Waiting(i)
     /\ Cardinality({j \in DOMAIN outbox : j < i /\ Waiting(j)}) < BatchSize}

\* The backoff is over, for the attempt count as read.
Due(i) == outbox[i].attempts <= patience[i]

\* Time passes until a row in backoff is due; only then does it matter.
BackoffEnds(i) ==
  /\ i \in DOMAIN outbox
  /\ Waiting(i) /\ ~Due(i)
  /\ patience' = [patience EXCEPT ![i] = outbox[i].attempts]
  /\ UNCHANGED <<outbox, tries, delivered, drain, stops>>

\* A row as the drain has read it.
AsRead(i) == [row |-> i, attempts |-> outbox[i].attempts]

\* findMany, and the rows the loop will not skip; the clock is read once, so
\* which rows those are is settled here.
DrainStart(p) ==
  /\ drain[p] = NoDrain
  /\ LET todo == {AsRead(i) : i \in {i \in Batch : Due(i)}}
     IN  /\ todo # {}
         /\ drain' = [drain EXCEPT ![p] = [todo |-> todo, stage |-> "send"]]
  /\ UNCHANGED <<outbox, patience, tries, delivered, stops>>

\* The row the loop is at: rows are handled oldest first.
Current(p) == CHOOSE r \in drain[p].todo : \A q \in drain[p].todo : r.row <= q.row

\* The loop goes on with the next row.
NextRow(p) ==
  LET rest == drain[p].todo \ {Current(p)}
  IN  drain' = [drain EXCEPT ![p] =
        IF rest = {} THEN NoDrain ELSE [todo |-> rest, stage |-> "send"]]

Stage(p, stage) == drain' = [drain EXCEPT ![p].stage = stage]

\* Counting stops at MaxRetries.
CountTry(i) ==
  tries' = [tries EXCEPT ![i] = IF @ < MaxRetries THEN @ + 1 ELSE @]

\* The adapter is called: it delivers, or it throws.
Send(p) ==
  LET i == Current(p).row
  IN  /\ drain[p].stage = "send"
      /\ CountTry(i)
      /\ \/ /\ delivered' = delivered \cup {i}
            /\ Stage(p, "sent")
         \/ /\ UNCHANGED delivered
            /\ Stage(p, "failed")
      /\ UNCHANGED <<outbox, patience, stops>>

\* Fault: the attempt is counted when it is made and again when it is recorded.
MarkSentCountingTwice(p) ==
  LET r == Current(p)
  IN  /\ drain[p].stage = "sent"
      /\ outbox' = [outbox EXCEPT ![r.row] =
           [status |-> "sent", attempts |-> r.attempts + 2]]
      /\ NextRow(p)
      /\ UNCHANGED <<patience, tries, delivered, stops>>

MarkSent(p) ==
  LET r == Current(p)
  IN  /\ drain[p].stage = "sent"
      /\ outbox' = [outbox EXCEPT ![r.row] =
           [status |-> "sent", attempts |-> r.attempts + 1]]
      /\ NextRow(p)
      /\ UNCHANGED <<patience, tries, delivered, stops>>

\* The update that marks the row fails, which the same catch takes for a
\* failure to send.
MarkSentFails(p) ==
  /\ drain[p].stage = "sent"
  /\ stops < MaxStops
  /\ stops' = stops + 1
  /\ Stage(p, "failed")
  /\ UNCHANGED <<outbox, patience, tries, delivered>>

\* Fault: the counter runs one ahead.
StatusOneEarly(attempts) == IF attempts >= MaxRetries - 1 THEN "failed" ELSE "pending"

\* Fault: a row is never given up, although the query no longer selects it.
StatusPending(attempts) == "pending"

StatusAfter(attempts) == IF attempts >= MaxRetries THEN "failed" ELSE "pending"

MarkFailed(p) ==
  LET r == Current(p)
      attempts == r.attempts + 1
  IN  /\ drain[p].stage = "failed"
      /\ outbox' = [outbox EXCEPT ![r.row] =
           [status |-> StatusAfter(attempts), attempts |-> attempts]]
      /\ NextRow(p)
      /\ UNCHANGED <<patience, tries, delivered, stops>>

\* The process dies, or the update in the catch fails and ends the loop.
DrainStops(p) ==
  /\ drain[p] # NoDrain
  /\ stops < MaxStops
  /\ stops' = stops + 1
  /\ drain' = [drain EXCEPT ![p] = NoDrain]
  /\ UNCHANGED <<outbox, patience, tries, delivered>>

DrainGoesOn(p) == Send(p) \/ MarkSent(p) \/ MarkFailed(p)

OutboxNext ==
  \/ Enqueue
  \/ \E i \in RowIds : BackoffEnds(i)
  \/ \E p \in Drains :
       DrainStart(p) \/ DrainGoesOn(p) \/ MarkSentFails(p) \/ DrainStops(p)

(***************************************************************************)
(* The cron job starts drains for ever, a drain that runs does not stand   *)
(* still, and time passes.                                                 *)
(***************************************************************************)
OutboxFairness ==
  /\ \A p \in Drains : WF_outboxVars(DrainStart(p)) /\ WF_outboxVars(DrainGoesOn(p))
  /\ \A i \in RowIds : WF_outboxVars(BackoffEnds(i))

OutboxSpec == OutboxInit /\ [][OutboxNext]_outboxVars /\ OutboxFairness

-----------------------------------------------------------------------------
(* Types *)

OutboxRows ==
  [status : {"pending", "sent", "failed"}, attempts : 0..MaxRetries]

\* Type invariant.
OutboxTypeOK ==
  /\ outbox \in Seq(OutboxRows) /\ Len(outbox) <= MaxRows
  /\ patience \in [RowIds -> 0..MaxRetries]
  /\ tries \in [RowIds -> 0..MaxRetries]
  /\ delivered \subseteq DOMAIN outbox
  /\ drain \in [Drains ->
       [todo : SUBSET [row : RowIds, attempts : 0..MaxRetries - 1],
        stage : {"idle", "send", "sent", "failed"}]]
  /\ stops \in 0..MaxStops

-----------------------------------------------------------------------------
(* What holds however drains overlap *)

(***************************************************************************)
(* A row that says sent has been delivered (R19.10), and a row is given up *)
(* only after MAX_RETRIES calls of its adapter: the stale attempt count    *)
(* that an overlapping drain writes can only lag behind the calls made.    *)
(***************************************************************************)
OutcomesAreEarned ==
  \A i \in DOMAIN outbox :
    /\ outbox[i].status = "sent" => i \in delivered
    /\ outbox[i].status = "failed" => tries[i] = MaxRetries
    /\ outbox[i].attempts <= tries[i]

(***************************************************************************)
(* No row stays pending for ever (the test "no row stays pending forever"): *)
(* neither rows in backoff that fill the batch nor an overlapping drain    *)
(* that turns a sent row back keep a row from its end.                     *)
(***************************************************************************)
EveryRowEnds ==
  \A i \in RowIds :
    i \in DOMAIN outbox ~> [](i \in DOMAIN outbox /\ outbox[i].status # "pending")
=============================================================================
