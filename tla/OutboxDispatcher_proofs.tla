---------------------- MODULE OutboxDispatcher_proofs ----------------------
(***************************************************************************)
(* Proofs about OutboxDispatcher for any number of rows and overlapping    *)
(* drains, any limit of retries and any batch size.                        *)
(***************************************************************************)
EXTENDS OutboxDispatcher, SequenceTheorems, WellFoundedInduction, TLAPS

-----------------------------------------------------------------------------
(* The inductive invariant *)

\* The attempt counts that a drain has read lag behind the calls made.
ReadsLag ==
  \A p \in Drains : \A r \in drain[p].todo :
    r.row \in DOMAIN outbox /\ r.attempts <= tries[r.row]

\* A drain is idle when it has no rows left.
IdleIsDone ==
  \A p \in Drains : drain[p].stage = "idle" <=> drain[p].todo = {}

\* Once the adapter was called for the current row, that call is counted over
\* and above the attempts read; and what the drain takes for sent is delivered.
CallsCount ==
  \A p \in Drains : drain[p].stage \in {"sent", "failed"} =>
    /\ Current(p).attempts < tries[Current(p).row]
    /\ drain[p].stage = "sent" => Current(p).row \in delivered

OutboxInv ==
  OutboxTypeOK /\ OutcomesAreEarned /\ ReadsLag /\ IdleIsDone /\ CallsCount

-----------------------------------------------------------------------------
(* Rows and drains *)

LEMMA Bounds ==
  /\ MaxRows \in Nat /\ MaxStops \in Nat
  /\ MaxRetries \in Nat \ {0} /\ BatchSize \in Nat \ {0}
BY OutboxAssumption

Reads == [row : RowIds, attempts : 0..MaxRetries - 1]

Stages == {"idle", "send", "sent", "failed"}

\* A drain with rows left is at one of them.
LEMMA CurrentIsLeft ==
  ASSUME NEW p \in Drains, drain[p].todo \subseteq Reads, drain[p].todo # {}
  PROVE  Current(p) \in drain[p].todo
<1>1. PICK todo : todo = drain[p].todo
  OBVIOUS
<1>2. PICK rows : rows = {r.row : r \in todo}
  OBVIOUS
<1>3. \A r \in todo : r.row \in Nat
  BY <1>1 DEF Reads, RowIds
<1>4. rows \subseteq Nat /\ rows # {}
  BY <1>1, <1>2, <1>3
<1>5. \E n \in rows : \A m \in rows : <<m, n>> \notin OpToRel(<, Nat)
  BY <1>4, NatLessThanWellFounded, WFMin
<1>6. PICK n \in rows : \A m \in rows : <<m, n>> \notin OpToRel(<, Nat)
  BY <1>5
<1>7. \A m \in rows : n <= m
  <2> SUFFICES ASSUME NEW m \in rows, m < n PROVE FALSE
    BY <1>4
  <2> QED
    BY <1>4, <1>6 DEF OpToRel
<1>8. \E r \in todo : \A q \in todo : r.row <= q.row
  <2>1. PICK r \in todo : r.row = n
    BY <1>2
  <2> QED
    BY <1>2, <1>7, <2>1
<1> QED
  BY <1>1, <1>8 DEF Current

\* What is known of the row a drain is at.
LEMMA CurrentFields ==
  ASSUME OutboxInv, NEW p \in Drains, drain[p].stage # "idle"
  PROVE  /\ Current(p) \in drain[p].todo
         /\ Current(p).row \in RowIds /\ Current(p).row \in DOMAIN outbox
         /\ Current(p).attempts \in 0..MaxRetries - 1
         /\ Current(p).attempts <= tries[Current(p).row]
         /\ tries[Current(p).row] \in 0..MaxRetries
<1>1. drain[p].todo \subseteq Reads /\ drain[p].todo # {}
  BY DEF OutboxInv, OutboxTypeOK, IdleIsDone, Reads
<1>2. Current(p) \in drain[p].todo
  BY <1>1, CurrentIsLeft
<1>3. Current(p).row \in RowIds /\ Current(p).attempts \in 0..MaxRetries - 1
  BY <1>1, <1>2 DEF Reads
<1>4. Current(p).row \in DOMAIN outbox
        /\ Current(p).attempts <= tries[Current(p).row]
  BY <1>2 DEF OutboxInv, ReadsLag
<1> QED
  BY <1>2, <1>3, <1>4 DEF OutboxInv, OutboxTypeOK

\* The rows written so far have ids in range.
LEMMA RowsKnown ==
  ASSUME OutboxTypeOK
  PROVE  /\ DOMAIN outbox = 1..Len(outbox) /\ Len(outbox) \in Nat
         /\ DOMAIN outbox \subseteq RowIds
         /\ \A i \in DOMAIN outbox : outbox[i] \in OutboxRows
<1>1. outbox \in Seq(OutboxRows) /\ Len(outbox) <= MaxRows
  BY DEF OutboxTypeOK
<1>2. Len(outbox) \in Nat /\ DOMAIN outbox = 1..Len(outbox)
        /\ outbox \in [1..Len(outbox) -> OutboxRows]
  BY <1>1, LenProperties
<1> QED
  BY <1>1, <1>2, Bounds DEF RowIds

\* A drain that goes on with the next row keeps its reads and calls no adapter.
LEMMA NextRowKept ==
  ASSUME OutboxInv, NEW p \in Drains, drain[p].stage # "idle", NextRow(p)
  PROVE  /\ drain' \in [Drains -> [todo : SUBSET Reads, stage : Stages]]
         /\ \A q \in Drains : drain'[q].todo \subseteq drain[q].todo
         /\ IdleIsDone'
         /\ \A q \in Drains : drain'[q].stage \in {"sent", "failed"} =>
              q # p /\ drain'[q] = drain[q]
<1>1. drain \in [Drains -> [todo : SUBSET Reads, stage : Stages]]
  BY DEF OutboxInv, OutboxTypeOK, Reads, Stages
<1>2. PICK rest : rest = drain[p].todo \ {Current(p)}
  OBVIOUS
<1>3. PICK next : next = IF rest = {} THEN NoDrain
                         ELSE [todo |-> rest, stage |-> "send"]
  OBVIOUS
<1>4. next \in [todo : SUBSET Reads, stage : Stages]
        /\ next.todo \subseteq drain[p].todo
        /\ (next.stage = "idle" <=> next.todo = {})
        /\ next.stage \notin {"sent", "failed"}
  BY <1>1, <1>2, <1>3 DEF NoDrain, Stages
<1>5. drain' = [drain EXCEPT ![p] = next]
  BY <1>2, <1>3 DEF NextRow
<1>6. \A q \in Drains : drain'[q] = IF q = p THEN next ELSE drain[q]
  BY <1>1, <1>5
<1>7. drain' \in [Drains -> [todo : SUBSET Reads, stage : Stages]]
  BY <1>1, <1>4, <1>5
<1>8. IdleIsDone'
  BY <1>4, <1>6 DEF OutboxInv, IdleIsDone
<1> QED
  BY <1>4, <1>6, <1>7, <1>8

\* A drain that goes on with the same row.
LEMMA StageKept ==
  ASSUME OutboxInv, NEW p \in Drains, drain[p].stage # "idle",
         NEW stage \in Stages \ {"idle"}, Stage(p, stage)
  PROVE  /\ drain' \in [Drains -> [todo : SUBSET Reads, stage : Stages]]
         /\ \A q \in Drains : drain'[q].todo = drain[q].todo
         /\ \A q \in Drains : Current(q)' = Current(q)
         /\ IdleIsDone'
         /\ drain'[p].stage = stage
         /\ \A q \in Drains : q # p => drain'[q].stage = drain[q].stage
<1>1. drain \in [Drains -> [todo : SUBSET Reads, stage : Stages]]
  BY DEF OutboxInv, OutboxTypeOK, Reads, Stages
<1>2. drain' = [drain EXCEPT ![p].stage = stage]
  BY DEF Stage
<1>3. /\ drain' \in [Drains -> [todo : SUBSET Reads, stage : Stages]]
      /\ \A q \in Drains : drain'[q].todo = drain[q].todo
      /\ drain'[p].stage = stage
      /\ \A q \in Drains : q # p => drain'[q].stage = drain[q].stage
  BY <1>1, <1>2
<1>4. \A q \in Drains : Current(q)' = Current(q)
  BY <1>3 DEF Current
<1>5. IdleIsDone'
  BY <1>3 DEF OutboxInv, IdleIsDone, Stages
<1> QED
  BY <1>3, <1>4, <1>5

-----------------------------------------------------------------------------
(* The steps *)

LEMMA InitOutbox == OutboxInit => OutboxInv
<1> SUFFICES ASSUME OutboxInit PROVE OutboxInv
  OBVIOUS
<1>1. outbox = <<>> /\ DOMAIN outbox = {} /\ Len(outbox) = 0
        /\ outbox \in Seq(OutboxRows)
  BY DEF OutboxInit
<1>2. \A p \in Drains : drain[p].todo = {} /\ drain[p].stage = "idle"
  BY DEF OutboxInit, NoDrain
<1>3. drain \in [Drains ->
        [todo : SUBSET [row : RowIds, attempts : 0..MaxRetries - 1],
         stage : {"idle", "send", "sent", "failed"}]]
  BY DEF OutboxInit, NoDrain
<1>4. OutboxTypeOK
  BY <1>1, <1>3, Bounds DEF OutboxInit, OutboxTypeOK
<1>5. OutcomesAreEarned
  BY <1>1 DEF OutcomesAreEarned
<1> QED
  BY <1>2, <1>4, <1>5 DEF OutboxInv, ReadsLag, IdleIsDone, CallsCount

LEMMA EnqueueKept ==
  ASSUME OutboxInv, Enqueue
  PROVE  OutboxInv'
<1>1. OutboxTypeOK /\ outbox \in Seq(OutboxRows) /\ NewRow \in OutboxRows
  BY Bounds DEF OutboxInv, OutboxTypeOK, NewRow, OutboxRows
<1>2. /\ outbox' \in Seq(OutboxRows) /\ Len(outbox') = Len(outbox) + 1
      /\ \A i \in 1..Len(outbox) : outbox'[i] = outbox[i]
      /\ outbox'[Len(outbox) + 1] = NewRow
  BY <1>1, AppendProperties DEF Enqueue
<1>3. DOMAIN outbox' = 1..Len(outbox) + 1 /\ DOMAIN outbox = 1..Len(outbox)
        /\ Len(outbox) \in Nat
  BY <1>1, <1>2, LenProperties
<1>4. Len(outbox') <= MaxRows
  BY <1>1, <1>2, <1>3, Bounds DEF Enqueue
<1>5. OutboxTypeOK'
  BY <1>1, <1>2, <1>3, <1>4 DEF Enqueue, OutboxTypeOK
<1>6. ASSUME NEW i \in DOMAIN outbox'
      PROVE  /\ outbox'[i].status = "sent" => i \in delivered
             /\ outbox'[i].status = "failed" => tries[i] = MaxRetries
             /\ outbox'[i].attempts <= tries[i]
  <2>1. CASE i \in DOMAIN outbox
    BY <1>2, <1>3, <2>1 DEF OutboxInv, OutcomesAreEarned
  <2>2. CASE i = Len(outbox) + 1
    <3>1. outbox'[i].status = "pending" /\ outbox'[i].attempts = 0
      BY <1>2, <2>2 DEF NewRow
    <3>2. tries[i] \in Nat
      BY <1>3, <1>4, <1>2, <2>2, Bounds DEF OutboxInv, OutboxTypeOK, RowIds
    <3> QED
      BY <3>1, <3>2
  <2> QED
    BY <1>3, <1>6, <2>1, <2>2
<1>7. OutcomesAreEarned'
  BY <1>6 DEF Enqueue, OutcomesAreEarned
<1>8. ReadsLag'
  BY <1>3 DEF Enqueue, OutboxInv, ReadsLag
<1>9. IdleIsDone' /\ CallsCount'
  BY DEF Enqueue, OutboxInv, IdleIsDone, CallsCount, Current
<1> QED
  BY <1>5, <1>7, <1>8, <1>9 DEF OutboxInv

LEMMA BackoffKept ==
  ASSUME OutboxInv, NEW i \in RowIds, BackoffEnds(i)
  PROVE  OutboxInv'
<1>1. patience' \in [RowIds -> 0..MaxRetries]
  BY RowsKnown DEF OutboxInv, OutboxTypeOK, BackoffEnds, OutboxRows
<1> QED
  BY <1>1 DEF BackoffEnds, OutboxInv, OutboxTypeOK, OutcomesAreEarned, ReadsLag,
     IdleIsDone, CallsCount, Current

LEMMA DrainStartKept ==
  ASSUME OutboxInv, NEW p \in Drains, DrainStart(p)
  PROVE  OutboxInv'
<1>1. PICK todo : todo = {AsRead(i) : i \in {i \in Batch : Due(i)}}
  OBVIOUS
<1>2. todo # {} /\ drain' = [drain EXCEPT ![p] = [todo |-> todo, stage |-> "send"]]
  BY <1>1 DEF DrainStart
<1>3. UNCHANGED <<outbox, patience, tries, delivered, stops>>
  BY DEF DrainStart
<1>4. ASSUME NEW r \in todo
      PROVE  r \in Reads /\ r.row \in DOMAIN outbox /\ r.attempts <= tries[r.row]
  <2>1. PICK i \in Batch : r = AsRead(i)
    BY <1>1
  <2>2. i \in DOMAIN outbox /\ outbox[i].attempts < MaxRetries
    BY <2>1 DEF Batch, Waiting
  <2>3. i \in RowIds /\ outbox[i].attempts \in 0..MaxRetries
    BY <2>2, RowsKnown DEF OutboxInv, OutboxRows
  <2>4. outbox[i].attempts <= tries[i]
    BY <2>2 DEF OutboxInv, OutcomesAreEarned
  <2>5. outbox[i].attempts \in 0..MaxRetries - 1
    BY <2>2, <2>3, Bounds
  <2>6. r.row = i /\ r.attempts = outbox[i].attempts /\ r \in Reads
    BY <2>1, <2>3, <2>5 DEF AsRead, Reads
  <2> QED
    BY <2>2, <2>4, <2>6
<1>5. drain \in [Drains -> [todo : SUBSET Reads, stage : Stages]]
  BY DEF OutboxInv, OutboxTypeOK, Reads, Stages
<1>6. drain' \in [Drains -> [todo : SUBSET Reads, stage : Stages]]
  BY <1>2, <1>4, <1>5 DEF Stages
<1>7. \A q \in Drains :
        drain'[q] = IF q = p THEN [todo |-> todo, stage |-> "send"] ELSE drain[q]
  BY <1>2, <1>5
<1>8. OutboxTypeOK'
  BY <1>3, <1>6 DEF OutboxInv, OutboxTypeOK, Reads, Stages
<1>9. OutcomesAreEarned'
  BY <1>3 DEF OutboxInv, OutcomesAreEarned
<1>10. ReadsLag' /\ IdleIsDone'
  BY <1>2, <1>3, <1>4, <1>7 DEF OutboxInv, ReadsLag, IdleIsDone
<1>11. CallsCount'
  <2> SUFFICES ASSUME NEW q \in Drains, drain'[q].stage \in {"sent", "failed"}
               PROVE  /\ Current(q)'.attempts < tries[Current(q)'.row]
                      /\ drain'[q].stage = "sent" => Current(q)'.row \in delivered
    BY <1>3 DEF CallsCount
  <2>1. drain'[q] = drain[q]
    BY <1>7
  <2>2. Current(q)' = Current(q)
    BY <2>1 DEF Current
  <2> QED
    BY <2>1, <2>2 DEF OutboxInv, CallsCount
<1> QED
  BY <1>8, <1>9, <1>10, <1>11 DEF OutboxInv

\* The call is counted, up to the limit, which no attempt count read reaches.
LEMMA SendKept ==
  ASSUME OutboxInv, NEW p \in Drains, Send(p)
  PROVE  OutboxInv'
<1>1. PICK i : i = Current(p).row
  OBVIOUS
<1>2. drain[p].stage = "send" /\ CountTry(i) /\ UNCHANGED <<outbox, patience, stops>>
  BY <1>1 DEF Send
<1>3. PICK stage \in {"sent", "failed"} :
        /\ Stage(p, stage)
        /\ delivered' = IF stage = "sent" THEN delivered \cup {i} ELSE delivered
  BY <1>1 DEF Send
<1>4. drain[p].stage # "idle" /\ stage \in Stages \ {"idle"}
  BY <1>2 DEF Stages
<1>5. /\ Current(p) \in drain[p].todo /\ i \in RowIds /\ i \in DOMAIN outbox
      /\ Current(p).attempts \in 0..MaxRetries - 1
      /\ Current(p).attempts <= tries[i]
  BY <1>1, <1>4, CurrentFields
<1>6. tries \in [RowIds -> 0..MaxRetries]
  BY DEF OutboxInv, OutboxTypeOK
<1>7. /\ tries' \in [RowIds -> 0..MaxRetries]
      /\ \A j \in RowIds : tries[j] <= tries'[j]
      /\ \A j \in RowIds : tries[j] = MaxRetries => tries'[j] = MaxRetries
  BY <1>2, <1>5, <1>6, Bounds DEF CountTry
<1>8. Current(p).attempts < tries'[i]
  BY <1>2, <1>5, <1>6, Bounds DEF CountTry
<1>9. /\ drain' \in [Drains -> [todo : SUBSET Reads, stage : Stages]]
      /\ \A q \in Drains : drain'[q].todo = drain[q].todo
      /\ \A q \in Drains : Current(q)' = Current(q)
      /\ IdleIsDone'
      /\ drain'[p].stage = stage
      /\ \A q \in Drains : q # p => drain'[q].stage = drain[q].stage
  BY <1>3, <1>4, StageKept
<1>10. OutboxTypeOK'
  BY <1>2, <1>3, <1>5, <1>7, <1>9 DEF OutboxInv, OutboxTypeOK, Reads, Stages
<1>11. DOMAIN outbox \subseteq RowIds
  BY RowsKnown DEF OutboxInv
<1>12. OutcomesAreEarned'
  <2>1. ASSUME NEW j \in DOMAIN outbox PROVE outbox[j].attempts <= tries'[j]
    <3>1. outbox[j].attempts \in Nat /\ tries[j] \in Nat /\ tries'[j] \in Nat
      BY <1>6, <1>7, <1>11, Bounds, RowsKnown DEF OutboxInv, OutboxRows
    <3> QED
      BY <1>7, <1>11, <3>1 DEF OutboxInv, OutcomesAreEarned
  <2> QED
    BY <1>2, <1>3, <1>7, <1>11, <2>1 DEF OutboxInv, OutcomesAreEarned
<1>13. ReadsLag'
  <2>1. ASSUME NEW q \in Drains, NEW r \in drain[q].todo
        PROVE  r.row \in DOMAIN outbox /\ r.attempts <= tries'[r.row]
    <3>1. r.row \in DOMAIN outbox /\ r.attempts <= tries[r.row]
      BY DEF OutboxInv, ReadsLag
    <3>2. r.attempts \in Nat /\ r.row \in RowIds
      BY Bounds DEF OutboxInv, OutboxTypeOK
    <3>3. tries[r.row] \in Nat /\ tries'[r.row] \in Nat
      BY <1>6, <1>7, <3>2, Bounds
    <3> QED
      BY <1>7, <3>1, <3>2, <3>3
  <2> QED
    BY <1>2, <1>9, <2>1 DEF ReadsLag
<1>14. CallsCount'
  <2> SUFFICES ASSUME NEW q \in Drains, drain'[q].stage \in {"sent", "failed"}
               PROVE  /\ Current(q).attempts < tries'[Current(q).row]
                      /\ drain'[q].stage = "sent" => Current(q).row \in delivered'
    BY <1>9 DEF CallsCount
  <2>1. CASE q = p
    BY <1>1, <1>3, <1>8, <1>9, <2>1
  <2>2. CASE q # p
    <3>1. drain[q].stage \in {"sent", "failed"}
      BY <1>9, <2>2
    <3>2. /\ Current(q).attempts < tries[Current(q).row]
          /\ drain[q].stage = "sent" => Current(q).row \in delivered
      BY <3>1 DEF OutboxInv, CallsCount
    <3>3. Current(q).row \in RowIds /\ Current(q).attempts \in Nat
      BY <3>1, CurrentFields, Bounds
    <3>4. tries[Current(q).row] \in Nat /\ tries'[Current(q).row] \in Nat
            /\ tries[Current(q).row] <= tries'[Current(q).row]
      BY <1>6, <1>7, <3>3, Bounds
    <3> QED
      BY <1>3, <1>9, <2>2, <3>2, <3>3, <3>4
  <2> QED
    BY <2>1, <2>2
<1> QED
  BY <1>9, <1>10, <1>12, <1>13, <1>14 DEF OutboxInv

(***************************************************************************)
(* An outcome is recorded with the attempt count that was read, which the  *)
(* call just made covers, whatever other drains have written meanwhile.    *)
(***************************************************************************)
LEMMA OutcomeKept ==
  ASSUME OutboxInv, NEW p \in Drains, drain[p].stage \in {"sent", "failed"},
         NEW row \in OutboxRows,
         row.attempts = Current(p).attempts + 1,
         row.status = "sent" => drain[p].stage = "sent",
         row.status = "failed" => row.attempts >= MaxRetries,
         outbox' = [outbox EXCEPT ![Current(p).row] = row],
         NextRow(p), UNCHANGED <<patience, tries, delivered, stops>>
  PROVE  OutboxInv'
<1>1. PICK i : i = Current(p).row
  OBVIOUS
<1>2. /\ i \in DOMAIN outbox /\ Current(p).attempts \in 0..MaxRetries - 1
      /\ Current(p).attempts < tries[i] /\ tries[i] \in 0..MaxRetries
      /\ drain[p].stage = "sent" => i \in delivered
  BY <1>1, CurrentFields DEF OutboxInv, CallsCount
<1>3. row.attempts <= tries[i] /\ (row.status = "failed" => tries[i] = MaxRetries)
  BY <1>2, Bounds
<1>4. outbox \in Seq(OutboxRows) /\ i \in 1..Len(outbox)
        /\ DOMAIN outbox = 1..Len(outbox)
  BY <1>2, RowsKnown DEF OutboxInv, OutboxTypeOK
<1>5. /\ outbox' \in Seq(OutboxRows) /\ Len(outbox') = Len(outbox)
      /\ \A j \in 1..Len(outbox) : outbox'[j] = IF j = i THEN row ELSE outbox[j]
  BY <1>1, <1>4, ExceptSeq
<1>6. DOMAIN outbox' = DOMAIN outbox
  BY <1>4, <1>5, LenProperties
<1>7. /\ drain' \in [Drains -> [todo : SUBSET Reads, stage : Stages]]
      /\ \A q \in Drains : drain'[q].todo \subseteq drain[q].todo
      /\ IdleIsDone'
      /\ \A q \in Drains : drain'[q].stage \in {"sent", "failed"} =>
           q # p /\ drain'[q] = drain[q]
  BY NextRowKept
<1>8. OutboxTypeOK'
  BY <1>5, <1>6, <1>7 DEF OutboxInv, OutboxTypeOK, Reads, Stages
<1>9. ASSUME NEW j \in DOMAIN outbox
      PROVE  /\ outbox'[j].status = "sent" => j \in delivered
             /\ outbox'[j].status = "failed" => tries[j] = MaxRetries
             /\ outbox'[j].attempts <= tries[j]
  <2>1. CASE j = i
    BY <1>2, <1>3, <1>4, <1>5, <2>1
  <2>2. CASE j # i
    BY <1>4, <1>5, <2>2 DEF OutboxInv, OutcomesAreEarned
  <2> QED
    BY <2>1, <2>2
<1>10. OutcomesAreEarned'
  BY <1>6, <1>9 DEF OutcomesAreEarned
<1>11. ReadsLag'
  BY <1>6, <1>7 DEF OutboxInv, ReadsLag
<1>12. CallsCount'
  <2> SUFFICES ASSUME NEW q \in Drains, drain'[q].stage \in {"sent", "failed"}
               PROVE  /\ Current(q)'.attempts < tries[Current(q)'.row]
                      /\ drain'[q].stage = "sent" => Current(q)'.row \in delivered
    BY DEF CallsCount
  <2>1. drain'[q] = drain[q]
    BY <1>7
  <2>2. Current(q)' = Current(q)
    BY <2>1 DEF Current
  <2> QED
    BY <2>1, <2>2 DEF OutboxInv, CallsCount
<1> QED
  BY <1>7, <1>8, <1>10, <1>11, <1>12 DEF OutboxInv

LEMMA MarkSentKept ==
  ASSUME OutboxInv, NEW p \in Drains, MarkSent(p)
  PROVE  OutboxInv'
<1>1. PICK row : row = [status |-> "sent", attempts |-> Current(p).attempts + 1]
  OBVIOUS
<1>2. Current(p).attempts \in 0..MaxRetries - 1
  BY CurrentFields DEF MarkSent
<1>3. /\ row \in OutboxRows /\ row.attempts = Current(p).attempts + 1
      /\ row.status = "sent"
  BY <1>1, <1>2, Bounds DEF OutboxRows
<1>4. /\ outbox' = [outbox EXCEPT ![Current(p).row] = row]
      /\ drain[p].stage = "sent" /\ NextRow(p)
      /\ UNCHANGED <<patience, tries, delivered, stops>>
  BY <1>1 DEF MarkSent
<1> QED
  BY <1>3, <1>4, OutcomeKept

LEMMA MarkFailedKept ==
  ASSUME OutboxInv, NEW p \in Drains, MarkFailed(p)
  PROVE  OutboxInv'
<1>1. PICK row : row = [status |-> StatusAfter(Current(p).attempts + 1),
                        attempts |-> Current(p).attempts + 1]
  OBVIOUS
<1>2. Current(p).attempts \in 0..MaxRetries - 1
  BY CurrentFields DEF MarkFailed
<1>3. /\ row \in OutboxRows /\ row.attempts = Current(p).attempts + 1
      /\ row.status # "sent"
      /\ row.status = "failed" => row.attempts >= MaxRetries
  BY <1>1, <1>2, Bounds DEF OutboxRows, StatusAfter
<1>4. /\ outbox' = [outbox EXCEPT ![Current(p).row] = row]
      /\ drain[p].stage = "failed" /\ NextRow(p)
      /\ UNCHANGED <<patience, tries, delivered, stops>>
  BY <1>1 DEF MarkFailed
<1> QED
  BY <1>3, <1>4, OutcomeKept

LEMMA MarkSentFailsKept ==
  ASSUME OutboxInv, NEW p \in Drains, MarkSentFails(p)
  PROVE  OutboxInv'
<1>1. drain[p].stage = "sent" /\ "failed" \in Stages \ {"idle"}
  BY DEF MarkSentFails, Stages
<1>2. /\ drain' \in [Drains -> [todo : SUBSET Reads, stage : Stages]]
      /\ \A q \in Drains : drain'[q].todo = drain[q].todo
      /\ \A q \in Drains : Current(q)' = Current(q)
      /\ IdleIsDone'
      /\ drain'[p].stage = "failed"
      /\ \A q \in Drains : q # p => drain'[q].stage = drain[q].stage
  BY <1>1, StageKept DEF MarkSentFails
<1>3. UNCHANGED <<outbox, patience, tries, delivered>> /\ stops' \in 0..MaxStops
  BY Bounds DEF MarkSentFails, OutboxInv, OutboxTypeOK
<1>4. OutboxTypeOK' /\ OutcomesAreEarned' /\ ReadsLag'
  BY <1>2, <1>3 DEF OutboxInv, OutboxTypeOK, OutcomesAreEarned, ReadsLag, Reads,
     Stages
<1>5. CallsCount'
  BY <1>1, <1>2, <1>3 DEF OutboxInv, CallsCount
<1> QED
  BY <1>2, <1>4, <1>5 DEF OutboxInv

LEMMA DrainStopsKept ==
  ASSUME OutboxInv, NEW p \in Drains, DrainStops(p)
  PROVE  OutboxInv'
<1>1. UNCHANGED <<outbox, patience, tries, delivered>> /\ stops' \in 0..MaxStops
  BY Bounds DEF DrainStops, OutboxInv, OutboxTypeOK
<1>2. drain \in [Drains -> [todo : SUBSET Reads, stage : Stages]]
  BY DEF OutboxInv, OutboxTypeOK, Reads, Stages
<1>3. drain' = [drain EXCEPT ![p] = NoDrain]
        /\ NoDrain \in [todo : SUBSET Reads, stage : Stages]
  BY DEF DrainStops, NoDrain, Stages
<1>4. /\ drain' \in [Drains -> [todo : SUBSET Reads, stage : Stages]]
      /\ \A q \in Drains : drain'[q] = IF q = p THEN NoDrain ELSE drain[q]
  BY <1>2, <1>3
<1>5. OutboxTypeOK' /\ OutcomesAreEarned'
  BY <1>1, <1>4 DEF OutboxInv, OutboxTypeOK, OutcomesAreEarned, Reads, Stages
<1>6. ReadsLag' /\ IdleIsDone'
  BY <1>1, <1>4 DEF OutboxInv, ReadsLag, IdleIsDone, NoDrain
<1>7. CallsCount'
  BY <1>1, <1>4 DEF OutboxInv, CallsCount, NoDrain, Current
<1> QED
  BY <1>5, <1>6, <1>7 DEF OutboxInv

LEMMA StepOutbox == OutboxInv /\ [OutboxNext]_outboxVars => OutboxInv'
<1> SUFFICES ASSUME OutboxInv, [OutboxNext]_outboxVars PROVE OutboxInv'
  OBVIOUS
<1>1. CASE UNCHANGED outboxVars
  BY <1>1 DEF outboxVars, OutboxInv, OutboxTypeOK, OutcomesAreEarned, ReadsLag,
     IdleIsDone, CallsCount, Current
<1> QED
  BY <1>1, EnqueueKept, BackoffKept, DrainStartKept, SendKept, MarkSentKept,
     MarkFailedKept, MarkSentFailsKept, DrainStopsKept
     DEF OutboxNext, DrainGoesOn

-----------------------------------------------------------------------------
(* The theorems *)

\* The outbox keeps its types, and no attempt count passes the limit.
THEOREM OutboxTypeTheorem == OutboxSpec => []OutboxTypeOK
<1>1. OutboxInv => OutboxTypeOK
  BY DEF OutboxInv
<1> QED
  BY <1>1, InitOutbox, StepOutbox, PTL DEF OutboxSpec

(***************************************************************************)
(* What says sent was delivered, and what was given up had its full number *)
(* of calls, for any number of drains that overlap and any number of rows. *)
(***************************************************************************)
THEOREM OutcomesTheorem == OutboxSpec => []OutcomesAreEarned
<1>1. OutboxInv => OutcomesAreEarned
  BY DEF OutboxInv
<1> QED
  BY <1>1, InitOutbox, StepOutbox, PTL DEF OutboxSpec
=============================================================================
