----------------------- MODULE BotConversation_proofs -----------------------
(***************************************************************************)
(* Proofs about BotConversation for any number of chats and of messages    *)
(* handled at once, and any limit of retries.                              *)
(***************************************************************************)
EXTENDS BotConversation, FiniteSums

-----------------------------------------------------------------------------
(* The inductive invariant *)

Rows == [state : BotStates, fields : SUBSET FieldNames, retries : Nat]

Handlers ==
  [stage : {"update", "write", "confirm", "create", "clear"}, chat : Chats,
   to : BotStates, fields : SUBSET FieldNames, failures : 0..MaxRetries]

\* Types, but for the bound of the retry counter: that follows from the rest.
Types ==
  /\ conversation \in [Chats -> Rows]
  /\ handling \in [Messages -> {Handled} \cup Handlers]

\* An update starts a conversation or answers the question of one state.
IsAnswer(h) ==
  \/ h.to = "COLLECTING_ROLE" /\ h.fields = {}
  \/ \E s \in Steps : h.to = s.next /\ h.fields = {s.field}

\* What a handler is about to write fits the state it writes, and only one that
\* creates the deal has failed.
Fits(h) ==
  /\ h.stage = "update" => IsAnswer(h)
  /\ h.stage = "write" => h.fields = Collected(h.to)
  /\ h.stage \in {"update", "write", "confirm"} => h.failures = 0
  /\ h.stage = "create" => h.failures < MaxRetries

HandlersFit == \A m \in Messages : Fits(handling[m])

BotInv == Types /\ FieldsMatchState /\ HandlersFit /\ RetriesAreOwed

-----------------------------------------------------------------------------
(* The failures under way *)

LEMMA Bounds == IsFiniteSet(Messages) /\ MaxRetries \in Nat \ {0}
BY BotAssumption

\* A handler contributes between none and MaxRetries failures to a chat.
InBound ==
  \A m \in Messages, x \in Chats : FailuresIn(m, x) \in 0..MaxRetries

LEMMA FailuresInBound == Types => InBound
<1> SUFFICES ASSUME Types, NEW m \in Messages, NEW x \in Chats
             PROVE  FailuresIn(m, x) \in 0..MaxRetries
  BY DEF InBound
<1>1. handling[m] \in {Handled} \cup Handlers
  BY DEF Types
<1>2. CASE handling[m] = Handled
  BY <1>2, Bounds DEF FailuresIn, AtStage, Handled
<1>3. CASE handling[m] \in Handlers
  BY <1>3, Bounds DEF FailuresIn, Handlers
<1> QED
  BY <1>1, <1>2, <1>3

\* So all of them together contribute at most MaxRetries each.
AllInBound ==
  \A x \in Chats : FailuresUnderWay(x) \in 0..MaxRetries * Cardinality(Messages)

LEMMA UnderWayBound == Types => AllInBound
<1> SUFFICES ASSUME Types, NEW x \in Chats
             PROVE  FailuresUnderWay(x) \in 0..MaxRetries * Cardinality(Messages)
  BY DEF AllInBound
<1> DEFINE f == [m \in Messages |-> FailuresIn(m, x)]
<1>1. f \in [Messages -> 0..MaxRetries]
  BY FailuresInBound DEF InBound
<1>2. MaxRetries \in Nat /\ IsFiniteSet(Messages)
  BY Bounds
<1>3. SumFunction(f) \in 0..MaxRetries * Cardinality(Messages)
  <2> HIDE DEF f
  <2> QED
    BY <1>1, <1>2, SumWithin
<1> QED
  BY <1>3 DEF FailuresUnderWay

\* When one handler takes a step, only its own contribution changes.
LEMMA OneHandlerMoved ==
  ASSUME Types, Types', NEW m \in Messages, NEW x \in Chats,
         \A n \in Messages : n # m => handling'[n] = handling[n]
  PROVE  /\ FailuresUnderWay(x) \in Nat /\ FailuresUnderWay(x)' \in Nat
         /\ FailuresIn(m, x) \in 0..MaxRetries /\ FailuresIn(m, x)' \in 0..MaxRetries
         /\ FailuresUnderWay(x)' =
              FailuresUnderWay(x) + (FailuresIn(m, x)' - FailuresIn(m, x))
<1> DEFINE f == [n \in Messages |-> FailuresIn(n, x)]
           h == [n \in Messages |-> FailuresIn(n, x)']
<1>1. \A n \in Messages :
        FailuresIn(n, x) \in 0..MaxRetries /\ FailuresIn(n, x)' \in 0..MaxRetries
  <2>1. (Types => InBound)'
    BY FailuresInBound, PTL
  <2> QED
    BY <2>1, FailuresInBound DEF InBound
<1>2. f \in [Messages -> Int] /\ h \in [Messages -> Int]
  BY <1>1, Bounds
<1>3. \A n \in Messages : n # m => h[n] = f[n]
  BY DEF FailuresIn, AtStage, Chat
<1>4. f[m] = FailuresIn(m, x) /\ h[m] = FailuresIn(m, x)'
  OBVIOUS
<1>5. FailuresUnderWay(x) = SumFunction(f) /\ FailuresUnderWay(x)' = SumFunction(h)
  BY DEF FailuresUnderWay
<1>6. FailuresUnderWay(x) \in Nat /\ FailuresUnderWay(x)' \in Nat
  <2>1. (Types => AllInBound)'
    BY UnderWayBound, PTL
  <2>2. Cardinality(Messages) \in Nat /\ MaxRetries \in Nat
    BY Bounds, FS_CardinalityType
  <2> QED
    BY <2>1, <2>2, UnderWayBound DEF AllInBound
<1>7. SumFunction(h) = SumFunction(f) + (h[m] - f[m])
  <2>1. IsFiniteSet(Messages)
    BY Bounds
  <2> HIDE DEF f, h
  <2> QED
    BY <1>2, <1>3, <2>1, SumUpdate
<1> QED
  BY <1>1, <1>4, <1>5, <1>6, <1>7


-----------------------------------------------------------------------------
(* Types *)

LEMMA FreshRowType == FreshRow \in Rows
BY DEF FreshRow, Rows, BotStates

LEMMA UpdatingType ==
  ASSUME NEW x \in Chats, NEW to \in BotStates, NEW f \in SUBSET FieldNames
  PROVE  Updating(x, to, f) \in Handlers
BY Bounds DEF Updating, Handlers

\* The handler of a message that is still being handled.
LEMMA HandlerType ==
  ASSUME Types, NEW m \in Messages, handling[m].stage # "handled"
  PROVE  handling[m] \in Handlers
BY DEF Types, Handled

\* What a handler holds may change as long as it stays of its type.
LEMMA HandleTypes ==
  ASSUME Types, NEW m \in Messages, NEW h \in {Handled} \cup Handlers,
         handling' = [handling EXCEPT ![m] = h]
  PROVE  /\ handling' \in [Messages -> {Handled} \cup Handlers]
         /\ handling'[m] = h
         /\ \A n \in Messages : n # m => handling'[n] = handling[n]
BY DEF Types

LEMMA BotStatesAre ==
  /\ "IDLE" \in BotStates /\ "COLLECTING_ROLE" \in BotStates
  /\ "CONFIRMING" \in BotStates
  /\ \A s \in Steps : s.next \in BotStates /\ {s.field} \in SUBSET FieldNames
BY DEF BotStates, Steps, FieldNames

LEMMA FirstTypes ==
  ASSUME BotInit
  PROVE  Types
BY FreshRowType DEF BotInit, Types, Handled

\* The steps of a handler in terms of what it holds after them.
LEMMA UpdateReadIs ==
  ASSUME Types, NEW m \in Messages, UpdateRead(m)
  PROVE  /\ handling[m] \in Handlers /\ handling[m].stage = "update"
         /\ UNCHANGED conversation
         /\ \E h \in {Handled} \cup Handlers :
              /\ handling' = [handling EXCEPT ![m] = h]
              /\ h # Handled =>
                   /\ IsValidTransition(conversation[Chat(m)].state, handling[m].to)
                   /\ h = [handling[m] EXCEPT !.stage = "write",
                             !.fields = conversation[Chat(m)].fields
                                          \cup handling[m].fields]
<1>1. handling[m] \in Handlers /\ handling[m].stage = "update"
  BY HandlerType DEF UpdateRead, AtStage
<1>2. conversation[Chat(m)] \in Rows
  BY <1>1 DEF Types, Chat, Handlers
<1> DEFINE valid == IsValidTransition(conversation[Chat(m)].state, handling[m].to)
<1>3. CASE valid
  <2>1. PICK h : h = [handling[m] EXCEPT !.stage = "write",
                        !.fields = conversation[Chat(m)].fields
                                     \cup handling[m].fields]
    OBVIOUS
  <2>2. h \in Handlers
    BY <1>1, <1>2, <2>1 DEF Handlers, Rows
  <2>3. handling' = [handling EXCEPT ![m] = h]
    BY <1>3, <2>1 DEF UpdateRead, Merge, Types
  <2> QED
    BY <1>1, <1>3, <2>1, <2>2, <2>3 DEF UpdateRead
<1>4. CASE ~valid
  BY <1>1, <1>4 DEF UpdateRead, Done, Handle
<1> QED
  BY <1>3, <1>4

LEMMA AttemptIs ==
  ASSUME Types, HandlersFit, NEW m \in Messages, AttemptCreation(m)
  PROVE  /\ handling[m] \in Handlers /\ handling[m].stage = "create"
         /\ \E h \in Handlers :
              /\ handling' = [handling EXCEPT ![m] = h]
              /\ h.chat = Chat(m) /\ h.failures = handling[m].failures + 1
              /\ h.stage \in {"create", "clear"}
              /\ h.stage = "create" => h.failures < MaxRetries
<1>1. handling[m] \in Handlers /\ handling[m].stage = "create"
  BY HandlerType DEF AttemptCreation, AtStage
<1>2. handling[m].failures < MaxRetries /\ handling[m].failures \in 0..MaxRetries
  BY <1>1 DEF HandlersFit, Fits, Handlers
<1>3. PICK h : h = [handling[m] EXCEPT
                      !.stage = StageAfter(handling[m].failures + 1),
                      !.failures = handling[m].failures + 1]
  OBVIOUS
<1>4. /\ StageAfter(handling[m].failures + 1) \in {"create", "clear"}
      /\ StageAfter(handling[m].failures + 1) = "create" =>
           handling[m].failures + 1 < MaxRetries
  BY <1>2, Bounds DEF StageAfter
<1>5. h \in Handlers /\ h.chat = Chat(m) /\ h.failures = handling[m].failures + 1
      /\ h.stage = StageAfter(handling[m].failures + 1)
  <2>1. handling[m].failures + 1 \in 0..MaxRetries
    BY <1>2, Bounds
  <2>2. StageAfter(handling[m].failures + 1) \in {"create", "clear"}
    BY <1>4
  <2> QED
    BY <1>1, <1>3, <2>1, <2>2 DEF Handlers, Chat
<1>6. handling' = [handling EXCEPT ![m] = h]
  BY <1>1, <1>3 DEF AttemptCreation, Types, Handlers
<1> QED
  BY <1>1, <1>4, <1>5, <1>6

LEMMA ReadPayloadIs ==
  ASSUME Types, NEW m \in Messages, ReadPayload(m)
  PROVE  /\ handling[m] \in Handlers /\ handling[m].stage = "confirm"
         /\ UNCHANGED conversation
         /\ \E h \in Handlers :
              /\ handling' = [handling EXCEPT ![m] = h]
              /\ h.stage = "create" /\ h.chat = Chat(m)
              /\ h.failures = handling[m].failures
<1>1. handling[m] \in Handlers /\ handling[m].stage = "confirm"
  BY HandlerType DEF ReadPayload, AtStage
<1>2. conversation[Chat(m)] \in Rows
  BY <1>1 DEF Types, Chat, Handlers
<1>3. PICK h : h = [handling[m] EXCEPT !.stage = "create",
                      !.fields = conversation[Chat(m)].fields]
  OBVIOUS
<1>4. h \in Handlers /\ h.stage = "create" /\ h.chat = Chat(m)
      /\ h.failures = handling[m].failures
  BY <1>1, <1>2, <1>3 DEF Handlers, Rows, Chat
<1>5. handling' = [handling EXCEPT ![m] = h]
  BY <1>1, <1>3 DEF ReadPayload, Types, Handlers
<1> QED
  BY <1>1, <1>4, <1>5 DEF ReadPayload


-----------------------------------------------------------------------------
(* Each action keeps the invariant *)

LEMMA HandledFits == Fits(Handled)
BY DEF Fits, Handled

\* A handler that is replaced by one that fits leaves the others fitting.
LEMMA FitKept ==
  ASSUME HandlersFit, Types, NEW m \in Messages, NEW h \in {Handled} \cup Handlers,
         handling' = [handling EXCEPT ![m] = h], Fits(h)
  PROVE  HandlersFit'
<1> SUFFICES ASSUME NEW n \in Messages PROVE Fits(handling'[n])
  BY DEF HandlersFit, Fits, IsAnswer
<1>1. CASE n = m
  BY <1>1, HandleTypes
<1>2. CASE n # m
  BY <1>2, HandleTypes DEF HandlersFit
<1> QED
  BY <1>1, <1>2

\* A step that only moves a handler, from one that has not failed or without
\* forgetting its failures.
LEMMA OnlyHandles ==
  ASSUME BotInv, NEW m \in Messages, NEW h \in {Handled} \cup Handlers,
         handling' = [handling EXCEPT ![m] = h], UNCHANGED conversation, Fits(h),
         \/ handling[m] = Handled \/ handling[m].failures = 0
         \/ h \in Handlers /\ h.chat = Chat(m) /\ h.failures = handling[m].failures
  PROVE  BotInv'
<1>1. Types'
  BY HandleTypes DEF BotInv, Types
<1>2. FieldsMatchState'
  BY DEF BotInv, FieldsMatchState
<1>3. HandlersFit'
  BY FitKept DEF BotInv
<1>4. ASSUME NEW x \in Chats
      PROVE  conversation'[x].retries <= FailuresUnderWay(x)'
  <2>1. Types /\ conversation[x].retries <= FailuresUnderWay(x)
    BY DEF BotInv, RetriesAreOwed
  <2>2. handling'[m] = h /\ \A n \in Messages : n # m => handling'[n] = handling[n]
    BY <2>1, HandleTypes
  <2>3. /\ FailuresUnderWay(x) \in Nat /\ FailuresUnderWay(x)' \in Nat
        /\ FailuresIn(m, x) \in 0..MaxRetries /\ FailuresIn(m, x)' \in 0..MaxRetries
        /\ FailuresUnderWay(x)' =
             FailuresUnderWay(x) + (FailuresIn(m, x)' - FailuresIn(m, x))
    BY <1>1, <2>1, <2>2, OneHandlerMoved
  <2>4. FailuresIn(m, x) = 0 \/ FailuresIn(m, x) = FailuresIn(m, x)'
    <3>1. CASE handling[m] = Handled
      BY <3>1 DEF FailuresIn, AtStage, Handled
    <3>2. CASE handling[m].failures = 0
      BY <3>2 DEF FailuresIn
    <3>3. CASE h \in Handlers /\ h.chat = Chat(m) /\ h.failures = handling[m].failures
      BY <2>2, <3>3 DEF FailuresIn, AtStage, Chat, Handlers
    <3> QED
      BY <3>1, <3>2, <3>3
  <2>5. conversation[x].retries \in Nat
    BY <2>1 DEF Types, Rows
  <2> QED
    BY <2>1, <2>3, <2>4, <2>5, Bounds
<1> QED
  BY <1>1, <1>2, <1>3, <1>4 DEF BotInv, RetriesAreOwed

\* A message that starts to be handled.
LEMMA Starts ==
  ASSUME BotInv, NEW m \in Messages, NEW h \in Handlers, AtStage(m, "handled"),
         Handle(m, h), UNCHANGED conversation, Fits(h)
  PROVE  BotInv'
<1>1. handling[m] = Handled
  BY DEF BotInv, Types, AtStage, Handlers
<1>2. handling' = [handling EXCEPT ![m] = h]
  BY DEF Handle
<1> QED
  BY <1>1, <1>2, OnlyHandles

LEMMA NewDealKeeps ==
  ASSUME BotInv, NEW m \in Messages, NEW x \in Chats, HandleNewDeal(m, x)
  PROVE  BotInv'
<1>1. PICK h : h = Updating(x, "COLLECTING_ROLE", {})
  OBVIOUS
<1>2. h \in Handlers /\ Fits(h)
  BY <1>1, UpdatingType, BotStatesAre DEF Updating, Fits, IsAnswer
<1> QED
  BY <1>1, <1>2, Starts DEF HandleNewDeal

LEMMA CollectKeeps ==
  ASSUME BotInv, NEW m \in Messages, NEW x \in Chats, Collect(m, x)
  PROVE  BotInv'
<1>1. PICK s \in Steps : Handle(m, Updating(x, s.next, {s.field}))
  BY DEF Collect
<1>2. PICK h : h = Updating(x, s.next, {s.field})
  OBVIOUS
<1>3. h \in Handlers /\ Fits(h)
  BY <1>2, UpdatingType, BotStatesAre DEF Updating, Fits, IsAnswer
<1> QED
  BY <1>1, <1>2, <1>3, Starts DEF Collect

LEMMA ConfirmKeeps ==
  ASSUME BotInv, NEW m \in Messages, NEW x \in Chats, HandleConfirm(m, x)
  PROVE  BotInv'
<1>1. PICK stage \in {"confirm", "clear"} :
        Handle(m, [Updating(x, "IDLE", {}) EXCEPT !.stage = stage])
  BY DEF HandleConfirm
<1>2. PICK h : h = [Updating(x, "IDLE", {}) EXCEPT !.stage = stage]
  OBVIOUS
<1>3. Updating(x, "IDLE", {}) \in Handlers
  BY UpdatingType, BotStatesAre
<1>4. h \in Handlers /\ h.stage = stage /\ h.failures = 0
  BY <1>2, <1>3 DEF Handlers, Updating
<1>5. Fits(h)
  BY <1>4 DEF Fits
<1> QED
  BY <1>1, <1>2, <1>4, <1>5, Starts DEF HandleConfirm

\* What is merged on a valid transition is what the new state stands for.
LEMMA MergedFits ==
  ASSUME NEW h, IsAnswer(h), NEW state \in BotStates, IsValidTransition(state, h.to)
  PROVE  Collected(state) \cup h.fields = Collected(h.to)
<1>1. CASE h.to = "COLLECTING_ROLE" /\ h.fields = {}
  <2>1. state = "IDLE"
    BY <1>1 DEF IsValidTransition, ValidTransitions, BotStates
  <2> QED
    BY <1>1, <2>1 DEF Collected
<1>2. ASSUME NEW s \in Steps, h.to = s.next, h.fields = {s.field}
      PROVE  Collected(state) \cup h.fields = Collected(h.to)
  <2>1. state = s.state
    BY <1>2 DEF IsValidTransition, ValidTransitions, BotStates, Steps
  <2> QED
    BY <1>2, <2>1 DEF Collected, Steps, FieldNames
<1> QED
  BY <1>1, <1>2 DEF IsAnswer

LEMMA UpdateReadKeeps ==
  ASSUME BotInv, NEW m \in Messages, UpdateRead(m)
  PROVE  BotInv'
<1>0. Types
  BY DEF BotInv
<1>1. /\ handling[m] \in Handlers /\ handling[m].stage = "update"
      /\ UNCHANGED conversation
  BY <1>0, UpdateReadIs
<1>2. PICK h \in {Handled} \cup Handlers :
        /\ handling' = [handling EXCEPT ![m] = h]
        /\ h # Handled =>
             /\ IsValidTransition(conversation[Chat(m)].state, handling[m].to)
             /\ h = [handling[m] EXCEPT !.stage = "write",
                       !.fields = conversation[Chat(m)].fields \cup handling[m].fields]
  BY <1>0, UpdateReadIs
<1>3. IsAnswer(handling[m]) /\ handling[m].failures = 0
  BY <1>1 DEF BotInv, HandlersFit, Fits
<1>4. Fits(h)
  <2>1. CASE h = Handled
    BY <2>1, HandledFits
  <2>2. CASE h # Handled
    <3>1. PICK row \in Rows : row = conversation[Chat(m)]
      BY <1>0, <1>1 DEF Types, Chat, Handlers
    <3>2. row.fields = Collected(row.state) /\ row.state \in BotStates
      BY <1>1, <3>1 DEF BotInv, FieldsMatchState, Rows, Chat, Handlers
    <3>3. row.fields \cup handling[m].fields = Collected(handling[m].to)
      BY <1>2, <1>3, <2>2, <3>1, <3>2, MergedFits
    <3>4. /\ h.stage = "write" /\ h.to = handling[m].to /\ h.failures = 0
          /\ h.fields = row.fields \cup handling[m].fields
      BY <1>1, <1>2, <1>3, <2>2, <3>1 DEF Handlers
    <3> QED
      BY <3>3, <3>4 DEF Fits
  <2> QED
    BY <2>1, <2>2
<1> QED
  BY <1>1, <1>2, <1>3, <1>4, OnlyHandles

LEMMA ReadPayloadKeeps ==
  ASSUME BotInv, NEW m \in Messages, ReadPayload(m)
  PROVE  BotInv'
<1>0. Types
  BY DEF BotInv
<1>1. /\ handling[m] \in Handlers /\ handling[m].stage = "confirm"
      /\ UNCHANGED conversation
  BY <1>0, ReadPayloadIs
<1>2. PICK h \in Handlers :
        /\ handling' = [handling EXCEPT ![m] = h]
        /\ h.stage = "create" /\ h.chat = Chat(m) /\ h.failures = handling[m].failures
  BY <1>0, ReadPayloadIs
<1>3. handling[m].failures = 0
  BY <1>1 DEF BotInv, HandlersFit, Fits
<1>4. Fits(h)
  BY <1>2, <1>3, Bounds DEF Fits
<1> QED
  BY <1>1, <1>2, <1>3, <1>4, OnlyHandles


LEMMA UpdateWriteKeeps ==
  ASSUME BotInv, NEW m \in Messages, UpdateWrite(m)
  PROVE  BotInv'
<1>0. Types
  BY DEF BotInv
<1>1. handling[m] \in Handlers /\ handling[m].stage = "write"
  BY <1>0, HandlerType DEF UpdateWrite, AtStage
<1>2. PICK x \in Chats : x = Chat(m)
  BY <1>1 DEF Chat, Handlers
<1>3. handling' = [handling EXCEPT ![m] = Handled]
  BY DEF UpdateWrite, Done, Handle
<1>4. handling[m].fields = Collected(handling[m].to) /\ handling[m].failures = 0
  BY <1>1 DEF BotInv, HandlersFit, Fits
<1>5. PICK row : row = [conversation[x] EXCEPT !.state = handling[m].to,
                                               !.fields = handling[m].fields]
  OBVIOUS
<1>6. /\ conversation[x] \in Rows
      /\ row \in Rows /\ row.retries = conversation[x].retries
      /\ row.fields = Collected(row.state)
  BY <1>0, <1>1, <1>4, <1>5 DEF Types, Rows, Handlers
<1>7. conversation' = [conversation EXCEPT ![x] = row]
  BY <1>0, <1>2, <1>5, <1>6 DEF UpdateWrite, Types, Rows
<1>8. Types'
  BY <1>0, <1>3, <1>6, <1>7, HandleTypes DEF Types
<1>9. FieldsMatchState'
  BY <1>0, <1>6, <1>7 DEF BotInv, FieldsMatchState, Types
<1>10. HandlersFit'
  BY <1>0, <1>3, FitKept, HandledFits DEF BotInv
<1>11. ASSUME NEW y \in Chats
       PROVE  conversation'[y].retries <= FailuresUnderWay(y)'
  <2>1. conversation'[y].retries = conversation[y].retries
    BY <1>0, <1>6, <1>7 DEF Types
  <2>2. conversation[y].retries <= FailuresUnderWay(y) /\ conversation[y].retries \in Nat
    BY <1>0 DEF BotInv, RetriesAreOwed, Types, Rows
  <2>3. \A n \in Messages : n # m => handling'[n] = handling[n]
    BY <1>0, <1>3, HandleTypes
  <2>4. /\ FailuresUnderWay(y) \in Nat /\ FailuresUnderWay(y)' \in Nat
        /\ FailuresIn(m, y) \in 0..MaxRetries /\ FailuresIn(m, y)' \in 0..MaxRetries
        /\ FailuresUnderWay(y)' =
             FailuresUnderWay(y) + (FailuresIn(m, y)' - FailuresIn(m, y))
    BY <1>0, <1>8, <2>3, OneHandlerMoved
  <2>5. FailuresIn(m, y) = 0
    BY <1>4 DEF FailuresIn
  <2> QED
    BY <2>1, <2>2, <2>4, <2>5, Bounds
<1> QED
  BY <1>8, <1>9, <1>10, <1>11 DEF BotInv, RetriesAreOwed

\* The attempt and the counter of its chat go up together.
LEMMA AttemptKeeps ==
  ASSUME BotInv, NEW m \in Messages, AttemptCreation(m)
  PROVE  BotInv'
<1>0. Types /\ HandlersFit
  BY DEF BotInv
<1>1. handling[m] \in Handlers /\ handling[m].stage = "create"
  BY <1>0, AttemptIs
<1>2. PICK x \in Chats : x = Chat(m)
  BY <1>1 DEF Chat, Handlers
<1>3. PICK h \in Handlers :
        /\ handling' = [handling EXCEPT ![m] = h]
        /\ h.chat = x /\ h.failures = handling[m].failures + 1
        /\ h.stage \in {"create", "clear"}
        /\ h.stage = "create" => h.failures < MaxRetries
  BY <1>0, <1>2, AttemptIs
<1>4. PICK row : row = [conversation[x] EXCEPT !.retries = @ + 1]
  OBVIOUS
<1>5. /\ conversation[x] \in Rows
      /\ row \in Rows /\ row.retries = conversation[x].retries + 1
      /\ row.state = conversation[x].state /\ row.fields = conversation[x].fields
  BY <1>0, <1>4 DEF Types, Rows
<1>6. conversation' = [conversation EXCEPT ![x] = row]
  BY <1>0, <1>2, <1>4, <1>5 DEF AttemptCreation, IncrementRetries, Types, Rows
<1>7. Types'
  BY <1>0, <1>3, <1>5, <1>6, HandleTypes DEF Types
<1>8. FieldsMatchState'
  BY <1>0, <1>5, <1>6 DEF BotInv, FieldsMatchState, Types
<1>9. Fits(h)
  BY <1>3 DEF Fits
<1>10. HandlersFit'
  BY <1>0, <1>3, <1>9, FitKept
<1>11. ASSUME NEW y \in Chats
       PROVE  conversation'[y].retries <= FailuresUnderWay(y)'
  <2>1. conversation'[y].retries =
          IF y = x THEN conversation[y].retries + 1 ELSE conversation[y].retries
    BY <1>0, <1>5, <1>6 DEF Types
  <2>2. conversation[y].retries <= FailuresUnderWay(y) /\ conversation[y].retries \in Nat
    BY <1>0 DEF BotInv, RetriesAreOwed, Types, Rows
  <2>3. handling'[m] = h /\ \A n \in Messages : n # m => handling'[n] = handling[n]
    BY <1>0, <1>3, HandleTypes
  <2>4. /\ FailuresUnderWay(y) \in Nat /\ FailuresUnderWay(y)' \in Nat
        /\ FailuresIn(m, y) \in 0..MaxRetries /\ FailuresIn(m, y)' \in 0..MaxRetries
        /\ FailuresUnderWay(y)' =
             FailuresUnderWay(y) + (FailuresIn(m, y)' - FailuresIn(m, y))
    BY <1>0, <1>7, <2>3, OneHandlerMoved
  <2>5. CASE y = x
    <3>1. FailuresIn(m, y) = handling[m].failures
      BY <1>1, <1>2, <2>5 DEF FailuresIn, AtStage
    <3>2. FailuresIn(m, y)' = handling[m].failures + 1
      BY <1>3, <2>3, <2>5 DEF FailuresIn, AtStage, Chat
    <3>3. handling[m].failures \in Nat
      BY <1>1, Bounds DEF Handlers
    <3>4. FailuresUnderWay(y)' = FailuresUnderWay(y) + 1
      BY <2>4, <3>1, <3>2, <3>3
    <3> QED
      BY <2>1, <2>2, <2>4, <2>5, <3>4
  <2>6. CASE y # x
    <3>1. FailuresIn(m, y) = 0 /\ FailuresIn(m, y)' = 0
      BY <1>2, <1>3, <2>3, <2>6 DEF FailuresIn, Chat
    <3>2. FailuresUnderWay(y)' = FailuresUnderWay(y)
      BY <2>4, <3>1
    <3> QED
      BY <2>1, <2>2, <2>6, <3>2
  <2> QED
    BY <2>5, <2>6
<1> QED
  BY <1>7, <1>8, <1>10, <1>11 DEF BotInv, RetriesAreOwed

\* A row that is cleared owes no failure; others keep theirs.
LEMMA ClearedRows ==
  ASSUME BotInv, NEW x \in Chats, Clear(x)
  PROVE  /\ conversation' \in [Chats -> Rows]
         /\ FieldsMatchState'
         /\ conversation'[x].retries = 0
         /\ \A y \in Chats : y # x => conversation'[y] = conversation[y]
<1>1. conversation \in [Chats -> Rows]
  BY DEF BotInv, Types
<1>2. conversation' = [conversation EXCEPT ![x] = FreshRow]
  BY DEF Clear
<1>3. FreshRow.retries = 0 /\ FreshRow.fields = Collected(FreshRow.state)
  BY DEF FreshRow, Collected
<1> QED
  BY <1>1, <1>2, <1>3, FreshRowType DEF BotInv, FieldsMatchState

LEMMA CancelKeeps ==
  ASSUME BotInv, NEW x \in Chats, HandleCancel(x)
  PROVE  BotInv'
<1>1. Clear(x) /\ handling' = handling
  BY DEF HandleCancel
<1>2. Types'
  BY <1>1, ClearedRows DEF BotInv, Types
<1>3. HandlersFit'
  BY <1>1 DEF BotInv, HandlersFit
<1>4. ASSUME NEW y \in Chats
      PROVE  conversation'[y].retries <= FailuresUnderWay(y)'
  <2>1. FailuresUnderWay(y)' = FailuresUnderWay(y)
    BY <1>1 DEF FailuresUnderWay, FailuresIn, AtStage, Chat
  <2>2. FailuresUnderWay(y) \in Nat
    <3>1. FailuresUnderWay(y) \in 0..MaxRetries * Cardinality(Messages)
      BY UnderWayBound DEF BotInv, AllInBound
    <3> QED
      BY <3>1, Bounds, FS_CardinalityType
  <2>3. conversation'[y].retries = 0 \/ conversation'[y] = conversation[y]
    BY <1>1, ClearedRows
  <2> QED
    BY <2>1, <2>2, <2>3 DEF BotInv, RetriesAreOwed
<1> QED
  BY <1>1, <1>2, <1>3, <1>4, ClearedRows DEF BotInv, RetriesAreOwed

LEMMA ClearAfterKeeps ==
  ASSUME BotInv, NEW m \in Messages, ClearAfter(m)
  PROVE  BotInv'
<1>0. Types
  BY DEF BotInv
<1>1. handling[m] \in Handlers
  BY <1>0, HandlerType DEF ClearAfter, AtStage
<1>2. PICK x \in Chats : x = Chat(m)
  BY <1>1 DEF Chat, Handlers
<1>3. Clear(x) /\ handling' = [handling EXCEPT ![m] = Handled]
  BY <1>2 DEF ClearAfter, Done, Handle
<1>4. Types'
  BY <1>0, <1>3, ClearedRows, HandleTypes DEF Types
<1>5. HandlersFit'
  BY <1>0, <1>3, FitKept, HandledFits DEF BotInv
<1>6. ASSUME NEW y \in Chats
      PROVE  conversation'[y].retries <= FailuresUnderWay(y)'
  <2>1. conversation[y].retries <= FailuresUnderWay(y) /\ conversation[y].retries \in Nat
    BY <1>0 DEF BotInv, RetriesAreOwed, Types, Rows
  <2>2. handling'[m] = Handled /\ \A n \in Messages : n # m => handling'[n] = handling[n]
    BY <1>0, <1>3, HandleTypes
  <2>3. /\ FailuresUnderWay(y) \in Nat /\ FailuresUnderWay(y)' \in Nat
        /\ FailuresIn(m, y) \in 0..MaxRetries /\ FailuresIn(m, y)' \in 0..MaxRetries
        /\ FailuresUnderWay(y)' =
             FailuresUnderWay(y) + (FailuresIn(m, y)' - FailuresIn(m, y))
    BY <1>0, <1>4, <2>2, OneHandlerMoved
  <2>4. CASE y = x
    BY <1>3, <2>3, <2>4, ClearedRows
  <2>5. CASE y # x
    <3>1. FailuresIn(m, y) = 0
      BY <1>2, <2>5 DEF FailuresIn
    <3>2. FailuresUnderWay(y) <= FailuresUnderWay(y)'
      BY <2>3, <3>1, Bounds
    <3>3. conversation'[y] = conversation[y]
      BY <1>3, <2>5, ClearedRows
    <3> QED
      BY <2>1, <2>3, <3>2, <3>3
  <2> QED
    BY <2>4, <2>5
<1> QED
  BY <1>3, <1>4, <1>5, <1>6, ClearedRows DEF BotInv, RetriesAreOwed

-----------------------------------------------------------------------------
(* The invariant *)

LEMMA FirstBotInv == BotInit => BotInv
<1> SUFFICES ASSUME BotInit PROVE BotInv
  OBVIOUS
<1>1. Types
  BY FirstTypes
<1>2. FieldsMatchState
  BY DEF BotInit, FieldsMatchState, FreshRow, Collected
<1>3. HandlersFit
  BY HandledFits DEF BotInit, HandlersFit
<1>4. RetriesAreOwed
  <2>1. \A x \in Chats : FailuresUnderWay(x) \in 0..MaxRetries * Cardinality(Messages)
    BY <1>1, UnderWayBound DEF AllInBound
  <2>2. MaxRetries * Cardinality(Messages) \in Nat
    BY Bounds, FS_CardinalityType
  <2>3. \A x \in Chats : conversation[x].retries = 0
    BY DEF BotInit, FreshRow
  <2>4. \A x \in Chats : 0 <= FailuresUnderWay(x)
    BY <2>1, <2>2
  <2> QED
    BY <2>3, <2>4 DEF RetriesAreOwed
<1> QED
  BY <1>1, <1>2, <1>3, <1>4 DEF BotInv

LEMMA StepBotInv == BotInv /\ [BotNext]_botVars => BotInv'
<1> SUFFICES ASSUME BotInv, [BotNext]_botVars PROVE BotInv'
  OBVIOUS
<1>1. ASSUME NEW x \in Chats, HandleCancel(x) PROVE BotInv'
  BY <1>1, CancelKeeps
<1>2. ASSUME NEW x \in Chats, NEW m \in Messages,
             HandleNewDeal(m, x) \/ Collect(m, x) \/ HandleConfirm(m, x)
      PROVE  BotInv'
  BY <1>2, NewDealKeeps, CollectKeeps, ConfirmKeeps
<1>3. ASSUME NEW m \in Messages, GoOn(m) PROVE BotInv'
  BY <1>3, UpdateReadKeeps, UpdateWriteKeeps, ReadPayloadKeeps, AttemptKeeps,
     ClearAfterKeeps DEF GoOn
<1>4. CASE UNCHANGED botVars
  <2>1. \A x \in Chats : FailuresUnderWay(x)' = FailuresUnderWay(x)
    BY <1>4 DEF botVars, FailuresUnderWay, FailuresIn, AtStage, Chat
  <2> QED
    BY <1>4, <2>1
    DEF BotInv, Types, FieldsMatchState, HandlersFit, RetriesAreOwed, botVars
<1> QED
  BY <1>1, <1>2, <1>3, <1>4 DEF BotNext

LEMMA BotInvAlways == BotSpec => []BotInv
BY FirstBotInv, StepBotInv, PTL DEF BotSpec

(***************************************************************************)
(* Type correctness.  The bound of the retry counter is not a matter of    *)
(* types: it holds because no counter exceeds the failures of handlers at  *)
(* work, of which each has had at most MaxRetries.                         *)
(***************************************************************************)
THEOREM BotTypeTheorem == BotSpec => []BotTypeOK
<1>1. BotInv => BotTypeOK
  <2> SUFFICES ASSUME BotInv PROVE BotTypeOK
    OBVIOUS
  <2>1. Types
    BY DEF BotInv
  <2>2. ASSUME NEW x \in Chats
        PROVE  conversation[x].retries \in 0..MaxRetries * Cardinality(Messages)
    <3>1. FailuresUnderWay(x) \in 0..MaxRetries * Cardinality(Messages)
      BY <2>1, UnderWayBound DEF AllInBound
    <3>2. conversation[x].retries <= FailuresUnderWay(x)
          /\ conversation[x].retries \in Nat
      BY <2>1 DEF BotInv, RetriesAreOwed, Types, Rows
    <3>3. MaxRetries * Cardinality(Messages) \in Nat
      BY Bounds, FS_CardinalityType
    <3>4. PICK b \in Nat : b = MaxRetries * Cardinality(Messages)
      BY <3>3
    <3> QED
      BY <3>1, <3>2, <3>4
  <2>3. conversation \in
          [Chats -> [state : BotStates, fields : SUBSET FieldNames,
                     retries : 0..MaxRetries * Cardinality(Messages)]]
    BY <2>1, <2>2 DEF Types, Rows
  <2> QED
    BY <2>1, <2>3 DEF BotTypeOK, Types, Handlers
<1> QED
  BY <1>1, BotInvAlways, PTL

(***************************************************************************)
(* Whatever messages of a chat overlap, the state of its conversation says *)
(* exactly what has been collected.                                        *)
(***************************************************************************)
THEOREM FieldsTheorem == BotSpec => []FieldsMatchState
<1>1. BotInv => FieldsMatchState
  BY DEF BotInv
<1> QED
  BY <1>1, BotInvAlways, PTL

(***************************************************************************)
(* The retry counter of a chat never exceeds the failures so far of the    *)
(* creations still under way there, whichever conversation they were       *)
(* started from.                                                           *)
(***************************************************************************)
THEOREM RetriesTheorem == BotSpec => []RetriesAreOwed
<1>1. BotInv => RetriesAreOwed
  BY DEF BotInv
<1> QED
  BY <1>1, BotInvAlways, PTL
=============================================================================
