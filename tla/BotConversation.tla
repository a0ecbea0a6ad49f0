--------------------------- MODULE BotConversation ---------------------------
(***************************************************************************)
(* The conversation in which the Telegram bot collects a new deal: one row *)
(* per chat with the state of the conversation and what has been collected *)
(* so far.                                                                 *)
(*                                                                         *)
(* A message is dispatched on the state that is read when it arrives; the  *)
(* update reads the row again, checks the transition and writes it back    *)
(* whole, each in a statement of its own.  Messages of one chat are not    *)
(* kept apart.  A handler that dies is one that takes no further step.     *)
(*                                                                         *)
(* What a message says is its command or its field; an answer that is not  *)
(* valid is asked for again and changes nothing.                           *)
(***************************************************************************)
EXTENDS Naturals, FiniteSets, Functions

CONSTANTS
  Chats,       \* Telegram chats
  Messages,    \* messages that may be handled at once
  MaxRetries   \* MAX_RETRIES, 3 in the code

ASSUME BotAssumption == IsFiniteSet(Messages) /\ MaxRetries \in Nat \ {0}

VARIABLES
  conversation,   \* conversation[x]: the row of chat x
  handling        \* handling[m]: the handler of message m, or Handled

botVars == <<conversation, handling>>

BotStates ==
  {"IDLE", "COLLECTING_ROLE", "COLLECTING_TITLE", "COLLECTING_AMOUNT",
   "COLLECTING_CURRENCY", "CONFIRMING"}

ValidTransitions ==
  [IDLE                |-> {"COLLECTING_ROLE"},
   COLLECTING_ROLE     |-> {"COLLECTING_TITLE", "IDLE"},
   COLLECTING_TITLE    |-> {"COLLECTING_AMOUNT", "IDLE"},
   COLLECTING_AMOUNT   |-> {"COLLECTING_CURRENCY", "IDLE"},
   COLLECTING_CURRENCY |-> {"CONFIRMING", "IDLE"},
   CONFIRMING          |-> {"IDLE"}]

IsValidTransition(from, to) == to \in ValidTransitions[from]

FreshRow == [state |-> "IDLE", fields |-> {}, retries |-> 0]

Handled == [stage |-> "handled"]

\* A row that is not there yet is made on first use, which is no different.
BotInit ==
  /\ conversation = [x \in Chats |-> FreshRow]
  /\ handling = [m \in Messages |-> Handled]

Chat(m) == handling[m].chat

Handle(m, record) == handling' = [handling EXCEPT ![m] = record]

Done(m) == Handle(m, Handled)

AtStage(m, stage) == handling[m].stage = stage

\* Fault: the failure counter survives.
ClearButRetries(x) ==
  conversation' = [conversation EXCEPT ![x].state = "IDLE", ![x].fields = {}]

Clear(x) == conversation' = [conversation EXCEPT ![x] = FreshRow]

-----------------------------------------------------------------------------
(* Messages *)

\* A handler that is about to call update.
Updating(x, to, field) ==
  [stage |-> "update", chat |-> x, to |-> to, fields |-> field, failures |-> 0]

HandleNewDeal(m, x) ==
  /\ AtStage(m, "handled")
  /\ Handle(m, Updating(x, "COLLECTING_ROLE", {}))
  /\ UNCHANGED conversation

HandleCancel(x) ==
  /\ Clear(x)
  /\ UNCHANGED handling

\* Which field a state asks for and what comes next.
Steps ==
  {[state |-> "COLLECTING_ROLE",     field |-> "role",     next |-> "COLLECTING_TITLE"],
   [state |-> "COLLECTING_TITLE",    field |-> "title",    next |-> "COLLECTING_AMOUNT"],
   [state |-> "COLLECTING_AMOUNT",   field |-> "amount",   next |-> "COLLECTING_CURRENCY"],
   [state |-> "COLLECTING_CURRENCY", field |-> "currency", next |-> "CONFIRMING"]}

\* A valid answer to the question of the state as read.
Collect(m, x) ==
  /\ AtStage(m, "handled")
  /\ \E s \in Steps :
       /\ s.state = conversation[x].state
       /\ Handle(m, Updating(x, s.next, {s.field}))
  /\ UNCHANGED conversation

\* "yes", from a user whose account is linked or not.
HandleConfirm(m, x) ==
  /\ AtStage(m, "handled")
  /\ conversation[x].state = "CONFIRMING"
  /\ \E stage \in {"confirm", "clear"} :
       Handle(m, [Updating(x, "IDLE", {}) EXCEPT !.stage = stage])
  /\ UNCHANGED conversation

-----------------------------------------------------------------------------
(* update *)

\* Fault: what had been collected is overwritten.
MergeNothing(old, new) == new

Merge(old, new) == old \cup new

\* The row as read, the check, and what will be written.
UpdateRead(m) ==
  LET row == conversation[Chat(m)]
  IN  /\ AtStage(m, "update")
      /\ IF IsValidTransition(row.state, handling[m].to)
         THEN handling' = [handling EXCEPT
                ![m].stage = "write", ![m].fields = Merge(row.fields, @)]
         ELSE Done(m)
      /\ UNCHANGED conversation

UpdateWrite(m) ==
  /\ AtStage(m, "write")
  /\ conversation' = [conversation EXCEPT
       ![Chat(m)].state = handling[m].to, ![Chat(m)].fields = handling[m].fields]
  /\ Done(m)

-----------------------------------------------------------------------------
(* Creating the deal *)

\* The payload of the deal: the row is read once more.
ReadPayload(m) ==
  /\ AtStage(m, "confirm")
  /\ handling' = [handling EXCEPT
       ![m].stage = "create", ![m].fields = conversation[Chat(m)].fields]
  /\ UNCHANGED conversation

\* The role asks for a name among the required fields, and the bot has none
\* to give: every attempt is refused before it writes anything.
Required == {"role", "title", "amount", "currency", "name"}

CreationRefused(fields) == Required \ fields # {}

\* Fault: the failure is counted twice.
IncrementTwice(x) == conversation' = [conversation EXCEPT ![x].retries = @ + 2]

IncrementRetries(x) == conversation' = [conversation EXCEPT ![x].retries = @ + 1]

\* Fault: the row is left as it is after the last attempt.
StageAfterForgetful(failures) == IF failures = MaxRetries THEN "handled" ELSE "create"

StageAfter(failures) == IF failures = MaxRetries THEN "clear" ELSE "create"

AttemptCreation(m) ==
  LET failures == handling[m].failures + 1
  IN  /\ AtStage(m, "create")
      /\ CreationRefused(handling[m].fields)
      /\ IncrementRetries(Chat(m))
      /\ handling' = [handling EXCEPT ![m].stage = StageAfter(failures),
                                      ![m].failures = failures]

\* After the last attempt, or at once when the account is not linked.
ClearAfter(m) ==
  /\ AtStage(m, "clear")
  /\ Clear(Chat(m))
  /\ Done(m)

GoOn(m) ==
  \/ UpdateRead(m) \/ UpdateWrite(m)
  \/ ReadPayload(m) \/ AttemptCreation(m) \/ ClearAfter(m)

BotNext ==
  \/ \E x \in Chats :
       \/ HandleCancel(x)
       \/ \E m \in Messages :
            HandleNewDeal(m, x) \/ Collect(m, x) \/ HandleConfirm(m, x)
  \/ \E m \in Messages : GoOn(m)

\* A handler that has started goes on: nothing it awaits waits for another.
BotSpec ==
  BotInit /\ [][BotNext]_botVars /\ \A m \in Messages : WF_botVars(GoOn(m))

-----------------------------------------------------------------------------

FieldNames == {"role", "title", "amount", "currency"}

\* Failed attempts of the handler of m, if it is at work in chat x.
FailuresIn(m, x) ==
  IF ~AtStage(m, "handled") /\ Chat(m) = x THEN handling[m].failures ELSE 0

FailuresUnderWay(x) == SumFunction([m \in Messages |-> FailuresIn(m, x)])

\* Type invariant.
BotTypeOK ==
  /\ conversation \in
       [Chats -> [state : BotStates, fields : SUBSET FieldNames,
                  retries : 0..MaxRetries * Cardinality(Messages)]]
  /\ handling \in
       [Messages -> {Handled} \cup
          [stage : {"update", "write", "confirm", "create", "clear"}, chat : Chats,
           to : BotStates, fields : SUBSET FieldNames, failures : 0..MaxRetries]]

\* What has been collected by the time a conversation is in a state.
Collected(state) ==
  CASE state \in {"IDLE", "COLLECTING_ROLE"} -> {}
    [] state = "COLLECTING_TITLE" -> {"role"}
    [] state = "COLLECTING_AMOUNT" -> {"role", "title"}
    [] state = "COLLECTING_CURRENCY" -> FieldNames \ {"currency"}
    [] state = "CONFIRMING" -> FieldNames

(***************************************************************************)
(* However messages overlap, the state of a conversation says what has     *)
(* been collected, and what has been is complete up to there: no answer is *)
(* lost while its state is kept, and none outlives a cancellation alone.   *)
(***************************************************************************)
FieldsMatchState ==
  \A x \in Chats : conversation[x].fields = Collected(conversation[x].state)

(***************************************************************************)
(* The retry counter of a chat is never more than the failures so far of   *)
(* the creations still under way in that chat, whichever conversation they *)
(* were started from, and zero when there are none.  It does not tell      *)
(* conversations apart: a creation that retries after /cancel goes on      *)
(* counting in the row, and a /newdeal meanwhile starts with its failures. *)
(***************************************************************************)
RetriesAreOwed ==
  \A x \in Chats : conversation[x].retries <= FailuresUnderWay(x)

(***************************************************************************)
(* A confirmation ends with the conversation idle, so that the chat can    *)
(* start another: no chat is stuck in CONFIRMING.                          *)
(***************************************************************************)
ConfirmationEnds ==
  \A m \in Messages, x \in Chats :
    (AtStage(m, "create") /\ Chat(m) = x) ~> conversation[x].state = "IDLE"
=============================================================================
