--------------------------- MODULE IdempotencyKeys ---------------------------
(***************************************************************************)
(* The idempotency middleware.  The first request with a key reserves a    *)
(* row for it, the handler runs, and the response is written to the row    *)
(* for later requests with that key: the same request gets the recorded    *)
(* response, another one is refused, and one that comes while the first is *)
(* still being served is refused too.                                      *)
(*                                                                         *)
(* The record is written by an update that nobody waits for.  A row is     *)
(* never deleted and its expiry never changes; once it has expired it is   *)
(* ignored, but it still occupies its primary key.                         *)
(***************************************************************************)
EXTENDS HttpRequests

CONSTANT KeyTTL   \* DEFAULT_TTL_MS, in ticks

\* A day, against the seconds that serving a request takes: when a row made by
\* one request has expired, no request that overlapped it is left.
ASSUME KeyAssumption == KeyTTL \in Nat /\ KeyTTL > 2 * MaxServing

VARIABLES
  keyRow,     \* keyRow[k]: the row of a key and its user, or NoRow
  ran,        \* ran[k]: handler runs under the key that had an effect, up to 2
  captures    \* records under way: a key and the answer to write

idempotency == <<keyRow, ran, captures>>

Users == {Owner[t] : t \in Tokens}

\* The primary key: key and route, and the user.
RowKeys == Keys \X Users

NoRow == [body |-> {}, expires |-> 0, answer |-> {}]

RowKey(c) == <<conn[c].key, Asker(c)>>

KeysInit ==
  /\ keyRow = [k \in RowKeys |-> NoRow]
  /\ ran = [k \in RowKeys |-> 0]
  /\ captures = {}

-----------------------------------------------------------------------------
(* The record *)

\* What a handler, or a failure on the way to it, ends with.
Outcomes ==
  {"returned", "DomainException", "P2002", "P2025", "OtherPrisma",
   "HttpException", "Error"}

\* The exception filter: errors it can name are the client's, all others are
\* the server's.
StatusClass(outcome) ==
  CASE outcome = "returned" -> "2xx"
    [] outcome \in {"DomainException", "P2002", "P2025", "HttpException"} -> "4xx"
    [] outcome \in {"OtherPrisma", "Error"} -> "5xx"

\* findActiveRow: an expired row counts as none.
Active(k, asOf) == keyRow[k] # NoRow /\ keyRow[k].expires > asOf

\* Fault: the body is not compared.
MatchesAny(k, body) == TRUE

Matches(k, body) == keyRow[k].body = {body}

(***************************************************************************)
(* What an active row means for a request: refused when the payload        *)
(* differs or when there is no answer yet, else answered from the record.  *)
(***************************************************************************)
FollowRow(c) ==
  LET k == RowKey(c)
  IN  IF Matches(k, conn[c].body) /\ keyRow[k].answer # {}
      THEN conn' = [conn EXCEPT ![c].stage = "replay",
                                ![c].answer = keyRow[k].answer]
      ELSE Finish(c)

\* The first lookup; the clock is read here and used until the end.
LookUp(c) ==
  /\ At(c, "lookup")
  /\ IF Active(RowKey(c), now)
     THEN FollowRow(c)
     ELSE conn' = [conn EXCEPT ![c].stage = "reserve", ![c].asOf = now]
  /\ UNCHANGED <<now, idempotency>>

\* Fault: a row that is already there is taken for one's own.
ReserveAnyway(c) ==
  LET k == RowKey(c)
  IN  /\ At(c, "reserve")
      /\ keyRow' = [keyRow EXCEPT ![k] =
           IF @ # NoRow THEN @
           ELSE [body |-> {conn[c].body}, expires |-> conn[c].asOf + KeyTTL,
                 answer |-> {}]]
      /\ Move(c, "handle")
      /\ UNCHANGED <<now, ran, captures>>

\* The insert: it makes the row, or meets one (P2002).
Reserve(c) ==
  LET k == RowKey(c)
  IN  /\ At(c, "reserve")
      /\ \/ /\ keyRow[k] = NoRow
            /\ keyRow' = [keyRow EXCEPT ![k] =
                 [body |-> {conn[c].body}, expires |-> conn[c].asOf + KeyTTL,
                  answer |-> {}]]
            /\ Move(c, "handle")
         \/ /\ keyRow[k] # NoRow
            /\ Move(c, "reread")
            /\ UNCHANGED keyRow
      /\ UNCHANGED <<now, ran, captures>>

\* After P2002: follow the winner's row; when that one has expired, the
\* request goes on without a reservation.
ReRead(c) ==
  /\ At(c, "reread")
  /\ IF Active(RowKey(c), conn[c].asOf) THEN FollowRow(c) ELSE Move(c, "handle")
  /\ UNCHANGED <<now, idempotency>>

-----------------------------------------------------------------------------
(* The handler and its response *)

\* The answer names whom and what it answers.
Answer(c, outcome) ==
  {[user |-> Asker(c), body |-> conn[c].body, class |-> StatusClass(outcome)]}

\* A server error is never recorded.
Recorded(outcome) == StatusClass(outcome) # "5xx"

(***************************************************************************)
(* Any handler but logout: its transaction commits and it returns, or it   *)
(* throws, perhaps after the commit.  The response goes out through the    *)
(* wrapped res.json, which first sends off the record, reservation or not. *)
(* A process that dies before the response, or before the record is        *)
(* written, is a Drop or a CaptureFails.                                   *)
(***************************************************************************)
Handle(c) ==
  /\ At(c, "handle")
  /\ conn[c].body # Logout
  /\ Cardinality(captures) < MaxLate
  /\ \E outcome \in Outcomes, commits \in BOOLEAN :
       /\ outcome = "returned" => commits
       /\ ran' = IF commits THEN [ran EXCEPT ![RowKey(c)] = IF @ < 2 THEN @ + 1 ELSE @]
                 ELSE ran
       /\ captures' = IF Recorded(outcome)
            THEN captures \cup {[key |-> RowKey(c), answer |-> Answer(c, outcome)]}
            ELSE captures
  /\ Finish(c)
  /\ UNCHANGED <<now, keyRow>>

CaptureLands(r) ==
  /\ r \in captures
  /\ keyRow' = [keyRow EXCEPT ![r.key].answer = r.answer]
  /\ captures' = captures \ {r}
  /\ UNCHANGED <<now, conn, ran>>

CaptureFails(r) ==
  /\ r \in captures
  /\ captures' = captures \ {r}
  /\ UNCHANGED <<now, conn, keyRow, ran>>

\* The recorded answer is sent.
Replay(c) ==
  /\ At(c, "replay")
  /\ Finish(c)
  /\ UNCHANGED <<now, idempotency>>

KeyStep ==
  \/ \E c \in Conns :
       LookUp(c) \/ Reserve(c) \/ ReRead(c) \/ Handle(c) \/ Replay(c)
  \/ \E r \in captures : CaptureLands(r) \/ CaptureFails(r)

-----------------------------------------------------------------------------

Answers ==
  [user : Users, body : Bodies, class : {"2xx", "4xx", "5xx"}]

AtMostOne(S) == {{}} \cup {{x} : x \in S}

\* The types of the idempotency half.
KeysTypeOK ==
  /\ keyRow \in [RowKeys -> [body : AtMostOne(Bodies), expires : 0..MaxTime + KeyTTL,
                             answer : AtMostOne(Answers)]]
  /\ ran \in [RowKeys -> 0..2]
  /\ captures \subseteq [key : RowKeys, answer : AtMostOne(Answers)]

(***************************************************************************)
(* As long as the row of a key has not expired, the handler has had its    *)
(* effect once at most, however many requests carry the key at once,       *)
(* whatever they die of and whether or not the record was written.         *)
(***************************************************************************)
OncePerKey ==
  \A k \in RowKeys : ran[k] > 1 => keyRow[k] # NoRow /\ keyRow[k].expires <= now

(***************************************************************************)
(* A recorded answer goes to the user it was made for and to the request   *)
(* it answers, and is never a server error: records written late, or by a  *)
(* request that ran without a reservation, do not end up in an active row. *)
(***************************************************************************)
ReplayIsFaithful ==
  \A c \in Conns : At(c, "replay") =>
    \A a \in conn[c].answer :
      a.user = Asker(c) /\ a.body = conn[c].body /\ a.class # "5xx"
=============================================================================
