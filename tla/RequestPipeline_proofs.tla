----------------------- MODULE RequestPipeline_proofs -----------------------
(***************************************************************************)
(* Proofs about RequestPipeline for any number of connections, tokens,     *)
(* users, keys and bodies, any lifetimes and any bound on the clock.       *)
(***************************************************************************)
EXTENDS RequestPipeline, TLAPS

-----------------------------------------------------------------------------
(* The inductive invariants *)

\* What is kept of a request between its arrival and its end.
InFlight ==
  [stage : Stages, token : Tokens, key : Keys \cup {NoKey},
   body : Bodies \cup {Logout}, since : 0..MaxTime, asOf : 0..MaxTime,
   answer : AtMostOne(Answers)]

\* The request was served, so far, within the time that serving may take, and
\* the moment it looked its key up at lies within that time.
InTime(c) ==
  /\ conn[c].since <= conn[c].asOf
  /\ conn[c].asOf <= now
  /\ now <= conn[c].since + MaxServing

\* Logout alone has no key, and the stages of the idempotency middleware are
\* for requests with one.
KeyFits(c) ==
  /\ conn[c].key = NoKey <=> conn[c].body = Logout
  /\ conn[c].stage \in {"lookup", "reserve", "reread", "replay"}
       => conn[c].key # NoKey

\* The server's half: who is being served, and since when.
ServingInv ==
  /\ now \in 0..MaxTime
  /\ conn \in [Conns -> {Quiet} \cup InFlight]
  /\ \A c \in Conns : conn[c] # Quiet => InTime(c) /\ KeyFits(c)

TypeInv == ServingInv /\ PipelineTypeOK

\* Extensions and rows reach at most one lifetime past the last use.
SessionInv ==
  /\ TypeInv
  /\ \A t \in Tokens : lastUse[t] <= now
  /\ \A s \in slides : s.expiry <= lastUse[s.token] + SessionTTL
  /\ IdleSessionsDie

\* The row of k exists and has not expired.
Alive(k) == keyRow[k] # NoRow /\ keyRow[k].expires > now

\* The answers are for the user of row k and for the request that made the row.
Faithful(k, answer) ==
  \A a \in answer :
    a.user = k[2] /\ keyRow[k].body = {a.body} /\ a.class # "5xx"

(***************************************************************************)
(* A row with an effect behind it exists; while it is alive there was one  *)
(* effect at most and its answer is the right one.                         *)
(***************************************************************************)
RowOK(k) ==
  /\ keyRow[k] # NoRow => keyRow[k].body # {}
  /\ ran[k] > 0 => keyRow[k] # NoRow
  /\ ran[k] > 1 => ~Alive(k)
  /\ Alive(k) => Faithful(k, keyRow[k].answer)

CaptureOK(r) ==
  /\ keyRow[r.key] # NoRow
  /\ Alive(r.key) => Faithful(r.key, r.answer)

(***************************************************************************)
(* A row that a request failed to find when it looked was either expired   *)
(* then, or made since: in that case it outlives the request, because a    *)
(* key lives longer than two requests take.                                *)
(***************************************************************************)
OldOrNew(c) ==
  LET row == keyRow[RowKey(c)]
  IN  row # NoRow => \/ row.expires <= conn[c].asOf
                     \/ row.expires > conn[c].since + MaxServing

\* The handler of c is next to run under a key.
Handling(c) == At(c, "handle") /\ conn[c].key # NoKey

(***************************************************************************)
(* While its row is alive a handler that is about to run is the one that   *)
(* made the row, and nobody has run before.                                *)
(***************************************************************************)
HandlerOK(c) ==
  LET k == RowKey(c)
  IN  /\ keyRow[k] # NoRow
      /\ Alive(k) => keyRow[k].body = {conn[c].body} /\ ran[k] = 0

StageOK(c) ==
  /\ At(c, "reserve") \/ At(c, "reread") => OldOrNew(c)
  /\ At(c, "reread") => keyRow[RowKey(c)] # NoRow
  /\ Handling(c) => HandlerOK(c)

OneHandler ==
  \A c, e \in Conns :
    Handling(c) /\ Handling(e) /\ RowKey(c) = RowKey(e) /\ Alive(RowKey(c))
      => c = e

KeyInv ==
  /\ TypeInv
  /\ \A k \in RowKeys : RowOK(k)
  /\ \A r \in captures : CaptureOK(r)
  /\ \A c \in Conns : StageOK(c)
  /\ OneHandler
  /\ ReplayIsFaithful

-----------------------------------------------------------------------------
(* Requests *)

\* What is known of a request that is being served.
LEMMA RequestFields ==
  ASSUME ServingInv, NEW c \in Conns, ~At(c, "quiet")
  PROVE  /\ conn[c] \in InFlight
         /\ InTime(c) /\ KeyFits(c)
         /\ conn[c].token \in Tokens /\ Asker(c) \in Users
         /\ conn[c].since \in Nat /\ conn[c].asOf \in Nat /\ now \in Nat
         /\ conn[c].key # NoKey
              => RowKey(c) \in RowKeys /\ conn[c].body \in Bodies
<1>1. conn[c] # Quiet /\ conn[c] \in InFlight
  BY DEF ServingInv, At, Quiet
<1>2. InTime(c) /\ KeyFits(c)
  BY <1>1 DEF ServingInv
<1>3. conn[c].token \in Tokens /\ Asker(c) \in Users
  BY <1>1 DEF InFlight, Asker, Users
<1>4. conn[c].key # NoKey => conn[c].key \in Keys /\ conn[c].body \in Bodies
  BY <1>1, <1>2 DEF InFlight, KeyFits
<1>5. conn[c].since \in Nat /\ conn[c].asOf \in Nat /\ now \in Nat
  BY <1>1 DEF InFlight, ServingInv
<1> QED
  BY <1>1, <1>2, <1>3, <1>4, <1>5 DEF RowKey, RowKeys

\* One request becomes q, the others stay as they are.
LEMMA OneMoves ==
  ASSUME ServingInv, NEW c \in Conns, NEW q \in {Quiet} \cup InFlight,
         conn' = [conn EXCEPT ![c] = q], now' = now,
         q # Quiet =>
           /\ q.since <= q.asOf /\ q.asOf <= now /\ now <= q.since + MaxServing
           /\ q.key = NoKey <=> q.body = Logout
           /\ q.stage \in {"lookup", "reserve", "reread", "replay"}
                => q.key # NoKey
  PROVE  ServingInv'
<1>1. conn' \in [Conns -> {Quiet} \cup InFlight]
  BY DEF ServingInv
<1>2. ASSUME NEW e \in Conns, conn'[e] # Quiet
      PROVE  InTime(e)' /\ KeyFits(e)'
  <2>1. conn'[e] = IF e = c THEN q ELSE conn[e]
    BY DEF ServingInv
  <2>2. CASE e = c
    BY <1>2, <2>1, <2>2 DEF InTime, KeyFits
  <2>3. CASE e # c
    BY <1>2, <2>1, <2>3 DEF ServingInv, InTime, KeyFits
  <2> QED
    BY <2>2, <2>3
<1> QED
  BY <1>1, <1>2 DEF ServingInv

\* A request ends.
LEMMA Finished ==
  ASSUME ServingInv, NEW c \in Conns, Finish(c), now' = now
  PROVE  ServingInv' /\ conn'[c] = Quiet
BY OneMoves DEF Finish, ServingInv

\* A request goes on to another stage.
LEMMA Moved ==
  ASSUME ServingInv, NEW c \in Conns, ~At(c, "quiet"), NEW stage \in Stages,
         Move(c, stage), now' = now,
         stage \in {"lookup", "reserve", "reread", "replay"}
           => conn[c].key # NoKey
  PROVE  /\ ServingInv'
         /\ conn'[c] = [conn[c] EXCEPT !.stage = stage]
<1> DEFINE q == [conn[c] EXCEPT !.stage = stage]
<1>1. conn[c] \in InFlight /\ InTime(c) /\ KeyFits(c)
  BY RequestFields
<1>2. /\ q \in InFlight
      /\ q.since = conn[c].since /\ q.asOf = conn[c].asOf /\ q.key = conn[c].key
      /\ q.body = conn[c].body /\ q.stage = stage
  BY <1>1 DEF InFlight
<1>3. conn' = [conn EXCEPT ![c] = q]
  BY DEF Move
<1>4. conn'[c] = q
  BY <1>3 DEF ServingInv
<1> HIDE DEF q
<1>5. ServingInv'
  BY <1>1, <1>2, <1>3, OneMoves DEF InTime, KeyFits
<1> QED
  BY <1>4, <1>5 DEF q

\* A request follows the row of its key: it is answered from it or refused.
LEMMA Followed ==
  ASSUME TypeInv, NEW c \in Conns, ~At(c, "quiet"), conn[c].key # NoKey,
         FollowRow(c), now' = now
  PROVE  /\ ServingInv'
         /\ \/ conn'[c] = Quiet
            \/ /\ Matches(RowKey(c), conn[c].body)
               /\ conn'[c] = [conn[c] EXCEPT !.stage = "replay",
                                !.answer = keyRow[RowKey(c)].answer]
<1> DEFINE k == RowKey(c)
           q == [conn[c] EXCEPT !.stage = "replay", !.answer = keyRow[k].answer]
<1>0. ServingInv
  BY DEF TypeInv
<1>1. conn[c] \in InFlight /\ InTime(c) /\ KeyFits(c) /\ k \in RowKeys
  BY <1>0, RequestFields
<1>2. CASE Finish(c)
  BY <1>0, <1>2, Finished
<1>3. CASE /\ Matches(k, conn[c].body)
           /\ conn' = [conn EXCEPT ![c].stage = "replay",
                                   ![c].answer = keyRow[k].answer]
  <2>1. keyRow[k].answer \in AtMostOne(Answers)
    BY <1>1 DEF TypeInv, PipelineTypeOK, KeysTypeOK
  <2>2. /\ q \in InFlight
        /\ q.since = conn[c].since /\ q.asOf = conn[c].asOf
        /\ q.key = conn[c].key /\ q.body = conn[c].body
    BY <1>1, <2>1 DEF InFlight, Stages
  <2>3. conn' = [conn EXCEPT ![c] = q]
    BY <1>0, <1>3 DEF ServingInv
  <2>4. conn'[c] = q
    BY <1>0, <2>3 DEF ServingInv
  <2> HIDE DEF q
  <2>5. ServingInv'
    BY <1>0, <1>1, <2>2, <2>3, OneMoves DEF InTime, KeyFits
  <2> QED
    BY <1>3, <2>4, <2>5 DEF q
<1> QED
  BY <1>2, <1>3 DEF FollowRow

\* A request without an active row goes on to reserve one.
LEMMA WentToReserve ==
  ASSUME ServingInv, NEW c \in Conns, ~At(c, "quiet"), conn[c].key # NoKey,
         conn' = [conn EXCEPT ![c].stage = "reserve", ![c].asOf = now],
         now' = now
  PROVE  /\ ServingInv'
         /\ conn'[c] = [conn[c] EXCEPT !.stage = "reserve", !.asOf = now]
<1> DEFINE q == [conn[c] EXCEPT !.stage = "reserve", !.asOf = now]
<1>1. conn[c] \in InFlight /\ InTime(c) /\ KeyFits(c)
  BY RequestFields
<1>2. /\ q \in InFlight
      /\ q.since = conn[c].since /\ q.asOf = now
      /\ q.key = conn[c].key /\ q.body = conn[c].body
  BY <1>1 DEF InFlight, Stages, ServingInv
<1>3. conn' = [conn EXCEPT ![c] = q]
  BY DEF ServingInv
<1>4. conn'[c] = q
  BY <1>3 DEF ServingInv
<1>5. conn[c].since <= now
  <2>1. conn[c].since \in Nat /\ conn[c].asOf \in Nat /\ now \in Nat
    BY RequestFields
  <2> QED
    BY <1>1, <2>1 DEF InTime
<1> HIDE DEF q
<1>6. now <= now
  BY RequestFields
<1>7. ServingInv'
  BY <1>1, <1>2, <1>3, <1>5, <1>6, OneMoves DEF InTime, KeyFits
<1> QED
  BY <1>4, <1>7 DEF q

-----------------------------------------------------------------------------
(* Types *)

LEMMA Bounds ==
  /\ MaxServing \in Nat /\ MaxTime \in Nat /\ SessionTTL \in Nat
  /\ KeyTTL \in Nat /\ KeyTTL > 2 * MaxServing
  /\ NoKey \notin Keys /\ Logout \notin Bodies
BY HttpAssumption, SessionAssumption, KeyAssumption

LEMMA InitTypes == PipelineInit => TypeInv
<1> SUFFICES ASSUME PipelineInit PROVE TypeInv
  OBVIOUS
<1>1. now = 0 /\ conn = [c \in Conns |-> Quiet] /\ SessionsInit /\ KeysInit
  BY DEF PipelineInit
<1>2. ServingInv
  BY <1>1, Bounds DEF ServingInv
<1>3. SessionsTypeOK
  BY <1>1, Bounds DEF SessionsInit, SessionsTypeOK, Quiet, Unissued
<1>4. KeysTypeOK
  <2>1. NoRow \in [body : AtMostOne(Bodies), expires : 0..MaxTime + KeyTTL,
                   answer : AtMostOne(Answers)]
    BY Bounds DEF NoRow, AtMostOne
  <2> QED
    BY <1>1, <2>1 DEF KeysInit, KeysTypeOK
<1> QED
  BY <1>2, <1>3, <1>4 DEF TypeInv, PipelineTypeOK

\* The stages in the session half's types follow from those of requests.
LEMMA StagesTyped ==
  ASSUME ServingInv
  PROVE  \A c \in Conns : conn[c].stage \in {"quiet"} \cup Stages
BY DEF ServingInv, InFlight, Quiet

\* A step that writes no row keeps the types if it keeps those of requests.
LEMMA RowsLeftAlone ==
  ASSUME TypeInv, ServingInv', UNCHANGED <<sessions, idempotency>>
  PROVE  TypeInv'
<1>1. (\A c \in Conns : conn[c].stage \in {"quiet"} \cup Stages)'
  BY StagesTyped, PTL
<1> QED
  BY <1>1 DEF TypeInv, PipelineTypeOK, SessionsTypeOK, KeysTypeOK, sessions,
     idempotency

\* A new expiry lies within the range of expiries.
LEMMA ExpiryTyped ==
  ASSUME ServingInv, NEW ttl \in Nat
  PROVE  now + ttl \in 0..MaxTime + ttl
BY Bounds DEF ServingInv

\* What a session step does to the session rows keeps their types.
LEMMA SessionTypes ==
  ASSUME TypeInv, ServingInv', UNCHANGED idempotency,
         NEW t \in Tokens, NEW expiry \in 0..MaxTime + SessionTTL,
         \/ session' = [session EXCEPT ![t] = SessionRow(expiry)]
         \/ session' = [session EXCEPT ![t] = Gone]
         \/ UNCHANGED session,
         lastUse' = [lastUse EXCEPT ![t] = now] \/ UNCHANGED lastUse,
         slides' \subseteq slides \cup {[token |-> t, expiry |-> expiry]}
  PROVE  TypeInv'
<1>1. (\A c \in Conns : conn[c].stage \in {"quiet"} \cup Stages)'
  BY StagesTyped, PTL
<1>2. SessionRow(expiry) \in [state : {"unissued", "there", "gone"},
                              expires : 0..MaxTime + SessionTTL]
  BY DEF SessionRow
<1>3. Gone \in [state : {"unissued", "there", "gone"},
                expires : 0..MaxTime + SessionTTL]
  BY Bounds DEF Gone
<1>4. session' \in [Tokens -> [state : {"unissued", "there", "gone"},
                               expires : 0..MaxTime + SessionTTL]]
  BY <1>2, <1>3 DEF TypeInv, PipelineTypeOK, SessionsTypeOK
<1>5. lastUse' \in [Tokens -> 0..MaxTime]
  BY DEF TypeInv, PipelineTypeOK, SessionsTypeOK, ServingInv
<1>6. slides' \subseteq [token : Tokens, expiry : 0..MaxTime + SessionTTL]
  BY DEF TypeInv, PipelineTypeOK, SessionsTypeOK
<1>7. KeysTypeOK'
  BY DEF TypeInv, PipelineTypeOK, KeysTypeOK, idempotency
<1> QED
  BY <1>1, <1>4, <1>5, <1>6, <1>7 DEF TypeInv, PipelineTypeOK, SessionsTypeOK

\* What a step of the idempotency half does to its rows keeps their types.
LEMMA KeyTypes ==
  ASSUME TypeInv, ServingInv', UNCHANGED sessions, KeysTypeOK'
  PROVE  TypeInv'
<1>1. (\A c \in Conns : conn[c].stage \in {"quiet"} \cup Stages)'
  BY StagesTyped, PTL
<1> QED
  BY <1>1 DEF TypeInv, PipelineTypeOK, SessionsTypeOK, sessions

\* The world outside keeps the types: nobody is served for longer than allowed.
LEMMA OutsideTypes ==
  ASSUME TypeInv, Outside, UNCHANGED <<sessions, idempotency>>
  PROVE  TypeInv'
<1>0. ServingInv
  BY DEF TypeInv
<1>1. ASSUME NEW c \in Conns, Drop(c) PROVE ServingInv'
  BY <1>0, <1>1, Finished DEF Drop
<1>2. ASSUME NEW c \in Conns, NEW t \in Tokens, NEW k \in Keys \cup {NoKey},
             NEW b \in Bodies \cup {Logout}, Arrive(c, t, k, b)
      PROVE  ServingInv'
  <2> DEFINE q == HttpRequest(t, k, b)
  <2>1. now \in 0..MaxTime /\ {} \in AtMostOne(Answers)
    BY <1>0 DEF ServingInv, AtMostOne
  <2>2. /\ q \in InFlight
        /\ q.since = now /\ q.asOf = now /\ q.key = k /\ q.body = b
        /\ q.stage = "find"
    BY <2>1 DEF HttpRequest, InFlight, Stages
  <2>3. conn' = [conn EXCEPT ![c] = q] /\ now' = now /\ (b = Logout <=> k = NoKey)
    BY <1>2 DEF Arrive
  <2>4. now <= now + MaxServing /\ now <= now
    BY <2>1, Bounds
  <2> HIDE DEF q
  <2> QED
    BY <1>0, <2>2, <2>3, <2>4, OneMoves
<1>3. ASSUME Tick PROVE ServingInv'
  <2>1. now \in 0..MaxTime /\ now' = now + 1 /\ now' \in 0..MaxTime
          /\ conn' = conn
    BY <1>0, <1>3, Bounds DEF ServingInv, Tick
  <2>2. ASSUME NEW c \in Conns, conn'[c] # Quiet
        PROVE  InTime(c)' /\ KeyFits(c)'
    <3>1. conn[c] \in InFlight /\ InTime(c) /\ KeyFits(c)
      BY <1>0, <2>1, <2>2 DEF ServingInv
    <3>2. ~At(c, "quiet")
      BY <3>1 DEF InFlight, Stages, At
    <3>3. now < conn[c].since + MaxServing
      BY <1>3, <3>2 DEF Tick
    <3>4. conn[c].since \in Nat /\ conn[c].asOf \in Nat
      BY <1>0, <3>2, RequestFields
    <3>5. InTime(c)'
      BY <2>1, <3>1, <3>3, <3>4, Bounds DEF InTime
    <3> QED
      BY <2>1, <3>1, <3>5 DEF KeyFits
  <2> QED
    BY <1>0, <2>1, <2>2 DEF ServingInv
<1> QED
  BY <1>1, <1>2, <1>3, RowsLeftAlone DEF Outside

\* Every session step keeps the types.
LEMMA SessionStepTypes ==
  ASSUME TypeInv, SessionStep, UNCHANGED idempotency
  PROVE  TypeInv'
<1>0. ServingInv
  BY DEF TypeInv
<1>1. ASSUME NEW t \in Tokens, IssueSession(t) PROVE TypeInv'
  <2>1. ServingInv'
    BY <1>0, <1>1 DEF IssueSession, ServingInv, InTime, KeyFits
  <2>2. now + SessionTTL \in 0..MaxTime + SessionTTL
    BY <1>0, Bounds, ExpiryTyped
  <2>3. /\ session' = [session EXCEPT ![t] = SessionRow(now + SessionTTL)]
        /\ lastUse' = [lastUse EXCEPT ![t] = now] /\ slides' = slides
    BY <1>1 DEF IssueSession
  <2> QED
    BY <2>1, <2>2, <2>3, SessionTypes
<1>2. ASSUME NEW c \in Conns, FindSession(c) PROVE TypeInv'
  <2>1. PICK stage \in {"attach", "anonymous"} : Move(c, stage)
    BY <1>2 DEF FindSession
  <2>2. ~At(c, "quiet") /\ now' = now /\ stage \in Stages
          /\ stage \notin {"lookup", "reserve", "reread", "replay"}
    BY <1>2 DEF FindSession, At, Stages
  <2>3. ServingInv'
    BY <1>0, <2>1, <2>2, Moved
  <2> QED
    BY <1>2, <2>3, RowsLeftAlone DEF FindSession
<1>3. ASSUME NEW c \in Conns, RefuseAnonymous(c) PROVE TypeInv'
  BY <1>0, <1>3, Finished, RowsLeftAlone DEF RefuseAnonymous
<1>4. ASSUME NEW c \in Conns, AttachUser(c) PROVE TypeInv'
  <2>1. ~At(c, "quiet") /\ now' = now
    BY <1>4 DEF AttachUser, At
  <2>2. PICK stage \in {"handle", "lookup"} :
          Move(c, stage) /\ (stage = "lookup" => conn[c].key # NoKey)
    BY <1>4 DEF AttachUser
  <2>3. stage \in Stages
          /\ (stage \in {"lookup", "reserve", "reread", "replay"}
                => conn[c].key # NoKey)
    BY <2>2 DEF Stages
  <2>4. ServingInv'
    BY <1>0, <2>1, <2>2, <2>3, Moved
  <2>5. PICK t \in Tokens : t = conn[c].token
    BY <1>0, <2>1, RequestFields
  <2>6. PICK expiry \in 0..MaxTime + SessionTTL : expiry = NewExpiry(t)
    BY <1>0, Bounds, ExpiryTyped DEF NewExpiry
  <2>7. /\ slides' = slides \cup {[token |-> t, expiry |-> expiry]}
        /\ lastUse' = [lastUse EXCEPT ![t] = now] /\ session' = session
    BY <1>4, <2>5, <2>6 DEF AttachUser
  <2> QED
    BY <2>4, <2>7, SessionTypes
<1>5. ASSUME NEW c \in Conns, RevokeSession(c) PROVE TypeInv'
  <2>1. ~At(c, "quiet") /\ now' = now /\ Finish(c)
    BY <1>5 DEF RevokeSession, At
  <2>2. PICK t \in Tokens : t = conn[c].token
    BY <1>0, <2>1, RequestFields
  <2>3. /\ session' = [session EXCEPT ![t] = Gone]
        /\ lastUse' = lastUse /\ slides' = slides
    BY <1>5, <2>2 DEF RevokeSession
  <2>4. ServingInv' /\ 0 \in 0..MaxTime + SessionTTL
    BY <1>0, <2>1, Finished, Bounds
  <2> QED
    BY <2>3, <2>4, SessionTypes
<1>6. ASSUME NEW s \in slides, SlideLands(s) \/ SlideFails(s) PROVE TypeInv'
  <2>1. s.token \in Tokens /\ s.expiry \in 0..MaxTime + SessionTTL
    BY DEF TypeInv, PipelineTypeOK, SessionsTypeOK
  <2>2. ServingInv' /\ lastUse' = lastUse /\ slides' \subseteq slides
    BY <1>0, <1>6 DEF SlideLands, SlideFails, ServingInv, InTime, KeyFits
  <2>3. \/ session' = [session EXCEPT ![s.token] = SessionRow(s.expiry)]
        \/ session' = session
    BY <1>6 DEF SlideLands, SlideFails, ExtendRow, TypeInv, PipelineTypeOK,
       SessionsTypeOK
  <2> QED
    BY <2>1, <2>2, <2>3, SessionTypes
<1> QED
  BY <1>1, <1>2, <1>3, <1>4, <1>5, <1>6 DEF SessionStep

\* What an outcome is to the client.
LEMMA StatusClasses ==
  ASSUME NEW outcome \in Outcomes
  PROVE  StatusClass(outcome) \in {"2xx", "4xx", "5xx"}
BY DEF Outcomes, StatusClass

\* The answer of a handler that ran under a key.
LEMMA AnswerTyped ==
  ASSUME ServingInv, NEW c \in Conns, ~At(c, "quiet"), conn[c].key # NoKey,
         NEW outcome \in Outcomes
  PROVE  Answer(c, outcome) \in AtMostOne(Answers)
<1>1. Asker(c) \in Users /\ conn[c].body \in Bodies
  BY RequestFields
<1> QED
  BY <1>1, StatusClasses DEF Answer, Answers, AtMostOne

\* Every step of the idempotency half keeps the types.
LEMMA KeyStepTypes ==
  ASSUME TypeInv, KeyStep, UNCHANGED sessions
  PROVE  TypeInv'
<1>0. ServingInv /\ KeysTypeOK
  BY DEF TypeInv, PipelineTypeOK
<1>1. ASSUME NEW c \in Conns, LookUp(c) PROVE TypeInv'
  <2>1. ~At(c, "quiet") /\ now' = now /\ UNCHANGED idempotency
    BY <1>1 DEF LookUp, At
  <2>2. conn[c].key # NoKey
    BY <1>0, <1>1, <2>1, RequestFields DEF LookUp, At, KeyFits
  <2>3. ServingInv'
    BY <1>0, <1>1, <2>1, <2>2, Followed, WentToReserve DEF LookUp
  <2> QED
    BY <2>1, <2>3, RowsLeftAlone
<1>2. ASSUME NEW c \in Conns, Reserve(c) PROVE TypeInv'
  <2>1. ~At(c, "quiet") /\ now' = now
    BY <1>2 DEF Reserve, At
  <2>2. conn[c].key # NoKey
    BY <1>0, <1>2, <2>1, RequestFields DEF Reserve, At, KeyFits
  <2>3. PICK stage \in {"handle", "reread"} : Move(c, stage)
    BY <1>2 DEF Reserve
  <2>4. stage \in Stages
    BY DEF Stages
  <2>5. ServingInv'
    BY <1>0, <2>1, <2>2, <2>3, <2>4, Moved
  <2>6. PICK k \in RowKeys : k = RowKey(c)
    BY <1>0, <2>1, <2>2, RequestFields
  <2>7. conn[c].body \in Bodies /\ conn[c].asOf \in 0..MaxTime
    BY <1>0, <2>1, <2>2, RequestFields DEF InFlight
  <2>8. PICK row : row = [body |-> {conn[c].body},
                          expires |-> conn[c].asOf + KeyTTL, answer |-> {}]
    OBVIOUS
  <2>9. row \in [body : AtMostOne(Bodies), expires : 0..MaxTime + KeyTTL,
                 answer : AtMostOne(Answers)]
    BY <2>7, <2>8, Bounds DEF AtMostOne
  <2>10. /\ keyRow' = [keyRow EXCEPT ![k] = row] \/ keyRow' = keyRow
         /\ UNCHANGED <<ran, captures>>
    BY <1>2, <2>6, <2>8 DEF Reserve
  <2>11. KeysTypeOK'
    BY <1>0, <2>9, <2>10 DEF KeysTypeOK
  <2> QED
    BY <2>5, <2>11, KeyTypes
<1>3. ASSUME NEW c \in Conns, ReRead(c) PROVE TypeInv'
  <2>1. ~At(c, "quiet") /\ now' = now /\ UNCHANGED idempotency
          /\ "handle" \in Stages
    BY <1>3 DEF ReRead, At, Stages
  <2>2. conn[c].key # NoKey
    BY <1>0, <1>3, <2>1, RequestFields DEF ReRead, At, KeyFits
  <2>3. ServingInv'
    BY <1>0, <1>3, <2>1, <2>2, Followed, Moved DEF ReRead
  <2> QED
    BY <2>1, <2>3, RowsLeftAlone
<1>4. ASSUME NEW c \in Conns, Handle(c) PROVE TypeInv'
  <2>1. ~At(c, "quiet") /\ now' = now /\ Finish(c) /\ keyRow' = keyRow
    BY <1>4 DEF Handle, At
  <2>2. conn[c].key # NoKey
    BY <1>0, <1>4, <2>1, RequestFields DEF Handle, KeyFits
  <2>3. PICK k \in RowKeys : k = RowKey(c)
    BY <1>0, <2>1, <2>2, RequestFields
  <2>4. PICK outcome \in Outcomes, commits \in BOOLEAN :
          /\ ran' = IF commits
               THEN [ran EXCEPT ![k] = IF @ < 2 THEN @ + 1 ELSE @] ELSE ran
          /\ captures' = IF Recorded(outcome)
               THEN captures \cup {[key |-> k, answer |-> Answer(c, outcome)]}
               ELSE captures
    BY <1>4, <2>3 DEF Handle
  <2>5. ran' \in [RowKeys -> 0..2]
    BY <1>0, <2>4 DEF KeysTypeOK
  <2>6. Answer(c, outcome) \in AtMostOne(Answers)
    BY <1>0, <2>1, <2>2, AnswerTyped
  <2>7. captures' \subseteq [key : RowKeys, answer : AtMostOne(Answers)]
    BY <1>0, <2>4, <2>6 DEF KeysTypeOK
  <2>8. KeysTypeOK'
    BY <1>0, <2>1, <2>5, <2>7 DEF KeysTypeOK
  <2>9. ServingInv'
    BY <1>0, <2>1, Finished
  <2> QED
    BY <2>8, <2>9, KeyTypes
<1>5. ASSUME NEW c \in Conns, Replay(c) PROVE TypeInv'
  BY <1>0, <1>5, Finished, RowsLeftAlone DEF Replay
<1>6. ASSUME NEW r \in captures, CaptureLands(r) \/ CaptureFails(r)
      PROVE  TypeInv'
  <2>1. r.key \in RowKeys /\ r.answer \in AtMostOne(Answers)
    BY <1>0 DEF KeysTypeOK
  <2>2. captures' \subseteq captures /\ ran' = ran /\ UNCHANGED <<now, conn>>
    BY <1>6 DEF CaptureLands, CaptureFails
  <2>3. \/ keyRow' = [keyRow EXCEPT ![r.key].answer = r.answer]
        \/ keyRow' = keyRow
    BY <1>6 DEF CaptureLands, CaptureFails
  <2>4. KeysTypeOK'
    BY <1>0, <2>1, <2>2, <2>3 DEF KeysTypeOK
  <2>5. ServingInv'
    BY <1>0, <2>2 DEF ServingInv, InTime, KeyFits
  <2> QED
    BY <2>4, <2>5, KeyTypes
<1> QED
  BY <1>1, <1>2, <1>3, <1>4, <1>5, <1>6 DEF KeyStep

\* Every step keeps the types.
LEMMA StepTypes == TypeInv /\ [PipelineNext]_pipelineVars => TypeInv'
<1> SUFFICES ASSUME TypeInv, [PipelineNext]_pipelineVars PROVE TypeInv'
  OBVIOUS
<1>1. CASE PipelineNext
  BY <1>1, OutsideTypes, SessionStepTypes, KeyStepTypes DEF PipelineNext
<1>2. CASE UNCHANGED pipelineVars
  <2>1. ServingInv'
    BY <1>2 DEF pipelineVars, TypeInv, ServingInv, InTime, KeyFits
  <2> QED
    BY <1>2, <2>1, RowsLeftAlone DEF pipelineVars
<1> QED
  BY <1>1, <1>2

-----------------------------------------------------------------------------
(* Sessions *)

LEMMA InitSessions == PipelineInit => SessionInv
<1> SUFFICES ASSUME PipelineInit PROVE SessionInv
  OBVIOUS
<1>1. now = 0 /\ SessionsInit
  BY DEF PipelineInit
<1>2. slides = {} /\ \A t \in Tokens : ~HasRow(t) /\ lastUse[t] = 0
  BY <1>1 DEF SessionsInit, HasRow, Unissued
<1> QED
  BY <1>1, <1>2, InitTypes DEF SessionInv, IdleSessionsDie

\* The clock and the other half do not touch sessions.
LEMMA SessionsUntouched ==
  ASSUME SessionInv, TypeInv', now <= now', UNCHANGED sessions
  PROVE  SessionInv'
<1>1. \A t \in Tokens : lastUse[t] \in Nat /\ now \in Nat /\ now' \in Nat
  BY DEF SessionInv, TypeInv, PipelineTypeOK, SessionsTypeOK, ServingInv
<1>2. \A t \in Tokens : lastUse'[t] <= now'
  BY <1>1 DEF SessionInv, sessions
<1>3. IdleSessionsDie'
  BY DEF SessionInv, IdleSessionsDie, HasRow, sessions
<1> QED
  BY <1>2, <1>3 DEF SessionInv, sessions

\* Using a token moves its last use forward, and with it how far it may reach.
LEMMA SessionsUsed ==
  ASSUME SessionInv, TypeInv', now' = now, NEW t \in Tokens,
         lastUse' = [lastUse EXCEPT ![t] = now],
         \A s \in slides' : s \in slides \/ (s.token = t /\ s.expiry = now + SessionTTL),
         \A u \in Tokens : session'[u] = session[u]
                             \/ (u = t /\ session'[u].expires = now + SessionTTL)
  PROVE  SessionInv'
<1>1. \A u \in Tokens : lastUse[u] \in Nat /\ now \in Nat
  BY DEF SessionInv, TypeInv, PipelineTypeOK, SessionsTypeOK, ServingInv
<1>2. \A u \in Tokens :
        /\ lastUse'[u] = IF u = t THEN now ELSE lastUse[u]
        /\ lastUse[u] <= lastUse'[u] /\ lastUse'[u] <= now /\ lastUse'[u] \in Nat
  <2>1. lastUse \in [Tokens -> 0..MaxTime]
    BY DEF SessionInv, TypeInv, PipelineTypeOK, SessionsTypeOK
  <2> QED
    BY <1>1, <2>1 DEF SessionInv
<1>3. ASSUME NEW s \in slides' PROVE s.expiry <= lastUse'[s.token] + SessionTTL
  <2>1. s.token \in Tokens /\ s.expiry \in Nat
    BY <1>3, Bounds DEF TypeInv, PipelineTypeOK, SessionsTypeOK
  <2>2. CASE s.token = t /\ s.expiry = now + SessionTTL
    BY <1>2, <2>1, <2>2, Bounds
  <2>3. CASE s \in slides
    <3>1. s.expiry <= lastUse[s.token] + SessionTTL
      BY <2>3 DEF SessionInv
    <3>2. lastUse[s.token] <= lastUse'[s.token] /\ lastUse[s.token] \in Nat
            /\ lastUse'[s.token] \in Nat
      BY <1>1, <1>2, <2>1
    <3> QED
      BY <2>1, <3>1, <3>2, Bounds
  <2> QED
    BY <1>3, <2>2, <2>3
<1>4. ASSUME NEW u \in Tokens, HasRow(u)'
      PROVE  session'[u].expires <= lastUse'[u] + SessionTTL
  <2>1. CASE u = t /\ session'[u].expires = now + SessionTTL
    BY <1>1, <1>2, <2>1, Bounds
  <2>2. CASE session'[u] = session[u]
    <3>1. session[u].expires <= lastUse[u] + SessionTTL
      BY <1>4, <2>2 DEF SessionInv, IdleSessionsDie, HasRow
    <3>2. session[u].expires \in Nat
      BY Bounds DEF SessionInv, TypeInv, PipelineTypeOK, SessionsTypeOK
    <3> QED
      BY <1>1, <1>2, <2>2, <3>1, <3>2, Bounds
  <2> QED
    BY <2>1, <2>2
<1> QED
  BY <1>2, <1>3, <1>4 DEF SessionInv, IdleSessionsDie

\* Every step keeps sessions within one lifetime of their last use.
LEMMA StepSessions == SessionInv /\ [PipelineNext]_pipelineVars => SessionInv'
<1> SUFFICES ASSUME SessionInv, [PipelineNext]_pipelineVars PROVE SessionInv'
  OBVIOUS
<1>0. TypeInv /\ ServingInv /\ TypeInv'
  BY StepTypes DEF SessionInv, TypeInv
<1>1. now \in Nat /\ now <= now /\ now <= now + 1
  BY <1>0 DEF ServingInv
<1>2. /\ session \in [Tokens -> [state : {"unissued", "there", "gone"},
                                 expires : 0..MaxTime + SessionTTL]]
      /\ lastUse \in [Tokens -> 0..MaxTime]
      /\ slides \subseteq [token : Tokens, expiry : 0..MaxTime + SessionTTL]
  BY <1>0 DEF TypeInv, PipelineTypeOK, SessionsTypeOK
<1>3. CASE Outside /\ UNCHANGED <<sessions, idempotency>>
  <2>1. now' = now \/ now' = now + 1
    BY <1>3 DEF Outside, Drop, Arrive, Tick
  <2> QED
    BY <1>0, <1>1, <1>3, <2>1, SessionsUntouched
<1>4. CASE KeyStep /\ UNCHANGED sessions
  <2>1. now' = now
    BY <1>4 DEF KeyStep, LookUp, Reserve, ReRead, Handle, Replay, CaptureLands,
       CaptureFails
  <2> QED
    BY <1>0, <1>1, <1>4, <2>1, SessionsUntouched
<1>5. ASSUME NEW t \in Tokens, IssueSession(t) PROVE SessionInv'
  <2>1. \A u \in Tokens : session'[u] = session[u]
                            \/ (u = t /\ session'[u].expires = now + SessionTTL)
    <3>1. /\ session' = [session EXCEPT ![t] = SessionRow(now + SessionTTL)]
          /\ SessionRow(now + SessionTTL).expires = now + SessionTTL
      BY <1>5 DEF IssueSession, SessionRow
    <3> QED
      BY <1>2, <3>1
  <2>2. /\ now' = now /\ lastUse' = [lastUse EXCEPT ![t] = now]
        /\ \A s \in slides' : s \in slides
    BY <1>5 DEF IssueSession
  <2> QED
    BY <1>0, <2>1, <2>2, SessionsUsed
<1>6. ASSUME NEW c \in Conns, FindSession(c) \/ RefuseAnonymous(c)
      PROVE  SessionInv'
  BY <1>0, <1>1, <1>6, SessionsUntouched DEF FindSession, RefuseAnonymous
<1>7. ASSUME NEW c \in Conns, AttachUser(c) PROVE SessionInv'
  <2>1. PICK t \in Tokens : t = conn[c].token
    BY <1>0, <1>7, RequestFields DEF AttachUser, At
  <2>2. /\ now' = now /\ lastUse' = [lastUse EXCEPT ![t] = now]
        /\ session' = session
        /\ slides' = slides \cup {[token |-> t, expiry |-> now + SessionTTL]}
    BY <1>7, <2>1 DEF AttachUser, NewExpiry
  <2>3. \A s \in slides' :
          s \in slides \/ (s.token = t /\ s.expiry = now + SessionTTL)
    BY <2>2
  <2>4. \A u \in Tokens : session'[u] = session[u]
                            \/ (u = t /\ session'[u].expires = now + SessionTTL)
    BY <2>2
  <2> QED
    BY <1>0, <2>2, <2>3, <2>4, SessionsUsed
<1>8. ASSUME NEW c \in Conns, RevokeSession(c) PROVE SessionInv'
  <2>1. PICK t \in Tokens : t = conn[c].token
    BY <1>0, <1>8, RequestFields DEF RevokeSession, At
  <2>2. UNCHANGED <<now, lastUse, slides>>
          /\ \A u \in Tokens : HasRow(u)' => session'[u] = session[u] /\ HasRow(u)
    BY <1>2, <1>8, <2>1 DEF RevokeSession, HasRow, Gone
  <2> QED
    BY <1>0, <2>2 DEF SessionInv, IdleSessionsDie
<1>9. ASSUME NEW s \in slides, SlideLands(s) PROVE SessionInv'
  <2>1. s.token \in Tokens /\ s.expiry <= lastUse[s.token] + SessionTTL
    BY <1>2 DEF SessionInv
  <2>2. UNCHANGED <<now, lastUse>> /\ slides' \subseteq slides
    BY <1>9 DEF SlideLands
  <2>3. \A u \in Tokens : HasRow(u)' =>
          /\ HasRow(u)
          /\ session'[u] = session[u]
               \/ (u = s.token /\ session'[u].expires = s.expiry)
    <3>1. session' = [session EXCEPT ![s.token] =
                        IF HasRow(s.token) THEN SessionRow(s.expiry) ELSE @]
      BY <1>9 DEF SlideLands, ExtendRow
    <3>2. SessionRow(s.expiry).expires = s.expiry
      BY DEF SessionRow
    <3>3. \A u \in Tokens :
            session'[u] = IF u = s.token /\ HasRow(u) THEN SessionRow(s.expiry)
                          ELSE session[u]
      BY <1>2, <3>1
    <3> QED
      BY <3>2, <3>3 DEF HasRow
  <2>4. IdleSessionsDie'
    BY <2>1, <2>2, <2>3 DEF SessionInv, IdleSessionsDie
  <2> QED
    BY <1>0, <2>2, <2>4 DEF SessionInv
<1>10. ASSUME NEW s \in slides, SlideFails(s) PROVE SessionInv'
  <2>1. UNCHANGED <<now, session, lastUse>> /\ slides' \subseteq slides
    BY <1>10 DEF SlideFails
  <2> QED
    BY <1>0, <2>1 DEF SessionInv, IdleSessionsDie, HasRow
<1>11. CASE UNCHANGED pipelineVars
  BY <1>0, <1>1, <1>11, SessionsUntouched DEF pipelineVars
<1> QED
  BY <1>3, <1>4, <1>5, <1>6, <1>7, <1>8, <1>9, <1>10, <1>11
     DEF PipelineNext, SessionStep

\* A revoked row is neither issued nor extended again.
LEMMA RevokedKept ==
  ASSUME TypeInv, [PipelineNext]_pipelineVars
  PROVE  [\A t \in Tokens : session[t] = Gone => session'[t] = Gone]_session
<1> SUFFICES ASSUME NEW t \in Tokens, session[t] = Gone
             PROVE  session'[t] = Gone
  OBVIOUS
<1>0. Gone # Unissued /\ ~HasRow(t)
  BY DEF Gone, Unissued, HasRow
<1>1. DOMAIN session = Tokens
  BY DEF TypeInv, PipelineTypeOK, SessionsTypeOK
<1>2. ASSUME NEW u \in Tokens, IssueSession(u) PROVE session'[t] = Gone
  BY <1>0, <1>1, <1>2 DEF IssueSession
<1>3. ASSUME NEW c \in Conns, RevokeSession(c) PROVE session'[t] = Gone
  BY <1>1, <1>3 DEF RevokeSession
<1>4. ASSUME NEW s \in slides, SlideLands(s) PROVE session'[t] = Gone
  BY <1>0, <1>1, <1>4 DEF SlideLands, ExtendRow
<1>5. ASSUME UNCHANGED session PROVE session'[t] = Gone
  BY <1>5
<1> QED
  BY <1>2, <1>3, <1>4, <1>5 DEF PipelineNext, SessionStep, FindSession,
     RefuseAnonymous, AttachUser, SlideFails, sessions, pipelineVars

-----------------------------------------------------------------------------
(* Idempotency keys *)

LEMMA InitKeys == PipelineInit => KeyInv
<1> SUFFICES ASSUME PipelineInit PROVE KeyInv
  OBVIOUS
<1>1. /\ conn = [c \in Conns |-> Quiet]
      /\ keyRow = [k \in RowKeys |-> NoRow] /\ ran = [k \in RowKeys |-> 0]
      /\ captures = {}
  BY DEF PipelineInit, KeysInit
<1>2. \A k \in RowKeys : RowOK(k)
  BY <1>1 DEF RowOK, Alive
<1>3. \A c \in Conns, stage \in Stages : ~At(c, stage)
  BY <1>1 DEF At, Quiet, Stages
<1>4. \A c \in Conns : StageOK(c) /\ ~Handling(c) /\ ~At(c, "replay")
  BY <1>3 DEF StageOK, Handling, Stages
<1> QED
  BY <1>1, <1>2, <1>4, InitTypes DEF KeyInv, OneHandler, ReplayIsFaithful

\* What the recorded answer of a replayed request says.
ReplayOK(c) ==
  At(c, "replay") => \A a \in conn[c].answer :
    a.user = Asker(c) /\ a.body = conn[c].body /\ a.class # "5xx"

(***************************************************************************)
(* A step of one request that writes no row: what has to be shown is that  *)
(* the request is in order at its new stage, and that it does not become a *)
(* second handler on a row that is alive.                                  *)
(***************************************************************************)
LEMMA RequestMoves ==
  ASSUME KeyInv, TypeInv', UNCHANGED <<now, idempotency>>,
         NEW c \in Conns, \A e \in Conns : e # c => conn'[e] = conn[e],
         StageOK(c)', ReplayOK(c)', Handling(c)' => ~Alive(RowKey(c))'
  PROVE  KeyInv'
<1>1. UNCHANGED <<now, keyRow, ran, captures>>
  BY DEF idempotency
<1>2. /\ \A k \in RowKeys : RowOK(k)'
      /\ \A r \in captures' : CaptureOK(r)'
  BY <1>1 DEF KeyInv, RowOK, CaptureOK, Alive, Faithful
<1>3. ASSUME NEW e \in Conns, e # c
      PROVE  /\ StageOK(e)' /\ ReplayOK(e)'
             /\ (Handling(e)' <=> Handling(e)) /\ RowKey(e)' = RowKey(e)
             /\ (Alive(RowKey(e))' <=> Alive(RowKey(e)))
  BY <1>1, <1>3 DEF KeyInv, StageOK, OldOrNew, HandlerOK, Handling, At, Alive,
     RowKey, Asker, ReplayOK, ReplayIsFaithful
<1>4. OneHandler'
  <2> SUFFICES ASSUME NEW a \in Conns, NEW e \in Conns, Handling(a)',
                      Handling(e)', RowKey(a)' = RowKey(e)', Alive(RowKey(a))'
               PROVE  a = e
    BY DEF OneHandler
  <2>1. a # c /\ e # c
    OBVIOUS
  <2> QED
    BY <1>3, <2>1 DEF KeyInv, OneHandler
<1> QED
  BY <1>2, <1>3, <1>4 DEF KeyInv, ReplayIsFaithful, ReplayOK

\* A request that ends, or is at a stage of which nothing is asked.
LEMMA RequestEnds ==
  ASSUME KeyInv, TypeInv', UNCHANGED <<now, idempotency>>,
         NEW c \in Conns, \A e \in Conns : e # c => conn'[e] = conn[e],
         \/ conn'[c].stage \in {"quiet", "find", "attach", "anonymous", "lookup"}
         \/ conn'[c].stage = "handle" /\ conn'[c].key = NoKey
  PROVE  KeyInv'
<1>1. StageOK(c)' /\ ReplayOK(c)' /\ ~Handling(c)'
  BY DEF StageOK, ReplayOK, Handling, At
<1> QED
  BY <1>1, RequestMoves

\* A request that follows a row which is alive gets the answer that was made
\* for it, or is refused.
LEMMA FollowKept ==
  ASSUME KeyInv, TypeInv', UNCHANGED <<now, idempotency>>, NEW c \in Conns,
         ~At(c, "quiet"), conn[c].key # NoKey, FollowRow(c), Alive(RowKey(c))
  PROVE  KeyInv'
<1>0. TypeInv /\ ServingInv
  BY DEF KeyInv, TypeInv
<1>1. PICK k \in RowKeys : k = RowKey(c)
  BY <1>0, RequestFields
<1>2. \A e \in Conns : e # c => conn'[e] = conn[e]
  BY <1>0 DEF FollowRow, Finish, ServingInv
<1>3. CASE conn'[c] = Quiet
  BY <1>2, <1>3, RequestEnds DEF Quiet
<1>4. CASE /\ Matches(RowKey(c), conn[c].body)
           /\ conn'[c] = [conn[c] EXCEPT !.stage = "replay",
                                         !.answer = keyRow[RowKey(c)].answer]
  <2>1. conn[c] \in InFlight
    BY <1>0, RequestFields
  <2>2. /\ conn'[c].stage = "replay" /\ conn'[c].answer = keyRow[k].answer
        /\ conn'[c].body = conn[c].body /\ conn'[c].token = conn[c].token
    BY <1>1, <1>4, <2>1 DEF InFlight
  <2>3. Faithful(k, keyRow[k].answer) /\ keyRow[k].body = {conn[c].body}
    BY <1>1, <1>4 DEF KeyInv, RowOK, Matches
  <2>4. k[2] = Asker(c)
    BY <1>1 DEF RowKey
  <2>5. ReplayOK(c)'
    BY <2>2, <2>3, <2>4 DEF ReplayOK, Faithful, Asker
  <2>6. StageOK(c)' /\ ~Handling(c)'
    BY <2>2 DEF StageOK, Handling, At
  <2> QED
    BY <1>2, <2>5, <2>6, RequestMoves
<1> QED
  BY <1>0, <1>3, <1>4, Followed

\* No request is served so long that a row made meanwhile expires.
LEMMA StillInTime ==
  ASSUME KeyInv, NEW c \in Conns, At(c, "reserve") \/ At(c, "reread"),
         keyRow[RowKey(c)] # NoRow, keyRow[RowKey(c)].expires > conn[c].asOf
  PROVE  Alive(RowKey(c))
<1>1. ServingInv /\ ~At(c, "quiet")
  BY DEF KeyInv, TypeInv, At
<1>2. InTime(c) /\ conn[c].key # NoKey /\ RowKey(c) \in RowKeys
        /\ conn[c].since \in Nat /\ conn[c].asOf \in Nat /\ now \in Nat
  BY <1>1, RequestFields DEF KeyFits, At
<1>3. keyRow[RowKey(c)].expires \in Nat
  BY <1>2, Bounds DEF KeyInv, TypeInv, PipelineTypeOK, KeysTypeOK
<1>4. keyRow[RowKey(c)].expires > conn[c].since + MaxServing
  BY <1>2, <1>3 DEF KeyInv, StageOK, OldOrNew
<1>5. now <= conn[c].since + MaxServing
  BY <1>2 DEF InTime
<1> QED
  BY <1>2, <1>3, <1>4, <1>5, Bounds DEF Alive

LEMMA LookUpKept ==
  ASSUME KeyInv, TypeInv', NEW c \in Conns, LookUp(c)
  PROVE  KeyInv'
<1>0. TypeInv /\ ServingInv /\ ~At(c, "quiet") /\ UNCHANGED <<now, idempotency>>
  BY DEF KeyInv, TypeInv, LookUp, At
<1>1. conn[c].key # NoKey
  BY <1>0, RequestFields DEF LookUp, At, KeyFits
<1>2. PICK k \in RowKeys : k = RowKey(c)
  BY <1>0, <1>1, RequestFields
<1>3. CASE Active(k, now)
  BY <1>0, <1>1, <1>2, <1>3, FollowKept DEF LookUp, Active, Alive
<1>4. CASE ~Active(k, now)
  <2>1. /\ conn' = [conn EXCEPT ![c].stage = "reserve", ![c].asOf = now]
        /\ UNCHANGED <<now, keyRow>>
    BY <1>0, <1>2, <1>4 DEF LookUp, idempotency
  <2>2. \A e \in Conns : e # c => conn'[e] = conn[e]
    BY <1>0, <2>1 DEF ServingInv
  <2>3. conn[c] \in InFlight
          /\ conn'[c] = [conn[c] EXCEPT !.stage = "reserve", !.asOf = now]
    BY <1>0, <1>1, <2>1, RequestFields, WentToReserve
  <2>4. /\ conn'[c].stage = "reserve" /\ conn'[c].asOf = now
        /\ conn'[c].key = conn[c].key /\ conn'[c].token = conn[c].token
    BY <2>3 DEF InFlight
  <2>5. RowKey(c)' = k
    BY <1>2, <2>4 DEF RowKey, Asker
  <2>6. keyRow[k] # NoRow => keyRow[k].expires <= now
    <3>1. keyRow[k].expires \in Nat /\ now \in Nat
      BY <1>0, <1>2, Bounds DEF TypeInv, PipelineTypeOK, KeysTypeOK, ServingInv
    <3> QED
      BY <1>4, <3>1 DEF Active
  <2>7. StageOK(c)' /\ ReplayOK(c)' /\ ~Handling(c)'
    BY <2>1, <2>4, <2>5, <2>6 DEF StageOK, OldOrNew, ReplayOK, Handling, At
  <2> QED
    BY <1>0, <2>2, <2>7, RequestMoves
<1> QED
  BY <1>3, <1>4

LEMMA ReReadKept ==
  ASSUME KeyInv, TypeInv', NEW c \in Conns, ReRead(c)
  PROVE  KeyInv'
<1>0. TypeInv /\ ServingInv /\ ~At(c, "quiet") /\ UNCHANGED <<now, idempotency>>
        /\ At(c, "reread")
  BY DEF KeyInv, TypeInv, ReRead, At
<1>1. conn[c].key # NoKey
  BY <1>0, RequestFields DEF At, KeyFits
<1>2. PICK k \in RowKeys : k = RowKey(c)
  BY <1>0, <1>1, RequestFields
<1>3. CASE Active(k, conn[c].asOf)
  <2>1. Alive(k)
    BY <1>0, <1>2, <1>3, StillInTime DEF Active
  <2> QED
    BY <1>0, <1>1, <1>2, <1>3, <2>1, FollowKept DEF ReRead
<1>4. CASE ~Active(k, conn[c].asOf)
  <2>1. Move(c, "handle") /\ UNCHANGED <<now, keyRow, ran>>
    BY <1>0, <1>2, <1>4 DEF ReRead, idempotency
  <2>2. \A e \in Conns : e # c => conn'[e] = conn[e]
    BY <1>0, <2>1 DEF ServingInv, Move
  <2>3. conn[c] \in InFlight /\ "handle" \in Stages
          /\ conn'[c] = [conn[c] EXCEPT !.stage = "handle"]
    BY <1>0, <1>1, <2>1, RequestFields, Moved DEF Stages
  <2>4. /\ conn'[c].stage = "handle"
        /\ conn'[c].key = conn[c].key /\ conn'[c].token = conn[c].token
    BY <2>3 DEF InFlight
  <2>5. RowKey(c)' = k
    BY <1>2, <2>4 DEF RowKey, Asker
  <2>6. keyRow[k] # NoRow
    BY <1>0, <1>2 DEF KeyInv, StageOK
  <2>7. keyRow[k].expires \in Nat /\ now \in Nat /\ conn[c].asOf \in Nat
          /\ conn[c].asOf <= now
    BY <1>0, <1>2, Bounds, RequestFields
       DEF TypeInv, PipelineTypeOK, KeysTypeOK, InTime
  <2>8. ~Alive(k)
    BY <1>4, <2>6, <2>7 DEF Active, Alive
  <2>9. ~Alive(RowKey(c))' /\ (keyRow[RowKey(c)] # NoRow)'
    BY <2>1, <2>5, <2>6, <2>8 DEF Alive
  <2>10. StageOK(c)' /\ ReplayOK(c)'
    BY <2>4, <2>9 DEF StageOK, HandlerOK, ReplayOK, At
  <2> QED
    BY <1>0, <2>2, <2>9, <2>10, RequestMoves
<1> QED
  BY <1>3, <1>4

(***************************************************************************)
(* The insert.  Nobody has run under the new key and nobody is about to;   *)
(* whoever looked before it was there now finds a row that outlives them.  *)
(***************************************************************************)
LEMMA ReserveKept ==
  ASSUME KeyInv, TypeInv', NEW c \in Conns, Reserve(c)
  PROVE  KeyInv'
<1>0. TypeInv /\ ServingInv /\ ~At(c, "quiet") /\ At(c, "reserve")
        /\ UNCHANGED <<now, ran, captures>>
  BY DEF KeyInv, TypeInv, Reserve, At
<1>1. conn[c].key # NoKey
  BY <1>0, RequestFields DEF At, KeyFits
<1>2. PICK k \in RowKeys : k = RowKey(c)
  BY <1>0, <1>1, RequestFields
<1>3. conn[c] \in InFlight /\ InTime(c) /\ conn[c].since \in Nat
        /\ conn[c].asOf \in Nat /\ now \in Nat
  BY <1>0, RequestFields
<1>4. PICK stage \in {"handle", "reread"} :
        /\ Move(c, stage)
        /\ stage = "reread" => keyRow[k] # NoRow /\ keyRow' = keyRow
        /\ stage = "handle" =>
             /\ keyRow[k] = NoRow
             /\ keyRow' = [keyRow EXCEPT ![k] =
                  [body |-> {conn[c].body}, expires |-> conn[c].asOf + KeyTTL,
                   answer |-> {}]]
  BY <1>2 DEF Reserve
<1>5. \A e \in Conns : e # c => conn'[e] = conn[e]
  BY <1>0, <1>4 DEF ServingInv, Move
<1>6. conn'[c] = [conn[c] EXCEPT !.stage = stage]
  BY <1>0, <1>1, <1>4, Moved DEF Stages
<1>7. /\ conn'[c].stage = stage /\ conn'[c].asOf = conn[c].asOf
      /\ conn'[c].since = conn[c].since /\ conn'[c].body = conn[c].body
      /\ conn'[c].key = conn[c].key /\ conn'[c].token = conn[c].token
  BY <1>3, <1>6 DEF InFlight
<1>8. RowKey(c)' = k
  BY <1>2, <1>7 DEF RowKey, Asker
<1>9. CASE stage = "reread"
  <2>1. keyRow[k] # NoRow /\ keyRow' = keyRow
    BY <1>4, <1>9
  <2>2. StageOK(c)'
    BY <1>0, <1>2, <1>7, <1>8, <1>9, <2>1
       DEF KeyInv, StageOK, OldOrNew, Handling, At
  <2>3. ReplayOK(c)' /\ ~Handling(c)'
    BY <1>7, <1>9 DEF ReplayOK, Handling, At
  <2> QED
    BY <1>0, <1>5, <2>1, <2>2, <2>3, RequestMoves DEF idempotency
<1>10. CASE stage = "handle"
  <2>1. keyRow[k] = NoRow
    BY <1>4, <1>10
  <2>2. PICK row : row = [body |-> {conn[c].body},
                          expires |-> conn[c].asOf + KeyTTL, answer |-> {}]
    OBVIOUS
  <2>3. row # NoRow /\ row.body = {conn[c].body} /\ row.answer = {}
          /\ row.expires = conn[c].asOf + KeyTTL
    BY <2>2 DEF NoRow
  <2>4. /\ keyRow'[k] = row
        /\ \A j \in RowKeys : j # k => keyRow'[j] = keyRow[j]
    <3>1. keyRow' = [keyRow EXCEPT ![k] = row]
      BY <1>4, <1>10, <2>2
    <3> QED
      BY <1>0, <3>1 DEF TypeInv, PipelineTypeOK, KeysTypeOK
  <2>5. ran[k] = 0
    BY <1>0, <2>1 DEF KeyInv, RowOK, TypeInv, PipelineTypeOK, KeysTypeOK
  <2>6. ASSUME NEW j \in RowKeys PROVE RowOK(j)'
    <3>1. CASE j = k
      BY <1>0, <2>3, <2>4, <2>5, <3>1 DEF RowOK, Faithful
    <3>2. CASE j # k
      BY <1>0, <2>4, <3>2 DEF KeyInv, RowOK, Alive, Faithful
    <3> QED
      BY <3>1, <3>2
  <2>7. ASSUME NEW r \in captures' PROVE CaptureOK(r)'
    <3>1. r \in captures /\ r.key # k /\ r.key \in RowKeys
      BY <1>0, <2>1, <2>7
         DEF KeyInv, CaptureOK, TypeInv, PipelineTypeOK, KeysTypeOK
    <3> QED
      BY <1>0, <2>4, <3>1 DEF KeyInv, CaptureOK, Alive, Faithful
  <2>8. StageOK(c)' /\ ReplayOK(c)'
    BY <1>0, <1>7, <1>8, <1>10, <2>3, <2>4, <2>5
       DEF StageOK, HandlerOK, ReplayOK, At
  <2>9. ASSUME NEW e \in Conns, e # c
        PROVE  /\ RowKey(e)' = RowKey(e) /\ (Handling(e)' <=> Handling(e))
               /\ ReplayOK(e)' /\ StageOK(e)'
               /\ Handling(e) => RowKey(e) # k
    <3>1. /\ RowKey(e)' = RowKey(e) /\ (Handling(e)' <=> Handling(e))
          /\ \A s \in Stages : At(e, s)' <=> At(e, s)
      BY <1>5, <2>9 DEF RowKey, Asker, Handling, At
    <3>2. ReplayOK(e)'
      BY <1>5, <2>9 DEF KeyInv, ReplayIsFaithful, ReplayOK, At, Asker
    <3>3. CASE At(e, "reserve") \/ At(e, "reread") \/ Handling(e)
      <4>1. ServingInv /\ ~At(e, "quiet")
        BY <1>0, <3>3 DEF At, Handling
      <4>2. conn[e].key # NoKey
        BY <3>3, <4>1, RequestFields DEF Handling, KeyFits, At
      <4>3. RowKey(e) \in RowKeys /\ InTime(e) /\ conn[e].since \in Nat
              /\ conn[e].asOf \in Nat
        BY <4>1, <4>2, RequestFields
      <4>4. CASE RowKey(e) = k
        <5>1. At(e, "reserve") /\ ~Handling(e)
          BY <2>1, <3>3, <4>4 DEF KeyInv, StageOK, HandlerOK, Handling, At
        <5>2. conn[c].asOf + KeyTTL > conn[e].since + MaxServing
          BY <1>3, <4>3, Bounds DEF InTime
        <5>3. OldOrNew(e)'
          BY <1>5, <2>3, <2>4, <2>9, <3>1, <4>4, <5>2 DEF OldOrNew
        <5>4. ~At(e, "reread")' /\ ~Handling(e)'
          BY <3>1, <5>1 DEF At, Stages
        <5> QED
          BY <3>1, <3>2, <5>1, <5>3, <5>4 DEF StageOK
      <4>5. CASE RowKey(e) # k
        <5>1. keyRow'[RowKey(e)] = keyRow[RowKey(e)] /\ conn'[e] = conn[e]
          BY <1>5, <2>4, <2>9, <4>3, <4>5
        <5>2. StageOK(e)'
          BY <1>0, <3>1, <5>1 DEF KeyInv, StageOK, OldOrNew, HandlerOK,
             Handling, At, Alive
        <5> QED
          BY <3>1, <3>2, <4>5, <5>2
      <4> QED
        BY <4>4, <4>5
    <3>4. CASE ~(At(e, "reserve") \/ At(e, "reread") \/ Handling(e))
      BY <1>5, <2>9, <3>1, <3>2, <3>4 DEF StageOK, At, Handling
    <3> QED
      BY <3>3, <3>4
  <2>10. OneHandler'
    <3> SUFFICES ASSUME NEW a \in Conns, NEW e \in Conns, Handling(a)',
                        Handling(e)', RowKey(a)' = RowKey(e)',
                        Alive(RowKey(a))', a # e
                 PROVE  FALSE
      BY DEF OneHandler
    <3>1. a # c /\ e # c
      BY <1>8, <2>9
    <3>2. Handling(a) /\ Handling(e) /\ RowKey(a) = RowKey(e) /\ RowKey(a) # k
      BY <2>9, <3>1
    <3>3. RowKey(a) \in RowKeys
      <4>1. ~At(a, "quiet") /\ conn[a].key # NoKey
        BY <3>2 DEF Handling, At
      <4> QED
        BY <1>0, <4>1, RequestFields
    <3>4. Alive(RowKey(a))
      BY <1>0, <2>4, <2>9, <3>1, <3>2, <3>3 DEF Alive
    <3> QED
      BY <3>2, <3>4 DEF KeyInv, OneHandler
  <2> QED
    BY <2>6, <2>7, <2>8, <2>9, <2>10 DEF KeyInv, ReplayIsFaithful, ReplayOK
<1> QED
  BY <1>9, <1>10

(***************************************************************************)
(* The handler and its record.  While the row is alive c is the only       *)
(* handler under its key and nobody ran before it.                         *)
(***************************************************************************)
LEMMA HandleKept ==
  ASSUME KeyInv, TypeInv', NEW c \in Conns, Handle(c)
  PROVE  KeyInv'
<1>0. TypeInv /\ ServingInv /\ ~At(c, "quiet") /\ UNCHANGED <<now, keyRow>>
  BY DEF KeyInv, TypeInv, Handle, At
<1>1. Handling(c) /\ conn[c].key # NoKey
  BY <1>0, RequestFields DEF Handle, KeyFits, Handling
<1>2. PICK k \in RowKeys : k = RowKey(c)
  BY <1>0, <1>1, RequestFields
<1>3. keyRow[k] # NoRow /\ (Alive(k) => keyRow[k].body = {conn[c].body} /\ ran[k] = 0)
  BY <1>1, <1>2 DEF KeyInv, StageOK, HandlerOK
<1>4. PICK outcome \in Outcomes, commits \in BOOLEAN :
        /\ ran' = IF commits
             THEN [ran EXCEPT ![k] = IF @ < 2 THEN @ + 1 ELSE @] ELSE ran
        /\ captures' = IF Recorded(outcome)
             THEN captures \cup {[key |-> k, answer |-> Answer(c, outcome)]}
             ELSE captures
  BY <1>2 DEF Handle
<1>5. conn'[c] = Quiet /\ \A e \in Conns : e # c => conn'[e] = conn[e]
  BY <1>0 DEF Handle, Finish, ServingInv
<1>6. \A j \in RowKeys : Alive(j)' <=> Alive(j)
  BY <1>0 DEF Alive
<1>7. ASSUME NEW j \in RowKeys PROVE RowOK(j)'
  <2>1. ran \in [RowKeys -> 0..2]
    BY <1>0 DEF TypeInv, PipelineTypeOK, KeysTypeOK
  <2>2. CASE j # k
    <3>1. ran'[j] = ran[j]
      BY <1>4, <2>1, <2>2
    <3> QED
      BY <1>0, <1>6, <3>1 DEF KeyInv, RowOK, Faithful
  <2>3. CASE j = k
    <3>1. ran'[k] \in 0..2 /\ (ran[k] = 0 => ran'[k] <= 1)
      BY <1>4, <2>1
    <3>2. ran'[k] > 1 => ~Alive(k)
      BY <1>3, <3>1
    <3>3. keyRow[k] # NoRow => keyRow[k].body # {}
      BY DEF KeyInv, RowOK
    <3>4. Alive(k) => Faithful(k, keyRow[k].answer)
      BY DEF KeyInv, RowOK
    <3> QED
      BY <1>0, <1>3, <1>6, <2>3, <3>2, <3>3, <3>4 DEF RowOK, Faithful
  <2> QED
    BY <2>2, <2>3
<1>8. ASSUME NEW r \in captures' PROVE CaptureOK(r)'
  <2>1. CASE r \in captures
    <3>1. r.key \in RowKeys
      BY <1>0, <2>1 DEF TypeInv, PipelineTypeOK, KeysTypeOK
    <3> QED
      BY <1>0, <1>6, <2>1, <3>1 DEF KeyInv, CaptureOK, Faithful
  <2>2. CASE Recorded(outcome) /\ r = [key |-> k, answer |-> Answer(c, outcome)]
    <3>1. k[2] = Asker(c)
      BY <1>2 DEF RowKey
    <3>2. Alive(k) => Faithful(k, Answer(c, outcome))
      BY <1>3, <2>2, <3>1 DEF Faithful, Answer, Recorded
    <3>3. r.key = k /\ r.answer = Answer(c, outcome)
      BY <2>2
    <3>4. Alive(k) => \A a \in r.answer :
            a.user = k[2] /\ keyRow'[k].body = {a.body} /\ a.class # "5xx"
      BY <1>0, <3>2, <3>3 DEF Faithful
    <3> QED
      BY <1>0, <1>3, <1>6, <3>3, <3>4 DEF CaptureOK, Faithful
  <2> QED
    BY <1>4, <1>8, <2>1, <2>2
<1>9. ASSUME NEW e \in Conns, e # c
      PROVE  /\ RowKey(e)' = RowKey(e) /\ (Handling(e)' <=> Handling(e))
             /\ ReplayOK(e)' /\ StageOK(e)'
  <2>1. /\ RowKey(e)' = RowKey(e) /\ (Handling(e)' <=> Handling(e))
        /\ \A s \in Stages : At(e, s)' <=> At(e, s)
    BY <1>5, <1>9 DEF RowKey, Asker, Handling, At
  <2>2. ReplayOK(e)'
    BY <1>5, <1>9 DEF KeyInv, ReplayIsFaithful, ReplayOK, At, Asker
  <2>3. ASSUME Handling(e) PROVE HandlerOK(e)'
    <3>1. ~At(e, "quiet") /\ conn[e].key # NoKey
      BY <2>3 DEF Handling, At
    <3>2. PICK j \in RowKeys : j = RowKey(e)
      BY <1>0, <3>1, RequestFields
    <3>3. keyRow[j] # NoRow /\ (Alive(j) => keyRow[j].body = {conn[e].body}
                                              /\ ran[j] = 0)
      BY <2>3, <3>2 DEF KeyInv, StageOK, HandlerOK
    <3>4. Alive(j) => j # k
      BY <1>1, <1>2, <1>9, <2>3, <3>2 DEF KeyInv, OneHandler
    <3>5. j # k => ran'[j] = ran[j]
      BY <1>0, <1>4 DEF TypeInv, PipelineTypeOK, KeysTypeOK
    <3>6. RowKey(e)' = j /\ conn'[e].body = conn[e].body
      BY <1>5, <1>9, <2>1, <3>2
    <3> QED
      BY <1>0, <1>6, <3>3, <3>4, <3>5, <3>6 DEF HandlerOK
  <2>4. OldOrNew(e) => OldOrNew(e)'
    BY <1>0, <1>5, <1>9, <2>1 DEF OldOrNew
  <2>5. StageOK(e)'
    BY <1>0, <2>1, <2>3, <2>4 DEF KeyInv, StageOK, Stages
  <2> QED
    BY <2>1, <2>2, <2>5
<1>10. StageOK(c)' /\ ReplayOK(c)' /\ ~Handling(c)'
  BY <1>5 DEF StageOK, ReplayOK, Handling, At, Quiet
<1>11. OneHandler'
  <2> SUFFICES ASSUME NEW a \in Conns, NEW e \in Conns, Handling(a)',
                      Handling(e)', RowKey(a)' = RowKey(e)', Alive(RowKey(a))'
               PROVE  a = e
    BY DEF OneHandler
  <2>1. a # c /\ e # c
    BY <1>10
  <2>2. Handling(a) /\ Handling(e) /\ RowKey(a) = RowKey(e)
    BY <1>9, <2>1
  <2>3. Alive(RowKey(a))
    BY <1>0, <1>9, <2>1 DEF Alive
  <2> QED
    BY <2>2, <2>3 DEF KeyInv, OneHandler
<1> QED
  BY <1>7, <1>8, <1>9, <1>10, <1>11 DEF KeyInv, ReplayIsFaithful, ReplayOK

(***************************************************************************)
(* Steps that move no request: a record that lands writes a right answer   *)
(* into a row that is alive, and time only lets rows expire.               *)
(***************************************************************************)
LEMMA RequestsStay ==
  ASSUME KeyInv, TypeInv', UNCHANGED <<conn, ran>>,
         \A k \in RowKeys : Alive(k)' => Alive(k),
         \A k \in RowKeys : /\ keyRow'[k].body = keyRow[k].body
                            /\ keyRow'[k].expires = keyRow[k].expires
                            /\ keyRow[k] # NoRow <=> keyRow'[k] # NoRow,
         \A k \in RowKeys : Alive(k)' => Faithful(k, keyRow'[k].answer),
         captures' \subseteq captures
  PROVE  KeyInv'
<1>0. TypeInv /\ ServingInv
  BY DEF KeyInv, TypeInv
<1>1. ASSUME NEW k \in RowKeys PROVE RowOK(k)'
  <2>1. RowOK(k) /\ (Alive(k)' => Alive(k))
    BY DEF KeyInv
  <2> QED
    BY <2>1 DEF RowOK, Faithful
<1>2. ASSUME NEW r \in captures' PROVE CaptureOK(r)'
  <2>1. r \in captures /\ r.key \in RowKeys
    BY <1>0, <1>2 DEF TypeInv, PipelineTypeOK, KeysTypeOK
  <2>2. CaptureOK(r) /\ (Alive(r.key)' => Alive(r.key))
    BY <2>1 DEF KeyInv
  <2> QED
    BY <2>1, <2>2 DEF CaptureOK, Faithful
<1>3. ASSUME NEW c \in Conns
      PROVE  /\ RowKey(c)' = RowKey(c) /\ (Handling(c)' <=> Handling(c))
             /\ ReplayOK(c)' /\ StageOK(c)'
             /\ Handling(c) => RowKey(c) \in RowKeys
  <2>1. /\ RowKey(c)' = RowKey(c) /\ (Handling(c)' <=> Handling(c))
        /\ \A s \in Stages : At(c, s)' <=> At(c, s)
    BY DEF RowKey, Asker, Handling, At
  <2>2. ReplayOK(c)'
    BY DEF KeyInv, ReplayIsFaithful, ReplayOK, At, Asker
  <2>3. CASE At(c, "reserve") \/ At(c, "reread") \/ Handling(c)
    <3>1. ~At(c, "quiet")
      BY <2>3 DEF At, Handling
    <3>2. conn[c].key # NoKey
      BY <1>0, <2>3, <3>1, RequestFields DEF Handling, KeyFits, At
    <3>3. PICK k \in RowKeys : k = RowKey(c)
      BY <1>0, <3>1, <3>2, RequestFields
    <3>4. StageOK(c) /\ (Alive(k)' => Alive(k))
      BY DEF KeyInv
    <3>5. OldOrNew(c) => OldOrNew(c)'
      BY <2>1, <3>3 DEF OldOrNew
    <3>6. HandlerOK(c) => HandlerOK(c)'
      BY <2>1, <3>3, <3>4 DEF HandlerOK
    <3>7. StageOK(c)'
      BY <2>1, <3>3, <3>4, <3>5, <3>6 DEF StageOK, Stages
    <3> QED
      BY <2>1, <2>2, <3>3, <3>7
  <2>4. CASE ~(At(c, "reserve") \/ At(c, "reread") \/ Handling(c))
    BY <2>1, <2>2, <2>4 DEF StageOK, Stages
  <2> QED
    BY <2>3, <2>4
<1>4. OneHandler'
  <2> SUFFICES ASSUME NEW a \in Conns, NEW e \in Conns, Handling(a)',
                      Handling(e)', RowKey(a)' = RowKey(e)', Alive(RowKey(a))'
               PROVE  a = e
    BY DEF OneHandler
  <2>1. PICK k \in RowKeys : k = RowKey(a) /\ RowKey(a)' = k
    BY <1>3
  <2>2. Alive(k)
    BY <2>1 DEF Alive
  <2> QED
    BY <1>3, <2>1, <2>2 DEF KeyInv, OneHandler
<1> QED
  BY <1>1, <1>2, <1>3, <1>4 DEF KeyInv, ReplayIsFaithful, ReplayOK

LEMMA CaptureLandsKept ==
  ASSUME KeyInv, TypeInv', NEW r \in captures, CaptureLands(r)
  PROVE  KeyInv'
<1>1. r.key \in RowKeys /\ DOMAIN keyRow = RowKeys
  BY DEF KeyInv, TypeInv, PipelineTypeOK, KeysTypeOK
<1>2. keyRow[r.key] \in [body : AtMostOne(Bodies), expires : 0..MaxTime + KeyTTL,
                         answer : AtMostOne(Answers)]
  BY <1>1 DEF KeyInv, TypeInv, PipelineTypeOK, KeysTypeOK
<1>3. /\ keyRow' = [keyRow EXCEPT ![r.key].answer = r.answer]
      /\ UNCHANGED <<now, conn, ran>> /\ captures' \subseteq captures
  BY DEF CaptureLands
<1>4. /\ keyRow'[r.key].body = keyRow[r.key].body
      /\ keyRow'[r.key].expires = keyRow[r.key].expires
      /\ keyRow'[r.key].answer = r.answer
      /\ \A k \in RowKeys : k # r.key => keyRow'[k] = keyRow[k]
  BY <1>1, <1>2, <1>3
<1>5. keyRow[r.key] # NoRow /\ keyRow'[r.key] # NoRow
  <2>1. keyRow[r.key] # NoRow /\ keyRow[r.key].body # {}
    BY <1>1 DEF KeyInv, CaptureOK, RowOK
  <2> QED
    BY <1>4, <2>1 DEF NoRow
<1>6. ASSUME NEW k \in RowKeys
      PROVE  /\ keyRow'[k].body = keyRow[k].body
             /\ keyRow'[k].expires = keyRow[k].expires
             /\ keyRow[k] # NoRow <=> keyRow'[k] # NoRow
             /\ Alive(k)' => Alive(k)
  <2>1. CASE k = r.key
    BY <1>3, <1>4, <1>5, <2>1 DEF Alive
  <2>2. CASE k # r.key
    BY <1>3, <1>4, <2>2 DEF Alive
  <2> QED
    BY <2>1, <2>2
<1>7. ASSUME NEW k \in RowKeys, Alive(k)'
      PROVE  Faithful(k, keyRow'[k].answer)
  <2>1. Alive(k)
    BY <1>6, <1>7
  <2>2. CASE k = r.key
    BY <1>4, <2>1, <2>2 DEF KeyInv, CaptureOK
  <2>3. CASE k # r.key
    BY <1>4, <2>1, <2>3 DEF KeyInv, RowOK
  <2> QED
    BY <2>2, <2>3
<1> QED
  BY <1>3, <1>6, <1>7, RequestsStay

\* Time and what happens in the session half leave the rows alone.
LEMMA KeysUntouched ==
  ASSUME KeyInv, TypeInv', now <= now', UNCHANGED <<conn, keyRow, ran>>,
         captures' \subseteq captures
  PROVE  KeyInv'
<1>1. ASSUME NEW k \in RowKeys PROVE Alive(k)' => Alive(k)
  <2>1. keyRow[k].expires \in Nat /\ now \in Nat /\ now' \in Nat
    BY Bounds DEF KeyInv, TypeInv, PipelineTypeOK, KeysTypeOK, ServingInv
  <2> QED
    BY <2>1 DEF Alive
<1>2. \A k \in RowKeys : Alive(k)' => Faithful(k, keyRow'[k].answer)
  BY <1>1 DEF KeyInv, RowOK
<1> QED
  BY <1>1, <1>2, RequestsStay

\* Every step keeps handler runs single and records right.
LEMMA StepKeys == KeyInv /\ [PipelineNext]_pipelineVars => KeyInv'
<1> SUFFICES ASSUME KeyInv, [PipelineNext]_pipelineVars PROVE KeyInv'
  OBVIOUS
<1>0. TypeInv /\ ServingInv /\ TypeInv'
  BY StepTypes DEF KeyInv, TypeInv
<1>1. now \in Nat /\ now <= now /\ now <= now + 1
  BY <1>0 DEF ServingInv
<1>2. CASE Outside /\ UNCHANGED <<sessions, idempotency>>
  <2>1. ASSUME NEW c \in Conns, Drop(c) PROVE KeyInv'
    <3>1. /\ UNCHANGED <<now, idempotency>> /\ conn'[c].stage = "quiet"
          /\ \A e \in Conns : e # c => conn'[e] = conn[e]
      BY <1>0, <1>2, <2>1 DEF Drop, Finish, Quiet, ServingInv
    <3> QED
      BY <1>0, <3>1, RequestEnds
  <2>2. ASSUME NEW c \in Conns, NEW t \in Tokens, NEW k \in Keys \cup {NoKey},
               NEW b \in Bodies \cup {Logout}, Arrive(c, t, k, b)
        PROVE  KeyInv'
    <3>1. /\ UNCHANGED <<now, idempotency>> /\ conn'[c].stage = "find"
          /\ \A e \in Conns : e # c => conn'[e] = conn[e]
      BY <1>0, <1>2, <2>2 DEF Arrive, HttpRequest, ServingInv
    <3> QED
      BY <1>0, <3>1, RequestEnds
  <2>3. ASSUME Tick PROVE KeyInv'
    BY <1>0, <1>1, <1>2, <2>3, KeysUntouched DEF Tick, idempotency
  <2> QED
    BY <1>2, <2>1, <2>2, <2>3 DEF Outside
<1>3. CASE SessionStep /\ UNCHANGED idempotency
  <2>1. ASSUME NEW c \in Conns, FindSession(c) \/ RefuseAnonymous(c)
                                \/ AttachUser(c) \/ RevokeSession(c)
        PROVE  KeyInv'
    <3>1. now' = now /\ \A e \in Conns : e # c => conn'[e] = conn[e]
      BY <1>0, <2>1 DEF FindSession, RefuseAnonymous, AttachUser,
         RevokeSession, Move, Finish, ServingInv
    <3>2. CASE RefuseAnonymous(c) \/ RevokeSession(c)
      <4>1. conn'[c].stage = "quiet"
        BY <1>0, <3>2 DEF RefuseAnonymous, RevokeSession, Finish, Quiet,
           ServingInv
      <4> QED
        BY <1>0, <1>3, <3>1, <4>1, RequestEnds
    <3>3. CASE FindSession(c) \/ AttachUser(c)
      <4>1. ~At(c, "quiet")
        BY <3>3 DEF FindSession, AttachUser, At
      <4>2. conn[c] \in InFlight
        BY <1>0, <4>1, RequestFields
      <4>3. PICK stage \in {"attach", "anonymous", "handle", "lookup"} :
              Move(c, stage) /\ (stage = "handle" => conn[c].key = NoKey)
        BY <3>3 DEF FindSession, AttachUser
      <4>4. conn'[c].stage = stage /\ conn'[c].key = conn[c].key
        BY <1>0, <4>2, <4>3 DEF Move, ServingInv, InFlight
      <4> QED
        BY <1>0, <1>3, <3>1, <4>3, <4>4, RequestEnds
    <3> QED
      BY <2>1, <3>2, <3>3
  <2>2. ASSUME UNCHANGED <<now, conn>> PROVE KeyInv'
    BY <1>0, <1>1, <1>3, <2>2, KeysUntouched DEF idempotency
  <2> QED
    BY <1>3, <2>1, <2>2 DEF SessionStep, IssueSession, SlideLands, SlideFails
<1>4. CASE KeyStep /\ UNCHANGED sessions
  <2>1. ASSUME NEW c \in Conns, Replay(c) PROVE KeyInv'
    <3>1. /\ UNCHANGED <<now, idempotency>> /\ conn'[c].stage = "quiet"
          /\ \A e \in Conns : e # c => conn'[e] = conn[e]
      BY <1>0, <2>1 DEF Replay, Finish, Quiet, ServingInv
    <3> QED
      BY <1>0, <3>1, RequestEnds
  <2>2. ASSUME NEW r \in captures, CaptureFails(r) PROVE KeyInv'
    <3>1. UNCHANGED <<now, conn, keyRow, ran>> /\ captures' \subseteq captures
      BY <2>2 DEF CaptureFails
    <3> QED
      BY <1>0, <1>1, <3>1, KeysUntouched
  <2> QED
    BY <1>0, <1>4, <2>1, <2>2, LookUpKept, ReserveKept, ReReadKept, HandleKept,
       CaptureLandsKept DEF KeyStep
<1>5. CASE UNCHANGED pipelineVars
  BY <1>0, <1>1, <1>5, KeysUntouched DEF pipelineVars, idempotency
<1> QED
  BY <1>2, <1>3, <1>4, <1>5 DEF PipelineNext

-----------------------------------------------------------------------------
(* The theorems *)

(***************************************************************************)
(* Requests, session rows, key rows and what is under way to them keep the *)
(* types that the schema and the middlewares give them.                    *)
(***************************************************************************)
THEOREM PipelineTypeTheorem == PipelineSpec => []PipelineTypeOK
<1>1. TypeInv => PipelineTypeOK
  BY DEF TypeInv
<1> QED
  BY <1>1, InitTypes, StepTypes, PTL DEF PipelineSpec

(***************************************************************************)
(* A session reaches no further than one lifetime past the last request it *)
(* authenticated, in whatever order late extensions land.                  *)
(***************************************************************************)
THEOREM IdleTheorem == PipelineSpec => []IdleSessionsDie
<1>1. SessionInv => IdleSessionsDie
  BY DEF SessionInv
<1> QED
  BY <1>1, InitSessions, StepSessions, PTL DEF PipelineSpec

(***************************************************************************)
(* A session that logout deleted never comes back, because extending it is *)
(* an update of a row that is no longer there.                             *)
(***************************************************************************)
THEOREM RevokedTheorem == PipelineSpec => RevokedStaysRevoked
<1>1. PipelineSpec => []TypeInv
  BY InitTypes, StepTypes, PTL DEF PipelineSpec
<1>2. TypeInv /\ [PipelineNext]_pipelineVars
        => [\A t \in Tokens : session[t] = Gone => session'[t] = Gone]_session
  BY RevokedKept
<1> QED
  BY <1>1, <1>2, PTL DEF PipelineSpec, RevokedStaysRevoked

(***************************************************************************)
(* While a key's row is alive its handler has had its effect at most once, *)
(* for any number of requests that carry the key at the same time.         *)
(***************************************************************************)
THEOREM OncePerKeyTheorem == PipelineSpec => []OncePerKey
<1>1. KeyInv => OncePerKey
  <2> SUFFICES ASSUME KeyInv, NEW k \in RowKeys, ran[k] > 1
               PROVE  keyRow[k] # NoRow /\ keyRow[k].expires <= now
    BY DEF OncePerKey
  <2>1. RowOK(k) /\ ran[k] \in Nat /\ keyRow[k].expires \in Nat /\ now \in Nat
    BY Bounds DEF KeyInv, TypeInv, PipelineTypeOK, KeysTypeOK, ServingInv
  <2> QED
    BY <2>1 DEF RowOK, Alive
<1> QED
  BY <1>1, InitKeys, StepKeys, PTL DEF PipelineSpec

(***************************************************************************)
(* A replayed answer was made for the same user and the same request and   *)
(* is no server error.  A record that lands late can only reach a row that *)
(* has expired, and by then nobody who may follow that row is left.        *)
(***************************************************************************)
THEOREM ReplayTheorem == PipelineSpec => []ReplayIsFaithful
<1>1. KeyInv => ReplayIsFaithful
  BY DEF KeyInv
<1> QED
  BY <1>1, InitKeys, StepKeys, PTL DEF PipelineSpec
=============================================================================
