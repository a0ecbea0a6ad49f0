------------------------------ MODULE Sessions ------------------------------
(***************************************************************************)
(* Login sessions: a row per token with an expiry that slides forward with *)
(* every request, and that logout deletes.                                 *)
(*                                                                         *)
(* The middleware checks the row it has read in the process, not in the    *)
(* database, and extends it with an update that it does not wait for, so   *)
(* extensions are a set of writes under way that land, or fail, at any     *)
(* time and in any order.                                                  *)
(***************************************************************************)
EXTENDS HttpRequests

CONSTANT SessionTTL   \* sessionTtlMs, in ticks

ASSUME SessionAssumption == SessionTTL \in Nat \ {0}

VARIABLES
  session,   \* session[t]: the row of token t, or its absence
  lastUse,   \* lastUse[t]: when t last authenticated a request or was issued
  slides     \* extensions under way: a token and its new expires_at

sessions == <<session, lastUse, slides>>

SessionRow(expires) == [state |-> "there", expires |-> expires]
Unissued == [state |-> "unissued", expires |-> 0]
Gone == [state |-> "gone", expires |-> 0]

HasRow(t) == session[t].state = "there"

SessionsInit ==
  /\ session = [t \in Tokens |-> Unissued]
  /\ lastUse = [t \in Tokens |-> 0]
  /\ slides = {}

\* issueSession, at the end of a login.
IssueSession(t) ==
  /\ session[t] = Unissued
  /\ session' = [session EXCEPT ![t] = SessionRow(now + SessionTTL)]
  /\ lastUse' = [lastUse EXCEPT ![t] = now]
  /\ UNCHANGED <<now, conn, slides>>

\* findActiveSession on the row as read.
ActiveSession(t) == HasRow(t) /\ session[t].expires > now

\* The lookup of the session; without one the request goes on as anonymous.
FindSession(c) ==
  /\ At(c, "find")
  /\ Move(c, IF ActiveSession(conn[c].token) THEN "attach" ELSE "anonymous")
  /\ UNCHANGED <<now, sessions>>

\* The idempotency middleware lets a request without a user pass, and the
\* guard of the route turns it down.
RefuseAnonymous(c) ==
  /\ At(c, "anonymous")
  /\ Finish(c)
  /\ UNCHANGED <<now, sessions>>

\* Fault: the new expiry is counted from the one the session had.
NewExpiryFromOld(t) == IF HasRow(t) THEN session[t].expires + SessionTTL ELSE now

\* The extension is counted from the moment the request is authenticated.
NewExpiry(t) == now + SessionTTL

\* The lookup of the user, after which the request is authenticated for good;
\* slideExpiry is called and not awaited.
AttachUser(c) ==
  LET t == conn[c].token
  IN  /\ At(c, "attach")
      /\ Cardinality(slides) < MaxLate
      /\ slides' = slides \cup {[token |-> t, expiry |-> NewExpiry(t)]}
      /\ lastUse' = [lastUse EXCEPT ![t] = now]
      /\ Move(c, IF conn[c].key = NoKey THEN "handle" ELSE "lookup")
      /\ UNCHANGED <<now, session>>

\* Fault: an upsert.
ExtendOrCreate(t, expiry) == session' = [session EXCEPT ![t] = SessionRow(expiry)]

\* The update by id: a row that is gone stays gone, the error is only logged.
ExtendRow(t, expiry) ==
  session' = [session EXCEPT ![t] = IF HasRow(t) THEN SessionRow(expiry) ELSE @]

SlideLands(s) ==
  /\ s \in slides
  /\ ExtendRow(s.token, s.expiry)
  /\ slides' = slides \ {s}
  /\ UNCHANGED <<now, conn, lastUse>>

SlideFails(s) ==
  /\ s \in slides
  /\ slides' = slides \ {s}
  /\ UNCHANGED <<now, conn, session, lastUse>>

\* The logout handler deletes the row by its token; a missing row is no error.
RevokeSession(c) ==
  /\ At(c, "handle")
  /\ conn[c].body = Logout
  /\ session' = [session EXCEPT ![conn[c].token] = Gone]
  /\ Finish(c)
  /\ UNCHANGED <<now, lastUse, slides>>

SessionStep ==
  \/ \E t \in Tokens : IssueSession(t)
  \/ \E c \in Conns :
       FindSession(c) \/ RefuseAnonymous(c) \/ AttachUser(c) \/ RevokeSession(c)
  \/ \E s \in slides : SlideLands(s) \/ SlideFails(s)

-----------------------------------------------------------------------------

\* The types of the session half.
SessionsTypeOK ==
  /\ \A c \in Conns : conn[c].stage \in {"quiet"} \cup Stages
  /\ session \in [Tokens -> [state : {"unissued", "there", "gone"},
                          expires : 0..MaxTime + SessionTTL]]
  /\ lastUse \in [Tokens -> 0..MaxTime]
  /\ slides \subseteq [token : Tokens, expiry : 0..MaxTime + SessionTTL]

(***************************************************************************)
(* A session that logout has deleted never comes back, however late an     *)
(* extension lands that an earlier request sent off.                       *)
(***************************************************************************)
RevokedStaysRevoked ==
  [][\A t \in Tokens : session[t] = Gone => session'[t] = Gone]_session

(***************************************************************************)
(* A session that nobody uses dies: it never reaches further than one      *)
(* lifetime past the last request it authenticated, although extensions    *)
(* land late and may even revive a row that has expired.                   *)
(***************************************************************************)
IdleSessionsDie ==
  \A t \in Tokens : HasRow(t) => session[t].expires <= lastUse[t] + SessionTTL
=============================================================================
