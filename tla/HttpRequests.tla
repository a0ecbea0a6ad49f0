---------------------------- MODULE HttpRequests ----------------------------
(***************************************************************************)
(* Requests on their way through the server: the session middleware finds  *)
(* out who asks, the idempotency middleware whether it has been asked      *)
(* before, a handler does the work, and an exception filter turns what the *)
(* handler throws into a response.  The stages of one request follow each  *)
(* other; those of different requests interleave.                          *)
(*                                                                         *)
(* Time is counted in ticks up to a bound.                                 *)
(***************************************************************************)
EXTENDS Naturals, FiniteSets

CONSTANTS
  Conns,     \* requests that may be in flight at once
  Tokens,    \* session tokens; none is ever issued twice
  Owner,     \* Owner[t]: the user to whom t is issued
  Keys,      \* values of the Idempotency-Key header, together with the route
  NoKey,     \* the request has no usable key
  Bodies,    \* fingerprints: method, URL and body
  Logout,    \* the fingerprint of the logout request
  MaxServing, \* a request is served, or dropped, within so many ticks
  MaxTime,   \* bound: ticks of the clock
  MaxLate    \* bound: updates of one kind under way that nobody waits for

ASSUME HttpAssumption ==
  /\ NoKey \notin Keys
  /\ Logout \notin Bodies
  /\ {MaxServing, MaxTime, MaxLate} \subseteq Nat

VARIABLES
  now,       \* the clock
  conn       \* conn[c]: the request that c is serving, or Quiet

Quiet == [stage |-> "quiet"]

\* "find" and "attach" belong to the session middleware, "anonymous" to the
\* guard, "lookup", "reserve" and "reread" to the idempotency middleware,
\* "handle" to the handler, and "replay" to an answer taken from the record.
Stages ==
  {"find", "attach", "anonymous", "lookup", "reserve", "reread", "handle", "replay"}

\* What is kept of a request while it is served.
HttpRequest(token, key, body) ==
  [stage |-> "find", token |-> token, key |-> key, body |-> body,
   since |-> now, asOf |-> now, answer |-> {}]

At(c, stage) == conn[c].stage = stage

Move(c, stage) == conn' = [conn EXCEPT ![c].stage = stage]

Finish(c) == conn' = [conn EXCEPT ![c] = Quiet]

Asker(c) == Owner[conn[c].token]

\* A client sends a request.  Of those without a key only logout matters here.
Arrive(c, token, key, body) ==
  /\ At(c, "quiet")
  /\ body = Logout <=> key = NoKey
  /\ conn' = [conn EXCEPT ![c] = HttpRequest(token, key, body)]
  /\ UNCHANGED now

\* The process dies, or an error ends the request before its response.
Drop(c) ==
  /\ ~At(c, "quiet")
  /\ Finish(c)
  /\ UNCHANGED now

Tick ==
  /\ now < MaxTime
  /\ \A c \in Conns : ~At(c, "quiet") => now < conn[c].since + MaxServing
  /\ now' = now + 1
  /\ UNCHANGED conn
=============================================================================
