-------------------------- MODULE RequestPipeline --------------------------
(***************************************************************************)
(* Session middleware, idempotency middleware and handler, in the order    *)
(* AppModule applies them.  They share the requests and the clock; each    *)
(* leaves the other's rows alone.                                          *)
(***************************************************************************)
EXTENDS Sessions, IdempotencyKeys

pipelineVars == <<now, conn, sessions, idempotency>>

PipelineInit ==
  /\ now = 0
  /\ conn = [c \in Conns |-> Quiet]
  /\ SessionsInit
  /\ KeysInit

\* The world outside the two middlewares.
Outside ==
  \/ \E c \in Conns :
       \/ Drop(c)
       \/ \E t \in Tokens, k \in Keys \cup {NoKey}, b \in Bodies \cup {Logout} :
            Arrive(c, t, k, b)
  \/ Tick

PipelineNext ==
  \/ Outside /\ UNCHANGED <<sessions, idempotency>>
  \/ SessionStep /\ UNCHANGED idempotency
  \/ KeyStep /\ UNCHANGED sessions

PipelineSpec == PipelineInit /\ [][PipelineNext]_pipelineVars

-----------------------------------------------------------------------------

\* Type invariant.
PipelineTypeOK == SessionsTypeOK /\ KeysTypeOK
=============================================================================
