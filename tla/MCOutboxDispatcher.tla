------------------------- MODULE MCOutboxDispatcher -------------------------
(* OutboxDispatcher on small instances.                                    *)
EXTENDS OutboxDispatcher
=============================================================================
