------------------------- MODULE MCRequestPipeline -------------------------
(* RequestPipeline on small instances: every token has its own user.       *)
EXTENDS RequestPipeline, TLC

MCOwner == [t \in Tokens |-> t]
MCSymmetry == Permutations(Conns) \cup Permutations(Bodies)
=============================================================================
