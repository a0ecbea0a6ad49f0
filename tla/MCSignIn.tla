------------------------------ MODULE MCSignIn ------------------------------
(* SignIn on small instances, with one address.                            *)
EXTENDS SignIn, TLC

CONSTANT e1

MCEmailOf == [g \in GoogleSubs |-> e1]
MCSymmetry == Permutations(Clients)
=============================================================================
