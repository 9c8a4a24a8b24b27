-------------------------- MODULE MCObjectRegistry --------------------------
(* Two vehicles, and the request routers make together with the              *)
(* unrestricted one.                                                         *)
EXTENDS ObjectRegistry, TLC

MCRequests == { [name |-> "Router", exclude |-> TRUE], [name |-> "", exclude |-> FALSE] }
MCSymmetry == Permutations(Addresses)
=============================================================================
