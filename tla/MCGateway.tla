------------------------------ MODULE MCGateway ------------------------------
(* The gateway with two requests of one browser in flight. *)
EXTENDS Gateway, TLC

\* Tabs are used without preference.
Symmetry == Permutations(Tabs)
=============================================================================
