----------------------------- MODULE MCSessions -----------------------------
(* Sessions on small instances.                                            *)
EXTENDS Sessions, TLC

\* Nothing orders these values, so TLC may treat them as interchangeable.
Symmetry == Permutations(UserIds) \cup Permutations(Devices)
            \cup Permutations(TokenIds) \cup Permutations(Procs)
=============================================================================
