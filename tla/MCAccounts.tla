----------------------------- MODULE MCAccounts -----------------------------
(* Accounts on small sets of addresses, tokens and handlers. *)
EXTENDS Accounts, TLC

\* All three sets are used without preference.
Symmetry ==
    Permutations(Emails) \cup Permutations(Tokens) \cup Permutations(Handlers)
=============================================================================
