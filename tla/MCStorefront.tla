---------------------------- MODULE MCStorefront ----------------------------
(* The shop with two products to order and up to three pages to list. *)
EXTENDS Storefront, TLC

\* The products of the cart are used without preference.
Symmetry == Permutations(Products)
=============================================================================
