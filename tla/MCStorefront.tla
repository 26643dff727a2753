---------------------------- MODULE MCStorefront ----------------------------
(* Storefront on a small instance. *)
EXTENDS Storefront, TLC

\* Pages, slugs and requests are alike.
MCSymmetry == Permutations(Pages) \cup Permutations(Owners) \cup Permutations(Slugs)
=============================================================================
