---------------------------- MODULE MCMatchDelivery --------------------------
EXTENDS MatchDelivery, TLC

(* The two participants are alike. *)
Symmetry == Permutations(Clients)
=============================================================================
