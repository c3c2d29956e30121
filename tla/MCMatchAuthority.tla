--------------------------- MODULE MCMatchAuthority --------------------------
EXTENDS MatchAuthority, TLC

(* Command identifiers and requests are alike. *)
Symmetry == Permutations(ClientIds) \cup Permutations(Loaders)
=============================================================================
