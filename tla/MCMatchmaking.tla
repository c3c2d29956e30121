--------------------------- MODULE MCMatchmaking ---------------------------
(* Matchmaking for TLC: what has no order is alike. *)
EXTENDS Matchmaking, TLC

Symmetry == Permutations(Accounts) \cup Permutations(Challenges)
              \cup Permutations(Lobbies) \cup Permutations(Matches)
=============================================================================
