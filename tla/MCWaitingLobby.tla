--------------------------- MODULE MCWaitingLobby ---------------------------
(* WaitingLobby for TLC. *)
EXTENDS WaitingLobby, TLC

\* Both accounts are the members of every lobby.
MCMembers == [l \in Lobbies |-> Accounts]

Symmetry == Permutations(Accounts) \cup Permutations(Connections)
              \cup Permutations(Requests) \cup Permutations(Matches)
=============================================================================
