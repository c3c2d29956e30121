----------------------------- MODULE LobbyStore -----------------------------
(***************************************************************************)
(* The table lobby_readiness of lobby_store.rs as a set of rows, one for   *)
(* each connection to a waiting lobby.  A row is a lease: it is live for   *)
(* Lease ticks after it was seen last.  Each operator is what one          *)
(* transaction does to the table; `at` is the time its request captured.   *)
(***************************************************************************)
EXTENDS Naturals

CONSTANT Lease

ASSUME LeaseAssumption == Lease \in Nat

Live(row, at) == row.seen + Lease >= at

Owned(row, l, a) == row.lobby = l /\ row.account = a

\* connect_lobby: expired leases of the lobby go, a new one comes, not ready.
\* A mistake would be to let the new lease inherit the account's readiness.
Connected_Inherit(leases, l, a, c, at) ==
  {r \in leases : r.lobby = l => Live(r, at)}
    \cup {[lobby |-> l, account |-> a, connection |-> c,
           ready |-> \E r \in leases : Owned(r, l, a) /\ r.ready, seen |-> at]}
Connected(leases, l, a, c, at) ==
  {r \in leases : r.lobby = l => Live(r, at)}
    \cup {[lobby |-> l, account |-> a, connection |-> c, ready |-> FALSE, seen |-> at]}

\* disconnect_lobby: this lease only; readiness is kept by the others.
Disconnected(leases, c) == {r \in leases : r.connection # c}

\* heartbeat_lobby: an expired lease comes back without its readiness.
\* A mistake would be to revive readiness with the lease.
Beaten_KeepReady(leases, c, at) ==
  {IF r.connection = c THEN [r EXCEPT !.seen = at] ELSE r : r \in leases}
Beaten(leases, c, at) ==
  {IF r.connection = c THEN [r EXCEPT !.seen = at, !.ready = r.ready /\ Live(r, at)] ELSE r :
     r \in leases}

\* ready_lobby: every live lease of the account gets ready, its expired ones go.
Readied(leases, l, a, at) ==
  {IF Owned(r, l, a) THEN [r EXCEPT !.ready = TRUE] ELSE r :
     r \in {q \in leases : Owned(q, l, a) => Live(q, at)}}

\* lobby_ready, and the same loop in start_ready_lobby.
BothReady(leases, l, members, at) ==
  \A a \in members : \E r \in leases : Owned(r, l, a) /\ r.ready /\ Live(r, at)

Holds(leases, l, a, c) == \E r \in leases : Owned(r, l, a) /\ r.connection = c
=============================================================================
