------------------------------ MODULE CommandLog -----------------------------
(***************************************************************************)
(* The abstract specification of durable command acceptance: every match   *)
(* has one history of accepted commands that only grows, each command is   *)
(* legal in the game its predecessors lead to and given by a player who    *)
(* may give it, no identifier is accepted twice, what no client gave is a  *)
(* timeout at the expense of the active player, and only commands of the   *)
(* history are acknowledged.                                               *)
(***************************************************************************)
EXTENDS CommandRecords

CONSTANTS
  Matches,
  ClientIds,    (* idempotency keys clients draw                           *)
  NoPlayer      (* the breaker of a match that does not exist              *)

VARIABLES
  breaker,      (* who breaks each match                                   *)
  log,          (* the accepted commands of each match, oldest first       *)
  acked         (* the acknowledgements participants were given            *)

vars == <<breaker, log, acked>>

Init ==
  /\ breaker = [m \in Matches |-> NoPlayer]
  /\ log = [m \in Matches |-> <<>>]
  /\ acked = {}

Open(m) ==
  /\ breaker[m] = NoPlayer
  /\ \E p \in Player : breaker' = [breaker EXCEPT ![m] = p]
  /\ UNCHANGED <<log, acked>>

Accept(m) ==
  LET e    == log'[m][Len(log[m]) + 1]
      game == GameAfter(breaker[m], log[m], Len(log[m]))
  IN  /\ breaker[m] # NoPlayer
      /\ Len(log'[m]) = Len(log[m]) + 1
      /\ log' = [log EXCEPT ![m] = Append(@, e)]
      /\ Replays(breaker[m], log[m], Len(log[m]), e)
      /\ MayGive(game, e.actor, e.cmd)
      /\ e.id \notin ClientIds => e.cmd = "timeout" /\ e.actor = game.active
      /\ UNCHANGED <<breaker, acked>>

Acknowledge(m) ==
  /\ \E i \in DOMAIN log[m] :
       acked' = acked \cup {[match |-> m, id |-> log[m][i].id, revision |-> i]}
  /\ UNCHANGED <<breaker, log>>

Next == \E m \in Matches : Open(m) \/ Accept(m) \/ Acknowledge(m)

Spec == Init /\ [][Next]_vars
=============================================================================
