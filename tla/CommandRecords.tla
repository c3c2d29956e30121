---------------------------- MODULE CommandRecords ---------------------------
(***************************************************************************)
(* Accepted commands and the histories they form.  A record is             *)
(*   id        the idempotency key of the command                          *)
(*   actor     the player it was accepted from                             *)
(*   expected  the revision it was given at                                *)
(*   cmd       the command                                                 *)
(*   game      the snapshot of the game after it                           *)
(*   deadline  the deadline of the turn that follows: a set that holds at  *)
(*             most one [revision, player, due]                            *)
(***************************************************************************)
EXTENDS TurnRules, Naturals, Sequences

(* The game a match broken by b has reached after n commands of history h. *)
GameAfter(b, h, n) == IF n = 0 THEN NewGame(b) ELSE h[n].game

(* Shots and placements belong to the active player, a concession to the   *)
(* player who concedes.                                                    *)
MayGive(g, p, c) ==
  /\ c \in TurnCommands => g.active = p
  /\ c \in Concessions  => c = ConcessionOf[p]

DeadlineOf(revision, g, due) == [revision |-> revision, player |-> g.active, due |-> due]

(* A running match has a deadline for exactly the turn that is being       *)
(* played, a completed one has none.                                       *)
Armed(deadline, revision, g) ==
  IF g.over THEN deadline = {}
            ELSE \E d \in deadline : deadline = {DeadlineOf(revision, g, d.due)}

(* The record e replays after the first n commands of history h.           *)
Replays(b, h, n, e) ==
  /\ e.expected = n
  /\ \A i \in 1 .. n : h[i].id # e.id
  /\ e.cmd \in Commands
  /\ Allowed(GameAfter(b, h, n), e.cmd)
  /\ e.game = Apply(GameAfter(b, h, n), e.cmd)
  /\ Armed(e.deadline, n + 1, e.game)

(* What recovery demands of a history before it trusts it. *)
Replayable(b, h) == \A n \in 1 .. Len(h) : Replays(b, h, n - 1, h[n])
=============================================================================
