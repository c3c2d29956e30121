------------------------------ MODULE TurnRules ------------------------------
(***************************************************************************)
(* What the rest of the system needs to know of a game of 8-ball: whose    *)
(* turn it is, whether the cue ball is in hand, whether the match is over, *)
(* and how each canonical command moves these three facts.  EightBall has  *)
(* the full rules and implements TurnGame, which is built from these       *)
(* operators; MatchAuthority applies them to every match it serves.        *)
(*                                                                         *)
(* A shot is named by what it does to the turn: "keep" it, "pass" it,      *)
(* "foul" (pass it with the cue ball in hand) or "end" the match by        *)
(* pocketing the 8-ball.                                                   *)
(***************************************************************************)

Player == {"One", "Two"}

Opponent(p) == IF p = "One" THEN "Two" ELSE "One"

ShotCommands == {"keep", "pass", "foul", "end"}

(* Commands only the active player may give (command_requires_active_player). *)
TurnCommands == ShotCommands \cup {"place"}

ConcessionOf == [p \in Player |-> IF p = "One" THEN "concedeOne" ELSE "concedeTwo"]

Concessions == {"concedeOne", "concedeTwo"}

Commands == TurnCommands \cup Concessions \cup {"timeout"}

Games == [active : Player, inHand : BOOLEAN, over : BOOLEAN]

NewGame(breaker) == [active |-> breaker, inHand |-> FALSE, over |-> FALSE]

(* The aggregate refuses everything once completed, and a placement while  *)
(* the cue ball is not in hand.                                            *)
Allowed(g, c) == ~g.over /\ (c = "place" => g.inHand)

(* The aggregate after an accepted command. *)
Apply(g, c) ==
  [ active |-> IF c \in {"pass", "foul", "timeout"} THEN Opponent(g.active) ELSE g.active,
    inHand |-> c \in {"foul", "timeout"},
    over   |-> c \in Concessions \cup {"end"} ]
=============================================================================
