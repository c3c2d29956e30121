------------------------------- MODULE TurnGame ------------------------------
(***************************************************************************)
(* The abstract specification of one match: a turn that is kept, passed or *)
(* given away with the cue ball in hand until one command ends the match.  *)
(***************************************************************************)
EXTENDS TurnRules

VARIABLE game

Init == \E breaker \in Player : game = NewGame(breaker)

Next == \E c \in Commands : Allowed(game, c) /\ game' = Apply(game, c)

Spec == Init /\ [][Next]_game
=============================================================================
