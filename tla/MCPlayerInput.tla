----------------------------- MODULE MCPlayerInput ----------------------------
EXTENDS PlayerInput

(* A spot of the table and one beside it, the power bar above its middle,  *)
(* and the pocket at the side.                                             *)
OnCloth == Spot(300, 300)
Jaw     == Spot(145, 120)
OnBar   == Spot(1180, 135)

AllSpots == {OnCloth, Jaw, OnBar}

MCSpots == [p \in Pointers |-> IF p = Mouse THEN AllSpots ELSE {OnCloth}]

MCFreeSpots == {OnCloth}

(* Two directions: the last before a full turn, and that of a new match. *)
MCAimSteps == [p \in AllSpots \X {"cue", "middle"} |-> IF p[1] = OnCloth THEN 9999 ELSE DefaultAim]

MCJoinedGames == {[active |-> "One", inHand |-> h, over |-> FALSE] : h \in BOOLEAN}

MCSpin == [side |-> -7064, vertical |-> 7064]
=============================================================================
