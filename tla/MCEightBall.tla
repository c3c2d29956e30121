----------------------------- MODULE MCEightBall -----------------------------
EXTENDS JournalRows

(* The standard configuration but for the lengths of the table. *)
MCPhysics ==
  [ ticksPerSecond |-> 240, maximumTicks |-> Be(4, 14400), maximumSpeed |-> Be(8, 7500000),
    rollingDeceleration |-> Be(8, 100000), cushionRestitution |-> Be(4, 820000),
    collisionRestitution |-> Be(4, 960000), settlingSpeed |-> Be(8, 8000) ]

MCGeometry ==
  [halfWidth |-> Be(8, 240), halfHeight |-> Be(8, 140), ballRadius |-> Be(8, 20), pocketRadius |-> Be(8, 35)]

MCRackSeed == Be(8, -3)

MCTick == Be(4, 300)

MCRevision == Be(8, 12)

MCChecksum == Be(8, -700000)

(* The balls lie in a row, the cue ball on the left. *)
MCLie ==
  [ n \in {0, 1, 2, 8, 9, 10} |->
      [ x |-> Be(8, 35 * n - 200), y |-> Be(8, IF n \in {1, 9} THEN -40 ELSE 15), vx |-> Be(8, 0), vy |-> Be(8, 0),
        rx |-> Be(8, 0), ry |-> Be(8, 0), side |-> Be(8, 0) ] ]

MCAccounts == [One |-> Be(16, 41), Two |-> Be(16, 42)]

(* A revision whose successor carries, and the last of i64.                *)
MCExpectedRevisions == {Be(8, 65535), <<127>> \o [i \in 1 .. 7 |-> 255]}

MCMatchId == Be(16, 77)

MCDueAt == Be(8, 60000)

MCCommandId == [i \in 1 .. 16 |-> 15 * i]

MCShotCommand ==
  [kind |-> "shot", aim |-> 2500, power |-> 10000, side |-> -30, vertical |-> 40, pocket |-> "TopLeft"]
=============================================================================
