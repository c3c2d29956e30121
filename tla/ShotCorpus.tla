------------------------------ MODULE ShotCorpus ------------------------------
(***************************************************************************)
(* The qualification corpus of pwmtf_game_domain: the shots its physics is *)
(* qualified with, laid out on a table of any size by the proportions they *)
(* have on the standard one (coordinates in thousandths of its unit).      *)
(***************************************************************************)
EXTENDS PoolTable, TLC

X(n) == Quotient(n * HalfWidth, 1270)

Y(n) == Quotient(n * HalfHeight, 635)

At(n, x, y) == n :> Ball(X(x), Y(y))

Aimed(aim, power) == [aim |-> aim, power |-> power, side |-> 0, vertical |-> 0]

Fixture(balls, aim, power) == [balls |-> balls, command |-> Aimed(aim, power)]

(* One of the racks the shuffles can produce. *)
OpeningRack ==
  LET rows == << <<1>>, <<2, 9>>, <<3, 8, 10>>, <<4, 11, 5, 12>>, <<6, 13, 14, 7, 15>> >>
  IN [p \in RackPlaces |-> rows[p[1] + 1][p[2] + 1]]

ASSUME RackAssumption == RackFits /\ IsRack(OpeningRack)

Corpus ==
  { Fixture(At(0, -400, 0) @@ At(1, 0, 0), 0, 2000),                     \* straight_contact
    Fixture(At(0, -500, -25) @@ At(2, 0, 0), 50, 3000),                  \* glancing_contact
    Fixture(At(0, 900, 200), 0, 3000),                                   \* side_cushion
    Fixture(At(0, 900, 300), 800, 4000),                                 \* corner_cushions
    Fixture(At(0, 0, 500), 2500, 2000),                                  \* side_pocket
    Fixture(At(0, -300, 500) @@ At(3, 0, 500), 0, 3000),                 \* object_ball_pocket
    Fixture(At(0, -200, 0), 0, 50),                                      \* low_speed_settle
    Fixture(At(0, -500, 0) @@ At(4, -100, 0) @@ At(5, 200, 0), 0, 3000), \* three_ball_chain
    Fixture(At(0, -500, 0) @@ (6 :> Ball(0, -BallRadius)) @@ (7 :> Ball(0, BallRadius)), 0, 4000),
    Fixture(At(0, 1100, 450), 700, 3000),                                \* corner_jaw_approach
    Fixture(At(0, 0, 450), 2500, 2000),                                  \* scratch_side_pocket
    Fixture(RackTable(OpeningRack), 0, 10000) }                          \* maximum_power_break
=============================================================================
