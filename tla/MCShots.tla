------------------------------- MODULE MCShots -------------------------------
EXTENDS ShotSimulation, ShotCorpus

Shot(aim, power, side, vertical) == [aim |-> aim, power |-> power, side |-> side, vertical |-> vertical]

(* The corpus, and an 8-ball that hangs over a corner pocket. *)
MCFixtures == Corpus \cup {Fixture((0 :> Ball(-60, 100)) @@ (8 :> Ball(0, 100)), 50, 10000)}

MCCommands ==
  { Shot(800, 9000, 0, 0), Shot(2500, 6000, 0, -5000), Shot(50, 10000, 5000, 0), Shot(5200, 10000, 0, 7000),
    Shot(9900, 7000, -3000, 3000), Shot(7700, 0, 0, 0) }
=============================================================================
