------------------------------ MODULE TableCodec ------------------------------
(***************************************************************************)
(* The stable encodings of the table: PhysicsProfile and TableGeometry as  *)
(* they are pinned in a match, and VersionedTableState::to_bytes and       *)
(* from_bytes.                                                             *)
(*                                                                         *)
(* A table is the tick, as bytes, and a function from the numbers of the   *)
(* balls to records of whether the ball is pocketed and of its seven       *)
(* coordinates (position, velocity, rolling velocity, side spin), each as  *)
(* bytes.                                                                  *)
(***************************************************************************)
EXTENDS ByteStrings

Coordinates == << "x", "y", "vx", "vy", "rx", "ry", "side" >>

Lies ==
  [x : Word(8), y : Word(8), vx : Word(8), vy : Word(8), rx : Word(8), ry : Word(8), side : Word(8)]

BallOf(pocketed, lie) ==
  [ c \in {"pocketed"} \cup {Coordinates[k] : k \in DOMAIN Coordinates} |->
      IF c = "pocketed" THEN pocketed ELSE lie[c] ]

At(halfWidth, halfHeight, ballRadius, pocketRadius) ==
  INSTANCE PoolTable WITH HalfWidth <- halfWidth, HalfHeight <- halfHeight,
                          BallRadius <- ballRadius, PocketRadius <- pocketRadius

-----------------------------------------------------------------------------
Geometries == [halfWidth : Word(8), halfHeight : Word(8), ballRadius : Word(8), pocketRadius : Word(8)]

TickRates == 1 .. 65535

PhysicsProfiles ==
  [ ticksPerSecond : TickRates, maximumTicks : Word(4), maximumSpeed : Word(8), rollingDeceleration : Word(8),
    cushionRestitution : Word(4), collisionRestitution : Word(4), settlingSpeed : Word(8) ]

GeometryBytes(g) ==
  Be(2, 1) \o g.halfWidth \o g.halfHeight \o g.ballRadius \o g.pocketRadius

GeometryFields ==
  << Field("geometryVersion", 2, {1}),
     Raw("halfWidth", 8), Raw("halfHeight", 8), Raw("ballRadius", 8), Raw("pocketRadius", 8) >>

(* TableGeometry::new. *)
GeometryAccepts(g) ==
  LET width == Signed(g.halfWidth)     height == Signed(g.halfHeight)
      ball  == Signed(g.ballRadius)    pocket == Signed(g.pocketRadius)
  IN /\ width > 0 /\ height > 0 /\ ball > 0
     /\ pocket >= ball /\ ball < width /\ ball < height

PhysicsBytes(p) ==
  Be(2, 1) \o Be(2, p.ticksPerSecond) \o p.maximumTicks \o p.maximumSpeed \o p.rollingDeceleration
    \o p.cushionRestitution \o p.collisionRestitution \o p.settlingSpeed

PhysicsFields ==
  << Field("physicsVersion", 2, {1}), Field("ticksPerSecond", 2, TickRates), Raw("maximumTicks", 4),
     Raw("maximumSpeed", 8), Raw("rollingDeceleration", 8), Raw("cushionRestitution", 4),
     Raw("collisionRestitution", 4), Raw("settlingSpeed", 8) >>

(* PhysicsProfile::new. *)
PhysicsAccepts(p) ==
  LET Natural(bytes) == IF bytes[1] > 127 THEN 16777216 ELSE Signed(bytes) IN
    /\ Natural(p.maximumTicks) > 0
    /\ Signed(p.maximumSpeed) > 0 /\ Signed(p.rollingDeceleration) > 0
    /\ Natural(p.cushionRestitution) <= 1000000 /\ Natural(p.collisionRestitution) <= 1000000
    /\ Signed(p.settlingSpeed) \in 0 .. Signed(p.maximumSpeed)

-----------------------------------------------------------------------------
BallBytes(n, ball) ==
  <<n>> \o BooleanByte(ball.pocketed) \o Joined([i \in DOMAIN Coordinates |-> ball[Coordinates[i]]])

(* The balls are written in the order of their numbers.                    *)
BallRows(balls) ==
  [i \in 1 .. 16 |-> IF i - 1 \in DOMAIN balls THEN BallBytes(i - 1, balls[i - 1]) ELSE << >>]

TableBytes(table) ==
  Be(2, 1) \o table.tick \o <<Cardinality(DOMAIN table.balls)>> \o Joined(BallRows(table.balls))

BallFields ==
  << Field("number", 1, 0 .. 15), Flag("pocketed") >>
    \o [i \in DOMAIN Coordinates |-> Raw(Coordinates[i], 8)]

(* One ball after the other is read into a list; a list with a number      *)
(* twice is refused, and the order of the list is forgotten.               *)
TakeBall(r) ==
  LET next == ReadAll([r EXCEPT !.got = <<>>], BallFields)
  IN IF ~next.ok \/ next.got.number \in DOMAIN r.got
     THEN [r EXCEPT !.ok = FALSE]
     ELSE [next EXCEPT !.got = With(r.got, next.got.number, BallOf(next.got.pocketed = 1, next.got))]

TakeBalls(r, count) ==
  LET Upto[i \in 0 .. count] == IF i = 0 THEN r ELSE TakeBall(Upto[i - 1]) IN Upto[count]

(* VersionedTableState::new on a geometry that was accepted. *)
TableAccepts(balls, g) ==
  LET Numbers(ball) == [c \in DOMAIN ball |-> IF c = "pocketed" THEN ball[c] ELSE Signed(ball[c])] IN
    At(Signed(g.halfWidth), Signed(g.halfHeight), Signed(g.ballRadius), Signed(g.pocketRadius))
      !ValidTable([n \in DOMAIN balls |-> Numbers(balls[n])])

TableFrom(bytes, g) ==
  LET header == ReadAll(Reader(bytes), << Field("version", 2, {1}), Raw("tick", 4), Field("count", 1, 1 .. 16) >>)
      list   == TakeBalls([header EXCEPT !.got = <<>>], header.got.count)
  IN IF header.ok /\ Finished(list) /\ TableAccepts(list.got, g)
     THEN [tick |-> header.got.tick, balls |-> list.got]
     ELSE Refused
=============================================================================
