------------------------------ MODULE BallMotion ------------------------------
(***************************************************************************)
(* The contact and cloth mechanics of pwmtf_game_domain (motion.rs, with   *)
(* resolve_pockets and separate_overlap): how one fixed tick moves the     *)
(* balls and which events it reports, in the exact order of the code.      *)
(*                                                                         *)
(* An event is the key the code sorts a tick's events by: its rank, the    *)
(* number of the ball, and the other ball, the pocket or the axis.         *)
(* Velocities are integers; the constants of the code that are velocities  *)
(* or coefficients with a unit are CONSTANTS here, the pure numbers (2/7,  *)
(* 5/2, the slip of 7, the margin of 2) are the code's own.                *)
(***************************************************************************)
EXTENDS PoolTable, SequencesExt

CONSTANTS
  TicksPerSecond, MaximumTicks, MaximumSpeed, RollingDeceleration,
  CushionRestitution, CollisionRestitution, SettlingSpeed,   (* PhysicsProfile *)
  Whole,          (* one whole, in the unit of the restitutions: 1_000_000 *)
  SlidingForce,   (* mu_slide * g: 1_962_000                               *)
  SpinDecay       (* vertical spin lost per second: 285_750                *)

(* What PhysicsProfile::new accepts. *)
ValidProfile ==
  /\ TicksPerSecond > 0 /\ MaximumTicks > 0
  /\ MaximumSpeed > 0 /\ RollingDeceleration > 0
  /\ CushionRestitution \in 0 .. Whole /\ CollisionRestitution \in 0 .. Whole
  /\ SettlingSpeed \in 0 .. MaximumSpeed

ASSUME ProfileAssumption == ValidProfile

Substeps == 4

Frequency == TicksPerSecond * Substeps

Pocketed == 0
Cushion  == 1
Contact  == 2
Started  == 3
Settled  == 4

HorizontalAxis == 0
VerticalAxis   == 1

IntegerSqrt(n) ==
  LET Newton[estimate \in 1 .. n] ==
        LET next == (estimate + n \div estimate) \div 2 IN
          IF next < estimate THEN Newton[next] ELSE estimate
  IN IF n <= 0 THEN 0 ELSE Newton[n]

Speed(x, y) == IntegerSqrt(Squared(x, y))

-----------------------------------------------------------------------------
(* What a stage of the tick takes and returns: the balls and the events so *)
(* far.  The balls are kept in the order of their numbers.                 *)
Count(s) == Cardinality(DOMAIN s.balls)

Number(s, k) == CHOOSE n \in DOMAIN s.balls : Cardinality({m \in DOMAIN s.balls : m < n}) = k - 1

Drift(s, n) ==
  [s EXCEPT !.balls[n].x = @ + Quotient(s.balls[n].vx, Frequency),
            !.balls[n].y = @ + Quotient(s.balls[n].vy, Frequency)]

PocketsAt(ball) == {p \in DOMAIN PocketSigns : InPocket(ball.x, ball.y, PocketSigns[p])}

Captured_StaysInPlay(ball) == [ball EXCEPT !.vx = 0, !.vy = 0, !.rx = 0, !.ry = 0]

Captured(ball) ==
  [ball EXCEPT !.pocketed = TRUE, !.vx = 0, !.vy = 0, !.rx = 0, !.ry = 0]

ResolvePocket(s, n) ==
  LET at == PocketsAt(s.balls[n]) IN
    IF at = {} THEN s
    ELSE [ balls  |-> [s.balls EXCEPT ![n] = Captured(@)],
           events |-> Append(s.events, <<Pocketed, n, Min(at) - 1>>) ]

-----------------------------------------------------------------------------
(* The impulse of a cushion nose on a ball that lies (dx, dy) from it. *)
Rebound_Inwards(ball, dx, dy, distance, normal) ==
  LET impulse == MulDiv(normal, Whole + CushionRestitution, Whole)
  IN [ball EXCEPT !.vx = @ + MulDiv(impulse, dx, distance), !.vy = @ + MulDiv(impulse, dy, distance)]

Rebound(ball, dx, dy, distance, normal) ==
  LET impulse  == MulDiv(-normal, Whole + CushionRestitution, Whole)
      tangent  == MulDiv(ball.vx, -dy, distance) + MulDiv(ball.vy, dx, distance) - ball.side
      grip     == Quotient(impulse, 5)
      friction == Clamp(MulDiv(tangent, 2, 7), -grip, grip)
  IN [ball EXCEPT
        !.vx = @ + MulDiv(impulse, dx, distance) + MulDiv(friction, dy, distance),
        !.vy = @ + MulDiv(impulse, dy, distance) - MulDiv(friction, dx, distance),
        !.side = @ + MulDiv(friction, 5, 2)]

CushionStep(s, n, segment) ==
  LET ball     == s.balls[n]
      ax       == segment[1][1]
      ay       == segment[1][2]
      sx       == segment[2][1] - ax
      sy       == segment[2][2] - ay
      length   == Squared(sx, sy)
      along    == Clamp((ball.x - ax) * sx + (ball.y - ay) * sy, 0, length)
      nearX    == ax + Quotient(sx * along, length)
      nearY    == ay + Quotient(sy * along, length)
      dx       == ball.x - nearX
      dy       == ball.y - nearY
      square   == Squared(dx, dy)
      distance == Larger(IntegerSqrt(square), 1)
      normal   == MulDiv(ball.vx, dx, distance) + MulDiv(ball.vy, dy, distance)
      moved    == [ball EXCEPT !.x = nearX + MulDiv(dx, BallRadius + 2, distance),
                               !.y = nearY + MulDiv(dy, BallRadius + 2, distance)]
      axis     == IF Size(dx) > Size(dy) THEN HorizontalAxis ELSE VerticalAxis
  IN IF square >= BallRadius * BallRadius \/ square = 0 THEN s
     ELSE IF normal >= 0 THEN [s EXCEPT !.balls[n] = moved]
     ELSE [ balls  |-> [s.balls EXCEPT ![n] = Rebound(moved, dx, dy, distance, normal)],
            events |-> Append(s.events, <<Cushion, n, axis>>) ]

(* A ball in play meets one segment after the other. *)
Bounce(s, n, k) == IF s.balls[n].pocketed THEN s ELSE CushionStep(s, n, CushionSegments[k])

CushionsOf(s, n) ==
  LET Upto[k \in 0 .. Len(CushionSegments)] ==
        IF k = 0 THEN s ELSE Bounce(Upto[k - 1], n, k)
  IN Upto[Len(CushionSegments)]

-----------------------------------------------------------------------------
(* Two balls are moved apart along the line of their centres, each by half *)
(* of the overlap; every quotient is truncated.                            *)
SeparateOverlap(a, b, dx, dy) ==
  LET diameter == 2 * BallRadius
      square   == Squared(dx, dy)
      distance == IntegerSqrt(square)
      shiftX   == MulDiv(diameter - distance, dx, Larger(distance, 1))
      shiftY   == MulDiv(diameter - distance, dy, Larger(distance, 1))
      halfX    == Quotient(shiftX, 2)
      halfY    == Quotient(shiftY, 2)
  IN IF square = 0
     THEN << [a EXCEPT !.x = @ - BallRadius], [b EXCEPT !.x = @ + BallRadius] >>
     ELSE IF distance >= diameter THEN <<a, b>>
     ELSE << [a EXCEPT !.x = @ - halfX, !.y = @ - halfY],
             [b EXCEPT !.x = @ + shiftX - halfX, !.y = @ + shiftY - halfY] >>

(* The normal impulse and the friction of two balls that approach. *)
Collide(a, b, dx, dy, relative) ==
  LET square   == Squared(dx, dy)
      distance == Larger(IntegerSqrt(square), 1)
      force    == -relative * (Whole + CollisionRestitution)
      ix       == Quotient(force * dx, 2 * square * Whole)
      iy       == Quotient(force * dy, 2 * square * Whole)
      tangent  == MulDiv((b.vx + ix) - (a.vx - ix), -dy, distance)
                  + MulDiv((b.vy + iy) - (a.vy - iy), dx, distance) - a.side - b.side
      grip     == Quotient(Speed(ix, iy), 20)
      friction == Clamp(Quotient(tangent, 7), -grip, grip)
      tx       == MulDiv(friction, -dy, distance)
      ty       == MulDiv(friction, dx, distance)
  IN << [a EXCEPT !.vx = @ - ix + tx, !.vy = @ - iy + ty, !.side = @ + MulDiv(friction, 5, 2)],
        [b EXCEPT !.vx = @ + ix - tx, !.vy = @ + iy - ty, !.side = @ + MulDiv(friction, 5, 2)] >>

ContactStep(s, m, n) ==
  LET a        == s.balls[m]
      b        == s.balls[n]
      dx       == b.x - a.x
      dy       == b.y - a.y
      square   == Squared(dx, dy)
      relative == (b.vx - a.vx) * dx + (b.vy - a.vy) * dy
      struck   == relative < 0 /\ square > 0
      pair     == IF struck THEN Collide(a, b, dx, dy, relative) ELSE <<a, b>>
      apart    == SeparateOverlap(pair[1], pair[2], dx, dy)
  IN IF square > 4 * BallRadius * BallRadius THEN s
     ELSE [ balls  |-> [s.balls EXCEPT ![m] = apart[1], ![n] = apart[2]],
            events |-> IF struck THEN Append(s.events, <<Contact, m, n>>) ELSE s.events ]

(* A ball meets those in play that come after it. *)
Meet(s, m, n) == IF n > m /\ n \in InPlay(s.balls) THEN ContactStep(s, m, n) ELSE s

ContactsOf(s, m) ==
  LET Upto[k \in 0 .. Count(s)] == IF k = 0 THEN s ELSE Meet(Upto[k - 1], m, Number(s, k))
  IN Upto[Count(s)]

-----------------------------------------------------------------------------
(* Sliding friction until the ball rolls, then rolling resistance until it *)
(* is slow enough to stop; the side spin decays all the while.             *)
Slide(ball, slipping) ==
  LET slipX   == ball.vx - ball.rx
      slipY   == ball.vy - ball.ry
      impulse == Smaller(SlidingForce \div Frequency, MulDiv(slipping, 2, 7))
      dx      == MulDiv(slipX, impulse, slipping)
      dy      == MulDiv(slipY, impulse, slipping)
  IN IF slipping > 0 /\ impulse > 0
     THEN [ball EXCEPT !.vx = @ - dx, !.vy = @ - dy,
                       !.rx = @ + MulDiv(dx, 5, 2), !.ry = @ + MulDiv(dy, 5, 2)]
     ELSE ball

Decrement == Larger(RollingDeceleration \div Frequency, 1)

Rolling(ball, vx, vy) == [ball EXCEPT !.vx = vx, !.vy = vy, !.rx = vx, !.ry = vy]

Roll_WithoutLoss(ball) == Rolling(ball, ball.vx, ball.vy)

Roll(ball) ==
  LET speed == Speed(ball.vx, ball.vy) IN
    IF speed <= Larger(Decrement, SettlingSpeed)
    THEN Rolling(ball, 0, 0)
    ELSE Rolling(ball, MulDiv(ball.vx, speed - Decrement, speed), MulDiv(ball.vy, speed - Decrement, speed))

Spin(ball) == [ball EXCEPT !.side = @ - Sign(@) * Smaller(Size(@), SpinDecay \div Frequency)]

Cloth(s, n) ==
  LET ball     == s.balls[n]
      slipping == Speed(ball.vx - ball.rx, ball.vy - ball.ry)
      slid     == Slide(ball, slipping)
  IN [s EXCEPT !.balls[n] = Spin(IF slipping <= 7 THEN Roll(slid) ELSE slid)]

-----------------------------------------------------------------------------
(* motion::advance: one tick of four substeps.  A stage visits the balls   *)
(* in the order of their numbers and passes over those not in play.        *)
Visit(stage, s, n) ==
  IF n \notin InPlay(s.balls) THEN s
  ELSE CASE stage = "drift"    -> Drift(s, n)
         [] stage = "pockets"  -> ResolvePocket(s, n)
         [] stage = "cushions" -> CushionsOf(s, n)
         [] stage = "contacts" -> ContactsOf(s, n)
         [] stage = "cloth"    -> Cloth(s, n)

ForEachBall(stage, s) ==
  LET Upto[k \in 0 .. Count(s)] == IF k = 0 THEN s ELSE Visit(stage, Upto[k - 1], Number(s, k))
  IN Upto[Count(s)]

(* Four passes over the contacts.                                          *)
Stages ==
  << "drift", "pockets", "cushions", "contacts", "contacts", "contacts", "contacts", "pockets", "cloth" >>

Substep(s) ==
  LET Upto[k \in 0 .. Len(Stages)] == IF k = 0 THEN s ELSE ForEachBall(Stages[k], Upto[k - 1])
  IN IF InPlay(s.balls) = {} THEN s ELSE Upto[Len(Stages)]

StillPocketed(balls) ==
  [n \in DOMAIN balls |->
     IF balls[n].pocketed THEN [balls[n] EXCEPT !.rx = 0, !.ry = 0, !.side = 0] ELSE balls[n]]

Advance(balls) ==
  LET Upto[k \in 0 .. Substeps] ==
        IF k = 0 THEN [balls |-> balls, events |-> <<>>] ELSE Substep(Upto[k - 1])
  IN [Upto[Substeps] EXCEPT !.balls = StillPocketed(@)]

(* is_settled: translation, rolling and side spin are all within the       *)
(* settling speed.                                                         *)
IsSettled(balls) ==
  \A n \in InPlay(balls) :
    LET limit == SettlingSpeed * SettlingSpeed IN
      /\ Squared(balls[n].vx, balls[n].vy) <= limit
      /\ Squared(balls[n].rx, balls[n].ry) <= limit
      /\ balls[n].side * balls[n].side <= limit
=============================================================================
