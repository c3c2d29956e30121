------------------------------ MODULE PoolTable ------------------------------
(***************************************************************************)
(* The table of pwmtf_game_domain: fixed-point arithmetic, TableGeometry,  *)
(* what a canonical table state must satisfy, and the opening rack.        *)
(*                                                                         *)
(* Lengths are the integers of Scalar.  Every length is a field of         *)
(* TableGeometry in the code as well, so a small geometry is a legal value *)
(* of it and not a rounding of the standard one.                           *)
(*                                                                         *)
(* A ball is a record of its position, its velocity, its rolling surface   *)
(* velocity, its side spin and whether it has been pocketed; a table is a  *)
(* function from the numbers of its balls to such records, iterated in the *)
(* order of the numbers as the sorted vector of the code is.               *)
(***************************************************************************)
EXTENDS Integers, Sequences

CONSTANTS HalfWidth, HalfHeight, BallRadius, PocketRadius

(* What TableGeometry::new accepts. *)
ValidGeometry ==
  /\ {HalfWidth, HalfHeight, BallRadius, PocketRadius} \subseteq Nat \ {0}
  /\ BallRadius <= PocketRadius
  /\ BallRadius < HalfWidth /\ BallRadius < HalfHeight

ASSUME GeometryAssumption == ValidGeometry

-----------------------------------------------------------------------------
Sign(n) == IF n > 0 THEN 1 ELSE IF n < 0 THEN -1 ELSE 0

Size(n) == IF n < 0 THEN -n ELSE n

Smaller(m, n) == IF m < n THEN m ELSE n

Larger(m, n) == IF m < n THEN n ELSE m

Clamp(n, low, high) == Larger(low, Smaller(n, high))

(* Integer division of the language: towards zero. *)
Quotient(n, d) == Sign(n) * (Size(n) \div d)

MulDiv(n, m, d) == Quotient(n * m, d)

MulDivCeil(n, m, d) == (n * m + d - 1) \div d

Squared(x, y) == x * x + y * y

-----------------------------------------------------------------------------
(* The pockets in the order of PocketId, by the signs of their centres. *)
PocketSigns == << <<-1, 1>>, <<0, 1>>, <<1, 1>>, <<-1, -1>>, <<0, -1>>, <<1, -1>> >>

CornerMouth == (PocketRadius * 9) \div 5

SideMouth == (PocketRadius * 3) \div 2

(* Cushion noses and pocket facings, as pairs of end points in the order   *)
(* the solver visits them.                                                 *)
CushionSegments ==
  LET depth == BallRadius
      Corner(x, y) ==
        << << <<x * SideMouth, y * HalfHeight>>, <<x * (HalfWidth - CornerMouth), y * HalfHeight>> >>,
           << <<x * SideMouth, y * HalfHeight>>, <<x * PocketRadius, y * (HalfHeight + depth)>> >>,
           << <<x * (HalfWidth - CornerMouth), y * HalfHeight>>,
              <<x * (HalfWidth - PocketRadius), y * (HalfHeight + depth)>> >>,
           << <<x * HalfWidth, y * (HalfHeight - CornerMouth)>>,
              <<x * (HalfWidth + depth), y * (HalfHeight - PocketRadius)>> >> >>
      End(x) == << <<x * HalfWidth, CornerMouth - HalfHeight>>, <<x * HalfWidth, HalfHeight - CornerMouth>> >>
  IN Corner(-1, -1) \o Corner(1, -1) \o Corner(-1, 1) \o Corner(1, 1) \o << End(-1), End(1) >>

RailOpening(horizontal, along) ==
  IF horizontal THEN Size(along) < SideMouth \/ Size(along) > HalfWidth - CornerMouth
                ELSE Size(along) > HalfHeight - CornerMouth

InsidePlayableBounds(x, y) ==
  \/ /\ Size(x) <= HalfWidth /\ Size(y) <= HalfHeight
     /\ \/ Size(x) > HalfWidth - BallRadius /\ RailOpening(FALSE, y)
        \/ Size(y) > HalfHeight - BallRadius /\ RailOpening(TRUE, x)
  \/ Size(x) <= HalfWidth - BallRadius /\ Size(y) <= HalfHeight - BallRadius

(* A ball centre that has crossed the drop of a pocket. *)
InPocket(x, y, signs) ==
  IF signs[1] = 0
  THEN Size(x) <= SideMouth /\ y * signs[2] >= HalfHeight
  ELSE /\ x * signs[1] >= HalfWidth - CornerMouth
       /\ y * signs[2] >= HalfHeight - CornerMouth
       /\ x * signs[1] + y * signs[2] >= HalfWidth + HalfHeight - PocketRadius

-----------------------------------------------------------------------------
(* BallState. *)
BallStates ==
  [x : Int, y : Int, vx : Int, vy : Int, rx : Int, ry : Int, side : Int, pocketed : BOOLEAN]

Ball(x, y) == [x |-> x, y |-> y, vx |-> 0, vy |-> 0, rx |-> 0, ry |-> 0, side |-> 0, pocketed |-> FALSE]

Moving(ball) == ball.vx # 0 \/ ball.vy # 0

InPlay(balls) == {n \in DOMAIN balls : ~balls[n].pocketed}

Apart(a, b) == Squared(b.x - a.x, b.y - a.y) >= 4 * BallRadius * BallRadius

(* What VersionedTableState::new demands of the balls it is given. *)
ValidTable(balls) ==
  /\ DOMAIN balls # {} /\ DOMAIN balls \subseteq 0 .. 15
  /\ \A n \in DOMAIN balls : balls[n].pocketed => ~Moving(balls[n])
  /\ \A n \in InPlay(balls) : InsidePlayableBounds(balls[n].x, balls[n].y)
  /\ \A m, n \in InPlay(balls) : m # n => Apart(balls[m], balls[n])

-----------------------------------------------------------------------------
(* standard_rack: the places of the five rows, the 8-ball in the third.    *)
(* The seed only chooses which ball lies where.                            *)
RowSpacing == MulDivCeil(BallRadius, 1732051, 1000000)

RackFits ==
  /\ HalfWidth \div 2 <= HalfWidth - BallRadius
  /\ HalfWidth \div 4 + 4 * RowSpacing <= HalfWidth - BallRadius
  /\ 4 * BallRadius <= HalfHeight - BallRadius

RackPlaces == {p \in (0 .. 4) \X (0 .. 4) : p[2] <= p[1]}   (* row, column *)

(* The arrangements the two shuffles and the swapped corners can produce. *)
IsRack(rack) ==
  /\ rack[<<2, 1>>] = 8
  /\ {rack[p] : p \in RackPlaces} = 1 .. 15
  /\ (rack[<<4, 0>>] < 8) # (rack[<<4, 4>>] < 8)

RackTable(rack) ==
  [ n \in 0 .. 15 |->
      IF n = 0 THEN Ball(-(HalfWidth \div 2), 0)
      ELSE LET p == CHOOSE q \in RackPlaces : rack[q] = n IN
             Ball(HalfWidth \div 4 + p[1] * RowSpacing, (p[2] * 2 - p[1]) * BallRadius) ]
=============================================================================
