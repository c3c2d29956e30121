---------------------------- MODULE ShotSimulation ----------------------------
(***************************************************************************)
(* Canonical shot simulation of pwmtf_game_domain: start_shot strikes the  *)
(* cue ball of a settled table, advance_tick moves the table by one fixed  *)
(* tick, and simulate_shot repeats it until the table settles or a bound   *)
(* is reached.  The event list is what MatchState::play_shot reads.        *)
(*                                                                         *)
(* Players shoot again from the table their last shot left.  The sequence  *)
(* number of an event is its place among the events of its tick.           *)
(***************************************************************************)
EXTENDS BallMotion

CONSTANTS
  Fixtures,    (* a table and the first shot that is played from it        *)
  FollowingShots, (* those that may follow: aim, power, side, vertical *)
  MaxEvents,   (* the bound of push_event: 16_384                          *)
  MaxShots     (* bound: shots played one after the other                  *)

AimSteps == 0 .. 9999

PowerUnits == 0 .. 10000

(* Spin::new: a contact point inside the cue-ball disc. *)
OnDisc(side, vertical) == side * side + vertical * vertical <= 100000000

ASSUME CommandAssumption ==
  \A c \in FollowingShots \cup {f.command : f \in Fixtures} :
    /\ c.aim \in AimSteps /\ c.power \in PowerUnits
    /\ Size(c.side) <= 10000 /\ Size(c.vertical) <= 10000 /\ OnDisc(c.side, c.vertical)

ASSUME TableAssumption ==
  \A f \in Fixtures : ValidTable(f.balls) /\ \A n \in DOMAIN f.balls : f.balls[n] \in BallStates

VARIABLES
  balls,     (* VersionedTableState::balls                                 *)
  before,    (* the table the shot in flight started from                  *)
  tick,      (* ticks of the shot in flight: the loop of simulate_shot     *)
  events,    (* [tick, kind] in canonical order                            *)
  phase,     (* "ready", "moving", "settled", or the error of the shot     *)
  shots      (* shots started                                              *)

shotVars == <<balls, before, tick, events, phase, shots>>

-----------------------------------------------------------------------------
CordicAngles ==
  << 125000000, 73791809, 38989565, 19791712, 9934262, 4971974, 2486594, 1243373, 621696, 310849,
     155425, 77712, 38856, 19428, 9714, 4857, 2429, 1214, 607, 304, 152, 76, 38, 19, 9, 5, 2, 1, 1 >>

(* cordic_quarter_turn: cosine and sine in millionths; the shifts of the   *)
(* code round down.                                                        *)
CordicStep(r, i) ==
  LET dx == r.y \div (2 ^ (i - 1))
      dy == r.x \div (2 ^ (i - 1))
  IN IF r.angle >= 0 THEN [x |-> r.x - dx, y |-> r.y + dy, angle |-> r.angle - CordicAngles[i]]
                     ELSE [x |-> r.x + dx, y |-> r.y - dy, angle |-> r.angle + CordicAngles[i]]

QuarterTurn(angle) ==
  LET r == FoldLeft(CordicStep, [x |-> 607253, y |-> 0, angle |-> angle],
                    [i \in DOMAIN CordicAngles |-> i])
  IN <<r.x, r.y>>

Direction(aim) ==
  LET turn     == aim * 100000
      quadrant == turn \div 250000000
      cs       == QuarterTurn(turn % 250000000)
  IN CASE quadrant = 0 -> cs
       [] quadrant = 1 -> << -cs[2], cs[1] >>
       [] quadrant = 2 -> << -cs[1], -cs[2] >>
       [] OTHER        -> << cs[2], -cs[1] >>

ShotVelocity(c) ==
  LET speed == MulDiv(MaximumSpeed, c.power, 10000)
      d     == Direction(c.aim)
  IN << MulDiv(speed, d[1], 1000000), MulDiv(speed, d[2], 1000000) >>

(* motion::strike: the contact offset turns speed into spin. *)
Struck(ball, c) ==
  LET v == ShotVelocity(c) IN
    [ball EXCEPT !.vx = v[1], !.vy = v[2],
                 !.rx = MulDiv(v[1], c.vertical, 4000), !.ry = MulDiv(v[2], c.vertical, 4000),
                 !.side = MulDiv(Speed(v[1], v[2]), -c.side, 4000)]

-----------------------------------------------------------------------------
Before(e, f) ==
  \/ e[1] < f[1]
  \/ e[1] = f[1] /\ e[2] < f[2]
  \/ e[1] = f[1] /\ e[2] = f[2] /\ e[3] < f[3]

(* sort_unstable_by_key with event_sort_key: equal keys are equal events, *)
(* so that every sort gives the same list, insertion as well.             *)
Insert(list, kind) ==
  LET place == Cardinality({i \in DOMAIN list : ~Before(kind, list[i])})
  IN [ i \in 1 .. Len(list) + 1 |->
         IF i <= place THEN list[i] ELSE IF i = place + 1 THEN kind ELSE list[i - 1] ]

InOrder(kinds) ==
  LET Upto[n \in 0 .. Len(kinds)] == IF n = 0 THEN <<>> ELSE Insert(Upto[n - 1], kinds[n])
  IN Upto[Len(kinds)]

Stamped(t, kinds) == [i \in DOMAIN kinds |-> [tick |-> t, kind |-> kinds[i]]]

(* push_event makes no room beyond the bound. *)
Overflows(list) == Len(list) > MaxEvents

(* What advance_tick does to a table that has settled. *)
AtRest(bs) == [n \in DOMAIN bs |-> [bs[n] EXCEPT !.vx = 0, !.vy = 0, !.rx = 0, !.ry = 0, !.side = 0]]

-----------------------------------------------------------------------------
ShotInit ==
  /\ balls \in {f.balls : f \in Fixtures}
  /\ before = balls
  /\ tick = 0
  /\ events = <<>>
  /\ phase = "ready"
  /\ shots = 0

(* start_shot, and the shot of no power that settles at once. *)
Shoot(c) ==
  /\ phase \in {"ready", "settled"}
  /\ shots < MaxShots
  /\ 0 \in InPlay(balls)
  /\ \A n \in DOMAIN balls : ~Moving(balls[n])
  /\ before' = balls
  /\ balls' = [balls EXCEPT ![0] = Struck(@, c)]
  /\ tick' = 0
  /\ shots' = shots + 1
  /\ IF c.power = 0
     THEN phase' = "settled" /\ events' = Stamped(0, << <<Started, 0, 0>>, <<Settled, 0, 0>> >>)
     ELSE phase' = "moving"  /\ events' = Stamped(0, << <<Started, 0, 0>> >>)

(* One round of simulate_shot: advance_tick, its events appended to those  *)
(* of the shot, and the error when the last tick has not settled it.       *)
AdvanceTick ==
  /\ phase = "moving"
  /\ \E moved \in {Advance(balls)} :
       LET rest    == IsSettled(moved.balls)
           emitted == Stamped(tick + 1, InOrder(moved.events) \o (IF rest THEN << <<Settled, 0, 0>> >> ELSE <<>>))
       IN /\ balls' = IF rest THEN AtRest(moved.balls) ELSE moved.balls
          /\ events' = events \o emitted
          /\ phase' = CASE Overflows(events')                -> "EventLimitExceeded"
                        [] rest                              -> "settled"
                        [] ~rest /\ tick + 1 = MaximumTicks  -> "DidNotSettle"
                        [] OTHER                             -> "moving"
  /\ tick' = tick + 1
  /\ UNCHANGED <<before, shots>>

Offered == IF shots = 0 THEN {f.command : f \in {g \in Fixtures : g.balls = balls}} ELSE FollowingShots

ShotNext == AdvanceTick \/ \E c \in Offered : Shoot(c)

ShotSpec == ShotInit /\ [][ShotNext]_shotVars /\ WF_shotVars(AdvanceTick)

-----------------------------------------------------------------------------
Kinds == {events[i].kind : i \in DOMAIN events}

FirstAt(P(_)) ==
  LET at == {i \in DOMAIN events : P(events[i].kind)} IN
    IF at = {} THEN 0 ELSE CHOOSE i \in at : \A j \in at : i <= j

ByCue(kind) == kind[1] = Contact /\ 0 \in {kind[2], kind[3]}

OfAGroup_AnyObject(kind) == kind[1] = Pocketed /\ kind[2] # 0

OfAGroup(kind) == kind[1] = Pocketed /\ kind[2] \notin {0, 8}

(* The facts MatchState::play_shot reads out of the events of a shot. *)
Report ==
  LET touch == FirstAt(ByCue)
      group == FirstAt(OfAGroup)
      eight == {k \in Kinds : k[1] = Pocketed /\ k[2] = 8}
  IN [ contact |-> IF touch = 0 THEN -1 ELSE Larger(events[touch].kind[2], events[touch].kind[3]),
       drops   |-> {k[2] : k \in {e \in Kinds : e[1] = Pocketed}},
       first   |-> IF group = 0 THEN -1 ELSE events[group].kind[2],
       rail    |-> touch # 0 /\ \E i \in DOMAIN events :
                     events[i].tick >= events[touch].tick /\ events[i].kind[1] = Cushion,
       pocket  |-> IF eight = {} THEN 0 ELSE (CHOOSE k \in eight : TRUE)[3],
       called  |-> -1 ]

Rules == INSTANCE EightBall WITH
  Solids <- 1 .. 7, Stripes <- 9 .. 15, Cue <- 0, Eight <- 8, NoBall <- -1,
  Pockets <- 0 .. 5, NoPocket <- -1, InProgress <- "InProgress", MaxRerackCount <- 0,
  pocketed <- (0 .. 15) \ InPlay(before), activePlayer <- "One", breakPending <- TRUE,
  playerOneGroup <- "None", ballInHand <- FALSE, status <- "InProgress", rerackCount <- 0

-----------------------------------------------------------------------------
(* What the rules are told of a settled shot is a report the aggregate of  *)
(* EightBall expects: only balls that were in play fall, the cue ball      *)
(* alone when it touched nothing, and the first ball of a group is one     *)
(* that fell.                                                              *)
ReportsAreShots == phase = "settled" => Report \in Rules!Shots

(* Each ball that leaves play is reported once and only once, and stays    *)
(* out, however many substeps, contacts and shots follow (play_shot counts *)
(* a ball from its event, the table from its flag).                        *)
PocketedOnce ==
  /\ \A i, j \in DOMAIN events :
       events[i].kind[1] = Pocketed /\ events[j].kind = events[i].kind => i = j
  /\ shots > 0 => InPlay(balls) = InPlay(before) \ Report.drops

(* Between two ticks every ball in play has its centre over the board,     *)
(* pockets included: none jumps a cushion.                                 *)
NoneLeavesTheBoard ==
  \A n \in InPlay(balls) : Size(balls[n].x) <= HalfWidth /\ Size(balls[n].y) <= HalfHeight

(* A shot settles within the ticks and the events it is allowed: the two   *)
(* errors would make a legal shot unplayable from this table for ever.     *)
EveryShotSettles == phase \notin {"DidNotSettle", "EventLimitExceeded"}

(* advance_tick promises that a table between two ticks can be serialized  *)
(* and restored; from_bytes restores what VersionedTableState::new         *)
(* accepts.                                                                *)
TablesCanBeRestored == phase \in {"moving", "settled"} => ValidTable(balls)
=============================================================================
