------------------------------- MODULE Pointer --------------------------------
(***************************************************************************)
(* What a pointer means to the Bevy client, by where it is: the power bar, *)
(* one of the pockets that can be called, or the table.  A spot is a pair  *)
(* of pixels of a window that has the size of the design, where the scale  *)
(* of the code is 1 and its offset 0.                                      *)
(***************************************************************************)
EXTENDS Integers, Sequences

DesignWidth  == 1220
DesignHeight == 590
TableWidth   == 960
TableHeight  == 480
TableCenterX == -55
PowerBarHeight == 300

Spot(x, y) == [x |-> x, y |-> y]

Magnitude(n) == IF n < 0 THEN -n ELSE n

Clamp(n, low, high) == IF n < low THEN low ELSE IF n > high THEN high ELSE n

(* round, half away from zero; d is positive. *)
Rounded(n, d) == IF n < 0 THEN -((d - 2 * n) \div (2 * d)) ELSE (2 * n + d) \div (2 * d)

(* pointer_world: the origin in the middle, y upwards. *)
PointerWorld(p) == Spot(p.x - DesignWidth \div 2, DesignHeight \div 2 - p.y)

PowerContact(p) ==
  /\ Magnitude(PointerWorld(p).x - 565) <= 42
  /\ Magnitude(PointerWorld(p).y) <= PowerBarHeight \div 2 + 20

(* Where pockets are called: the first one in the code's order. *)
ScreenPockets ==
  << Spot(145, 600), Spot(625, 600), Spot(1105, 600), Spot(145, 120), Spot(625, 120), Spot(1105, 120) >>

PocketSelectionRadius == 44

SelectedPocket(p) ==
  LET Within(i) == (p.x - ScreenPockets[i].x) * (p.x - ScreenPockets[i].x)
                     + (p.y - ScreenPockets[i].y) * (p.y - ScreenPockets[i].y)
                       <= PocketSelectionRadius * PocketSelectionRadius
      near == {i \in DOMAIN ScreenPockets : Within(i)}
  IN IF near = {} THEN 0 ELSE CHOOSE i \in near : \A k \in near : i <= k

ClassifyPointerContact(p) ==
  IF PowerContact(p) THEN "Power" ELSE IF SelectedPocket(p) # 0 THEN "Auxiliary" ELSE "Aim"

-----------------------------------------------------------------------------
TableLeft == TableCenterX + DesignWidth \div 2 - TableWidth \div 2
TableTop  == DesignHeight \div 2 - TableHeight \div 2

OnTable(p) ==
  /\ p.x \in TableLeft .. TableLeft + TableWidth
  /\ p.y \in TableTop .. TableTop + TableHeight

(* The table is 1_270_000 by 635_000 on either side of its middle: 15_875  *)
(* micros are six pixels.                                                  *)
Micros(twicePixels) == Rounded(15875 * twicePixels, 12)

(* screen_to_canonical: where on the table the cue ball is placed. *)
ScreenToCanonical(p) ==
  [x |-> Micros(2 * (p.x - TableLeft) - TableWidth), y |-> Micros(TableHeight - 2 * (p.y - TableTop))]

PowerUnits_Unclamped(p) ==
  Rounded(10000 * (2 * PointerWorld(p).y + PowerBarHeight), 2 * PowerBarHeight)

(* Power along the bar, at least MIN_POWER, as practice_shot quantizes it. *)
PowerUnits(p) ==
  Clamp(Rounded(10000 * (2 * PointerWorld(p).y + PowerBarHeight), 2 * PowerBarHeight), 500, 10000)

DefaultPower == 5500

(* A quarter of a radian. *)
DefaultAim == 398

(* update_from_pointer turns the cue only beyond four pixels of the middle. *)
TurnsCue(p) ==
  LET c == PointerWorld(p) IN c.x * c.x + c.y * c.y > 16
=============================================================================
