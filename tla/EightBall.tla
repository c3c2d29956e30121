------------------------------ MODULE EightBall ------------------------------
(***************************************************************************)
(* MatchState of pwmtf_game_domain: the canonical 8-ball aggregate.        *)
(*                                                                         *)
(* The table is the set of balls that have been pocketed; where the other  *)
(* balls lie is left out.  What canonical simulation reports of a shot is  *)
(* a record of the facts play_shot reads out of the event list:            *)
(*   contact  the first ball the cue ball touches, or NoBall               *)
(*   drops    the balls pocketed                                           *)
(*   first    the earliest pocketed ball of a group, or NoBall             *)
(*   rail     a cushion was hit at or after the first contact              *)
(*   pocket   where the 8-ball fell, if it fell                            *)
(*   called   the pocket called with the shot, or NoPocket                 *)
(***************************************************************************)
EXTENDS TurnRules, Naturals

CONSTANTS
  Solids, Stripes,   (* the balls of the two groups                        *)
  Cue, Eight,        (* balls 0 and 8                                      *)
  NoBall,
  Pockets, NoPocket,
  InProgress,        (* the status of a match without a result             *)
  MaxRerackCount     (* where rerack_count saturates: u32::MAX in the code *)

ASSUME BallAssumption ==
  /\ Solids \cap Stripes = {}
  /\ Cue # Eight
  /\ {Cue, Eight, NoBall} \cap (Solids \cup Stripes) = {}
  /\ NoBall \notin {Cue, Eight}

Reasons == {"LegalEightBall", "IllegalEightBall", "Concession"}

Outcomes == [winner : Player, reason : Reasons]

ASSUME StatusAssumption == InProgress \notin Outcomes

ASSUME RerackAssumption == MaxRerackCount \in Nat

VARIABLES
  pocketed,        (* table: the balls not in play                         *)
  activePlayer,
  breakPending,
  playerOneGroup,
  ballInHand,
  status,
  rerackCount

vars == <<pocketed, activePlayer, breakPending, playerOneGroup, ballInHand, status, rerackCount>>

-----------------------------------------------------------------------------
GroupBalls == Solids \cup Stripes
Objects    == GroupBalls \cup {Eight}
Balls      == Objects \cup {Cue}

Groups == {"Solids", "Stripes"}

BallsOf(g) == IF g = "Solids" THEN Solids ELSE IF g = "Stripes" THEN Stripes ELSE {}

OtherGroup(g) == IF g = "Solids" THEN "Stripes" ELSE "Solids"

GroupForBall(b) == IF b \in Solids THEN "Solids" ELSE "Stripes"

GroupOf(p) ==
  IF playerOneGroup = "None" \/ p = "One" THEN playerOneGroup ELSE OtherGroup(playerOneGroup)

PlayerClearedGroup(p) == GroupOf(p) # "None" /\ BallsOf(GroupOf(p)) \subseteq pocketed

LegalFirstContact(shooter, ball) ==
  IF breakPending \/ GroupOf(shooter) = "None"
  THEN ball # Eight
  ELSE IF PlayerClearedGroup(shooter) THEN ball = Eight
                                      ELSE ball \in BallsOf(GroupOf(shooter))

-----------------------------------------------------------------------------
(* The reports canonical simulation can return from the current table: a   *)
(* ball moves only when it is struck, so without a contact only the cue    *)
(* ball can fall.                                                          *)
Shots ==
  { s \in [ contact : (Objects \ pocketed) \cup {NoBall},
            drops   : SUBSET (Balls \ pocketed),
            first   : (GroupBalls \ pocketed) \cup {NoBall},
            rail    : BOOLEAN,
            pocket  : Pockets,
            called  : Pockets \cup {NoPocket} ] :
      /\ s.contact = NoBall => s.drops \subseteq {Cue} /\ ~s.rail
      /\ IF s.drops \cap GroupBalls = {} THEN s.first = NoBall ELSE s.first \in s.drops }

Scratch(s) == Cue \in s.drops

NoObjectContact(s) == s.contact = NoBall

WrongFirstContact(s) == s.contact # NoBall /\ ~LegalFirstContact(activePlayer, s.contact)

NoRailAfterContact(s) == s.contact # NoBall /\ s.drops = {} /\ ~s.rail

Foul_NoScratch(s) == NoObjectContact(s) \/ WrongFirstContact(s) \/ NoRailAfterContact(s)

Foul(s) == Scratch(s) \/ NoObjectContact(s) \/ WrongFirstContact(s) \/ NoRailAfterContact(s)

LegalEight_AnyTime(s) == ~Foul(s) /\ s.called = s.pocket

(* The 8-ball wins only without a foul, after the shooter's group had been *)
(* cleared before the shot, and in the called pocket.                      *)
LegalEight(s) == ~Foul(s) /\ PlayerClearedGroup(activePlayer) /\ s.called = s.pocket

-----------------------------------------------------------------------------
Init ==
  /\ pocketed = {}
  /\ activePlayer \in Player
  /\ breakPending = TRUE
  /\ playerOneGroup = "None"
  /\ ballInHand = FALSE
  /\ status = InProgress
  /\ rerackCount = 0

NextRerackCount == IF rerackCount = MaxRerackCount THEN rerackCount ELSE rerackCount + 1

(* play_shot, 8-ball pocketed on the break: the same player breaks again,  *)
(* whatever fouls the shot had.                                            *)
Rerack_KeepTable(s) ==
  /\ breakPending /\ Eight \in s.drops
  /\ rerackCount' = NextRerackCount
  /\ pocketed' = s.drops \ {Eight}
  /\ ballInHand' = FALSE
  /\ UNCHANGED <<activePlayer, breakPending, playerOneGroup, status>>

Rerack(s) ==
  /\ breakPending /\ Eight \in s.drops
  /\ rerackCount' = NextRerackCount
  /\ pocketed' = {}
  /\ breakPending' = TRUE
  /\ ballInHand' = FALSE
  /\ UNCHANGED <<activePlayer, playerOneGroup, status>>

EightResult(s) ==
  IF LegalEight(s) THEN [winner |-> activePlayer, reason |-> "LegalEightBall"]
                   ELSE [winner |-> Opponent(activePlayer), reason |-> "IllegalEightBall"]

(* play_shot, 8-ball pocketed after the break: the match is over. *)
SinkEight_KeepHand(s) ==
  /\ ~breakPending /\ Eight \in s.drops
  /\ pocketed' = pocketed \cup s.drops
  /\ breakPending' = FALSE
  /\ status' = EightResult(s)
  /\ UNCHANGED <<activePlayer, playerOneGroup, ballInHand, rerackCount>>

SinkEight(s) ==
  /\ ~breakPending /\ Eight \in s.drops
  /\ pocketed' = pocketed \cup s.drops
  /\ breakPending' = FALSE
  /\ status' = EightResult(s)
  /\ ballInHand' = FALSE
  /\ UNCHANGED <<activePlayer, playerOneGroup, rerackCount>>

(* The group the shot gives to the shooter. *)
AssignedGroup(s) ==
  IF ~breakPending /\ ~Foul(s) /\ playerOneGroup = "None" /\ s.first # NoBall
  THEN GroupForBall(s.first)
  ELSE "None"

(* The shooter's group once the shot is resolved. *)
ShooterGroup(s) == IF AssignedGroup(s) = "None" THEN GroupOf(activePlayer) ELSE AssignedGroup(s)

ContinueTurn_AnyBall(s) == ~Foul(s) /\ ~breakPending /\ s.drops # {}

ContinueTurn(s) ==
  ~Foul(s) /\ ~breakPending /\ s.drops \cap BallsOf(ShooterGroup(s)) # {}

(* play_shot, the 8-ball stays on the table. *)
PlayOn(s) ==
  /\ Eight \notin s.drops
  /\ pocketed' = pocketed \cup s.drops
  /\ breakPending' = FALSE
  /\ playerOneGroup' = IF AssignedGroup(s) = "None" THEN playerOneGroup
                       ELSE IF activePlayer = "One" THEN AssignedGroup(s)
                                                    ELSE OtherGroup(AssignedGroup(s))
  /\ activePlayer' = IF ContinueTurn(s) THEN activePlayer ELSE Opponent(activePlayer)
  /\ ballInHand' = Foul(s)
  /\ UNCHANGED <<status, rerackCount>>

(* simulate_shot refuses a table without its cue ball; ball-in-hand does   *)
(* not have to be used.                                                    *)
PlayShot(s) ==
  /\ status = InProgress
  /\ Cue \notin pocketed
  /\ Rerack(s) \/ SinkEight(s) \/ PlayOn(s)

PlaceCueBall ==
  /\ status = InProgress
  /\ ballInHand
  /\ pocketed' = pocketed \ {Cue}
  /\ ballInHand' = FALSE
  /\ UNCHANGED <<activePlayer, breakPending, playerOneGroup, status, rerackCount>>

TimeoutTurn_SameTurn ==
  /\ status = InProgress
  /\ ballInHand' = TRUE
  /\ UNCHANGED <<pocketed, activePlayer, breakPending, playerOneGroup, status, rerackCount>>

TimeoutTurn ==
  /\ status = InProgress
  /\ activePlayer' = Opponent(activePlayer)
  /\ ballInHand' = TRUE
  /\ UNCHANGED <<pocketed, breakPending, playerOneGroup, status, rerackCount>>

Concede(p) ==
  /\ status = InProgress
  /\ status' = [winner |-> Opponent(p), reason |-> "Concession"]
  /\ ballInHand' = FALSE
  /\ UNCHANGED <<pocketed, activePlayer, breakPending, playerOneGroup, rerackCount>>

Next ==
  \/ \E s \in Shots : PlayShot(s)
  \/ PlaceCueBall
  \/ TimeoutTurn
  \/ \E p \in Player : Concede(p)

Spec == Init /\ [][Next]_vars

-----------------------------------------------------------------------------
(* The fields of MatchState hold values of their types. *)
TypeOK ==
  /\ pocketed \subseteq Balls
  /\ activePlayer \in Player
  /\ breakPending \in BOOLEAN
  /\ playerOneGroup \in Groups \cup {"None"}
  /\ ballInHand \in BOOLEAN
  /\ status \in Outcomes \cup {InProgress}
  /\ rerackCount \in 0 .. MaxRerackCount

(* A match whose 8-ball is down is over: play_shot resolves every pocketed *)
(* 8-ball either by a rerack or by a result.                               *)
EightDownEndsMatch == status = InProgress => Eight \notin pocketed

(* While the match runs, a pocketed cue ball is always in somebody's hand: *)
(* otherwise no shot could ever be simulated again (CuePocketed) and only  *)
(* timeouts would move the match.                                          *)
PocketedCueIsInHand == status = InProgress /\ Cue \in pocketed => ballInHand

(* A pending break is always shot at a full rack of an open table, however *)
(* many reracks, timeouts and placements came before it.                   *)
BreakIsFullAndOpen == breakPending => pocketed = {} /\ playerOneGroup = "None"

(* The recorded result is one the rules allow: a legal win belongs to the  *)
(* shooter with its whole group and the 8-ball down and the cue ball up, an *)
(* illegal 8-ball to the other player, and a concession leaves the 8-ball. *)
WinIsEarned ==
  status # InProgress =>
    /\ status.reason = "LegalEightBall" =>
         /\ status.winner = activePlayer
         /\ PlayerClearedGroup(activePlayer)
         /\ Eight \in pocketed /\ Cue \notin pocketed
    /\ status.reason = "IllegalEightBall" =>
         status.winner = Opponent(activePlayer) /\ Eight \in pocketed
    /\ status.reason = "Concession" => Eight \notin pocketed

(* from_bytes rejects a completed match with the cue ball in hand, so such *)
(* a state could be accepted and never be recovered; a player may shoot    *)
(* with the ball in hand unused, which is how it could arise.              *)
CompletedSnapshotDecodes == status # InProgress => ~ballInHand

(* A player keeps the turn after pocketing something only if one of the    *)
(* balls is of the group the player has then, and the cue ball stayed up.  *)
ExtraTurnIsEarned ==
  [][ /\ pocketed' \ pocketed # {}
      /\ status' = InProgress
      /\ activePlayer' = activePlayer
      => /\ Cue \notin pocketed'
         /\ (pocketed' \ pocketed) \cap BallsOf(GroupOf(activePlayer)') # {} ]_vars

(* What TurnGame sees of the aggregate. *)
TurnView == [active |-> activePlayer, inHand |-> ballInHand, over |-> status # InProgress]

Turn == INSTANCE TurnGame WITH game <- TurnView

(* The aggregate plays the abstract game of TurnGame: a timeout never      *)
(* completes a match, and the cue ball is in hand only after the turn has  *)
(* passed.                                                                 *)
ImplementsTurnGame == Turn!Spec
=============================================================================
