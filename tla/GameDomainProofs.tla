-------------------------- MODULE GameDomainProofs --------------------------
(***************************************************************************)
(* Proofs about the crate pwmtf_game_domain.                               *)
(*                                                                         *)
(* The match aggregate, for every set of balls and pockets and every       *)
(* saturation bound of the rerack counter: the rules of EightBall, its     *)
(* refinement of TurnGame, and that what MatchCodec and JournalRows store  *)
(* is read back as it was written.  Canonical simulation, for every        *)
(* geometry, profile, table and shot: a ball that falls is reported once.  *)
(***************************************************************************)
EXTENDS JournalRows, ShotSimulation, WireProtocolProofs, FiniteSetTheorems, TLAPS

(* The inductive invariant.  EightDownEndsMatch is needed for a concession *)
(* to leave the 8-ball, BreakIsFullAndOpen for a rerack to lose no group,  *)
(* and PocketedCueIsInHand only supports itself.                           *)
IInv ==
  /\ TypeOK
  /\ EightDownEndsMatch
  /\ PocketedCueIsInHand
  /\ BreakIsFullAndOpen
  /\ WinIsEarned
  /\ CompletedSnapshotDecodes

-----------------------------------------------------------------------------
(* What simulation reports is a shot at the balls in play.                 *)
LEMMA ShotType ==
  ASSUME NEW s \in Shots
  PROVE  /\ s.drops \subseteq Balls \ pocketed
         /\ s.first \in GroupBalls \cup {NoBall}
         /\ s.called \in Pockets \cup {NoPocket}
BY DEF Shots

(* Switching turns stays among the two players and always switches.        *)
LEMMA OpponentIsOther ==
  ASSUME NEW p \in Player
  PROVE  Opponent(p) \in Player /\ Opponent(p) # p
BY DEF Player, Opponent

(* A shot assigns a group only on an open table after the break.           *)
LEMMA AssignedGroupType ==
  ASSUME NEW s \in Shots
  PROVE  /\ AssignedGroup(s) \in Groups \cup {"None"}
         /\ AssignedGroup(s) # "None" => ~breakPending /\ ~Foul(s) /\ playerOneGroup = "None"
BY DEF AssignedGroup, Groups, GroupForBall

LEMMA InitInv == Init => IInv
<1> SUFFICES ASSUME Init
             PROVE  IInv
  OBVIOUS
<1>1. 0 \in 0 .. MaxRerackCount
  BY RerackAssumption DEF RerackAssumption
<1>2. TypeOK
  BY <1>1 DEF Init, TypeOK
<1>3. QED
  BY <1>2 DEF Init, IInv, EightDownEndsMatch, PocketedCueIsInHand, BreakIsFullAndOpen,
              WinIsEarned, CompletedSnapshotDecodes

-----------------------------------------------------------------------------
LEMMA RerackInv ==
  ASSUME IInv, NEW s \in Shots, status = InProgress, Rerack(s)
  PROVE  IInv'
<1>1. status' = InProgress /\ pocketed' = {} /\ playerOneGroup' = "None" /\ ~ballInHand'
  BY DEF Rerack, IInv, BreakIsFullAndOpen
<1>2. rerackCount' \in 0 .. MaxRerackCount
  BY RerackAssumption DEF Rerack, NextRerackCount, IInv, TypeOK
<1>3. TypeOK'
  BY <1>1, <1>2 DEF Rerack, NextRerackCount, IInv, TypeOK
<1>4. QED
  BY <1>1, <1>3, StatusAssumption
     DEF IInv, EightDownEndsMatch, PocketedCueIsInHand, BreakIsFullAndOpen,
         WinIsEarned, CompletedSnapshotDecodes

LEMMA SinkEightInv ==
  ASSUME IInv, NEW s \in Shots, status = InProgress, Cue \notin pocketed, SinkEight(s)
  PROVE  IInv'
<1>1. status' \in Outcomes /\ status' # InProgress
  BY OpponentIsOther, StatusAssumption DEF SinkEight, EightResult, Outcomes, Reasons, IInv, TypeOK
<1>2. TypeOK'
  BY <1>1, ShotType DEF SinkEight, IInv, TypeOK
<1>3. Eight \in pocketed' /\ ~ballInHand' /\ ~breakPending'
  BY DEF SinkEight
<1>4. WinIsEarned'
  <2>1. CASE LegalEight(s)
    <3>1. status' = [winner |-> activePlayer, reason |-> "LegalEightBall"]
      BY <2>1 DEF SinkEight, EightResult
    <3>2. Cue \notin pocketed'
      BY <2>1 DEF SinkEight, EightResult, LegalEight, Foul, Scratch
    <3>3. PlayerClearedGroup(activePlayer)'
      BY <2>1 DEF SinkEight, EightResult, LegalEight, PlayerClearedGroup, GroupOf
    <3>4. activePlayer' = activePlayer
      BY DEF SinkEight
    <3>5. QED
      BY <1>3, <3>1, <3>2, <3>3, <3>4 DEF WinIsEarned
  <2>2. CASE ~LegalEight(s)
    <3>1. status' = [winner |-> Opponent(activePlayer), reason |-> "IllegalEightBall"]
      BY <2>2 DEF SinkEight, EightResult
    <3>2. activePlayer' = activePlayer
      BY DEF SinkEight
    <3>3. QED
      BY <1>3, <3>1, <3>2 DEF WinIsEarned
  <2>3. QED
    BY <2>1, <2>2
<1>5. QED
  BY <1>1, <1>2, <1>3, <1>4
     DEF IInv, EightDownEndsMatch, PocketedCueIsInHand, BreakIsFullAndOpen,
         CompletedSnapshotDecodes

LEMMA PlayOnInv ==
  ASSUME IInv, NEW s \in Shots, status = InProgress, Cue \notin pocketed, PlayOn(s)
  PROVE  IInv'
<1>1. playerOneGroup' \in Groups \cup {"None"}
  BY AssignedGroupType DEF PlayOn, OtherGroup, Groups, IInv, TypeOK
<1>2. activePlayer' \in Player
  BY OpponentIsOther DEF PlayOn, IInv, TypeOK
<1>3. Foul(s) \in BOOLEAN
  BY DEF Foul, Scratch, NoObjectContact, WrongFirstContact, NoRailAfterContact
<1>4. pocketed' \subseteq Balls
  BY ShotType DEF PlayOn, IInv, TypeOK
<1>5. TypeOK'
  BY <1>1, <1>2, <1>3, <1>4 DEF PlayOn, IInv, TypeOK
<1>6. status' = InProgress /\ ~breakPending'
  BY DEF PlayOn
<1>7. EightDownEndsMatch'
  BY DEF PlayOn, IInv, EightDownEndsMatch
<1>8. PocketedCueIsInHand'
  BY DEF PlayOn, PocketedCueIsInHand, Foul, Scratch
<1>9. QED
  BY <1>5, <1>6, <1>7, <1>8
     DEF IInv, BreakIsFullAndOpen, WinIsEarned, CompletedSnapshotDecodes

LEMMA PlaceCueBallInv ==
  ASSUME IInv, PlaceCueBall
  PROVE  IInv'
BY DEF PlaceCueBall, IInv, TypeOK, EightDownEndsMatch, PocketedCueIsInHand,
       BreakIsFullAndOpen, WinIsEarned, CompletedSnapshotDecodes

LEMMA TimeoutTurnInv ==
  ASSUME IInv, TimeoutTurn
  PROVE  IInv'
<1>1. TypeOK'
  BY OpponentIsOther DEF TimeoutTurn, IInv, TypeOK
<1>2. QED
  BY <1>1 DEF TimeoutTurn, IInv, EightDownEndsMatch, PocketedCueIsInHand,
              BreakIsFullAndOpen, WinIsEarned, CompletedSnapshotDecodes

LEMMA ConcedeInv ==
  ASSUME IInv, NEW p \in Player, Concede(p)
  PROVE  IInv'
<1>1. status' = [winner |-> Opponent(p), reason |-> "Concession"]
  BY DEF Concede
<1>2. status' \in Outcomes /\ status' # InProgress
  BY <1>1, OpponentIsOther, StatusAssumption DEF Outcomes, Reasons
<1>3. TypeOK'
  BY <1>2 DEF Concede, IInv, TypeOK
<1>4. WinIsEarned'
  BY <1>1 DEF Concede, IInv, EightDownEndsMatch, WinIsEarned
<1>5. QED
  BY <1>2, <1>3, <1>4
     DEF Concede, IInv, EightDownEndsMatch, PocketedCueIsInHand, BreakIsFullAndOpen,
         CompletedSnapshotDecodes

LEMMA NextInv == IInv /\ [Next]_vars => IInv'
<1> SUFFICES ASSUME IInv, [Next]_vars
             PROVE  IInv'
  OBVIOUS
<1>1. ASSUME NEW s \in Shots, PlayShot(s)
      PROVE  IInv'
  BY <1>1, RerackInv, SinkEightInv, PlayOnInv DEF PlayShot
<1>2. CASE PlaceCueBall
  BY <1>2, PlaceCueBallInv
<1>3. CASE TimeoutTurn
  BY <1>3, TimeoutTurnInv
<1>4. ASSUME NEW p \in Player, Concede(p)
      PROVE  IInv'
  BY <1>4, ConcedeInv
<1>5. CASE UNCHANGED vars
  BY <1>5 DEF vars, IInv, TypeOK, EightDownEndsMatch, PocketedCueIsInHand, BreakIsFullAndOpen,
              WinIsEarned, CompletedSnapshotDecodes, PlayerClearedGroup, GroupOf
<1>6. QED
  BY <1>1, <1>2, <1>3, <1>4, <1>5 DEF Next

LEMMA SpecInv == Spec => []IInv
<1>1. Init => IInv
  BY InitInv
<1>2. IInv /\ [Next]_vars => IInv'
  BY NextInv
<1>3. QED
  BY <1>1, <1>2, PTL DEF Spec

-----------------------------------------------------------------------------
(* The fields of MatchState keep their types through every command.        *)
THEOREM TypeCorrect == Spec => []TypeOK
<1>1. IInv => TypeOK
  BY DEF IInv
<1>2. QED
  BY <1>1, SpecInv, PTL

(* The results play_shot and concede record are the ones the rules allow.  *)
THEOREM ResultsAreEarned == Spec => []WinIsEarned
<1>1. IInv => WinIsEarned
  BY DEF IInv
<1>2. QED
  BY <1>1, SpecInv, PTL

(* No sequence of commands leaves a running match without a playable cue   *)
(* ball: a pocketed cue ball is in hand, and a snapshot of a completed     *)
(* match can be decoded again.                                             *)
THEOREM CueBallIsNeverLost == Spec => [](PocketedCueIsInHand /\ CompletedSnapshotDecodes)
<1>1. IInv => PocketedCueIsInHand /\ CompletedSnapshotDecodes
  BY DEF IInv
<1>2. QED
  BY <1>1, SpecInv, PTL

(* The 8-ball is never left pocketed in a match that goes on: play_shot    *)
(* reracks it on the break and completes the match otherwise.              *)
THEOREM EightsEndMatches == Spec => []EightDownEndsMatch
<1>1. IInv => EightDownEndsMatch
  BY DEF IInv
<1>2. QED
  BY <1>1, SpecInv, PTL

(* A rerack loses nothing: a pending break has a full rack and no groups.  *)
THEOREM BreaksAreFull == Spec => []BreakIsFullAndOpen
<1>1. IInv => BreakIsFullAndOpen
  BY DEF IInv
<1>2. QED
  BY <1>1, SpecInv, PTL

(* After a shot that leaves the eight, the group of the shooter is the one *)
(* the shot decided by: the assignment is stored the right way round for   *)
(* either player.                                                          *)
LEMMA ShooterGroupStored ==
  ASSUME IInv, NEW s \in Shots, PlayOn(s), activePlayer' = activePlayer
  PROVE  GroupOf(activePlayer)' = ShooterGroup(s)
<1>1. activePlayer \in {"One", "Two"}
  BY DEF IInv, TypeOK, Player
<1>2. CASE AssignedGroup(s) = "None"
  BY <1>2 DEF PlayOn, GroupOf, ShooterGroup
<1>3. CASE AssignedGroup(s) # "None"
  <2>1. AssignedGroup(s) \in Groups
    BY <1>3, AssignedGroupType
  <2>2. playerOneGroup' = IF activePlayer = "One" THEN AssignedGroup(s) ELSE OtherGroup(AssignedGroup(s))
    BY <1>3 DEF PlayOn
  <2>3. OtherGroup(AssignedGroup(s)) # "None" /\ OtherGroup(OtherGroup(AssignedGroup(s))) = AssignedGroup(s)
    BY <2>1 DEF OtherGroup, Groups
  <2> QED
    BY <1>1, <1>3, <2>2, <2>3 DEF GroupOf, ShooterGroup
<1> QED
  BY <1>2, <1>3

(* A shot that pockets something and leaves the turn with its player has   *)
(* pocketed a ball of the group that player has then, and not the cue ball *)
(* (play_shot decides who goes on after it assigned the groups).           *)
THEOREM ExtraTurns == Spec => ExtraTurnIsEarned
<1> DEFINE Earned ==
      /\ pocketed' \ pocketed # {}
      /\ status' = InProgress
      /\ activePlayer' = activePlayer
      => /\ Cue \notin pocketed'
         /\ (pocketed' \ pocketed) \cap BallsOf(GroupOf(activePlayer)') # {}
<1>1. IInv /\ [Next]_vars => [Earned]_vars
  <2> SUFFICES ASSUME IInv, Next, pocketed' \ pocketed # {}, status' = InProgress, activePlayer' = activePlayer
               PROVE  /\ Cue \notin pocketed'
                      /\ (pocketed' \ pocketed) \cap BallsOf(GroupOf(activePlayer)') # {}
    OBVIOUS
  <2>1. PICK s \in Shots : PlayShot(s)
    BY OpponentIsOther DEF Next, PlaceCueBall, TimeoutTurn, Concede
  <2>2. ~SinkEight(s)
    BY OpponentIsOther, StatusAssumption DEF SinkEight, EightResult, Outcomes, Reasons, IInv, TypeOK
  <2>3. PlayOn(s) /\ Cue \notin pocketed
    BY <2>1, <2>2 DEF PlayShot, Rerack
  <2>4. ContinueTurn(s)
    BY <2>3, OpponentIsOther DEF PlayOn, IInv, TypeOK
  <2>5. pocketed' \ pocketed = s.drops
    BY <2>3, ShotType DEF PlayOn
  <2>6. Cue \notin pocketed'
    BY <2>3, <2>4 DEF PlayOn, ContinueTurn, Foul, Scratch
  <2>7. s.drops \cap BallsOf(ShooterGroup(s)) # {}
    BY <2>4 DEF ContinueTurn
  <2> QED
    BY <2>3, <2>5, <2>6, <2>7, ShooterGroupStored
<1> QED
  BY <1>1, SpecInv, PTL DEF Spec, ExtraTurnIsEarned
-----------------------------------------------------------------------------
(* A step that does to the turn what a permitted command of TurnRules does *)
(* is a step of TurnGame.                                                  *)
LEMMA TurnStep ==
  ASSUME NEW c \in Commands,
         status = InProgress,
         c = "place" => ballInHand,
         activePlayer' = IF c \in {"pass", "foul", "timeout"}
                         THEN Opponent(activePlayer) ELSE activePlayer,
         ballInHand' = IF c \in {"foul", "timeout"} THEN TRUE ELSE FALSE,
         status' # InProgress <=> c \in {"concedeOne", "concedeTwo", "end"}
  PROVE  Turn!Next
<1>1. Allowed(TurnView, c)
  BY DEF Allowed, TurnView
<1>2. TurnView' = Apply(TurnView, c)
  <2>1. (status' # InProgress) = (c \in Concessions \cup {"end"})
    <3>1. CASE c \in Concessions \cup {"end"}
      BY <3>1 DEF Concessions
    <3>2. CASE c \notin Concessions \cup {"end"}
      BY <3>2 DEF Concessions
    <3>3. QED
      BY <3>1, <3>2
  <2>2. ballInHand' = (c \in {"foul", "timeout"})
    <3>1. CASE c \in {"foul", "timeout"}
      <4>1. ballInHand' = TRUE /\ (c \in {"foul", "timeout"}) = TRUE
        BY <3>1
      <4>2. QED
        BY <4>1, Zenon
    <3>2. CASE c \notin {"foul", "timeout"}
      <4>1. ballInHand' = FALSE /\ (c \in {"foul", "timeout"}) = FALSE
        BY <3>2
      <4>2. QED
        BY <4>1, Zenon
    <3>3. QED
      BY <3>1, <3>2
  <2>3. QED
    BY <2>1, <2>2 DEF TurnView, Apply
<1>3. QED
  BY <1>1, <1>2
     DEF Turn!Next, Turn!Commands, Turn!TurnCommands, Turn!ShotCommands, Turn!Concessions,
         Turn!Allowed, Turn!Apply, Turn!Opponent, Commands, TurnCommands, ShotCommands,
         Concessions, Allowed, Apply, Opponent

(* One lemma per command: the step is a step of TurnGame.                  *)
LEMMA ShotTurns ==
  ASSUME IInv, NEW s \in Shots, PlayShot(s)
  PROVE  Turn!Next
<1>1. status = InProgress /\ Foul(s) \in BOOLEAN
  BY DEF PlayShot, Foul, Scratch, NoObjectContact, WrongFirstContact, NoRailAfterContact
<1>2. CASE Rerack(s)
  <2>1. activePlayer' = activePlayer /\ ballInHand' = FALSE /\ status' = InProgress
    BY <1>1, <1>2 DEF Rerack
  <2>2. "keep" \in Commands
    BY DEF Commands, TurnCommands, ShotCommands
  <2>3. QED
    BY <1>1, <2>1, <2>2, TurnStep
<1>3. CASE SinkEight(s)
  <2>1. activePlayer' = activePlayer /\ ballInHand' = FALSE
    BY <1>3 DEF SinkEight
  <2>2. status' # InProgress
    BY <1>3, OpponentIsOther, StatusAssumption DEF SinkEight, EightResult, Outcomes, Reasons, IInv, TypeOK
  <2>3. "end" \in Commands
    BY DEF Commands, TurnCommands, ShotCommands
  <2>4. QED
    BY <1>1, <2>1, <2>2, <2>3, TurnStep
<1>4. CASE PlayOn(s)
  <2> DEFINE c == IF Foul(s) THEN "foul" ELSE IF ContinueTurn(s) THEN "keep" ELSE "pass"
  <2>1. c \in {"foul", "keep", "pass"}
    OBVIOUS
  <2>2. c \in Commands
    BY DEF Commands, TurnCommands, ShotCommands
  <2>3. /\ activePlayer' = IF c = "keep" THEN activePlayer ELSE Opponent(activePlayer)
        /\ ballInHand' = IF c = "foul" THEN TRUE ELSE FALSE
        /\ status' = InProgress
    BY <1>1, <1>4 DEF PlayOn, ContinueTurn
  <2> HIDE DEF c
  <2>4. QED
    BY <1>1, <2>1, <2>2, <2>3, TurnStep
<1>5. QED
  BY <1>2, <1>3, <1>4 DEF PlayShot

LEMMA PlacementTurns ==
  ASSUME PlaceCueBall
  PROVE  Turn!Next
<1>1. /\ status = InProgress /\ ballInHand
      /\ activePlayer' = activePlayer /\ ballInHand' = FALSE /\ status' = InProgress
  BY DEF PlaceCueBall
<1>2. "place" \in Commands
  BY DEF Commands, TurnCommands
<1>3. QED
  BY <1>1, <1>2, TurnStep

LEMMA TimeoutTurns ==
  ASSUME TimeoutTurn
  PROVE  Turn!Next
<1>1. /\ status = InProgress
      /\ activePlayer' = Opponent(activePlayer) /\ ballInHand' = TRUE /\ status' = InProgress
  BY DEF TimeoutTurn
<1>2. "timeout" \in Commands
  BY DEF Commands
<1>3. QED
  BY <1>1, <1>2, TurnStep

LEMMA ConcessionTurns ==
  ASSUME NEW p \in Player, Concede(p)
  PROVE  Turn!Next
<1>1. /\ status = InProgress
      /\ activePlayer' = activePlayer /\ ballInHand' = FALSE
  BY DEF Concede
<1>2. status' # InProgress
  BY OpponentIsOther, StatusAssumption DEF Concede, Outcomes, Reasons
<1>3. "concedeOne" \in Commands
  BY DEF Commands, Concessions
<1>4. QED
  BY <1>1, <1>2, <1>3, TurnStep

(* The 8-ball aggregate implements the abstract turn game: in particular a *)
(* timeout never completes a match, and the cue ball is in hand only after *)
(* the turn has passed.                                                    *)
THEOREM RefinesTurnGame == Spec => ImplementsTurnGame
<1>1. Init => Turn!Init
  BY DEF Init, TurnView, Turn!Init, Turn!NewGame, Turn!Player, Player
<1>2. IInv /\ [Next]_vars => [Turn!Next]_TurnView
  <2> SUFFICES ASSUME IInv, [Next]_vars
               PROVE  Turn!Next \/ UNCHANGED TurnView
    OBVIOUS
  <2>1. CASE Next
    BY <2>1, ShotTurns, PlacementTurns, TimeoutTurns, ConcessionTurns DEF Next
  <2>2. CASE UNCHANGED vars
    BY <2>2 DEF vars, TurnView
  <2>3. QED
    BY <2>1, <2>2
<1>3. QED
  BY <1>1, <1>2, SpecInv, PTL DEF Spec, ImplementsTurnGame, Turn!Spec

-----------------------------------------------------------------------------
(* Players, groups and results as bytes.                                   *)

LEMMA PlayerRoundTrip ==
  ASSUME NEW p \in Player
  PROVE  \E n \in {1, 2} : PlayerBytes(p) = <<n>> /\ PlayerAt(n) = p
<1>1. CASE p = "One"
  BY <1>1 DEF PlayerBytes, PlayerAt
<1>2. CASE p = "Two"
  BY <1>2 DEF PlayerBytes, PlayerAt
<1> QED
  BY <1>1, <1>2 DEF Player

(* The place of a name in a list of names.                                 *)
LEMMA PlaceOf ==
  ASSUME NEW names, Len(names) \in Nat, NEW k \in 1 .. Len(names),
         \A i \in 1 .. Len(names) : names[i] = names[k] <=> i = k
  PROVE  /\ {i \in 1 .. Len(names) : names[i] = names[k]} = {k}
         /\ (CHOOSE i \in {k} : \A j \in {k} : i =< j) = k
<1>1. {i \in 1 .. Len(names) : names[i] = names[k]} = {k}
  OBVIOUS
<1>2. k \in Int
  OBVIOUS
<1>3. (CHOOSE i \in {k} : \A j \in {k} : i =< j) = k
  BY <1>2
<1> QED
  BY <1>1, <1>3

LEMMA GroupRoundTrip ==
  ASSUME NEW g \in Groups \cup {"None"}
  PROVE  \E n \in 0 .. 2 : GroupBytes(g) = <<n>> /\ GroupNames[n + 1] = g
<1>1. GroupNames = << "None", "Solids", "Stripes" >>
  BY DEF GroupNames
<1>2. Len(GroupNames) \in Nat /\ Len(GroupNames) >= 3 /\ Len(GroupNames) <= 3
  BY <1>1
<1>3. PICK k \in 1 .. Len(GroupNames) : GroupNames[k] = g
  BY <1>1, <1>2 DEF Groups
<1>4. \A i \in 1 .. Len(GroupNames) : GroupNames[i] = GroupNames[k] <=> i = k
  BY <1>1, <1>2
<1>5. {i \in 1 .. Len(GroupNames) : GroupNames[i] = g} = {k} /\ (CHOOSE i \in {k} : \A j \in {k} : i =< j) = k
  BY <1>2, <1>3, <1>4, PlaceOf
<1>6. SelectInSeq(GroupNames, LAMBDA name : name = g) = k
  BY <1>5 DEF SelectInSeq, Min
<1> DEFINE n == k - 1
<1>7. n \in 0 .. 2 /\ n + 1 = k
  BY <1>2
<1>8. GroupBytes(g) = <<n>>
  BY <1>6 DEF GroupBytes
<1> QED
  BY <1>3, <1>7, <1>8

LEMMA ReasonRoundTrip ==
  ASSUME NEW reason \in Reasons
  PROVE  \E n \in 1 .. 3 : SelectInSeq(ReasonNames, LAMBDA name : name = reason) = n /\ ReasonNames[n] = reason
<1>1. ReasonNames = << "LegalEightBall", "IllegalEightBall", "Concession" >>
  BY DEF ReasonNames
<1>2. Len(ReasonNames) \in Nat /\ Len(ReasonNames) >= 3 /\ Len(ReasonNames) <= 3
  BY <1>1
<1>3. PICK k \in 1 .. Len(ReasonNames) : ReasonNames[k] = reason
  BY <1>1, <1>2 DEF Reasons
<1>4. \A i \in 1 .. Len(ReasonNames) : ReasonNames[i] = ReasonNames[k] <=> i = k
  BY <1>1, <1>2
<1>5. {i \in 1 .. Len(ReasonNames) : ReasonNames[i] = reason} = {k} /\ (CHOOSE i \in {k} : \A j \in {k} : i =< j) = k
  BY <1>2, <1>3, <1>4, PlaceOf
<1>6. SelectInSeq(ReasonNames, LAMBDA name : name = reason) = k
  BY <1>5 DEF SelectInSeq, Min
<1>7. k \in 1 .. 3
  BY <1>2
<1> QED
  BY <1>3, <1>6, <1>7

MatchStatuses == Outcomes \cup {InProgress}

(* What was got tells the status.                                          *)
SaysStatus(got, st) ==
  /\ "status" \in DOMAIN got
  /\ got.status = IF st = InProgress THEN 0 ELSE 1
  /\ st # InProgress =>
       /\ {"winner", "reason"} \subseteq DOMAIN got
       /\ PlayerAt(got.winner) = st.winner /\ ReasonNames[got.reason] = st.reason

LEMMA SaidStatus ==
  ASSUME NEW st \in MatchStatuses, NEW got, SaysStatus(got, st)
  PROVE  StatusOf(got) = st
<1>1. CASE st = InProgress
  BY <1>1 DEF SaysStatus, StatusOf
<1>2. CASE st # InProgress
  <2>1. st \in [winner : Player, reason : Reasons]
    BY <1>2 DEF MatchStatuses, Outcomes
  <2>2. st = [winner |-> st.winner, reason |-> st.reason]
    BY <2>1
  <2>3. got.status # 0 /\ PlayerAt(got.winner) = st.winner /\ ReasonNames[got.reason] = st.reason
    BY <1>2 DEF SaysStatus
  <2> QED
    BY <2>2, <2>3 DEF StatusOf
<1> QED
  BY <1>1, <1>2

(* A later field of another name leaves it said.                           *)
LEMMA SaysStill ==
  ASSUME NEW st, NEW got, SaysStatus(got, st), NEW name, name \notin {"status", "winner", "reason"}, NEW value
  PROVE  SaysStatus(With(got, name, value), st)
<1> DEFINE g == With(got, name, value)
<1>1. DOMAIN got \subseteq DOMAIN g /\ \A n \in DOMAIN got : n # name => g[n] = got[n]
  BY DEF With
<1> HIDE DEF g
<1>2. g.status = got.status /\ "status" \in DOMAIN g
  BY <1>1 DEF SaysStatus
<1>3. ASSUME st # InProgress
      PROVE  {"winner", "reason"} \subseteq DOMAIN g /\ g.winner = got.winner /\ g.reason = got.reason
  BY <1>1, <1>3 DEF SaysStatus
<1>4. SaysStatus(g, st)
  BY <1>2, <1>3 DEF SaysStatus
<1> QED
  BY <1>4 DEF g

(* Fields that were read before the status are kept.                       *)
Keeps(got, later) ==
  \A n \in DOMAIN got : n \notin {"status", "winner", "reason"} => n \in DOMAIN later /\ later[n] = got[n]

LEMMA KeepsFields ==
  ASSUME NEW got, NEW g, Keeps(got, g), NEW name \in {"status", "winner", "reason"}, NEW value
  PROVE  Keeps(got, With(g, name, value))
<1> DEFINE h == With(g, name, value)
<1>1. DOMAIN g \subseteq DOMAIN h /\ \A n \in DOMAIN g : n # name => h[n] = g[n]
  BY DEF With
<1> HIDE DEF h
<1>2. Keeps(got, h)
  BY <1>1 DEF Keeps
<1> QED
  BY <1>2 DEF h

(* The fields of a match that is over.                                     *)
LEMMA StatusFields ==
  ASSUME NEW got, NEW p, NEW q, NEW g1, NEW g2, NEW g3,
         g1 = With(got, "status", 1), g2 = With(g1, "winner", p), g3 = With(g2, "reason", q)
  PROVE  /\ g1.status = 1
         /\ {"status", "winner", "reason"} \subseteq DOMAIN g3
         /\ g3.status = 1 /\ g3.winner = p /\ g3.reason = q
         /\ Keeps(got, g3)
<1>1. "status" \in DOMAIN g1 /\ g1.status = 1
  BY DEF With
<1>2. "status" \in DOMAIN g2 /\ "winner" \in DOMAIN g2 /\ g2.status = g1.status /\ g2.winner = p
  BY <1>1 DEF With
<1>3. /\ "status" \in DOMAIN g3 /\ "winner" \in DOMAIN g3 /\ "reason" \in DOMAIN g3
      /\ g3.status = g2.status /\ g3.winner = g2.winner /\ g3.reason = q
  BY <1>2 DEF With
<1>4. Keeps(got, got)
  BY DEF Keeps
<1>5. Keeps(got, g1)
  BY <1>4, KeepsFields
<1>6. Keeps(got, g2)
  BY <1>5, KeepsFields
<1>7. Keeps(got, g3)
  BY <1>6, KeepsFields
<1> QED
  BY <1>1, <1>2, <1>3, <1>7

LEMMA StatusBytesType ==
  ASSUME NEW st \in MatchStatuses
  PROVE  StatusBytes(st) \in Seq(Byte)
<1>1. CASE st = InProgress
  <2>1. <<0>> \in Seq(Byte)
    BY DEF Byte
  <2> QED
    BY <1>1, <2>1 DEF StatusBytes
<1>2. CASE st # InProgress
  <2>1. st.winner \in Player /\ st.reason \in Reasons
    BY <1>2 DEF MatchStatuses, Outcomes
  <2>2. PICK p \in {1, 2} : PlayerBytes(st.winner) = <<p>>
    BY <2>1, PlayerRoundTrip
  <2>3. PICK q \in 1 .. 3 : SelectInSeq(ReasonNames, LAMBDA name : name = st.reason) = q
    BY <2>1, ReasonRoundTrip
  <2>4. StatusBytes(st) = <<1>> \o <<p>> \o <<q>>
    BY <1>2, <2>2, <2>3 DEF StatusBytes
  <2>5. 1 \in Byte /\ p \in Byte /\ q \in Byte
    BY DEF Byte
  <2> QED
    BY <2>4, <2>5
<1> QED
  BY <1>1, <1>2

(* A status that stands in front is the one that is read.                  *)
StatusTaken(bytes, at, st, rest, got) ==
  \E j, later : /\ TakeStatus(Got(bytes, at, got)) = Got(bytes, j, later)
                /\ Ends(bytes, j, rest) /\ SaysStatus(later, st) /\ Keeps(got, later)

LEMMA StatusIsTaken ==
  ASSUME NEW bytes, NEW at, NEW st \in MatchStatuses, NEW rest \in Seq(Byte), NEW got,
         Ends(bytes, at, StatusBytes(st) \o rest)
  PROVE  StatusTaken(bytes, at, st, rest, got)
<1>1. CASE st = InProgress
  <2> DEFINE later == With(got, "status", 0)
  <2>1. Ends(bytes, at, <<0>> \o rest)
    BY <1>1 DEF StatusBytes
  <2>2. 0 \in Byte /\ 0 \in {0, 1}
    BY DEF Byte
  <2>3. Take(Got(bytes, at, got), Field("status", 1, {0, 1})) = Got(bytes, at + 1, later) /\ Ends(bytes, at + 1, rest)
    BY <2>1, <2>2, FrontByte
  <2>4. "status" \in DOMAIN later /\ later.status = 0 /\ Keeps(got, later)
    BY DEF Keeps, With
  <2> HIDE DEF later
  <2>5. TakeStatus(Got(bytes, at, got)) = Got(bytes, at + 1, later)
    BY <2>3, <2>4 DEF TakeStatus, Got
  <2>6. SaysStatus(later, st)
    BY <1>1, <2>4 DEF SaysStatus
  <2> QED
    BY <2>3, <2>4, <2>5, <2>6 DEF StatusTaken
<1>2. CASE st # InProgress
  <2>1. st.winner \in Player /\ st.reason \in Reasons
    BY <1>2 DEF MatchStatuses, Outcomes
  <2>2. PICK p \in {1, 2} : PlayerBytes(st.winner) = <<p>> /\ PlayerAt(p) = st.winner
    BY <2>1, PlayerRoundTrip
  <2>3. PICK q \in 1 .. 3 : /\ SelectInSeq(ReasonNames, LAMBDA name : name = st.reason) = q
                            /\ ReasonNames[q] = st.reason
    BY <2>1, ReasonRoundTrip
  <2>4. StatusBytes(st) = <<1>> \o <<p>> \o <<q>>
    BY <1>2, <2>2, <2>3 DEF StatusBytes
  <2>5. 1 \in Byte /\ p \in Byte /\ q \in Byte /\ 1 \in {0, 1}
    BY DEF Byte
  <2> DEFINE x == <<1>>  y == <<p>>  z == <<q>>
  <2>6. x \in Seq(Byte) /\ y \in Seq(Byte) /\ z \in Seq(Byte) /\ z \o rest \in Seq(Byte)
    BY <2>5
  <2>7. StatusBytes(st) \o rest = ((x \o y) \o z) \o rest
    BY <2>4
  <2> HIDE DEF x, y, z
  <2>8. StatusBytes(st) \o rest = x \o (y \o (z \o rest))
    <3>1. x \o y \in Seq(Byte)
      BY <2>6
    <3>2. ((x \o y) \o z) \o rest = (x \o y) \o (z \o rest)
      BY <2>6, <3>1, Associates
    <3>3. (x \o y) \o (z \o rest) = x \o (y \o (z \o rest))
      BY <2>6, Associates
    <3> QED
      BY <2>7, <3>2, <3>3
  <2> DEFINE t == z \o rest
             u == y \o t
             g1 == With(got, "status", 1)
             g2 == With(g1, "winner", p)
             g3 == With(g2, "reason", q)
  <2>14. t \in Seq(Byte) /\ u \in Seq(Byte)
    BY <2>6
  <2>10. /\ Take(Got(bytes, at, got), Field("status", 1, {0, 1})) = Got(bytes, at + 1, g1)
         /\ Ends(bytes, at + 1, u)
    <3>1. Ends(bytes, at, <<1>> \o u)
      BY <2>8 DEF x
    <3> HIDE DEF u, t
    <3> QED
      BY <2>5, <2>14, <3>1, FrontByte
  <2>11. /\ Take(Got(bytes, at + 1, g1), Field("winner", 1, {1, 2})) = Got(bytes, at + 1 + 1, g2)
         /\ Ends(bytes, at + 1 + 1, t)
    <3>1. Ends(bytes, at + 1, <<p>> \o t)
      BY <2>10 DEF y
    <3> HIDE DEF g1, t, u
    <3> QED
      BY <2>5, <2>14, <3>1, FrontByte
  <2>12. /\ Take(Got(bytes, at + 1 + 1, g2), Field("reason", 1, 1 .. 3)) = Got(bytes, at + 1 + 1 + 1, g3)
         /\ Ends(bytes, at + 1 + 1 + 1, rest)
    <3>1. Ends(bytes, at + 1 + 1, <<q>> \o rest)
      BY <2>11 DEF z
    <3> HIDE DEF g1, g2
    <3> QED
      BY <2>5, <3>1, FrontByte
  <2>13. g1 = With(got, "status", 1) /\ g2 = With(g1, "winner", p) /\ g3 = With(g2, "reason", q)
    OBVIOUS
  <2> HIDE DEF g1, g2, g3
  <2>15. /\ g1.status = 1 /\ {"status", "winner", "reason"} \subseteq DOMAIN g3
         /\ g3.status = 1 /\ g3.winner = p /\ g3.reason = q /\ Keeps(got, g3)
    BY <2>13, StatusFields
  <2>16. TakeStatus(Got(bytes, at, got)) = Got(bytes, at + 1 + 1 + 1, g3)
    <3>1. Got(bytes, at + 1, g1).ok /\ Got(bytes, at + 1, g1).got = g1
      BY DEF Got
    <3>2. ReadAll(Got(bytes, at + 1, g1), << Field("winner", 1, {1, 2}), Field("reason", 1, 1 .. 3) >>)
            = Got(bytes, at + 1 + 1 + 1, g3)
      BY <2>11, <2>12, ReadTwo
    <3> QED
      BY <2>10, <2>15, <3>1, <3>2 DEF TakeStatus
  <2>17. SaysStatus(g3, st)
    BY <1>2, <2>2, <2>3, <2>15 DEF SaysStatus
  <2> QED
    BY <2>12, <2>15, <2>16, <2>17 DEF StatusTaken
<1> QED
  BY <1>1, <1>2

LEMMA TakesStatus ==
  ASSUME NEW bytes, NEW at, NEW st \in MatchStatuses, NEW rest \in Seq(Byte), NEW got,
         Ends(bytes, at, StatusBytes(st) \o rest)
  PROVE  \E j, later : /\ TakeStatus(Got(bytes, at, got)) = Got(bytes, j, later)
                       /\ Ends(bytes, j, rest) /\ SaysStatus(later, st) /\ Keeps(got, later)
<1>1. StatusTaken(bytes, at, st, rest, got)
  BY StatusIsTaken
<1> QED
  BY <1>1 DEF StatusTaken

-----------------------------------------------------------------------------
(* Fouls as bytes.                                                         *)

FoulNames == {FoulOrder[k] : k \in 1 .. 4}

FoulLists ==
  { fouls \in Seq(FoulNames) :
      Len(fouls) <= 4 /\ \A i, j \in 1 .. Len(fouls) : fouls[i] = fouls[j] => i = j }

FoulBytes(fouls) == [i \in DOMAIN fouls |-> SelectInSeq(FoulOrder, LAMBDA foul : foul = fouls[i])]

LEMMA FoulRoundTrip ==
  ASSUME NEW foul \in FoulNames
  PROVE  \E n \in 1 .. 4 : SelectInSeq(FoulOrder, LAMBDA name : name = foul) = n /\ FoulOrder[n] = foul
<1>1. FoulOrder = << "Scratch", "NoObjectContact", "WrongFirstContact", "NoRailAfterContact" >>
  BY DEF FoulOrder
<1>2. Len(FoulOrder) \in Nat /\ Len(FoulOrder) >= 4 /\ Len(FoulOrder) <= 4
  BY <1>1
<1>3. PICK k \in 1 .. Len(FoulOrder) : FoulOrder[k] = foul
  BY <1>2 DEF FoulNames
<1>4. \A i \in 1 .. Len(FoulOrder) : FoulOrder[i] = FoulOrder[k] <=> i = k
  BY <1>1, <1>2
<1>5. {i \in 1 .. Len(FoulOrder) : FoulOrder[i] = foul} = {k} /\ (CHOOSE i \in {k} : \A j \in {k} : i =< j) = k
  BY <1>2, <1>3, <1>4, PlaceOf
<1>6. SelectInSeq(FoulOrder, LAMBDA name : name = foul) = k
  BY <1>5 DEF SelectInSeq, Min
<1>7. k \in 1 .. 4
  BY <1>2
<1> QED
  BY <1>3, <1>6, <1>7

LEMMA FoulNumbers ==
  ASSUME NEW fouls \in FoulLists
  PROVE  /\ FoulBytes(fouls) \in Seq(Byte) /\ Len(FoulBytes(fouls)) = Len(fouls)
         /\ \A i \in 1 .. Len(fouls) : FoulBytes(fouls)[i] \in 1 .. 4 /\ FoulOrder[FoulBytes(fouls)[i]] = fouls[i]
<1> DEFINE n == Len(fouls)
           b == FoulBytes(fouls)
<1>1. n \in Nat /\ DOMAIN fouls = 1 .. n /\ \A i \in 1 .. n : fouls[i] \in FoulNames
  BY DEF FoulLists
<1> HIDE DEF n
<1>2. ASSUME NEW i \in 1 .. n
      PROVE  b[i] \in 1 .. 4 /\ FoulOrder[b[i]] = fouls[i]
  <2>1. PICK k \in 1 .. 4 : SelectInSeq(FoulOrder, LAMBDA foul : foul = fouls[i]) = k /\ FoulOrder[k] = fouls[i]
    BY <1>1, FoulRoundTrip
  <2>2. b[i] = SelectInSeq(FoulOrder, LAMBDA foul : foul = fouls[i])
    BY <1>1 DEF FoulBytes
  <2> QED
    BY <2>1, <2>2
<1>3. b = [i \in 1 .. n |-> b[i]]
  BY <1>1 DEF FoulBytes
<1> DEFINE c == [i \in 1 .. n |-> b[i]]
<1> HIDE DEF b
<1>4. c \in Seq(Byte) /\ Len(c) = n
  BY <1>1, <1>2 DEF Byte
<1>5. b \in Seq(Byte) /\ Len(b) = n
  BY <1>3, <1>4
<1> QED
  BY <1>2, <1>5 DEF b, n

LEMMA FoulTaken ==
  ASSUME NEW bytes \in Seq(Byte), NEW at \in Nat, NEW k \in 1 .. 4, Holds(bytes, at, <<k>>),
         NEW fouls, \A j \in DOMAIN fouls : fouls[j] # FoulOrder[k]
  PROVE  TakeFoul(Got(bytes, at, fouls)) = Got(bytes, at + 1, Append(fouls, FoulOrder[k]))
<1> DEFINE r == Got(bytes, at, fouls)
           g == With(<< >>, "foul", k)
           next == Got(bytes, at + 1, g)
<1>1. [r EXCEPT !.got = << >>] = Got(bytes, at, << >>)
  BY GotOther
<1>2. k \in Byte
  BY DEF Byte
<1>3. Take(Got(bytes, at, << >>), Field("foul", 1, 1 .. 4)) = next
  BY <1>2, TakeByte
<1>4. g.foul = k
  BY DEF With
<1>5. next.ok = TRUE /\ next.got = g /\ r.got = fouls
  BY DEF Got
<1> DEFINE l == Append(fouls, FoulOrder[k])
<1> HIDE DEF g, l
<1>6. [next EXCEPT !.got = l] = Got(bytes, at + 1, l)
  BY GotOther
<1> HIDE DEF next, r
<1>7. TakeFoul(r) = [next EXCEPT !.got = l]
  BY <1>1, <1>3, <1>4, <1>5 DEF TakeFoul, l
<1> QED
  BY <1>6, <1>7 DEF r, l

(* A loop takes one foul after the other.                                  *)
LEMMA TakeFoulsByStep ==
  ASSUME NEW r, NEW count \in Nat
  PROVE  \E u : /\ u[0] = r
                /\ \A i \in 1 .. count : u[i] = TakeFoul(u[i - 1])
                /\ TakeFouls(r, count) = u[count]
<1> DEFINE Step(u, n) == u = [i \in 0 .. n |-> IF i = 0 THEN r ELSE TakeFoul(u[i - 1])]
           T == {n \in Nat : \E u : Step(u, n)}
<1>1. 0 \in T
  <2> DEFINE g == [i \in 0 .. 0 |-> r]
  <2>1. Step(g, 0)
    OBVIOUS
  <2> QED
    BY <2>1
<1>2. ASSUME NEW n \in T
      PROVE  n + 1 \in T
  <2>1. PICK u : Step(u, n)
    OBVIOUS
  <2> DEFINE g == [i \in 0 .. n + 1 |-> IF i = n + 1 THEN TakeFoul(u[n]) ELSE u[i]]
  <2>2. n \in Nat
    OBVIOUS
  <2>3. ASSUME NEW i \in 0 .. n + 1
        PROVE  g[i] = IF i = 0 THEN r ELSE TakeFoul(g[i - 1])
    <3>1. CASE i = n + 1
      BY <2>2, <3>1
    <3>2. CASE i \in 0 .. n
      <4>1. u[i] = IF i = 0 THEN r ELSE TakeFoul(u[i - 1])
        BY <2>1, <3>2
      <4>2. g[i] = u[i] /\ (i # 0 => g[i - 1] = u[i - 1])
        BY <2>2, <3>2
      <4> QED
        BY <4>1, <4>2
    <3> QED
      BY <2>2, <3>1, <3>2
  <2>4. Step(g, n + 1)
    BY <2>2, <2>3
  <2>5. n + 1 \in Nat
    BY <2>2
  <2> HIDE DEF Step, g
  <2> QED
    BY <2>4, <2>5
<1>3. T = Nat
  <2> HIDE DEF T
  <2>1. T \subseteq Nat
    BY DEF T
  <2> QED
    BY <1>1, <1>2, <2>1, Upwards
<1>4. \E u : Step(u, count)
  BY <1>3
<1> DEFINE U == CHOOSE u : Step(u, count)
<1>5. Step(U, count)
  BY <1>4, Zenon
<1>6. TakeFouls(r, count) = U[count]
  BY DEF TakeFouls
<1> HIDE DEF U
<1>7. /\ U[0] = r
      /\ \A i \in 1 .. count : U[i] = TakeFoul(U[i - 1])
  BY <1>5
<1> QED
  BY <1>6, <1>7

(* Fouls that stand in front are read as the list they were.               *)
LEMMA FoulsRead ==
  ASSUME NEW fouls \in FoulLists, NEW bytes, NEW at, NEW rest \in Seq(Byte),
         Ends(bytes, at, FoulBytes(fouls) \o rest)
  PROVE  /\ TakeFouls(Got(bytes, at, << >>), Len(fouls)) = Got(bytes, at + Len(fouls), fouls)
         /\ Ends(bytes, at + Len(fouls), rest)
<1> DEFINE n == Len(fouls)
           b == FoulBytes(fouls)
           First(i) == SubSeq(fouls, 1, i)
<1>1. /\ n \in Nat /\ fouls \in Seq(FoulNames)
      /\ \A i, j \in 1 .. n : fouls[i] = fouls[j] => i = j
  BY DEF FoulLists
<1>2. /\ b \in Seq(Byte) /\ Len(b) = n
      /\ \A i \in 1 .. n : b[i] \in 1 .. 4 /\ FoulOrder[b[i]] = fouls[i]
  BY FoulNumbers
<1> HIDE DEF b
<1>3. Ends(bytes, at, b \o rest)
  BY DEF b
<1>4. Holds(bytes, at, b) /\ Ends(bytes, at + n, rest)
  BY <1>2, <1>3, FrontPart
<1>5. bytes \in Seq(Byte) /\ at \in Nat
  BY <1>3 DEF Ends
<1>6. PICK u : /\ u[0] = Got(bytes, at, << >>)
               /\ \A i \in 1 .. n : u[i] = TakeFoul(u[i - 1])
               /\ TakeFouls(Got(bytes, at, << >>), n) = u[n]
  BY <1>1, TakeFoulsByStep
<1> DEFINE Right(i) == i <= n => u[i] = Got(bytes, at + i, First(i))
           T == {i \in Nat : Right(i)}
<1>7. 0 \in T
  <2>1. First(0) = << >> /\ at + 0 = at
    BY <1>1, <1>5
  <2> QED
    BY <1>6, <2>1
<1>8. ASSUME NEW i \in T
      PROVE  i + 1 \in T
  <2>1. i \in Nat /\ i + 1 \in Nat
    OBVIOUS
  <2> SUFFICES ASSUME i + 1 <= n
               PROVE  u[i + 1] = Got(bytes, at + (i + 1), First(i + 1))
    BY <2>1
  <2> DEFINE k == b[i + 1]
             f == First(i)
  <2>2. u[i] = Got(bytes, at + i, f)
    BY <2>1, <1>1
  <2>3. i + 1 \in 1 .. n /\ (i + 1) - 1 = i
    BY <1>1, <2>1
  <2>4. u[i + 1] = TakeFoul(u[i])
    BY <1>6, <2>3
  <2>5. k \in 1 .. 4 /\ FoulOrder[k] = fouls[i + 1]
    BY <1>2, <2>3
  <2>6. /\ f \in Seq(FoulNames) /\ Len(f) = i /\ DOMAIN f = 1 .. i
        /\ \A j \in 1 .. i : f[j] = fouls[j]
    BY <1>1, <2>1
  <2>7. \A j \in DOMAIN f : f[j] # FoulOrder[k]
    BY <1>1, <2>1, <2>3, <2>5, <2>6
  <2>8. Holds(bytes, at + i, <<k>>)
    <3>1. at + n <= Len(bytes) /\ \A j \in 1 .. n : bytes[at + j] = b[j]
      BY <1>2, <1>4 DEF Holds
    <3>2. bytes[at + (i + 1)] = k
      BY <2>3, <3>1
    <3>3. (at + i) + 1 = at + (i + 1) /\ (at + i) + 1 <= Len(bytes)
      BY <1>1, <1>5, <2>1, <3>1
    <3> DEFINE x == <<k>>
    <3>4. Len(x) = 1 /\ x[1] = k
      OBVIOUS
    <3> HIDE DEF x, k
    <3>5. Holds(bytes, at + i, x)
      BY <3>2, <3>3, <3>4 DEF Holds
    <3> QED
      BY <3>5 DEF x
  <2>9. Append(f, FoulOrder[k]) = First(i + 1)
    <3> DEFINE l == Append(f, FoulOrder[k])
               r == First(i + 1)
    <3>1. FoulOrder[k] \in FoulNames
      BY <2>5 DEF FoulNames
    <3>2. l \in Seq(FoulNames) /\ Len(l) = i + 1 /\ l[i + 1] = FoulOrder[k] /\ \A j \in 1 .. i : l[j] = f[j]
      BY <2>1, <2>6, <3>1
    <3>3. r \in Seq(FoulNames) /\ Len(r) = i + 1 /\ \A j \in 1 .. i + 1 : r[j] = fouls[j]
      BY <1>1, <2>1, <2>3
    <3> HIDE DEF l, r, f, k
    <3>4. \A j \in 1 .. i + 1 : l[j] = r[j]
      BY <2>1, <2>5, <2>6, <3>2, <3>3
    <3>5. l = r
      BY <3>2, <3>3, <3>4
    <3> QED
      BY <3>5 DEF l, r
  <2>10. at + i \in Nat /\ (at + i) + 1 = at + (i + 1)
    BY <1>5, <2>1
  <2> HIDE DEF f, k, First
  <2>11. TakeFoul(Got(bytes, at + i, f)) = Got(bytes, (at + i) + 1, Append(f, FoulOrder[k]))
    BY <1>5, <2>5, <2>7, <2>8, <2>10, FoulTaken
  <2> QED
    BY <2>2, <2>4, <2>9, <2>10, <2>11
<1>9. T = Nat
  <2> HIDE DEF T
  <2>1. T \subseteq Nat
    BY DEF T
  <2> QED
    BY <1>7, <1>8, <2>1, Upwards
<1>10. u[n] = Got(bytes, at + n, First(n))
  BY <1>1, <1>9
<1>11. First(n) = fouls
  BY <1>1
<1> QED
  BY <1>4, <1>6, <1>10, <1>11

-----------------------------------------------------------------------------
(* Results as bytes.                                                       *)

(* What apply_command can return of a shot: the next player is named while *)
(* the match runs, and nobody has the cue ball in hand once it is over.    *)
ShotResults ==
  { res \in [ kind : {"shot"}, shooter : Player, fouls : FoulLists, assigned : Groups \cup {"None"},
              reracked : BOOLEAN, status : MatchStatuses, next : Player \cup {"None"}, inHand : BOOLEAN ] :
      /\ res.next = "None" <=> res.status # InProgress
      /\ res.status # InProgress => ~res.inHand }

Results ==
  ShotResults \cup [kind : {"placed"}] \cup [kind : {"timeout"}, active : Player]
    \cup [kind : {"conceded"}, outcome : Outcomes]

NextBytes(p) == IF p = "None" THEN <<0>> ELSE PlayerBytes(p)

LEMMA NextRoundTrip ==
  ASSUME NEW p \in Player \cup {"None"}
  PROVE  \E n \in 0 .. 2 : NextBytes(p) = <<n>> /\ (IF n = 0 THEN "None" ELSE PlayerAt(n)) = p /\ (n = 0 <=> p = "None")
<1>1. CASE p = "None"
  BY <1>1 DEF NextBytes
<1>2. CASE p # "None"
  <2>1. PICK n \in {1, 2} : PlayerBytes(p) = <<n>> /\ PlayerAt(n) = p
    BY <1>2, PlayerRoundTrip
  <2>2. NextBytes(p) = <<n>> /\ n \in 0 .. 2 /\ n # 0
    BY <1>2, <2>1 DEF NextBytes
  <2> QED
    BY <1>2, <2>1, <2>2
<1> QED
  BY <1>1, <1>2

(* The fields behind the fouls are those of the shot.                      *)
LEMMA ShotOfFields ==
  ASSUME NEW res \in ShotResults, NEW n, PlayerAt(n) = res.shooter,
         NEW got, SaysStatus(got, res.status), GroupNames[got.assigned + 1] = res.assigned,
         (got.reracked = 1) = res.reracked, (IF got.next = 0 THEN "None" ELSE PlayerAt(got.next)) = res.next,
         got.next = 0 <=> res.next = "None", got.inHand = IF res.inHand THEN 1 ELSE 0
  PROVE  ShotOf(n, res.fouls, got) = res
<1>1. res \in [ kind : {"shot"}, shooter : Player, fouls : FoulLists, assigned : Groups \cup {"None"},
                reracked : BOOLEAN, status : MatchStatuses, next : Player \cup {"None"}, inHand : BOOLEAN ]
  BY DEF ShotResults
<1>2. res = [ kind |-> "shot", shooter |-> res.shooter, fouls |-> res.fouls, assigned |-> res.assigned,
              reracked |-> res.reracked, status |-> res.status, next |-> res.next, inHand |-> res.inHand ]
  BY <1>1
<1>3. StatusOf(got) = res.status
  BY <1>1, SaidStatus
<1>4. got.status = IF res.status = InProgress THEN 0 ELSE 1
  BY DEF SaysStatus
<1>5. (res.next = "None" <=> res.status # InProgress) /\ (res.status # InProgress => ~res.inHand)
  BY DEF ShotResults
<1>6. ~((got.status = 1) # (got.next = 0)) /\ Consistent(got)
  BY <1>4, <1>5 DEF Consistent
<1>7. res.inHand \in BOOLEAN
  BY <1>1
<1>8. (got.inHand = 1) = res.inHand
  BY <1>7
<1>9. ShotOf(n, res.fouls, got)
        = [ kind |-> "shot", shooter |-> res.shooter, fouls |-> res.fouls, assigned |-> res.assigned,
            reracked |-> res.reracked, status |-> res.status, next |-> res.next, inHand |-> res.inHand ]
  BY <1>3, <1>6, <1>8 DEF ShotOf
<1> QED
  BY <1>2, <1>9

LEMMA BooleanRoundTrip ==
  ASSUME NEW b \in BOOLEAN
  PROVE  \E n \in {0, 1} : BooleanByte(b) = <<n>> /\ n = IF b THEN 1 ELSE 0
BY DEF BooleanByte

(* Two fields of a byte each.                                              *)
LEMMA FrontBytes ==
  ASSUME NEW bytes, NEW at, NEW m \in Byte, NEW n \in Byte, NEW rest \in Seq(Byte),
         Ends(bytes, at, <<m>> \o (<<n>> \o rest)),
         NEW got, NEW first, NEW second, NEW some, NEW others, m \in some, n \in others
  PROVE  /\ ReadAll(Got(bytes, at, got), << Field(first, 1, some), Field(second, 1, others) >>)
              = Got(bytes, at + 2, With(With(got, first, m), second, n))
         /\ Ends(bytes, at + 2, rest)
<1> DEFINE tail == <<n>> \o rest
           g == With(got, first, m)
<1>1. tail \in Seq(Byte) /\ Ends(bytes, at, <<m>> \o tail)
  OBVIOUS
<1> HIDE DEF tail, g
<1>2. Take(Got(bytes, at, got), Field(first, 1, some)) = Got(bytes, at + 1, g) /\ Ends(bytes, at + 1, tail)
  BY <1>1, FrontByte DEF g
<1>3. Ends(bytes, at + 1, <<n>> \o rest)
  BY <1>2 DEF tail
<1>4. /\ Take(Got(bytes, at + 1, g), Field(second, 1, others)) = Got(bytes, at + 1 + 1, With(g, second, n))
      /\ Ends(bytes, at + 1 + 1, rest)
  BY <1>3, FrontByte
<1>5. at \in Nat
  BY DEF Ends
<1>6. at + 1 + 1 = at + 2
  BY <1>5
<1>7. ReadAll(Got(bytes, at, got), << Field(first, 1, some), Field(second, 1, others) >>)
        = Got(bytes, at + 2, With(g, second, n))
  BY <1>2, <1>4, <1>6, ReadTwo
<1> QED
  BY <1>4, <1>6, <1>7 DEF g

(* What stands behind the fouls of a shot.                                 *)
ShotTail(res) ==
  GroupBytes(res.assigned) \o (BooleanByte(res.reracked) \o (StatusBytes(res.status)
    \o (NextBytes(res.next) \o (BooleanByte(res.inHand) \o << >>))))

LEMMA ShotTailRead ==
  ASSUME NEW res \in ShotResults, NEW n, PlayerAt(n) = res.shooter,
         NEW bytes, NEW at, Ends(bytes, at, ShotTail(res))
  PROVE  ShotAfter(n, Got(bytes, at, res.fouls)) = res
<1>1. /\ res.assigned \in Groups \cup {"None"} /\ res.reracked \in BOOLEAN /\ res.status \in MatchStatuses
      /\ res.next \in Player \cup {"None"} /\ res.inHand \in BOOLEAN
  BY DEF ShotResults
<1>2. PICK a \in 0 .. 2 : GroupBytes(res.assigned) = <<a>> /\ GroupNames[a + 1] = res.assigned
  BY <1>1, GroupRoundTrip
<1>3. PICK b \in {0, 1} : BooleanByte(res.reracked) = <<b>> /\ b = IF res.reracked THEN 1 ELSE 0
  BY <1>1, BooleanRoundTrip
<1>4. PICK m \in 0 .. 2 : /\ NextBytes(res.next) = <<m>> /\ (m = 0 <=> res.next = "None")
                          /\ (IF m = 0 THEN "None" ELSE PlayerAt(m)) = res.next
  BY <1>1, NextRoundTrip
<1>5. PICK h \in {0, 1} : BooleanByte(res.inHand) = <<h>> /\ h = IF res.inHand THEN 1 ELSE 0
  BY <1>1, BooleanRoundTrip
<1>6. a \in Byte /\ b \in Byte /\ m \in Byte /\ h \in Byte
  BY DEF Byte
<1> DEFINE empty == << >>
           last == <<m>> \o (<<h>> \o empty)
           tail == StatusBytes(res.status) \o last
<1>7. StatusBytes(res.status) \in Seq(Byte)
  BY <1>1, StatusBytesType
<1>8. empty \in Seq(Byte)
  OBVIOUS
<1>9. last \in Seq(Byte)
  BY <1>6
<1>10. ShotTail(res) = <<a>> \o (<<b>> \o tail)
  BY <1>2, <1>3, <1>4, <1>5 DEF ShotTail
<1> HIDE DEF last
<1>11. tail \in Seq(Byte)
  BY <1>7, <1>9
<1> DEFINE g == With(With(<< >>, "assigned", a), "reracked", b)
<1>12. g.assigned = a /\ g.reracked = b /\ {"assigned", "reracked"} \subseteq DOMAIN g
  BY DEF With
<1> HIDE DEF empty
<1>13. /\ ReadAll(Got(bytes, at, << >>), << Field("assigned", 1, 0 .. 2), Flag("reracked") >>) = Got(bytes, at + 2, g)
       /\ Ends(bytes, at + 2, tail)
  <2>1. Ends(bytes, at, <<a>> \o (<<b>> \o tail))
    BY <1>10
  <2> DEFINE groups == 0 .. 2
             bits == {0, 1}
  <2>2. a \in groups /\ b \in bits /\ Flag("reracked") = Field("reracked", 1, bits)
    BY DEF Flag
  <2> HIDE DEF tail, groups, bits
  <2>3. /\ ReadAll(Got(bytes, at, << >>), << Field("assigned", 1, groups), Field("reracked", 1, bits) >>)
             = Got(bytes, at + 2, g)
        /\ Ends(bytes, at + 2, tail)
    BY <2>1, <2>2, <1>6, <1>11, FrontBytes
  <2> QED
    BY <2>2, <2>3 DEF groups
<1> HIDE DEF g
<1>14. PICK j, later : /\ TakeStatus(Got(bytes, at + 2, g)) = Got(bytes, j, later)
                       /\ Ends(bytes, j, last) /\ SaysStatus(later, res.status) /\ Keeps(g, later)
  BY <1>1, <1>9, <1>13, TakesStatus
<1>15. later.assigned = a /\ later.reracked = b /\ {"assigned", "reracked"} \subseteq DOMAIN later
  BY <1>12, <1>14 DEF Keeps
<1> DEFINE k == With(later, "next", m)
           l == With(k, "inHand", h)
<1>16. /\ ReadAll(Got(bytes, j, later), << Field("next", 1, 0 .. 2), Flag("inHand") >>) = Got(bytes, j + 2, l)
       /\ Ends(bytes, j + 2, empty)
  <2>1. Ends(bytes, j, <<m>> \o (<<h>> \o empty))
    BY <1>14 DEF last
  <2> DEFINE players == 0 .. 2
             bits == {0, 1}
  <2>2. m \in players /\ h \in bits /\ Flag("inHand") = Field("inHand", 1, bits)
    BY DEF Flag
  <2> HIDE DEF players, bits
  <2>3. /\ ReadAll(Got(bytes, j, later), << Field("next", 1, players), Field("inHand", 1, bits) >>)
             = Got(bytes, j + 2, l)
        /\ Ends(bytes, j + 2, empty)
    BY <2>1, <2>2, <1>6, <1>8, FrontBytes
  <2> QED
    BY <2>2, <2>3 DEF players
<1>17. k.next = m /\ k.assigned = a /\ k.reracked = b /\ {"assigned", "reracked", "next"} \subseteq DOMAIN k
  BY <1>15 DEF With
<1>18. SaysStatus(k, res.status)
  BY <1>14, SaysStill
<1> HIDE DEF k
<1>19. l.next = m /\ l.assigned = a /\ l.reracked = b /\ l.inHand = h
  BY <1>17 DEF With
<1>20. SaysStatus(l, res.status)
  BY <1>18, SaysStill
<1> HIDE DEF l
<1>21. ShotOf(n, res.fouls, l) = res
  <2>1. (l.reracked = 1) = res.reracked
    BY <1>1, <1>3, <1>19
  <2> QED
    BY <1>2, <1>4, <1>5, <1>19, <1>20, <2>1, ShotOfFields
<1>22. Finished(Got(bytes, j + 2, l))
  BY <1>16, FinishedAtTheEnd DEF empty
<1> DEFINE r == Got(bytes, at, res.fouls)
<1>23. r.got = res.fouls
  BY DEF Got
<1>24. [r EXCEPT !.got = << >>] = Got(bytes, at, << >>)
  BY GotOther
<1>25. Got(bytes, j + 2, l).got = l
  BY DEF Got
<1> HIDE DEF r
<1>26. ShotAfter(n, r) = res
  BY <1>13, <1>14, <1>16, <1>21, <1>22, <1>23, <1>24, <1>25 DEF ShotAfter
<1> QED
  BY <1>26 DEF r

ShotPayload(res) ==
  <<1>> \o (PlayerBytes(res.shooter) \o (<<Len(res.fouls)>> \o (FoulBytes(res.fouls) \o ShotTail(res))))

(* The parts of a result are bytes.                                        *)
LEMMA ShotTailType ==
  ASSUME NEW res \in ShotResults
  PROVE  /\ GroupBytes(res.assigned) \in Seq(Byte) /\ BooleanByte(res.reracked) \in Seq(Byte)
         /\ StatusBytes(res.status) \in Seq(Byte) /\ NextBytes(res.next) \in Seq(Byte)
         /\ BooleanByte(res.inHand) \in Seq(Byte) /\ ShotTail(res) \in Seq(Byte)
<1>1. /\ res.assigned \in Groups \cup {"None"} /\ res.reracked \in BOOLEAN /\ res.status \in MatchStatuses
      /\ res.next \in Player \cup {"None"} /\ res.inHand \in BOOLEAN
  BY DEF ShotResults
<1> DEFINE g == GroupBytes(res.assigned)
           b == BooleanByte(res.reracked)
           s == StatusBytes(res.status)
           n == NextBytes(res.next)
           h == BooleanByte(res.inHand)
<1>2. g \in Seq(Byte)
  <2>1. PICK a \in 0 .. 2 : g = <<a>>
    BY <1>1, GroupRoundTrip
  <2>2. a \in Byte
    BY DEF Byte
  <2> QED
    BY <2>1, <2>2
<1>3. b \in Seq(Byte) /\ h \in Seq(Byte)
  BY <1>1 DEF BooleanByte, Byte
<1>4. s \in Seq(Byte)
  BY <1>1, StatusBytesType
<1>5. n \in Seq(Byte)
  <2>1. PICK m \in 0 .. 2 : n = <<m>>
    BY <1>1, NextRoundTrip
  <2>2. m \in Byte
    BY DEF Byte
  <2> QED
    BY <2>1, <2>2
<1>6. ShotTail(res) = g \o (b \o (s \o (n \o (h \o << >>))))
  BY DEF ShotTail
<1> HIDE DEF g, b, s, n, h
<1>7. ShotTail(res) \in Seq(Byte)
  BY <1>2, <1>3, <1>4, <1>5, <1>6
<1> QED
  BY <1>2, <1>3, <1>4, <1>5, <1>7 DEF g, b, s, n, h

LEMMA PlayerBytesType ==
  ASSUME NEW p \in Player
  PROVE  PlayerBytes(p) \in Seq(Byte)
<1>1. PICK n \in {1, 2} : PlayerBytes(p) = <<n>>
  BY PlayerRoundTrip
<1>2. n \in Byte
  BY DEF Byte
<1> QED
  BY <1>1, <1>2

LEMMA FoulCount ==
  ASSUME NEW fouls \in FoulLists
  PROVE  Len(fouls) \in 0 .. 4 /\ Len(fouls) \in Byte
<1> DEFINE n == Len(fouls)
<1>1. n \in Nat /\ n <= 4
  BY DEF FoulLists
<1> HIDE DEF n
<1>2. n \in 0 .. 4 /\ n \in Byte
  BY <1>1 DEF Byte
<1> QED
  BY <1>2 DEF n

(* A shot that stands behind its kind is read as the shot it was.          *)
LEMMA ShotResultRead ==
  ASSUME NEW res \in ShotResults, NEW bytes, NEW at, NEW got,
         Ends(bytes, at, PlayerBytes(res.shooter) \o (<<Len(res.fouls)>> \o (FoulBytes(res.fouls) \o ShotTail(res))))
  PROVE  ShotFrom(Got(bytes, at, got)) = res
<1> DEFINE c == Len(res.fouls)
           f == FoulBytes(res.fouls)
           t == ShotTail(res)
           rest == f \o t
<1>1. res.shooter \in Player /\ res.fouls \in FoulLists
  BY DEF ShotResults
<1>2. PICK n \in {1, 2} : PlayerBytes(res.shooter) = <<n>> /\ PlayerAt(n) = res.shooter
  BY <1>1, PlayerRoundTrip
<1>3. c \in 0 .. 4
  BY <1>1, FoulCount
<1>4. f \in Seq(Byte) /\ t \in Seq(Byte)
  BY <1>1, FoulNumbers, ShotTailType
<1>5. n \in Byte /\ c \in Byte
  BY <1>3 DEF Byte
<1>6. Ends(bytes, at, <<n>> \o (<<c>> \o rest))
  BY <1>2
<1> DEFINE g == With(With(got, "shooter", n), "count", c)
           players == {1, 2}
           counts == 0 .. 4
<1>7. n \in players /\ c \in counts
  BY <1>3
<1>8. g.shooter = n /\ g.count = c
  BY DEF With
<1> HIDE DEF c, f, t
<1>9. rest \in Seq(Byte)
  BY <1>4
<1> HIDE DEF rest, g, players, counts
<1>10. /\ ReadAll(Got(bytes, at, got), << Field("shooter", 1, players), Field("count", 1, counts) >>)
             = Got(bytes, at + 2, g)
       /\ Ends(bytes, at + 2, rest)
  BY <1>5, <1>6, <1>7, <1>9, FrontBytes DEF g
<1>11. /\ TakeFouls(Got(bytes, at + 2, << >>), c) = Got(bytes, at + 2 + c, res.fouls)
       /\ Ends(bytes, at + 2 + c, t)
  <2>1. Ends(bytes, at + 2, FoulBytes(res.fouls) \o t)
    BY <1>10 DEF rest, f
  <2> QED
    BY <1>1, <1>4, <2>1, FoulsRead DEF c
<1>12. ShotAfter(n, Got(bytes, at + 2 + c, res.fouls)) = res
  <2>1. Ends(bytes, at + 2 + c, ShotTail(res))
    BY <1>11 DEF t
  <2> QED
    BY <1>2, <2>1, ShotTailRead
<1> DEFINE head == Got(bytes, at + 2, g)
<1>13. head.ok = TRUE /\ head.got = g
  BY DEF Got
<1>14. [head EXCEPT !.got = << >>] = Got(bytes, at + 2, << >>)
  BY GotOther
<1>15. ReadAll(Got(bytes, at, got), << Field("shooter", 1, {1, 2}), Field("count", 1, 0 .. 4) >>) = head
  BY <1>10 DEF players, counts
<1> HIDE DEF head
<1>16. ShotFrom(Got(bytes, at, got)) = ShotAfter(n, TakeFouls([head EXCEPT !.got = << >>], c))
  BY <1>8, <1>13, <1>15 DEF ShotFrom
<1>17. TakeFouls([head EXCEPT !.got = << >>], c) = Got(bytes, at + 2 + c, res.fouls)
  BY <1>14, <1>11
<1> QED
  BY <1>12, <1>16, <1>17

(* The bytes of a result begin with a version and a kind.                  *)
LEMMA FrontVersion ==
  ASSUME NEW bytes, NEW at, NEW rest \in Seq(Byte), Ends(bytes, at, Be(2, 1) \o rest), NEW got
  PROVE  /\ Take(Got(bytes, at, got), Field("version", 2, {1})) = Got(bytes, at + 2, With(got, "version", 1))
         /\ Ends(bytes, at + 2, rest)
<1> DEFINE v == Be(2, 1)
<1>1. v \in Seq(Byte) /\ Len(v) = 2
  <2>1. v \in Word(2)
    BY BeType
  <2> QED
    BY <2>1, WordLength
<1>2. Ends(bytes, at, v \o rest)
  OBVIOUS
<1>3. bytes \in Seq(Byte) /\ at \in Nat
  BY DEF Ends
<1> HIDE DEF v
<1>4. Holds(bytes, at, v) /\ Ends(bytes, at + Len(v), rest)
  BY <1>1, <1>2, FrontPart
<1> DEFINE versions == {1}
<1>5. Sixteen(1) = 1 /\ Sixteen(1) \in versions
  BY SixteenBits
<1> HIDE DEF versions
<1>6. Holds(bytes, at, Be(2, 1))
  BY <1>4 DEF v
<1>7. Take(Got(bytes, at, got), Field("version", 2, versions)) = Got(bytes, at + 2, With(got, "version", Sixteen(1)))
  BY <1>3, <1>5, <1>6, TakeNumber
<1> QED
  BY <1>1, <1>4, <1>5, <1>7 DEF versions

HasKind(r, bytes, kind, rest) ==
  \E j, g : /\ ReadAll(r, << Field("version", 2, {1}), Field("kind", 1, 1 .. 4) >>) = Got(bytes, j, g)
            /\ g.kind = kind /\ Ends(bytes, j, rest)

LEMMA HeaderFront ==
  ASSUME NEW kind \in 1 .. 4, NEW rest \in Seq(Byte), NEW bytes, NEW at, NEW got,
         Ends(bytes, at, Be(2, 1) \o (<<kind>> \o rest))
  PROVE  HasKind(Got(bytes, at, got), bytes, kind, rest)
<1> DEFINE tail == <<kind>> \o rest
           g == With(got, "version", 1)
           h == With(g, "kind", kind)
           kinds == 1 .. 4
           j == at + 2
<1>1. kind \in Byte /\ kind \in kinds
  BY DEF Byte
<1>2. tail \in Seq(Byte)
  BY <1>1
<1>3. Ends(bytes, at, Be(2, 1) \o tail)
  OBVIOUS
<1>4. h.kind = kind
  BY DEF With
<1> HIDE DEF tail
<1>5. Take(Got(bytes, at, got), Field("version", 2, {1})) = Got(bytes, j, g) /\ Ends(bytes, j, tail)
  BY <1>2, <1>3, FrontVersion
<1> HIDE DEF g, h, kinds, j
<1>6. Take(Got(bytes, j, g), Field("kind", 1, kinds)) = Got(bytes, j + 1, h) /\ Ends(bytes, j + 1, rest)
  <2>1. Ends(bytes, j, <<kind>> \o rest)
    BY <1>5 DEF tail
  <2>2. /\ Take(Got(bytes, j, g), Field("kind", 1, kinds)) = Got(bytes, j + 1, With(g, "kind", kind))
        /\ Ends(bytes, j + 1, rest)
    BY <1>1, <2>1, FrontByte
  <2> QED
    BY <2>2 DEF h
<1>7. ReadAll(Got(bytes, at, got), << Field("version", 2, {1}), Field("kind", 1, kinds) >>) = Got(bytes, j + 1, h)
  BY <1>5, <1>6, ReadTwo
<1> QED
  BY <1>4, <1>6, <1>7 DEF kinds, HasKind

Headed(bytes, kind, rest) == kind \in 1 .. 4 /\ rest \in Seq(Byte) /\ bytes = Be(2, 1) \o (<<kind>> \o rest)

LEMMA HeaderRead ==
  ASSUME NEW kind, NEW rest, NEW bytes, Headed(bytes, kind, rest)
  PROVE  HasKind(Reader(bytes), bytes, kind, rest)
<1> USE DEF Headed
<1> DEFINE v == Be(2, 1)
           tail == <<kind>> \o rest
           w == v \o tail
<1>1. v \in Seq(Byte)
  <2>1. v \in Word(2)
    BY BeType
  <2> QED
    BY <2>1, WordLength
<1>2. tail \in Seq(Byte)
  <2>1. kind \in Byte
    BY DEF Byte
  <2> QED
    BY <2>1
<1> HIDE DEF v, tail
<1>3. w \in Seq(Byte)
  BY <1>1, <1>2
<1> HIDE DEF w
<1>4. Holds(w, 0, w)
  BY <1>3, HoldsAll
<1>5. Ends(w, 0, w)
  BY <1>3, <1>4 DEF Ends
<1> DEFINE start == 0
           none == << >>
<1>6. Ends(bytes, start, Be(2, 1) \o (<<kind>> \o rest)) /\ Reader(bytes) = Got(bytes, start, none)
  BY <1>5 DEF w, v, tail, Reader, Got
<1> HIDE DEF start, none
<1>7. HasKind(Got(bytes, start, none), bytes, kind, rest)
  <2>1. kind \in 1 .. 4 /\ rest \in Seq(Byte)
    OBVIOUS
  <2> HIDE DEF Headed
  <2> QED
    BY <1>6, <2>1, HeaderFront
<1> QED
  BY <1>6, <1>7

(* The bytes of a shot, its parts from the front.                          *)
LEMMA ShotResultParts ==
  ASSUME NEW res \in ShotResults
  PROVE  ResultBytes(res) = Be(2, 1) \o ShotPayload(res) /\ FoulBytes(res.fouls) \in Seq(Byte)
<1> DEFINE o == <<1>>
           p == PlayerBytes(res.shooter)
           c == <<Len(res.fouls)>>
           f == FoulBytes(res.fouls)
           g == GroupBytes(res.assigned)
           b == BooleanByte(res.reracked)
           s == StatusBytes(res.status)
           n == NextBytes(res.next)
           h == BooleanByte(res.inHand)
           l == ((o \o p) \o c) \o f
<1>1. res.kind = "shot" /\ res.shooter \in Player /\ res.fouls \in FoulLists
  BY DEF ShotResults
<1>2. ResultBytes(res) = Be(2, 1) \o (((((l \o g) \o b) \o s) \o n) \o h)
  BY <1>1 DEF ResultBytes, FoulBytes, NextBytes
<1>3. ShotTail(res) = g \o (b \o (s \o (n \o (h \o << >>)))) /\ ShotTail(res) \in Seq(Byte)
  BY ShotTailType DEF ShotTail
<1>4. ShotPayload(res) = o \o (p \o (c \o (f \o ShotTail(res))))
  BY DEF ShotPayload
<1>5. g \in Seq(Byte) /\ b \in Seq(Byte) /\ s \in Seq(Byte) /\ n \in Seq(Byte) /\ h \in Seq(Byte)
  BY ShotTailType
<1>6. o \in Seq(Byte) /\ c \in Seq(Byte)
  <2>1. Len(res.fouls) \in Byte /\ 1 \in Byte
    BY <1>1, FoulCount DEF Byte
  <2> QED
    BY <2>1
<1>7. p \in Seq(Byte)
  BY <1>1, PlayerBytesType
<1>8. f \in Seq(Byte)
  BY <1>1, FoulNumbers
<1> HIDE DEF o, p, c, f, g, b, s, n, h
<1>9. l \in Seq(Byte)
  BY <1>6, <1>7, <1>8
<1> DEFINE t == ShotTail(res)
<1>10. t \in Seq(Byte)
  BY <1>3
<1> HIDE DEF l, t
<1>11. /\ Payload(o) /\ Payload(p) /\ Payload(c) /\ Payload(f) /\ Payload(g) /\ Payload(b) /\ Payload(s)
       /\ Payload(n) /\ Payload(h) /\ Payload(l) /\ Payload(t)
  BY <1>5, <1>6, <1>7, <1>8, <1>9, <1>10 DEF Payload
<1>12. l \o t = o \o (p \o (c \o (f \o t)))
  <2>1. ThreeInFront(o, p, c, f, t)
    BY <1>11, NestedThree
  <2> QED
    BY <2>1 DEF ThreeInFront, l
<1>13. ((((l \o g) \o b) \o s) \o n) \o h = l \o t
  <2>1. FiveBehind(l, g, b, s, n, h)
    BY <1>11, NestedFive
  <2> QED
    BY <1>3, <2>1 DEF FiveBehind, t
<1>14. ResultBytes(res) = Be(2, 1) \o (l \o t)
  BY <1>2, <1>13
<1>15. ShotPayload(res) = l \o t
  BY <1>4, <1>12 DEF t
<1>16. f \in Seq(Byte)
  BY <1>8
<1> QED
  BY <1>14, <1>15, <1>16 DEF f

(* What is left behind the kind of a result.                               *)
LEMMA ResultOfShot ==
  ASSUME NEW res \in ShotResults
  PROVE  ResultFrom(ResultBytes(res)) = res
<1> DEFINE bytes == ResultBytes(res)
           rest  == PlayerBytes(res.shooter) \o (<<Len(res.fouls)>> \o (FoulBytes(res.fouls) \o ShotTail(res)))
<1>1. bytes = Be(2, 1) \o (<<1>> \o rest)
  BY ShotResultParts DEF ShotPayload
<1>2. rest \in Seq(Byte)
  <2> DEFINE p == PlayerBytes(res.shooter)
             c == <<Len(res.fouls)>>
             f == FoulBytes(res.fouls)
             t == ShotTail(res)
  <2>1. res.shooter \in Player /\ res.fouls \in FoulLists
    BY DEF ShotResults
  <2>2. p \in Seq(Byte)
    BY <2>1, PlayerBytesType
  <2>3. c \in Seq(Byte)
    BY <2>1, FoulCount
  <2>4. f \in Seq(Byte) /\ t \in Seq(Byte)
    BY <2>1, FoulNumbers, ShotTailType
  <2> HIDE DEF p, c, f, t
  <2>5. p \o (c \o (f \o t)) \in Seq(Byte)
    BY <2>2, <2>3, <2>4
  <2> QED
    BY <2>5 DEF p, c, f, t
<1> HIDE DEF bytes
<1> HIDE DEF rest
<1>3. HasKind(Reader(bytes), bytes, 1, rest)
  <2>1. Headed(bytes, 1, rest)
    BY <1>1, <1>2 DEF Headed
  <2> QED
    BY <2>1, HeaderRead
<1>4. PICK j, g : /\ ReadAll(Reader(bytes), << Field("version", 2, {1}), Field("kind", 1, 1 .. 4) >>) = Got(bytes, j, g)
                  /\ g.kind = 1 /\ Ends(bytes, j, rest)
  BY <1>3 DEF HasKind
<1> DEFINE r == Got(bytes, j, g)
<1>5. r.ok = TRUE /\ r.got = g
  BY DEF Got
<1>6. ShotFrom(r) = res
  BY <1>4, ShotResultRead DEF rest
<1> HIDE DEF r
<1>7. ReadAll(Reader(bytes), << Field("version", 2, {1}), Field("kind", 1, 1 .. 4) >>) = r
  BY <1>4 DEF r
<1>8. ResultFrom(bytes) = ResultOf(r)
  BY <1>7 DEF ResultFrom
<1>9. ResultOf(r) = ShotFrom(r)
  BY <1>4, <1>5 DEF ResultOf
<1> QED
  BY <1>6, <1>8, <1>9 DEF bytes

LEMMA ResultOfTimeout ==
  ASSUME NEW res \in [kind : {"timeout"}, active : Player]
  PROVE  ResultFrom(ResultBytes(res)) = res
<1> DEFINE bytes == ResultBytes(res)
           rest  == PlayerBytes(res.active)
<1>1. res.kind = "timeout" /\ res.active \in Player /\ res = [kind |-> "timeout", active |-> res.active]
  OBVIOUS
<1>2. bytes = Be(2, 1) \o (<<2>> \o rest)
  BY <1>1 DEF ResultBytes
<1>3. rest \in Seq(Byte)
  BY <1>1, PlayerBytesType
<1>4. PICK n \in {1, 2} : rest = <<n>> /\ PlayerAt(n) = res.active
  BY <1>1, PlayerRoundTrip
<1> DEFINE empty == << >>
<1>5. n \in Byte /\ rest = <<n>> \o empty /\ empty \in Seq(Byte)
  BY <1>4 DEF Byte
<1> HIDE DEF bytes, rest, empty
<1>6. HasKind(Reader(bytes), bytes, 2, rest)
  <2>1. Headed(bytes, 2, rest)
    BY <1>2, <1>3 DEF Headed
  <2> QED
    BY <2>1, HeaderRead
<1>7. PICK j, g : /\ ReadAll(Reader(bytes), << Field("version", 2, {1}), Field("kind", 1, 1 .. 4) >>) = Got(bytes, j, g)
                  /\ g.kind = 2 /\ Ends(bytes, j, rest)
  BY <1>6 DEF HasKind
<1> DEFINE r == Got(bytes, j, g)
           players == {1, 2}
           last == Got(bytes, j + 1, With(g, "active", n))
<1>8. r.ok = TRUE /\ r.got = g
  BY DEF Got
<1>9. n \in players
  OBVIOUS
<1> HIDE DEF players
<1>10. Take(r, Field("active", 1, players)) = last /\ Ends(bytes, j + 1, empty)
  <2>1. Ends(bytes, j, <<n>> \o empty)
    BY <1>5, <1>7
  <2> QED
    BY <2>1, <1>5, <1>9, FrontByte
<1>11. Finished(last)
  BY <1>10, FinishedAtTheEnd DEF empty
<1>12. last.got.active = n
  BY DEF Got, With
<1> HIDE DEF last, r
<1>13. TimeoutFrom(last) = res
  BY <1>1, <1>4, <1>11, <1>12 DEF TimeoutFrom
<1>14. ReadAll(Reader(bytes), << Field("version", 2, {1}), Field("kind", 1, 1 .. 4) >>) = r
  BY <1>7 DEF r
<1>15. ResultFrom(bytes) = ResultOf(r)
  BY <1>14 DEF ResultFrom
<1>16. ResultOf(r) = TimeoutFrom(Take(r, Field("active", 1, players)))
  BY <1>7, <1>8 DEF ResultOf, players
<1> QED
  BY <1>10, <1>13, <1>15, <1>16 DEF bytes

LEMMA ResultOfConcession ==
  ASSUME NEW res \in [kind : {"conceded"}, outcome : Outcomes]
  PROVE  ResultFrom(ResultBytes(res)) = res
<1> DEFINE bytes == ResultBytes(res)
           rest  == StatusBytes(res.outcome)
<1>1. /\ res.kind = "conceded" /\ res.outcome \in MatchStatuses /\ res.outcome # InProgress
      /\ res = [kind |-> "conceded", outcome |-> res.outcome]
  BY StatusAssumption DEF MatchStatuses, StatusAssumption
<1>2. bytes = Be(2, 1) \o (<<3>> \o rest)
  BY <1>1 DEF ResultBytes
<1>3. rest \in Seq(Byte)
  BY <1>1, StatusBytesType
<1> DEFINE empty == << >>
<1> HIDE DEF bytes, rest
<1>4. rest = rest \o empty /\ empty \in Seq(Byte)
  BY <1>3
<1> HIDE DEF empty
<1>5. HasKind(Reader(bytes), bytes, 3, rest)
  <2>1. Headed(bytes, 3, rest)
    BY <1>2, <1>3 DEF Headed
  <2> QED
    BY <2>1, HeaderRead
<1>6. PICK j, g : /\ ReadAll(Reader(bytes), << Field("version", 2, {1}), Field("kind", 1, 1 .. 4) >>) = Got(bytes, j, g)
                  /\ g.kind = 3 /\ Ends(bytes, j, rest)
  BY <1>5 DEF HasKind
<1> DEFINE r == Got(bytes, j, g)
<1>7. r.ok = TRUE /\ r.got = g
  BY DEF Got
<1>8. PICK k, later : /\ TakeStatus(r) = Got(bytes, k, later)
                      /\ Ends(bytes, k, empty) /\ SaysStatus(later, res.outcome)
  <2>1. Ends(bytes, j, StatusBytes(res.outcome) \o empty)
    BY <1>4, <1>6 DEF rest
  <2> DEFINE st == res.outcome
  <2>2. st \in MatchStatuses
    BY <1>1
  <2>3. empty \in Seq(Byte)
    BY <1>4
  <2>4. Ends(bytes, j, StatusBytes(st) \o empty)
    BY <2>1
  <2> HIDE DEF st
  <2>5. \E k, later : /\ TakeStatus(Got(bytes, j, g)) = Got(bytes, k, later)
                      /\ Ends(bytes, k, empty) /\ SaysStatus(later, st) /\ Keeps(g, later)
    BY <2>2, <2>3, <2>4, TakesStatus
  <2> QED
    BY <2>5 DEF st
<1> DEFINE last == Got(bytes, k, later)
<1>9. Finished(last)
  BY <1>8, FinishedAtTheEnd DEF empty
<1>10. StatusOf(later) = res.outcome
  BY <1>1, <1>8, SaidStatus
<1>11. later.status = 1 /\ last.got = later
  BY <1>1, <1>8 DEF SaysStatus, Got
<1> HIDE DEF last, r
<1>12. ConcessionFrom(last) = res
  BY <1>1, <1>9, <1>10, <1>11 DEF ConcessionFrom
<1>13. ReadAll(Reader(bytes), << Field("version", 2, {1}), Field("kind", 1, 1 .. 4) >>) = r
  BY <1>6 DEF r
<1>14. ResultFrom(bytes) = ResultOf(r)
  BY <1>13 DEF ResultFrom
<1>15. ResultOf(r) = ConcessionFrom(TakeStatus(r))
  BY <1>6, <1>7 DEF ResultOf
<1>16. TakeStatus(r) = last
  BY <1>8 DEF last, r
<1> QED
  BY <1>12, <1>14, <1>15, <1>16 DEF bytes

LEMMA ResultOfPlacement ==
  ASSUME NEW res \in [kind : {"placed"}]
  PROVE  ResultFrom(ResultBytes(res)) = res
<1> DEFINE bytes == ResultBytes(res)
           rest  == << >>
<1>1. res.kind = "placed" /\ res = [kind |-> "placed"]
  OBVIOUS
<1>2. bytes = Be(2, 1) \o (<<4>> \o rest)
  BY <1>1 DEF ResultBytes
<1>3. rest \in Seq(Byte)
  OBVIOUS
<1> HIDE DEF bytes, rest
<1>4. HasKind(Reader(bytes), bytes, 4, rest)
  <2>1. Headed(bytes, 4, rest)
    BY <1>2, <1>3 DEF Headed
  <2> QED
    BY <2>1, HeaderRead
<1>5. PICK j, g : /\ ReadAll(Reader(bytes), << Field("version", 2, {1}), Field("kind", 1, 1 .. 4) >>) = Got(bytes, j, g)
                  /\ g.kind = 4 /\ Ends(bytes, j, rest)
  BY <1>4 DEF HasKind
<1> DEFINE r == Got(bytes, j, g)
<1>6. r.ok = TRUE /\ r.got = g
  BY DEF Got
<1>7. Finished(r)
  BY <1>5, FinishedAtTheEnd DEF rest
<1> HIDE DEF r
<1>8. ReadAll(Reader(bytes), << Field("version", 2, {1}), Field("kind", 1, 1 .. 4) >>) = r
  BY <1>5 DEF r
<1>9. ResultFrom(bytes) = ResultOf(r)
  BY <1>8 DEF ResultFrom
<1>10. ResultOf(r) = res
  BY <1>1, <1>5, <1>6, <1>7 DEF ResultOf
<1> QED
  BY <1>9, <1>10 DEF bytes

(* Every result that apply_command can return is read back as it was       *)
(* written: the journal hands a lost answer out again as it was given, and *)
(* no accepted command leaves a row the next server cannot read.           *)
THEOREM ResultsRoundTrip ==
  ASSUME NEW res \in Results
  PROVE  ResultFrom(ResultBytes(res)) = res
BY ResultOfShot, ResultOfTimeout, ResultOfConcession, ResultOfPlacement DEF Results

-----------------------------------------------------------------------------
(* What play_shot, place_cue_ball, timeout_turn and concede record.        *)

(* Fouls that are among the first of the order.                            *)
FirstFouls(fouls, k) ==
  /\ fouls \in Seq(FoulNames) /\ Len(fouls) <= k
  /\ \A i \in 1 .. Len(fouls) : \E j \in 1 .. k : fouls[i] = FoulOrder[j]
  /\ \A i, j \in 1 .. Len(fouls) : fouls[i] = fouls[j] => i = j

LEMMA NextFoul ==
  ASSUME NEW fouls, NEW k \in 0 .. 3, FirstFouls(fouls, k), NEW more,
         more = << >> \/ more = <<FoulOrder[k + 1]>>
  PROVE  FirstFouls(fouls \o more, k + 1)
<1> DEFINE n == Len(fouls)
<1>1. /\ fouls \in Seq(FoulNames) /\ n \in Nat /\ n <= k
      /\ \A i \in 1 .. n : \E j \in 1 .. k : fouls[i] = FoulOrder[j]
      /\ \A i, j \in 1 .. n : fouls[i] = fouls[j] => i = j
  BY DEF FirstFouls
<1>2. CASE more = << >>
  <2>1. fouls \o more = fouls
    BY <1>1, <1>2
  <2>2. \A i \in 1 .. n : \E j \in 1 .. k + 1 : fouls[i] = FoulOrder[j]
    BY <1>1
  <2> QED
    BY <1>1, <2>1, <2>2 DEF FirstFouls
<1>3. CASE more = <<FoulOrder[k + 1]>>
  <2> DEFINE foul == FoulOrder[k + 1]
             all  == Append(fouls, foul)
  <2>1. \A j \in 1 .. k : FoulOrder[j] # foul
    BY DEF FoulOrder
  <2>2. foul \in FoulNames /\ k + 1 \in 1 .. k + 1
    BY DEF FoulNames
  <2>3. fouls \o more = all
    BY <1>1, <1>3, <2>2
  <2>4. \E j \in 1 .. k + 1 : foul = FoulOrder[j]
    BY <2>2
  <2> HIDE DEF foul
  <2>5. all \in Seq(FoulNames) /\ Len(all) = n + 1
    BY <1>1, <2>2
  <2>6. all[n + 1] = foul /\ \A i \in 1 .. n : all[i] = fouls[i]
    BY <1>1, <2>2
  <2> HIDE DEF all, n
  <2>7. \A i \in 1 .. n : fouls[i] # foul
    BY <1>1, <2>1
  <2>8. ASSUME NEW i \in 1 .. n + 1
        PROVE  \E j \in 1 .. k + 1 : all[i] = FoulOrder[j]
    <3>1. CASE i = n + 1
      BY <3>1, <2>4, <2>6
    <3>2. CASE i \in 1 .. n
      <4>1. PICK j \in 1 .. k : fouls[i] = FoulOrder[j]
        BY <3>2, <1>1
      <4> QED
        BY <3>2, <4>1, <2>6
    <3> QED
      BY <3>1, <3>2, <1>1
  <2>9. ASSUME NEW i \in 1 .. n + 1, NEW j \in 1 .. n + 1, all[i] = all[j]
        PROVE  i = j
    <3>1. CASE i \in 1 .. n /\ j \in 1 .. n
      BY <3>1, <2>6, <2>9, <1>1
    <3>2. CASE i \in 1 .. n /\ j = n + 1
      BY <3>2, <2>6, <2>7, <2>9
    <3>3. CASE i = n + 1 /\ j \in 1 .. n
      BY <3>3, <2>6, <2>7, <2>9
    <3> QED
      BY <3>1, <3>2, <3>3, <1>1
  <2>10. FirstFouls(all, k + 1)
    BY <1>1, <2>5, <2>8, <2>9 DEF FirstFouls
  <2> QED
    BY <2>3, <2>10
<1> QED
  BY <1>2, <1>3

(* The fouls of a shot, each at most once.                                 *)
LEMMA FoulsListed ==
  ASSUME NEW s
  PROVE  Fouls(s) \in FoulLists
<1> DEFINE a == IF Scratch(s) THEN <<"Scratch">> ELSE << >>
           b == IF NoObjectContact(s) THEN <<"NoObjectContact">> ELSE << >>
           c == IF WrongFirstContact(s) THEN <<"WrongFirstContact">> ELSE << >>
           d == IF NoRailAfterContact(s) THEN <<"NoRailAfterContact">> ELSE << >>
           none == << >>
<1>1. Fouls(s) = ((a \o b) \o c) \o d
  BY DEF Fouls
<1>2. /\ a = << >> \/ a = <<FoulOrder[0 + 1]>>
      /\ b = << >> \/ b = <<FoulOrder[1 + 1]>>
      /\ c = << >> \/ c = <<FoulOrder[2 + 1]>>
      /\ d = << >> \/ d = <<FoulOrder[3 + 1]>>
  BY DEF FoulOrder
<1>3. FirstFouls(none, 0)
  BY DEF FirstFouls
<1> HIDE DEF a, b, c, d, none
<1>4. FirstFouls(none \o a, 1)
  <2>1. FirstFouls(none \o a, 0 + 1)
    BY <1>2, <1>3, NextFoul
  <2> QED
    BY <2>1
<1>5. none \o a = a
  BY <1>2 DEF none
<1>6. FirstFouls(a, 1)
  BY <1>4, <1>5
<1>7. FirstFouls(a \o b, 2)
  <2>1. FirstFouls(a \o b, 1 + 1)
    BY <1>2, <1>6, NextFoul
  <2> QED
    BY <2>1
<1>8. FirstFouls((a \o b) \o c, 3)
  <2>1. FirstFouls((a \o b) \o c, 2 + 1)
    BY <1>2, <1>7, NextFoul
  <2> QED
    BY <2>1
<1>9. FirstFouls(((a \o b) \o c) \o d, 4)
  <2>1. FirstFouls(((a \o b) \o c) \o d, 3 + 1)
    BY <1>2, <1>8, NextFoul
  <2> QED
    BY <2>1
<1> QED
  BY <1>1, <1>9 DEF FirstFouls, FoulLists

LEMMA ResolutionRecorded ==
  ASSUME IInv, IInv', NEW s \in Shots, result' = Resolution(s)
  PROVE  result' \in ShotResults
<1>1. Fouls(s) \in FoulLists
  BY FoulsListed
<1>2. AssignedGroup(s) \in Groups \cup {"None"}
  BY AssignedGroupType
<1>3. activePlayer \in Player /\ breakPending \in BOOLEAN
  BY DEF IInv, TypeOK
<1>4. activePlayer' \in Player /\ ballInHand' \in BOOLEAN /\ status' \in MatchStatuses
  BY DEF IInv, TypeOK, MatchStatuses
<1>5. status' # InProgress => ~ballInHand'
  BY DEF IInv, CompletedSnapshotDecodes
<1>6. "None" \notin Player
  BY DEF Player
<1> DEFINE assigned == IF Eight \in s.drops THEN "None" ELSE AssignedGroup(s)
           reracked == breakPending /\ Eight \in s.drops
           next == IF status' = InProgress THEN activePlayer' ELSE "None"
           fouls == Fouls(s)
<1>7. assigned \in Groups \cup {"None"} /\ reracked \in BOOLEAN
  BY <1>2, <1>3
<1>8. next \in Player \cup {"None"} /\ (next = "None" <=> status' # InProgress)
  BY <1>4, <1>6
<1>9. result' = [ kind |-> "shot", shooter |-> activePlayer, fouls |-> fouls, assigned |-> assigned,
                  reracked |-> reracked, status |-> status', next |-> next, inHand |-> ballInHand' ]
  BY DEF Resolution
<1> HIDE DEF assigned, reracked, next, fouls
<1>10. fouls \in FoulLists
  BY <1>1 DEF fouls
<1> QED
  BY <1>3, <1>4, <1>5, <1>7, <1>8, <1>9, <1>10 DEF ShotResults

RecordInv == IInv /\ result \in Results \cup {NoResult}

LEMMA RecordedStep ==
  RecordInv /\ [RecordedNext]_recordVars => RecordInv'
<1> SUFFICES ASSUME RecordInv, [RecordedNext]_recordVars
             PROVE  RecordInv'
  OBVIOUS
<1>1. [Next]_vars
  BY DEF RecordedNext, Next, recordVars, vars
<1>2. IInv /\ IInv'
  BY <1>1, NextInv DEF RecordInv
<1>3. CASE UNCHANGED recordVars
  BY <1>2, <1>3 DEF RecordInv, recordVars
<1>4. ASSUME NEW s \in Shots, result' = Resolution(s)
      PROVE  result' \in Results
  BY <1>2, <1>4, ResolutionRecorded DEF Results
<1>5. ASSUME result' = [kind |-> "placed"]
      PROVE  result' \in Results
  BY <1>5 DEF Results
<1>6. ASSUME result' = [kind |-> "timeout", active |-> activePlayer']
      PROVE  result' \in Results
  <2>1. activePlayer' \in Player
    BY <1>2 DEF IInv, TypeOK
  <2> QED
    BY <1>6, <2>1 DEF Results
<1>7. ASSUME NEW p \in Player, Concede(p), result' = [kind |-> "conceded", outcome |-> status']
      PROVE  result' \in Results
  <2>1. status' \in Outcomes
    BY <1>7, OpponentIsOther DEF Concede, Outcomes, Reasons
  <2> QED
    BY <1>7, <2>1 DEF Results
<1>8. ASSUME RecordedNext
      PROVE  result' \in Results \cup {NoResult}
  <2>1. CASE \E s \in Shots : PlayShot(s) /\ result' = Resolution(s)
    BY <1>4, <2>1
  <2>2. CASE PlaceCueBall /\ result' = [kind |-> "placed"]
    BY <1>5, <2>2
  <2>3. CASE TimeoutTurn /\ result' = [kind |-> "timeout", active |-> activePlayer']
    BY <1>6, <2>3
  <2>4. CASE \E p \in Player : Concede(p) /\ result' = [kind |-> "conceded", outcome |-> status']
    BY <1>7, <2>4
  <2> QED
    BY <1>8, <2>1, <2>2, <2>3, <2>4 DEF RecordedNext
<1> QED
  BY <1>2, <1>3, <1>8 DEF RecordInv

(* Whatever commands a match took, the result of the last one is what is   *)
(* read back from its encoding: the journal's answer to a retried command  *)
(* (load_receipt) is the answer that was given, field by field, and a      *)
(* server that starts over can decode the row it left.                     *)
THEOREM RecordedResultsSurvive == RecordedSpec => []ResultSurvives
<1>1. RecordedInit => RecordInv
  BY InitInv DEF RecordedInit, RecordInv
<1>2. RecordInv /\ [RecordedNext]_recordVars => RecordInv'
  BY RecordedStep
<1>3. RecordInv => ResultSurvives
  <2> SUFFICES ASSUME RecordInv, result # NoResult
               PROVE  ResultFrom(ResultBytes(result)) = result
    BY DEF ResultSurvives
  <2>1. result \in Results
    BY DEF RecordInv
  <2> QED
    BY <2>1, ResultsRoundTrip
<1>4. QED
  BY <1>1, <1>2, <1>3, PTL DEF RecordedSpec

-----------------------------------------------------------------------------
(* Balls and tables.                                                       *)

(* What the counting of pocketed balls needs to know of a ball: that it    *)
(* says whether it has been pocketed.                                      *)
IsBall(ball) == "pocketed" \in DOMAIN ball /\ ball.pocketed \in BOOLEAN

IsTable(bs) == DOMAIN bs \subseteq 0 .. 15 /\ \A n \in DOMAIN bs : IsBall(bs[n])

(* A ball that has moved and is as much in play as it was.                 *)
Remains(ball, moved) == IsBall(moved) /\ moved.pocketed = ball.pocketed

LEMMA StruckRemains ==
  ASSUME NEW ball, IsBall(ball), NEW c
  PROVE  Remains(ball, Struck(ball, c))
BY DEF IsBall, Remains, Struck

LEMMA ReboundRemains ==
  ASSUME NEW ball, IsBall(ball), NEW dx, NEW dy, NEW distance, NEW normal
  PROVE  Remains(ball, Rebound(ball, dx, dy, distance, normal))
BY DEF IsBall, Remains, Rebound

LEMMA CollideRemains ==
  ASSUME NEW a, NEW b, IsBall(a), IsBall(b), NEW dx, NEW dy, NEW relative
  PROVE  /\ Remains(a, Collide(a, b, dx, dy, relative)[1])
         /\ Remains(b, Collide(a, b, dx, dy, relative)[2])
BY DEF IsBall, Remains, Collide

LEMMA SeparateRemains ==
  ASSUME NEW a, NEW b, IsBall(a), IsBall(b), NEW dx, NEW dy
  PROVE  /\ Remains(a, SeparateOverlap(a, b, dx, dy)[1])
         /\ Remains(b, SeparateOverlap(a, b, dx, dy)[2])
BY DEF IsBall, Remains, SeparateOverlap

LEMMA ClothRemains ==
  ASSUME NEW ball, IsBall(ball), NEW slipping
  PROVE  /\ Remains(ball, Slide(ball, slipping))
         /\ Remains(ball, Roll(ball))
         /\ Remains(ball, Spin(ball))
<1>1. Remains(ball, Slide(ball, slipping))
  BY DEF IsBall, Remains, Slide
<1>2. Remains(ball, Roll(ball))
  BY DEF IsBall, Remains, Roll, Rolling
<1>3. Remains(ball, Spin(ball))
  BY DEF IsBall, Remains, Spin
<1> QED
  BY <1>1, <1>2, <1>3
-----------------------------------------------------------------------------
(* What is reported of the balls that have fallen.                         *)

(* The ball that an event says has fallen. *)
Falls(kind, n) == kind[1] = Pocketed /\ kind[2] = n

(* A ball is among those a list of events reports. *)
Reported(list, n) == \E i \in DOMAIN list : Falls(list[i], n)

NoneTwice(list) ==
  \A i, j \in DOMAIN list : \A n : Falls(list[i], n) /\ Falls(list[j], n) => i = j

(* The keys of events: the balls of a contact come in order, and a ball    *)
(* falls into one of the six pockets.                                      *)
EventKeys ==
  {k \in Int \X Int \X Int : /\ k[1] = Contact => k[2] < k[3]
                             /\ k[1] = Pocketed => k[3] \in 0 .. 5}

(* Those of a stage that began with the table bs.                          *)
KeysOn(bs) == {k \in EventKeys : k[1] = Contact => k[2] \in InPlay(bs) /\ k[3] \in InPlay(bs)}

(* A stage that began with the table bs: what it has moved and reported.   *)
Tally(bs, s) ==
  /\ IsTable(bs)
  /\ s = [balls |-> s.balls, events |-> s.events]
  /\ DOMAIN s.balls = DOMAIN bs
  /\ IsTable(s.balls)
  /\ s.events \in Seq(KeysOn(bs))
  /\ NoneTwice(s.events)
  /\ \A n : Reported(s.events, n) => n \in InPlay(bs)
  /\ InPlay(s.balls) = {n \in InPlay(bs) : ~Reported(s.events, n)}

LEMMA StaysTally ==
  ASSUME NEW bs, NEW s, Tally(bs, s), NEW n \in DOMAIN s.balls, NEW moved, Remains(s.balls[n], moved)
  PROVE  Tally(bs, [s EXCEPT !.balls[n] = moved])
<1> DEFINE t == [balls |-> [s.balls EXCEPT ![n] = moved], events |-> s.events]
<1>1. [s EXCEPT !.balls[n] = moved] = t
  BY DEF Tally
<1>2. IsTable(t.balls) /\ DOMAIN t.balls = DOMAIN bs
  BY DEF Tally, IsTable, Remains
<1>3. InPlay(t.balls) = InPlay(s.balls)
  BY DEF InPlay, Remains, Tally
<1>4. t.events = s.events /\ t = [balls |-> t.balls, events |-> t.events]
  OBVIOUS
<1> HIDE DEF t
<1>5. Tally(bs, t)
  BY <1>2, <1>3, <1>4 DEF Tally
<1> QED
  BY <1>1, <1>5

(* An event that reports no fall changes nothing of the tally. *)
LEMMA OtherEvent ==
  ASSUME NEW K, NEW list \in Seq(K), NEW kind \in K, kind[1] # Pocketed, NoneTwice(list)
  PROVE  /\ Append(list, kind) \in Seq(K)
         /\ NoneTwice(Append(list, kind))
         /\ \A n : Reported(Append(list, kind), n) <=> Reported(list, n)
<1> DEFINE longer == Append(list, kind)
<1>1. longer \in Seq(K) /\ Len(longer) = Len(list) + 1 /\ Len(list) \in Nat
  OBVIOUS
<1>2. \A i \in DOMAIN longer : longer[i] = IF i \in DOMAIN list THEN list[i] ELSE kind
  OBVIOUS
<1>3. DOMAIN list \subseteq DOMAIN longer
  OBVIOUS
<1> HIDE DEF longer
<1>4. \A i \in DOMAIN longer : \A n : Falls(longer[i], n) <=> i \in DOMAIN list /\ Falls(list[i], n)
  BY <1>2 DEF Falls
<1>5. NoneTwice(longer) /\ \A n : Reported(longer, n) <=> Reported(list, n)
  BY <1>3, <1>4 DEF NoneTwice, Reported
<1> QED
  BY <1>1, <1>5 DEF longer

LEMMA TallyWithEvent ==
  ASSUME NEW bs, NEW s, Tally(bs, s), NEW n \in DOMAIN s.balls, NEW moved, Remains(s.balls[n], moved),
         NEW kind \in KeysOn(bs), kind[1] # Pocketed
  PROVE  Tally(bs, [balls |-> [s.balls EXCEPT ![n] = moved], events |-> Append(s.events, kind)])
<1> DEFINE t == [s EXCEPT !.balls[n] = moved]
           u == [balls |-> [s.balls EXCEPT ![n] = moved], events |-> Append(s.events, kind)]
<1>1. Tally(bs, t)
  BY StaysTally
<1>2. t.balls = u.balls /\ t.events = s.events
  BY DEF Tally
<1>3. u.events = Append(s.events, kind) /\ u = [balls |-> u.balls, events |-> u.events]
  OBVIOUS
<1> HIDE DEF t, u
<1>4. s.events \in Seq(KeysOn(bs)) /\ NoneTwice(s.events)
  BY DEF Tally
<1>5. /\ u.events \in Seq(KeysOn(bs))
      /\ NoneTwice(u.events)
      /\ \A m : Reported(u.events, m) <=> Reported(s.events, m)
  BY <1>3, <1>4, OtherEvent
<1>6. Tally(bs, u)
  BY <1>1, <1>2, <1>3, <1>5 DEF Tally
<1> QED
  BY <1>6 DEF u

-----------------------------------------------------------------------------
(* The steps of a stage.                                                   *)

LEMMA DriftTally ==
  ASSUME NEW bs, NEW s, Tally(bs, s), NEW n \in InPlay(s.balls)
  PROVE  Tally(bs, Drift(s, n))
<1> DEFINE ball  == s.balls[n]
           moved == [ball EXCEPT !.x = @ + Quotient(s.balls[n].vx, Frequency),
                                 !.y = @ + Quotient(s.balls[n].vy, Frequency)]
<1>1. n \in DOMAIN s.balls /\ IsBall(ball)
  BY DEF InPlay, Tally, IsTable
<1>2. Remains(ball, moved)
  BY <1>1 DEF Remains, IsBall
<1>3. Drift(s, n) = [s EXCEPT !.balls[n] = moved]
  BY <1>1 DEF Drift, Tally
<1> HIDE DEF moved
<1> QED
  BY <1>1, <1>2, <1>3, StaysTally

LEMMA ClothTally ==
  ASSUME NEW bs, NEW s, Tally(bs, s), NEW n \in InPlay(s.balls)
  PROVE  Tally(bs, Cloth(s, n))
<1> DEFINE ball     == s.balls[n]
           slipping == Speed(ball.vx - ball.rx, ball.vy - ball.ry)
           slid     == Slide(ball, slipping)
           rolled   == IF slipping <= 7 THEN Roll(slid) ELSE slid
<1>1. n \in DOMAIN s.balls /\ IsBall(ball)
  BY DEF InPlay, Tally, IsTable
<1>2. Cloth(s, n) = [s EXCEPT !.balls[n] = Spin(rolled)]
  BY DEF Cloth
<1> HIDE DEF ball, slipping
<1>3. Remains(ball, slid)
  BY <1>1, ClothRemains
<1> HIDE DEF slid
<1>4. Remains(slid, Roll(slid))
  BY <1>3, ClothRemains DEF Remains
<1>5. Remains(ball, rolled)
  BY <1>3, <1>4 DEF Remains
<1> HIDE DEF rolled
<1>6. Remains(rolled, Spin(rolled))
  BY <1>5, ClothRemains DEF Remains
<1>7. Remains(ball, Spin(rolled))
  BY <1>5, <1>6 DEF Remains
<1> QED
  BY <1>1, <1>2, <1>7, StaysTally DEF ball

(* The first of a set of pockets is one of them. *)
LEMMA FirstPocket ==
  ASSUME NEW ball, PocketsAt(ball) # {}
  PROVE  Min(PocketsAt(ball)) - 1 \in 0 .. 5
<1> DEFINE at == PocketsAt(ball)
<1>1. at \subseteq {1, 2, 3, 4, 5, 6}
  BY DEF PocketsAt, PocketSigns
<1> HIDE DEF at
<1>2. \E p \in at : \A q \in at : p <= q
  <2>1. CASE 1 \in at
    BY <1>1, <2>1
  <2>2. CASE 1 \notin at /\ 2 \in at
    BY <1>1, <2>2
  <2>3. CASE 1 \notin at /\ 2 \notin at /\ 3 \in at
    BY <1>1, <2>3
  <2>4. CASE 1 \notin at /\ 2 \notin at /\ 3 \notin at /\ 4 \in at
    BY <1>1, <2>4
  <2>5. CASE 1 \notin at /\ 2 \notin at /\ 3 \notin at /\ 4 \notin at
    BY <1>1, <2>5 DEF at
  <2> QED
    BY <2>1, <2>2, <2>3, <2>4, <2>5
<1>3. Min(at) \in at
  BY <1>2 DEF Min
<1> QED
  BY <1>1, <1>3 DEF at

(* A ball is pocketed with one event, which is the first of it.            *)
LEMMA ResolvePocketTally ==
  ASSUME NEW bs, NEW s, Tally(bs, s), NEW n \in InPlay(s.balls)
  PROVE  Tally(bs, ResolvePocket(s, n))
<1> DEFINE at   == PocketsAt(s.balls[n])
           kind == <<Pocketed, n, Min(at) - 1>>
           t    == [balls |-> [s.balls EXCEPT ![n] = Captured(@)], events |-> Append(s.events, kind)]
<1>1. CASE at = {}
  BY <1>1 DEF ResolvePocket
<1>2. CASE at # {}
  <2>1. n \in DOMAIN s.balls /\ n \in 0 .. 15 /\ IsBall(s.balls[n])
    BY DEF InPlay, Tally, IsTable
  <2>2. kind \in KeysOn(bs)
    BY <1>2, <2>1, FirstPocket DEF KeysOn, EventKeys, Pocketed, Contact
  <2>3. /\ t.events = Append(s.events, kind) /\ t.balls = [s.balls EXCEPT ![n] = Captured(@)]
        /\ t = [balls |-> t.balls, events |-> t.events]
    OBVIOUS
  <2>4. ResolvePocket(s, n) = t
    BY <1>2 DEF ResolvePocket
  <2>5. kind[1] = Pocketed /\ kind[2] = n
    OBVIOUS
  <2> HIDE DEF t, kind, at
  <2>6. s.events \in Seq(KeysOn(bs)) /\ NoneTwice(s.events) /\ ~Reported(s.events, n) /\ n \in InPlay(bs)
    BY DEF Tally
  <2>7. t.events \in Seq(KeysOn(bs)) /\ Len(t.events) = Len(s.events) + 1 /\ Len(s.events) \in Nat
    BY <2>2, <2>3, <2>6
  <2>8. \A i \in DOMAIN t.events : t.events[i] = IF i \in DOMAIN s.events THEN s.events[i] ELSE kind
    BY <2>2, <2>3, <2>6
  <2>9. DOMAIN t.events = DOMAIN s.events \cup {Len(s.events) + 1} /\ Len(s.events) + 1 \notin DOMAIN s.events
    BY <2>6, <2>7
  <2>10. \A m : Reported(t.events, m) <=> Reported(s.events, m) \/ m = n
    BY <2>5, <2>8, <2>9 DEF Reported, Falls
  <2>11. NoneTwice(t.events)
    <3> SUFFICES ASSUME NEW i \in DOMAIN t.events, NEW j \in DOMAIN t.events, NEW m,
                        Falls(t.events[i], m), Falls(t.events[j], m)
                 PROVE  i = j
      BY DEF NoneTwice
    <3>1. CASE i \in DOMAIN s.events /\ j \in DOMAIN s.events
      BY <2>6, <2>8, <3>1 DEF NoneTwice
    <3>2. CASE i \notin DOMAIN s.events
      <4>1. m = n
        BY <2>5, <2>8, <3>2 DEF Falls
      <4> QED
        BY <2>6, <2>8, <2>9, <3>2, <4>1 DEF Reported
    <3>3. CASE j \notin DOMAIN s.events
      <4>1. m = n
        BY <2>5, <2>8, <3>3 DEF Falls
      <4> QED
        BY <2>6, <2>8, <2>9, <3>3, <4>1 DEF Reported
    <3> QED
      BY <3>1, <3>2, <3>3
  <2>12. IsTable(t.balls) /\ DOMAIN t.balls = DOMAIN s.balls /\ InPlay(t.balls) = InPlay(s.balls) \ {n}
    BY <2>1, <2>3 DEF Tally, IsTable, IsBall, InPlay, Captured
  <2>13. Tally(bs, t)
    BY <2>3, <2>6, <2>7, <2>10, <2>11, <2>12 DEF Tally
  <2> QED
    BY <2>4, <2>13
<1> QED
  BY <1>1, <1>2

LEMMA CushionStepTally ==
  ASSUME NEW bs, NEW s, Tally(bs, s), NEW n \in InPlay(s.balls), NEW segment
  PROVE  Tally(bs, CushionStep(s, n, segment)) /\ n \in InPlay(CushionStep(s, n, segment).balls)
<1>1. n \in DOMAIN s.balls /\ n \in 0 .. 15 /\ IsBall(s.balls[n])
  BY DEF InPlay, Tally, IsTable
<1> DEFINE ball     == s.balls[n]
           ax       == segment[1][1]
           ay       == segment[1][2]
           sx       == segment[2][1] - ax
           sy       == segment[2][2] - ay
           length   == Squared(sx, sy)
           along    == Clamp((ball.x - ax) * sx + (ball.y - ay) * sy, 0, length)
           nearX    == ax + Quotient(sx * along, length)
           nearY    == ay + Quotient(sy * along, length)
           dx       == ball.x - nearX
           dy       == ball.y - nearY
           square   == Squared(dx, dy)
           distance == Larger(IntegerSqrt(square), 1)
           normal   == MulDiv(ball.vx, dx, distance) + MulDiv(ball.vy, dy, distance)
           moved    == [ball EXCEPT !.x = nearX + MulDiv(dx, BallRadius + 2, distance),
                                    !.y = nearY + MulDiv(dy, BallRadius + 2, distance)]
           axis     == IF Size(dx) > Size(dy) THEN HorizontalAxis ELSE VerticalAxis
           back     == Rebound(moved, dx, dy, distance, normal)
           kind     == <<Cushion, n, axis>>
           pushed   == [s EXCEPT !.balls[n] = moved]
           bounced  == [balls |-> [s.balls EXCEPT ![n] = back], events |-> Append(s.events, kind)]
<1>2. CushionStep(s, n, segment) =
        IF square >= BallRadius * BallRadius \/ square = 0 THEN s
        ELSE IF normal >= 0 THEN pushed ELSE bounced
  BY Zenon DEF CushionStep
<1> HIDE DEF nearX, nearY, dx, dy, square, distance, normal
<1>3. Remains(ball, moved)
  BY <1>1 DEF Remains, IsBall
<1>4. Remains(ball, back)
  <2> HIDE DEF moved
  <2>1. IsBall(moved)
    BY <1>3 DEF Remains
  <2>2. Remains(moved, back)
    BY <2>1, ReboundRemains
  <2> QED
    BY <1>3, <2>2 DEF Remains
<1>5. kind \in KeysOn(bs) /\ kind[1] # Pocketed
  BY <1>1 DEF KeysOn, EventKeys, Cushion, Contact, Pocketed, HorizontalAxis, VerticalAxis
<1>6. pushed.balls = [s.balls EXCEPT ![n] = moved] /\ bounced.balls = [s.balls EXCEPT ![n] = back]
  BY DEF Tally
<1>7. n \in InPlay(pushed.balls) /\ n \in InPlay(bounced.balls)
  <2> HIDE DEF moved, back, pushed, bounced
  <2> QED
    BY <1>1, <1>3, <1>4, <1>6 DEF InPlay, Remains
<1> HIDE DEF moved, back, kind, ball
<1>8. Tally(bs, pushed)
  BY <1>1, <1>3, StaysTally DEF ball
<1>9. Tally(bs, bounced)
  BY <1>1, <1>4, <1>5, TallyWithEvent DEF ball
<1> HIDE DEF pushed, bounced
<1> QED
  BY <1>2, <1>7, <1>8, <1>9

(* The cushions of a ball, one segment after the other.                    *)
LEMMA CushionsByStep ==
  ASSUME NEW s, NEW b, Len(CushionSegments) \in Nat
  PROVE  \E u : /\ u[0] = s
                /\ \A n \in 1 .. Len(CushionSegments) : u[n] = Bounce(u[n - 1], b, n)
                /\ CushionsOf(s, b) = u[Len(CushionSegments)]
<1> DEFINE Step(u, m) == u = [n \in 0 .. m |-> IF n = 0 THEN s ELSE Bounce(u[n - 1], b, n)]
           T == {m \in Nat : \E u : Step(u, m)}
<1>1. 0 \in T
  <2> DEFINE g == [n \in 0 .. 0 |-> s]
  <2>1. Step(g, 0)
    OBVIOUS
  <2> QED
    BY <2>1
<1>2. ASSUME NEW m \in T
      PROVE  m + 1 \in T
  <2>1. m \in Nat /\ \E u : Step(u, m)
    OBVIOUS
  <2>2. PICK u : Step(u, m)
    BY <2>1
  <2> DEFINE g == [n \in 0 .. m + 1 |-> IF n = m + 1 THEN Bounce(u[m], b, m + 1) ELSE u[n]]
  <2>3. ASSUME NEW n \in 0 .. m + 1
        PROVE  g[n] = IF n = 0 THEN s ELSE Bounce(g[n - 1], b, n)
    <3>1. CASE n = m + 1
      BY <2>1, <3>1
    <3>2. CASE n \in 0 .. m
      <4>1. u[n] = IF n = 0 THEN s ELSE Bounce(u[n - 1], b, n)
        BY <2>2, <3>2
      <4>2. g[n] = u[n] /\ (n # 0 => g[n - 1] = u[n - 1])
        BY <2>1, <3>2
      <4> QED
        BY <4>1, <4>2
    <3> QED
      BY <2>1, <3>1, <3>2
  <2>4. Step(g, m + 1)
    BY <2>3
  <2> HIDE DEF Step, g
  <2> QED
    BY <2>1, <2>4
<1>3. T = Nat
  <2> HIDE DEF T
  <2>1. T \subseteq Nat
    BY DEF T
  <2> QED
    BY <1>1, <1>2, <2>1, Upwards
<1>4. \E u : Step(u, Len(CushionSegments))
  BY <1>3
<1> DEFINE U == CHOOSE u : Step(u, Len(CushionSegments))
<1>5. Step(U, Len(CushionSegments))
  BY <1>4, Zenon
<1>6. CushionsOf(s, b) = U[Len(CushionSegments)]
  BY DEF CushionsOf
<1> HIDE DEF U
<1>7. U[0] = s /\ \A n \in 1 .. Len(CushionSegments) : U[n] = Bounce(U[n - 1], b, n)
  BY <1>5
<1> QED
  BY <1>6, <1>7

(* The contacts of a ball, one other ball after the other.                 *)
LEMMA ContactsByStep ==
  ASSUME NEW s, NEW b, Count(s) \in Nat
  PROVE  \E u : /\ u[0] = s
                /\ \A n \in 1 .. Count(s) : u[n] = Meet(u[n - 1], b, Number(s, n))
                /\ ContactsOf(s, b) = u[Count(s)]
<1> DEFINE Step(u, m) == u = [n \in 0 .. m |-> IF n = 0 THEN s ELSE Meet(u[n - 1], b, Number(s, n))]
           T == {m \in Nat : \E u : Step(u, m)}
<1>1. 0 \in T
  <2> DEFINE g == [n \in 0 .. 0 |-> s]
  <2>1. Step(g, 0)
    OBVIOUS
  <2> QED
    BY <2>1
<1>2. ASSUME NEW m \in T
      PROVE  m + 1 \in T
  <2>1. m \in Nat /\ \E u : Step(u, m)
    OBVIOUS
  <2>2. PICK u : Step(u, m)
    BY <2>1
  <2> DEFINE g == [n \in 0 .. m + 1 |-> IF n = m + 1 THEN Meet(u[m], b, Number(s, m + 1)) ELSE u[n]]
  <2>3. ASSUME NEW n \in 0 .. m + 1
        PROVE  g[n] = IF n = 0 THEN s ELSE Meet(g[n - 1], b, Number(s, n))
    <3>1. CASE n = m + 1
      BY <2>1, <3>1
    <3>2. CASE n \in 0 .. m
      <4>1. u[n] = IF n = 0 THEN s ELSE Meet(u[n - 1], b, Number(s, n))
        BY <2>2, <3>2
      <4>2. g[n] = u[n] /\ (n # 0 => g[n - 1] = u[n - 1])
        BY <2>1, <3>2
      <4> QED
        BY <4>1, <4>2
    <3> QED
      BY <2>1, <3>1, <3>2
  <2>4. Step(g, m + 1)
    BY <2>3
  <2> HIDE DEF Step, g
  <2> QED
    BY <2>1, <2>4
<1>3. T = Nat
  <2> HIDE DEF T
  <2>1. T \subseteq Nat
    BY DEF T
  <2> QED
    BY <1>1, <1>2, <2>1, Upwards
<1>4. \E u : Step(u, Count(s))
  BY <1>3
<1> DEFINE U == CHOOSE u : Step(u, Count(s))
<1>5. Step(U, Count(s))
  BY <1>4, Zenon
<1>6. ContactsOf(s, b) = U[Count(s)]
  BY DEF ContactsOf
<1> HIDE DEF U
<1>7. U[0] = s /\ \A n \in 1 .. Count(s) : U[n] = Meet(U[n - 1], b, Number(s, n))
  BY <1>5
<1> QED
  BY <1>6, <1>7

(* A stage, one ball after the other.                                      *)
LEMMA StageByStep ==
  ASSUME NEW s, NEW stage, Count(s) \in Nat
  PROVE  \E u : /\ u[0] = s
                /\ \A n \in 1 .. Count(s) : u[n] = Visit(stage, u[n - 1], Number(s, n))
                /\ ForEachBall(stage, s) = u[Count(s)]
<1> DEFINE Step(u, m) == u = [n \in 0 .. m |-> IF n = 0 THEN s ELSE Visit(stage, u[n - 1], Number(s, n))]
           T == {m \in Nat : \E u : Step(u, m)}
<1>1. 0 \in T
  <2> DEFINE g == [n \in 0 .. 0 |-> s]
  <2>1. Step(g, 0)
    OBVIOUS
  <2> QED
    BY <2>1
<1>2. ASSUME NEW m \in T
      PROVE  m + 1 \in T
  <2>1. m \in Nat /\ \E u : Step(u, m)
    OBVIOUS
  <2>2. PICK u : Step(u, m)
    BY <2>1
  <2> DEFINE g == [n \in 0 .. m + 1 |-> IF n = m + 1 THEN Visit(stage, u[m], Number(s, m + 1)) ELSE u[n]]
  <2>3. ASSUME NEW n \in 0 .. m + 1
        PROVE  g[n] = IF n = 0 THEN s ELSE Visit(stage, g[n - 1], Number(s, n))
    <3>1. CASE n = m + 1
      BY <2>1, <3>1
    <3>2. CASE n \in 0 .. m
      <4>1. u[n] = IF n = 0 THEN s ELSE Visit(stage, u[n - 1], Number(s, n))
        BY <2>2, <3>2
      <4>2. g[n] = u[n] /\ (n # 0 => g[n - 1] = u[n - 1])
        BY <2>1, <3>2
      <4> QED
        BY <4>1, <4>2
    <3> QED
      BY <2>1, <3>1, <3>2
  <2>4. Step(g, m + 1)
    BY <2>3
  <2> HIDE DEF Step, g
  <2> QED
    BY <2>1, <2>4
<1>3. T = Nat
  <2> HIDE DEF T
  <2>1. T \subseteq Nat
    BY DEF T
  <2> QED
    BY <1>1, <1>2, <2>1, Upwards
<1>4. \E u : Step(u, Count(s))
  BY <1>3
<1> DEFINE U == CHOOSE u : Step(u, Count(s))
<1>5. Step(U, Count(s))
  BY <1>4, Zenon
<1>6. ForEachBall(stage, s) = U[Count(s)]
  BY DEF ForEachBall
<1> HIDE DEF U
<1>7. U[0] = s /\ \A n \in 1 .. Count(s) : U[n] = Visit(stage, U[n - 1], Number(s, n))
  BY <1>5
<1> QED
  BY <1>6, <1>7

(* The sort, one event after the other.                                    *)
LEMMA InOrderByStep ==
  ASSUME NEW kinds, Len(kinds) \in Nat
  PROVE  \E u : /\ u[0] = <<>>
                /\ \A n \in 1 .. Len(kinds) : u[n] = Insert(u[n - 1], kinds[n])
                /\ InOrder(kinds) = u[Len(kinds)]
<1> DEFINE Step(u, m) == u = [n \in 0 .. m |-> IF n = 0 THEN <<>> ELSE Insert(u[n - 1], kinds[n])]
           T == {m \in Nat : \E u : Step(u, m)}
<1>1. 0 \in T
  <2> DEFINE g == [n \in 0 .. 0 |-> <<>>]
  <2>1. Step(g, 0)
    OBVIOUS
  <2> QED
    BY <2>1
<1>2. ASSUME NEW m \in T
      PROVE  m + 1 \in T
  <2>1. m \in Nat /\ \E u : Step(u, m)
    OBVIOUS
  <2>2. PICK u : Step(u, m)
    BY <2>1
  <2> DEFINE g == [n \in 0 .. m + 1 |-> IF n = m + 1 THEN Insert(u[m], kinds[m + 1]) ELSE u[n]]
  <2>3. ASSUME NEW n \in 0 .. m + 1
        PROVE  g[n] = IF n = 0 THEN <<>> ELSE Insert(g[n - 1], kinds[n])
    <3>1. CASE n = m + 1
      BY <2>1, <3>1
    <3>2. CASE n \in 0 .. m
      <4>1. u[n] = IF n = 0 THEN <<>> ELSE Insert(u[n - 1], kinds[n])
        BY <2>2, <3>2
      <4>2. g[n] = u[n] /\ (n # 0 => g[n - 1] = u[n - 1])
        BY <2>1, <3>2
      <4> QED
        BY <4>1, <4>2
    <3> QED
      BY <2>1, <3>1, <3>2
  <2>4. Step(g, m + 1)
    BY <2>3
  <2> HIDE DEF Step, g
  <2> QED
    BY <2>1, <2>4
<1>3. T = Nat
  <2> HIDE DEF T
  <2>1. T \subseteq Nat
    BY DEF T
  <2> QED
    BY <1>1, <1>2, <2>1, Upwards
<1>4. \E u : Step(u, Len(kinds))
  BY <1>3
<1> DEFINE U == CHOOSE u : Step(u, Len(kinds))
<1>5. Step(U, Len(kinds))
  BY <1>4, Zenon
<1>6. InOrder(kinds) = U[Len(kinds)]
  BY DEF InOrder
<1> HIDE DEF U
<1>7. U[0] = <<>> /\ \A n \in 1 .. Len(kinds) : U[n] = Insert(U[n - 1], kinds[n])
  BY <1>5
<1> QED
  BY <1>6, <1>7

LEMMA CushionsTally ==
  ASSUME NEW bs, NEW s, Tally(bs, s), NEW n \in InPlay(s.balls)
  PROVE  Tally(bs, CushionsOf(s, n))
<1>1. Len(CushionSegments) \in Nat
  BY DEF CushionSegments
<1>2. PICK u : /\ u[0] = s
               /\ \A k \in 1 .. Len(CushionSegments) : u[k] = Bounce(u[k - 1], n, k)
               /\ CushionsOf(s, n) = u[Len(CushionSegments)]
  BY <1>1, CushionsByStep
<1> DEFINE count == Len(CushionSegments)
           Good(k) == Tally(bs, u[k]) /\ n \in InPlay(u[k].balls)
           T == {k \in Nat : k <= count => Good(k)}
<1> HIDE DEF count
<1>3. 0 \in T
  BY <1>2
<1>4. ASSUME NEW k \in T
      PROVE  k + 1 \in T
  <2>1. CASE k + 1 <= count
    <3>1. k \in Nat /\ Good(k) /\ count \in Nat
      BY <1>1, <2>1 DEF count
    <3>2. u[k + 1] = Bounce(u[k], n, k + 1)
      BY <1>2, <2>1, <3>1 DEF count
    <3>3. u[k + 1] = CushionStep(u[k], n, CushionSegments[k + 1])
      BY <3>1, <3>2 DEF Bounce, InPlay
    <3>4. Good(k + 1)
      BY <3>1, <3>3, CushionStepTally
    <3> QED
      BY <3>1, <3>4
  <2>2. CASE ~(k + 1 <= count)
    BY <2>2
  <2> QED
    BY <2>1, <2>2
<1>5. T = Nat
  <2> HIDE DEF T
  <2>1. T \subseteq Nat
    BY DEF T
  <2> QED
    BY <1>3, <1>4, <2>1, Upwards
<1>6. count \in T
  BY <1>1, <1>5 DEF count
<1>7. Good(count)
  BY <1>1, <1>6 DEF count
<1> QED
  BY <1>2, <1>7 DEF count

(* Two balls that touch stay in play; their contact is one event or none.  *)
LEMMA ContactStepTally ==
  ASSUME NEW bs, NEW s, Tally(bs, s), NEW m \in InPlay(s.balls), NEW n \in InPlay(s.balls), m < n
  PROVE  Tally(bs, ContactStep(s, m, n)) /\ m \in InPlay(ContactStep(s, m, n).balls)
<1> DEFINE a        == s.balls[m]
           b        == s.balls[n]
           dx       == b.x - a.x
           dy       == b.y - a.y
           square   == Squared(dx, dy)
           relative == (b.vx - a.vx) * dx + (b.vy - a.vy) * dy
           struck   == relative < 0 /\ square > 0
           pair     == IF struck THEN Collide(a, b, dx, dy, relative) ELSE <<a, b>>
           apart    == SeparateOverlap(pair[1], pair[2], dx, dy)
           kind     == <<Contact, m, n>>
           t        == [s EXCEPT !.balls[m] = apart[1]]
           touched  == [balls  |-> [s.balls EXCEPT ![m] = apart[1], ![n] = apart[2]], events |-> s.events]
           reported == [balls  |-> [s.balls EXCEPT ![m] = apart[1], ![n] = apart[2]], events |-> Append(s.events, kind)]
<1>1. ContactStep(s, m, n) = IF square > 4 * BallRadius * BallRadius THEN s ELSE IF struck THEN reported ELSE touched
  BY Zenon DEF ContactStep
<1>2. /\ m \in DOMAIN s.balls /\ m \in 0 .. 15 /\ IsBall(a)
      /\ n \in DOMAIN s.balls /\ n \in 0 .. 15 /\ IsBall(b)
  BY DEF InPlay, Tally, IsTable
<1>3. kind \in KeysOn(bs) /\ kind[1] # Pocketed /\ m # n
  <2>1. m \in InPlay(bs) /\ n \in InPlay(bs)
    BY DEF Tally
  <2> QED
    BY <1>2, <2>1 DEF KeysOn, EventKeys, Contact, Pocketed
<1> HIDE DEF a, b, dx, dy, square, relative, struck, kind
<1>4. Remains(a, pair[1]) /\ Remains(b, pair[2])
  <2>1. CASE struck
    BY <1>2, <2>1, CollideRemains
  <2>2. CASE ~struck
    BY <1>2, <2>2 DEF Remains
  <2> QED
    BY <2>1, <2>2
<1> HIDE DEF pair
<1>5. Remains(pair[1], apart[1]) /\ Remains(pair[2], apart[2])
  <2>1. IsBall(pair[1]) /\ IsBall(pair[2])
    BY <1>4 DEF Remains
  <2> QED
    BY <2>1, SeparateRemains
<1> HIDE DEF apart
<1>6. Remains(a, apart[1]) /\ Remains(b, apart[2])
  BY <1>4, <1>5 DEF Remains
<1>7. t.balls = [s.balls EXCEPT ![m] = apart[1]] /\ t.events = s.events
  BY DEF Tally
<1>8. Tally(bs, t)
  BY <1>2, <1>6, StaysTally DEF a
<1> HIDE DEF t
<1>9. n \in DOMAIN t.balls /\ t.balls[n] = b
  BY <1>2, <1>7 DEF b
<1>10. [t.balls EXCEPT ![n] = apart[2]] = [s.balls EXCEPT ![m] = apart[1], ![n] = apart[2]]
  BY <1>7
<1>11. [t EXCEPT !.balls[n] = apart[2]] = touched
  BY <1>7, <1>8, <1>10 DEF Tally
<1>12. [balls |-> [t.balls EXCEPT ![n] = apart[2]], events |-> Append(t.events, kind)] = reported
  BY <1>7, <1>10
<1>13. m \in InPlay(touched.balls) /\ m \in InPlay(reported.balls)
  <2>1. m \in DOMAIN [s.balls EXCEPT ![m] = apart[1], ![n] = apart[2]]
    BY <1>2
  <2>2. [s.balls EXCEPT ![m] = apart[1], ![n] = apart[2]][m] = apart[1]
    BY <1>2
  <2>3. ~apart[1].pocketed
    BY <1>6 DEF Remains, InPlay, a
  <2>4. m \in InPlay([s.balls EXCEPT ![m] = apart[1], ![n] = apart[2]])
    BY <2>1, <2>2, <2>3 DEF InPlay
  <2> QED
    BY <2>4
<1> HIDE DEF touched, reported
<1>14. Remains(t.balls[n], apart[2])
  BY <1>6, <1>9
<1>15. Tally(bs, touched)
  <2>1. Tally(bs, [t EXCEPT !.balls[n] = apart[2]])
    BY <1>8, <1>9, <1>14, StaysTally
  <2> QED
    BY <1>11, <2>1
<1>16. Tally(bs, reported)
  <2>1. Tally(bs, [balls |-> [t.balls EXCEPT ![n] = apart[2]], events |-> Append(t.events, kind)])
    BY <1>3, <1>8, <1>9, <1>14, TallyWithEvent
  <2> QED
    BY <1>12, <2>1
<1> QED
  BY <1>1, <1>13, <1>15, <1>16

(* There are finitely many balls.                                          *)
LEMMA CountType ==
  ASSUME NEW bs, NEW s, Tally(bs, s)
  PROVE  Count(s) \in Nat
<1>1. DOMAIN s.balls \subseteq 0 .. 15
  BY DEF Tally, IsTable
<1>a. 0 \in Int /\ 15 \in Int
  OBVIOUS
<1>b. IsFiniteSet(0 .. 15)
  BY <1>a, FS_Interval
<1>2. IsFiniteSet(DOMAIN s.balls)
  BY <1>1, <1>b, FS_Subset
<1> QED
  BY <1>2, FS_CardinalityType DEF Count

LEMMA ContactsTally ==
  ASSUME NEW bs, NEW s, Tally(bs, s), NEW m \in InPlay(s.balls)
  PROVE  Tally(bs, ContactsOf(s, m))
<1>1. Count(s) \in Nat
  BY CountType
<1>2. PICK u : /\ u[0] = s
               /\ \A k \in 1 .. Count(s) : u[k] = Meet(u[k - 1], m, Number(s, k))
               /\ ContactsOf(s, m) = u[Count(s)]
  BY <1>1, ContactsByStep
<1> DEFINE count == Count(s)
           Good(k) == Tally(bs, u[k]) /\ m \in InPlay(u[k].balls)
           T == {k \in Nat : k <= count => Good(k)}
<1> HIDE DEF count
<1>3. 0 \in T
  BY <1>2
<1>4. ASSUME NEW k \in T
      PROVE  k + 1 \in T
  <2>1. CASE k + 1 <= count
    <3> DEFINE n == Number(s, k + 1)
    <3>1. k \in Nat /\ Good(k) /\ count \in Nat
      BY <1>1, <2>1 DEF count
    <3>2. u[k + 1] = Meet(u[k], m, n)
      BY <1>2, <2>1, <3>1 DEF count
    <3>3. m \in Int
      BY DEF InPlay, Tally, IsTable
    <3> HIDE DEF n
    <3>4. CASE n > m /\ n \in InPlay(u[k].balls)
      <4>a. n \in DOMAIN u[k].balls
        BY <3>4 DEF InPlay
      <4>b. n \in 0 .. 15
        BY <3>1, <4>a DEF Tally, IsTable
      <4>1. n \in Int /\ m < n
        BY <3>3, <3>4, <4>b
      <4>2. u[k + 1] = ContactStep(u[k], m, n)
        BY <3>2, <3>4 DEF Meet
      <4>3. Good(k + 1)
        BY <3>1, <3>4, <4>1, <4>2, ContactStepTally
      <4> QED
        BY <3>1, <4>3
    <3>5. CASE ~(n > m /\ n \in InPlay(u[k].balls))
      <4>1. u[k + 1] = u[k]
        BY <3>2, <3>5 DEF Meet
      <4>2. Good(k + 1)
        BY <3>1, <4>1
      <4> QED
        BY <3>1, <4>2
    <3> QED
      BY <3>4, <3>5
  <2>2. CASE ~(k + 1 <= count)
    BY <2>2
  <2> QED
    BY <2>1, <2>2
<1>5. T = Nat
  <2> HIDE DEF T
  <2>1. T \subseteq Nat
    BY DEF T
  <2> QED
    BY <1>3, <1>4, <2>1, Upwards
<1>6. count \in T
  BY <1>1, <1>5 DEF count
<1>7. Good(count)
  BY <1>1, <1>6 DEF count
<1> QED
  BY <1>2, <1>7 DEF count

-----------------------------------------------------------------------------
(* One tick.                                                               *)

StageNames == {"drift", "pockets", "cushions", "contacts", "cloth"}

LEMMA VisitTally ==
  ASSUME NEW bs, NEW s, Tally(bs, s), NEW stage \in StageNames, NEW n
  PROVE  Tally(bs, Visit(stage, s, n))
<1>1. CASE n \notin InPlay(s.balls)
  BY <1>1 DEF Visit
<1>2. CASE n \in InPlay(s.balls)
  <2>1. CASE stage = "drift"
    BY <1>2, <2>1, DriftTally DEF Visit
  <2>2. CASE stage = "pockets"
    BY <1>2, <2>2, ResolvePocketTally DEF Visit
  <2>3. CASE stage = "cushions"
    BY <1>2, <2>3, CushionsTally DEF Visit
  <2>4. CASE stage = "contacts"
    BY <1>2, <2>4, ContactsTally DEF Visit
  <2>5. CASE stage = "cloth"
    BY <1>2, <2>5, ClothTally DEF Visit
  <2> QED
    BY <2>1, <2>2, <2>3, <2>4, <2>5 DEF StageNames
<1> QED
  BY <1>1, <1>2

LEMMA StageTally ==
  ASSUME NEW bs, NEW s, Tally(bs, s), NEW stage \in StageNames
  PROVE  Tally(bs, ForEachBall(stage, s))
<1>1. Count(s) \in Nat
  BY CountType
<1>2. PICK u : /\ u[0] = s
               /\ \A k \in 1 .. Count(s) : u[k] = Visit(stage, u[k - 1], Number(s, k))
               /\ ForEachBall(stage, s) = u[Count(s)]
  BY <1>1, StageByStep
<1> DEFINE count == Count(s)
           T == {k \in Nat : k <= count => Tally(bs, u[k])}
<1> HIDE DEF count
<1>3. 0 \in T
  BY <1>2
<1>4. ASSUME NEW k \in T
      PROVE  k + 1 \in T
  <2>1. CASE k + 1 <= count
    <3>1. k \in Nat /\ count \in Nat /\ Tally(bs, u[k])
      BY <1>1, <2>1 DEF count
    <3>2. u[k + 1] = Visit(stage, u[k], Number(s, k + 1))
      BY <1>2, <2>1, <3>1 DEF count
    <3> QED
      BY <3>1, <3>2, VisitTally
  <2>2. CASE ~(k + 1 <= count)
    BY <2>2
  <2> QED
    BY <2>1, <2>2
<1>5. T = Nat
  <2> HIDE DEF T
  <2>1. T \subseteq Nat
    BY DEF T
  <2> QED
    BY <1>3, <1>4, <2>1, Upwards
<1>6. count \in T /\ count <= count
  BY <1>1, <1>5 DEF count
<1>7. Tally(bs, u[count])
  BY <1>6
<1> QED
  BY <1>2, <1>7 DEF count

(* A substep, one stage after the other.                                   *)
LEMMA SubstepByStep ==
  ASSUME NEW s, Len(Stages) \in Nat
  PROVE  \E u : /\ u[0] = s
                /\ \A n \in 1 .. Len(Stages) : u[n] = ForEachBall(Stages[n], u[n - 1])
                /\ Substep(s) = IF InPlay(s.balls) = {} THEN s ELSE u[Len(Stages)]
<1> DEFINE Step(u, m) == u = [n \in 0 .. m |-> IF n = 0 THEN s ELSE ForEachBall(Stages[n], u[n - 1])]
           T == {m \in Nat : \E u : Step(u, m)}
<1>1. 0 \in T
  <2> DEFINE g == [n \in 0 .. 0 |-> s]
  <2>1. Step(g, 0)
    OBVIOUS
  <2> QED
    BY <2>1
<1>2. ASSUME NEW m \in T
      PROVE  m + 1 \in T
  <2>1. m \in Nat /\ \E u : Step(u, m)
    OBVIOUS
  <2>2. PICK u : Step(u, m)
    BY <2>1
  <2> DEFINE g == [n \in 0 .. m + 1 |-> IF n = m + 1 THEN ForEachBall(Stages[m + 1], u[m]) ELSE u[n]]
  <2>3. ASSUME NEW n \in 0 .. m + 1
        PROVE  g[n] = IF n = 0 THEN s ELSE ForEachBall(Stages[n], g[n - 1])
    <3>1. CASE n = m + 1
      BY <2>1, <3>1
    <3>2. CASE n \in 0 .. m
      <4>1. u[n] = IF n = 0 THEN s ELSE ForEachBall(Stages[n], u[n - 1])
        BY <2>2, <3>2
      <4>2. g[n] = u[n] /\ (n # 0 => g[n - 1] = u[n - 1])
        BY <2>1, <3>2
      <4> QED
        BY <4>1, <4>2
    <3> QED
      BY <2>1, <3>1, <3>2
  <2>4. Step(g, m + 1)
    BY <2>3
  <2> HIDE DEF Step, g
  <2> QED
    BY <2>1, <2>4
<1>3. T = Nat
  <2> HIDE DEF T
  <2>1. T \subseteq Nat
    BY DEF T
  <2> QED
    BY <1>1, <1>2, <2>1, Upwards
<1>4. \E u : Step(u, Len(Stages))
  BY <1>3
<1> DEFINE U == CHOOSE u : Step(u, Len(Stages))
<1>5. Step(U, Len(Stages))
  BY <1>4, Zenon
<1>6. Substep(s) = IF InPlay(s.balls) = {} THEN s ELSE U[Len(Stages)]
  BY DEF Substep
<1> HIDE DEF U
<1>7. U[0] = s /\ \A n \in 1 .. Len(Stages) : U[n] = ForEachBall(Stages[n], U[n - 1])
  BY <1>5
<1> QED
  BY <1>6, <1>7

LEMMA SubstepTally ==
  ASSUME NEW bs, NEW s, Tally(bs, s)
  PROVE  Tally(bs, Substep(s))
<1>1. Len(Stages) = 9 /\ \A k \in 1 .. 9 : Stages[k] \in StageNames
  BY DEF Stages, StageNames
<1>a. PICK u : /\ u[0] = s
               /\ \A k \in 1 .. Len(Stages) : u[k] = ForEachBall(Stages[k], u[k - 1])
               /\ Substep(s) = IF InPlay(s.balls) = {} THEN s ELSE u[Len(Stages)]
  <2>1. Len(Stages) \in Nat
    BY <1>1
  <2> QED
    BY <2>1, SubstepByStep
<1>2. /\ u[0] = s
      /\ \A k \in 1 .. 9 : u[k] = ForEachBall(Stages[k], u[k - 1])
      /\ Substep(s) = IF InPlay(s.balls) = {} THEN s ELSE u[9]
  BY <1>1, <1>a
<1> DEFINE T == {k \in Nat : k <= 9 => Tally(bs, u[k])}
<1>3. 0 \in T
  BY <1>2
<1>4. ASSUME NEW k \in T
      PROVE  k + 1 \in T
  <2>1. CASE k + 1 <= 9
    <3>1. k \in Nat /\ Tally(bs, u[k]) /\ Stages[k + 1] \in StageNames
      BY <1>1, <2>1
    <3>2. u[k + 1] = ForEachBall(Stages[k + 1], u[k])
      BY <1>2, <2>1, <3>1
    <3> QED
      BY <3>1, <3>2, StageTally
  <2>2. CASE ~(k + 1 <= 9)
    BY <2>2
  <2> QED
    BY <2>1, <2>2
<1>5. T = Nat
  <2> HIDE DEF T
  <2>1. T \subseteq Nat
    BY DEF T
  <2> QED
    BY <1>3, <1>4, <2>1, Upwards
<1>6. Tally(bs, u[9])
  BY <1>5
<1> QED
  BY <1>2, <1>6

(* A tick, one substep after the other.                                    *)
LEMMA AdvanceByStep ==
  ASSUME NEW bs
  PROVE  \E u : /\ u[0] = [balls |-> bs, events |-> <<>>]
                /\ \A n \in 1 .. Substeps : u[n] = Substep(u[n - 1])
                /\ Advance(bs) = [u[Substeps] EXCEPT !.balls = StillPocketed(@)]
<1> DEFINE Step(u, m) == u = [n \in 0 .. m |-> IF n = 0 THEN [balls |-> bs, events |-> <<>>] ELSE Substep(u[n - 1])]
           T == {m \in Nat : \E u : Step(u, m)}
<1>1. 0 \in T
  <2> DEFINE g == [n \in 0 .. 0 |-> [balls |-> bs, events |-> <<>>]]
  <2>1. Step(g, 0)
    OBVIOUS
  <2> QED
    BY <2>1
<1>2. ASSUME NEW m \in T
      PROVE  m + 1 \in T
  <2>1. m \in Nat /\ \E u : Step(u, m)
    OBVIOUS
  <2>2. PICK u : Step(u, m)
    BY <2>1
  <2> DEFINE g == [n \in 0 .. m + 1 |-> IF n = m + 1 THEN Substep(u[m]) ELSE u[n]]
  <2>3. ASSUME NEW n \in 0 .. m + 1
        PROVE  g[n] = IF n = 0 THEN [balls |-> bs, events |-> <<>>] ELSE Substep(g[n - 1])
    <3>1. CASE n = m + 1
      BY <2>1, <3>1
    <3>2. CASE n \in 0 .. m
      <4>1. u[n] = IF n = 0 THEN [balls |-> bs, events |-> <<>>] ELSE Substep(u[n - 1])
        BY <2>2, <3>2
      <4>2. g[n] = u[n] /\ (n # 0 => g[n - 1] = u[n - 1])
        BY <2>1, <3>2
      <4> QED
        BY <4>1, <4>2
    <3> QED
      BY <2>1, <3>1, <3>2
  <2>4. Step(g, m + 1)
    BY <2>3
  <2> HIDE DEF Step, g
  <2> QED
    BY <2>1, <2>4
<1>3. T = Nat
  <2> HIDE DEF T
  <2>1. T \subseteq Nat
    BY DEF T
  <2> QED
    BY <1>1, <1>2, <2>1, Upwards
<1>a. Substeps \in Nat
  BY DEF Substeps
<1>4. \E u : Step(u, Substeps)
  BY <1>3, <1>a
<1> DEFINE U == CHOOSE u : Step(u, Substeps)
<1>5. Step(U, Substeps)
  BY <1>4, Zenon
<1>6. Advance(bs) = [U[Substeps] EXCEPT !.balls = StillPocketed(@)]
  BY DEF Advance
<1> HIDE DEF U
<1>7. U[0] = [balls |-> bs, events |-> <<>>] /\ \A n \in 1 .. Substeps : U[n] = Substep(U[n - 1])
  BY <1>5, <1>a
<1> QED
  BY <1>6, <1>7

(* Of a tick of a table: which balls it leaves in play and what it reports. *)
LEMMA AdvanceTally ==
  ASSUME NEW bs, IsTable(bs)
  PROVE  Tally(bs, Advance(bs))
<1>1. PICK u : /\ u[0] = [balls |-> bs, events |-> <<>>]
               /\ \A k \in 1 .. Substeps : u[k] = Substep(u[k - 1])
               /\ Advance(bs) = [u[Substeps] EXCEPT !.balls = StillPocketed(@)]
  BY AdvanceByStep
<1>2. Tally(bs, u[0])
  BY <1>1 DEF Tally, NoneTwice, Reported
<1>3. Tally(bs, u[1])
  BY <1>1, <1>2, SubstepTally DEF Substeps
<1>4. Tally(bs, u[2])
  BY <1>1, <1>3, SubstepTally DEF Substeps
<1>5. Tally(bs, u[3])
  BY <1>1, <1>4, SubstepTally DEF Substeps
<1>6. Tally(bs, u[4])
  BY <1>1, <1>5, SubstepTally DEF Substeps
<1> DEFINE last == u[4]
           t == [balls |-> StillPocketed(last.balls), events |-> last.events]
<1>7. Tally(bs, last) /\ Advance(bs) = [last EXCEPT !.balls = StillPocketed(@)]
  BY <1>1, <1>6 DEF Substeps
<1> HIDE DEF last
<1>10. Advance(bs) = t
  BY <1>7 DEF Tally
<1>11. /\ DOMAIN StillPocketed(last.balls) = DOMAIN last.balls
       /\ \A n \in DOMAIN last.balls : IsBall(last.balls[n]) => Remains(last.balls[n], StillPocketed(last.balls)[n])
  BY DEF StillPocketed, Remains, IsBall
<1>12. t.balls = StillPocketed(last.balls) /\ t.events = last.events /\ t = [balls |-> t.balls, events |-> t.events]
  OBVIOUS
<1> HIDE DEF t
<1>13. IsTable(t.balls) /\ InPlay(t.balls) = InPlay(last.balls)
  BY <1>7, <1>11, <1>12 DEF Tally, IsTable, Remains, InPlay
<1>14. Tally(bs, t)
  BY <1>7, <1>11, <1>12, <1>13 DEF Tally
<1> QED
  BY <1>10, <1>14

-----------------------------------------------------------------------------
(* The canonical order of the events of a tick.                            *)

LEMMA InsertTally ==
  ASSUME NEW K, NEW list \in Seq(K), NEW kind \in K, NoneTwice(list),
         \A n : Falls(kind, n) => ~Reported(list, n)
  PROVE  /\ Insert(list, kind) \in Seq(K)
         /\ NoneTwice(Insert(list, kind))
         /\ \A n : Reported(Insert(list, kind), n) <=> Reported(list, n) \/ Falls(kind, n)
<1> DEFINE smaller == {i \in DOMAIN list : ~Before(kind, list[i])}
           place   == Cardinality(smaller)
           longer  == Insert(list, kind)
           size    == Len(list)
<1>1. size \in Nat /\ DOMAIN list = 1 .. size
  OBVIOUS
<1>2. place \in 0 .. size
  <2>1. smaller \subseteq 1 .. size
    OBVIOUS
  <2>2. IsFiniteSet(1 .. size) /\ Cardinality(1 .. size) = size
    BY <1>1, FS_Interval
  <2> HIDE DEF smaller, size
  <2>3. IsFiniteSet(smaller) /\ Cardinality(smaller) <= size
    BY <2>1, <2>2, FS_Subset
  <2> QED
    BY <2>3, FS_CardinalityType, <1>1
<1>3. longer = [i \in 1 .. size + 1 |-> IF i <= place THEN list[i] ELSE IF i = place + 1 THEN kind ELSE list[i - 1]]
  BY DEF Insert
<1> HIDE DEF place, longer, size
<1>4. /\ \A i \in 1 .. place : i \in DOMAIN list /\ i \in DOMAIN longer /\ longer[i] = list[i]
      /\ place + 1 \in DOMAIN longer /\ longer[place + 1] = kind
      /\ \A i \in place + 1 .. size : i \in DOMAIN list /\ i + 1 \in DOMAIN longer /\ longer[i + 1] = list[i]
  BY <1>1, <1>2, <1>3
<1>5. \A i \in DOMAIN longer :
        \/ i = place + 1 /\ longer[i] = kind
        \/ i < place + 1 /\ i \in DOMAIN list /\ longer[i] = list[i]
        \/ i > place + 1 /\ i - 1 \in DOMAIN list /\ longer[i] = list[i - 1]
  BY <1>1, <1>2, <1>3
<1>6. longer \in Seq(K)
  BY <1>1, <1>2, <1>3
<1>7. ASSUME NEW n
      PROVE  Reported(longer, n) <=> Reported(list, n) \/ Falls(kind, n)
  <2>1. ASSUME Reported(list, n)
        PROVE  Reported(longer, n)
    <3>1. PICK i \in DOMAIN list : Falls(list[i], n)
      BY <2>1 DEF Reported
    <3>2. i \in 1 .. place \/ i \in place + 1 .. size
      BY <1>1, <1>2
    <3> QED
      BY <1>4, <3>1, <3>2 DEF Reported
  <2>2. ASSUME Falls(kind, n)
        PROVE  Reported(longer, n)
    BY <1>4, <2>2 DEF Reported
  <2>3. ASSUME Reported(longer, n)
        PROVE  Reported(list, n) \/ Falls(kind, n)
    BY <1>5, <2>3 DEF Reported
  <2> QED
    BY <2>1, <2>2, <2>3
<1>8. NoneTwice(longer)
  <2> SUFFICES ASSUME NEW i \in DOMAIN longer, NEW j \in DOMAIN longer, NEW n,
                      Falls(longer[i], n), Falls(longer[j], n)
               PROVE  i = j
    BY DEF NoneTwice
  <2>1. DOMAIN longer \subseteq Int
    BY <1>3, <1>1
  <2>2. CASE Falls(kind, n)
    <3>1. \A k \in DOMAIN list : ~Falls(list[k], n)
      BY <2>2 DEF Reported
    <3>2. i = place + 1 /\ j = place + 1
      BY <1>5, <3>1
    <3> QED
      BY <3>2
  <2>3. CASE ~Falls(kind, n)
    <3> DEFINE Source(k) == IF k < place + 1 THEN k ELSE k - 1
    <3>1. \A k \in DOMAIN longer :
            Falls(longer[k], n) => k # place + 1 /\ Source(k) \in DOMAIN list /\ Falls(list[Source(k)], n)
      BY <1>1, <1>2, <1>3, <1>5, <2>3
    <3>2. Source(i) = Source(j)
      <4>1. Source(i) \in DOMAIN list /\ Falls(list[Source(i)], n) /\ Source(j) \in DOMAIN list /\ Falls(list[Source(j)], n)
        BY <3>1
      <4> HIDE DEF Source
      <4> QED
        BY <4>1 DEF NoneTwice
    <3>3. i \in Int /\ j \in Int /\ i # place + 1 /\ j # place + 1
      BY <2>1, <3>1
    <3> QED
      BY <1>2, <3>2, <3>3
  <2> QED
    BY <2>2, <2>3
<1> QED
  BY <1>6, <1>7, <1>8 DEF longer

(* Sorting a tick's events reports the same balls, each as often as before. *)
LEMMA InOrderTally ==
  ASSUME NEW K, NEW kinds \in Seq(K), NoneTwice(kinds)
  PROVE  /\ InOrder(kinds) \in Seq(K)
         /\ NoneTwice(InOrder(kinds))
         /\ \A n : Reported(InOrder(kinds), n) <=> Reported(kinds, n)
<1>1. Len(kinds) \in Nat /\ DOMAIN kinds = 1 .. Len(kinds) /\ \A i \in DOMAIN kinds : kinds[i] \in K
  OBVIOUS
<1>2. PICK u : /\ u[0] = <<>>
               /\ \A n \in 1 .. Len(kinds) : u[n] = Insert(u[n - 1], kinds[n])
               /\ InOrder(kinds) = u[Len(kinds)]
  BY <1>1, InOrderByStep
<1> DEFINE Among(k, n) == \E i \in 1 .. k : Falls(kinds[i], n)
           Good(k) == /\ u[k] \in Seq(K)
                      /\ NoneTwice(u[k])
                      /\ \A n : Reported(u[k], n) <=> Among(k, n)
           count == Len(kinds)
           T == {k \in Nat : k <= count => Good(k)}
<1> HIDE DEF count
<1>3. 0 \in T
  <2>1. u[0] \in Seq(K) /\ DOMAIN u[0] = {}
    BY <1>2
  <2>2. \A n : ~Among(0, n) /\ ~Reported(u[0], n)
    BY <2>1 DEF Reported
  <2>3. NoneTwice(u[0])
    BY <2>1 DEF NoneTwice
  <2> QED
    BY <2>1, <2>2, <2>3
<1>4. ASSUME NEW k \in T
      PROVE  k + 1 \in T
  <2>1. CASE k + 1 <= count
    <3>1. k \in Nat /\ Good(k) /\ count \in Nat /\ k + 1 \in DOMAIN kinds
      BY <1>1, <2>1 DEF count
    <3>2. u[k + 1] = Insert(u[k], kinds[k + 1])
      BY <1>2, <2>1, <3>1 DEF count
    <3>3. kinds[k + 1] \in K
      BY <1>1, <3>1
    <3>4. \A n : Falls(kinds[k + 1], n) => ~Among(k, n)
      BY <1>1, <3>1 DEF NoneTwice
    <3>5. \A n : Among(k + 1, n) <=> Among(k, n) \/ Falls(kinds[k + 1], n)
      BY <3>1
    <3> HIDE DEF Among
    <3>6. \A n : Falls(kinds[k + 1], n) => ~Reported(u[k], n)
      BY <3>1, <3>4
    <3>7. /\ u[k + 1] \in Seq(K)
          /\ NoneTwice(u[k + 1])
          /\ \A n : Reported(u[k + 1], n) <=> Reported(u[k], n) \/ Falls(kinds[k + 1], n)
      BY <3>1, <3>2, <3>3, <3>6, InsertTally
    <3>8. Good(k + 1)
      BY <3>1, <3>5, <3>7
    <3> QED
      BY <3>1, <3>8
  <2>2. CASE ~(k + 1 <= count)
    BY <2>2
  <2> QED
    BY <2>1, <2>2
<1>5. T = Nat
  <2> HIDE DEF T
  <2>1. T \subseteq Nat
    BY DEF T
  <2> QED
    BY <1>3, <1>4, <2>1, Upwards
<1>6. Good(count)
  <2>1. count \in T
    BY <1>1, <1>5 DEF count
  <2> QED
    BY <1>1, <2>1 DEF count
<1>7. \A n : Among(count, n) <=> Reported(kinds, n)
  BY <1>1 DEF Reported, count
<1> QED
  BY <1>2, <1>6, <1>7 DEF count

-----------------------------------------------------------------------------
(* The shots.                                                              *)

KindsOf(list) == [i \in DOMAIN list |-> list[i].kind]

StampedEvents == [tick : Nat, kind : EventKeys]

(* A table and the events that led to it. *)
Outcome(bs, kinds) == [balls |-> bs, events |-> kinds]

(* The inductive invariant: no event of the shot reports a ball that was   *)
(* not in play when it began or that another has reported, and the balls   *)
(* in play are those that none has reported.                               *)
FallenInv ==
  /\ tick \in Nat
  /\ events \in Seq(StampedEvents)
  /\ Tally(before, Outcome(balls, KindsOf(events)))

LEMMA KeysAreKeys ==
  ASSUME NEW bs, NEW kinds \in Seq(KeysOn(bs))
  PROVE  kinds \in Seq(EventKeys)
<1>1. KeysOn(bs) \subseteq EventKeys
  BY DEF KeysOn
<1> QED
  BY <1>1

LEMMA StampedKinds ==
  ASSUME NEW t \in Nat, NEW kinds \in Seq(EventKeys)
  PROVE  /\ Stamped(t, kinds) \in Seq(StampedEvents)
         /\ KindsOf(Stamped(t, kinds)) = kinds
<1> DEFINE stamped == Stamped(t, kinds)
<1>1. stamped = [i \in 1 .. Len(kinds) |-> [tick |-> t, kind |-> kinds[i]]] /\ Len(kinds) \in Nat
  BY DEF Stamped
<1>2. \A i \in 1 .. Len(kinds) : kinds[i] \in EventKeys
  OBVIOUS
<1> HIDE DEF stamped
<1>3. \A i \in 1 .. Len(kinds) : stamped[i] \in StampedEvents /\ stamped[i].kind = kinds[i]
  BY <1>1, <1>2 DEF StampedEvents
<1>4. stamped \in Seq(StampedEvents)
  BY <1>1, <1>3
<1>5. KindsOf(stamped) = [i \in 1 .. Len(kinds) |-> kinds[i]]
  BY <1>1, <1>3 DEF KindsOf
<1> QED
  BY <1>4, <1>5 DEF stamped

LEMMA KindsList ==
  ASSUME NEW list \in Seq(StampedEvents)
  PROVE  /\ KindsOf(list) \in Seq(EventKeys) /\ Len(KindsOf(list)) = Len(list) /\ Len(list) \in Nat
         /\ \A i \in 1 .. Len(list) : KindsOf(list)[i] = list[i].kind
<1>1. ASSUME NEW i \in 1 .. Len(list)
      PROVE  list[i].kind \in EventKeys
  <2>1. list[i] \in StampedEvents
    OBVIOUS
  <2> QED
    BY <2>1 DEF StampedEvents
<1>2. KindsOf(list) = [i \in 1 .. Len(list) |-> list[i].kind] /\ Len(list) \in Nat
  BY DEF KindsOf
<1> DEFINE kinds == KindsOf(list)
<1> HIDE DEF kinds
<1>3. kinds = [i \in 1 .. Len(list) |-> list[i].kind]
  BY <1>2 DEF kinds
<1> QED
  BY <1>1, <1>2, <1>3 DEF kinds

LEMMA JoinedLists ==
  ASSUME NEW S, NEW a \in Seq(S), NEW b \in Seq(S)
  PROVE  /\ a \o b \in Seq(S) /\ Len(a \o b) = Len(a) + Len(b)
         /\ \A i \in 1 .. Len(a) : (a \o b)[i] = a[i]
         /\ \A i \in Len(a) + 1 .. Len(a) + Len(b) : (a \o b)[i] = b[i - Len(a)]
OBVIOUS

LEMMA JoinedKinds ==
  ASSUME NEW first \in Seq(StampedEvents), NEW second \in Seq(StampedEvents)
  PROVE  /\ first \o second \in Seq(StampedEvents)
         /\ KindsOf(first \o second) = KindsOf(first) \o KindsOf(second)
<1> DEFINE joined == first \o second
           one == KindsOf(first)
           two == KindsOf(second)
           whole == KindsOf(joined)
           m == Len(first)
           n == Len(second)
<1>1. joined \in Seq(StampedEvents) /\ Len(joined) = m + n /\ m \in Nat /\ n \in Nat
  OBVIOUS
<1>2. /\ \A i \in 1 .. m : joined[i] = first[i]
      /\ \A i \in m + 1 .. m + n : joined[i] = second[i - m]
  OBVIOUS
<1> HIDE DEF joined
<1>3. /\ one \in Seq(EventKeys) /\ Len(one) = m /\ \A i \in 1 .. m : one[i] = first[i].kind
      /\ two \in Seq(EventKeys) /\ Len(two) = n /\ \A i \in 1 .. n : two[i] = second[i].kind
  BY KindsList
<1>4. whole \in Seq(EventKeys) /\ Len(whole) = m + n /\ \A i \in 1 .. m + n : whole[i] = joined[i].kind
  BY <1>1, KindsList
<1> HIDE DEF one, two, whole, m, n
<1> DEFINE both == one \o two
<1>5. /\ both \in Seq(EventKeys) /\ Len(both) = m + n
      /\ \A i \in 1 .. m : both[i] = one[i]
      /\ \A i \in m + 1 .. m + n : both[i] = two[i - m]
  <2>1. one \in Seq(EventKeys) /\ two \in Seq(EventKeys) /\ Len(one) = m /\ Len(two) = n
    BY <1>3
  <2>2. /\ both \in Seq(EventKeys) /\ Len(both) = Len(one) + Len(two)
        /\ \A i \in 1 .. Len(one) : both[i] = one[i]
        /\ \A i \in Len(one) + 1 .. Len(one) + Len(two) : both[i] = two[i - Len(one)]
    BY <2>1, JoinedLists
  <2> HIDE DEF both
  <2> QED
    BY <2>1, <2>2
<1> HIDE DEF both
<1>6. ASSUME NEW i \in 1 .. m + n
      PROVE  whole[i] = both[i]
  <2>1. whole[i] = joined[i].kind
    BY <1>4
  <2>2. CASE i <= m
    <3>1. i \in 1 .. m
      BY <1>1, <2>2
    <3> QED
      BY <1>2, <1>3, <1>5, <2>1, <3>1
  <2>3. CASE i > m
    <3>1. i \in m + 1 .. m + n /\ i - m \in 1 .. n
      BY <1>1, <2>3
    <3>2. both[i] = two[i - m] /\ joined[i] = second[i - m] /\ two[i - m] = second[i - m].kind
      BY <1>2, <1>3, <1>5, <3>1
    <3> QED
      BY <2>1, <3>2
  <2> QED
    BY <1>1, <2>2, <2>3
<1>7. whole = both
  BY <1>1, <1>4, <1>5, <1>6
<1> QED
  BY <1>1, <1>7 DEF joined, whole, both, one, two

(* What two stretches of a shot report one after the other.                *)
LEMMA TalliesJoin ==
  ASSUME NEW b1, NEW b2, NEW b3, NEW first, NEW second,
         Tally(b1, Outcome(b2, first)), Tally(b2, Outcome(b3, second))
  PROVE  Tally(b1, Outcome(b3, first \o second))
<1> DEFINE all == first \o second
<1>1. /\ IsTable(b1) /\ DOMAIN b2 = DOMAIN b1 /\ DOMAIN b3 = DOMAIN b2 /\ IsTable(b3)
      /\ first \in Seq(KeysOn(b1)) /\ second \in Seq(KeysOn(b2)) /\ NoneTwice(first) /\ NoneTwice(second)
      /\ \A n : Reported(first, n) => n \in InPlay(b1)
      /\ InPlay(b2) = {n \in InPlay(b1) : ~Reported(first, n)}
      /\ \A n : Reported(second, n) => n \in InPlay(b2)
      /\ InPlay(b3) = {n \in InPlay(b2) : ~Reported(second, n)}
  BY DEF Tally, Outcome
<1>2. all \in Seq(KeysOn(b1))
  <2>1. KeysOn(b2) \subseteq KeysOn(b1)
    BY <1>1 DEF KeysOn
  <2>2. second \in Seq(KeysOn(b1))
    BY <1>1, <2>1
  <2> QED
    BY <1>1, <2>2
<1>3. /\ \A i \in DOMAIN first : i \in DOMAIN all /\ all[i] = first[i]
      /\ \A i \in DOMAIN second : i + Len(first) \in DOMAIN all /\ all[i + Len(first)] = second[i]
      /\ \A i \in DOMAIN all : \/ i \in DOMAIN first /\ all[i] = first[i]
                               \/ i - Len(first) \in DOMAIN second /\ all[i] = second[i - Len(first)]
  BY <1>1
<1>4. DOMAIN all \subseteq Int /\ Len(first) \in Int
  BY <1>1
<1> HIDE DEF all
<1>5. \A n : Reported(all, n) <=> Reported(first, n) \/ Reported(second, n)
  BY <1>3 DEF Reported
<1>6. \A n : ~(Reported(first, n) /\ Reported(second, n))
  BY <1>1
<1>7. NoneTwice(all)
  <2> SUFFICES ASSUME NEW i \in DOMAIN all, NEW j \in DOMAIN all, NEW n, Falls(all[i], n), Falls(all[j], n)
               PROVE  i = j
    BY DEF NoneTwice
  <2>1. CASE i \in DOMAIN first /\ all[i] = first[i] /\ j \in DOMAIN first /\ all[j] = first[j]
    BY <1>1, <2>1 DEF NoneTwice
  <2>2. CASE /\ i - Len(first) \in DOMAIN second /\ all[i] = second[i - Len(first)]
             /\ j - Len(first) \in DOMAIN second /\ all[j] = second[j - Len(first)]
    <3>1. i - Len(first) = j - Len(first)
      BY <1>1, <2>2 DEF NoneTwice
    <3> QED
      BY <1>4, <3>1
  <2>3. ASSUME NEW k \in DOMAIN first, NEW l \in DOMAIN second, Falls(first[k], n), Falls(second[l], n)
        PROVE  FALSE
    BY <1>6, <2>3 DEF Reported
  <2> QED
    BY <1>3, <2>1, <2>2, <2>3
<1> QED
  BY <1>1, <1>2, <1>5, <1>7 DEF Tally, Outcome, all

LEMMA AtRestTally ==
  ASSUME NEW bs, NEW b, NEW list, Tally(bs, Outcome(b, list))
  PROVE  Tally(bs, Outcome(AtRest(b), list))
<1>1. IsTable(b) /\ DOMAIN b = DOMAIN bs
  BY DEF Tally, Outcome
<1>2. DOMAIN AtRest(b) = DOMAIN b /\ \A n \in DOMAIN b : IsBall(b[n]) => Remains(b[n], AtRest(b)[n])
  BY DEF AtRest, Remains, IsBall
<1>3. IsTable(AtRest(b)) /\ InPlay(AtRest(b)) = InPlay(b)
  BY <1>1, <1>2 DEF IsTable, Remains, InPlay
<1> QED
  BY <1>1, <1>2, <1>3 DEF Tally, Outcome

LEMMA FallenInit ==
  ASSUME ShotInit
  PROVE  FallenInv
<1>1. PICK f \in Fixtures : balls = f.balls
  BY DEF ShotInit
<1>2. IsTable(balls)
  BY <1>1, TableAssumption DEF ValidTable, BallStates, IsTable, IsBall
<1>3. before = balls /\ tick = 0 /\ events = <<>>
  BY DEF ShotInit
<1>4. KindsOf(events) = <<>>
  BY <1>3 DEF KindsOf
<1>5. Tally(balls, Outcome(balls, <<>>))
  BY <1>2 DEF Tally, Outcome, NoneTwice, Reported
<1> QED
  BY <1>3, <1>4, <1>5 DEF FallenInv

(* A shot starts from the table as it is, with no ball fallen.             *)
LEMMA FallenShoot ==
  ASSUME FallenInv, NEW c, Shoot(c)
  PROVE  FallenInv'
<1> DEFINE moved == Struck(balls[0], c)
           started == << <<Started, 0, 0>> >>
           still == << <<Started, 0, 0>>, <<Settled, 0, 0>> >>
<1>1. IsTable(balls)
  BY DEF FallenInv, Tally, Outcome
<1>2. 0 \in DOMAIN balls /\ IsBall(balls[0])
  BY <1>1 DEF Shoot, InPlay, IsTable
<1>3. Remains(balls[0], moved)
  BY <1>2, StruckRemains
<1>4. before' = balls /\ balls' = [balls EXCEPT ![0] = moved] /\ tick' = 0
  BY DEF Shoot
<1>5. PICK kinds \in {started, still} : events' = Stamped(0, kinds)
  BY DEF Shoot
<1>6. kinds \in Seq(KeysOn(balls))
  <2>1. <<Started, 0, 0>> \in KeysOn(balls) /\ <<Settled, 0, 0>> \in KeysOn(balls)
    BY DEF KeysOn, EventKeys, Started, Settled, Contact, Pocketed
  <2>2. started \in Seq(KeysOn(balls)) /\ still \in Seq(KeysOn(balls))
    BY <2>1
  <2> QED
    BY <1>5, <2>2
<1>7. \A i \in DOMAIN kinds : kinds[i][1] # Pocketed
  BY <1>5 DEF Started, Settled, Pocketed
<1> HIDE DEF moved, started, still
<1>8. events' \in Seq(StampedEvents) /\ KindsOf(events') = kinds
  <2>1. kinds \in Seq(EventKeys)
    BY <1>6, KeysAreKeys
  <2> QED
    BY <1>5, <2>1, StampedKinds
<1>9. IsTable(balls') /\ DOMAIN balls' = DOMAIN balls /\ InPlay(balls') = InPlay(balls)
  BY <1>1, <1>2, <1>3, <1>4 DEF IsTable, Remains, InPlay
<1>10. NoneTwice(kinds) /\ \A n : ~Reported(kinds, n)
  BY <1>7 DEF NoneTwice, Reported, Falls
<1>11. Tally(balls, Outcome(balls', kinds))
  BY <1>1, <1>6, <1>9, <1>10 DEF Tally, Outcome
<1> QED
  BY <1>4, <1>8, <1>11 DEF FallenInv, StampedEvents, KindsOf

(* A tick carries the tally of the shot on.                                *)
LEMMA FallenAdvance ==
  ASSUME FallenInv, AdvanceTick
  PROVE  FallenInv'
<1> DEFINE moved == Advance(balls)
           rest == IsSettled(moved.balls)
           sorted == InOrder(moved.events)
           end == <<Settled, 0, 0>>
           kinds == sorted \o (IF rest THEN <<end>> ELSE <<>>)
<1>1. /\ tick \in Nat /\ events \in Seq(StampedEvents)
      /\ Tally(before, Outcome(balls, KindsOf(events)))
  BY DEF FallenInv, StampedEvents
<1>2. Tally(balls, moved)
  <2>1. IsTable(balls)
    BY <1>1 DEF Tally, Outcome
  <2> QED
    BY <2>1, AdvanceTally
<1>3. /\ balls' = IF rest THEN AtRest(moved.balls) ELSE moved.balls
      /\ events' = events \o Stamped(tick + 1, kinds)
      /\ tick' = tick + 1 /\ before' = before
  BY DEF AdvanceTick
<1> HIDE DEF moved, rest
<1>4. /\ sorted \in Seq(KeysOn(balls))
      /\ NoneTwice(sorted)
      /\ \A n : Reported(sorted, n) <=> Reported(moved.events, n)
  BY <1>2, InOrderTally DEF Tally
<1>5. end \in KeysOn(balls) /\ end[1] # Pocketed
  BY DEF KeysOn, EventKeys, Settled, Contact, Pocketed
<1> HIDE DEF sorted, end
<1>6. /\ kinds \in Seq(KeysOn(balls))
      /\ NoneTwice(kinds)
      /\ \A n : Reported(kinds, n) <=> Reported(moved.events, n)
  <2>1. CASE rest
    <3>1. kinds = Append(sorted, end)
      BY <1>4, <1>5, <2>1
    <3> DEFINE keys == KeysOn(balls)
               longer == Append(sorted, end)
    <3>2. sorted \in Seq(keys) /\ end \in keys /\ end[1] # Pocketed /\ NoneTwice(sorted)
      BY <1>4, <1>5
    <3> HIDE DEF keys, kinds
    <3>3. /\ longer \in Seq(keys) /\ NoneTwice(longer)
          /\ \A n : Reported(longer, n) <=> Reported(sorted, n)
      BY <3>2, OtherEvent
    <3> QED
      BY <1>4, <3>1, <3>3 DEF keys
  <2>2. CASE ~rest
    <3>1. kinds = sorted
      BY <1>4, <2>2
    <3> QED
      BY <1>4, <3>1
  <2> QED
    BY <2>1, <2>2
<1> HIDE DEF kinds
<1>7. Tally(balls, Outcome(moved.balls, kinds))
  BY <1>2, <1>6 DEF Tally, Outcome
<1>8. Tally(balls, Outcome(balls', kinds))
  BY <1>3, <1>7, AtRestTally
<1>9. Tally(before, Outcome(balls', KindsOf(events) \o kinds))
  BY <1>1, <1>8, TalliesJoin
<1> DEFINE emitted == Stamped(tick + 1, kinds)
<1>10. emitted \in Seq(StampedEvents) /\ KindsOf(emitted) = kinds
  <2>1. kinds \in Seq(EventKeys)
    BY <1>6, KeysAreKeys
  <2> QED
    BY <1>1, <2>1, StampedKinds
<1>11. events' = events \o emitted
  BY <1>3
<1> HIDE DEF emitted
<1>12. events' \in Seq(StampedEvents) /\ KindsOf(events') = KindsOf(events) \o kinds
  BY <1>1, <1>10, <1>11, JoinedKinds
<1>13. tick' \in Nat /\ before' = before
  BY <1>1, <1>3
<1> QED
  BY <1>9, <1>12, <1>13 DEF FallenInv, StampedEvents, KindsOf

LEMMA FallenAlways == ShotSpec => []FallenInv
<1>1. ShotInit => FallenInv
  BY FallenInit
<1>2. FallenInv /\ [ShotNext]_shotVars => FallenInv'
  <2> SUFFICES ASSUME FallenInv, [ShotNext]_shotVars
               PROVE  FallenInv'
    OBVIOUS
  <2>1. CASE AdvanceTick
    BY <2>1, FallenAdvance
  <2>2. CASE \E c \in Offered : Shoot(c)
    BY <2>2, FallenShoot
  <2>3. CASE UNCHANGED shotVars
    BY <2>3 DEF FallenInv, shotVars, KindsOf
  <2> QED
    BY <2>1, <2>2, <2>3 DEF ShotNext
<1> QED
  BY <1>1, <1>2, PTL DEF ShotSpec

(* Whatever the table, the profile and the shots, each ball that leaves    *)
(* play is reported once, and the balls in play are those that were before *)
(* the shot and have not been reported: the aggregate, which counts a ball *)
(* from its event, and the table, which counts it from its flag, agree.    *)
THEOREM EachFallIsReported == ShotSpec => []PocketedOnce
<1>1. FallenInv => PocketedOnce
  <2> SUFFICES ASSUME FallenInv
               PROVE  PocketedOnce
    OBVIOUS
  <2> DEFINE kinds == KindsOf(events)
  <2>1. /\ NoneTwice(kinds)
        /\ \A n : Reported(kinds, n) => n \in InPlay(before)
        /\ InPlay(balls) = {n \in InPlay(before) : ~Reported(kinds, n)}
    BY DEF FallenInv, Tally, Outcome
  <2>2. DOMAIN kinds = DOMAIN events /\ \A i \in DOMAIN events : kinds[i] = events[i].kind
    BY DEF KindsOf
  <2> HIDE DEF kinds
  <2>3. ASSUME NEW i \in DOMAIN events, NEW j \in DOMAIN events,
               events[i].kind[1] = Pocketed, events[j].kind = events[i].kind
        PROVE  i = j
    BY <2>1, <2>2, <2>3 DEF NoneTwice, Falls
  <2>4. \A n : Reported(kinds, n) <=> n \in Report.drops
    <3>1. Report.drops = {k[2] : k \in {e \in Kinds : e[1] = Pocketed}}
      BY DEF Report
    <3>2. Kinds = {kinds[i] : i \in DOMAIN kinds}
      BY <2>2 DEF Kinds
    <3> QED
      BY <3>1, <3>2 DEF Reported, Falls
  <2>5. InPlay(balls) = InPlay(before) \ Report.drops
    BY <2>1, <2>4
  <2> QED
    BY <2>3, <2>5 DEF PocketedOnce
<1> QED
  BY <1>1, FallenAlways, PTL

(* The earliest of some events. *)
LEMMA EarliestIndex ==
  ASSUME NEW at, at # {}, at \subseteq Nat
  PROVE  LET i == CHOOSE i \in at : \A j \in at : i <= j IN i \in at /\ \A j \in at : i <= j
<1> DEFINE AllFrom(k) == \A j \in at : k <= j
           T == {k \in Nat : AllFrom(k)}
<1>1. T \subseteq Nat /\ 0 \in T
  BY 0 \in Nat
<1>2. \E i \in at : \A j \in at : i <= j
  <2> SUFFICES ASSUME ~\E i \in at : \A j \in at : i <= j
               PROVE  FALSE
    OBVIOUS
  <2>1. \A k \in T : k + 1 \in T
    <3> SUFFICES ASSUME NEW k \in T
                 PROVE  k + 1 \in T
      OBVIOUS
    <3>1. k \in Nat /\ \A j \in at : k <= j
      OBVIOUS
    <3>2. k \notin at
      BY <3>1
    <3>3. \A j \in at : k + 1 <= j
      BY <3>1, <3>2
    <3> QED
      BY <3>1, <3>3
  <2>2. T = Nat
    <3> HIDE DEF T
    <3> QED
      BY <1>1, <2>1, Upwards
  <2>3. PICK j \in at : TRUE
    OBVIOUS
  <2>4. j + 1 \in T
    BY <2>2, <2>3
  <2> QED
    BY <2>3, <2>4
<1> QED
  BY <1>2

(* What the simulation tells the rules of a shot, were it not for the      *)
(* positions: that a ball falls untouched only if it is the cue ball.      *)
ReportFits ==
  (Report.contact = -1 => Report.drops \subseteq {0}) => Report \in Rules!Shots

LEMMA TouchedFits ==
  FallenInv => ReportFits
<1> SUFFICES ASSUME FallenInv, Report.contact = -1 => Report.drops \subseteq {0}
             PROVE  Report \in Rules!Shots
  BY DEF ReportFits
<1> DEFINE kinds == KindsOf(events)
<1>1. /\ IsTable(before) /\ kinds \in Seq(KeysOn(before))
      /\ \A n : Reported(kinds, n) => n \in InPlay(before)
  BY DEF FallenInv, Tally, Outcome
<1>2. DOMAIN kinds = DOMAIN events /\ DOMAIN events \subseteq Nat /\ \A i \in DOMAIN events : kinds[i] = events[i].kind
  <2>1. events \in Seq(StampedEvents)
    BY DEF FallenInv
  <2> QED
    BY <2>1 DEF KindsOf
<1> HIDE DEF kinds
<1>3. \A i \in DOMAIN events : events[i].kind \in KeysOn(before)
  BY <1>1, <1>2
<1>4. InPlay(before) \subseteq 0 .. 15
  BY <1>1 DEF IsTable, InPlay
<1>5. ASSUME NEW k \in Kinds
      PROVE  /\ k[1] = Contact => k[2] < k[3] /\ k[2] \in InPlay(before) /\ k[3] \in InPlay(before)
             /\ k[1] = Pocketed => k[2] \in InPlay(before) /\ k[3] \in 0 .. 5
  <2>1. PICK i \in DOMAIN events : k = events[i].kind
    BY DEF Kinds
  <2>2. k \in KeysOn(before)
    BY <1>3, <2>1
  <2>3. k[1] = Pocketed => Reported(kinds, k[2])
    BY <1>2, <2>1 DEF Reported, Falls
  <2> QED
    BY <1>1, <2>2, <2>3 DEF KeysOn, EventKeys
<1> DEFINE r == Report
           touch == FirstAt(ByCue)
           group == FirstAt(OfAGroup)
           eight == {k \in Kinds : k[1] = Pocketed /\ k[2] = 8}
<1>6. touch = 0 \/ (touch \in DOMAIN events /\ ByCue(events[touch].kind))
  <2> DEFINE at == {i \in DOMAIN events : ByCue(events[i].kind)}
  <2>1. touch = IF at = {} THEN 0 ELSE CHOOSE i \in at : \A j \in at : i <= j
    BY DEF FirstAt
  <2>2. at \subseteq Nat
    BY <1>2
  <2>3. CASE at = {}
    BY <2>1, <2>3
  <2>4. CASE at # {}
    <3> HIDE DEF at
    <3>1. touch \in at
      BY <2>1, <2>2, <2>4, EarliestIndex
    <3> QED
      BY <3>1 DEF at
  <2> QED
    BY <2>3, <2>4
<1>7. \/ group = 0 /\ \A i \in DOMAIN events : ~OfAGroup(events[i].kind)
      \/ group # 0 /\ group \in DOMAIN events /\ OfAGroup(events[group].kind)
  <2> DEFINE at == {i \in DOMAIN events : OfAGroup(events[i].kind)}
  <2>1. group = IF at = {} THEN 0 ELSE CHOOSE i \in at : \A j \in at : i <= j
    BY DEF FirstAt
  <2>2. at \subseteq Nat /\ 0 \notin at
    <3>1. events \in Seq(StampedEvents)
      BY DEF FallenInv
    <3> QED
      BY <3>1
  <2>3. CASE at = {}
    BY <2>1, <2>3
  <2>4. CASE at # {}
    <3> HIDE DEF at
    <3>1. group \in at
      BY <2>1, <2>2, <2>4, EarliestIndex
    <3> QED
      BY <2>2, <3>1 DEF at
  <2> QED
    BY <2>3, <2>4
<1>8. r = [ contact |-> IF touch = 0 THEN -1 ELSE Larger(events[touch].kind[2], events[touch].kind[3]),
            drops   |-> {k[2] : k \in {e \in Kinds : e[1] = Pocketed}},
            first   |-> IF group = 0 THEN -1 ELSE events[group].kind[2],
            rail    |-> touch # 0 /\ \E i \in DOMAIN events :
                          events[i].tick >= events[touch].tick /\ events[i].kind[1] = Cushion,
            pocket  |-> IF eight = {} THEN 0 ELSE (CHOOSE k \in eight : TRUE)[3],
            called  |-> -1 ]
  BY DEF Report
<1> HIDE DEF r, touch, group, eight
<1>9. r.contact \in (InPlay(before) \ {0}) \cup {-1} /\ (r.contact = -1 => touch = 0)
  <2>1. CASE touch = 0
    BY <1>8, <2>1
  <2>2. CASE touch # 0
    <3> DEFINE k == events[touch].kind
    <3>1. k \in Kinds /\ k[1] = Contact
      BY <1>6, <2>2 DEF Kinds, ByCue
    <3>2. r.contact = Larger(k[2], k[3])
      BY <1>8, <2>2
    <3> HIDE DEF k
    <3>3. k[2] < k[3] /\ k[2] \in InPlay(before) /\ k[3] \in InPlay(before)
      BY <1>5, <3>1
    <3>4. k[2] \in 0 .. 15 /\ k[3] \in 0 .. 15
      BY <1>4, <3>3
    <3>5. r.contact = k[3] /\ k[3] > 0
      BY <3>2, <3>3, <3>4 DEF Larger
    <3> QED
      BY <3>3, <3>5
  <2> QED
    BY <2>1, <2>2
<1>10. r.drops \subseteq InPlay(before)
  BY <1>5, <1>8
<1>11. IF r.drops \cap (1 .. 7 \cup 9 .. 15) = {} THEN r.first = -1 ELSE r.first \in r.drops \cap (1 .. 7 \cup 9 .. 15)
  <2>1. CASE group = 0
    <3>1. r.drops \cap (1 .. 7 \cup 9 .. 15) = {}
      <4> SUFFICES ASSUME NEW n \in r.drops, n \in 1 .. 7 \cup 9 .. 15
                   PROVE  FALSE
        OBVIOUS
      <4>1. PICK k \in Kinds : k[1] = Pocketed /\ k[2] = n
        BY <1>8
      <4>2. PICK i \in DOMAIN events : k = events[i].kind
        BY DEF Kinds
      <4>3. ~OfAGroup(events[i].kind)
        BY <1>7, <2>1
      <4>4. n # 0 /\ n # 8
        OBVIOUS
      <4> QED
        BY <4>1, <4>2, <4>3, <4>4 DEF OfAGroup
    <3> QED
      BY <1>8, <2>1, <3>1
  <2>2. CASE group # 0
    <3> DEFINE k == events[group].kind
    <3>1. k \in Kinds /\ k[1] = Pocketed /\ k[2] \notin {0, 8}
      BY <1>7, <2>2 DEF Kinds, OfAGroup
    <3>2. r.first = k[2]
      BY <1>8, <2>2
    <3> HIDE DEF k
    <3>3. k[2] \in r.drops
      BY <1>8, <3>1
    <3>4. k[2] \in 0 .. 15
      BY <1>4, <1>10, <3>3
    <3> QED
      BY <3>1, <3>2, <3>3, <3>4
  <2> QED
    BY <2>1, <2>2
<1>12. r.pocket \in 0 .. 5 /\ r.called = -1
  <2>1. CASE eight = {}
    BY <1>8, <2>1
  <2>2. CASE eight # {}
    <3>1. (CHOOSE k \in eight : TRUE) \in eight
      BY <2>2
    <3> QED
      BY <1>5, <1>8, <2>2, <3>1 DEF eight
  <2> QED
    BY <1>8, <2>1, <2>2
<1>13. r.rail \in BOOLEAN /\ (r.contact = -1 => ~r.rail)
  BY <1>8, <1>9
<1> DEFINE down == (0 .. 15) \ InPlay(before)
           objects == 1 .. 7 \cup 9 .. 15 \cup {8}
<1>14. /\ Rules!Balls \ down = InPlay(before)
       /\ Rules!Objects \ down = InPlay(before) \ {0}
       /\ Rules!GroupBalls = 1 .. 7 \cup 9 .. 15
       /\ Rules!GroupBalls \ down = InPlay(before) \cap (1 .. 7 \cup 9 .. 15)
  <2>1. Rules!GroupBalls = 1 .. 7 \cup 9 .. 15
    BY DEF Rules!GroupBalls
  <2>2. Rules!Objects = 1 .. 15
    BY DEF Rules!Objects, Rules!GroupBalls
  <2>3. Rules!Balls = 0 .. 15
    BY <2>2 DEF Rules!Balls
  <2> QED
    BY <1>4, <2>1, <2>2, <2>3
<1>15. Rules!Shots =
         { s \in [ contact : (InPlay(before) \ {0}) \cup {-1}, drops : SUBSET InPlay(before),
                   first : (InPlay(before) \cap (1 .. 7 \cup 9 .. 15)) \cup {-1},
                   rail : BOOLEAN, pocket : 0 .. 5, called : 0 .. 5 \cup {-1} ] :
             /\ s.contact = -1 => s.drops \subseteq {0} /\ ~s.rail
             /\ IF s.drops \cap Rules!GroupBalls = {} THEN s.first = -1 ELSE s.first \in s.drops }
  BY <1>14 DEF Rules!Shots
<1>16. r = [contact |-> r.contact, drops |-> r.drops, first |-> r.first,
            rail |-> r.rail, pocket |-> r.pocket, called |-> r.called]
  BY <1>8
<1>17. r.first \in (InPlay(before) \cap (1 .. 7 \cup 9 .. 15)) \cup {-1}
  BY <1>10, <1>11
<1>18. r.contact = -1 => r.drops \subseteq {0}
  BY DEF r
<1>19. r \in [ contact : (InPlay(before) \ {0}) \cup {-1}, drops : SUBSET InPlay(before),
               first : (InPlay(before) \cap (1 .. 7 \cup 9 .. 15)) \cup {-1},
               rail : BOOLEAN, pocket : 0 .. 5, called : 0 .. 5 \cup {-1} ]
  BY <1>9, <1>10, <1>12, <1>13, <1>16, <1>17
<1>20. IF r.drops \cap Rules!GroupBalls = {} THEN r.first = -1 ELSE r.first \in r.drops
  BY <1>11, <1>14
<1>21. r \in Rules!Shots
  BY <1>13, <1>15, <1>18, <1>19, <1>20
<1> QED
  BY <1>21 DEF r

(* Whatever the table, the profile and the shots, the report the rules get *)
(* of a shot is one they expect, but for what depends on where the balls   *)
(* lie: the first contact is with an object ball that was in play, the     *)
(* balls that fell were in play, the first of a group is one of them, the  *)
(* eight fell into a pocket that is there, and no cushion counts without a *)
(* contact.  That only the cue ball falls untouched is the hypothesis.     *)
THEOREM TouchedReportsAreShots == ShotSpec => []ReportFits
<1>1. FallenInv => ReportFits
  BY TouchedFits
<1> QED
  BY <1>1, FallenAlways, PTL

LEMMA NamesRead ==
  /\ NamesOf(VersionFields) = {"version", "rules"}
  /\ NamesOf(BreakerFields) = {"rackSeed", "breaker"}
  /\ NamesOf(GeometryFields) = {"geometryVersion", "halfWidth", "halfHeight", "ballRadius", "pocketRadius"}
  /\ NamesOf(PhysicsFields) = { "physicsVersion", "ticksPerSecond", "maximumTicks", "maximumSpeed",
                                "rollingDeceleration", "cushionRestitution", "collisionRestitution", "settlingSpeed" }
<1>1. NamesOf(VersionFields) = {"version", "rules"}
  BY DEF NamesOf, VersionFields, Field
<1>2. NamesOf(BreakerFields) = {"rackSeed", "breaker"}
  BY DEF NamesOf, BreakerFields, Field, Raw
<1>3. NamesOf(GeometryFields) = {"geometryVersion", "halfWidth", "halfHeight", "ballRadius", "pocketRadius"}
  BY DEF NamesOf, GeometryFields, Field, Raw
<1>4. NamesOf(PhysicsFields) = { "physicsVersion", "ticksPerSecond", "maximumTicks", "maximumSpeed",
                                 "rollingDeceleration", "cushionRestitution", "collisionRestitution", "settlingSpeed" }
  BY DEF NamesOf, PhysicsFields, Field, Raw
<1> QED
  BY <1>1, <1>2, <1>3, <1>4

LEMMA SaysPart ==
  ASSUME NEW got, NEW whole, Says(got, whole), whole = [c \in DOMAIN whole |-> whole[c]]
  PROVE  Part(got, whole) = whole
BY DEF Says, Part

LEMMA AcceptsWhatIsSaid ==
  ASSUME NEW got, NEW p \in PhysicsProfiles, NEW g \in Geometries, Says(got, p), Says(got, g)
  PROVE  /\ PhysicsAccepts(got) = PhysicsAccepts(p) /\ GeometryAccepts(got) = GeometryAccepts(g)
         /\ Part(got, p) = p /\ Part(got, g) = g
<1>1. DOMAIN p = { "ticksPerSecond", "maximumTicks", "maximumSpeed", "rollingDeceleration", "cushionRestitution",
                   "collisionRestitution", "settlingSpeed" }
      /\ p = [c \in DOMAIN p |-> p[c]]
  BY DEF PhysicsProfiles
<1>2. DOMAIN g = {"halfWidth", "halfHeight", "ballRadius", "pocketRadius"} /\ g = [c \in DOMAIN g |-> g[c]]
  BY DEF Geometries
<1>3. /\ got.maximumTicks = p.maximumTicks /\ got.maximumSpeed = p.maximumSpeed
      /\ got.rollingDeceleration = p.rollingDeceleration /\ got.cushionRestitution = p.cushionRestitution
      /\ got.collisionRestitution = p.collisionRestitution /\ got.settlingSpeed = p.settlingSpeed
  BY <1>1 DEF Says
<1>4. /\ got.halfWidth = g.halfWidth /\ got.halfHeight = g.halfHeight
      /\ got.ballRadius = g.ballRadius /\ got.pocketRadius = g.pocketRadius
  BY <1>2 DEF Says
<1>5. PhysicsAccepts(got) = PhysicsAccepts(p)
  BY <1>3 DEF PhysicsAccepts
<1>6. GeometryAccepts(got) = GeometryAccepts(g)
  BY <1>4 DEF GeometryAccepts
<1> QED
  BY <1>1, <1>2, <1>5, <1>6, SaysPart

(* The physics and the geometry that a payload of a match starts with.     *)
LEMMA PinnedRead ==
  ASSUME NEW p \in PhysicsProfiles, NEW g \in Geometries, NEW bytes, NEW rest \in Seq(Byte),
         Ends(bytes, 0, (Be(2, 1) \o Be(2, 1)) \o (PhysicsBytes(p) \o (GeometryBytes(g) \o rest)))
  PROVE  \E j, later : /\ ReadsTo(bytes, 0, << >>, PinnedFields, j, later, rest)
                       /\ Says(later, p) /\ Says(later, g)
<1> DEFINE P == PhysicsBytes(p)
           G == GeometryBytes(g)
           V == Be(2, 1) \o Be(2, 1)
<1>1. Payload(G \o rest) /\ Payload(P \o (G \o rest))
  BY RowTypes, PayloadsJoin DEF Payload
<1>2. G \o rest \in Seq(Byte) /\ P \o (G \o rest) \in Seq(Byte)
  BY <1>1 DEF Payload
<1> DEFINE r1 == P \o (G \o rest)
           r2 == G \o rest
<1>3. r1 \in Seq(Byte) /\ r2 \in Seq(Byte) /\ Ends(bytes, 0, V \o r1)
  BY <1>2
<1>4. r1 = P \o r2 /\ r2 = G \o rest
  OBVIOUS
<1> HIDE DEF r1, r2, P, G
<1>5. PICK j1, l1 : ReadsTo(bytes, 0, << >>, VersionFields, j1, l1, r1)
  BY <1>3, VersionsRead
<1>6. Ends(bytes, j1, P \o r2)
  BY <1>4, <1>5 DEF ReadsTo
<1>7. PICK j2, l2 : ReadsTo(bytes, j1, l1, PhysicsFields, j2, l2, r2) /\ Says(l2, p)
  BY <1>3, <1>6, PhysicsRead DEF P
<1>8. Ends(bytes, j2, G \o rest)
  BY <1>4, <1>7 DEF ReadsTo
<1>9. PICK j3, l3 : /\ ReadsTo(bytes, j2, l2, GeometryFields, j3, l3, rest)
                    /\ Says(l3, g) /\ KeepsBut(l2, l3, NamesOf(GeometryFields))
  BY <1>8, GeometryRead DEF G
<1>10. Says(l3, p)
  <2>1. DOMAIN p \cap NamesOf(GeometryFields) = {}
    <3>1. DOMAIN p = { "ticksPerSecond", "maximumTicks", "maximumSpeed", "rollingDeceleration",
                       "cushionRestitution", "collisionRestitution", "settlingSpeed" }
      BY DEF PhysicsProfiles
    <3> QED
      BY <3>1, NamesRead
  <2> QED
    BY <1>7, <1>9, <2>1, StillSays
<1>11. ReadsTo(bytes, 0, << >>, VersionFields \o PhysicsFields, j2, l2, r2)
  BY <1>5, <1>7, ReadsOn, FieldLists
<1>12. VersionFields \o PhysicsFields \in Seq(AnyField)
  BY FieldLists
<1>13. ReadsTo(bytes, 0, << >>, (VersionFields \o PhysicsFields) \o GeometryFields, j3, l3, rest)
  BY <1>9, <1>11, <1>12, ReadsOn, FieldLists
<1>14. PinnedFields = (VersionFields \o PhysicsFields) \o GeometryFields
  BY Zenon DEF PinnedFields, VersionFields
<1> QED
  BY <1>9, <1>10, <1>13, <1>14

LEMMA PinnedFieldList == PinnedFields \in Seq(AnyField)
<1>1. PinnedFields = (VersionFields \o PhysicsFields) \o GeometryFields
  BY Zenon DEF PinnedFields, VersionFields
<1>2. VersionFields \o PhysicsFields \in Seq(AnyField)
  BY FieldLists
<1> QED
  BY <1>1, <1>2, FieldLists

LEMMA VersionsType == Payload(Be(2, 1) \o Be(2, 1))
<1>1. Be(2, 1) \in Word(2)
  BY BeType
<1>2. Payload(Be(2, 1))
  BY <1>1, WordLength DEF Payload
<1> QED
  BY <1>2, PayloadsJoin

(* A configuration is what is read back from its encoding, whatever it is. *)
LEMMA ConfigurationRead ==
  ASSUME breaker \in Player
  PROVE  ConfigurationSurvives
<1> DEFINE P == PhysicsBytes(Physics)
           G == GeometryBytes(Geometry)
           V == Be(2, 1) \o Be(2, 1)
           bytes == ConfigurationBytes(Configuration)
<1>1. Physics \in PhysicsProfiles /\ PhysicsAccepts(Physics) /\ Geometry \in Geometries /\ GeometryAccepts(Geometry)
      /\ RackSeed \in Word(8)
  BY ConfigurationAssumption
<1>2. PICK n \in {1, 2} : PlayerBytes(breaker) = <<n>> /\ PlayerAt(n) = breaker
  BY PlayerRoundTrip
<1> DEFINE last == <<n>>
           tail == RackSeed \o last
<1>3. Payload(V) /\ Payload(P) /\ Payload(G) /\ Payload(RackSeed) /\ Payload(last)
  <2>1. n \in Byte
    BY DEF Byte
  <2> QED
    BY <1>1, <2>1, RowTypes, VersionsType, WordLength DEF Payload
<1>4. bytes = (((V \o P) \o G) \o RackSeed) \o last
  BY <1>2, Zenon DEF ConfigurationBytes, Configuration
<1> HIDE DEF P, G, V, bytes, last
<1>5. ThreeInFront(V, P, G, RackSeed, last)
  BY <1>3, NestedThree
<1>6. bytes = V \o (P \o (G \o tail))
  BY <1>4, <1>5, Zenon DEF ThreeInFront
<1>7. Payload(tail) /\ Payload(bytes)
  BY <1>3, <1>6, PayloadsJoin
<1> HIDE DEF tail
<1>8. Ends(bytes, 0, V \o (P \o (G \o tail)))
  BY <1>6, <1>7, EndsWhole DEF Payload
<1>9. PICK j, l : /\ ReadsTo(bytes, 0, << >>, PinnedFields, j, l, tail)
                  /\ Says(l, Physics) /\ Says(l, Geometry)
  BY <1>1, <1>7, <1>8, PinnedRead DEF V, P, G, Payload
<1>10. Ends(bytes, j, tail \o << >>)
  <2>1. tail \o << >> = tail
    BY <1>7 DEF Payload
  <2> QED
    BY <1>9, <2>1 DEF ReadsTo
<1>11. PICK k, m : /\ ReadsTo(bytes, j, l, BreakerFields, k, m, << >>)
                   /\ Says(m, [rackSeed |-> RackSeed, breaker |-> n]) /\ KeepsBut(l, m, NamesOf(BreakerFields))
  <2>1. << >> \in Seq(Byte)
    OBVIOUS
  <2> QED
    BY <1>1, <1>10, <2>1, BreakerRead DEF tail, last
<1>12. Says(m, Physics) /\ Says(m, Geometry)
  <2>1. DOMAIN Physics = { "ticksPerSecond", "maximumTicks", "maximumSpeed", "rollingDeceleration",
                           "cushionRestitution", "collisionRestitution", "settlingSpeed" }
    BY <1>1 DEF PhysicsProfiles
  <2>2. DOMAIN Geometry = {"halfWidth", "halfHeight", "ballRadius", "pocketRadius"}
    BY <1>1 DEF Geometries
  <2>3. DOMAIN Physics \cap NamesOf(BreakerFields) = {} /\ DOMAIN Geometry \cap NamesOf(BreakerFields) = {}
    BY <2>1, <2>2, NamesRead
  <2> QED
    BY <1>9, <1>11, <2>3, StillSays
<1>13. ReadsTo(bytes, 0, << >>, PinnedFields \o BreakerFields, k, m, << >>)
  BY <1>9, <1>11, ReadsOn, FieldLists, PinnedFieldList
<1> DEFINE r == ReadAll(Reader(bytes), PinnedFields \o BreakerFields)
<1>14. r = Got(bytes, k, m) /\ Finished(r)
  <2>1. Reader(bytes) = Got(bytes, 0, << >>)
    BY DEF Reader, Got
  <2>2. r = Got(bytes, k, m) /\ Ends(bytes, k, << >>)
    BY <1>13, <2>1 DEF ReadsTo
  <2> QED
    BY <2>2, FinishedAtTheEnd
<1>15. r.got = m
  BY <1>14 DEF Got
<1>16. m.rackSeed = RackSeed /\ m.breaker = n
  BY <1>11 DEF Says
<1>17. PhysicsAccepts(m) /\ GeometryAccepts(m) /\ Part(m, Physics) = Physics /\ Part(m, Geometry) = Geometry
  BY <1>1, <1>12, AcceptsWhatIsSaid
<1> HIDE DEF r
<1>18. ConfigurationFrom(bytes) = IF Finished(r) /\ PhysicsAccepts(r.got) /\ GeometryAccepts(r.got)
                                 THEN [ physics  |-> Part(r.got, Physics), geometry |-> Part(r.got, Geometry),
                                        rackSeed |-> r.got.rackSeed,       breaker  |-> PlayerAt(r.got.breaker) ]
                                 ELSE Refused
  BY Zenon DEF ConfigurationFrom, BreakerFields, r
<1>19. ConfigurationFrom(bytes) = [physics |-> Physics, geometry |-> Geometry, rackSeed |-> RackSeed, breaker |-> breaker]
  BY <1>2, <1>14, <1>15, <1>16, <1>17, <1>18
<1> QED
  BY <1>19 DEF bytes, ConfigurationSurvives, Configuration

(* What stands between the geometry and the status of a state.             *)
StateFields ==
  << Raw("rackSeed", 8), Raw("reracks", 4), Field("active", 1, {1, 2}), Field("breaker", 1, {1, 2}),
     Flag("pending"), Field("group", 1, 0 .. 2), Flag("inHand") >>

StateBytes(seed, reracks, a, b, d, e, f) == seed \o reracks \o <<a>> \o <<b>> \o <<d>> \o <<e>> \o <<f>>

StateSaid(seed, reracks, a, b, d, e, f) ==
  [rackSeed |-> seed, reracks |-> reracks, active |-> a, breaker |-> b, pending |-> d, group |-> e, inHand |-> f]

StateIsRead(bytes, at, got, rest, seed, reracks, a, b, d, e, f) ==
  \E j, later : /\ ReadsTo(bytes, at, got, StateFields, j, later, rest)
                /\ Says(later, StateSaid(seed, reracks, a, b, d, e, f)) /\ KeepsBut(got, later, NamesOf(StateFields))

LEMMA StateFieldsRead ==
  ASSUME NEW seed \in Word(8), NEW reracks \in Word(4), NEW a \in {1, 2}, NEW b \in {1, 2},
         NEW d \in {0, 1}, NEW e \in 0 .. 2, NEW f \in {0, 1},
         NEW bytes, NEW at, NEW got, NEW rest \in Seq(Byte), Ends(bytes, at, StateBytes(seed, reracks, a, b, d, e, f) \o rest)
  PROVE  StateIsRead(bytes, at, got, rest, seed, reracks, a, b, d, e, f)
<1> DEFINE parts == << seed, reracks, <<a>>, <<b>>, <<d>>, <<e>>, <<f>> >>
           fields == StateFields
<1>1. Len(parts) = 7 /\ Len(fields) = 7
  BY DEF StateFields
<1>2. /\ parts[1] = seed
      /\ parts[2] = reracks
      /\ parts[3] = <<a>>
      /\ parts[4] = <<b>>
      /\ parts[5] = <<d>>
      /\ parts[6] = <<e>>
      /\ parts[7] = <<f>>
  OBVIOUS
<1>3. /\ fields[1] = Raw("rackSeed", 8)
      /\ fields[2] = Raw("reracks", 4)
      /\ fields[3] = Field("active", 1, {1, 2})
      /\ fields[4] = Field("breaker", 1, {1, 2})
      /\ fields[5] = Field("pending", 1, {0, 1})
      /\ fields[6] = Field("group", 1, 0 .. 2)
      /\ fields[7] = Field("inHand", 1, {0, 1})
  BY DEF StateFields, Flag
<1>4. FieldFits(seed, Raw("rackSeed", 8)) /\ Value(seed) = seed
  BY RawFits
<1>5. FieldFits(reracks, Raw("reracks", 4)) /\ Value(reracks) = reracks
  BY RawFits
<1>6. FieldFits(<<a>>, Field("active", 1, {1, 2})) /\ Value(<<a>>) = a
  <2>1. a \in Byte
    BY DEF Byte
  <2> QED
    BY <2>1, ByteFits
<1>7. FieldFits(<<b>>, Field("breaker", 1, {1, 2})) /\ Value(<<b>>) = b
  <2>1. b \in Byte
    BY DEF Byte
  <2> QED
    BY <2>1, ByteFits
<1>8. FieldFits(<<d>>, Field("pending", 1, {0, 1})) /\ Value(<<d>>) = d
  <2>1. d \in Byte
    BY DEF Byte
  <2> QED
    BY <2>1, ByteFits
<1>9. FieldFits(<<e>>, Field("group", 1, 0 .. 2)) /\ Value(<<e>>) = e
  <2>1. e \in Byte
    BY DEF Byte
  <2> QED
    BY <2>1, ByteFits
<1>10. FieldFits(<<f>>, Field("inHand", 1, {0, 1})) /\ Value(<<f>>) = f
  <2>1. f \in Byte
    BY DEF Byte
  <2> QED
    BY <2>1, ByteFits
<1>11. Joined(parts) = StateBytes(seed, reracks, a, b, d, e, f)
  <2>1. /\ seed \in Seq(Byte) /\ reracks \in Seq(Byte) /\ <<a>> \in Seq(Byte) /\ <<b>> \in Seq(Byte)
        /\ <<d>> \in Seq(Byte) /\ <<e>> \in Seq(Byte) /\ <<f>> \in Seq(Byte)
    BY <1>4, <1>5, <1>6, <1>7, <1>8, <1>9, <1>10 DEF FieldFits
  <2>2. JoinsSeven(seed, reracks, <<a>>, <<b>>, <<d>>, <<e>>, <<f>>)
    BY <2>1, JoinedSeven
  <2> QED
    BY <2>2, Zenon DEF JoinsSeven, StateBytes
<1> HIDE DEF parts, fields
<1>12. RowFits(parts, fields, 7)
  <2>1. ASSUME NEW i \in 1 .. 7
        PROVE  FieldFits(parts[i], fields[i])
    <3>1. CASE i = 1
      BY <1>2, <1>3, <1>4, <3>1
    <3>2. CASE i = 2
      BY <1>2, <1>3, <1>5, <3>2
    <3>3. CASE i = 3
      BY <1>2, <1>3, <1>6, <3>3
    <3>4. CASE i = 4
      BY <1>2, <1>3, <1>7, <3>4
    <3>5. CASE i = 5
      BY <1>2, <1>3, <1>8, <3>5
    <3>6. CASE i = 6
      BY <1>2, <1>3, <1>9, <3>6
    <3>7. CASE i = 7
      BY <1>2, <1>3, <1>10, <3>7
    <3> QED
      BY <3>1, <3>2, <3>3, <3>4, <3>5, <3>6, <3>7
  <2> DEFINE Place == [ rackSeed |-> 1,
                        reracks |-> 2,
                        active |-> 3,
                        breaker |-> 4,
                        pending |-> 5,
                        group |-> 6,
                        inHand |-> 7 ]
  <2>2. Place.rackSeed = 1 /\ Place.reracks = 2 /\ Place.active = 3 /\ Place.breaker = 4 /\ Place.pending = 5 /\ Place.group = 6 /\ Place.inHand = 7
    OBVIOUS
  <2> HIDE DEF Place
  <2>a. ASSUME NEW i \in 1 .. 7
        PROVE  Place[fields[i].name] = i
    <3>1. CASE i = 1
      <4>1. fields[i].name = "rackSeed"
        BY <1>3, <3>1 DEF Field, Raw
      <4> QED
        BY <2>2, <3>1, <4>1
    <3>2. CASE i = 2
      <4>1. fields[i].name = "reracks"
        BY <1>3, <3>2 DEF Field, Raw
      <4> QED
        BY <2>2, <3>2, <4>1
    <3>3. CASE i = 3
      <4>1. fields[i].name = "active"
        BY <1>3, <3>3 DEF Field, Raw
      <4> QED
        BY <2>2, <3>3, <4>1
    <3>4. CASE i = 4
      <4>1. fields[i].name = "breaker"
        BY <1>3, <3>4 DEF Field, Raw
      <4> QED
        BY <2>2, <3>4, <4>1
    <3>5. CASE i = 5
      <4>1. fields[i].name = "pending"
        BY <1>3, <3>5 DEF Field, Raw
      <4> QED
        BY <2>2, <3>5, <4>1
    <3>6. CASE i = 6
      <4>1. fields[i].name = "group"
        BY <1>3, <3>6 DEF Field, Raw
      <4> QED
        BY <2>2, <3>6, <4>1
    <3>7. CASE i = 7
      <4>1. fields[i].name = "inHand"
        BY <1>3, <3>7 DEF Field, Raw
      <4> QED
        BY <2>2, <3>7, <4>1
    <3> QED
      BY <3>1, <3>2, <3>3, <3>4, <3>5, <3>6, <3>7
  <2>3. \A i, k \in 1 .. 7 : fields[i].name = fields[k].name => i = k
    BY <2>a
  <2> QED
    BY <1>1, <2>1, <2>3 DEF RowFits
<1>13. PICK j, later : /\ ReadsTo(bytes, at, got, fields, j, later, rest)
                       /\ Written(later, parts, fields) /\ KeepsBut(got, later, NamesOf(fields))
  BY <1>11, <1>12, RowWritten
<1>14. "rackSeed" \in DOMAIN later /\ later["rackSeed"] = seed
  <2>1. fields[1].name \in DOMAIN later /\ later[fields[1].name] = Value(parts[1])
    BY <1>1, <1>13 DEF Written
  <2>2. fields[1].name = "rackSeed"
    BY <1>3 DEF Field, Raw
  <2> QED
    BY <1>2, <1>4, <2>1, <2>2
<1>15. "reracks" \in DOMAIN later /\ later["reracks"] = reracks
  <2>1. fields[2].name \in DOMAIN later /\ later[fields[2].name] = Value(parts[2])
    BY <1>1, <1>13 DEF Written
  <2>2. fields[2].name = "reracks"
    BY <1>3 DEF Field, Raw
  <2> QED
    BY <1>2, <1>5, <2>1, <2>2
<1>16. "active" \in DOMAIN later /\ later["active"] = a
  <2>1. fields[3].name \in DOMAIN later /\ later[fields[3].name] = Value(parts[3])
    BY <1>1, <1>13 DEF Written
  <2>2. fields[3].name = "active"
    BY <1>3 DEF Field, Raw
  <2> QED
    BY <1>2, <1>6, <2>1, <2>2
<1>17. "breaker" \in DOMAIN later /\ later["breaker"] = b
  <2>1. fields[4].name \in DOMAIN later /\ later[fields[4].name] = Value(parts[4])
    BY <1>1, <1>13 DEF Written
  <2>2. fields[4].name = "breaker"
    BY <1>3 DEF Field, Raw
  <2> QED
    BY <1>2, <1>7, <2>1, <2>2
<1>18. "pending" \in DOMAIN later /\ later["pending"] = d
  <2>1. fields[5].name \in DOMAIN later /\ later[fields[5].name] = Value(parts[5])
    BY <1>1, <1>13 DEF Written
  <2>2. fields[5].name = "pending"
    BY <1>3 DEF Field, Raw
  <2> QED
    BY <1>2, <1>8, <2>1, <2>2
<1>19. "group" \in DOMAIN later /\ later["group"] = e
  <2>1. fields[6].name \in DOMAIN later /\ later[fields[6].name] = Value(parts[6])
    BY <1>1, <1>13 DEF Written
  <2>2. fields[6].name = "group"
    BY <1>3 DEF Field, Raw
  <2> QED
    BY <1>2, <1>9, <2>1, <2>2
<1>20. "inHand" \in DOMAIN later /\ later["inHand"] = f
  <2>1. fields[7].name \in DOMAIN later /\ later[fields[7].name] = Value(parts[7])
    BY <1>1, <1>13 DEF Written
  <2>2. fields[7].name = "inHand"
    BY <1>3 DEF Field, Raw
  <2> QED
    BY <1>2, <1>10, <2>1, <2>2
<1>21. Says(later, StateSaid(seed, reracks, a, b, d, e, f))
  <2> DEFINE whole == StateSaid(seed, reracks, a, b, d, e, f)
  <2>1. DOMAIN whole = {"rackSeed", "reracks", "active", "breaker", "pending", "group", "inHand"}
    BY DEF StateSaid
  <2>2. whole.rackSeed = seed /\ whole.reracks = reracks /\ whole.active = a /\ whole.breaker = b /\ whole.pending = d /\ whole.group = e /\ whole.inHand = f
    BY DEF StateSaid
  <2> HIDE DEF whole
  <2>3. Says(later, whole)
    BY <2>1, <2>2, <1>14, <1>15, <1>16, <1>17, <1>18, <1>19, <1>20 DEF Says
  <2> QED
    BY <2>3 DEF whole
<1>22. /\ ReadsTo(bytes, at, got, StateFields, j, later, rest)
       /\ Says(later, StateSaid(seed, reracks, a, b, d, e, f)) /\ KeepsBut(got, later, NamesOf(StateFields))
  BY <1>13, <1>21 DEF fields
<1> QED
  BY <1>22, Zenon DEF StateIsRead

SevenBehind(l, a, b, c, d, e, f, g) ==
  ((((((l \o a) \o b) \o c) \o d) \o e) \o f) \o g = l \o ((((((a \o b) \o c) \o d) \o e) \o f) \o g)

LEMMA NestedSeven ==
  ASSUME NEW l, NEW a, NEW b, NEW c, NEW d, NEW e, NEW f, NEW g,
         Payload(l), Payload(a), Payload(b), Payload(c), Payload(d), Payload(e), Payload(f), Payload(g)
  PROVE  SevenBehind(l, a, b, c, d, e, f, g)
<1> DEFINE ab == a \o b
           abc == ab \o c
           abcd == abc \o d
           abcde == abcd \o e
           abcdef == abcde \o f
<1>1. Payload(ab)
  BY PayloadsJoin
<1>2. Payload(abc)
  BY <1>1, PayloadsJoin
<1>3. Payload(abcd)
  BY <1>2, PayloadsJoin
<1>4. Payload(abcde)
  BY <1>3, PayloadsJoin
<1>5. Payload(abcdef)
  BY <1>4, PayloadsJoin
<1>6. Associate(l, a, b) /\ Associate(l, ab, c) /\ Associate(l, abc, d) /\ Associate(l, abcd, e)
      /\ Associate(l, abcde, f) /\ Associate(l, abcdef, g)
  BY <1>1, <1>2, <1>3, <1>4, <1>5, PayloadsAssociate
<1>7. /\ (l \o a) \o b = l \o ab /\ (l \o ab) \o c = l \o abc /\ (l \o abc) \o d = l \o abcd
      /\ (l \o abcd) \o e = l \o abcde /\ (l \o abcde) \o f = l \o abcdef /\ (l \o abcdef) \o g = l \o (abcdef \o g)
  BY <1>6, Zenon DEF Associate
<1>8. ((((((l \o a) \o b) \o c) \o d) \o e) \o f) \o g = l \o (abcdef \o g)
  BY <1>7, Zenon
<1> QED
  BY <1>8, Zenon DEF SevenBehind

LEMMA RestOfPayload ==
  ASSUME NEW bytes, NEW at, NEW rest, Ends(bytes, at, rest)
  PROVE  SubSeq(bytes, at + 1, Len(bytes)) = rest
<1> DEFINE tail == SubSeq(bytes, at + 1, Len(bytes))
<1>1. /\ bytes \in Seq(Byte) /\ rest \in Seq(Byte) /\ at \in Nat /\ Len(bytes) = at + Len(rest)
      /\ \A i \in 1 .. Len(rest) : bytes[at + i] = rest[i]
  BY DEF Ends, Holds
<1>2. Len(tail) = Len(rest) /\ tail \in Seq(Byte)
  BY <1>1
<1>3. \A i \in 1 .. Len(rest) : tail[i] = rest[i]
  BY <1>1
<1> HIDE DEF tail
<1> DEFINE n == Len(rest)
<1>4. tail = [i \in 1 .. n |-> tail[i]] /\ rest = [i \in 1 .. n |-> rest[i]]
  BY <1>1, <1>2
<1>5. \A i \in 1 .. n : tail[i] = rest[i]
  BY <1>3
<1> HIDE DEF n
<1> QED
  BY <1>4, <1>5 DEF tail

LEMMA StateFieldList == StateFields \in Seq(AnyField)
<1>1. {1, 2} \in SUBSET Int /\ {0, 1} \in SUBSET Int /\ 0 .. 2 \in SUBSET Int /\ {} \in SUBSET Int
  OBVIOUS
<1>2. /\ Raw("rackSeed", 8) \in AnyField /\ Raw("reracks", 4) \in AnyField
      /\ Field("active", 1, {1, 2}) \in AnyField /\ Field("breaker", 1, {1, 2}) \in AnyField
      /\ Field("pending", 1, {0, 1}) \in AnyField /\ Field("group", 1, 0 .. 2) \in AnyField
      /\ Field("inHand", 1, {0, 1}) \in AnyField
  BY <1>1 DEF Field, Raw, AnyField, FieldNames
<1> QED
  BY <1>2 DEF StateFields, Flag

LEMMA StateNames == NamesOf(StateFields) = {"rackSeed", "reracks", "active", "breaker", "pending", "group", "inHand"}
BY DEF NamesOf, StateFields, Field, Raw, Flag

(* A payload of no more than that many bytes.                              *)
Short(x, n) == Payload(x) /\ Len(x) <= n

JoinsTo(x, y, w) == w = x \o y

LEMMA ShortJoins ==
  ASSUME NEW x, NEW y, NEW w, NEW m \in Nat, NEW n \in Nat, JoinsTo(x, y, w), Short(x, m), Short(y, n)
  PROVE  Short(w, m + n)
<1>1. Payload(x) /\ Payload(y) /\ Len(x) <= m /\ Len(y) <= n
  BY DEF Short
<1>2. Payload(w) /\ Len(w) = Len(x) + Len(y) /\ Len(x) \in Nat /\ Len(y) \in Nat
  <2>1. /\ Payload(x \o y) /\ Len(x \o y) = Len(x) + Len(y) /\ Len(x) \in Nat /\ Len(y) \in Nat
    BY <1>1, LengthsAdd, Zenon
  <2> QED
    BY <2>1, Zenon DEF JoinsTo
<1> QED
  BY <1>1, <1>2 DEF Short

LEMMA StateType ==
  ASSUME NEW seed \in Word(8), NEW reracks \in Word(4), NEW a \in {1, 2}, NEW b \in {1, 2},
         NEW d \in {0, 1}, NEW e \in 0 .. 2, NEW f \in {0, 1}
  PROVE  Short(StateBytes(seed, reracks, a, b, d, e, f), 17)
<1>1. Short(seed, 8) /\ Short(reracks, 4)
  BY WordLength DEF Payload, Short
<1>2. Short(<<a>>, 1) /\ Short(<<b>>, 1) /\ Short(<<d>>, 1) /\ Short(<<e>>, 1) /\ Short(<<f>>, 1)
  BY DEF Payload, Byte, Short
<1> DEFINE w == seed \o reracks
           w1 == w \o <<a>>
           w2 == w1 \o <<b>>
           w3 == w2 \o <<d>>
           w4 == w3 \o <<e>>
           w5 == w4 \o <<f>>
<1>3. /\ JoinsTo(seed, reracks, w) /\ JoinsTo(w, <<a>>, w1) /\ JoinsTo(w1, <<b>>, w2) /\ JoinsTo(w2, <<d>>, w3)
      /\ JoinsTo(w3, <<e>>, w4) /\ JoinsTo(w4, <<f>>, w5)
  BY Zenon DEF JoinsTo
<1>4. w5 = StateBytes(seed, reracks, a, b, d, e, f)
  BY Zenon DEF StateBytes
<1> HIDE DEF w, w1, w2, w3, w4, w5
<1>5. Short(w, 12)
  BY <1>1, <1>3, ShortJoins
<1>6. Short(w1, 13)
  BY <1>2, <1>3, <1>5, ShortJoins
<1>7. Short(w2, 14)
  BY <1>2, <1>3, <1>6, ShortJoins
<1>8. Short(w3, 15)
  BY <1>2, <1>3, <1>7, ShortJoins
<1>9. Short(w4, 16)
  BY <1>2, <1>3, <1>8, ShortJoins
<1>10. Short(w5, 17)
  BY <1>2, <1>3, <1>9, ShortJoins
<1> QED
  BY <1>4, <1>10

LEMMA WordIsShort ==
  ASSUME NEW width \in Nat, NEW w \in Word(width)
  PROVE  Short(w, width)
BY WordLength DEF Short, Payload

LEMMA PhysicsLength ==
  ASSUME NEW p \in PhysicsProfiles
  PROVE  Short(PhysicsBytes(p), 40)
<1>a. /\ p.maximumTicks \in Word(4) /\ p.maximumSpeed \in Word(8) /\ p.rollingDeceleration \in Word(8)
      /\ p.cushionRestitution \in Word(4) /\ p.collisionRestitution \in Word(4) /\ p.settlingSpeed \in Word(8)
      /\ p.ticksPerSecond \in TickRates
  BY DEF PhysicsProfiles
<1>b. Be(2, 1) \in Word(2) /\ Be(2, p.ticksPerSecond) \in Word(2)
  BY <1>a, TickRateFits, BeType
<1>1. /\ Short(Be(2, 1), 2) /\ Short(Be(2, p.ticksPerSecond), 2)
      /\ Short(p.maximumTicks, 4) /\ Short(p.maximumSpeed, 8) /\ Short(p.rollingDeceleration, 8)
      /\ Short(p.cushionRestitution, 4) /\ Short(p.collisionRestitution, 4) /\ Short(p.settlingSpeed, 8)
  BY <1>a, <1>b, WordIsShort
<1> DEFINE w2 == Be(2, 1) \o Be(2, p.ticksPerSecond)
           w3 == w2 \o p.maximumTicks
           w4 == w3 \o p.maximumSpeed
           w5 == w4 \o p.rollingDeceleration
           w6 == w5 \o p.cushionRestitution
           w7 == w6 \o p.collisionRestitution
           w8 == w7 \o p.settlingSpeed
<1>3. /\ JoinsTo(Be(2, 1), Be(2, p.ticksPerSecond), w2)
      /\ JoinsTo(w2, p.maximumTicks, w3)
      /\ JoinsTo(w3, p.maximumSpeed, w4)
      /\ JoinsTo(w4, p.rollingDeceleration, w5)
      /\ JoinsTo(w5, p.cushionRestitution, w6)
      /\ JoinsTo(w6, p.collisionRestitution, w7)
      /\ JoinsTo(w7, p.settlingSpeed, w8)
  BY Zenon DEF JoinsTo
<1>4. w8 = PhysicsBytes(p)
  BY Zenon DEF PhysicsBytes
<1> HIDE DEF w2, w3, w4, w5, w6, w7, w8
<1>5. Short(w2, 4)
  BY <1>1, <1>3, ShortJoins
<1>6. Short(w3, 8)
  BY <1>1, <1>3, <1>5, ShortJoins
<1>7. Short(w4, 16)
  BY <1>1, <1>3, <1>6, ShortJoins
<1>8. Short(w5, 24)
  BY <1>1, <1>3, <1>7, ShortJoins
<1>9. Short(w6, 28)
  BY <1>1, <1>3, <1>8, ShortJoins
<1>10. Short(w7, 32)
  BY <1>1, <1>3, <1>9, ShortJoins
<1>11. Short(w8, 40)
  BY <1>1, <1>3, <1>10, ShortJoins
<1> QED
  BY <1>4, <1>11

LEMMA GeometryLength ==
  ASSUME NEW g \in Geometries
  PROVE  Short(GeometryBytes(g), 34)
<1>a. /\ g.halfWidth \in Word(8) /\ g.halfHeight \in Word(8) /\ g.ballRadius \in Word(8) /\ g.pocketRadius \in Word(8)
  BY DEF Geometries
<1>b. Be(2, 1) \in Word(2)
  BY BeType
<1>1. /\ Short(Be(2, 1), 2) /\ Short(g.halfWidth, 8) /\ Short(g.halfHeight, 8)
      /\ Short(g.ballRadius, 8) /\ Short(g.pocketRadius, 8)
  BY <1>a, <1>b, WordIsShort
<1> DEFINE w2 == Be(2, 1) \o g.halfWidth
           w3 == w2 \o g.halfHeight
           w4 == w3 \o g.ballRadius
           w5 == w4 \o g.pocketRadius
<1>3. /\ JoinsTo(Be(2, 1), g.halfWidth, w2)
      /\ JoinsTo(w2, g.halfHeight, w3)
      /\ JoinsTo(w3, g.ballRadius, w4)
      /\ JoinsTo(w4, g.pocketRadius, w5)
  BY Zenon DEF JoinsTo
<1>4. w5 = GeometryBytes(g)
  BY Zenon DEF GeometryBytes
<1> HIDE DEF w2, w3, w4, w5
<1>5. Short(w2, 10)
  BY <1>1, <1>3, ShortJoins
<1>6. Short(w3, 18)
  BY <1>1, <1>3, <1>5, ShortJoins
<1>7. Short(w4, 26)
  BY <1>1, <1>3, <1>6, ShortJoins
<1>8. Short(w5, 34)
  BY <1>1, <1>3, <1>7, ShortJoins
<1> QED
  BY <1>4, <1>8

LEMMA StatusLength ==
  ASSUME NEW st \in MatchStatuses
  PROVE  Short(StatusBytes(st), 3)
<1>1. CASE st = InProgress
  <2>1. StatusBytes(st) = <<0>>
    BY <1>1 DEF StatusBytes
  <2>2. Short(<<0>>, 3)
    BY DEF Short, Payload, Byte
  <2> QED
    BY <2>1, <2>2
<1>2. CASE st # InProgress
  <2> DEFINE reason == SelectInSeq(ReasonNames, LAMBDA name : name = st.reason)
             one == <<1>>
             winner == PlayerBytes(st.winner)
             whole == (one \o winner) \o <<reason>>
  <2>1. StatusBytes(st) = whole
    BY <1>2 DEF StatusBytes
  <2>2. Payload(whole)
    BY <2>1, StatusBytesType DEF Payload
  <2>3. st.winner \in Player
    BY <1>2 DEF MatchStatuses, Outcomes
  <2>4. PICK n \in {1, 2} : winner = <<n>>
    BY <2>3, PlayerRoundTrip
  <2>5. whole = (<<1>> \o <<n>>) \o <<reason>>
    BY <2>4
  <2> HIDE DEF reason
  <2>6. Len((<<1>> \o <<n>>) \o <<reason>>) = 3
    OBVIOUS
  <2> QED
    BY <2>1, <2>2, <2>5, <2>6 DEF Short
<1> QED
  BY <1>1, <1>2

(* Everything before the status of a state.                                *)
HeaderIsRead(bytes, rest, p, g, said) ==
  \E j, later : /\ ReadsTo(bytes, 0, << >>, HeaderFields, j, later, rest)
                /\ Says(later, p) /\ Says(later, g) /\ Says(later, said)

LEMMA MatchHeaderRead ==
  ASSUME NEW p \in PhysicsProfiles, NEW g \in Geometries, NEW seed \in Word(8), NEW reracks \in Word(4),
         NEW a \in {1, 2}, NEW b \in {1, 2}, NEW d \in {0, 1}, NEW e \in 0 .. 2, NEW f \in {0, 1},
         NEW bytes, NEW rest \in Seq(Byte),
         Ends(bytes, 0, (Be(2, 1) \o Be(2, 1)) \o (PhysicsBytes(p) \o (GeometryBytes(g)
                           \o (StateBytes(seed, reracks, a, b, d, e, f) \o rest))))
  PROVE  HeaderIsRead(bytes, rest, p, g, StateSaid(seed, reracks, a, b, d, e, f))
<1> DEFINE H == StateBytes(seed, reracks, a, b, d, e, f)
           said == StateSaid(seed, reracks, a, b, d, e, f)
           tail == H \o rest
<1>1. Payload(H)
  BY StateType DEF Short
<1> HIDE DEF H
<1>2. tail \in Seq(Byte)
  BY <1>1, PayloadsJoin DEF Payload
<1>3. Ends(bytes, 0, (Be(2, 1) \o Be(2, 1)) \o (PhysicsBytes(p) \o (GeometryBytes(g) \o tail)))
  BY Zenon DEF H
<1> HIDE DEF tail, said
<1>4. PICK j, l : ReadsTo(bytes, 0, << >>, PinnedFields, j, l, tail) /\ Says(l, p) /\ Says(l, g)
  BY <1>2, <1>3, PinnedRead
<1>5. Ends(bytes, j, H \o rest)
  BY <1>4 DEF ReadsTo, tail
<1>6. PICK k, m : /\ ReadsTo(bytes, j, l, StateFields, k, m, rest)
                  /\ Says(m, said) /\ KeepsBut(l, m, NamesOf(StateFields))
  <2>1. Ends(bytes, j, StateBytes(seed, reracks, a, b, d, e, f) \o rest)
    BY <1>5, Zenon DEF H
  <2>2. StateIsRead(bytes, j, l, rest, seed, reracks, a, b, d, e, f)
    BY <2>1, StateFieldsRead
  <2> QED
    BY <2>2, Zenon DEF said, StateIsRead
<1>7. Says(m, p) /\ Says(m, g)
  <2>1. DOMAIN p = { "ticksPerSecond", "maximumTicks", "maximumSpeed", "rollingDeceleration",
                     "cushionRestitution", "collisionRestitution", "settlingSpeed" }
    BY DEF PhysicsProfiles
  <2>2. DOMAIN g = {"halfWidth", "halfHeight", "ballRadius", "pocketRadius"}
    BY DEF Geometries
  <2>3. DOMAIN p \cap NamesOf(StateFields) = {} /\ DOMAIN g \cap NamesOf(StateFields) = {}
    BY <2>1, <2>2, StateNames
  <2> QED
    BY <1>4, <1>6, <2>3, StillSays
<1>8. ReadsTo(bytes, 0, << >>, PinnedFields \o StateFields, k, m, rest)
  BY <1>4, <1>6, ReadsOn, StateFieldList, PinnedFieldList
<1>9. HeaderFields = PinnedFields \o StateFields
  BY Zenon DEF HeaderFields, StateFields
<1>10. ReadsTo(bytes, 0, << >>, HeaderFields, k, m, rest)
  BY <1>8, <1>9, Zenon
<1>11. Says(m, StateSaid(seed, reracks, a, b, d, e, f))
  BY <1>6 DEF said
<1> DEFINE Read(x, y) == /\ ReadsTo(bytes, 0, << >>, HeaderFields, x, y, rest)
                         /\ Says(y, p) /\ Says(y, g) /\ Says(y, StateSaid(seed, reracks, a, b, d, e, f))
<1>12. Read(k, m)
  BY <1>7, <1>10, <1>11
<1> HIDE DEF Read
<1>13. \E x, y : Read(x, y)
  BY <1>12, Zenon
<1> QED
  BY <1>13, Zenon DEF Read, HeaderIsRead

-----------------------------------------------------------------------------
(* The table of the state.                                                 *)
TableNow == [tick |-> Tick, balls |-> [n \in Balls |-> BallOf(n \in pocketed, Lie[n])]]

LEMMA BallOfLie ==
  ASSUME NEW p \in BOOLEAN, NEW lie \in Lies
  PROVE  IsLaid(BallOf(p, lie))
<1> DEFINE ball == BallOf(p, lie)
           C == {"pocketed"} \cup {Coordinates[k] : k \in DOMAIN Coordinates}
<1>1. ball = [c \in C |-> IF c = "pocketed" THEN p ELSE lie[c]]
  BY DEF BallOf
<1>2. "pocketed" \in C
  OBVIOUS
<1>3. ball.pocketed = p
  BY <1>1, <1>2
<1>4. ASSUME NEW k \in 1 .. 7
      PROVE  ball[Coordinates[k]] = lie[Coordinates[k]] /\ lie[Coordinates[k]] \in Word(8)
  <2>1. Coordinates[k] \in C /\ Coordinates[k] # "pocketed"
    BY CoordinateNames, CoordinatesDiffer
  <2> HIDE DEF C
  <2>2. ball[Coordinates[k]] = lie[Coordinates[k]]
    BY <1>1, <2>1
  <2>3. k = 1 \/ k = 2 \/ k = 3 \/ k = 4 \/ k = 5 \/ k = 6 \/ k = 7
    OBVIOUS
  <2>4. /\ lie.x \in Word(8) /\ lie.y \in Word(8) /\ lie.vx \in Word(8) /\ lie.vy \in Word(8)
        /\ lie.rx \in Word(8) /\ lie.ry \in Word(8) /\ lie.side \in Word(8)
    BY DEF Lies
  <2>5. lie[Coordinates[k]] \in Word(8)
    BY <2>3, <2>4, CoordinateNames
  <2> QED
    BY <2>2, <2>5
<1> HIDE DEF ball, C
<1>5. BallOf(p, ball) = BallOf(p, lie)
  BY <1>4, SameBall
<1>6. ball = BallOf(ball.pocketed, ball)
  BY <1>3, <1>5 DEF ball
<1>7. \A k \in 1 .. 7 : ball[Coordinates[k]] \in Word(8)
  BY <1>4
<1> QED
  BY <1>3, <1>6, <1>7 DEF IsLaid, ball

LEMMA TableNowIsLaid ==
  ASSUME pocketed \subseteq Balls
  PROVE  /\ IsLaidTable(TableNow.balls) /\ DOMAIN TableNow.balls # {} /\ TableAccepts(TableNow.balls, Geometry)
         /\ TableNow = [tick |-> Tick, balls |-> TableNow.balls]
<1> DEFINE laid == [n \in Balls |-> BallOf(n \in pocketed, Lie[n])]
<1>1. TableNow = [tick |-> Tick, balls |-> laid]
  BY DEF TableNow
<1>2. TableNow.balls = laid /\ DOMAIN laid = Balls
  BY <1>1
<1>3. Balls # {}
  BY DEF Balls
<1>4. ASSUME NEW n \in Balls
      PROVE  IsLaid(laid[n])
  <2>1. (n \in pocketed) \in BOOLEAN
    OBVIOUS
  <2>2. Lie[n] \in Lies
    BY LieAssumption
  <2>3. laid[n] = BallOf(n \in pocketed, Lie[n])
    OBVIOUS
  <2> DEFINE p == n \in pocketed
  <2> HIDE DEF laid, p
  <2>4. IsLaid(BallOf(p, Lie[n]))
    BY <2>1, <2>2, BallOfLie DEF p
  <2> QED
    BY <2>3, <2>4 DEF p
<1>5. TableAccepts(laid, Geometry)
  BY LieAssumption
<1>6. Balls \subseteq 0 .. 15
  BY LieAssumption
<1>7. laid = [n \in DOMAIN laid |-> laid[n]]
  OBVIOUS
<1> HIDE DEF laid
<1>8. IsLaidTable(laid)
  BY <1>2, <1>4, <1>6, <1>7 DEF IsLaidTable
<1> QED
  BY <1>1, <1>2, <1>3, <1>5, <1>8

(* A table is accepted on the geometry that was read.                      *)
LEMMA SameGeometry ==
  ASSUME NEW laid, NEW g \in Geometries, NEW got, Says(got, g)
  PROVE  TableAccepts(laid, got) = TableAccepts(laid, g)
<1>1. DOMAIN g = {"halfWidth", "halfHeight", "ballRadius", "pocketRadius"}
  BY DEF Geometries
<1>2. /\ got.halfWidth = g.halfWidth /\ got.halfHeight = g.halfHeight
      /\ got.ballRadius = g.ballRadius /\ got.pocketRadius = g.pocketRadius
  BY <1>1 DEF Says
<1> QED
  BY <1>2 DEF TableAccepts

(* The six parts of a state, and the length of the last.                   *)
SnapshotParts(v, p, g, h, s, size, table) ==
  (((((v \o p) \o g) \o h) \o s) \o size) \o table = v \o (p \o (g \o (h \o (s \o (size \o table)))))

LEMMA SnapshotPartsJoin ==
  ASSUME NEW v, NEW p, NEW g, NEW h, NEW s, NEW size, NEW table,
         Payload(v), Payload(p), Payload(g), Payload(h), Payload(s), Payload(size), Payload(table)
  PROVE  SnapshotParts(v, p, g, h, s, size, table)
<1> DEFINE tail == size \o table
           front == (((v \o p) \o g) \o h) \o s
<1>1. Payload(tail) /\ Payload(v \o p) /\ Payload((v \o p) \o g) /\ Payload(((v \o p) \o g) \o h) /\ Payload(front)
  <2>1. Payload(tail) /\ Payload(v \o p)
    BY PayloadsJoin
  <2>2. Payload((v \o p) \o g)
    BY <2>1, PayloadsJoin
  <2>3. Payload(((v \o p) \o g) \o h)
    BY <2>2, PayloadsJoin
  <2>4. Payload(front)
    BY <2>3, PayloadsJoin
  <2> QED
    BY <2>1, <2>2, <2>3, <2>4
<1>2. Associate(front, size, table)
  BY <1>1, PayloadsAssociate
<1>3. FiveBehind(v, p, g, h, s, tail)
  BY <1>1, NestedFive
<1>4. tail \o << >> = tail
  BY <1>1 DEF Payload
<1> HIDE DEF tail
<1>5. front \o tail = v \o (p \o (g \o (h \o (s \o tail))))
  BY <1>3, <1>4, Zenon DEF FiveBehind
<1> HIDE DEF front
<1>6. (front \o size) \o table = v \o (p \o (g \o (h \o (s \o tail))))
  BY <1>2, <1>5, Zenon DEF Associate, tail
<1> QED
  BY <1>6, Zenon DEF SnapshotParts, front, tail

SnapshotLike(v, p, g, seed, reracks, a, b, d, e, f, s, size, table) ==
  ((((((((((((v \o p) \o g) \o seed) \o reracks) \o a) \o b) \o d) \o e) \o f) \o s) \o size) \o table)
    = (((((v \o p) \o g) \o ((((((seed \o reracks) \o a) \o b) \o d) \o e) \o f)) \o s) \o size) \o table

LEMMA SnapshotLikeParts ==
  ASSUME NEW v, NEW p, NEW g, NEW seed, NEW reracks, NEW a, NEW b, NEW d, NEW e, NEW f, NEW s, NEW size, NEW table,
         Payload(v), Payload(p), Payload(g), Payload(seed), Payload(reracks), Payload(a), Payload(b),
         Payload(d), Payload(e), Payload(f)
  PROVE  SnapshotLike(v, p, g, seed, reracks, a, b, d, e, f, s, size, table)
<1> DEFINE l == (v \o p) \o g
<1>1. Payload(l)
  <2>1. Payload(v \o p)
    BY PayloadsJoin
  <2> QED
    BY <2>1, PayloadsJoin
<1> HIDE DEF l
<1>2. SevenBehind(l, seed, reracks, a, b, d, e, f)
  BY <1>1, NestedSeven
<1>3. ((((((l \o seed) \o reracks) \o a) \o b) \o d) \o e) \o f
        = l \o ((((((seed \o reracks) \o a) \o b) \o d) \o e) \o f)
  BY <1>2, Zenon DEF SevenBehind
<1> QED
  BY <1>3, Zenon DEF SnapshotLike, l

LEMMA KeepsSaid ==
  ASSUME NEW got, NEW later, NEW whole, Says(got, whole), Keeps(got, later),
         DOMAIN whole \cap {"status", "winner", "reason"} = {}, "length" \notin DOMAIN whole, NEW value
  PROVE  Says(With(later, "length", value), whole)
<1> DEFINE last == With(later, "length", value)
<1>1. \A n \in DOMAIN later : n # "length" => n \in DOMAIN last /\ last[n] = later[n]
  BY DEF With
<1> HIDE DEF last
<1>2. ASSUME NEW c \in DOMAIN whole
      PROVE  c \in DOMAIN last /\ last[c] = whole[c]
  <2>1. c \in DOMAIN got /\ got[c] = whole[c] /\ c \notin {"status", "winner", "reason"} /\ c # "length"
    BY DEF Says
  <2>2. c \in DOMAIN later /\ later[c] = got[c]
    BY <2>1 DEF Keeps
  <2> QED
    BY <1>1, <2>1, <2>2
<1> QED
  BY <1>2 DEF Says, last

(* What is left of a snapshot behind its header: the status, the length of *)
(* the table and the table.                                                *)
StatusIsRead(bytes, j, got, st, size, table) ==
  \E k, later : /\ Take(TakeStatus(Got(bytes, j, got)), Raw("length", 4)) = Got(bytes, k, With(later, "length", size))
                /\ Ends(bytes, k, table) /\ SaysStatus(later, st) /\ Keeps(got, later)

LEMMA BehindTheHeader ==
  ASSUME NEW bytes, NEW j, NEW got, NEW st \in MatchStatuses, NEW size \in Word(4), NEW table, Payload(table),
         Ends(bytes, j, StatusBytes(st) \o (size \o table))
  PROVE  StatusIsRead(bytes, j, got, st, size, table)
<1> DEFINE tail == size \o table
<1>1. Payload(size) /\ size \in Seq(Byte) /\ Len(size) = 4 /\ table \in Seq(Byte)
  BY WordLength DEF Payload
<1>2. tail \in Seq(Byte)
  BY <1>1, PayloadsJoin DEF Payload
<1>3. Ends(bytes, j, StatusBytes(st) \o tail)
  OBVIOUS
<1> HIDE DEF tail
<1>4. PICK k, later : /\ TakeStatus(Got(bytes, j, got)) = Got(bytes, k, later)
                      /\ Ends(bytes, k, tail) /\ SaysStatus(later, st) /\ Keeps(got, later)
  BY <1>2, <1>3, TakesStatus
<1>5. Ends(bytes, k, size \o table)
  BY <1>4 DEF tail
<1>6. Holds(bytes, k, size) /\ Ends(bytes, k + 4, table)
  <2>1. Holds(bytes, k, size) /\ Ends(bytes, k + Len(size), table)
    BY <1>1, <1>5, FrontPart
  <2> QED
    BY <1>1, <2>1
<1>7. bytes \in Seq(Byte) /\ k \in Nat
  BY <1>4 DEF Ends
<1>8. Take(Got(bytes, k, later), Raw("length", 4)) = Got(bytes, k + 4, With(later, "length", size))
  BY <1>6, <1>7, TakeRaw
<1>9. Take(TakeStatus(Got(bytes, j, got)), Raw("length", 4)) = Got(bytes, k + 4, With(later, "length", size))
  BY <1>4, <1>8
<1> DEFINE Read(x, y) == /\ Take(TakeStatus(Got(bytes, j, got)), Raw("length", 4)) = Got(bytes, x, With(y, "length", size))
                         /\ Ends(bytes, x, table) /\ SaysStatus(y, st) /\ Keeps(got, y)
<1>10. Read(k + 4, later)
  BY <1>4, <1>6, <1>9
<1> HIDE DEF Read
<1>11. \E x, y : Read(x, y)
  BY <1>10, Zenon
<1> QED
  BY <1>11, Zenon DEF Read, StatusIsRead

LEMMA TableIsTaken ==
  ASSUME NEW bytes, NEW k, NEW got, NEW table, Ends(bytes, k, table), Len(table) <= MaxSnapshotBytes,
         got.length = Be(4, Len(table)), PhysicsAccepts(got), GeometryAccepts(got)
  PROVE  MatchAfter(Got(bytes, k, got)) = MatchOf(got, TableFrom(table, got))
<1> DEFINE r == Got(bytes, k, got)
           n == Len(table)
<1>1. n \in Nat /\ Len(bytes) = k + n /\ k \in Nat
  BY DEF Ends
<1>2. Be(4, n)[1] = 0 /\ Signed(Be(4, n)) = n
  BY <1>1, SizeRoundTrip
<1>3. r.got = got /\ r.ok = TRUE /\ r.bytes = bytes /\ r.at = k /\ Remaining(r) = Len(bytes) - k
  BY DEF Got, Remaining
<1>4. Remaining(r) = n
  BY <1>1, <1>3
<1>5. SubSeq(bytes, k + 1, Len(bytes)) = table
  BY RestOfPayload
<1> HIDE DEF r, n
<1>6. ~(r.got.length[1] > 127) /\ Signed(r.got.length) = n
  BY <1>2, <1>3 DEF n
<1>7. SubSeq(r.bytes, r.at + 1, Len(r.bytes)) = table
  BY <1>3, <1>5
<1> HIDE DEF n
<1>8. MatchAfter(r) = MatchOf(r.got, TableFrom(SubSeq(r.bytes, r.at + 1, Len(r.bytes)), r.got))
  BY <1>3, <1>4, <1>6 DEF MatchAfter
<1> QED
  BY <1>3, <1>7, <1>8 DEF r

(* What is read of a state says all of it.                                 *)
MatchSaid(got, a, b, d, e, f) ==
  /\ Says(got, Physics) /\ Says(got, Geometry)
  /\ Says(got, StateSaid(RackSeed, Be(4, rerackCount), a, b, d, e, f)) /\ SaysStatus(got, status)

LEMMA MatchIsSaid ==
  ASSUME IInv, breaker \in Player, NEW got, NEW a, NEW b, NEW d \in {0, 1}, NEW e, NEW f \in {0, 1},
         PlayerAt(a) = activePlayer, PlayerAt(b) = breaker, (d = 1) = breakPending,
         GroupNames[e + 1] = playerOneGroup, (f = 1) = ballInHand, MatchSaid(got, a, b, d, e, f)
  PROVE  MatchOf(got, TableNow) = Snapshot
<1>1. status \in MatchStatuses /\ (status # InProgress => ~ballInHand)
  BY DEF IInv, TypeOK, CompletedSnapshotDecodes, MatchStatuses
<1>2. /\ got.rackSeed = RackSeed /\ got.reracks = Be(4, rerackCount) /\ got.active = a /\ got.breaker = b
      /\ got.pending = d /\ got.group = e /\ got.inHand = f
  <2> DEFINE said == StateSaid(RackSeed, Be(4, rerackCount), a, b, d, e, f)
  <2>1. DOMAIN said = {"rackSeed", "reracks", "active", "breaker", "pending", "group", "inHand"}
    BY DEF StateSaid
  <2>2. /\ said.rackSeed = RackSeed /\ said.reracks = Be(4, rerackCount) /\ said.active = a /\ said.breaker = b
        /\ said.pending = d /\ said.group = e /\ said.inHand = f
    BY DEF StateSaid
  <2>3. Says(got, said)
    BY DEF MatchSaid
  <2> HIDE DEF said
  <2> QED
    BY <2>1, <2>2, <2>3 DEF Says
<1>3. Part(got, Physics) = Physics /\ Part(got, Geometry) = Geometry
  BY ConfigurationAssumption, AcceptsWhatIsSaid DEF MatchSaid
<1>4. StatusOf(got) = status
  BY <1>1, SaidStatus DEF MatchSaid
<1>5. Consistent(got)
  <2>1. got.status = 1 => status # InProgress
    <3>1. got.status = IF status = InProgress THEN 0 ELSE 1
      BY DEF MatchSaid, SaysStatus
    <3> QED
      BY <3>1
  <2>2. status # InProgress => f # 1
    BY <1>1
  <2> QED
    BY <1>2, <2>1, <2>2 DEF Consistent
<1>6. TableNow # Refused
  <2>1. "tick" \in DOMAIN TableNow
    BY DEF TableNow
  <2>2. "tick" \notin DOMAIN Refused
    BY DEF Refused
  <2> QED
    BY <2>1, <2>2
<1>7. Snapshot = [ physics  |-> Physics, geometry |-> Geometry, rackSeed |-> RackSeed, breaker |-> breaker,
                   reracks  |-> Be(4, rerackCount), active |-> activePlayer, pending |-> breakPending,
                   group    |-> playerOneGroup, inHand |-> ballInHand, status |-> status, table |-> TableNow ]
  BY Zenon DEF Snapshot, TableNow
<1>8. MatchOf(got, TableNow) =
        [ physics  |-> Part(got, Physics), geometry |-> Part(got, Geometry),
          rackSeed |-> got.rackSeed,       breaker  |-> PlayerAt(got.breaker),
          reracks  |-> got.reracks,        active   |-> PlayerAt(got.active),
          pending  |-> got.pending = 1,    group    |-> GroupNames[got.group + 1],
          inHand   |-> got.inHand = 1,     status   |-> StatusOf(got),
          table    |-> TableNow ]
  BY <1>5, <1>6, Zenon DEF MatchOf
<1>9. /\ PlayerAt(got.breaker) = breaker /\ PlayerAt(got.active) = activePlayer
      /\ (got.pending = 1) = breakPending /\ GroupNames[got.group + 1] = playerOneGroup
      /\ (got.inHand = 1) = ballInHand
  BY <1>2
<1> QED
  BY <1>2, <1>3, <1>4, <1>7, <1>8, <1>9, Zenon

-----------------------------------------------------------------------------
(* A state and its bytes.                                                  *)
LEMMA FieldsOfSnapshot ==
  /\ Snapshot.physics = Physics /\ Snapshot.geometry = Geometry /\ Snapshot.rackSeed = RackSeed
  /\ Snapshot.breaker = breaker /\ Snapshot.reracks = Be(4, rerackCount) /\ Snapshot.active = activePlayer
  /\ Snapshot.pending = breakPending /\ Snapshot.group = playerOneGroup /\ Snapshot.inHand = ballInHand
  /\ Snapshot.status = status /\ Snapshot.table = TableNow
BY DEF Snapshot, TableNow

LEMMA BytesOfSnapshot ==
  SnapshotBytes(Snapshot) =
    ((((((((((((Be(2, 1) \o Be(2, 1)) \o PhysicsBytes(Physics)) \o GeometryBytes(Geometry)) \o RackSeed)
       \o Be(4, rerackCount)) \o PlayerBytes(activePlayer)) \o PlayerBytes(breaker)) \o BooleanByte(breakPending))
       \o GroupBytes(playerOneGroup)) \o BooleanByte(ballInHand)) \o StatusBytes(status))
       \o Be(4, Len(TableBytes(TableNow)))) \o TableBytes(TableNow)
<1> DEFINE m == Snapshot
<1>1. /\ m.physics = Physics /\ m.geometry = Geometry /\ m.rackSeed = RackSeed
      /\ m.breaker = breaker /\ m.reracks = Be(4, rerackCount) /\ m.active = activePlayer
      /\ m.pending = breakPending /\ m.group = playerOneGroup /\ m.inHand = ballInHand
      /\ m.status = status /\ m.table = TableNow
  BY FieldsOfSnapshot
<1> HIDE DEF m
<1>2. SnapshotBytes(m) =
        ((((((((((((Be(2, 1) \o Be(2, 1)) \o PhysicsBytes(m.physics)) \o GeometryBytes(m.geometry)) \o m.rackSeed)
          \o m.reracks) \o PlayerBytes(m.active)) \o PlayerBytes(m.breaker)) \o BooleanByte(m.pending))
          \o GroupBytes(m.group)) \o BooleanByte(m.inHand)) \o StatusBytes(m.status))
          \o Be(4, Len(TableBytes(m.table)))) \o TableBytes(m.table)
  BY Zenon DEF SnapshotBytes
<1> QED
  BY <1>1, <1>2, Zenon DEF m

(* The state as it is read, of any parts of the right types.               *)
PartsAreRead(bytes, table, seed, reracks, a, b, d, e, f, st) ==
  /\ Short(bytes, 1037)
  /\ \E got : /\ SnapshotFrom(bytes) = MatchOf(got, TableFrom(table, got))
              /\ Says(got, Physics) /\ Says(got, Geometry)
              /\ Says(got, StateSaid(seed, reracks, a, b, d, e, f)) /\ SaysStatus(got, st)

LEMMA PartsRead ==
  ASSUME NEW seed \in Word(8), NEW reracks \in Word(4),
         NEW a \in {1, 2}, NEW b \in {1, 2}, NEW d \in {0, 1}, NEW e \in 0 .. 2, NEW f \in {0, 1},
         NEW st \in MatchStatuses, NEW table, Payload(table), Len(table) <= 935, NEW bytes,
         bytes = ((((((Be(2, 1) \o Be(2, 1)) \o PhysicsBytes(Physics)) \o GeometryBytes(Geometry))
                    \o StateBytes(seed, reracks, a, b, d, e, f)) \o StatusBytes(st)) \o Be(4, Len(table))) \o table
  PROVE  PartsAreRead(bytes, table, seed, reracks, a, b, d, e, f, st)
<1> DEFINE V == Be(2, 1) \o Be(2, 1)
           P == PhysicsBytes(Physics)
           G == GeometryBytes(Geometry)
           H == StateBytes(seed, reracks, a, b, d, e, f)
           S == StatusBytes(st)
           size == Be(4, Len(table))
           tail == S \o (size \o table)
           said == StateSaid(seed, reracks, a, b, d, e, f)
<1>1. Physics \in PhysicsProfiles /\ PhysicsAccepts(Physics) /\ Geometry \in Geometries /\ GeometryAccepts(Geometry)
  BY ConfigurationAssumption
<1>2. Len(table) \in Nat /\ Short(table, 935)
  BY DEF Payload, Short
<1>3. size \in Word(4)
  BY <1>2, BeType
<1>4. Short(V, 4) /\ Short(P, 40) /\ Short(G, 34) /\ Short(H, 17) /\ Short(S, 3) /\ Short(size, 4)
  <2>1. Short(Be(2, 1), 2)
    BY BeType, WordIsShort
  <2>2. JoinsTo(Be(2, 1), Be(2, 1), V)
    BY Zenon DEF JoinsTo
  <2> HIDE DEF V
  <2>3. Short(V, 4)
    BY <2>1, <2>2, ShortJoins
  <2> QED
    BY <1>1, <1>3, <2>3, PhysicsLength, GeometryLength, StateType, StatusLength, WordIsShort
<1>5. bytes = (((((V \o P) \o G) \o H) \o S) \o size) \o table
  BY Zenon
<1> HIDE DEF V, P, G, H, S, size, said
<1>6. /\ Payload(V) /\ Payload(P) /\ Payload(G) /\ Payload(H) /\ Payload(S) /\ Payload(size)
  BY <1>4 DEF Short
<1>7. Short(bytes, 1037)
  <2> DEFINE w1 == V \o P
             w2 == w1 \o G
             w3 == w2 \o H
             w4 == w3 \o S
             w5 == w4 \o size
             w6 == w5 \o table
  <2>1. /\ JoinsTo(V, P, w1) /\ JoinsTo(w1, G, w2) /\ JoinsTo(w2, H, w3) /\ JoinsTo(w3, S, w4)
        /\ JoinsTo(w4, size, w5) /\ JoinsTo(w5, table, w6) /\ w6 = bytes
    BY <1>5, Zenon DEF JoinsTo
  <2> HIDE DEF w1, w2, w3, w4, w5, w6
  <2>2. Short(w1, 44)
    BY <1>4, <2>1, ShortJoins
  <2>3. Short(w2, 78)
    BY <1>4, <2>1, <2>2, ShortJoins
  <2>4. Short(w3, 95)
    BY <1>4, <2>1, <2>3, ShortJoins
  <2>5. Short(w4, 98)
    BY <1>4, <2>1, <2>4, ShortJoins
  <2>6. Short(w5, 102)
    BY <1>4, <2>1, <2>5, ShortJoins
  <2>7. Short(w6, 1037)
    BY <1>2, <2>1, <2>6, ShortJoins
  <2> QED
    BY <2>1, <2>7
<1>8. bytes = V \o (P \o (G \o (H \o tail)))
  <2>1. SnapshotParts(V, P, G, H, S, size, table)
    BY <1>6, SnapshotPartsJoin
  <2> QED
    BY <1>5, <2>1, Zenon DEF SnapshotParts
<1>9. tail \in Seq(Byte)
  <2>1. Payload(size \o table)
    BY <1>6, PayloadsJoin
  <2> QED
    BY <1>6, <2>1, PayloadsJoin DEF Payload
<1>10. Ends(bytes, 0, bytes)
  BY <1>7, EndsWhole DEF Short, Payload
<1>11. Ends(bytes, 0, V \o (P \o (G \o (H \o tail))))
  BY <1>8, <1>10
<1> HIDE DEF tail
<1>12. PICK j, l : ReadsTo(bytes, 0, << >>, HeaderFields, j, l, tail) /\ Says(l, Physics) /\ Says(l, Geometry) /\ Says(l, said)
  <2>1. Ends(bytes, 0, (Be(2, 1) \o Be(2, 1)) \o (PhysicsBytes(Physics) \o (GeometryBytes(Geometry)
                          \o (StateBytes(seed, reracks, a, b, d, e, f) \o tail))))
    BY <1>11, Zenon DEF V, P, G, H
  <2>2. HeaderIsRead(bytes, tail, Physics, Geometry, StateSaid(seed, reracks, a, b, d, e, f))
    BY <1>1, <1>9, <2>1, MatchHeaderRead
  <2> QED
    BY <2>2, Zenon DEF HeaderIsRead, said
<1>13. ReadAll(Reader(bytes), HeaderFields) = Got(bytes, j, l) /\ Ends(bytes, j, S \o (size \o table))
  <2>1. Reader(bytes) = Got(bytes, 0, << >>)
    BY DEF Reader, Got
  <2>2. ReadAll(Got(bytes, 0, << >>), HeaderFields) = Got(bytes, j, l) /\ Ends(bytes, j, tail)
    BY <1>12, Zenon DEF ReadsTo
  <2> QED
    BY <2>1, <2>2, Zenon DEF tail
<1>14. PICK k, later : /\ Take(TakeStatus(Got(bytes, j, l)), Raw("length", 4)) = Got(bytes, k, With(later, "length", size))
                       /\ Ends(bytes, k, table) /\ SaysStatus(later, st) /\ Keeps(l, later)
  <2>1. Ends(bytes, j, StatusBytes(st) \o (size \o table))
    BY <1>13, Zenon DEF S
  <2>2. StatusIsRead(bytes, j, l, st, size, table)
    BY <1>3, <2>1, BehindTheHeader
  <2> QED
    BY <2>2, Zenon DEF StatusIsRead
<1> DEFINE got == With(later, "length", size)
<1>15. SnapshotFrom(bytes) = MatchAfter(Got(bytes, k, got))
  BY <1>13, <1>14, Zenon DEF SnapshotFrom
<1>16. Says(got, Physics) /\ Says(got, Geometry) /\ Says(got, said)
  <2>1. DOMAIN Physics = { "ticksPerSecond", "maximumTicks", "maximumSpeed", "rollingDeceleration",
                           "cushionRestitution", "collisionRestitution", "settlingSpeed" }
    BY <1>1 DEF PhysicsProfiles
  <2>2. DOMAIN Geometry = {"halfWidth", "halfHeight", "ballRadius", "pocketRadius"}
    BY <1>1 DEF Geometries
  <2>3. DOMAIN said = {"rackSeed", "reracks", "active", "breaker", "pending", "group", "inHand"}
    BY DEF said, StateSaid
  <2>4. /\ DOMAIN Physics \cap {"status", "winner", "reason"} = {} /\ "length" \notin DOMAIN Physics
        /\ DOMAIN Geometry \cap {"status", "winner", "reason"} = {} /\ "length" \notin DOMAIN Geometry
        /\ DOMAIN said \cap {"status", "winner", "reason"} = {} /\ "length" \notin DOMAIN said
    BY <2>1, <2>2, <2>3
  <2> HIDE DEF got
  <2> QED
    BY <1>12, <1>14, <2>4, KeepsSaid DEF got
<1>17. SaysStatus(got, st)
  <2>1. "length" \notin {"status", "winner", "reason"}
    OBVIOUS
  <2> QED
    BY <1>14, <2>1, SaysStill
<1>18. got.length = size
  BY DEF With
<1> HIDE DEF got
<1>19. PhysicsAccepts(got) /\ GeometryAccepts(got)
  BY <1>1, <1>16, AcceptsWhatIsSaid
<1>20. Len(table) <= MaxSnapshotBytes
  BY <1>2 DEF MaxSnapshotBytes
<1>21. Ends(bytes, k, table)
  BY <1>14
<1>22. MatchAfter(Got(bytes, k, got)) = MatchOf(got, TableFrom(table, got))
  BY <1>18, <1>19, <1>20, <1>21, TableIsTaken DEF size
<1> DEFINE Read(x) == /\ SnapshotFrom(bytes) = MatchOf(x, TableFrom(table, x))
                      /\ Says(x, Physics) /\ Says(x, Geometry)
                      /\ Says(x, StateSaid(seed, reracks, a, b, d, e, f)) /\ SaysStatus(x, st)
<1>23. Read(got)
  BY <1>15, <1>16, <1>17, <1>22, Zenon DEF said
<1> HIDE DEF Read
<1>24. \E x : Read(x)
  BY <1>23, Zenon
<1> QED
  BY <1>7, <1>24, Zenon DEF Read, PartsAreRead

(* The state of a match is what is read back from its encoding, which is   *)
(* short enough for a frame: SnapshotBytes and SnapshotFrom, on every      *)
(* table and configuration their constructors accept.                      *)
THEOREM SnapshotRead ==
  ASSUME IInv, breaker \in Player
  PROVE  SnapshotFrom(SnapshotBytes(Snapshot)) = Snapshot /\ Short(SnapshotBytes(Snapshot), 1037)
<1> DEFINE table == TableBytes(TableNow)
           bytes == SnapshotBytes(Snapshot)
           reracks == Be(4, rerackCount)
<1>1. /\ activePlayer \in Player /\ breakPending \in BOOLEAN /\ playerOneGroup \in Groups \cup {"None"}
      /\ ballInHand \in BOOLEAN /\ status \in MatchStatuses /\ rerackCount \in Int /\ pocketed \subseteq Balls
  BY DEF IInv, TypeOK, MatchStatuses
<1>2. PICK a \in {1, 2} : PlayerBytes(activePlayer) = <<a>> /\ PlayerAt(a) = activePlayer
  BY <1>1, PlayerRoundTrip
<1>3. PICK b \in {1, 2} : PlayerBytes(breaker) = <<b>> /\ PlayerAt(b) = breaker
  BY PlayerRoundTrip
<1>4. PICK d \in {0, 1} : BooleanByte(breakPending) = <<d>> /\ (d = 1) = breakPending
  BY <1>1, BooleanRoundTrip
<1>5. PICK e \in 0 .. 2 : GroupBytes(playerOneGroup) = <<e>> /\ GroupNames[e + 1] = playerOneGroup
  BY <1>1, GroupRoundTrip
<1>6. PICK f \in {0, 1} : BooleanByte(ballInHand) = <<f>> /\ (f = 1) = ballInHand
  BY <1>1, BooleanRoundTrip
<1>7. reracks \in Word(4) /\ RackSeed \in Word(8)
  BY <1>1, BeType, ConfigurationAssumption
<1> DEFINE laid == TableNow.balls
<1>8. /\ IsLaidTable(laid) /\ DOMAIN laid # {} /\ TableAccepts(laid, Geometry) /\ Tick \in Word(4)
      /\ TableNow = [tick |-> Tick, balls |-> laid]
  BY <1>1, TableNowIsLaid, FrameAssumption
<1> HIDE DEF laid
<1>9. ASSUME NEW g, TableAccepts(laid, g)
      PROVE  TableFrom(table, g) = TableNow /\ Payload(table) /\ Len(table) <= 935
  BY <1>8, <1>9, TablesRoundTrip
<1>10. Payload(table) /\ Len(table) <= 935
  BY <1>8, <1>9
<1> DEFINE V == Be(2, 1) \o Be(2, 1)
           P == PhysicsBytes(Physics)
           G == GeometryBytes(Geometry)
           S == StatusBytes(status)
           size == Be(4, Len(table))
<1>11. bytes = (((((((((((V \o P) \o G) \o RackSeed) \o reracks) \o <<a>>) \o <<b>>) \o <<d>>) \o <<e>>) \o <<f>>) \o S) \o size) \o table
  BY <1>2, <1>3, <1>4, <1>5, <1>6, BytesOfSnapshot, Zenon
<1>12. /\ Payload(V) /\ Payload(P) /\ Payload(G) /\ Payload(RackSeed) /\ Payload(reracks) /\ Payload(<<a>>) /\ Payload(<<b>>)
       /\ Payload(<<d>>) /\ Payload(<<e>>) /\ Payload(<<f>>)
  <2>1. Payload(P) /\ Payload(G)
    BY ConfigurationAssumption, PhysicsLength, GeometryLength DEF Short
  <2>2. Payload(RackSeed) /\ Payload(reracks)
    BY <1>7, WordLength DEF Payload
  <2>3. Payload(<<a>>) /\ Payload(<<b>>) /\ Payload(<<d>>) /\ Payload(<<e>>) /\ Payload(<<f>>)
    BY DEF Payload, Byte
  <2> QED
    BY <2>1, <2>2, <2>3, VersionsType
<1> HIDE DEF table, bytes, reracks, V, P, G, S, size
<1>13. SnapshotLike(V, P, G, RackSeed, reracks, <<a>>, <<b>>, <<d>>, <<e>>, <<f>>, S, size, table)
  BY <1>12, SnapshotLikeParts
<1>14. bytes = (((((V \o P) \o G) \o ((((((RackSeed \o reracks) \o <<a>>) \o <<b>>) \o <<d>>) \o <<e>>) \o <<f>>)) \o S) \o size) \o table
  BY <1>11, <1>13, Zenon DEF SnapshotLike
<1>15. bytes = ((((((Be(2, 1) \o Be(2, 1)) \o PhysicsBytes(Physics)) \o GeometryBytes(Geometry))
                \o StateBytes(RackSeed, reracks, a, b, d, e, f)) \o StatusBytes(status)) \o Be(4, Len(table))) \o table
  BY <1>14, Zenon DEF V, P, G, S, size, StateBytes
<1>16. PartsAreRead(bytes, table, RackSeed, reracks, a, b, d, e, f, status)
  BY <1>1, <1>7, <1>10, <1>15, PartsRead
<1>17. PICK got : /\ SnapshotFrom(bytes) = MatchOf(got, TableFrom(table, got))
                  /\ Says(got, Physics) /\ Says(got, Geometry)
                  /\ Says(got, StateSaid(RackSeed, reracks, a, b, d, e, f)) /\ SaysStatus(got, status)
  BY <1>16, Zenon DEF PartsAreRead
<1>18. TableAccepts(laid, got)
  BY <1>8, <1>17, SameGeometry, ConfigurationAssumption
<1>19. TableFrom(table, got) = TableNow
  BY <1>9, <1>18
<1>20. MatchSaid(got, a, b, d, e, f)
  BY <1>17, Zenon DEF MatchSaid, reracks
<1>21. MatchOf(got, TableNow) = Snapshot
  BY <1>2, <1>3, <1>4, <1>5, <1>6, <1>20, MatchIsSaid
<1>22. SnapshotFrom(bytes) = Snapshot
  BY <1>17, <1>19, <1>21, Zenon
<1> QED
  BY <1>16, <1>22, Zenon DEF bytes, PartsAreRead

-----------------------------------------------------------------------------
(* The player who broke stays one of the two.                              *)
BrokenInv == RecordInv /\ breaker \in Player

LEMMA BrokenStep ==
  BrokenInv /\ [RecordedNext]_recordVars => BrokenInv'
<1> SUFFICES ASSUME BrokenInv, [RecordedNext]_recordVars
             PROVE  BrokenInv'
  OBVIOUS
<1>1. RecordInv'
  BY RecordedStep DEF BrokenInv
<1>2. breaker' = breaker
  BY DEF RecordedNext, recordVars
<1> QED
  BY <1>1, <1>2 DEF BrokenInv

LEMMA BrokenInit ==
  RecordedInit => BrokenInv
<1> SUFFICES ASSUME RecordedInit
             PROVE  BrokenInv
  OBVIOUS
<1>1. IInv
  BY InitInv DEF RecordedInit
<1>2. activePlayer \in Player
  BY <1>1 DEF IInv, TypeOK
<1> QED
  BY <1>1, <1>2 DEF RecordedInit, RecordInv, BrokenInv

LEMMA PayloadsRead ==
  BrokenInv => PayloadsSurvive
<1> SUFFICES ASSUME BrokenInv
             PROVE  PayloadsSurvive
  OBVIOUS
<1>1. IInv /\ breaker \in Player /\ result \in Results \cup {NoResult}
  BY DEF BrokenInv, RecordInv
<1> DEFINE bytes == SnapshotBytes(Snapshot)
           sent == [revision |-> Revision, checksum |-> Checksum, snapshot |-> bytes]
<1>2. SnapshotFrom(bytes) = Snapshot /\ Short(bytes, 1037)
  BY <1>1, SnapshotRead
<1> HIDE DEF bytes
<1>3. MaySend(bytes) /\ bytes \in Seq(Byte)
  BY <1>2 DEF Short, Payload, MaySend, MaxSnapshotBytes
<1>4. sent \in Snapshots
  BY <1>3, FrameAssumption DEF Snapshots
<1>5. SnapshotFrameFrom(SnapshotFrame(sent)) = sent
  BY <1>4, SnapshotsRoundTrip
<1>6. Sent = sent /\ sent.snapshot = bytes
  BY DEF Sent, bytes
<1>7. ConfigurationSurvives
  BY <1>1, ConfigurationRead
<1>8. ResultSurvives
  BY <1>1, ResultsRoundTrip DEF ResultSurvives
<1> HIDE DEF sent
<1>9. PayloadsSurvive <=>
        /\ MaySend(Sent.snapshot) /\ SnapshotFrameFrom(SnapshotFrame(Sent)) = Sent /\ SnapshotFrom(Sent.snapshot) = Snapshot
        /\ ConfigurationSurvives /\ ResultSurvives
  BY Zenon DEF PayloadsSurvive
<1> QED
  BY <1>2, <1>3, <1>5, <1>6, <1>7, <1>8, <1>9

-----------------------------------------------------------------------------
(* Columns.                                                                *)
LEMMA ByteHalves ==
  ASSUME NEW b \in Byte
  PROVE  b \div 16 \in 0 .. 15 /\ b % 16 \in 0 .. 15 /\ 16 * (b \div 16) + (b % 16) = b
BY DEF Byte

LEMMA HexRead ==
  ASSUME NEW bytes \in Seq(Byte)
  PROVE  IsBytes(Hex(bytes)) /\ BytesOf(Hex(bytes)) = bytes
<1> DEFINE n == Len(bytes)
           digit(i) == IF i % 2 = 1 THEN bytes[(i + 1) \div 2] \div 16 ELSE bytes[i \div 2] % 16
           digits == [i \in 1 .. 2 * n |-> digit(i)]
<1>1. Hex(bytes) = [type |-> "hex", digits |-> digits]
  BY DEF Hex
<1>2. n \in Nat /\ \A i \in 1 .. n : bytes[i] \in Byte
  OBVIOUS
<1>3. bytes = [i \in 1 .. n |-> bytes[i]]
  OBVIOUS
<1> HIDE DEF n
<1>4. ASSUME NEW i \in 1 .. n
      PROVE  digits[2 * i - 1] = bytes[i] \div 16 /\ digits[2 * i] = bytes[i] % 16
  <2>1. (2 * i - 1) \in 1 .. 2 * n /\ (2 * i) \in 1 .. 2 * n
    BY <1>2
  <2>2. (2 * i - 1) % 2 = 1 /\ ((2 * i - 1) + 1) \div 2 = i /\ (2 * i) % 2 = 0 /\ (2 * i) \div 2 = i
    BY <1>2
  <2>3. digit(2 * i - 1) = bytes[i] \div 16
    BY <2>2
  <2>4. digit(2 * i) = bytes[i] % 16
    BY <2>2
  <2> HIDE DEF digit
  <2> QED
    BY <2>1, <2>3, <2>4
<1>5. ASSUME NEW i \in 1 .. 2 * n
      PROVE  digits[i] \in 0 .. 15
  <2>1. PICK k \in 1 .. n : i = 2 * k - 1 \/ i = 2 * k
    <3>1. (i + 1) \div 2 \in 1 .. n /\ (i = 2 * ((i + 1) \div 2) - 1 \/ i = 2 * ((i + 1) \div 2))
      BY <1>2
    <3> QED
      BY <3>1
  <2>2. bytes[k] \in Byte
    BY <1>2
  <2> HIDE DEF digits
  <2> QED
    BY <1>4, <2>1, <2>2, ByteHalves
<1>6. digits = [i \in 1 .. 2 * n |-> digits[i]]
  OBVIOUS
<1> HIDE DEF digits
<1> DEFINE wide == 2 * n
<1>7. wide \in Nat /\ wide % 2 = 0 /\ wide \div 2 = n
  BY <1>2
<1>8. digits = [i \in 1 .. wide |-> digits[i]] /\ \A i \in 1 .. wide : digits[i] \in 0 .. 15
  BY <1>5, <1>6
<1> HIDE DEF wide
<1>9. Len(digits) = wide /\ DOMAIN digits = 1 .. wide
  BY <1>7, <1>8
<1>10. IsBytes(Hex(bytes))
  BY <1>1, <1>7, <1>8, <1>9 DEF IsBytes
<1>11. BytesOf(Hex(bytes)) = [i \in 1 .. n |-> 16 * digits[2 * i - 1] + digits[2 * i]]
  BY <1>1, <1>7, <1>9 DEF BytesOf
<1>12. ASSUME NEW i \in 1 .. n
       PROVE  16 * digits[2 * i - 1] + digits[2 * i] = bytes[i]
  BY <1>2, <1>4, ByteHalves
<1> QED
  BY <1>3, <1>10, <1>11, <1>12

(* The revision after one that is not the last is another, and never the   *)
(* first.                                                                  *)
LEMMA SuccessorMoves ==
  ASSUME NEW n \in Word(8), FitsInteger(Successor(n))
  PROVE  n # Successor(n) /\ Successor(n) # Be(8, 0)
<1> DEFINE carries == {i \in DOMAIN n : n[i] < 255 /\ \A k \in DOMAIN n : k > i => n[k] = 255}
           value(i) == IF \E k \in carries : k < i THEN 0 ELSE IF i \in carries THEN n[i] + 1 ELSE n[i]
<1>1. DOMAIN n = 1 .. 8 /\ \A i \in 1 .. 8 : n[i] \in 0 .. 255
  BY DEF Word, Byte
<1>2. Successor(n) = [i \in 1 .. 8 |-> value(i)]
  BY <1>1 DEF Successor
<1>3. \A i \in 1 .. 8 : Successor(n)[i] = value(i)
  BY <1>2
<1>4. PICK i \in carries : TRUE
  <2> SUFFICES ASSUME carries = {}
               PROVE  FALSE
    OBVIOUS
  <2>1. \A k \in 1 .. 8 : n[k] = 255
    <3>1. n[8] = 255
      BY <1>1
    <3>2. n[7] = 255
      BY <1>1, <3>1
    <3>3. n[6] = 255
      BY <1>1, <3>1, <3>2
    <3>4. n[5] = 255
      BY <1>1, <3>1, <3>2, <3>3
    <3>5. n[4] = 255
      BY <1>1, <3>1, <3>2, <3>3, <3>4
    <3>6. n[3] = 255
      BY <1>1, <3>1, <3>2, <3>3, <3>4, <3>5
    <3>7. n[2] = 255
      BY <1>1, <3>1, <3>2, <3>3, <3>4, <3>5, <3>6
    <3>8. n[1] = 255
      BY <1>1, <3>1, <3>2, <3>3, <3>4, <3>5, <3>6, <3>7
    <3> QED
      BY <3>1, <3>2, <3>3, <3>4, <3>5, <3>6, <3>7, <3>8
  <2>2. value(1) = 255
    BY <2>1
  <2>3. Successor(n)[1] = 255
    BY <1>3, <2>2
  <2> QED
    BY <2>3 DEF FitsInteger
<1>5. i \in 1 .. 8 /\ n[i] \in 0 .. 254 /\ ~\E k \in carries : k < i
  <2>1. i \in 1 .. 8 /\ n[i] \in 0 .. 255 /\ n[i] < 255 /\ \A k \in 1 .. 8 : k > i => n[k] = 255
    BY <1>1
  <2>2. ASSUME NEW k \in carries, k < i
        PROVE  FALSE
    <3>1. k \in 1 .. 8 /\ \A j \in 1 .. 8 : j > k => n[j] = 255
      BY <1>1
    <3> QED
      BY <2>1, <2>2, <3>1
  <2> QED
    BY <2>1, <2>2
<1>6. value(i) = n[i] + 1
  BY <1>5
<1> HIDE DEF value, carries
<1>7. Successor(n)[i] = n[i] + 1
  BY <1>3, <1>5, <1>6
<1>8. Be(8, 0)[i] = 0
  <2>1. Be(8, 0)[i] = IF 8 - i > 3 THEN (IF 0 < 0 THEN 255 ELSE 0) ELSE (0 \div 256 ^ (8 - i)) % 256
    BY <1>5 DEF Be
  <2>2. 256 ^ 0 = 1 /\ 256 ^ 1 = 256 /\ 256 ^ 2 = 65536 /\ 256 ^ 3 = 16777216
    OBVIOUS
  <2>3. CASE 8 - i > 3
    BY <2>1, <2>3
  <2>4. CASE i = 8
    BY <2>1, <2>2, <2>4
  <2>5. CASE i = 7
    BY <2>1, <2>2, <2>5
  <2>6. CASE i = 6
    BY <2>1, <2>2, <2>6
  <2>7. CASE i = 5
    BY <2>1, <2>2, <2>7
  <2> QED
    BY <1>5, <2>3, <2>4, <2>5, <2>6, <2>7
<1> QED
  BY <1>5, <1>7, <1>8

LEMMA LowNumbers ==
  /\ Be(8, 0)[1] = 0 /\ Be(8, 1)[1] = 0 /\ Be(8, 2)[1] = 0
  /\ Be(8, 1)[8] = 1 /\ Be(8, 2)[8] = 2
BY DEF Be

LEMMA PlayerNumbers ==
  ASSUME NEW p \in Player
  PROVE  /\ FitsInteger(PlayerNumber(p))
         /\ \A q \in Player : PlayerNumber(p) = PlayerNumber(q) => q = p
         /\ (CHOOSE q \in Player : PlayerNumber(p) = PlayerNumber(q)) = p
<1>1. FitsInteger(PlayerNumber(p))
  BY LowNumbers DEF PlayerNumber, FitsInteger
<1>2. \A q \in Player : PlayerNumber(p) = PlayerNumber(q) => q = p
  <2>1. PlayerNumber("One") = Be(8, 1) /\ PlayerNumber("Two") = Be(8, 2)
    BY DEF PlayerNumber
  <2>2. PlayerNumber("One") # PlayerNumber("Two")
    BY <2>1, LowNumbers
  <2> QED
    BY <2>2 DEF Player
<1> HIDE DEF PlayerNumber
<1> QED
  BY <1>1, <1>2

(* The deadline of a match, and the columns it is written to.              *)
IsDeadline(d) ==
  \/ d = NoDeadline
  \/ d = [revision |-> d.revision, player |-> d.player, dueAt |-> d.dueAt] /\ d.player \in Player

HasColumns(row, due) ==
  row.deadlineRevision = due.revision /\ row.deadlinePlayer = due.player /\ row.deadlineAt = due.at

LEMMA NotRefused ==
  ASSUME NEW d, IsDeadline(d)
  PROVE  d # Refused
<1>1. CASE d = NoDeadline
  <2>1. "none" \in DOMAIN NoDeadline /\ "none" \notin DOMAIN Refused
    BY DEF NoDeadline, Refused
  <2> QED
    BY <1>1, <2>1
<1>2. CASE d = [revision |-> d.revision, player |-> d.player, dueAt |-> d.dueAt]
  <2>1. "dueAt" \in DOMAIN d
    BY <1>2
  <2>2. "dueAt" \notin DOMAIN Refused
    BY DEF Refused
  <2> QED
    BY <2>1, <2>2
<1> QED
  BY <1>1, <1>2 DEF IsDeadline

LEMMA DeadlineRead ==
  ASSUME NEW d, IsDeadline(d), NEW type \in {"integer", "decimal"},
         type = "integer" /\ d # NoDeadline => FitsInteger(d.revision) /\ FitsInteger(d.dueAt),
         NEW row, HasColumns(row, DeadlineColumns(d, type))
  PROVE  DeadlineFrom(row) = d
<1> DEFINE columns == {row.deadlineRevision, row.deadlinePlayer, row.deadlineAt}
           Numbers == /\ \A c \in columns : IsNumber(c)
                      /\ \E p \in Player : row.deadlinePlayer.number = PlayerNumber(p)
           Given == [ revision |-> row.deadlineRevision.number,
                      player   |-> CHOOSE p \in Player : row.deadlinePlayer.number = PlayerNumber(p),
                      dueAt    |-> row.deadlineAt.number ]
<1>1. DeadlineFrom(row) = CASE columns = {Null} -> NoDeadline [] Numbers -> Given [] OTHER -> Refused
  BY Zenon DEF DeadlineFrom
<1>2. CASE d = NoDeadline
  <2>1. row.deadlineRevision = Null /\ row.deadlinePlayer = Null /\ row.deadlineAt = Null
    BY <1>2 DEF HasColumns, DeadlineColumns
  <2>2. columns = {Null} /\ ~Numbers
    <3>1. ~IsNumber(Null)
      BY DEF IsNumber, IsUnsigned, Null
    <3>2. columns = {Null}
      BY <2>1
    <3> QED
      BY <3>1, <3>2
  <2> HIDE DEF columns, Numbers, Given
  <2> QED
    BY <1>1, <1>2, <2>2
<1>3. CASE d # NoDeadline
  <2>1. d = [revision |-> d.revision, player |-> d.player, dueAt |-> d.dueAt] /\ d.player \in Player
    BY <1>3 DEF IsDeadline
  <2>2. /\ row.deadlineRevision = [type |-> type, number |-> d.revision]
        /\ row.deadlinePlayer = [type |-> type, number |-> PlayerNumber(d.player)]
        /\ row.deadlineAt = [type |-> type, number |-> d.dueAt]
    BY <1>3 DEF HasColumns, DeadlineColumns
  <2>3. FitsInteger(PlayerNumber(d.player))
    BY <2>1, PlayerNumbers
  <2>4. type = "integer" => FitsInteger(d.revision) /\ FitsInteger(d.dueAt)
    BY <1>3
  <2>5. IsNumber(row.deadlineRevision) /\ IsNumber(row.deadlinePlayer) /\ IsNumber(row.deadlineAt)
    <3> HIDE DEF FitsInteger, PlayerNumber
    <3> QED
      BY <2>2, <2>3, <2>4 DEF IsNumber, IsUnsigned
  <2>6. row.deadlineRevision.number = d.revision /\ row.deadlinePlayer.number = PlayerNumber(d.player)
        /\ row.deadlineAt.number = d.dueAt /\ row.deadlineRevision.type = type
    BY <2>2
  <2>7. columns # {Null}
    BY <2>6 DEF Null
  <2>8. Numbers
    BY <2>1, <2>5, <2>6
  <2>9. Given = d
    <3>1. (CHOOSE p \in Player : row.deadlinePlayer.number = PlayerNumber(p)) = d.player
      BY <2>1, <2>6, PlayerNumbers
    <3> QED
      BY <2>1, <2>6, <3>1
  <2> HIDE DEF columns, Numbers, Given
  <2> QED
    BY <1>1, <2>7, <2>8, <2>9
<1> QED
  BY <1>2, <1>3

LEMMA DeadlineGiven ==
  ASSUME IInv, NEW revision, NEW d, d = DeadlineAt(revision, Snapshot)
  PROVE  /\ IsDeadline(d) /\ DeadlineFits(d, revision, Snapshot)
         /\ d # NoDeadline => d.revision = revision /\ d.dueAt = DueAt /\ d.player = activePlayer
<1>1. Snapshot.status = status /\ Snapshot.active = activePlayer /\ activePlayer \in Player
  BY FieldsOfSnapshot DEF IInv, TypeOK
<1>2. CASE status = InProgress
  <2>1. d = [revision |-> revision, player |-> activePlayer, dueAt |-> DueAt]
    BY <1>1, <1>2 DEF DeadlineAt
  <2>2. d.revision = revision /\ d.player = activePlayer /\ d.dueAt = DueAt
    BY <2>1
  <2>3. IsDeadline(d)
    BY <1>1, <2>1, <2>2 DEF IsDeadline
  <2>4. d # NoDeadline
    <3>1. "dueAt" \in DOMAIN d
      BY <2>1
    <3>2. "dueAt" \notin DOMAIN NoDeadline
      BY DEF NoDeadline
    <3> QED
      BY <3>1, <3>2
  <2>5. DeadlineFits(d, revision, Snapshot)
    BY <1>1, <1>2, <2>2, <2>3, <2>4, NotRefused DEF DeadlineFits
  <2> QED
    BY <2>2, <2>3, <2>5
<1>3. CASE status # InProgress
  BY <1>1, <1>3 DEF DeadlineAt, IsDeadline, DeadlineFits
<1> QED
  BY <1>2, <1>3

-----------------------------------------------------------------------------
(* The row of a match that holds its state at a revision.                  *)
HoldsMatch(row, revision) ==
  /\ row.snapshot = Hex(SnapshotBytes(Snapshot)) /\ row.config = Hex(ConfigurationBytes(Configuration))
  /\ row.revision = Integer64(revision) /\ row.checksum = Integer64(Checksum)
  /\ row.playerOne = Decimal(Accounts["One"]) /\ row.playerTwo = Decimal(Accounts["Two"])
  /\ HasColumns(row, DeadlineColumns(DeadlineAt(revision, Snapshot), "integer"))

LEMMA OfSnapshot ==
  /\ ConfigurationOf(Snapshot) = Configuration /\ ChecksumOf(Snapshot) = Checksum
  /\ Snapshot # Refused /\ Snapshot.status = status /\ Snapshot.active = activePlayer
<1>1. ConfigurationOf(Snapshot) = Configuration
  BY FieldsOfSnapshot DEF ConfigurationOf, Configuration
<1>2. ChecksumOf(Snapshot) = Checksum
  BY DEF ChecksumOf
<1>3. Snapshot # Refused
  <2>1. "physics" \in DOMAIN Snapshot
    BY DEF Snapshot
  <2>2. "physics" \notin DOMAIN Refused
    BY DEF Refused
  <2> QED
    BY <2>1, <2>2
<1> QED
  BY <1>1, <1>2, <1>3, FieldsOfSnapshot

LEMMA AccountsRead ==
  ASSUME NEW row, row.playerOne = Decimal(Accounts["One"]), row.playerTwo = Decimal(Accounts["Two"])
  PROVE  ParticipantsFrom(row) = Accounts /\ Accounts # Refused
<1>1. /\ row.playerOne.type = "decimal" /\ row.playerTwo.type = "decimal"
      /\ row.playerOne.number = Accounts["One"] /\ row.playerTwo.number = Accounts["Two"]
  BY DEF Decimal
<1>2. Accounts = [One |-> Accounts["One"], Two |-> Accounts["Two"]] /\ Accounts["One"] # Accounts["Two"]
  BY AccountAssumption
<1>3. ParticipantsFrom(row) = Accounts
  BY <1>1, <1>2 DEF ParticipantsFrom
<1>4. Accounts # Refused
  <2>1. "One" \in DOMAIN Accounts
    BY <1>2
  <2>2. "One" \notin DOMAIN Refused
    BY DEF Refused
  <2> QED
    BY <2>1, <2>2
<1> QED
  BY <1>3, <1>4

LEMMA ConfigurationIsPayload ==
  ASSUME breaker \in Player
  PROVE  Payload(ConfigurationBytes(Configuration))
<1> DEFINE P == PhysicsBytes(Physics)
           G == GeometryBytes(Geometry)
           V == Be(2, 1) \o Be(2, 1)
           w1 == V \o P
           w2 == w1 \o G
           w3 == w2 \o RackSeed
<1>1. PICK n \in {1, 2} : PlayerBytes(breaker) = <<n>>
  BY PlayerRoundTrip
<1>2. Payload(V) /\ Payload(P) /\ Payload(G) /\ Payload(RackSeed) /\ Payload(<<n>>)
  <2>1. Payload(<<n>>)
    BY DEF Payload, Byte
  <2>2. Payload(P) /\ Payload(G)
    BY ConfigurationAssumption, PhysicsLength, GeometryLength DEF Short
  <2>3. Payload(RackSeed)
    BY ConfigurationAssumption, WordLength DEF Payload
  <2> QED
    BY <2>1, <2>2, <2>3, VersionsType
<1>3. ConfigurationBytes(Configuration) = w3 \o <<n>>
  <2> DEFINE c == Configuration
  <2>1. c.physics = Physics /\ c.geometry = Geometry /\ c.rackSeed = RackSeed /\ c.breaker = breaker
    BY DEF Configuration
  <2> HIDE DEF c
  <2>2. ConfigurationBytes(c) = ((((Be(2, 1) \o Be(2, 1)) \o PhysicsBytes(c.physics)) \o GeometryBytes(c.geometry))
                                  \o c.rackSeed) \o PlayerBytes(c.breaker)
    BY Zenon DEF ConfigurationBytes
  <2> QED
    BY <1>1, <2>1, <2>2, Zenon DEF c
<1> HIDE DEF V, P, G
<1>4. Payload(w1)
  BY <1>2, PayloadsJoin
<1>5. Payload(w2)
  BY <1>2, <1>4, PayloadsJoin
<1>6. Payload(w3)
  BY <1>2, <1>5, PayloadsJoin
<1>7. Payload(w3 \o <<n>>)
  BY <1>2, <1>6, PayloadsJoin
<1> QED
  BY <1>3, <1>7

LEMMA MatchBytes ==
  ASSUME BrokenInv
  PROVE  /\ IsBytes(Hex(SnapshotBytes(Snapshot))) /\ BytesOf(Hex(SnapshotBytes(Snapshot))) = SnapshotBytes(Snapshot)
         /\ SnapshotFrom(SnapshotBytes(Snapshot)) = Snapshot
         /\ IsBytes(Hex(ConfigurationBytes(Configuration)))
         /\ ConfigurationFrom(BytesOf(Hex(ConfigurationBytes(Configuration)))) = Configuration
<1>1. IInv /\ breaker \in Player
  BY DEF BrokenInv, RecordInv
<1>2. SnapshotFrom(SnapshotBytes(Snapshot)) = Snapshot /\ SnapshotBytes(Snapshot) \in Seq(Byte)
  BY <1>1, SnapshotRead DEF Short, Payload
<1>3. ConfigurationFrom(ConfigurationBytes(Configuration)) = Configuration
  BY <1>1, ConfigurationRead DEF ConfigurationSurvives
<1>4. ConfigurationBytes(Configuration) \in Seq(Byte)
  BY <1>1, ConfigurationIsPayload DEF Payload
<1> QED
  BY <1>2, <1>3, <1>4, HexRead

(* What every reader of such a row makes of it.                            *)
LEMMA MatchRowRead ==
  ASSUME BrokenInv, NEW revision, FitsInteger(revision), NEW row, HoldsMatch(row, revision)
  PROVE  /\ StateFrom(row) = Snapshot /\ ParticipantsFrom(row) = Accounts
         /\ DeadlineFrom(row) = DeadlineAt(revision, Snapshot)
         /\ row.revision.number = revision /\ row.revision = Integer64(revision)
         /\ row.checksum.number = Checksum
<1>1. /\ row.revision = Integer64(revision) /\ row.checksum = Integer64(Checksum)
      /\ row.revision.number = revision /\ row.revision.type = "integer"
      /\ row.checksum.number = Checksum /\ row.checksum.type = "integer"
  BY DEF HoldsMatch, Integer64
<1>2. IsUnsigned(row.revision) /\ IsPattern(row.checksum)
  BY <1>1 DEF IsUnsigned, IsPattern
<1>3. ParticipantsFrom(row) = Accounts /\ Accounts # Refused
  BY AccountsRead DEF HoldsMatch
<1>4. /\ IsBytes(row.snapshot) /\ IsBytes(row.config) /\ SnapshotFrom(BytesOf(row.snapshot)) = Snapshot
      /\ ConfigurationFrom(BytesOf(row.config)) = Configuration
  BY MatchBytes, Zenon DEF HoldsMatch
<1>5. Checked(Snapshot, row) = Snapshot
  BY <1>1, <1>4, OfSnapshot DEF Checked
<1>6. StateFrom(row) = Snapshot
  BY <1>2, <1>3, <1>4, <1>5 DEF StateFrom
<1>7. DeadlineFrom(row) = DeadlineAt(revision, Snapshot)
  <2> DEFINE d == DeadlineAt(revision, Snapshot)
  <2>1. HasColumns(row, DeadlineColumns(d, "integer"))
    BY DEF HoldsMatch
  <2>2. IInv
    BY DEF BrokenInv, RecordInv
  <2> HIDE DEF d
  <2>3. d = DeadlineAt(revision, Snapshot)
    BY DEF d
  <2>4. IsDeadline(d) /\ (d # NoDeadline => d.revision = revision /\ d.dueAt = DueAt)
    BY <2>2, <2>3, DeadlineGiven
  <2>5. FitsInteger(DueAt)
    BY NumberAssumption DEF FitsInteger
  <2>6. d # NoDeadline => FitsInteger(d.revision) /\ FitsInteger(d.dueAt)
    BY <2>4, <2>5
  <2>7. DeadlineFrom(row) = d
    BY <2>1, <2>4, <2>6, DeadlineRead
  <2> QED
    BY <2>7 DEF d
<1> QED
  BY <1>1, <1>3, <1>6, <1>7

LEMMA CanonicalHolds ==
  ASSUME NEW row, row.config = Hex(ConfigurationBytes(Configuration)),
         row.playerOne = Decimal(Accounts["One"]), row.playerTwo = Decimal(Accounts["Two"]),
         NEW revision, NEW m, m = Snapshot, NEW d, d = DeadlineAt(revision, Snapshot)
  PROVE  HoldsMatch(Canonical(row, revision, m, d), revision)
<1> DEFINE due == DeadlineColumns(d, "integer")
           new == Canonical(row, revision, m, d)
<1>1. new =
        [ match |-> row.match, playerOne |-> row.playerOne, playerTwo |-> row.playerTwo, config |-> row.config,
          revision         |-> Integer64(revision), snapshot |-> Hex(SnapshotBytes(m)),
          checksum         |-> Integer64(ChecksumOf(m)),
          deadlineRevision |-> due.revision, deadlinePlayer |-> due.player, deadlineAt |-> due.at ]
  BY Zenon DEF Canonical
<1> HIDE DEF new, due
<1>2. /\ new.playerOne = row.playerOne /\ new.playerTwo = row.playerTwo /\ new.config = row.config
      /\ new.revision = Integer64(revision) /\ new.snapshot = Hex(SnapshotBytes(m))
      /\ new.checksum = Integer64(ChecksumOf(m)) /\ HasColumns(new, due)
  BY <1>1 DEF HasColumns
<1>3. due = DeadlineColumns(DeadlineAt(revision, Snapshot), "integer")
  BY DEF due
<1>4. HoldsMatch(new, revision)
  BY <1>2, <1>3, OfSnapshot DEF HoldsMatch
<1> QED
  BY <1>4 DEF new

LEMMA InitialRowHolds ==
  ASSUME IInv
  PROVE  HoldsMatch(InitialRow(Snapshot), Be(8, 0))
<1> DEFINE row == [ match     |-> Decimal(MatchId),
                    playerOne |-> Decimal(Accounts["One"]), playerTwo |-> Decimal(Accounts["Two"]),
                    config    |-> Hex(ConfigurationBytes(ConfigurationOf(Snapshot))) ]
           d == DeadlineAt(Be(8, 0), Snapshot)
<1>1. InitialRow(Snapshot) = Canonical(row, Be(8, 0), Snapshot, d)
  BY Zenon DEF InitialRow
<1>2. /\ row.playerOne = Decimal(Accounts["One"]) /\ row.playerTwo = Decimal(Accounts["Two"])
      /\ row.config = Hex(ConfigurationBytes(Configuration))
  BY OfSnapshot
<1> HIDE DEF row
<1> QED
  BY <1>1, <1>2, CanonicalHolds

(* A new match.                                                            *)
LEMMA StartRead ==
  ASSUME BrokenInv
  PROVE  StartSurvives
<1> DEFINE row == InitialRow(Snapshot)
           first == Be(8, 0)
           d == DeadlineAt(first, Snapshot)
           rows == [match |-> row, commands |-> << >>]
<1>1. IInv
  BY DEF BrokenInv, RecordInv
<1>2. FitsInteger(first)
  BY LowNumbers DEF FitsInteger
<1>3. HoldsMatch(row, first)
  BY <1>1, InitialRowHolds
<1>4. rows.match = row /\ rows.commands = << >>
  OBVIOUS
<1> HIDE DEF row, first
<1>5. /\ StateFrom(row) = Snapshot /\ ParticipantsFrom(row) = Accounts /\ DeadlineFrom(row) = d
      /\ row.revision.number = first /\ row.revision = Integer64(first)
  BY <1>2, <1>3, MatchRowRead
<1>6. d = DeadlineAt(first, Snapshot)
  OBVIOUS
<1> HIDE DEF d, rows
<1>7. /\ IsDeadline(d) /\ DeadlineFits(d, first, Snapshot)
      /\ d # NoDeadline => d.revision = first /\ d.player = activePlayer
  BY <1>1, <1>6, DeadlineGiven
<1>8. d # Refused
  BY <1>7, NotRefused
<1>9. InitialMatch(row) = [participants |-> Accounts, state |-> Snapshot, deadline |-> d]
  <2>1. InitialMatch(row) = InitialOf(Snapshot, d, row)
    BY <1>5, Zenon DEF InitialMatch
  <2>2. ~ \/ Snapshot = Refused \/ d = Refused \/ row.revision # Integer64(Be(8, 0))
          \/ d # NoDeadline /\ (d.revision # Be(8, 0) \/ d.player # Snapshot.active)
    BY <1>5, <1>7, <1>8, OfSnapshot DEF first
  <2>3. InitialOf(Snapshot, d, row) = [participants |-> ParticipantsFrom(row), state |-> Snapshot, deadline |-> d]
    BY <2>2, Zenon DEF InitialOf
  <2> QED
    BY <1>5, <2>1, <2>3
<1>10. CanonicalHead(rows) = [participants |-> Accounts, revision |-> first, state |-> Snapshot, deadline |-> d]
  <2> DEFINE commands == LoadCommands(rows)
             Agrees(last) == /\ last.revision = rows.match.revision.number /\ last.snapshot = SnapshotBytes(Snapshot)
                             /\ last.checksum = ChecksumOf(Snapshot) /\ last.deadline = d
             TailAgrees == IF rows.match.revision.number = Be(8, 0) THEN rows.commands = << >>
                           ELSE /\ commands # Refused /\ rows.commands # << >>
                                /\ Agrees(commands.records[Len(rows.commands)])
  <2>1. CanonicalHead(rows) = HeadOf(Snapshot, d, rows, commands)
    BY <1>4, <1>5, Zenon DEF CanonicalHead, HeadGiven
  <2>2. HeadOf(Snapshot, d, rows, commands) =
          IF Snapshot = Refused THEN Refused
          ELSE IF DeadlineFits(d, rows.match.revision.number, Snapshot) /\ TailAgrees
          THEN [ participants |-> ParticipantsFrom(rows.match), revision |-> rows.match.revision.number,
                 state |-> Snapshot, deadline |-> d ]
          ELSE Refused
    BY Zenon DEF HeadOf
  <2>3. TailAgrees
    BY <1>4, <1>5 DEF first
  <2> HIDE DEF TailAgrees, commands
  <2> QED
    BY <1>4, <1>5, <1>7, <2>1, <2>2, <2>3, OfSnapshot
<1>11. Expected(Be(8, 0)) = [participants |-> Accounts, revision |-> first, state |-> Snapshot, deadline |-> d]
  BY Zenon DEF Expected, first, d
<1> QED
  BY <1>9, <1>10, <1>11, Zenon DEF StartSurvives, row, first, d, rows

-----------------------------------------------------------------------------
(* The command whose result was recorded.                                  *)
LEMMA SpinType ==
  ASSUME NEW side, NEW vertical, SpinIsOnBall(side, vertical)
  PROVE  side \in Int /\ vertical \in Int
<1>1. side \in -10000 .. 10000 /\ vertical \in -10000 .. 10000
  BY SMT DEF SpinIsOnBall
<1> QED
  BY <1>1, SMT

LEMMA CommandOrdered ==
  ASSUME NEW res \in Results
  PROVE  CommandOf(res) \in Orders
<1> DEFINE placed == [kind |-> "place", x |-> Lie[Cue].x, y |-> Lie[Cue].y]
           conceded == [kind |-> "concede", player |-> Opponent(res.outcome.winner)]
<1>1. CommandOf(res) =
        CASE res.kind = "shot"     -> ShotCommand
          [] res.kind = "timeout"  -> [kind |-> "timeout"]
          [] res.kind = "conceded" -> conceded
          [] OTHER                 -> placed
  BY Zenon DEF CommandOf
<1>2. ShotCommand \in ShotOrders
  <2> DEFINE c == ShotCommand
  <2>1. /\ c = [ kind |-> "shot", aim |-> c.aim, power |-> c.power, side |-> c.side, vertical |-> c.vertical,
                 pocket |-> c.pocket ]
        /\ c.aim \in Aims /\ c.power \in Powers /\ SpinIsOnBall(c.side, c.vertical)
        /\ c.pocket \in CalledPockets
    BY ShotAssumption, Zenon DEF CalledPockets
  <2> HIDE DEF c
  <2>2. c.side \in Int /\ c.vertical \in Int
    BY <2>1, SpinType
  <2>3. c \in ShotOrders
    BY <2>1, <2>2 DEF ShotOrders
  <2> QED
    BY <2>3 DEF c
<1>3. placed \in Placements
  <2>1. Cue \in Balls
    BY DEF Balls
  <2>2. Lie[Cue] \in Lies
    BY <2>1, LieAssumption
  <2>3. Lie[Cue].x \in Word(8) /\ Lie[Cue].y \in Word(8)
    BY <2>2 DEF Lies
  <2> QED
    BY <2>3 DEF Placements
<1>4. conceded \in Resignations
  <2>1. Opponent(res.outcome.winner) \in {"One", "Two"}
    BY DEF Opponent
  <2> QED
    BY <2>1 DEF Resignations
<1>5. [kind |-> "timeout"] \in [kind : {"timeout"}]
  OBVIOUS
<1> HIDE DEF placed, conceded
<1>6. CASE res.kind = "shot"
  <2>1. CommandOf(res) = ShotCommand
    BY <1>1, <1>6
  <2> QED
    BY <1>2, <2>1 DEF Orders
<1>7. CASE res.kind = "timeout"
  <2>1. CommandOf(res) = [kind |-> "timeout"]
    BY <1>1, <1>7
  <2> QED
    BY <1>5, <2>1 DEF Orders
<1>8. CASE res.kind = "conceded"
  <2>1. CommandOf(res) = conceded
    BY <1>1, <1>8
  <2> QED
    BY <1>4, <2>1 DEF Orders
<1>9. CASE res.kind \notin {"shot", "timeout", "conceded"}
  <2>1. CommandOf(res) = placed
    BY <1>1, <1>9
  <2> QED
    BY <1>3, <2>1 DEF Orders
<1> QED
  BY <1>6, <1>7, <1>8, <1>9

LEMMA BehindVersion ==
  ASSUME NEW bytes, NEW kind, NEW rest, Headed(bytes, kind, rest)
  PROVE  bytes \in Seq(Byte)
<1>a. kind \in 1 .. 4 /\ rest \in Seq(Byte) /\ bytes = Be(2, 1) \o (<<kind>> \o rest)
  BY DEF Headed
<1>1. Payload(Be(2, 1))
  BY BeType, WordLength DEF Payload
<1>2. Payload(<<kind>>) /\ Payload(rest)
  BY <1>a DEF Payload, Byte
<1>3. Payload(<<kind>> \o rest)
  BY <1>2, PayloadsJoin
<1>4. Payload(Be(2, 1) \o (<<kind>> \o rest))
  BY <1>1, <1>3, PayloadsJoin
<1> QED
  BY <1>a, <1>4, Zenon DEF Payload

LEMMA ResultIsPayload ==
  ASSUME NEW res \in Results
  PROVE  ResultBytes(res) \in Seq(Byte)
<1>1. CASE res \in ShotResults
  <2> DEFINE p == PlayerBytes(res.shooter)
             c == <<Len(res.fouls)>>
             f == FoulBytes(res.fouls)
             t == ShotTail(res)
             rest == p \o (c \o (f \o t))
  <2>1. ResultBytes(res) = Be(2, 1) \o (<<1>> \o rest)
    BY <1>1, ShotResultParts DEF ShotPayload
  <2>2. res.shooter \in Player /\ res.fouls \in FoulLists
    BY <1>1 DEF ShotResults
  <2>3. Payload(p) /\ Payload(c) /\ Payload(f) /\ Payload(t)
    BY <1>1, <2>2, PlayerBytesType, FoulCount, FoulNumbers, ShotTailType DEF Payload
  <2> HIDE DEF p, c, f, t
  <2>4. Payload(f \o t)
    BY <2>3, PayloadsJoin
  <2>5. Payload(c \o (f \o t))
    BY <2>3, <2>4, PayloadsJoin
  <2>6. rest \in Seq(Byte)
    BY <2>3, <2>5, PayloadsJoin DEF Payload
  <2> HIDE DEF rest
  <2>7. Headed(ResultBytes(res), 1, rest)
    BY <2>1, <2>6 DEF Headed
  <2> QED
    BY <2>7, BehindVersion
<1>2. CASE res \in [kind : {"timeout"}, active : Player]
  <2>1. res.kind = "timeout" /\ res.active \in Player
    BY <1>2
  <2>2. ResultBytes(res) = Be(2, 1) \o (<<2>> \o PlayerBytes(res.active))
    BY <2>1 DEF ResultBytes
  <2>3. PlayerBytes(res.active) \in Seq(Byte)
    BY <2>1, PlayerBytesType
  <2>4. Headed(ResultBytes(res), 2, PlayerBytes(res.active))
    BY <2>2, <2>3 DEF Headed
  <2> QED
    BY <2>4, BehindVersion
<1>3. CASE res \in [kind : {"conceded"}, outcome : Outcomes]
  <2>1. res.kind = "conceded" /\ res.outcome \in MatchStatuses
    BY <1>3 DEF MatchStatuses
  <2>2. ResultBytes(res) = Be(2, 1) \o (<<3>> \o StatusBytes(res.outcome))
    BY <2>1 DEF ResultBytes
  <2>3. StatusBytes(res.outcome) \in Seq(Byte)
    BY <2>1, StatusBytesType
  <2>4. Headed(ResultBytes(res), 3, StatusBytes(res.outcome))
    BY <2>2, <2>3 DEF Headed
  <2> QED
    BY <2>4, BehindVersion
<1>4. CASE res \in [kind : {"placed"}]
  <2>1. res.kind = "placed"
    BY <1>4
  <2> DEFINE rest == << >>
  <2>2. ResultBytes(res) = Be(2, 1) \o (<<4>> \o rest)
    BY <2>1 DEF ResultBytes
  <2>3. rest \in Seq(Byte)
    OBVIOUS
  <2> HIDE DEF rest
  <2>4. Headed(ResultBytes(res), 4, rest)
    BY <2>2, <2>3 DEF Headed
  <2> QED
    BY <2>4, BehindVersion
<1> QED
  BY <1>1, <1>2, <1>3, <1>4 DEF Results

LEMMA EnvelopeIsPayload ==
  ASSUME NEW e \in Envelopes
  PROVE  EnvelopeBytes(e) \in Seq(Byte)
<1>1. e.expected \in Word(8) /\ e.id \in Word(16) /\ e.command \in Orders
  BY DEF Envelopes
<1>2. PICK k \in Nat : CommandBytes(e.command) \in Word(k)
  BY <1>1, OrderRoundTrip
<1> DEFINE v == Be(2, 1)
           c == CommandBytes(e.command)
           w1 == v \o e.expected
           w2 == w1 \o e.id
           w3 == w2 \o v
<1>3. EnvelopeBytes(e) = w3 \o c
  BY DEF EnvelopeBytes, ProtocolVersion
<1>4. Payload(v) /\ Payload(c) /\ Payload(e.expected) /\ Payload(e.id)
  <2>1. v \in Word(2) /\ c \in Word(k)
    BY <1>2, BeType
  <2> HIDE DEF v, c
  <2> QED
    BY <1>1, <2>1, WordLength DEF Payload
<1> HIDE DEF v, c
<1>5. Payload(w1)
  BY <1>4, PayloadsJoin
<1>6. Payload(w2)
  BY <1>4, <1>5, PayloadsJoin
<1>7. Payload(w3)
  BY <1>4, <1>6, PayloadsJoin
<1>8. Payload(w3 \o c)
  BY <1>4, <1>7, PayloadsJoin
<1> QED
  BY <1>3, <1>8 DEF Payload

(* A command as it was accepted at a revision.                             *)
IsAccepted(c, expected, envelope) ==
  /\ c = [ match  |-> c.match, revision |-> c.revision, id |-> c.id, actor |-> c.actor, frame |-> c.frame,
           result |-> c.result, snapshot |-> c.snapshot, checksum |-> c.checksum, deadline |-> c.deadline ]
  /\ c.match = MatchId /\ c.revision = Successor(expected) /\ c.id = CommandId /\ c.id \in Seq(Byte)
  /\ c.result = result /\ c.snapshot = SnapshotBytes(Snapshot) /\ c.checksum = Checksum
  /\ c.deadline = DeadlineAt(Successor(expected), Snapshot)
  /\ c.frame \in Seq(Byte) /\ EnvelopeFrom(c.frame) = envelope
  /\ envelope.id = CommandId /\ envelope.expected = expected /\ envelope # Refused

LEMMA AcceptedCommand ==
  ASSUME BrokenInv, result # NoResult, NEW expected \in ExpectedRevisions
  PROVE  \E envelope : IsAccepted(Accepted(expected), expected, envelope)
<1> DEFINE envelope == [expected |-> expected, id |-> CommandId, command |-> CommandOf(result)]
           actor == Accounts[IF result.kind = "conceded" THEN Opponent(result.outcome.winner) ELSE "One"]
           frame == EnvelopeBytes(envelope)
           c == Accepted(expected)
<1>1. expected \in Word(8) /\ CommandId \in Word(16)
  BY NumberAssumption
<1>2. CommandOf(result) \in Orders
  BY CommandOrdered DEF BrokenInv, RecordInv
<1>3. envelope \in Envelopes
  BY <1>1, <1>2 DEF Envelopes
<1>4. EnvelopeFrom(frame) = envelope /\ frame \in Seq(Byte)
  BY <1>3, EnvelopesRoundTrip, EnvelopeIsPayload
<1>5. envelope.id = CommandId /\ envelope.expected = expected
  OBVIOUS
<1>6. envelope # Refused
  <2>1. "command" \in DOMAIN envelope
    OBVIOUS
  <2>2. "command" \notin DOMAIN Refused
    BY DEF Refused
  <2> QED
    BY <2>1, <2>2
<1>7. CommandId \in Seq(Byte)
  BY <1>1, WordLength
<1>8. c = [ match    |-> MatchId, revision |-> Successor(expected), id |-> CommandId, actor |-> actor, frame |-> frame,
            result   |-> result, snapshot |-> SnapshotBytes(Snapshot), checksum |-> ChecksumOf(Snapshot),
            deadline |-> DeadlineAt(Successor(expected), Snapshot) ]
  BY Zenon DEF Accepted
<1> HIDE DEF envelope, actor, frame, c
<1>9. /\ c = [ match  |-> c.match, revision |-> c.revision, id |-> c.id, actor |-> c.actor, frame |-> c.frame,
               result |-> c.result, snapshot |-> c.snapshot, checksum |-> c.checksum, deadline |-> c.deadline ]
      /\ c.match = MatchId /\ c.revision = Successor(expected) /\ c.id = CommandId /\ c.frame = frame
      /\ c.result = result /\ c.snapshot = SnapshotBytes(Snapshot) /\ c.checksum = Checksum
      /\ c.deadline = DeadlineAt(Successor(expected), Snapshot)
  BY <1>8, OfSnapshot
<1>10. IsAccepted(c, expected, envelope)
  BY <1>4, <1>5, <1>6, <1>7, <1>9 DEF IsAccepted
<1> QED
  BY <1>10 DEF c

(* What commit_command finds is consistent.                                *)
LEMMA ConsistentCommand ==
  ASSUME IInv, NEW expected \in Word(8), FitsInteger(Successor(expected)), NEW envelope, NEW c,
         IsAccepted(c, expected, envelope)
  PROVE  IsConsistent(c, envelope, Snapshot)
<1> DEFINE d == DeadlineAt(Successor(expected), Snapshot)
           next == Successor(expected)
<1>1. envelope # Refused /\ envelope.id = c.id /\ envelope.expected = expected /\ c.revision = next
      /\ c.checksum = Checksum /\ c.deadline = d
  BY DEF IsAccepted
<1>2. expected # next
  BY SuccessorMoves
<1>3. DeadlineFits(d, next, Snapshot)
  BY DeadlineGiven
<1> HIDE DEF d
<1> QED
  BY <1>1, <1>2, <1>3, OfSnapshot DEF IsConsistent

(* The row of the command is decoded to the command.                       *)
LEMMA CommandRowRead ==
  ASSUME BrokenInv, result # NoResult, NEW expected \in Word(8), FitsInteger(Successor(expected)),
         NEW envelope, NEW c, IsAccepted(c, expected, envelope)
  PROVE  CommandFrom(CommandRow(c), Configuration) = c
<1> DEFINE due == DeadlineColumns(c.deadline, "decimal")
           row == CommandRow(c)
           next == Successor(expected)
<1>1. row =
        [ id       |-> << c.match, c.id >>,
          match    |-> Decimal(c.match),      revision |-> Integer64(c.revision),
          command  |-> Hex(c.id),             actor    |-> Decimal(c.actor),
          frame    |-> Hex(c.frame),          result   |-> Hex(ResultBytes(c.result)),
          snapshot |-> Hex(c.snapshot),       checksum |-> Integer64(c.checksum),
          deadlineRevision |-> due.revision, deadlinePlayer |-> due.player, deadlineAt |-> due.at ]
  BY Zenon DEF CommandRow
<1>2. IInv /\ breaker \in Player /\ result \in Results
  BY DEF BrokenInv, RecordInv
<1>3. /\ c.match = MatchId /\ c.revision = next /\ c.id \in Seq(Byte) /\ c.result = result
      /\ c.snapshot = SnapshotBytes(Snapshot) /\ c.deadline = DeadlineAt(next, Snapshot)
      /\ c.frame \in Seq(Byte) /\ EnvelopeFrom(c.frame) = envelope
  BY DEF IsAccepted
<1>4. ResultFrom(ResultBytes(result)) = result /\ ResultBytes(result) \in Seq(Byte)
  BY <1>2, ResultsRoundTrip, ResultIsPayload
<1> HIDE DEF row, due, next
<1>5. /\ row.match = Decimal(c.match) /\ row.revision = Integer64(c.revision) /\ row.command = Hex(c.id)
      /\ row.actor = Decimal(c.actor) /\ row.frame = Hex(c.frame) /\ row.result = Hex(ResultBytes(c.result))
      /\ row.snapshot = Hex(c.snapshot) /\ row.checksum = Integer64(c.checksum) /\ HasColumns(row, due)
  BY <1>1 DEF HasColumns
<1>6. /\ row.match = Decimal(MatchId) /\ row.match.number = c.match
      /\ row.actor.type = "decimal" /\ row.actor.number = c.actor
      /\ IsUnsigned(row.revision) /\ row.revision.number = c.revision
      /\ IsPattern(row.checksum) /\ row.checksum.number = c.checksum
  <2>1. FitsInteger(c.revision)
    BY <1>3 DEF next
  <2> HIDE DEF FitsInteger
  <2> QED
    BY <1>3, <1>5, <2>1 DEF Decimal, Integer64, IsUnsigned, IsPattern
<1>7. IsBytes(row.command) /\ BytesOf(row.command) = c.id /\ IsBytes(row.frame) /\ BytesOf(row.frame) = c.frame
  BY <1>3, <1>5, HexRead
<1>8. IsBytes(row.result) /\ ResultFrom(BytesOf(row.result)) = c.result
  BY <1>3, <1>4, <1>5, HexRead
<1>9. IsBytes(row.snapshot) /\ BytesOf(row.snapshot) = c.snapshot /\ SnapshotFrom(c.snapshot) = Snapshot
  BY <1>3, <1>5, MatchBytes
<1>10. DeadlineFrom(row) = c.deadline /\ c.deadline # Refused
  <2> DEFINE d == c.deadline
  <2>1. d = DeadlineAt(next, Snapshot)
    BY <1>3
  <2>2. HasColumns(row, DeadlineColumns(d, "decimal"))
    BY <1>5 DEF due
  <2> HIDE DEF d
  <2>3. IsDeadline(d)
    BY <1>2, <2>1, DeadlineGiven
  <2>4. DeadlineFrom(row) = d
    BY <2>2, <2>3, DeadlineRead
  <2>5. d # Refused
    BY <2>3, NotRefused
  <2> QED
    BY <2>4, <2>5 DEF d
<1>11. c.result # Refused
  <2>1. "kind" \in DOMAIN result
    BY <1>2 DEF Results, ShotResults
  <2>2. "kind" \notin DOMAIN Refused
    BY DEF Refused
  <2> QED
    BY <1>3, <2>1, <2>2
<1>12. IsConsistent(c, envelope, Snapshot)
  BY <1>2, ConsistentCommand
<1> DEFINE read == [ match    |-> row.match.number,        revision |-> row.revision.number,
                     id       |-> BytesOf(row.command),    actor    |-> row.actor.number,
                     frame    |-> BytesOf(row.frame),      result   |-> ResultFrom(BytesOf(row.result)),
                     snapshot |-> BytesOf(row.snapshot),   checksum |-> row.checksum.number,
                     deadline |-> DeadlineFrom(row) ]
<1>13. read = c
  <2>1. c = [ match  |-> c.match, revision |-> c.revision, id |-> c.id, actor |-> c.actor, frame |-> c.frame,
              result |-> c.result, snapshot |-> c.snapshot, checksum |-> c.checksum, deadline |-> c.deadline ]
    BY DEF IsAccepted
  <2> QED
    BY <1>6, <1>7, <1>8, <1>9, <1>10, <2>1
<1>14. CommandFrom(row, Configuration)
         = Pinned(read, EnvelopeFrom(BytesOf(row.frame)), SnapshotFrom(BytesOf(row.snapshot)), Configuration)
  BY <1>6, <1>7, <1>8, <1>9, Zenon DEF CommandFrom
<1> HIDE DEF read
<1>15. CommandFrom(row, Configuration) = Pinned(c, envelope, Snapshot, Configuration)
  BY <1>3, <1>7, <1>9, <1>13, <1>14, Zenon
<1>16. Pinned(c, envelope, Snapshot, Configuration) = c
  BY <1>10, <1>11, <1>12, OfSnapshot, Zenon DEF Pinned
<1> QED
  BY <1>15, <1>16, Zenon DEF row

(* The row that the command is committed to.                               *)
LEMMA RowBeforeHolds ==
  ASSUME IInv, NEW expected
  PROVE  /\ RowBefore(expected).config = Hex(ConfigurationBytes(Configuration))
         /\ RowBefore(expected).playerOne = Decimal(Accounts["One"])
         /\ RowBefore(expected).playerTwo = Decimal(Accounts["Two"])
         /\ RowBefore(expected).revision = Integer64(expected)
<1> DEFINE first == InitialRow(Snapshot)
           row == RowBefore(expected)
<1>1. HoldsMatch(first, Be(8, 0))
  BY InitialRowHolds
<1>2. \E a, b, c, d, e, f, g, h, i, j :
        first = [ match |-> a, playerOne |-> b, playerTwo |-> c, config |-> d, revision |-> e, snapshot |-> f,
                  checksum |-> g, deadlineRevision |-> h, deadlinePlayer |-> i, deadlineAt |-> j ]
  BY Zenon DEF InitialRow, Canonical
<1>3. row = [first EXCEPT !.revision = Integer64(expected)]
  BY Zenon DEF RowBefore
<1> HIDE DEF first, row
<1>4. PICK a, b, c, d, e, f, g, h, i, j :
        first = [ match |-> a, playerOne |-> b, playerTwo |-> c, config |-> d, revision |-> e, snapshot |-> f,
                  checksum |-> g, deadlineRevision |-> h, deadlinePlayer |-> i, deadlineAt |-> j ]
  BY <1>2
<1>5. /\ row.config = first.config /\ row.playerOne = first.playerOne /\ row.playerTwo = first.playerTwo
      /\ row.revision = Integer64(expected)
  BY <1>3, <1>4
<1> QED
  BY <1>1, <1>5 DEF HoldsMatch, row

(* The commit is refused where the revision does not fit its column, and   *)
(* writes the rows of the match and of the command everywhere else.        *)
LEMMA Committed ==
  ASSUME BrokenInv, result # NoResult, NEW expected \in ExpectedRevisions,
         NEW rows, rows = Commit(Accepted(expected), RowBefore(expected)), NEW c, c = Accepted(expected)
  PROVE  IF FitsInteger(Successor(expected))
         THEN HoldsMatch(rows.match, Successor(expected)) /\ rows.commands = << CommandRow(c) >> /\ rows # Refused
         ELSE rows = Refused
<1> DEFINE row == RowBefore(expected)
           next == Successor(expected)
           new == [ match    |-> Canonical(row, c.revision, Snapshot, c.deadline),
                    commands |-> << CommandRow(c) >> ]
<1>1. IInv /\ expected \in Word(8)
  BY NumberAssumption DEF BrokenInv, RecordInv
<1>2. PICK envelope : IsAccepted(c, expected, envelope)
  BY AcceptedCommand
<1>3. /\ c.revision = next /\ c.deadline = DeadlineAt(next, Snapshot) /\ c.snapshot = SnapshotBytes(Snapshot)
      /\ EnvelopeFrom(c.frame) = envelope /\ envelope.expected = expected
  BY <1>2 DEF IsAccepted
<1>4. SnapshotFrom(c.snapshot) = Snapshot
  BY <1>3, MatchBytes
<1>5. rows = CommitOf(c, envelope, Snapshot, row)
  BY <1>3, <1>4, Zenon DEF Commit
<1>6. CommitOf(c, envelope, Snapshot, row) =
        IF /\ FitsInteger(c.revision)
           /\ IsConsistent(c, envelope, Snapshot)
           /\ ConfigurationFrom(BytesOf(row.config)) = ConfigurationOf(Snapshot)
           /\ row.revision = Integer64(envelope.expected)
        THEN new ELSE Refused
  BY Zenon DEF CommitOf
<1>7. /\ row.config = Hex(ConfigurationBytes(Configuration))
      /\ row.playerOne = Decimal(Accounts["One"]) /\ row.playerTwo = Decimal(Accounts["Two"])
      /\ row.revision = Integer64(expected)
  BY <1>1, RowBeforeHolds
<1>8. ConfigurationFrom(BytesOf(row.config)) = ConfigurationOf(Snapshot)
  BY <1>7, MatchBytes, OfSnapshot, Zenon
<1>9. new.match = Canonical(row, c.revision, Snapshot, c.deadline) /\ new.commands = << CommandRow(c) >> /\ new # Refused
  <2>1. "commands" \in DOMAIN new
    OBVIOUS
  <2>2. "commands" \notin DOMAIN Refused
    BY DEF Refused
  <2> QED
    BY <2>1, <2>2
<1> HIDE DEF new, row
<1>10. CASE FitsInteger(next)
  <2>1. IsConsistent(c, envelope, Snapshot)
    BY <1>1, <1>2, <1>10, ConsistentCommand
  <2>2. rows = new
    BY <1>3, <1>5, <1>6, <1>7, <1>8, <1>10, <2>1, Zenon
  <2>3. HoldsMatch(Canonical(row, c.revision, Snapshot, c.deadline), c.revision)
    <3> DEFINE m == Snapshot
               d == c.deadline
               r == c.revision
    <3>1. m = Snapshot /\ d = DeadlineAt(r, Snapshot)
      BY <1>3
    <3> HIDE DEF m, d, r
    <3>2. HoldsMatch(Canonical(row, r, m, d), r)
      BY <1>7, <3>1, CanonicalHolds
    <3> QED
      BY <3>2, Zenon DEF m, d, r
  <2>4. HoldsMatch(rows.match, next)
    BY <1>3, <1>9, <2>2, <2>3, Zenon
  <2> HIDE DEF next
  <2> QED
    BY <1>9, <1>10, <2>2, <2>4 DEF next
<1>11. CASE ~FitsInteger(next)
  BY <1>3, <1>5, <1>6, <1>11, Zenon
<1> QED
  BY <1>10, <1>11

(* load_commands and load_canonical_head on the rows that were written.    *)
LEMMA RowsReadBack ==
  ASSUME BrokenInv, result # NoResult, NEW expected \in ExpectedRevisions, FitsInteger(Successor(expected)),
         NEW c, c = Accepted(expected), NEW rows, HoldsMatch(rows.match, Successor(expected)),
         rows.commands = << CommandRow(c) >>
  PROVE  ReadBack(rows) = << Expected(Successor(expected)), [records |-> <<c>>] >>
<1> DEFINE next == Successor(expected)
           row == rows.match
           d == DeadlineAt(next, Snapshot)
           loaded == [records |-> <<c>>]
<1>1. IInv /\ expected \in Word(8)
  BY NumberAssumption DEF BrokenInv, RecordInv
<1>2. PICK envelope : IsAccepted(c, expected, envelope)
  BY AcceptedCommand
<1>3. CommandFrom(CommandRow(c), Configuration) = c
  BY <1>1, <1>2, CommandRowRead
<1>4. c # Refused
  <2>1. c = [ match  |-> c.match, revision |-> c.revision, id |-> c.id, actor |-> c.actor, frame |-> c.frame,
              result |-> c.result, snapshot |-> c.snapshot, checksum |-> c.checksum, deadline |-> c.deadline ]
    BY <1>2 DEF IsAccepted
  <2>2. "frame" \in DOMAIN c
    BY <2>1
  <2>3. "frame" \notin DOMAIN Refused
    BY DEF Refused
  <2> QED
    BY <2>2, <2>3
<1>5. row.config = Hex(ConfigurationBytes(Configuration))
  BY DEF HoldsMatch
<1>6. IsBytes(row.config) /\ ConfigurationFrom(BytesOf(row.config)) = Configuration
  BY <1>5, MatchBytes, Zenon
<1>7. /\ StateFrom(row) = Snapshot /\ ParticipantsFrom(row) = Accounts /\ DeadlineFrom(row) = d
      /\ row.revision.number = next
  BY MatchRowRead
<1>8. DeadlineFits(d, next, Snapshot)
  <2> DEFINE dd == d
  <2>1. dd = DeadlineAt(next, Snapshot)
    OBVIOUS
  <2> HIDE DEF dd
  <2>2. DeadlineFits(dd, next, Snapshot)
    BY <1>1, <2>1, DeadlineGiven
  <2> QED
    BY <2>2 DEF dd
<1>9. next # Be(8, 0)
  BY <1>1, SuccessorMoves
<1>10. c.revision = next /\ c.snapshot = SnapshotBytes(Snapshot) /\ c.checksum = Checksum /\ c.deadline = d
  BY <1>2 DEF IsAccepted
<1>11. DOMAIN rows.commands = {1} /\ rows.commands[1] = CommandRow(c) /\ Len(rows.commands) = 1 /\ rows.commands # << >>
  OBVIOUS
<1> HIDE DEF row, next, d
<1>12. LoadCommands(rows) = loaded
  <2> DEFINE records == [i \in {1} |-> CommandFrom(rows.commands[i], Configuration)]
  <2>1. LoadCommands(rows) = AllOf([ i \in DOMAIN rows.commands |->
                                       CommandFrom(rows.commands[i], ConfigurationFrom(BytesOf(row.config))) ])
    BY <1>6, Zenon DEF LoadCommands, row
  <2>2. LoadCommands(rows) = AllOf(records)
    BY <1>6, <1>11, <2>1, Zenon
  <2>3. records[1] = c /\ DOMAIN records = {1}
    BY <1>3, <1>11
  <2>4. records = [i \in {1} |-> c]
    BY <1>3, <1>11
  <2>5. <<c>> = [i \in {1} |-> c]
    <3>1. <<c>> = [i \in 1 .. 1 |-> c]
      OBVIOUS
    <3>2. 1 .. 1 = {1}
      OBVIOUS
    <3> QED
      BY <3>1, <3>2, Zenon
  <2>6. records = <<c>>
    BY <2>4, <2>5
  <2> HIDE DEF records
  <2>7. AllOf(records) = [records |-> records]
    BY <1>4, <2>3 DEF AllOf
  <2> QED
    BY <2>2, <2>6, <2>7
<1>13. loaded.records = <<c>> /\ loaded.records[1] = c /\ loaded # Refused
  <2>1. "records" \in DOMAIN loaded
    OBVIOUS
  <2>2. "records" \notin DOMAIN Refused
    BY DEF Refused
  <2> QED
    BY <2>1, <2>2
<1> HIDE DEF loaded
<1>14. HeadGiven(rows, loaded) = Expected(next)
  <2> DEFINE Agrees(last) == /\ last.revision = row.revision.number /\ last.snapshot = SnapshotBytes(Snapshot)
                             /\ last.checksum = ChecksumOf(Snapshot) /\ last.deadline = d
             TailAgrees == IF row.revision.number = Be(8, 0) THEN rows.commands = << >>
                           ELSE /\ loaded # Refused /\ rows.commands # << >>
                                /\ Agrees(loaded.records[Len(rows.commands)])
             head == [ participants |-> ParticipantsFrom(row), revision |-> row.revision.number,
                       state |-> Snapshot, deadline |-> d ]
  <2>1. HeadGiven(rows, loaded) = HeadOf(Snapshot, d, rows, loaded)
    BY <1>7, Zenon DEF HeadGiven, row
  <2>2. HeadOf(Snapshot, d, rows, loaded) =
          IF Snapshot = Refused THEN Refused
          ELSE IF DeadlineFits(d, row.revision.number, Snapshot) /\ TailAgrees THEN head ELSE Refused
    BY Zenon DEF HeadOf, row
  <2>3. Agrees(c)
    BY <1>7, <1>10, OfSnapshot
  <2>4. loaded.records[Len(rows.commands)] = c
    BY <1>11, <1>13, Zenon
  <2> HIDE DEF Agrees
  <2>5. TailAgrees
    BY <1>7, <1>9, <1>11, <1>13, <2>3, <2>4, Zenon
  <2>6. DeadlineFits(d, row.revision.number, Snapshot)
    BY <1>7, <1>8
  <2> HIDE DEF TailAgrees
  <2>7. HeadOf(Snapshot, d, rows, loaded) = head
    BY <2>2, <2>5, <2>6, OfSnapshot, Zenon
  <2>8. head = [participants |-> Accounts, revision |-> next, state |-> Snapshot, deadline |-> d]
    BY <1>7
  <2>9. Expected(next) = [participants |-> Accounts, revision |-> next, state |-> Snapshot, deadline |-> d]
    BY Zenon DEF Expected, d
  <2> QED
    BY <2>1, <2>7, <2>8, <2>9, Zenon
<1>15. ReadBack(rows) = << Expected(next), loaded >>
  BY <1>12, <1>14, Zenon DEF ReadBack, HeadAndCommands
<1> QED
  BY <1>15, Zenon DEF next, loaded

LEMMA ReasonWordsDiffer ==
  ASSUME NEW p \in Reasons, NEW q \in Reasons, Words(ReasonWord[p]) = Words(ReasonWord[q])
  PROVE  p = q
<1>1. Words(ReasonWord[p]).word = Words(ReasonWord[q]).word
  OBVIOUS
<1>2. ReasonWord[p] = ReasonWord[q]
  BY <1>1 DEF Words
<1>3. /\ ReasonWord["LegalEightBall"] = "legal-eight-ball" /\ ReasonWord["IllegalEightBall"] = "illegal-eight-ball"
      /\ ReasonWord["Concession"] = "concession"
  BY DEF ReasonWord
<1> QED
  BY <1>2, <1>3 DEF Reasons

(* The summary of a match that is over, and what is read of it.            *)
LEMMA SummaryRead ==
  ASSUME BrokenInv, status # InProgress, NEW next, FitsInteger(next), next # Be(8, 0),
         NEW row, HoldsMatch(row, next)
  PROVE  /\ SummaryFrom(SummaryRow(row)) =
              [ winner |-> Accounts[status.winner], reason |-> status.reason, revision |-> next, checksum |-> Checksum ]
         /\ PreviousMatch(row) = [revision |-> next, participants |-> Accounts, state |-> Snapshot]
<1>1. /\ StateFrom(row) = Snapshot /\ ParticipantsFrom(row) = Accounts
      /\ row.revision.number = next /\ row.revision = Integer64(next) /\ row.checksum.number = Checksum
  BY MatchRowRead
<1>2. status.reason \in Reasons
  BY DEF BrokenInv, RecordInv, IInv, TypeOK, Outcomes
<1> DEFINE summary == [ winner   |-> Decimal(ParticipantsFrom(row)[Snapshot.status.winner]),
                        reason   |-> Words(ReasonWord[Snapshot.status.reason]),
                        revision |-> row.revision, checksum |-> SignedText(row.checksum.number) ]
           reasons == {reason \in Reasons : summary.reason = Words(ReasonWord[reason])}
<1>3. row.revision # Integer64(Be(8, 0))
  <2>1. Integer64(next).number = next /\ Integer64(Be(8, 0)).number = Be(8, 0)
    BY DEF Integer64
  <2> QED
    BY <1>1, <2>1
<1>4. SummaryRow(row) = summary
  <2>1. SummaryRow(row) = SummaryOf(Snapshot, row)
    BY <1>1, Zenon DEF SummaryRow
  <2>2. Snapshot # Refused /\ Snapshot.status # InProgress
    BY OfSnapshot
  <2> QED
    BY <1>3, <2>1, <2>2, Zenon DEF SummaryOf
<1>5. /\ summary.winner = Decimal(Accounts[status.winner]) /\ summary.reason = Words(ReasonWord[status.reason])
      /\ summary.revision = Integer64(next) /\ summary.checksum = SignedText(Checksum)
  BY <1>1, OfSnapshot
<1> HIDE DEF summary
<1>6. /\ summary.winner.type = "decimal" /\ summary.winner.number = Accounts[status.winner]
      /\ IsUnsigned(summary.revision) /\ summary.revision.number = next
      /\ IsChecksum(summary.checksum) /\ summary.checksum.number = Checksum
  <2>1. summary.winner.type = "decimal" /\ summary.winner.number = Accounts[status.winner]
    BY <1>5 DEF Decimal
  <2>2. IsUnsigned(summary.revision) /\ summary.revision.number = next
    BY <1>5 DEF Integer64, IsUnsigned
  <2>3. IsChecksum(summary.checksum) /\ summary.checksum.number = Checksum
    BY <1>5 DEF SignedText, IsChecksum, IsPattern
  <2> QED
    BY <2>1, <2>2, <2>3
<1>7. reasons = {status.reason}
  BY <1>2, <1>5, ReasonWordsDiffer
<1>8. (CHOOSE reason \in reasons : TRUE) = status.reason /\ reasons # {}
  BY <1>7
<1> HIDE DEF reasons
<1>9. SummaryFrom(summary) = [ winner   |-> summary.winner.number,   reason   |-> CHOOSE reason \in reasons : TRUE,
                               revision |-> summary.revision.number, checksum |-> summary.checksum.number ]
  BY <1>6, <1>8, Zenon DEF SummaryFrom, reasons
<1>10. SummaryFrom(summary) =
         [ winner |-> Accounts[status.winner], reason |-> status.reason, revision |-> next, checksum |-> Checksum ]
  BY <1>6, <1>8, <1>9
<1>11. PreviousMatch(row) = [revision |-> next, participants |-> Accounts, state |-> Snapshot]
  <2>1. PreviousMatch(row) = PreviousOf(Snapshot, row)
    BY <1>1, Zenon DEF PreviousMatch
  <2> QED
    BY <1>1, <2>1, OfSnapshot, Zenon DEF PreviousOf
<1> QED
  BY <1>4, <1>10, <1>11

(* The rows of an accepted command.                                        *)
LEMMA CommandIsRead ==
  ASSUME BrokenInv, result # NoResult, NEW expected \in ExpectedRevisions
  PROVE  CommandSurvives(Commit(Accepted(expected), RowBefore(expected)), Accepted(expected))
<1> DEFINE rows == Commit(Accepted(expected), RowBefore(expected))
           c == Accepted(expected)
           next == Successor(expected)
<1>1. IF FitsInteger(next)
      THEN HoldsMatch(rows.match, next) /\ rows.commands = << CommandRow(c) >> /\ rows # Refused
      ELSE rows = Refused
  BY Committed
<1>2. expected \in Word(8)
  BY NumberAssumption
<1>3. PICK envelope : IsAccepted(c, expected, envelope)
  BY AcceptedCommand
<1>4. c.revision = next /\ c.checksum = Checksum
  BY <1>3 DEF IsAccepted
<1>5. CASE FitsInteger(next)
  <2>1. HoldsMatch(rows.match, next) /\ rows.commands = << CommandRow(c) >> /\ rows # Refused
    BY <1>1, <1>5
  <2>2. next # Be(8, 0)
    BY <1>2, <1>5, SuccessorMoves
  <2>3. c = Accepted(expected)
    OBVIOUS
  <2> HIDE DEF rows, c
  <2>4. ReadBack(rows) = << Expected(next), [records |-> <<c>>] >>
    BY <1>5, <2>1, <2>3, RowsReadBack
  <2> HIDE DEF next
  <2>5. CASE status = InProgress
    <3>1. StateFrom(rows.match) = Snapshot
      BY <1>5, <2>1, MatchRowRead
    <3>2. SummaryRow(rows.match) = SummaryOf(Snapshot, rows.match)
      BY <3>1, Zenon DEF SummaryRow
    <3>3. SummaryRow(rows.match) = Null
      BY <2>5, <3>2, OfSnapshot, Zenon DEF SummaryOf
    <3>4. RowsHold(rows, c)
      BY <1>4, <2>4, <2>5, <3>3, Zenon DEF RowsHold
    <3> QED
      BY <1>4, <1>5, <2>1, <3>4, Zenon DEF CommandSurvives, rows, c
  <2>6. CASE status # InProgress
    <3>1. /\ SummaryFrom(SummaryRow(rows.match)) =
               [ winner |-> Accounts[status.winner], reason |-> status.reason, revision |-> next, checksum |-> Checksum ]
          /\ PreviousMatch(rows.match) = [revision |-> next, participants |-> Accounts, state |-> Snapshot]
      BY <1>5, <2>1, <2>2, <2>6, SummaryRead
    <3>2. RowsHold(rows, c)
      BY <1>4, <2>4, <2>6, <3>1, Zenon DEF RowsHold
    <3> QED
      BY <1>4, <1>5, <2>1, <3>2, Zenon DEF CommandSurvives, rows, c
  <2> QED
    BY <2>5, <2>6
<1>6. CASE ~FitsInteger(next)
  BY <1>1, <1>4, <1>6, Zenon DEF CommandSurvives
<1> QED
  BY <1>5, <1>6

LEMMA RecordsRead ==
  BrokenInv => RecordsSurvive
<1> SUFFICES ASSUME BrokenInv
             PROVE  RecordsSurvive
  OBVIOUS
<1>1. PayloadsSurvive
  BY PayloadsRead
<1>2. StartSurvives
  BY StartRead
<1>3. ASSUME result # NoResult, NEW expected \in ExpectedRevisions
      PROVE  CommandSurvives(Commit(Accepted(expected), RowBefore(expected)), Accepted(expected))
  BY <1>3, CommandIsRead
<1> QED
  BY <1>1, <1>2, <1>3, Zenon DEF RecordsSurvive

(* Whatever commands a match took, it comes back from the rows it is kept  *)
(* in: the row of a new match, the canonical columns of every later state, *)
(* the record of the command that led to it and its summary are read as    *)
(* what was written, and commit_command refuses nothing but a revision     *)
(* that no column holds.                                                   *)
THEOREM RecordedRowsSurvive == RecordedSpec => []RecordsSurvive
<1>1. RecordedInit => BrokenInv
  BY BrokenInit
<1>2. BrokenInv /\ [RecordedNext]_recordVars => BrokenInv'
  BY BrokenStep
<1>3. BrokenInv => RecordsSurvive
  BY RecordsRead
<1>4. QED
  BY <1>1, <1>2, <1>3, PTL DEF RecordedSpec

(* What stood in front when a field was accepted.                          *)

StandsInFront(rest, raw, more) == more \in Seq(Byte) /\ rest = raw \o more

SideBySide(x, y, whole) ==
  /\ whole \in Seq(Byte) /\ Len(whole) = Len(x) + Len(y)
  /\ \A i \in 1 .. Len(x) : whole[i] = x[i]
  /\ \A i \in 1 .. Len(y) : whole[Len(x) + i] = y[i]

LEMMA PartsInPlace ==
  ASSUME NEW x \in Seq(Byte), NEW y \in Seq(Byte)
  PROVE  SideBySide(x, y, x \o y)
<1> DEFINE w == x \o y
<1>1. Len(x) \in Nat /\ Len(y) \in Nat
  OBVIOUS
<1>2. w \in Seq(Byte) /\ Len(w) = Len(x) + Len(y)
  OBVIOUS
<1>3. \A i \in 1 .. Len(x) : w[i] = x[i]
  BY <1>1
<1>4. \A i \in 1 .. Len(y) : w[Len(x) + i] = y[i]
  BY <1>1
<1> HIDE DEF w
<1>5. SideBySide(x, y, w)
  BY <1>2, <1>3, <1>4 DEF SideBySide
<1> QED
  BY <1>5 DEF w

LEMMA Prepended ==
  ASSUME NEW x \in Seq(Byte), NEW rest \in Seq(Byte), Len(x) = 1, Len(rest) >= 1, x[1] = rest[1],
         NEW more \in Seq(Byte), Len(more) = Len(rest) - 1, \A i \in 1 .. Len(rest) - 1 : more[i] = rest[i + 1]
  PROVE  rest = x \o more
<1> DEFINE y == x \o more
           size == Len(rest)
<1>1. SideBySide(x, more, y)
  BY PartsInPlace
<1> HIDE DEF y
<1>2. /\ size \in Nat /\ size >= 1 /\ y \in Seq(Byte) /\ Len(y) = size
      /\ y[1] = x[1] /\ \A i \in 1 .. size - 1 : y[1 + i] = more[i]
  BY <1>1 DEF SideBySide
<1>3. ASSUME NEW i \in 1 .. size
      PROVE  y[i] = rest[i]
  <2>1. CASE i = 1
    BY <1>2, <2>1
  <2>2. CASE i # 1
    <3>1. i - 1 \in 1 .. size - 1 /\ (i - 1) + 1 = i /\ 1 + (i - 1) = i
      BY <1>2, <2>2
    <3>2. y[1 + (i - 1)] = more[i - 1]
      BY <1>2, <3>1
    <3>3. more[i - 1] = rest[(i - 1) + 1]
      BY <3>1
    <3> QED
      BY <3>1, <3>2, <3>3
  <2> QED
    BY <2>1, <2>2
<1>4. y = rest
  BY <1>2, <1>3
<1> QED
  BY <1>4 DEF y
LEMMA FirstAndRest ==
  ASSUME NEW rest \in Seq(Byte), Len(rest) >= 1
  PROVE  StandsInFront(rest, <<rest[1]>>, [i \in 1 .. Len(rest) - 1 |-> rest[i + 1]])
<1> DEFINE more == [i \in 1 .. Len(rest) - 1 |-> rest[i + 1]]
           x    == <<rest[1]>>
<1>1. Len(rest) - 1 \in Nat /\ rest[1] \in Byte /\ \A i \in 1 .. Len(rest) - 1 : rest[i + 1] \in Byte
  OBVIOUS
<1>2. /\ more \in Seq(Byte) /\ Len(more) = Len(rest) - 1
      /\ \A i \in 1 .. Len(rest) - 1 : more[i] = rest[i + 1]
  BY <1>1
<1>3. x \in Seq(Byte) /\ Len(x) = 1 /\ x[1] = rest[1]
  BY <1>1
<1> HIDE DEF x, more
<1>4. rest = x \o more
  BY <1>2, <1>3, Prepended
<1> QED
  BY <1>2, <1>4 DEF x, more, StandsInFront

(* A byte that was accepted is one of those the field may hold.            *)
LEMMA ByteAccepted ==
  ASSUME NEW bytes, NEW at, NEW rest, Ends(bytes, at, rest), NEW got, NEW name, NEW legal,
         Take(Got(bytes, at, got), Field(name, 1, legal)).ok
  PROVE  \E n \in legal, more \in Seq(Byte) : n \in Byte /\ StandsInFront(rest, <<n>>, more)
<1> DEFINE r     == Got(bytes, at, got)
           field == Field(name, 1, legal)
           n     == rest[1]
           more  == [i \in 1 .. Len(rest) - 1 |-> rest[i + 1]]
           raw   == SubSeq(r.bytes, r.at + 1, r.at + field.width)
           value == IF field.width <= 2 THEN Unsigned(raw) ELSE raw
<1>1. /\ bytes \in Seq(Byte) /\ rest \in Seq(Byte) /\ at \in Nat /\ Len(bytes) = at + Len(rest)
      /\ Len(rest) \in Nat /\ Len(bytes) \in Nat /\ \A i \in 1 .. Len(rest) : bytes[at + i] = rest[i]
  BY DEF Ends, Holds
<1>2. /\ r.bytes = bytes /\ r.at = at /\ r.ok = TRUE /\ "ok" \in DOMAIN r
      /\ field.width = 1 /\ field.legal = legal /\ field.free = FALSE
  BY DEF Got, Field
<1>3. ~(Len(bytes) - at < field.width) /\ value \in field.legal
  <2> HIDE DEF r, field
  <2>1. Take(Got(bytes, at, got), field).ok
    BY DEF r, field
  <2>2. /\ ~(Len(bytes) - at < field.width)
        /\ LET w == SubSeq(bytes, at + 1, at + field.width)
           IN  field.free \/ (IF field.width <= 2 THEN Unsigned(w) ELSE w) \in field.legal
    BY <2>1, TakenFits
  <2> QED
    BY <1>2, <2>2
<1>4. Len(rest) >= 1
  BY <1>1, <1>2, <1>3
<1>5. n \in Byte /\ bytes[at + 1] = n
  BY <1>1, <1>4
<1>6. SubSeq(bytes, at + 1, at + 1) = <<n>>
  <2> DEFINE x == <<n>>
  <2>1. x \in Seq(Byte) /\ Len(x) = 1 /\ x[1] = n
    BY <1>5
  <2> HIDE DEF x, n
  <2>2. Holds(bytes, at, x)
    BY <1>1, <1>4, <1>5, <2>1 DEF Holds
  <2>3. SubSeq(bytes, at + 1, at + Len(x)) = x
    BY <1>1, <2>1, <2>2, HoldsSlice
  <2> QED
    BY <2>1, <2>3 DEF x
<1>7. value = n
  <2>1. raw = <<n>>
    BY <1>2, <1>6
  <2>2. value = Unsigned(raw)
    BY <1>2
  <2>3. Unsigned(<<n>>) = n
    BY <1>5, OneByte
  <2> HIDE DEF raw, value, n
  <2> QED
    BY <2>1, <2>2, <2>3
<1>8. n \in legal
  BY <1>2, <1>3, <1>7
<1>9. StandsInFront(rest, <<n>>, more)
  BY <1>1, <1>4, FirstAndRest
<1>10. more \in Seq(Byte)
  BY <1>9 DEF StandsInFront
<1> HIDE DEF n, more
<1> QED
  BY <1>5, <1>8, <1>9, <1>10

(* Two bytes.                                                              *)
PairInFront(rest, m, n, more) == m \in Byte /\ n \in Byte /\ more \in Seq(Byte) /\ rest = <<m>> \o (<<n>> \o more)

LEMMA BytesAccepted ==
  ASSUME NEW bytes, NEW at, NEW rest, Ends(bytes, at, rest), NEW got, NEW first, NEW second, NEW some, NEW others,
         ReadAll(Got(bytes, at, got), << Field(first, 1, some), Field(second, 1, others) >>).ok
  PROVE  \E m \in some, n \in others, more \in Seq(Byte) :
           /\ PairInFront(rest, m, n, more)
           /\ ReadAll(Got(bytes, at, got), << Field(first, 1, some), Field(second, 1, others) >>)
                = Got(bytes, at + 2, With(With(got, first, m), second, n))
           /\ Ends(bytes, at + 2, more)
<1> DEFINE r == Got(bytes, at, got)
           f == Field(first, 1, some)
           g == Field(second, 1, others)
<1>1. ReadAll(r, <<f, g>>) = Take(Take(r, f), g)
  BY ReadTwo
<1>2. "ok" \in DOMAIN r
  BY DEF Got
<1>3. Take(r, f).ok
  <2> HIDE DEF r, f, g
  <2>1. Take(Take(r, f), g).ok
    BY <1>1 DEF r, f, g
  <2>2. "ok" \in DOMAIN Take(r, f)
    BY <1>2, FailedOnce
  <2>3. ~Take(r, f).ok => ~Take(Take(r, f), g).ok
    BY <2>2, FailedOnce
  <2> QED
    BY <2>1, <2>3
<1>4. PICK m \in some, tail \in Seq(Byte) : m \in Byte /\ StandsInFront(rest, <<m>>, tail)
  <2>1. Take(Got(bytes, at, got), Field(first, 1, some)).ok
    BY <1>3
  <2> QED
    BY <2>1, ByteAccepted
<1>5. tail \in Seq(Byte) /\ rest = <<m>> \o tail /\ at \in Nat
  BY <1>4 DEF StandsInFront, Ends
<1>6. Take(r, f) = Got(bytes, at + 1, With(got, first, m)) /\ Ends(bytes, at + 1, tail)
  <2>1. Ends(bytes, at, <<m>> \o tail)
    BY <1>5
  <2>2. m \in Byte /\ tail \in Seq(Byte) /\ m \in some
    BY <1>4, <1>5
  <2> HIDE DEF r, f, g
  <2>3. /\ Take(Got(bytes, at, got), Field(first, 1, some)) = Got(bytes, at + 1, With(got, first, m))
        /\ Ends(bytes, at + 1, tail)
    BY <2>1, <2>2, FrontByte
  <2> QED
    BY <2>3 DEF r, f
<1>7. PICK n \in others, more \in Seq(Byte) : n \in Byte /\ StandsInFront(tail, <<n>>, more)
  <2> DEFINE h == With(got, first, m)
  <2>1. Take(Got(bytes, at + 1, h), Field(second, 1, others)).ok
    <3> HIDE DEF h
    <3>1. Take(r, f) = Got(bytes, at + 1, h)
      BY <1>6 DEF h
    <3> HIDE DEF r, f, g
    <3>2. Take(Take(r, f), g).ok
      BY <1>1 DEF r, f, g
    <3>3. Take(Got(bytes, at + 1, h), g).ok
      BY <3>1, <3>2
    <3> QED
      BY <3>3 DEF g
  <2> HIDE DEF h
  <2> QED
    <3>1. Ends(bytes, at + 1, tail)
      BY <1>6
    <3> QED
      BY <2>1, <3>1, ByteAccepted
<1>8. more \in Seq(Byte) /\ tail = <<n>> \o more /\ rest = <<m>> \o (<<n>> \o more)
  BY <1>5, <1>7 DEF StandsInFront
<1>9. /\ ReadAll(Got(bytes, at, got), << Field(first, 1, some), Field(second, 1, others) >>)
           = Got(bytes, at + 2, With(With(got, first, m), second, n))
      /\ Ends(bytes, at + 2, more)
  <2>1. Ends(bytes, at, <<m>> \o (<<n>> \o more))
    BY <1>8
  <2>2. m \in Byte /\ n \in Byte /\ more \in Seq(Byte) /\ m \in some /\ n \in others
    BY <1>4, <1>7, <1>8
  <2> QED
    BY <2>1, <2>2, FrontBytes
<1>10. PairInFront(rest, m, n, more)
  BY <1>4, <1>7, <1>8 DEF PairInFront
<1> QED
  BY <1>4, <1>7, <1>9, <1>10

(* A status that was accepted is the status of a match.                    *)
LEMMA StatusNumbers ==
  ASSUME NEW p \in {1, 2}, NEW q \in 1 .. 3, NEW st, st = [winner |-> PlayerAt(p), reason |-> ReasonNames[q]]
  PROVE  st \in MatchStatuses /\ StatusBytes(st) = <<1>> \o <<p>> \o <<q>>
<1>1. st.winner = PlayerAt(p) /\ st.reason = ReasonNames[q]
  OBVIOUS
<1>2. PlayerAt(p) \in Player
  BY DEF PlayerAt, Player
<1>3. ReasonNames[q] \in Reasons
  BY DEF ReasonNames, Reasons
<1>4. st \in Outcomes
  BY <1>2, <1>3 DEF Outcomes
<1>5. st # InProgress
  BY <1>4, StatusAssumption
<1>6. PlayerBytes(st.winner) = <<p>>
  BY <1>1 DEF PlayerAt, PlayerBytes
<1>7. PICK k \in 1 .. 3 : SelectInSeq(ReasonNames, LAMBDA name : name = st.reason) = k /\ ReasonNames[k] = st.reason
  BY <1>1, <1>3, ReasonRoundTrip
<1>8. k = q
  BY <1>1, <1>7 DEF ReasonNames
<1>9. StatusBytes(st) = <<1>> \o <<p>> \o <<q>>
  BY <1>5, <1>6, <1>7, <1>8 DEF StatusBytes
<1> QED
  BY <1>4, <1>9 DEF MatchStatuses

LEMMA StatusAccepted ==
  ASSUME NEW bytes, NEW at, NEW rest, Ends(bytes, at, rest), NEW got, TakeStatus(Got(bytes, at, got)).ok
  PROVE  \E st \in MatchStatuses, more \in Seq(Byte) : StandsInFront(rest, StatusBytes(st), more)
<1> DEFINE tag == Take(Got(bytes, at, got), Field("status", 1, {0, 1}))
           pair == << Field("winner", 1, {1, 2}), Field("reason", 1, 1 .. 3) >>
<1>1. TakeStatus(Got(bytes, at, got)) = IF tag.ok /\ tag.got.status = 1 THEN ReadAll(tag, pair) ELSE tag
  BY DEF TakeStatus
<1>2. tag.ok
  <2> HIDE DEF tag, pair
  <2> QED
    BY <1>1
<1> DEFINE bits == {0, 1}
<1>3. PICK n \in bits, more \in Seq(Byte) : n \in Byte /\ StandsInFront(rest, <<n>>, more)
  <2> HIDE DEF bits
  <2>1. Take(Got(bytes, at, got), Field("status", 1, bits)).ok
    BY <1>2 DEF bits
  <2> QED
    BY <2>1, ByteAccepted
<1>4. more \in Seq(Byte) /\ rest = <<n>> \o more /\ at \in Nat
  BY <1>3 DEF StandsInFront, Ends
<1> DEFINE g == With(got, "status", n)
<1>5. tag = Got(bytes, at + 1, g) /\ Ends(bytes, at + 1, more)
  <2>1. Ends(bytes, at, <<n>> \o more)
    BY <1>4
  <2>2. n \in Byte /\ n \in bits
    BY <1>3
  <2>3. more \in Seq(Byte)
    BY <1>4
  <2> HIDE DEF bits, tag, pair, g
  <2>4. /\ Take(Got(bytes, at, got), Field("status", 1, bits)) = Got(bytes, at + 1, With(got, "status", n))
        /\ Ends(bytes, at + 1, more)
    BY <2>1, <2>2, <2>3, FrontByte
  <2> QED
    BY <2>4 DEF bits, tag, g
<1>6. CASE n = 0
  <2>1. InProgress \in MatchStatuses /\ StatusBytes(InProgress) = <<n>>
    BY <1>6 DEF MatchStatuses, StatusBytes
  <2>2. StandsInFront(rest, StatusBytes(InProgress), more)
    BY <1>3, <2>1
  <2> QED
    BY <2>1, <2>2
<1>7. CASE n = 1
  <2>1. tag.got.status = 1
    <3>1. tag.got = g
      BY <1>5 DEF Got
    <3>2. g.status = n
      BY DEF With
    <3> HIDE DEF tag, g
    <3> QED
      BY <1>7, <3>1, <3>2
  <2>2. ReadAll(Got(bytes, at + 1, g), pair).ok
    <3> HIDE DEF tag, pair, g
    <3> QED
      BY <1>1, <1>2, <1>5, <2>1
  <2> DEFINE players == {1, 2}
             reasons == 1 .. 3
  <2> HIDE DEF g, players, reasons
  <2> DEFINE readers == ReadAll(Got(bytes, at + 1, g), << Field("winner", 1, players), Field("reason", 1, reasons) >>)
  <2>3. PICK p \in players, q \in reasons, after \in Seq(Byte) :
          /\ PairInFront(more, p, q, after)
          /\ readers = Got(bytes, at + 1 + 2, With(With(g, "winner", p), "reason", q))
          /\ Ends(bytes, at + 1 + 2, after)
    <3>1. ReadAll(Got(bytes, at + 1, g), << Field("winner", 1, players), Field("reason", 1, reasons) >>).ok
      BY <2>2 DEF players, reasons
    <3>2. Ends(bytes, at + 1, more)
      BY <1>5
    <3> HIDE DEF tag, bits, pair
    <3> QED
      BY <3>1, <3>2, BytesAccepted
  <2> DEFINE st == [winner |-> PlayerAt(p), reason |-> ReasonNames[q]]
  <2>4. st \in MatchStatuses /\ StatusBytes(st) = <<1>> \o <<p>> \o <<q>>
    <3>1. p \in {1, 2} /\ q \in 1 .. 3
      BY <2>3 DEF players, reasons
    <3> QED
      BY <3>1, StatusNumbers
  <2> HIDE DEF st
  <2>5. rest = (<<1>> \o <<p>> \o <<q>>) \o after
    <3> DEFINE x == <<1>>  y == <<p>>  z == <<q>>
    <3>1. Payload(x) /\ Payload(y) /\ Payload(z) /\ Payload(after)
      BY <2>3 DEF Payload, Byte, PairInFront
    <3>2. rest = x \o (y \o (z \o after))
      BY <1>4, <1>7, <2>3 DEF PairInFront
    <3> HIDE DEF x, y, z
    <3>3. Payload(x \o y) /\ Payload(z \o after)
      BY <3>1, PayloadsJoin
    <3>4. Associate(x \o y, z, after) /\ Associate(x, y, z \o after)
      BY <3>1, <3>3, PayloadsAssociate
    <3>5. rest = ((x \o y) \o z) \o after
      BY <3>2, <3>4 DEF Associate
    <3> QED
      BY <3>5 DEF x, y, z
  <2>6. StandsInFront(rest, StatusBytes(st), after)
    BY <2>3, <2>4, <2>5 DEF StandsInFront, PairInFront
  <2> QED
    BY <2>4, <2>6
<1> QED
  BY <1>3, <1>6, <1>7

(* Fouls that were accepted are some of the four, none of them twice.      *)
LEMMA FoulFailedOnce ==
  ASSUME NEW r, "ok" \in DOMAIN r
  PROVE  "ok" \in DOMAIN TakeFoul(r) /\ (~r.ok => ~TakeFoul(r).ok)
<1> DEFINE s    == [r EXCEPT !.got = << >>]
           next == Take(s, Field("foul", 1, 1 .. 4))
           Twice == \E k \in DOMAIN r.got : r.got[k] = FoulOrder[next.got.foul]
           failed == [r EXCEPT !.ok = FALSE]
           taken  == [next EXCEPT !.got = Append(r.got, FoulOrder[next.got.foul])]
<1>1. TakeFoul(r) = IF ~next.ok \/ Twice THEN failed ELSE taken
  BY DEF TakeFoul
<1>2. "ok" \in DOMAIN s /\ (~r.ok => ~s.ok)
  OBVIOUS
<1>3. "ok" \in DOMAIN next /\ (~s.ok => ~next.ok)
  <2> HIDE DEF s
  <2> QED
    BY <1>2, FailedOnce
<1> HIDE DEF next
<1>4. "ok" \in DOMAIN failed /\ failed.ok = FALSE /\ "ok" \in DOMAIN taken
  BY <1>3
<1> HIDE DEF failed, taken, Twice, s
<1> QED
  BY <1>1, <1>2, <1>3, <1>4

LEMMA FoulAccepted ==
  ASSUME NEW bytes, NEW at, NEW rest, Ends(bytes, at, rest), NEW fouls, TakeFoul(Got(bytes, at, fouls)).ok
  PROVE  \E k \in 1 .. 4, more \in Seq(Byte) :
           /\ StandsInFront(rest, <<k>>, more)
           /\ \A j \in DOMAIN fouls : fouls[j] # FoulOrder[k]
           /\ TakeFoul(Got(bytes, at, fouls)) = Got(bytes, at + 1, Append(fouls, FoulOrder[k]))
           /\ Ends(bytes, at + 1, more)
<1> DEFINE r     == Got(bytes, at, fouls)
           s     == [r EXCEPT !.got = << >>]
           kinds == 1 .. 4
           next  == Take(s, Field("foul", 1, kinds))
           Twice == \E k \in DOMAIN r.got : r.got[k] = FoulOrder[next.got.foul]
           failed == [r EXCEPT !.ok = FALSE]
           taken  == [next EXCEPT !.got = Append(r.got, FoulOrder[next.got.foul])]
<1>1. TakeFoul(r) = IF ~next.ok \/ Twice THEN failed ELSE taken
  BY DEF TakeFoul
<1>2. failed.ok = FALSE
  BY DEF Got
<1>3. next.ok /\ ~Twice
  <2> HIDE DEF r, s, next, Twice, failed, taken, kinds
  <2>1. TakeFoul(r).ok
    BY DEF r
  <2> QED
    BY <1>1, <1>2, <2>1
<1>4. s = Got(bytes, at, << >>) /\ r.got = fouls
  BY GotOther DEF Got
<1> HIDE DEF kinds
<1>5. PICK k \in kinds, more \in Seq(Byte) : k \in Byte /\ StandsInFront(rest, <<k>>, more)
  <2>1. Take(Got(bytes, at, << >>), Field("foul", 1, kinds)).ok
    <3> HIDE DEF s
    <3> QED
      BY <1>3, <1>4
  <2> HIDE DEF r, s, next, Twice, failed, taken
  <2> QED
    BY <2>1, ByteAccepted
<1>6. more \in Seq(Byte) /\ rest = <<k>> \o more /\ at \in Nat /\ bytes \in Seq(Byte)
  BY <1>5 DEF StandsInFront, Ends
<1> DEFINE empty == << >>
           g == With(empty, "foul", k)
<1>7. next = Got(bytes, at + 1, g) /\ Ends(bytes, at + 1, more)
  <2>1. Ends(bytes, at, <<k>> \o more)
    BY <1>6
  <2>2. k \in Byte /\ k \in kinds /\ more \in Seq(Byte)
    BY <1>5, <1>6
  <2> HIDE DEF r, s, Twice, failed, taken, g, empty, next
  <2>3. /\ Take(Got(bytes, at, empty), Field("foul", 1, kinds)) = Got(bytes, at + 1, With(empty, "foul", k))
        /\ Ends(bytes, at + 1, more)
    BY <2>1, <2>2, FrontByte
  <2> QED
    BY <1>4, <2>3 DEF next, g, empty
<1>8. next.got.foul = k
  <2>1. next.got = g
    BY <1>7 DEF Got
  <2>2. g.foul = k
    BY DEF With
  <2> HIDE DEF next, g
  <2> QED
    BY <2>1, <2>2
<1>9. \A j \in DOMAIN fouls : fouls[j] # FoulOrder[k]
  <2> HIDE DEF r, next
  <2> QED
    BY <1>3, <1>4, <1>8
<1>10. k \in 1 .. 4
  BY <1>5 DEF kinds
<1> HIDE DEF r, s, next, Twice, failed, taken, g, empty
<1>11. Holds(bytes, at, <<k>>)
  <2> DEFINE x == <<k>>
  <2>1. x \in Seq(Byte) /\ Ends(bytes, at, x \o more)
    BY <1>5, <1>6
  <2> HIDE DEF x
  <2>2. Holds(bytes, at, x)
    BY <1>6, <2>1, FrontPart
  <2> QED
    BY <2>2 DEF x
<1>12. TakeFoul(Got(bytes, at, fouls)) = Got(bytes, at + 1, Append(fouls, FoulOrder[k]))
  BY <1>6, <1>9, <1>10, <1>11, FoulTaken
<1> QED
  BY <1>5, <1>7, <1>9, <1>10, <1>12

(* One more foul in the list.                                              *)
LEMMA FoulAdded ==
  ASSUME NEW fouls \in FoulLists, NEW k \in 1 .. 4, Len(fouls) < 4, \A j \in DOMAIN fouls : fouls[j] # FoulOrder[k]
  PROVE  /\ Append(fouls, FoulOrder[k]) \in FoulLists
         /\ Len(Append(fouls, FoulOrder[k])) = Len(fouls) + 1
         /\ FoulBytes(Append(fouls, FoulOrder[k])) = FoulBytes(fouls) \o <<k>>
<1> DEFINE n == Len(fouls)
           foul == FoulOrder[k]
           l == Append(fouls, foul)
           b == FoulBytes(fouls)
           c == FoulBytes(l)
           x == <<k>>
           w == b \o x
<1>1. /\ n \in Nat /\ fouls \in Seq(FoulNames) /\ DOMAIN fouls = 1 .. n
      /\ \A i, j \in 1 .. n : fouls[i] = fouls[j] => i = j
  BY DEF FoulLists
<1>2. foul \in FoulNames
  BY DEF FoulNames
<1>3. \A j \in 1 .. n : fouls[j] # foul
  BY <1>1
<1> HIDE DEF foul
<1>4. l \in Seq(FoulNames) /\ Len(l) = n + 1 /\ l[n + 1] = foul /\ \A i \in 1 .. n : l[i] = fouls[i]
  BY <1>1, <1>2
<1>5. l \in FoulLists
  <2> HIDE DEF l
  <2>1. \A i, j \in 1 .. n + 1 : l[i] = l[j] => i = j
    BY <1>1, <1>3, <1>4
  <2> QED
    BY <1>1, <1>4, <2>1 DEF FoulLists
<1> HIDE DEF l
<1>6. b \in Seq(Byte) /\ Len(b) = n /\ \A i \in 1 .. n : b[i] \in 1 .. 4 /\ FoulOrder[b[i]] = fouls[i]
  BY FoulNumbers
<1>7. c \in Seq(Byte) /\ Len(c) = n + 1 /\ \A i \in 1 .. n + 1 : c[i] \in 1 .. 4 /\ FoulOrder[c[i]] = l[i]
  BY <1>4, <1>5, FoulNumbers
<1>8. \A p, q \in 1 .. 4 : FoulOrder[p] = FoulOrder[q] => p = q
  BY DEF FoulOrder
<1>9. x \in Seq(Byte) /\ Len(x) = 1 /\ x[1] = k
  BY DEF Byte
<1> HIDE DEF b, c, x
<1>10. SideBySide(b, x, w)
  BY <1>6, <1>9, PartsInPlace
<1> HIDE DEF w
<1>11. w \in Seq(Byte) /\ Len(w) = n + 1 /\ w[n + 1] = k /\ \A i \in 1 .. n : w[i] = b[i]
  BY <1>1, <1>6, <1>9, <1>10 DEF SideBySide
<1>12. ASSUME NEW i \in 1 .. n + 1
       PROVE  c[i] = w[i]
  <2>1. c[i] \in 1 .. 4 /\ FoulOrder[c[i]] = l[i]
    BY <1>7
  <2>2. CASE i = n + 1
    <3>1. FoulOrder[c[i]] = FoulOrder[k]
      BY <1>4, <2>1, <2>2 DEF foul
    <3> QED
      BY <1>8, <1>11, <2>1, <2>2, <3>1
  <2>3. CASE i \in 1 .. n
    <3>1. b[i] \in 1 .. 4 /\ FoulOrder[b[i]] = FoulOrder[c[i]]
      BY <1>4, <1>6, <2>1, <2>3
    <3> QED
      BY <1>8, <1>11, <2>1, <2>3, <3>1
  <2> QED
    BY <1>1, <2>2, <2>3
<1>13. c = w
  BY <1>7, <1>11, <1>12
<1> QED
  BY <1>4, <1>5, <1>13 DEF l, foul, c, w, b, x

LEMMA FoulsAccepted ==
  ASSUME NEW bytes, NEW at, NEW rest, Ends(bytes, at, rest), NEW count \in 0 .. 4
  PROVE  /\ "ok" \in DOMAIN TakeFouls(Got(bytes, at, << >>), count)
         /\ TakeFouls(Got(bytes, at, << >>), count).ok =>
              \E fouls \in FoulLists, more \in Seq(Byte) :
                Len(fouls) = count /\ StandsInFront(rest, FoulBytes(fouls), more)
<1> DEFINE start == Got(bytes, at, << >>)
           Read(u, i, fouls, more) ==
             /\ fouls \in FoulLists /\ Len(fouls) = i /\ StandsInFront(rest, FoulBytes(fouls), more)
             /\ u = Got(bytes, at + i, fouls) /\ Ends(bytes, at + i, more)
           Sound(u, i) == u.ok => \E fouls, more : Read(u, i, fouls, more)
<1>1. /\ bytes \in Seq(Byte) /\ rest \in Seq(Byte) /\ at \in Nat
      /\ Ends(bytes, at, rest) /\ "ok" \in DOMAIN start
  BY DEF Ends, Got
<1>2. PICK u : /\ u[0] = start
               /\ \A i \in 1 .. count : u[i] = TakeFoul(u[i - 1])
               /\ TakeFouls(start, count) = u[count]
  <2> HIDE DEF start
  <2>1. count \in Nat
    OBVIOUS
  <2> QED
    BY <2>1, TakeFoulsByStep
<1> DEFINE Right(i) == i <= count => "ok" \in DOMAIN u[i] /\ Sound(u[i], i)
           T == {i \in Nat : Right(i)}
<1>3. 0 \in T
  <2> DEFINE none == << >>
  <2>1. none \in FoulLists /\ Len(none) = 0
    BY DEF FoulLists
  <2>2. StandsInFront(rest, FoulBytes(none), rest)
    <3>1. FoulBytes(none) = << >>
      <4>1. FoulBytes(none) \in Seq(Byte) /\ Len(FoulBytes(none)) = 0
        BY <2>1, FoulNumbers
      <4> HIDE DEF none
      <4> QED
        BY <4>1
    <3>2. rest = << >> \o rest
      BY <1>1
    <3> HIDE DEF none
    <3> QED
      BY <1>1, <3>1, <3>2 DEF StandsInFront
  <2>3. at + 0 = at
    BY <1>1
  <2>4. u[0] = Got(bytes, at + 0, none) /\ Ends(bytes, at + 0, rest)
    BY <1>1, <1>2, <2>3
  <2> HIDE DEF none
  <2>5. Read(u[0], 0, none, rest)
    BY <2>1, <2>2, <2>4
  <2> HIDE DEF Read
  <2>6. Sound(u[0], 0)
    BY <2>5
  <2> HIDE DEF Sound
  <2> QED
    BY <1>1, <1>2, <2>6
<1>4. ASSUME NEW i \in T
      PROVE  i + 1 \in T
  <2>1. i \in Nat /\ i + 1 \in Nat
    OBVIOUS
  <2> SUFFICES ASSUME i + 1 <= count
               PROVE  "ok" \in DOMAIN u[i + 1] /\ Sound(u[i + 1], i + 1)
    BY <2>1
  <2>2. "ok" \in DOMAIN u[i] /\ Sound(u[i], i)
    BY <2>1
  <2> DEFINE r == u[i]
  <2>3. u[i + 1] = TakeFoul(r)
    <3>1. i + 1 \in 1 .. count /\ (i + 1) - 1 = i
      BY <2>1
    <3> QED
      BY <1>2, <3>1
  <2> HIDE DEF r
  <2>4. "ok" \in DOMAIN TakeFoul(r) /\ (~r.ok => ~TakeFoul(r).ok)
    BY <2>2, FoulFailedOnce DEF r
  <2>5. ASSUME TakeFoul(r).ok
        PROVE  \E fouls, more : Read(TakeFoul(r), i + 1, fouls, more)
    <3> HIDE DEF Read
    <3>1. PICK fouls, more : Read(r, i, fouls, more)
      BY <2>2, <2>4, <2>5 DEF r
    <3>2. /\ fouls \in FoulLists /\ Len(fouls) = i /\ more \in Seq(Byte) /\ rest = FoulBytes(fouls) \o more
          /\ r = Got(bytes, at + i, fouls) /\ Ends(bytes, at + i, more)
      BY <3>1 DEF Read, StandsInFront
    <3> DEFINE j == at + i
    <3>3. TakeFoul(Got(bytes, j, fouls)).ok /\ Ends(bytes, j, more)
      BY <2>5, <3>2
    <3> HIDE DEF j
    <3>4. PICK k \in 1 .. 4, after \in Seq(Byte) :
             /\ StandsInFront(more, <<k>>, after)
             /\ \A m \in DOMAIN fouls : fouls[m] # FoulOrder[k]
             /\ TakeFoul(Got(bytes, j, fouls)) = Got(bytes, j + 1, Append(fouls, FoulOrder[k]))
             /\ Ends(bytes, j + 1, after)
      BY <3>3, FoulAccepted
    <3> DEFINE longer == Append(fouls, FoulOrder[k])
    <3>5. longer \in FoulLists /\ Len(longer) = i + 1 /\ FoulBytes(longer) = FoulBytes(fouls) \o <<k>>
      <4>1. Len(fouls) < 4
        BY <2>1, <3>2
      <4> QED
        BY <3>2, <3>4, <4>1, FoulAdded
    <3> HIDE DEF longer
    <3>6. StandsInFront(rest, FoulBytes(longer), after)
      <4> DEFINE x == <<k>>
                 b == FoulBytes(fouls)
      <4>1. more = x \o after /\ after \in Seq(Byte)
        BY <3>4 DEF StandsInFront
      <4>2. Payload(b) /\ Payload(x) /\ Payload(after)
        BY <3>2, <4>1, FoulNumbers DEF Payload, Byte
      <4>3. rest = b \o (x \o after) /\ FoulBytes(longer) = b \o x
        BY <3>2, <3>5, <4>1
      <4> HIDE DEF x, b
      <4>4. Associate(b, x, after)
        BY <4>2, PayloadsAssociate
      <4> QED
        BY <4>1, <4>3, <4>4 DEF StandsInFront, Associate
    <3>7. j + 1 = at + (i + 1)
      BY <1>1, <2>1 DEF j
    <3>8. TakeFoul(r) = Got(bytes, at + (i + 1), longer) /\ Ends(bytes, at + (i + 1), after)
      BY <3>2, <3>4, <3>7 DEF j, longer
    <3>9. Read(TakeFoul(r), i + 1, longer, after)
      BY <3>5, <3>6, <3>8 DEF Read
    <3> QED
      BY <3>9
  <2> HIDE DEF Read
  <2>6. Sound(TakeFoul(r), i + 1)
    BY <2>5
  <2> HIDE DEF Sound
  <2> QED
    BY <2>3, <2>4, <2>6
<1> HIDE DEF Read
<1>5. T = Nat
  <2> HIDE DEF T
  <2>1. T \subseteq Nat
    BY DEF T
  <2> QED
    BY <1>3, <1>4, <2>1, Upwards
<1>6. "ok" \in DOMAIN u[count] /\ Sound(u[count], count)
  <2>1. count \in T /\ count <= count
    BY <1>5
  <2> HIDE DEF Sound
  <2> QED
    BY <2>1
<1>7. ASSUME u[count].ok
      PROVE  \E fouls \in FoulLists, more \in Seq(Byte) :
               Len(fouls) = count /\ StandsInFront(rest, FoulBytes(fouls), more)
  <2>1. PICK fouls, more : Read(u[count], count, fouls, more)
    BY <1>6, <1>7
  <2>2. more \in Seq(Byte)
    BY <2>1 DEF Read, StandsInFront
  <2> QED
    BY <2>1, <2>2 DEF Read
<1> QED
  BY <1>2, <1>6, <1>7

LEMMA PairFailedOnce ==
  ASSUME NEW r, "ok" \in DOMAIN r, NEW f, NEW g
  PROVE  "ok" \in DOMAIN ReadAll(r, <<f, g>>) /\ (~r.ok => ~ReadAll(r, <<f, g>>).ok)
<1>1. ReadAll(r, <<f, g>>) = Take(Take(r, f), g)
  BY ReadTwo
<1>2. "ok" \in DOMAIN Take(r, f) /\ (~r.ok => ~Take(r, f).ok)
  BY FailedOnce
<1>3. "ok" \in DOMAIN Take(Take(r, f), g) /\ (~Take(r, f).ok => ~Take(Take(r, f), g).ok)
  BY <1>2, FailedOnce
<1> QED
  BY <1>1, <1>2, <1>3

LEMMA StatusFailedOnce ==
  ASSUME NEW r, "ok" \in DOMAIN r
  PROVE  "ok" \in DOMAIN TakeStatus(r) /\ (~r.ok => ~TakeStatus(r).ok)
<1> DEFINE tag == Take(r, Field("status", 1, {0, 1}))
           f == Field("winner", 1, {1, 2})
           g == Field("reason", 1, 1 .. 3)
<1>1. TakeStatus(r) = IF tag.ok /\ tag.got.status = 1 THEN ReadAll(tag, <<f, g>>) ELSE tag
  BY DEF TakeStatus
<1>2. "ok" \in DOMAIN tag /\ (~r.ok => ~tag.ok)
  BY FailedOnce
<1> HIDE DEF tag, f, g
<1>3. "ok" \in DOMAIN ReadAll(tag, <<f, g>>)
  BY <1>2, PairFailedOnce
<1> QED
  BY <1>1, <1>2, <1>3

(* What ends with nothing is the front.                                    *)
LEMMA NothingBehind ==
  ASSUME NEW bytes, NEW at, NEW more, Ends(bytes, at, more), NEW got, Finished(Got(bytes, at, got))
  PROVE  more = << >>
<1>1. more \in Seq(Byte) /\ at \in Nat /\ Len(bytes) = at + Len(more)
  BY DEF Ends
<1>2. Len(bytes) - at = 0
  BY DEF Finished, Remaining, Got
<1>3. Len(more) = 0
  BY <1>1, <1>2
<1> QED
  BY <1>1, <1>3

LEMMA GroupNumber ==
  ASSUME NEW a \in 0 .. 2
  PROVE  GroupNames[a + 1] \in Groups \cup {"None"} /\ GroupBytes(GroupNames[a + 1]) = <<a>>
<1>1. GroupNames[a + 1] \in Groups \cup {"None"}
  BY DEF GroupNames, Groups
<1>2. PICK b \in 0 .. 2 : GroupBytes(GroupNames[a + 1]) = <<b>> /\ GroupNames[b + 1] = GroupNames[a + 1]
  BY <1>1, GroupRoundTrip
<1>3. b = a
  BY <1>2 DEF GroupNames
<1> QED
  BY <1>1, <1>2, <1>3

LEMMA NextNumber ==
  ASSUME NEW m \in 0 .. 2, NEW p, p = IF m = 0 THEN "None" ELSE PlayerAt(m)
  PROVE  p \in Player \cup {"None"} /\ NextBytes(p) = <<m>> /\ (p = "None" <=> m = 0)
BY DEF NextBytes, PlayerAt, PlayerBytes, Player

HasFields(res, n, fouls, st, got) ==
  /\ res.shooter = PlayerAt(n) /\ res.fouls = fouls /\ res.status = st
  /\ GroupBytes(res.assigned) = <<got.assigned>> /\ BooleanByte(res.reracked) = <<got.reracked>>
  /\ NextBytes(res.next) = <<got.next>> /\ BooleanByte(res.inHand) = <<got.inHand>>

ShotRecord(player, fouls, group, again, st, next, hand) ==
  [ kind |-> "shot", shooter |-> player, fouls |-> fouls, assigned |-> group, reracked |-> again,
    status |-> st, next |-> next, inHand |-> hand ]

LEMMA ShotRecordIsResult ==
  ASSUME NEW player \in Player, NEW fouls \in FoulLists, NEW group \in Groups \cup {"None"}, NEW again \in BOOLEAN,
         NEW st \in MatchStatuses, NEW next \in Player \cup {"None"}, NEW hand \in BOOLEAN,
         next = "None" <=> st # InProgress, st # InProgress => ~hand
  PROVE  ShotRecord(player, fouls, group, again, st, next, hand) \in ShotResults
<1> DEFINE res == ShotRecord(player, fouls, group, again, st, next, hand)
<1>1. res \in [ kind : {"shot"}, shooter : Player, fouls : FoulLists, assigned : Groups \cup {"None"},
                reracked : BOOLEAN, status : MatchStatuses, next : Player \cup {"None"}, inHand : BOOLEAN ]
  BY DEF ShotRecord
<1>2. res.next = next /\ res.status = st /\ res.inHand = hand
  BY DEF ShotRecord
<1> HIDE DEF res
<1>3. res \in ShotResults
  BY <1>1, <1>2 DEF ShotResults
<1> QED
  BY <1>3 DEF res

LEMMA ShotFieldsRead ==
  ASSUME NEW n \in {1, 2}, NEW fouls \in FoulLists, NEW got, NEW st \in MatchStatuses, SaysStatus(got, st),
         got.assigned \in 0 .. 2, got.reracked \in {0, 1}, got.next \in 0 .. 2, got.inHand \in {0, 1},
         ShotOf(n, fouls, got) # Refused
  PROVE  \E res \in ShotResults : HasFields(res, n, fouls, st, got)
<1> DEFINE a == got.assigned
           m == got.next
           h == got.inHand
           group == GroupNames[a + 1]
           again == got.reracked = 1
           hand == h = 1
           p == IF m = 0 THEN "None" ELSE PlayerAt(m)
           player == PlayerAt(n)
           res == ShotRecord(player, fouls, group, again, st, p, hand)
<1>1. ~((got.status = 1) # (m = 0)) /\ Consistent(got)
  BY DEF ShotOf
<1>2. got.status = IF st = InProgress THEN 0 ELSE 1
  BY DEF SaysStatus
<1>3. m = 0 <=> st # InProgress
  BY <1>1, <1>2
<1>4. st # InProgress => ~hand
  BY <1>1, <1>2 DEF Consistent
<1>5. p \in Player \cup {"None"} /\ NextBytes(p) = <<m>> /\ (p = "None" <=> m = 0)
  BY NextNumber
<1>6. group \in Groups \cup {"None"} /\ GroupBytes(group) = <<a>>
  BY GroupNumber
<1>7. BooleanByte(again) = <<got.reracked>> /\ BooleanByte(hand) = <<h>>
  BY DEF BooleanByte
<1>8. player \in Player /\ again \in BOOLEAN /\ hand \in BOOLEAN
  BY DEF PlayerAt, Player
<1>9. player = PlayerAt(n)
  OBVIOUS
<1> HIDE DEF p, group, again, hand, player
<1>10. res \in ShotResults
  BY <1>3, <1>4, <1>5, <1>6, <1>8, ShotRecordIsResult
<1>11. /\ res.shooter = player /\ res.fouls = fouls /\ res.status = st
       /\ res.assigned = group /\ res.reracked = again /\ res.next = p /\ res.inHand = hand
  BY DEF ShotRecord
<1> HIDE DEF res
<1>12. HasFields(res, n, fouls, st, got)
  BY <1>5, <1>6, <1>7, <1>9, <1>11 DEF HasFields
<1> QED
  BY <1>10, <1>12

(* What was accepted behind the fouls of a shot is what stands there for   *)
(* such a shot.                                                            *)
TailOf(rest, n, fouls, res) == res.shooter = PlayerAt(n) /\ res.fouls = fouls /\ rest = ShotTail(res)

LEMMA ShotTailAccepted ==
  ASSUME NEW n \in {1, 2}, NEW fouls \in FoulLists, NEW bytes, NEW at, NEW rest, Ends(bytes, at, rest),
         ShotAfter(n, Got(bytes, at, fouls)) # Refused
  PROVE  \E res \in ShotResults : TailOf(rest, n, fouls, res)
<1> DEFINE groups == 0 .. 2
           bits   == {0, 1}
           empty  == << >>
           start  == Got(bytes, at, empty)
           facts  == ReadAll(start, << Field("assigned", 1, groups), Field("reracked", 1, bits) >>)
           behind == TakeStatus(facts)
           tail   == ReadAll(behind, << Field("next", 1, groups), Field("inHand", 1, bits) >>)
<1>1. /\ Finished(tail) /\ ShotOf(n, fouls, tail.got) # Refused
  <2> DEFINE r == Got(bytes, at, fouls)
  <2>1. [r EXCEPT !.got = << >>] = start /\ r.got = fouls
    <3>1. [r EXCEPT !.got = << >>] = Got(bytes, at, << >>)
      BY GotOther
    <3> QED
      BY <3>1 DEF Got
  <2>2. Flag("reracked") = Field("reracked", 1, bits) /\ Flag("inHand") = Field("inHand", 1, bits)
    BY DEF Flag
  <2> HIDE DEF r
  <2>3. ShotAfter(n, r) # Refused
    BY DEF r
  <2>4. ShotAfter(n, r) = IF Finished(tail) THEN ShotOf(n, fouls, tail.got) ELSE Refused
    BY <2>1, <2>2 DEF ShotAfter
  <2> HIDE DEF tail
  <2> QED
    BY <2>3, <2>4
<1> HIDE DEF groups, bits
<1>2. tail.ok
  BY <1>1 DEF Finished
<1>3. "ok" \in DOMAIN start
  BY DEF Got
<1>4. "ok" \in DOMAIN facts
  <2> HIDE DEF start
  <2> QED
    BY <1>3, PairFailedOnce
<1>5. "ok" \in DOMAIN behind /\ (~facts.ok => ~behind.ok)
  <2> HIDE DEF facts
  <2> QED
    BY <1>4, StatusFailedOnce
<1>6. behind.ok
  <2> HIDE DEF behind
  <2>1. ~behind.ok => ~tail.ok
    BY <1>5, PairFailedOnce
  <2> HIDE DEF tail
  <2> QED
    BY <1>2, <2>1
<1>7. facts.ok
  BY <1>5, <1>6
<1> DEFINE g(a, b) == With(With(empty, "assigned", a), "reracked", b)
<1>8. PICK a \in groups, b \in bits, rear \in Seq(Byte) :
          PairInFront(rest, a, b, rear) /\ facts = Got(bytes, at + 2, g(a, b)) /\ Ends(bytes, at + 2, rear)
  <2> HIDE DEF empty
  <2> QED
    BY <1>7, BytesAccepted
<1> DEFINE got == g(a, b)
<1>9. got.assigned = a /\ got.reracked = b /\ {"assigned", "reracked"} \subseteq DOMAIN got
  BY DEF With
<1> HIDE DEF g, start, empty
<1>10. facts = Got(bytes, at + 2, got)
  BY <1>8
<1> HIDE DEF facts
<1>11. PICK st \in MatchStatuses, last \in Seq(Byte) : StandsInFront(rear, StatusBytes(st), last)
  <2>1. TakeStatus(Got(bytes, at + 2, got)).ok
    BY <1>6, <1>10
  <2> HIDE DEF got
  <2> QED
    BY <1>8, <2>1, StatusAccepted
<1>12. last \in Seq(Byte) /\ rear = StatusBytes(st) \o last
  BY <1>11 DEF StandsInFront
<1>13. PICK j, later : /\ behind = Got(bytes, j, later)
                       /\ Ends(bytes, j, last) /\ SaysStatus(later, st) /\ Keeps(got, later)
  <2> HIDE DEF got
  <2> DEFINE i == at + 2
  <2> HIDE DEF i
  <2>1. StatusTaken(bytes, i, st, last, got)
    <3>1. Ends(bytes, i, StatusBytes(st) \o last)
      BY <1>8, <1>12 DEF i
    <3> QED
      BY <1>12, <3>1, StatusIsTaken
  <2> QED
    BY <1>10, <2>1 DEF i, StatusTaken
<1>14. later.assigned = a /\ later.reracked = b /\ {"assigned", "reracked"} \subseteq DOMAIN later
  BY <1>9, <1>13 DEF Keeps
<1> HIDE DEF behind, got
<1> DEFINE k(m) == With(later, "next", m)
           l(m, h) == With(k(m), "inHand", h)
<1>15. PICK m \in groups, h \in bits, more \in Seq(Byte) :
           PairInFront(last, m, h, more) /\ tail = Got(bytes, j + 2, l(m, h)) /\ Ends(bytes, j + 2, more)
  <2>1. ReadAll(Got(bytes, j, later), << Field("next", 1, groups), Field("inHand", 1, bits) >>).ok
    BY <1>2, <1>13
  <2>2. tail = ReadAll(Got(bytes, j, later), << Field("next", 1, groups), Field("inHand", 1, bits) >>)
    BY <1>13
  <2>3. Ends(bytes, j, last)
    BY <1>13
  <2> HIDE DEF tail
  <2> QED
    BY <2>1, <2>2, <2>3, BytesAccepted
<1> HIDE DEF tail
<1>16. k(m).next = m /\ k(m).assigned = a /\ k(m).reracked = b /\ {"assigned", "reracked", "next"} \subseteq DOMAIN k(m)
  BY <1>14 DEF With
<1>17. SaysStatus(k(m), st)
  BY <1>13, SaysStill
<1> DEFINE km == k(m)
           lm == With(km, "inHand", h)
<1>18. km.next = m /\ km.assigned = a /\ km.reracked = b /\ {"assigned", "reracked", "next"} \subseteq DOMAIN km
  BY <1>16
<1>19. SaysStatus(km, st)
  BY <1>17
<1>20. tail = Got(bytes, j + 2, lm)
  BY <1>15
<1> HIDE DEF k, l, km
<1>21. lm.next = m /\ lm.assigned = a /\ lm.reracked = b /\ lm.inHand = h
  BY <1>18 DEF With
<1>22. SaysStatus(lm, st)
  BY <1>19, SaysStill
<1> HIDE DEF lm
<1>23. tail.got = lm
  BY <1>20 DEF Got
<1>24. more = << >>
  BY <1>1, <1>15, <1>20, NothingBehind
<1>25. PICK res \in ShotResults : HasFields(res, n, fouls, st, lm)
  <2>1. lm.assigned \in 0 .. 2 /\ lm.reracked \in {0, 1} /\ lm.next \in 0 .. 2 /\ lm.inHand \in {0, 1}
    BY <1>8, <1>15, <1>21 DEF groups, bits
  <2>2. ShotOf(n, fouls, lm) # Refused
    BY <1>1, <1>23
  <2> QED
    BY <2>1, <2>2, <1>22, ShotFieldsRead
<1>26. rest = ShotTail(res)
  <2>1. rest = <<a>> \o (<<b>> \o (StatusBytes(st) \o (<<m>> \o (<<h>> \o << >>))))
    BY <1>8, <1>12, <1>15, <1>24 DEF PairInFront
  <2> QED
    BY <2>1, <1>21, <1>25 DEF HasFields, ShotTail
<1>27. TailOf(rest, n, fouls, res)
  BY <1>25, <1>26 DEF TailOf, HasFields
<1> QED
  BY <1>27

(* A shot is accepted only when all its fouls were.                        *)
LEMMA ShotFailedOnce ==
  ASSUME NEW r, "ok" \in DOMAIN r, NEW n, ShotAfter(n, r) # Refused
  PROVE  r.ok
<1> DEFINE start  == [r EXCEPT !.got = << >>]
           f1     == Field("assigned", 1, 0 .. 2)
           f2     == Flag("reracked")
           f3     == Field("next", 1, 0 .. 2)
           f4     == Flag("inHand")
           facts  == ReadAll(start, <<f1, f2>>)
           behind == TakeStatus(facts)
           tail   == ReadAll(behind, <<f3, f4>>)
<1>1. tail.ok
  <2>1. ShotAfter(n, r) = IF Finished(tail) THEN ShotOf(n, r.got, tail.got) ELSE Refused
    BY DEF ShotAfter
  <2> HIDE DEF tail
  <2>2. Finished(tail)
    BY <2>1
  <2> QED
    BY <2>2 DEF Finished
<1>2. "ok" \in DOMAIN start /\ start.ok = r.ok
  OBVIOUS
<1> HIDE DEF start, f1, f2, f3, f4
<1>3. "ok" \in DOMAIN facts /\ (~start.ok => ~facts.ok)
  BY <1>2, PairFailedOnce
<1> HIDE DEF facts
<1>4. "ok" \in DOMAIN behind /\ (~facts.ok => ~behind.ok)
  BY <1>3, StatusFailedOnce
<1> HIDE DEF behind
<1>5. ~behind.ok => ~tail.ok
  BY <1>4, PairFailedOnce
<1> HIDE DEF tail
<1> QED
  BY <1>1, <1>2, <1>3, <1>4, <1>5

PlacesShot(rest, res) ==
  rest = PlayerBytes(res.shooter) \o (<<Len(res.fouls)>> \o (FoulBytes(res.fouls) \o ShotTail(res)))

LEMMA ShotAccepted ==
  ASSUME NEW bytes, NEW at, NEW rest, Ends(bytes, at, rest), NEW got, ShotFrom(Got(bytes, at, got)) # Refused
  PROVE  \E res \in ShotResults : PlacesShot(rest, res)
<1> DEFINE players == {1, 2}
           counts  == 0 .. 4
           empty   == << >>
           head    == ReadAll(Got(bytes, at, got), << Field("shooter", 1, players), Field("count", 1, counts) >>)
           lists   == TakeFouls([head EXCEPT !.got = empty], head.got.count)
<1>1. head.ok /\ ShotAfter(head.got.shooter, lists) # Refused
  <2>1. ShotFrom(Got(bytes, at, got)) = IF head.ok THEN ShotAfter(head.got.shooter, lists) ELSE Refused
    BY DEF ShotFrom
  <2> HIDE DEF head, lists
  <2> QED
    BY <2>1
<1> HIDE DEF players, counts
<1> DEFINE g(m, n) == With(With(got, "shooter", m), "count", n)
<1>2. PICK m \in players, n \in counts, rear \in Seq(Byte) :
          PairInFront(rest, m, n, rear) /\ head = Got(bytes, at + 2, g(m, n)) /\ Ends(bytes, at + 2, rear)
  <2> HIDE DEF empty, lists
  <2> QED
    BY <1>1, BytesAccepted
<1>3. g(m, n).shooter = m /\ g(m, n).count = n
  BY DEF With
<1> HIDE DEF g, head
<1>4. head.got.shooter = m /\ head.got.count = n /\ [head EXCEPT !.got = empty] = Got(bytes, at + 2, empty)
  <2> DEFINE x == g(m, n)
  <2>1. head = Got(bytes, at + 2, x) /\ x.shooter = m /\ x.count = n
    BY <1>2, <1>3
  <2> HIDE DEF x, empty
  <2>2. [Got(bytes, at + 2, x) EXCEPT !.got = empty] = Got(bytes, at + 2, empty)
    BY GotOther
  <2> QED
    BY <2>1, <2>2 DEF Got
<1>5. m \in {1, 2} /\ n \in 0 .. 4
  BY <1>2 DEF players, counts
<1> DEFINE u == TakeFouls(Got(bytes, at + 2, empty), n)
<1>6. lists = u
  BY <1>4
<1>7. /\ "ok" \in DOMAIN u
      /\ u.ok => \E fouls \in FoulLists, more \in Seq(Byte) :
                   Len(fouls) = n /\ StandsInFront(rear, FoulBytes(fouls), more)
  BY <1>2, <1>5, FoulsAccepted
<1> HIDE DEF u, lists
<1>8. u.ok
  <2>1. ShotAfter(m, u) # Refused
    BY <1>1, <1>4, <1>6
  <2> QED
    BY <1>7, <2>1, ShotFailedOnce
<1>9. PICK fouls \in FoulLists, more \in Seq(Byte) : Len(fouls) = n /\ StandsInFront(rear, FoulBytes(fouls), more)
  BY <1>7, <1>8
<1>10. more \in Seq(Byte) /\ rear = FoulBytes(fouls) \o more
  BY <1>9 DEF StandsInFront
<1>11. u = Got(bytes, at + 2 + n, fouls) /\ Ends(bytes, at + 2 + n, more)
  <2> DEFINE j == at + 2
  <2>1. Ends(bytes, j, FoulBytes(fouls) \o more)
    BY <1>2, <1>10
  <2> HIDE DEF j
  <2>2. /\ TakeFouls(Got(bytes, j, << >>), Len(fouls)) = Got(bytes, j + Len(fouls), fouls)
        /\ Ends(bytes, j + Len(fouls), more)
    BY <1>10, <2>1, FoulsRead
  <2> QED
    BY <1>9, <2>2 DEF u, j
<1>12. PICK res \in ShotResults : TailOf(more, m, fouls, res)
  <2>1. ShotAfter(m, Got(bytes, at + 2 + n, fouls)) # Refused
    BY <1>1, <1>4, <1>6, <1>11
  <2> QED
    BY <1>5, <1>11, <2>1, ShotTailAccepted
<1>13. PlayerBytes(res.shooter) = <<m>>
  BY <1>5, <1>12 DEF TailOf, PlayerAt, PlayerBytes
<1>14. rest = <<m>> \o (<<n>> \o (FoulBytes(fouls) \o more))
  BY <1>2, <1>10 DEF PairInFront
<1>15. PlacesShot(rest, res)
  BY <1>9, <1>12, <1>13, <1>14 DEF PlacesShot, TailOf
<1> QED
  BY <1>15

(* The version that was accepted is the version that results have.         *)
LEMMA VersionBytes == Be(2, 1) = <<0>> \o <<1>>
<1> DEFINE v == Be(2, 1)
           zero == <<0>>
           one  == <<1>>
           w == zero \o one
<1>1. v \in Seq(Byte) /\ Len(v) = 2
  <2>1. v \in Word(2)
    BY BeType
  <2> QED
    BY <2>1, WordLength
<1>2. v[1] = 0 /\ v[2] = 1
  BY BeTwo
<1>3. zero \in Seq(Byte) /\ one \in Seq(Byte) /\ zero[1] = 0 /\ one[1] = 1 /\ Len(zero) = 1 /\ Len(one) = 1
  BY DEF Byte
<1> HIDE DEF zero, one
<1>4. SideBySide(zero, one, w)
  BY <1>3, PartsInPlace
<1> HIDE DEF w, v
<1>5. w \in Seq(Byte) /\ Len(w) = 2 /\ w[1] = 0 /\ w[2] = 1
  BY <1>3, <1>4 DEF SideBySide
<1>6. \A i \in 1 .. 2 : v[i] = w[i]
  BY <1>2, <1>5
<1>7. v = w
  BY <1>1, <1>5, <1>6
<1> QED
  BY <1>7 DEF v, w, zero, one

LEMMA VersionAccepted ==
  ASSUME NEW bytes \in Seq(Byte), NEW got, Take(Got(bytes, 0, got), Field("version", 2, {1})).ok
  PROVE  \E rest \in Seq(Byte) : bytes = Be(2, 1) \o rest
<1> DEFINE field == Field("version", 2, {1})
           raw   == SubSeq(bytes, 1, 2)
<1>1. field.width = 2 /\ field.legal = {1} /\ field.free = FALSE
  BY DEF Field
<1>2. /\ ~(Len(bytes) - 0 < field.width)
      /\ LET w == SubSeq(bytes, 0 + 1, 0 + field.width)
         IN  field.free \/ (IF field.width <= 2 THEN Unsigned(w) ELSE w) \in field.legal
  BY TakenFits
<1> HIDE DEF field
<1>3. Len(bytes) >= 2 /\ Unsigned(raw) = 1
  BY <1>1, <1>2
<1>4. Len(raw) = 2 /\ raw[1] = bytes[1] /\ raw[2] = bytes[2]
  BY <1>3
<1>5. bytes[1] \in Byte /\ bytes[2] \in Byte
  BY <1>3
<1> HIDE DEF raw
<1> DEFINE x == bytes[1]
           y == bytes[2]
           n == Len(raw)
<1>6. Unsigned(raw) = 256 * x + y /\ x \in 0 .. 255 /\ y \in 0 .. 255
  <2>1. n = 2 /\ raw[1] = x /\ raw[2] = y /\ x \in Byte /\ y \in Byte
    BY <1>4, <1>5
  <2> HIDE DEF x, y, n
  <2>2. n \in {1, 2} /\ x \in 0 .. 255 /\ y \in 0 .. 255
    BY <2>1 DEF Byte
  <2>3. \A i \in 1 .. n : raw[i] \in Int
    BY <2>1, <2>2
  <2>4. Unsigned(raw) = IF n = 1 THEN raw[1] ELSE 256 * raw[1] + raw[2]
    BY <2>2, <2>3, UnsignedByStep DEF n
  <2> QED
    BY <2>1, <2>2, <2>4
<1>7. bytes[1] = 0 /\ bytes[2] = 1
  <2>1. 256 * x + y = 1 /\ x \in 0 .. 255 /\ y \in 0 .. 255
    BY <1>3, <1>6
  <2> HIDE DEF x, y
  <2>2. x = 0 /\ y = 1
    BY <2>1
  <2> QED
    BY <2>2 DEF x, y
<1> DEFINE behind == [i \in 1 .. Len(bytes) - 1 |-> bytes[i + 1]]
           rest   == [i \in 1 .. Len(behind) - 1 |-> behind[i + 1]]
<1>8. StandsInFront(bytes, <<bytes[1]>>, behind)
  BY <1>3, FirstAndRest
<1>9. behind \in Seq(Byte) /\ bytes = <<0>> \o behind
  BY <1>7, <1>8 DEF StandsInFront
<1>10. Len(behind) >= 1 /\ behind[1] = 1
  BY <1>3, <1>7
<1> HIDE DEF behind
<1>11. StandsInFront(behind, <<behind[1]>>, rest)
  BY <1>9, <1>10, FirstAndRest
<1>12. rest \in Seq(Byte) /\ bytes = <<0>> \o (<<1>> \o rest)
  BY <1>9, <1>10, <1>11 DEF StandsInFront
<1> HIDE DEF rest
<1>13. bytes = Be(2, 1) \o rest
  <2> DEFINE zero == <<0>>
             one  == <<1>>
  <2>1. zero \in Seq(Byte) /\ one \in Seq(Byte)
    BY DEF Byte
  <2> HIDE DEF zero, one
  <2>2. (zero \o one) \o rest = zero \o (one \o rest)
    BY <1>12, <2>1, Associates
  <2> QED
    BY <1>12, <2>2, VersionBytes DEF zero, one
<1> QED
  BY <1>12, <1>13

LEMMA HeaderAccepted ==
  ASSUME NEW bytes \in Seq(Byte),
         ReadAll(Reader(bytes), << Field("version", 2, {1}), Field("kind", 1, 1 .. 4) >>).ok
  PROVE  \E kind \in 1 .. 4, rest \in Seq(Byte) : Headed(bytes, kind, rest)
<1> DEFINE kinds == 1 .. 4
           none  == << >>
           zero  == 0
           start == Got(bytes, zero, none)
           f     == Field("version", 2, {1})
           g     == Field("kind", 1, kinds)
<1>1. Take(Take(start, f), g).ok /\ "ok" \in DOMAIN start
  <2>1. Reader(bytes) = start
    BY DEF Reader, Got
  <2>2. "ok" \in DOMAIN start
    BY DEF Got
  <2>3. ReadAll(start, <<f, g>>).ok
    BY <2>1
  <2> HIDE DEF start, f, g
  <2>4. ReadAll(start, <<f, g>>) = Take(Take(start, f), g)
    BY ReadTwo
  <2> QED
    BY <2>2, <2>3, <2>4
<1>2. Take(start, f).ok
  <2> HIDE DEF start, f, g
  <2>1. "ok" \in DOMAIN Take(start, f)
    BY <1>1, FailedOnce
  <2>2. ~Take(start, f).ok => ~Take(Take(start, f), g).ok
    BY <2>1, FailedOnce
  <2> QED
    BY <1>1, <2>2
<1>3. PICK tail \in Seq(Byte) : bytes = Be(2, 1) \o tail
  <2>1. Take(Got(bytes, 0, none), Field("version", 2, {1})).ok
    BY <1>2
  <2> HIDE DEF none
  <2> QED
    BY <2>1, VersionAccepted
<1>4. Take(start, f) = Got(bytes, 2, With(none, "version", 1)) /\ Ends(bytes, 2, tail)
  <2> HIDE DEF zero
  <2>1. Ends(bytes, zero, bytes)
    BY HoldsAll DEF Ends, zero
  <2>2. Ends(bytes, zero, Be(2, 1) \o tail)
    BY <1>3, <2>1
  <2> HIDE DEF none
  <2>3. /\ Take(Got(bytes, zero, none), Field("version", 2, {1})) = Got(bytes, zero + 2, With(none, "version", 1))
        /\ Ends(bytes, zero + 2, tail)
    BY <2>2, FrontVersion
  <2> QED
    BY <2>3 DEF zero
<1> DEFINE h == With(none, "version", 1)
           two == 2
<1>5. PICK kind \in kinds, rest \in Seq(Byte) : kind \in Byte /\ StandsInFront(tail, <<kind>>, rest)
  <2> HIDE DEF kinds, h, two
  <2>1. Take(Got(bytes, two, h), Field("kind", 1, kinds)).ok
    <3> HIDE DEF start, f
    <3> QED
      BY <1>1, <1>4 DEF h, two
  <2>2. Ends(bytes, two, tail)
    BY <1>4 DEF two
  <2> QED
    BY <2>1, <2>2, ByteAccepted
<1>6. Headed(bytes, kind, rest)
  BY <1>3, <1>5 DEF StandsInFront, Headed
<1> QED
  BY <1>5, <1>6

(* Shots, timeouts, concessions and placements that were accepted.         *)
LEMMA ShotCanonical ==
  ASSUME NEW bytes, NEW rest, Headed(bytes, 1, rest), NEW j, NEW g, Ends(bytes, j, rest),
         ShotFrom(Got(bytes, j, g)) # Refused
  PROVE  \E res \in Results : bytes = ResultBytes(res)
<1>1. PICK res \in ShotResults : PlacesShot(rest, res)
  BY ShotAccepted
<1>2. bytes = Be(2, 1) \o ShotPayload(res)
  BY <1>1 DEF Headed, PlacesShot, ShotPayload
<1>3. bytes = ResultBytes(res)
  BY <1>2, ShotResultParts
<1> QED
  BY <1>3 DEF Results

LEMMA TimeoutCanonical ==
  ASSUME NEW bytes, NEW rest, Headed(bytes, 2, rest), NEW j, NEW g, Ends(bytes, j, rest),
         TimeoutFrom(Take(Got(bytes, j, g), Field("active", 1, {1, 2}))) # Refused
  PROVE  \E res \in Results : bytes = ResultBytes(res)
<1> DEFINE players == {1, 2}
           r == Take(Got(bytes, j, g), Field("active", 1, players))
<1>1. Finished(r)
  BY DEF TimeoutFrom
<1> HIDE DEF players
<1>2. r.ok
  BY <1>1 DEF Finished
<1>3. PICK p \in players, more \in Seq(Byte) : p \in Byte /\ StandsInFront(rest, <<p>>, more)
  BY <1>2, ByteAccepted
<1>4. more \in Seq(Byte) /\ rest = <<p>> \o more
  BY <1>3 DEF StandsInFront
<1>5. r = Got(bytes, j + 1, With(g, "active", p)) /\ Ends(bytes, j + 1, more)
  BY <1>3, <1>4, FrontByte
<1> HIDE DEF r
<1>6. more = << >>
  BY <1>1, <1>5, NothingBehind
<1> DEFINE player == PlayerAt(p)
           res == [kind |-> "timeout", active |-> player]
<1>7. player \in Player /\ PlayerBytes(player) = <<p>>
  BY <1>3 DEF PlayerAt, PlayerBytes, Player, players
<1> HIDE DEF player
<1>8. res.kind = "timeout" /\ res.active = player /\ res \in [kind : {"timeout"}, active : Player]
  BY <1>7
<1> HIDE DEF res
<1>9. ResultBytes(res) = Be(2, 1) \o (<<2>> \o PlayerBytes(player))
  BY <1>8 DEF ResultBytes
<1>10. rest = <<p>>
  BY <1>3, <1>4, <1>6
<1>11. bytes = ResultBytes(res)
  BY <1>7, <1>9, <1>10 DEF Headed
<1> QED
  BY <1>8, <1>11 DEF Results

LEMMA ConcessionCanonical ==
  ASSUME NEW bytes, NEW rest, Headed(bytes, 3, rest), NEW j, NEW g, Ends(bytes, j, rest),
         ConcessionFrom(TakeStatus(Got(bytes, j, g))) # Refused
  PROVE  \E res \in Results : bytes = ResultBytes(res)
<1> DEFINE r == TakeStatus(Got(bytes, j, g))
<1>1. Finished(r) /\ r.got.status = 1
  <2> HIDE DEF r
  <2>1. ConcessionFrom(r) # Refused
    BY DEF r
  <2> QED
    BY <2>1 DEF ConcessionFrom
<1>2. r.ok
  BY <1>1 DEF Finished
<1>3. PICK st \in MatchStatuses, more \in Seq(Byte) : StandsInFront(rest, StatusBytes(st), more)
  BY <1>2, StatusAccepted
<1>4. more \in Seq(Byte) /\ rest = StatusBytes(st) \o more
  BY <1>3 DEF StandsInFront
<1>5. PICK k, later : /\ r = Got(bytes, k, later)
                      /\ Ends(bytes, k, more) /\ SaysStatus(later, st) /\ Keeps(g, later)
  BY <1>4, TakesStatus
<1> HIDE DEF r
<1>6. more = << >>
  BY <1>1, <1>5, NothingBehind
<1>7. st # InProgress /\ st \in Outcomes
  BY <1>1, <1>5 DEF SaysStatus, Got, MatchStatuses
<1> DEFINE res == [kind |-> "conceded", outcome |-> st]
<1>8. res.kind = "conceded" /\ res.outcome = st /\ res \in [kind : {"conceded"}, outcome : Outcomes]
  BY <1>7
<1> HIDE DEF res
<1>9. ResultBytes(res) = Be(2, 1) \o (<<3>> \o StatusBytes(st))
  BY <1>8 DEF ResultBytes
<1>10. rest = StatusBytes(st)
  <2>1. StatusBytes(st) \in Seq(Byte)
    BY StatusBytesType
  <2> QED
    BY <1>4, <1>6, <2>1
<1>11. bytes = ResultBytes(res)
  BY <1>9, <1>10 DEF Headed
<1> QED
  BY <1>8, <1>11 DEF Results

LEMMA PlacementCanonical ==
  ASSUME NEW bytes, NEW rest, Headed(bytes, 4, rest), NEW j, NEW g, Ends(bytes, j, rest),
         Finished(Got(bytes, j, g))
  PROVE  \E res \in Results : bytes = ResultBytes(res)
<1>1. rest = << >>
  BY NothingBehind
<1> DEFINE res == [kind |-> "placed"]
<1>2. res.kind = "placed" /\ res \in [kind : {"placed"}]
  OBVIOUS
<1> HIDE DEF res
<1>3. ResultBytes(res) = Be(2, 1) \o <<4>>
  BY <1>2 DEF ResultBytes
<1>4. <<4>> \o << >> = <<4>>
  OBVIOUS
<1>5. bytes = ResultBytes(res)
  BY <1>1, <1>3, <1>4 DEF Headed
<1> QED
  BY <1>2, <1>5 DEF Results

LEMMA AcceptedIsEncoded ==
  ASSUME NEW bytes \in Seq(Byte), ResultFrom(bytes) # Refused
  PROVE  \E res \in Results : bytes = ResultBytes(res)
<1> DEFINE r == ReadAll(Reader(bytes), << Field("version", 2, {1}), Field("kind", 1, 1 .. 4) >>)
<1>1. ResultOf(r) # Refused
  BY DEF ResultFrom
<1>2. r.ok
  <2> HIDE DEF r
  <2> QED
    BY <1>1 DEF ResultOf
<1>3. PICK kind \in 1 .. 4, rest \in Seq(Byte) : Headed(bytes, kind, rest)
  BY <1>2, HeaderAccepted
<1>4. HasKind(Reader(bytes), bytes, kind, rest)
  BY <1>3, HeaderRead
<1>5. PICK j, g : r = Got(bytes, j, g) /\ g.kind = kind /\ Ends(bytes, j, rest)
  BY <1>4 DEF HasKind
<1> HIDE DEF r
<1>6. r.got = g
  BY <1>5 DEF Got
<1>7. CASE kind = 1
  <2>1. ShotFrom(Got(bytes, j, g)) # Refused
    BY <1>1, <1>2, <1>5, <1>6, <1>7 DEF ResultOf
  <2> QED
    BY <1>3, <1>5, <1>7, <2>1, ShotCanonical
<1>8. CASE kind = 2
  <2>1. TimeoutFrom(Take(Got(bytes, j, g), Field("active", 1, {1, 2}))) # Refused
    BY <1>1, <1>2, <1>5, <1>6, <1>8 DEF ResultOf
  <2> QED
    BY <1>3, <1>5, <1>8, <2>1, TimeoutCanonical
<1>9. CASE kind = 3
  <2>1. ConcessionFrom(TakeStatus(Got(bytes, j, g))) # Refused
    BY <1>1, <1>2, <1>5, <1>6, <1>9 DEF ResultOf
  <2> QED
    BY <1>3, <1>5, <1>9, <2>1, ConcessionCanonical
<1>10. CASE kind = 4
  <2>1. Finished(Got(bytes, j, g))
    BY <1>1, <1>2, <1>5, <1>6, <1>10 DEF ResultOf
  <2> QED
    BY <1>3, <1>5, <1>10, <2>1, PlacementCanonical
<1> QED
  BY <1>7, <1>8, <1>9, <1>10

(* Every payload that is accepted as a result is the encoding of the       *)
(* result it is taken for: two payloads are never taken for the same       *)
(* result, and nothing from_bytes makes of a damaged row is a result that  *)
(* apply_command could not have returned.                                  *)
THEOREM ResultsAreCanonical ==
  ASSUME NEW bytes \in Seq(Byte), ResultFrom(bytes) # Refused
  PROVE  ResultFrom(bytes) \in Results /\ ResultBytes(ResultFrom(bytes)) = bytes
<1>1. PICK res \in Results : bytes = ResultBytes(res)
  BY AcceptedIsEncoded
<1>2. ResultFrom(bytes) = res
  BY <1>1, ResultsRoundTrip
<1> QED
  BY <1>1, <1>2

(* Payloads that were cut.                                                 *)

CutOf(part, bytes) ==
  /\ part \in Seq(Byte) /\ bytes \in Seq(Byte) /\ Len(part) < Len(bytes)
  /\ \A i \in 1 .. Len(part) : part[i] = bytes[i]

(* A reader of what was cut has got what the reader of the whole has.      *)
Alike(r, s, part, bytes) ==
  \E at, got : at \in 0 .. Len(part) /\ r = Got(part, at, got) /\ s = Got(bytes, at, got)

Along(r, s, part, bytes) == "ok" \in DOMAIN r /\ (r.ok => Alike(r, s, part, bytes))

Took(bytes, at, got, field, raw) ==
  Take(Got(bytes, at, got), field) = Got(bytes, at + Len(raw), With(got, field.name, Value(raw)))

LEMMA HeldIsTaken ==
  ASSUME NEW bytes \in Seq(Byte), NEW at \in Nat, NEW got, NEW field, NEW raw \in Seq(Byte),
         Holds(bytes, at, raw), field.width = Len(raw), Fits(raw, field)
  PROVE  Took(bytes, at, got, field, raw)
BY TakeHolds DEF Took

LEMMA AlongField ==
  ASSUME NEW part, NEW bytes, CutOf(part, bytes), NEW at \in 0 .. Len(part), NEW got, NEW field,
         field.width \in Nat, Take(Got(part, at, got), field).ok
  PROVE  Alike(Take(Got(part, at, got), field), Take(Got(bytes, at, got), field), part, bytes)
<1> DEFINE w    == field.width
           raw  == SubSeq(part, at + 1, at + w)
           more == With(got, field.name, Value(raw))
<1>1. /\ part \in Seq(Byte) /\ bytes \in Seq(Byte) /\ at \in Nat /\ w \in Nat
      /\ Len(part) \in Nat /\ Len(bytes) \in Nat /\ Len(part) < Len(bytes)
      /\ \A i \in 1 .. Len(part) : part[i] = bytes[i]
  BY DEF CutOf
<1>2. /\ ~(Len(part) - at < w)
      /\ field.free \/ (IF w <= 2 THEN Unsigned(raw) ELSE raw) \in field.legal
  BY TakenFits
<1>3. at + w <= Len(part)
  BY <1>1, <1>2
<1>4. raw \in Seq(Byte) /\ Len(raw) = w /\ \A i \in 1 .. w : raw[i] = part[at + i]
  BY <1>1, <1>3
<1> HIDE DEF w
<1> HIDE DEF raw
<1>5. Holds(part, at, raw) /\ Holds(bytes, at, raw)
  <2>1. at + w <= Len(bytes)
    BY <1>1, <1>3
  <2>2. ASSUME NEW i \in 1 .. w
        PROVE  part[at + i] = raw[i] /\ bytes[at + i] = raw[i]
    <3>1. at + i \in 1 .. Len(part)
      BY <1>1, <1>3
    <3> QED
      BY <1>1, <1>4, <3>1
  <2> QED
    BY <1>3, <1>4, <2>1, <2>2 DEF Holds
<1>6. Fits(raw, field)
  BY <1>2, <1>4 DEF Fits, Value
<1> HIDE DEF more
<1>7. /\ Take(Got(part, at, got), field) = Got(part, at + w, more)
      /\ Take(Got(bytes, at, got), field) = Got(bytes, at + w, more)
  <2>1. field.width = Len(raw) /\ Len(raw) = w
    BY <1>4 DEF w
  <2>2. part \in Seq(Byte) /\ bytes \in Seq(Byte) /\ at \in Nat /\ raw \in Seq(Byte)
    BY <1>1, <1>4
  <2>3. Took(part, at, got, field, raw)
    BY <1>5, <1>6, <2>1, <2>2, HeldIsTaken
  <2>4. Took(bytes, at, got, field, raw)
    BY <1>5, <1>6, <2>1, <2>2, HeldIsTaken
  <2> QED
    BY <2>1, <2>3, <2>4 DEF more, Took
<1>8. at + w \in 0 .. Len(part)
  BY <1>1, <1>3
<1> QED
  BY <1>7, <1>8 DEF Alike

LEMMA AlongTake ==
  ASSUME NEW part, NEW bytes, CutOf(part, bytes), NEW r, NEW s, Along(r, s, part, bytes),
         NEW field, field.width \in Nat
  PROVE  Along(Take(r, field), Take(s, field), part, bytes)
<1>1. "ok" \in DOMAIN Take(r, field) /\ (~r.ok => ~Take(r, field).ok)
  BY FailedOnce DEF Along
<1>2. ASSUME Take(r, field).ok
      PROVE  Alike(Take(r, field), Take(s, field), part, bytes)
  <2>1. PICK at, got : at \in 0 .. Len(part) /\ r = Got(part, at, got) /\ s = Got(bytes, at, got)
    BY <1>1, <1>2 DEF Along, Alike
  <2> QED
    BY <1>2, <2>1, AlongField
<1> QED
  BY <1>1, <1>2 DEF Along

LEMMA AlongFields ==
  ASSUME NEW part, NEW bytes, CutOf(part, bytes), NEW r, NEW s, Along(r, s, part, bytes),
         NEW fields, Len(fields) \in Nat, \A i \in 1 .. Len(fields) : fields[i].width \in Nat
  PROVE  Along(ReadAll(r, fields), ReadAll(s, fields), part, bytes)
<1> DEFINE n == Len(fields)
<1>1. PICK u : u[0] = r /\ (\A i \in 1 .. n : u[i] = Take(u[i - 1], fields[i])) /\ ReadAll(r, fields) = u[n]
  BY ReadAllByStep
<1>2. PICK v : v[0] = s /\ (\A i \in 1 .. n : v[i] = Take(v[i - 1], fields[i])) /\ ReadAll(s, fields) = v[n]
  BY ReadAllByStep
<1> DEFINE T == {i \in Nat : i <= n => Along(u[i], v[i], part, bytes)}
<1>3. 0 \in T
  BY <1>1, <1>2
<1>4. ASSUME NEW i \in T
      PROVE  i + 1 \in T
  <2>1. i \in Nat /\ i + 1 \in Nat
    OBVIOUS
  <2> SUFFICES ASSUME i + 1 <= n
               PROVE  Along(u[i + 1], v[i + 1], part, bytes)
    BY <2>1
  <2>2. i + 1 \in 1 .. n /\ (i + 1) - 1 = i
    BY <2>1
  <2>3. u[i + 1] = Take(u[i], fields[i + 1]) /\ v[i + 1] = Take(v[i], fields[i + 1])
    BY <1>1, <1>2, <2>2
  <2>4. Along(u[i], v[i], part, bytes)
    BY <2>1
  <2> QED
    BY <2>2, <2>3, <2>4, AlongTake
<1>5. T = Nat
  <2> HIDE DEF T
  <2>1. T \subseteq Nat
    BY DEF T
  <2> QED
    BY <1>3, <1>4, <2>1, Upwards
<1>6. Along(u[n], v[n], part, bytes)
  <2>1. n \in T /\ n <= n
    BY <1>5
  <2> QED
    BY <2>1
<1> QED
  BY <1>1, <1>2, <1>6

LEMMA AlongPair ==
  ASSUME NEW part, NEW bytes, CutOf(part, bytes), NEW r, NEW s, Along(r, s, part, bytes),
         NEW f, NEW g, f.width \in Nat, g.width \in Nat
  PROVE  Along(ReadAll(r, <<f, g>>), ReadAll(s, <<f, g>>), part, bytes)
<1>1. /\ ReadAll(r, <<f, g>>) = Take(Take(r, f), g)
      /\ ReadAll(s, <<f, g>>) = Take(Take(s, f), g)
  BY ReadTwo
<1>2. Along(Take(r, f), Take(s, f), part, bytes)
  BY AlongTake
<1>3. Along(Take(Take(r, f), g), Take(Take(s, f), g), part, bytes)
  BY <1>2, AlongTake
<1> QED
  BY <1>1, <1>3

LEMMA AlongStatus ==
  ASSUME NEW part, NEW bytes, CutOf(part, bytes), NEW r, NEW s, Along(r, s, part, bytes)
  PROVE  Along(TakeStatus(r), TakeStatus(s), part, bytes)
<1> DEFINE f == Field("status", 1, {0, 1})
           g == Field("winner", 1, {1, 2})
           h == Field("reason", 1, 1 .. 3)
           a == Take(r, f)
           b == Take(s, f)
<1>1. /\ TakeStatus(r) = IF a.ok /\ a.got.status = 1 THEN ReadAll(a, <<g, h>>) ELSE a
      /\ TakeStatus(s) = IF b.ok /\ b.got.status = 1 THEN ReadAll(b, <<g, h>>) ELSE b
  BY DEF TakeStatus
<1>2. f.width = 1 /\ g.width = 1 /\ h.width = 1
  BY DEF Field
<1> HIDE DEF f, g, h
<1>3. Along(a, b, part, bytes)
  BY <1>2, AlongTake
<1>4. Along(ReadAll(a, <<g, h>>), ReadAll(b, <<g, h>>), part, bytes)
  BY <1>2, <1>3, AlongPair
<1> HIDE DEF a, b
<1>5. CASE a.ok
  <2>1. b.ok = TRUE /\ a.ok = TRUE /\ b.got = a.got
    BY <1>3, <1>5 DEF Along, Alike, Got
  <2> QED
    BY <1>1, <1>3, <1>4, <2>1
<1>6. CASE ~a.ok
  <2>1. TakeStatus(r) = a
    BY <1>1, <1>6
  <2> QED
    BY <1>3, <1>6, <2>1 DEF Along
<1> QED
  BY <1>5, <1>6

LEMMA AlongFoul ==
  ASSUME NEW part, NEW bytes, CutOf(part, bytes), NEW r, NEW s, Along(r, s, part, bytes)
  PROVE  Along(TakeFoul(r), TakeFoul(s), part, bytes)
<1> DEFINE f == Field("foul", 1, 1 .. 4)
           a == Take([r EXCEPT !.got = << >>], f)
           b == Take([s EXCEPT !.got = << >>], f)
           Twice(t, next) == \E k \in DOMAIN t.got : t.got[k] = FoulOrder[next.got.foul]
           After(t, next) == [next EXCEPT !.got = Append(t.got, FoulOrder[next.got.foul])]
<1>1. /\ TakeFoul(r) = IF ~a.ok \/ Twice(r, a) THEN [r EXCEPT !.ok = FALSE] ELSE After(r, a)
      /\ TakeFoul(s) = IF ~b.ok \/ Twice(s, b) THEN [s EXCEPT !.ok = FALSE] ELSE After(s, b)
  BY DEF TakeFoul
<1>2. "ok" \in DOMAIN TakeFoul(r) /\ (~r.ok => ~TakeFoul(r).ok)
  BY FoulFailedOnce DEF Along
<1>3. ASSUME TakeFoul(r).ok
      PROVE  Alike(TakeFoul(r), TakeFoul(s), part, bytes)
  <2>1. PICK at, got : at \in 0 .. Len(part) /\ r = Got(part, at, got) /\ s = Got(bytes, at, got)
    BY <1>2, <1>3 DEF Along, Alike
  <2> DEFINE none == << >>
  <2>2. a = Take(Got(part, at, none), f) /\ b = Take(Got(bytes, at, none), f)
    BY <2>1, GotOther
  <2>3. f.width \in Nat
    BY DEF Field
  <2> HIDE DEF none, f
  <2>4. a.ok /\ ~Twice(r, a)
    <3>1. ~[r EXCEPT !.ok = FALSE].ok
      BY <2>1 DEF Got
    <3> HIDE DEF a, Twice, After
    <3> QED
      BY <1>1, <1>3, <3>1
  <2>5. PICK j, later : j \in 0 .. Len(part) /\ a = Got(part, j, later) /\ b = Got(bytes, j, later)
    <3>1. Alike(Take(Got(part, at, none), f), Take(Got(bytes, at, none), f), part, bytes)
      BY <2>1, <2>2, <2>3, <2>4, AlongField
    <3> QED
      BY <2>2, <3>1 DEF Alike
  <2> HIDE DEF a, b
  <2> DEFINE all == Append(got, FoulOrder[later.foul])
  <2>6. r.got = got /\ s.got = got /\ a.got = later /\ b.got = later /\ b.ok
    BY <2>1, <2>5 DEF Got
  <2>7. After(r, a) = Got(part, j, all) /\ After(s, b) = Got(bytes, j, all)
    <3>1. /\ After(r, a) = [Got(part, j, later) EXCEPT !.got = all]
          /\ After(s, b) = [Got(bytes, j, later) EXCEPT !.got = all]
      BY <2>5, <2>6
    <3> HIDE DEF all
    <3> QED
      BY <3>1, GotOther
  <2>8. ~Twice(s, b)
    BY <2>4, <2>6
  <2> HIDE DEF Twice, After, all
  <2>9. TakeFoul(r) = Got(part, j, all) /\ TakeFoul(s) = Got(bytes, j, all)
    BY <1>1, <2>4, <2>6, <2>7, <2>8
  <2> QED
    BY <2>5, <2>9 DEF Alike
<1> QED
  BY <1>2, <1>3 DEF Along

LEMMA AlongFouls ==
  ASSUME NEW part, NEW bytes, CutOf(part, bytes), NEW r, NEW s, Along(r, s, part, bytes), NEW count \in Nat
  PROVE  Along(TakeFouls(r, count), TakeFouls(s, count), part, bytes)
<1>1. PICK u : u[0] = r /\ (\A i \in 1 .. count : u[i] = TakeFoul(u[i - 1])) /\ TakeFouls(r, count) = u[count]
  BY TakeFoulsByStep
<1>2. PICK v : v[0] = s /\ (\A i \in 1 .. count : v[i] = TakeFoul(v[i - 1])) /\ TakeFouls(s, count) = v[count]
  BY TakeFoulsByStep
<1> DEFINE T == {i \in Nat : i <= count => Along(u[i], v[i], part, bytes)}
<1>3. 0 \in T
  BY <1>1, <1>2
<1>4. ASSUME NEW i \in T
      PROVE  i + 1 \in T
  <2>1. i \in Nat /\ i + 1 \in Nat
    OBVIOUS
  <2> SUFFICES ASSUME i + 1 <= count
               PROVE  Along(u[i + 1], v[i + 1], part, bytes)
    BY <2>1
  <2>2. i + 1 \in 1 .. count /\ (i + 1) - 1 = i
    BY <2>1
  <2>3. u[i + 1] = TakeFoul(u[i]) /\ v[i + 1] = TakeFoul(v[i])
    BY <1>1, <1>2, <2>2
  <2>4. Along(u[i], v[i], part, bytes)
    BY <2>1
  <2> QED
    BY <2>3, <2>4, AlongFoul
<1>5. T = Nat
  <2> HIDE DEF T
  <2>1. T \subseteq Nat
    BY DEF T
  <2> QED
    BY <1>3, <1>4, <2>1, Upwards
<1>6. Along(u[count], v[count], part, bytes)
  <2>1. count \in T /\ count <= count
    BY <1>5
  <2> QED
    BY <2>1
<1> QED
  BY <1>1, <1>2, <1>6

LEMMA AlongOther ==
  ASSUME NEW part, NEW bytes, NEW r, NEW s, Along(r, s, part, bytes), NEW other
  PROVE  Along([r EXCEPT !.got = other], [s EXCEPT !.got = other], part, bytes)
<1> DEFINE x == [r EXCEPT !.got = other]
           y == [s EXCEPT !.got = other]
<1>1. "ok" \in DOMAIN x /\ x.ok = r.ok
  BY DEF Along
<1>2. ASSUME x.ok
      PROVE  Alike(x, y, part, bytes)
  <2>1. PICK at, got : at \in 0 .. Len(part) /\ r = Got(part, at, got) /\ s = Got(bytes, at, got)
    BY <1>1, <1>2 DEF Along, Alike
  <2>2. x = Got(part, at, other) /\ y = Got(bytes, at, other)
    BY <2>1, GotOther
  <2> QED
    BY <2>1, <2>2 DEF Alike
<1> HIDE DEF x, y
<1>3. Along(x, y, part, bytes)
  BY <1>1, <1>2 DEF Along
<1> QED
  BY <1>3 DEF x, y

LEMMA CutIsPrefix ==
  ASSUME NEW bytes \in Seq(Byte), NEW n \in 0 .. Len(bytes) - 1
  PROVE  CutOf(SubSeq(bytes, 1, n), bytes)
<1> DEFINE part == SubSeq(bytes, 1, n)
<1>1. /\ part \in Seq(Byte) /\ Len(part) = n /\ n < Len(bytes)
      /\ \A i \in 1 .. n : part[i] = bytes[i]
  OBVIOUS
<1> HIDE DEF part
<1>2. CutOf(part, bytes)
  BY <1>1 DEF CutOf
<1> QED
  BY <1>2 DEF part

LEMMA AlongStart ==
  ASSUME NEW part, NEW bytes, CutOf(part, bytes)
  PROVE  Along(Reader(part), Reader(bytes), part, bytes)
<1> DEFINE none == << >>
           zero == 0
<1>1. Reader(part) = Got(part, zero, none) /\ Reader(bytes) = Got(bytes, zero, none)
  BY DEF Reader, Got
<1>2. "ok" \in DOMAIN Reader(part)
  BY DEF Reader
<1>3. zero \in 0 .. Len(part)
  BY DEF CutOf
<1> HIDE DEF none, zero
<1> QED
  BY <1>1, <1>2, <1>3 DEF Along, Alike

(* Not both readers come to the end at once, nor do both have the same     *)
(* number of bytes left.                                                   *)
LEMMA OtherRemains ==
  ASSUME NEW part, NEW bytes, CutOf(part, bytes), NEW r, NEW s, Along(r, s, part, bytes), r.ok
  PROVE  s.ok /\ s.got = r.got /\ Remaining(r) # Remaining(s)
<1>1. PICK at, got : at \in 0 .. Len(part) /\ r = Got(part, at, got) /\ s = Got(bytes, at, got)
  BY DEF Along, Alike
<1>2. s.ok = TRUE /\ s.got = r.got /\ Remaining(r) = Len(part) - at /\ Remaining(s) = Len(bytes) - at
  BY <1>1 DEF Got, Remaining
<1>3. Len(part) \in Nat /\ Len(bytes) \in Nat /\ Len(part) < Len(bytes) /\ at \in Nat
  BY <1>1 DEF CutOf
<1>4. Len(part) - at # Len(bytes) - at
  BY <1>3
<1> QED
  BY <1>2, <1>4

LEMMA NotBothFinished ==
  ASSUME NEW part, NEW bytes, CutOf(part, bytes), NEW r, NEW s, Along(r, s, part, bytes), Finished(r)
  PROVE  ~Finished(s) /\ r.ok
BY OtherRemains DEF Finished

LEMMA FieldWidths ==
  ASSUME NEW fields \in Seq(AnyField)
  PROVE  Len(fields) \in Nat /\ \A i \in 1 .. Len(fields) : fields[i].width \in Nat
<1>1. \A f \in AnyField : f.width \in Nat
  BY DEF AnyField
<1>2. \A i \in 1 .. Len(fields) : fields[i] \in AnyField
  OBVIOUS
<1> QED
  BY <1>1, <1>2

LEMMA CutConfiguration ==
  ASSUME NEW part, NEW bytes, CutOf(part, bytes), ConfigurationFrom(bytes) # Refused
  PROVE  ConfigurationFrom(part) = Refused
<1> DEFINE f == Raw("rackSeed", 8)
           g == Field("breaker", 1, {1, 2})
           tail == <<f, g>>
           fields == PinnedFields \o tail
           r == ReadAll(Reader(part), fields)
           s == ReadAll(Reader(bytes), fields)
<1>1. tail \in Seq(AnyField)
  <2>1. {1, 2} \in SUBSET Int /\ {} \in SUBSET Int
    OBVIOUS
  <2>2. f \in AnyField /\ g \in AnyField
    BY <2>1 DEF Field, Raw, AnyField, FieldNames
  <2> HIDE DEF f, g
  <2> QED
    BY <2>2
<1>2. fields \in Seq(AnyField)
  <2> HIDE DEF tail
  <2> QED
    BY <1>1, PinnedFieldList
<1>3. /\ ~Finished(r) => ConfigurationFrom(part) = Refused
      /\ ~Finished(s) => ConfigurationFrom(bytes) = Refused
  BY DEF ConfigurationFrom
<1> HIDE DEF fields
<1>4. Along(r, s, part, bytes)
  BY <1>2, AlongStart, FieldWidths, AlongFields
<1> HIDE DEF r, s
<1> QED
  BY <1>3, <1>4, NotBothFinished

LEMMA CutSnapshot ==
  ASSUME NEW part, NEW bytes, CutOf(part, bytes), SnapshotFrom(bytes) # Refused
  PROVE  SnapshotFrom(part) = Refused
<1> DEFINE f == Raw("length", 4)
           a == ReadAll(Reader(part), HeaderFields)
           b == ReadAll(Reader(bytes), HeaderFields)
           r == Take(TakeStatus(a), f)
           s == Take(TakeStatus(b), f)
<1>1. HeaderFields \in Seq(AnyField)
  <2>1. HeaderFields = PinnedFields \o StateFields
    BY DEF HeaderFields, StateFields
  <2> QED
    BY <2>1, PinnedFieldList, StateFieldList
<1>2. SnapshotFrom(part) = MatchAfter(r) /\ SnapshotFrom(bytes) = MatchAfter(s)
  BY DEF SnapshotFrom
<1>3. Along(a, b, part, bytes)
  BY <1>1, AlongStart, FieldWidths, AlongFields
<1> HIDE DEF a, b
<1>4. Along(r, s, part, bytes)
  <2>1. f.width \in Nat
    BY DEF Raw
  <2>2. Along(TakeStatus(a), TakeStatus(b), part, bytes)
    BY <1>3, AlongStatus
  <2> HIDE DEF f
  <2> QED
    BY <2>1, <2>2, AlongTake
<1> HIDE DEF r, s
<1> DEFINE size(t) == IF t.got.length[1] > 127 THEN 16777216 ELSE Signed(t.got.length)
<1>5. /\ ~(r.ok /\ Remaining(r) = size(r)) => MatchAfter(r) = Refused
      /\ ~(s.ok /\ Remaining(s) = size(s)) => MatchAfter(s) = Refused
  BY DEF MatchAfter
<1>6. ASSUME MatchAfter(r) # Refused
      PROVE  FALSE
  <2>1. r.ok /\ Remaining(r) = size(r) /\ Remaining(s) = size(s)
    BY <1>2, <1>5, <1>6
  <2>2. s.got = r.got /\ Remaining(r) # Remaining(s)
    BY <1>4, <2>1, OtherRemains
  <2> QED
    BY <2>1, <2>2
<1> QED
  BY <1>2, <1>6

(* What is left of a payload.                                              *)
LEMMA RestBehind ==
  ASSUME NEW bytes \in Seq(Byte), NEW at \in 0 .. Len(bytes)
  PROVE  \E rest : Ends(bytes, at, rest)
<1> DEFINE rest == [i \in 1 .. Len(bytes) - at |-> bytes[at + i]]
<1>1. Len(bytes) \in Nat /\ at \in Nat /\ Len(bytes) - at \in Nat
  OBVIOUS
<1>2. \A i \in 1 .. Len(bytes) - at : bytes[at + i] \in Byte
  <2> TAKE i \in 1 .. Len(bytes) - at
  <2>1. at + i \in 1 .. Len(bytes)
    BY <1>1
  <2> QED
    BY <2>1
<1>3. /\ rest \in Seq(Byte) /\ Len(rest) = Len(bytes) - at
      /\ \A i \in 1 .. Len(bytes) - at : rest[i] = bytes[at + i]
  BY <1>1, <1>2
<1> HIDE DEF rest
<1>4. Ends(bytes, at, rest)
  BY <1>1, <1>3 DEF Ends, Holds
<1> QED
  BY <1>4

LEMMA CutShotTail ==
  ASSUME NEW part, NEW bytes, CutOf(part, bytes), NEW r, NEW s, Along(r, s, part, bytes), NEW n,
         ShotAfter(n, s) # Refused
  PROVE  ShotAfter(n, r) = Refused
<1> DEFINE f1 == Field("assigned", 1, 0 .. 2)
           f2 == Flag("reracked")
           f3 == Field("next", 1, 0 .. 2)
           f4 == Flag("inHand")
           none  == << >>
           Behind(t) == ReadAll(TakeStatus(ReadAll([t EXCEPT !.got = none], <<f1, f2>>)), <<f3, f4>>)
<1>1. /\ ~Finished(Behind(r)) => ShotAfter(n, r) = Refused
      /\ ~Finished(Behind(s)) => ShotAfter(n, s) = Refused
  BY DEF ShotAfter
<1>2. f1.width \in Nat /\ f2.width \in Nat /\ f3.width \in Nat /\ f4.width \in Nat
  BY DEF Field, Flag
<1> HIDE DEF f1, f2, f3, f4, none
<1> DEFINE a == [r EXCEPT !.got = none]
           b == [s EXCEPT !.got = none]
<1>3. Along(a, b, part, bytes)
  BY AlongOther
<1> HIDE DEF a, b
<1>4. Along(ReadAll(a, <<f1, f2>>), ReadAll(b, <<f1, f2>>), part, bytes)
  BY <1>2, <1>3, AlongPair
<1>5. Along(TakeStatus(ReadAll(a, <<f1, f2>>)), TakeStatus(ReadAll(b, <<f1, f2>>)), part, bytes)
  BY <1>4, AlongStatus
<1>6. Along(ReadAll(TakeStatus(ReadAll(a, <<f1, f2>>)), <<f3, f4>>),
            ReadAll(TakeStatus(ReadAll(b, <<f1, f2>>)), <<f3, f4>>), part, bytes)
  BY <1>2, <1>5, AlongPair
<1>7. Along(Behind(r), Behind(s), part, bytes)
  BY <1>6 DEF a, b
<1> HIDE DEF Behind
<1> QED
  BY <1>1, <1>7, NotBothFinished

LEMMA CutShot ==
  ASSUME NEW part, NEW bytes, CutOf(part, bytes), NEW r, NEW s, Along(r, s, part, bytes), r.ok,
         ShotFrom(s) # Refused
  PROVE  ShotFrom(r) = Refused
<1> DEFINE players == {1, 2}
           counts  == 0 .. 4
           none    == << >>
           f == Field("shooter", 1, players)
           g == Field("count", 1, counts)
           a == ReadAll(r, <<f, g>>)
           b == ReadAll(s, <<f, g>>)
           Lists(t, n) == TakeFouls([t EXCEPT !.got = none], n)
<1>1. /\ ShotFrom(r) = IF a.ok THEN ShotAfter(a.got.shooter, Lists(a, a.got.count)) ELSE Refused
      /\ ShotFrom(s) = IF b.ok THEN ShotAfter(b.got.shooter, Lists(b, b.got.count)) ELSE Refused
  BY DEF ShotFrom
<1>2. f.width \in Nat /\ g.width \in Nat
  BY DEF Field
<1> HIDE DEF players, counts, none
<1>3. Along(a, b, part, bytes)
  <2> HIDE DEF f, g
  <2> QED
    BY <1>2, AlongPair
<1>4. CASE ~a.ok
  <2> HIDE DEF a
  <2> QED
    BY <1>1, <1>4
<1>5. CASE a.ok
  <2>1. b.ok /\ b.got = a.got
    <3> HIDE DEF a, b
    <3> QED
      BY <1>3, <1>5, OtherRemains
  <2>2. a.got.count \in Nat
    <3>1. PICK at, got : at \in 0 .. Len(part) /\ r = Got(part, at, got)
      BY DEF Along, Alike
    <3>2. PICK rest : Ends(part, at, rest)
      BY <3>1, RestBehind DEF CutOf
    <3> DEFINE l(m, n) == With(With(got, "shooter", m), "count", n)
    <3>3. PICK m \in players, n \in counts, more \in Seq(Byte) : a = Got(part, at + 2, l(m, n))
      <4>1. ReadAll(Got(part, at, got), << Field("shooter", 1, players), Field("count", 1, counts) >>).ok
        BY <1>5, <3>1
      <4> HIDE DEF a
      <4>2. a = ReadAll(Got(part, at, got), << Field("shooter", 1, players), Field("count", 1, counts) >>)
        BY <3>1 DEF a
      <4> QED
        BY <3>2, <4>1, <4>2, BytesAccepted
    <3>4. l(m, n).count = n
      BY DEF With
    <3> HIDE DEF a, l
    <3>5. a.got.count = n
      BY <3>3, <3>4 DEF Got
    <3> QED
      BY <3>5 DEF counts
  <2> DEFINE n == a.got.count
             p == a.got.shooter
             x == [a EXCEPT !.got = none]
             y == [b EXCEPT !.got = none]
  <2>3. n \in Nat /\ ShotAfter(p, TakeFouls(y, n)) # Refused /\ ShotFrom(r) = ShotAfter(p, TakeFouls(x, n))
    <3> HIDE DEF a, b
    <3> QED
      BY <1>1, <1>5, <2>1, <2>2
  <2>4. Along(x, y, part, bytes)
    <3> HIDE DEF a, b
    <3> QED
      BY <1>3, AlongOther
  <2> HIDE DEF n, p, x, y
  <2>5. Along(TakeFouls(x, n), TakeFouls(y, n), part, bytes)
    BY <2>3, <2>4, AlongFouls
  <2> QED
    BY <2>3, <2>5, CutShotTail
<1> QED
  BY <1>4, <1>5

LEMMA CutResult ==
  ASSUME NEW part, NEW bytes, CutOf(part, bytes), ResultFrom(bytes) # Refused
  PROVE  ResultFrom(part) = Refused
<1> DEFINE f == Field("version", 2, {1})
           g == Field("kind", 1, 1 .. 4)
           r == ReadAll(Reader(part), <<f, g>>)
           s == ReadAll(Reader(bytes), <<f, g>>)
<1>1. ResultFrom(part) = ResultOf(r) /\ ResultFrom(bytes) = ResultOf(s)
  BY DEF ResultFrom
<1>2. f.width \in Nat /\ g.width \in Nat
  BY DEF Field
<1>3. Along(r, s, part, bytes)
  <2> HIDE DEF f, g
  <2> QED
    BY <1>2, AlongStart, AlongPair
<1> HIDE DEF r, s
<1>4. CASE ~r.ok
  BY <1>1, <1>4 DEF ResultOf
<1>5. CASE r.ok
  <2>1. s.ok /\ s.got = r.got
    BY <1>3, <1>5, OtherRemains
  <2>2. CASE r.got.kind = 1
    <3>1. ResultOf(r) = ShotFrom(r) /\ ResultOf(s) = ShotFrom(s)
      BY <1>5, <2>1, <2>2 DEF ResultOf
    <3> QED
      BY <1>1, <1>3, <1>5, <3>1, CutShot
  <2>3. CASE r.got.kind = 2
    <3> DEFINE h == Field("active", 1, {1, 2})
               x == Take(r, h)
               y == Take(s, h)
    <3>1. /\ ~Finished(x) => ResultOf(r) = Refused
          /\ ~Finished(y) => ResultOf(s) = Refused
      BY <1>5, <2>1, <2>3 DEF ResultOf, TimeoutFrom
    <3>2. h.width \in Nat
      BY DEF Field
    <3> HIDE DEF h
    <3>3. Along(x, y, part, bytes)
      BY <1>3, <3>2, AlongTake
    <3> HIDE DEF x, y
    <3> QED
      BY <1>1, <3>1, <3>3, NotBothFinished
  <2>4. CASE r.got.kind = 3
    <3> DEFINE x == TakeStatus(r)
               y == TakeStatus(s)
    <3>1. ResultOf(r) = ConcessionFrom(x) /\ ResultOf(s) = ConcessionFrom(y)
      BY <1>5, <2>1, <2>4 DEF ResultOf
    <3>2. Along(x, y, part, bytes)
      BY <1>3, AlongStatus
    <3> HIDE DEF x, y
    <3>3. /\ ~Finished(x) => ResultOf(r) = Refused
          /\ ~Finished(y) => ResultOf(s) = Refused
      BY <3>1 DEF ConcessionFrom
    <3> QED
      BY <1>1, <3>2, <3>3, NotBothFinished
  <2>5. CASE r.got.kind \notin {1, 2, 3}
    <3>1. /\ ~Finished(r) => ResultOf(r) = Refused
          /\ ~Finished(s) => ResultOf(s) = Refused
      BY <1>5, <2>1, <2>5 DEF ResultOf
    <3> QED
      BY <1>1, <1>3, <3>1, NotBothFinished
  <2> QED
    BY <2>2, <2>3, <2>4, <2>5
<1> QED
  BY <1>4, <1>5

(* A payload that was cut is never accepted: of anything that is taken for *)
(* a configuration, a state of a match or a result, no shorter beginning   *)
(* is, however much of it is missing.                                      *)
THEOREM CutsAreRefused ==
  ASSUME NEW bytes \in Seq(Byte), NEW n \in 0 .. Len(bytes) - 1
  PROVE  /\ ConfigurationFrom(bytes) # Refused => ConfigurationFrom(SubSeq(bytes, 1, n)) = Refused
         /\ SnapshotFrom(bytes) # Refused => SnapshotFrom(SubSeq(bytes, 1, n)) = Refused
         /\ ResultFrom(bytes) # Refused => ResultFrom(SubSeq(bytes, 1, n)) = Refused
<1>1. CutOf(SubSeq(bytes, 1, n), bytes)
  BY CutIsPrefix
<1> QED
  BY <1>1, CutConfiguration, CutSnapshot, CutResult

LEMMA ResultIsNotRefused ==
  ASSUME NEW res \in Results
  PROVE  res # Refused
<1>1. "kind" \in DOMAIN res
  BY DEF Results, ShotResults
<1>2. "kind" \notin DOMAIN Refused
  BY DEF Refused
<1> QED
  BY <1>1, <1>2

LEMMA SnapshotIsNotRefused == Snapshot # Refused
<1>1. "physics" \in DOMAIN Snapshot
  BY DEF Snapshot
<1>2. "physics" \notin DOMAIN Refused
  BY DEF Refused
<1> QED
  BY <1>1, <1>2

(* Bytes with another in one place, and with one more behind them.         *)
LEMMA DamagedBytes ==
  ASSUME NEW bytes \in Seq(Byte), NEW places, NEW other \in Damaged(bytes, places)
  PROVE  other \in Seq(Byte)
<1>1. Probes \subseteq Byte
  BY DEF Probes, Byte
<1>2. CASE \E i \in places \cap DOMAIN bytes, probe \in Probes : other = [bytes EXCEPT ![i] = probe]
  BY <1>1, <1>2
<1>3. CASE other = bytes \o <<0>>
  <2>1. <<0>> \in Seq(Byte)
    BY DEF Byte
  <2> QED
    BY <1>3, <2>1
<1> QED
  BY <1>2, <1>3 DEF Damaged

LEMMA DamagedResults ==
  ASSUME BrokenInv
  PROVE  ResultDamageIsNoticed
<1> SUFFICES ASSUME result # NoResult
             PROVE  LET bytes == ResultBytes(result) IN
                      /\ \A cut \in Cuts(bytes) : ResultFrom(cut) = Refused
                      /\ \A other \in Damaged(bytes, DOMAIN bytes) \ {bytes} :
                           LET read == ResultFrom(other) IN
                             read # Refused => read # result /\ ResultFrom(ResultBytes(read)) = read
  BY DEF ResultDamageIsNoticed
<1> DEFINE bytes == ResultBytes(result)
<1>1. result \in Results
  BY DEF BrokenInv, RecordInv
<1>2. bytes \in Seq(Byte) /\ ResultFrom(bytes) = result /\ ResultFrom(bytes) # Refused
  BY <1>1, ResultIsPayload, ResultsRoundTrip, ResultIsNotRefused
<1> HIDE DEF bytes
<1>3. ASSUME NEW cut \in Cuts(bytes)
      PROVE  ResultFrom(cut) = Refused
  <2>1. PICK n \in 0 .. Len(bytes) - 1 : cut = SubSeq(bytes, 1, n)
    BY DEF Cuts
  <2> QED
    BY <1>2, <2>1, CutsAreRefused
<1>4. ASSUME NEW other \in Damaged(bytes, DOMAIN bytes) \ {bytes}, ResultFrom(other) # Refused
      PROVE  ResultFrom(other) # result /\ ResultFrom(ResultBytes(ResultFrom(other))) = ResultFrom(other)
  <2>1. other \in Seq(Byte)
    BY <1>2, DamagedBytes
  <2>2. ResultFrom(other) \in Results /\ ResultBytes(ResultFrom(other)) = other
    BY <1>4, <2>1, ResultsAreCanonical
  <2>3. ResultFrom(other) # result
    BY <2>2 DEF bytes
  <2> QED
    BY <2>2, <2>3
<1> QED
  BY <1>3, <1>4 DEF bytes

LEMMA CutSnapshots ==
  ASSUME BrokenInv
  PROVE  SnapshotCutsAreRefused
<1> DEFINE bytes == SnapshotBytes(Snapshot)
<1>1. IInv /\ breaker \in Player
  BY DEF BrokenInv, RecordInv
<1>2. bytes \in Seq(Byte) /\ SnapshotFrom(bytes) # Refused
  BY <1>1, SnapshotRead, SnapshotIsNotRefused DEF Short, Payload
<1> HIDE DEF bytes
<1>3. ASSUME NEW cut \in Cuts(bytes)
      PROVE  SnapshotFrom(cut) = Refused
  <2>1. PICK n \in 0 .. Len(bytes) - 1 : cut = SubSeq(bytes, 1, n)
    BY DEF Cuts
  <2> QED
    BY <1>2, <2>1, CutsAreRefused
<1> QED
  BY <1>3 DEF bytes, SnapshotCutsAreRefused

(* Whatever commands a match took: the state it would be stored as and the *)
(* result of its last command are refused when anything of them is cut     *)
(* off, and the result is noticed to have been damaged in any place: what  *)
(* is read is refused or another result, one that can be stored itself.    *)
THEOREM DamagedPayloadsAreNoticed == RecordedSpec => [](SnapshotCutsAreRefused /\ ResultDamageIsNoticed)
<1>1. RecordedInit => BrokenInv
  BY BrokenInit
<1>2. BrokenInv /\ [RecordedNext]_recordVars => BrokenInv'
  BY BrokenStep
<1>3. BrokenInv => SnapshotCutsAreRefused /\ ResultDamageIsNoticed
  BY CutSnapshots, DamagedResults
<1>4. QED
  BY <1>1, <1>2, <1>3, PTL DEF RecordedSpec

=============================================================================
