--------------------------- MODULE PlayerInputProofs ---------------------------
(***************************************************************************)
(* What holds of the browser client whatever the player does: its frames   *)
(* are read as they were meant, what it shows is grounded in the           *)
(* authoritative match, a contact that places the cue ball does not shoot  *)
(* it, and a cancelled contact does nothing.                               *)
(***************************************************************************)
EXTENDS PlayerInput, WireProtocolProofs

-----------------------------------------------------------------------------
(* The values of the variables.                                            *)

Matches == [game : Games, table : Nat \X BOOLEAN]

Transports ==
  [ status : Statuses, negotiated : BOOLEAN, known : Nat \cup {None}, pending : {None, "command"}, rejected : BOOLEAN ]

Inputs ==
  [ aim : Aims, power : Powers, pocket : 0 .. 6, placing : BOOLEAN, placed : BOOLEAN,
    touch : Touches \cup {NoTouch}, contact : {"None", "Power", "Auxiliary", "Aim"}, blocked : BOOLEAN ]

(* The frame is the encoding of the envelope that was meant. *)
Meant(frame) == frame.meant \in Envelopes /\ frame.bytes = EnvelopeBytes(frame.meant)

SocketTypes ==
  /\ practice \in BOOLEAN /\ seat \in {None, "One"}
  /\ transport \in Transports
  /\ authoritative \in Matches \cup {None} /\ predicted \in Matches \cup {None}
  /\ authority \in Matches \cup {None} /\ (~practice => authority \in Matches)
  /\ \A frame \in inFlight : Meant(frame)
  /\ refused \in BOOLEAN

PageTypes ==
  /\ DOMAIN held \subseteq Pointers /\ \A p \in DOMAIN held : held[p] \in Spots[p]
  /\ window \in Windows /\ unfocused \in BOOLEAN

InputTypes ==
  /\ input \in Inputs /\ wasPressed \in BOOLEAN
  /\ contact \in [placed : BOOLEAN, cancelled : BOOLEAN]

TypeOK == SocketTypes /\ PageTypes /\ InputTypes

(* The practice page has no connection.                                    *)
Practising == practice => transport = NewClient /\ inFlight = {} /\ ~refused

(* The known revision is that of the authoritative match, and the server   *)
(* never falls behind it: no snapshot is stale.                            *)
Known ==
  /\ \/ transport.known = None /\ authoritative = None
     \/ /\ transport.known \in Nat /\ authoritative \in Matches /\ authority \in Matches
        /\ transport.known = Revision(authoritative) /\ transport.known <= Revision(authority)
  /\ transport.negotiated => transport.status \in {"Negotiating", "Ready"}

(* What the contact has done is remembered in the input: that it has       *)
(* placed the cue ball, and that it is blocked until everything is lifted. *)
ContactsAreRemembered ==
  /\ contact.placed => input.placed
  /\ contact.cancelled => input.blocked /\ input.touch = NoTouch

SocketInv == SocketTypes /\ Practising /\ Known /\ PredictionIsGrounded

InputInv == InputTypes /\ ContactsAreRemembered

IInv == SocketInv /\ PageTypes /\ InputInv

-----------------------------------------------------------------------------
(* Spots of the window.                                                    *)

LEMMA RoundedNumber ==
  ASSUME NEW n \in Int, NEW d \in Int, d > 0
  PROVE  Rounded(n, d) \in Int
<1>1. (d - 2 * n) \div (2 * d) \in Int /\ (2 * n + d) \div (2 * d) \in Int
  OBVIOUS
<1> QED
  BY <1>1 DEF Rounded

LEMMA PocketNumbers ==
  ASSUME NEW s, s.x \in Int, s.y \in Int
  PROVE  SelectedPocket(s) \in 0 .. 6
<1> DEFINE Within(i) == (s.x - ScreenPockets[i].x) * (s.x - ScreenPockets[i].x)
                     + (s.y - ScreenPockets[i].y) * (s.y - ScreenPockets[i].y)
                       <= PocketSelectionRadius * PocketSelectionRadius
           near == {i \in DOMAIN ScreenPockets : Within(i)}
<1> HIDE DEF Within
<1>1. DOMAIN ScreenPockets = 1 .. 6
  BY DEF ScreenPockets
<1>2. near \subseteq 1 .. 6
  BY <1>1
<1> HIDE DEF near
<1>3. SelectedPocket(s) = IF near = {} THEN 0 ELSE CHOOSE i \in near : \A k \in near : i <= k
  BY Zenon DEF SelectedPocket, near, Within
<1>4. ASSUME near # {}
      PROVE  (CHOOSE i \in near : \A k \in near : i <= k) \in near
  <2> DEFINE Least(i) == i \in near /\ \A k \in near : i <= k
  <2>1. \E i \in near : Least(i)
    <3>1. \A k \in near : k = 1 \/ k = 2 \/ k = 3 \/ k = 4 \/ k = 5 \/ k = 6
      BY <1>2
    <3>2. CASE 1 \in near
      BY <3>1, <3>2
    <3>3. CASE 1 \notin near /\ 2 \in near
      BY <3>1, <3>3
    <3>4. CASE 1 \notin near /\ 2 \notin near /\ 3 \in near
      BY <3>1, <3>4
    <3>5. CASE 1 \notin near /\ 2 \notin near /\ 3 \notin near /\ 4 \in near
      BY <3>1, <3>5
    <3>6. CASE 1 \notin near /\ 2 \notin near /\ 3 \notin near /\ 4 \notin near
      BY <1>4, <3>1, <3>6
    <3> QED
      BY <3>2, <3>3, <3>4, <3>5, <3>6
  <2> QED
    BY <2>1, Zenon
<1> DEFINE least == CHOOSE i \in near : \A k \in near : i <= k
<1>5. near # {} => least \in 1 .. 6
  BY <1>2, <1>4
<1>6. SelectedPocket(s) = IF near = {} THEN 0 ELSE least
  BY <1>3
<1> HIDE DEF least
<1> QED
  BY <1>5, <1>6

LEMMA PowerNumber ==
  ASSUME NEW s, s.x \in Int, s.y \in Int
  PROVE  PowerUnits(s) \in Powers
<1> DEFINE n == 10000 * (2 * PointerWorld(s).y + PowerBarHeight)
           d == 2 * PowerBarHeight
           units == Rounded(n, d)
<1>1. PointerWorld(s).y \in Int
  BY DEF PointerWorld, Spot, DesignHeight
<1>2. n \in Int /\ d \in Int /\ d > 0
  BY <1>1 DEF PowerBarHeight
<1> HIDE DEF n, d
<1>3. units \in Int
  BY <1>2, RoundedNumber
<1> HIDE DEF units
<1>4. Clamp(units, 500, 10000) \in Int /\ 0 <= Clamp(units, 500, 10000) /\ Clamp(units, 500, 10000) <= 10000
  BY <1>3 DEF Clamp
<1>5. PowerUnits(s) = Clamp(units, 500, 10000)
  BY DEF PowerUnits, units, n, d
<1>6. PowerUnits(s) \in Int /\ 0 <= PowerUnits(s) /\ PowerUnits(s) <= MaxPower /\ MaxPower \in Int
  BY <1>4, <1>5 DEF MaxPower
<1> QED
  BY <1>6 DEF Powers

LEMMA CanonicalNumbers ==
  ASSUME NEW s, s.x \in Int, s.y \in Int
  PROVE  ScreenToCanonical(s).x \in Int /\ ScreenToCanonical(s).y \in Int
<1>1. TableLeft \in Int /\ TableTop \in Int /\ TableWidth \in Int /\ TableHeight \in Int
  BY DEF TableLeft, TableTop, TableWidth, TableHeight, TableCenterX, DesignWidth, DesignHeight
<1> DEFINE a == 2 * (s.x - TableLeft) - TableWidth
           b == TableHeight - 2 * (s.y - TableTop)
<1>2. a \in Int /\ b \in Int
  BY <1>1
<1> HIDE DEF a, b
<1>3. Micros(a) \in Int /\ Micros(b) \in Int
  BY <1>2, RoundedNumber DEF Micros
<1>4. ScreenToCanonical(s) = [x |-> Micros(a), y |-> Micros(b)]
  BY DEF ScreenToCanonical, a, b
<1> QED
  BY <1>3, <1>4

LEMMA FirstInput ==
  NewInput \in Inputs
<1>1. DefaultAim \in Aims
  BY DEF DefaultAim, Aims, StepsPerTurn
<1>2. DefaultPower \in Powers
  BY DEF DefaultPower, Powers, MaxPower
<1> QED
  BY <1>1, <1>2 DEF NewInput, Inputs

-----------------------------------------------------------------------------
(* The systems of a frame before update_input: they lock the pointers, and *)
(* do nothing else.                                                        *)
LEMMA PreparedInput ==
  ASSUME TypeOK
  PROVE  /\ Prepared \in Inputs
         /\ Prepared.aim = input.aim /\ Prepared.power = input.power /\ Prepared.pocket = input.pocket
         /\ Prepared.placed = input.placed
         /\ AnyPressed /\ (unfocused \/ window = "portrait" \/ (input.blocked /\ input.touch = NoTouch))
              => Prepared.blocked /\ Prepared.touch = NoTouch
<1> DEFINE i == CancelInputOnFocusLoss(input)
           j == UpdateOrientation(i)
           k == RearmInput(j)
<1>1. input \in Inputs /\ unfocused \in BOOLEAN
  BY DEF TypeOK, SocketTypes, PageTypes, InputTypes
<1>2. /\ i \in Inputs
      /\ i.aim = input.aim /\ i.power = input.power /\ i.pocket = input.pocket /\ i.placed = input.placed
      /\ (unfocused \/ (input.blocked /\ input.touch = NoTouch)) => i.blocked /\ i.touch = NoTouch
  BY <1>1 DEF CancelInputOnFocusLoss, ReleaseActiveTouch, Inputs
<1> HIDE DEF i
<1>3. /\ j \in Inputs
      /\ j.aim = i.aim /\ j.power = i.power /\ j.pocket = i.pocket /\ j.placed = i.placed
      /\ (window = "portrait" \/ (i.blocked /\ i.touch = NoTouch)) => j.blocked /\ j.touch = NoTouch
  <2> DEFINE h == predicted # None /\ predicted.game.inHand
             placing == [i EXCEPT !.placing = h]
  <2>1. h \in BOOLEAN
    BY <1>1 DEF TypeOK, SocketTypes, PageTypes, InputTypes, Matches, Games
  <2> HIDE DEF h
  <2>2. /\ placing \in Inputs
        /\ placing.aim = i.aim /\ placing.power = i.power /\ placing.pocket = i.pocket /\ placing.placed = i.placed
        /\ placing.blocked = i.blocked /\ placing.touch = i.touch
    BY <1>2, <2>1 DEF Inputs
  <2>3. j = IF window = "portrait" THEN ReleaseActiveTouch(placing, TRUE) ELSE placing
    BY DEF UpdateOrientation, h
  <2> HIDE DEF placing, j
  <2> QED
    BY <2>2, <2>3 DEF ReleaseActiveTouch, Inputs
<1> HIDE DEF j
<1>4. /\ k \in Inputs
      /\ k.aim = j.aim /\ k.power = j.power /\ k.pocket = j.pocket /\ k.placed = j.placed
      /\ AnyPressed => k = j
  BY <1>3 DEF RearmInput, ShouldRearmInput, Inputs
<1> HIDE DEF k
<1>5. Prepared = k
  BY DEF Prepared, k, j, i
<1> QED
  BY <1>2, <1>3, <1>4, <1>5

(* A pointer that is followed is where it is held; nothing is followed as  *)
(* long as all pointers are locked.                                        *)
LEMMA LocatedInput ==
  ASSUME TypeOK, AnyPressed, NEW i \in Inputs, NEW located \in Located(i)
  PROVE  /\ located.input \in Inputs
         /\ located.input.placed = i.placed
         /\ located.cursor # None => \E p \in DOMAIN held : located.cursor = held[p]
         /\ i.blocked /\ i.touch = NoTouch => located.cursor = None /\ located.input = i
<1> DEFINE following == i.touch \in DOMAIN held
           unlocked  == IF i.touch = NoTouch \/ following THEN i ELSE ReleaseActiveTouch(i, AnyPressed)
           fingers   == DOMAIN held \cap Touches
<1>1. /\ unlocked \in Inputs /\ unlocked.placed = i.placed
      /\ i.touch = NoTouch => unlocked = i
  BY DEF ReleaseActiveTouch, Inputs, AnyPressed
<1>2. NoTouch \notin DOMAIN held
  BY PointersAssumption DEF TypeOK, SocketTypes, PageTypes, InputTypes, Pointers
<1>3. fingers = {} => Mouse \in DOMAIN held
  BY DEF TypeOK, SocketTypes, PageTypes, InputTypes, Pointers, AnyPressed
<1>4. fingers \subseteq DOMAIN held /\ fingers \subseteq Touches
  OBVIOUS
<1>5. Located(i) = IF following THEN {[input |-> i, cursor |-> held[i.touch]]}
                   ELSE IF unlocked.blocked THEN {[input |-> unlocked, cursor |-> None]}
                   ELSE IF fingers # {}
                   THEN {[input |-> [unlocked EXCEPT !.touch = t], cursor |-> held[t]] : t \in fingers}
                   ELSE {[input |-> unlocked, cursor |-> held[Mouse]]}
  BY DEF Located
<1> HIDE DEF unlocked, fingers
<1>6. CASE following
  BY <1>2, <1>5, <1>6
<1>7. CASE ~following /\ unlocked.blocked
  BY <1>1, <1>5, <1>7
<1>8. CASE ~following /\ ~unlocked.blocked /\ fingers # {}
  <2>1. PICK t \in fingers : located = [input |-> [unlocked EXCEPT !.touch = t], cursor |-> held[t]]
    BY <1>5, <1>8
  <2>2. [unlocked EXCEPT !.touch = t] \in Inputs /\ [unlocked EXCEPT !.touch = t].placed = i.placed
    BY <1>1, <1>4 DEF Inputs
  <2> QED
    BY <1>1, <1>4, <1>8, <2>1, <2>2
<1>9. CASE ~following /\ ~unlocked.blocked /\ fingers = {}
  BY <1>1, <1>3, <1>5, <1>9
<1> QED
  BY <1>6, <1>7, <1>8, <1>9

(* Pointing changes the aim, the power or the pocket. *)
LEMMA PointedInput ==
  ASSUME NEW i \in Inputs, NEW s, s.x \in Int, s.y \in Int,
         AimSteps[s, "cue"] \in Aims, AimSteps[s, "middle"] \in Aims
  PROVE  Pointed(i, s) \in Inputs /\ Pointed(i, s).placed = i.placed
<1>1. PowerUnits(s) \in Powers /\ SelectedPocket(s) \in 0 .. 6
  BY PowerNumber, PocketNumbers
<1>2. \/ Pointed(i, s) = [i EXCEPT !.power = PowerUnits(s)]
      \/ Pointed(i, s) = [i EXCEPT !.aim = AimSteps[s, "cue"]]
      \/ Pointed(i, s) = [i EXCEPT !.pocket = SelectedPocket(s)]
      \/ Pointed(i, s) = [i EXCEPT !.aim = AimSteps[s, "middle"]]
      \/ Pointed(i, s) = i
  BY Zenon DEF Pointed
<1> DEFINE Fine(j) == j \in Inputs /\ j.placed = i.placed
<1>3. ASSUME NEW a \in Aims
      PROVE  Fine([i EXCEPT !.aim = a])
  BY DEF Inputs
<1>4. ASSUME NEW p \in Powers
      PROVE  Fine([i EXCEPT !.power = p])
  BY DEF Inputs
<1>5. ASSUME NEW p \in 0 .. 6
      PROVE  Fine([i EXCEPT !.pocket = p])
  BY DEF Inputs
<1>6. /\ Fine([i EXCEPT !.power = PowerUnits(s)]) /\ Fine([i EXCEPT !.pocket = SelectedPocket(s)])
      /\ Fine([i EXCEPT !.aim = AimSteps[s, "cue"]]) /\ Fine([i EXCEPT !.aim = AimSteps[s, "middle"]])
      /\ Fine(i)
  <2> HIDE DEF Fine
  <2>1. Fine(i)
    BY DEF Fine
  <2> QED
    BY <1>1, <1>3, <1>4, <1>5, <2>1, Zenon
<1>7. Fine(Pointed(i, s))
  <2> HIDE DEF Fine
  <2> QED
    BY <1>2, <1>6, Zenon
<1> QED
  BY <1>7

-----------------------------------------------------------------------------
(* Commands that are sent are commands of the protocol.                    *)

(* One command is predicted and its frame leaves. *)
Sends == \E command \in Orders, effect \in Commands : Send(command, effect)

LEMMA ShotIsOrder ==
  ASSUME NEW i \in Inputs, NEW effect \in ShotCommands, ReleaseShot(i, effect)
  PROVE  Sends
<1> DEFINE order == [ kind |-> "shot", aim |-> i.aim, power |-> i.power, side |-> Spin.side,
                      vertical |-> Spin.vertical, pocket |-> PocketAt(i.pocket) ]
<1>1. i.aim \in Aims /\ i.power \in Powers /\ PocketAt(i.pocket) \in CalledPockets
  BY DEF Inputs, CalledPockets
<1>2. order \in ShotOrders
  BY <1>1, SpinAssumption DEF ShotOrders
<1>3. Send(order, effect)
  BY DEF ReleaseShot, SendShotCommand, PracticeShot, DecodeCalledPocket, PredictShot
<1> HIDE DEF order
<1>4. order \in Orders /\ effect \in Commands
  BY <1>2 DEF Orders, Commands, TurnCommands
<1> QED
  BY <1>3, <1>4 DEF Sends

LEMMA PlacementIsOrder ==
  ASSUME NEW s, s.x \in Int, s.y \in Int, PredictCueBallPlacement(ScreenToCanonical(s))
  PROVE  Sends
<1> DEFINE spot == ScreenToCanonical(s)
           order == [kind |-> "place", x |-> Be(8, spot.x), y |-> Be(8, spot.y)]
<1>1. spot.x \in Int /\ spot.y \in Int
  BY CanonicalNumbers
<1> HIDE DEF spot
<1>2. Be(8, spot.x) \in Word(8) /\ Be(8, spot.y) \in Word(8)
  BY <1>1, BeType
<1>3. order \in Placements
  BY <1>2 DEF Placements
<1>4. Send(order, "place")
  BY DEF PredictCueBallPlacement, spot
<1> HIDE DEF order
<1>5. order \in Orders /\ "place" \in Commands
  BY <1>3 DEF Orders, Commands, TurnCommands
<1> QED
  BY <1>4, <1>5 DEF Sends

LEMMA ConcessionIsOrder ==
  ASSUME PredictConcession("One")
  PROVE  \E command \in Resignations, effect \in Commands : Send(command, effect)
<1> DEFINE order == [kind |-> "concede", player |-> "One"]
<1>1. order \in Resignations
  BY DEF Resignations
<1>2. ConcessionOf["One"] \in Commands
  BY DEF ConcessionOf, Player, Commands, Concessions
<1>3. Send(order, ConcessionOf["One"])
  BY DEF PredictConcession
<1> HIDE DEF order
<1> QED
  BY <1>1, <1>2, <1>3

-----------------------------------------------------------------------------
(* update_input in a frame.                                                *)

LEMMA FrameOutcome ==
  ASSUME TypeOK, Practising, NEW i \in Inputs, NEW s, UpdateInput(i, s)
  PROVE  /\ input' \in Inputs
         /\ NothingSent \/ (AcceptsActivePlayerCommand /\ Sends)
         /\ ~AnyPressed /\ i.placed => NothingSent
         /\ AnyPressed /\ (i.placed \/ ~NothingSent) => input'.placed
         /\ AnyPressed /\ i.blocked /\ i.touch = NoTouch =>
              /\ NothingSent /\ input'.blocked /\ input'.touch = NoTouch
              /\ input'.aim = i.aim /\ input'.power = i.power /\ input'.pocket = i.pocket
<1>1. CASE NotAccepting(i, s)
  <2>1. NothingSent /\ input' = IF AnyPressed THEN ReleaseActiveTouch(i, TRUE) ELSE i
    BY <1>1 DEF NotAccepting
  <2> QED
    BY <2>1 DEF ReleaseActiveTouch, Inputs
<1>2. CASE NothingHeld(i, s) /\ ~AnyPressed
  <2>1. NothingSent /\ input' = [i EXCEPT !.touch = NoTouch]
    BY <1>2 DEF NothingHeld
  <2> QED
    BY <1>2, <2>1 DEF Inputs
<1>3. CASE ContactEnds(i, s) /\ ~AnyPressed /\ (AcceptsActivePlayerCommand \/ practice)
  <2>1. input' = [i EXCEPT !.placed = FALSE, !.contact = "None", !.touch = NoTouch]
    BY <1>3 DEF ContactEnds
  <2>2. input' \in Inputs
    BY <2>1 DEF Inputs
  <2>3. NothingSent \/ (~practice /\ ~i.placed /\ \E effect \in ShotCommands : ReleaseShot(i, effect))
    BY <1>3 DEF ContactEnds
  <2>4. NothingSent \/ (AcceptsActivePlayerCommand /\ ~i.placed /\ Sends)
    BY <1>3, <2>3, ShotIsOrder
  <2> QED
    BY <1>3, <2>2, <2>4
<1>4. CASE ContactGoesOn(i, s) /\ AnyPressed /\ (AcceptsActivePlayerCommand \/ practice)
  <2>1. PICK located \in Located(i) :
          LET cursor  == located.cursor
              begun   == IF wasPressed THEN located.input
                         ELSE [located.input EXCEPT !.contact = ClassifyPointerContact(cursor)]
              placed  == ~practice /\ Places(begun, cursor) /\ cursor \in FreeSpots
              pointed == Pointed(begun, cursor)
          IN IF cursor = None
             THEN input' = located.input /\ NothingSent
             ELSE /\ input' = [pointed EXCEPT !.placed = @ \/ placed]
                  /\ IF placed THEN PredictCueBallPlacement(ScreenToCanonical(cursor))
                               ELSE NothingSent
    BY <1>4 DEF ContactGoesOn
  <2> DEFINE cursor  == located.cursor
             begun   == IF wasPressed THEN located.input
                        ELSE [located.input EXCEPT !.contact = ClassifyPointerContact(cursor)]
             placed  == ~practice /\ Places(begun, cursor) /\ cursor \in FreeSpots
             pointed == Pointed(begun, cursor)
  <2>2. /\ located.input \in Inputs /\ located.input.placed = i.placed
        /\ cursor # None => \E p \in DOMAIN held : cursor = held[p]
        /\ i.blocked /\ i.touch = NoTouch => cursor = None /\ located.input = i
    BY <1>4, LocatedInput
  <2>3. CASE cursor = None
    <3>1. input' = located.input /\ NothingSent
      BY <2>1, <2>3
    <3> QED
      BY <1>4, <2>2, <3>1
  <2>4. CASE cursor # None
    <3>1. input' = [pointed EXCEPT !.placed = pointed.placed \/ placed]
      BY <2>1, <2>4
    <3>2. IF placed THEN PredictCueBallPlacement(ScreenToCanonical(cursor)) ELSE NothingSent
      BY <2>1, <2>4
    <3>3. ClassifyPointerContact(cursor) \in {"Power", "Auxiliary", "Aim"}
      BY DEF ClassifyPointerContact
    <3>4. begun \in Inputs /\ begun.placed = i.placed
      BY <2>2, <3>3 DEF Inputs
    <3>5. placed \in BOOLEAN
      BY DEF Places, OnTable
    <3>6. placed => ~practice
      OBVIOUS
    <3>7. /\ cursor.x \in Int /\ cursor.y \in Int
          /\ AimSteps[cursor, "cue"] \in Aims /\ AimSteps[cursor, "middle"] \in Aims
      <4>1. PICK p \in DOMAIN held : cursor = held[p]
        BY <2>2, <2>4
      <4>2. p \in Touches \cup {Mouse} /\ cursor \in Spots[p]
        BY <4>1 DEF TypeOK, SocketTypes, PageTypes, InputTypes, Pointers
      <4> HIDE DEF cursor
      <4> QED
        BY <4>2, PointersAssumption
    <3> HIDE DEF placed
    <3>8. placed => PredictCueBallPlacement(ScreenToCanonical(cursor))
      BY <3>2
    <3> HIDE DEF begun, cursor
    <3>9. pointed \in Inputs /\ pointed.placed = i.placed
      BY <3>4, <3>7, PointedInput
    <3> HIDE DEF pointed
    <3>10. input' \in Inputs /\ input'.placed = (i.placed \/ placed)
      BY <3>1, <3>5, <3>9 DEF Inputs
    <3>11. placed => Sends
      BY <3>7, <3>8, PlacementIsOrder
    <3>12. ~placed => NothingSent
      BY <3>2
    <3> QED
      BY <1>4, <2>2, <2>4, <3>6, <3>10, <3>11, <3>12 DEF cursor
  <2> QED
    BY <2>3, <2>4
<1> QED
  BY <1>1, <1>2, <1>3, <1>4 DEF UpdateInput

-----------------------------------------------------------------------------
(* The socket.                                                             *)

LEMMA AfterMatch ==
  ASSUME NEW m \in Matches, NEW c, NEW differs \in BOOLEAN
  PROVE  /\ After(m, c, differs) \in Matches
         /\ Revision(m) \in Nat /\ Revision(After(m, c, differs)) = Revision(m) + 1
<1>1. m.game \in Games /\ Revision(m) \in Nat
  BY DEF Matches, Revision
<1>2. Apply(m.game, c) \in Games
  BY <1>1 DEF Apply, Games, Player, Opponent
<1>3. Revision(m) + 1 \in Nat
  BY <1>1
<1> QED
  BY <1>1, <1>2, <1>3 DEF After, Matches, Revision

(* What a client that knows of a match sends. *)
LEMMA SentFrame ==
  ASSUME SocketInv, NEW command \in Orders, NEW effect \in Commands, Send(command, effect),
         AcceptsGameplayCommands, ~HasPendingPrediction,
         UNCHANGED <<practice, seat, authoritative, authority, refused>>
  PROVE  /\ SocketInv'
         /\ \A frame \in inFlight' \ inFlight : frame.meant.command = command
<1> DEFINE envelope == [expected |-> Be(8, transport.known), id |-> CommandId, command |-> command]
           frame == [bytes |-> EnvelopeBytes(envelope), meant |-> envelope, effect |-> effect]
<1>1. transport.known \in Nat /\ authoritative \in Matches /\ predicted = authoritative
  BY DEF SocketInv, Known, PredictionIsGrounded, AcceptsGameplayCommands
<1>2. transport \in Transports /\ transport' = [transport EXCEPT !.pending = "command"]
  BY DEF SocketInv, SocketTypes, Send, Predict
<1>3. /\ transport' \in Transports /\ transport'.pending = "command" /\ transport'.known = transport.known
      /\ transport'.status = transport.status /\ transport'.negotiated = transport.negotiated
  BY <1>2 DEF Transports
<1>4. predicted' = After(predicted, effect, FALSE)
  BY DEF Send
<1>5. predicted' \in Matches
  BY <1>1, <1>4, AfterMatch
<1>6. envelope \in Envelopes
  <2>1. transport.known \in Int /\ 7 \in Int
    BY <1>1
  <2>2. Be(8, transport.known) \in Word(8) /\ CommandId \in Word(16)
    BY <2>1, BeType DEF CommandId
  <2> QED
    BY <2>2 DEF Envelopes
<1>7. inFlight' = inFlight \cup {frame}
  BY DEF Send
<1>8. Meant(frame) /\ frame.meant.command = command
  <2> HIDE DEF envelope
  <2>1. frame.meant = envelope /\ frame.bytes = EnvelopeBytes(envelope)
    OBVIOUS
  <2>2. envelope.command = command
    BY DEF envelope
  <2> QED
    BY <1>6, <2>1, <2>2 DEF Meant
<1> HIDE DEF frame
<1>9. \A f \in inFlight' : Meant(f)
  BY <1>7, <1>8 DEF SocketInv, SocketTypes
<1>10. SocketTypes'
  BY <1>3, <1>5, <1>9 DEF SocketInv, SocketTypes, Meant
<1>11. Known'
  BY <1>1, <1>3 DEF SocketInv, Known, Revision
<1>12. Practising'
  <2>1. ~practice
    BY DEF SocketInv, Practising, AcceptsGameplayCommands, NewClient
  <2> QED
    BY <2>1 DEF Practising
<1>13. PredictionIsGrounded'
  BY <1>1, <1>3, <1>4, NothingAssumption DEF PredictionIsGrounded, HasPendingPrediction, After, Revision
<1> QED
  BY <1>7, <1>8, <1>10, <1>11, <1>12, <1>13 DEF SocketInv

LEMMA SocketStays ==
  ASSUME SocketInv, UNCHANGED <<practice, socketVars>>
  PROVE  SocketInv'
BY DEF SocketInv, SocketTypes, Practising, Known, PredictionIsGrounded, HasPendingPrediction, After, Revision,
       Meant, socketVars

(* The server accepts a frame, or moves on without one. *)
LEMMA ServerStep ==
  ASSUME SocketInv, NEW m \in Matches, Revision(authority) <= Revision(m), authority' = m, ~practice,
         inFlight' \subseteq inFlight, UNCHANGED <<practice, seat, transport, authoritative, predicted, refused>>
  PROVE  SocketInv'
<1>1. SocketTypes'
  BY DEF SocketInv, SocketTypes, Meant
<1>2. Practising'
  BY DEF SocketInv, Practising
<1>3. Known'
  <2>1. CASE transport.known = None /\ authoritative = None
    BY <2>1 DEF SocketInv, Known
  <2>2. CASE /\ transport.known \in Nat /\ authoritative \in Matches /\ authority \in Matches
             /\ transport.known = Revision(authoritative) /\ transport.known <= Revision(authority)
    <3>1. Revision(authority) \in Nat /\ Revision(m) \in Nat
      BY <2>2, AfterMatch
    <3>2. transport.known <= Revision(m)
      BY <2>2, <3>1
    <3> QED
      BY <2>2, <3>2 DEF SocketInv, Known, Revision
  <2> QED
    BY <2>1, <2>2 DEF SocketInv, Known
<1>4. PredictionIsGrounded'
  BY DEF SocketInv, PredictionIsGrounded, HasPendingPrediction, After, Revision
<1> QED
  BY <1>1, <1>2, <1>3, <1>4 DEF SocketInv

LEMMA ServerAcceptsKeeps ==
  ASSUME SocketInv, ServerAccepts
  PROVE  SocketInv'
<1>1. ~practice /\ authority \in Matches
  BY DEF SocketInv, SocketTypes, Practising, ServerAccepts
<1>2. PICK effect, differs : differs \in BOOLEAN /\ authority' = After(authority, effect, differs)
  <2>1. PICK frame \in inFlight :
          LET envelope == EnvelopeFrom(frame.bytes) IN
            \/ authority' = After(authority, frame.effect, FALSE)
            \/ \E effect \in EffectsOf(envelope.command) : authority' = After(authority, effect, TRUE)
    BY Zenon DEF ServerAccepts
  <2>2. FALSE \in BOOLEAN /\ TRUE \in BOOLEAN
    OBVIOUS
  <2> QED
    BY <2>1, <2>2, Zenon
<1> DEFINE m == After(authority, effect, differs)
<1>3. m \in Matches /\ Revision(authority) <= Revision(m)
  BY <1>1, <1>2, AfterMatch
<1>4. /\ inFlight' \subseteq inFlight
      /\ UNCHANGED <<practice, seat, transport, authoritative, predicted, refused>>
  BY DEF ServerAccepts
<1>5. authority' = m
  BY <1>2
<1> HIDE DEF m
<1> QED
  BY <1>1, <1>3, <1>4, <1>5, ServerStep

LEMMA ServerMovesKeeps ==
  ASSUME SocketInv, ServerMoves
  PROVE  SocketInv'
<1>1. ~practice /\ authority \in Matches
  BY DEF SocketInv, SocketTypes, ServerMoves
<1>2. PICK effect, differs : differs \in BOOLEAN /\ authority' = After(authority, effect, differs)
  <2>1. \E effect : authority' = After(authority, effect, FALSE)
    BY Zenon DEF ServerMoves
  <2>2. FALSE \in BOOLEAN
    OBVIOUS
  <2> QED
    BY <2>1, <2>2, Zenon
<1> DEFINE m == After(authority, effect, differs)
<1>3. m \in Matches /\ Revision(authority) <= Revision(m)
  BY <1>1, <1>2, AfterMatch
<1>4. /\ inFlight' \subseteq inFlight
      /\ UNCHANGED <<practice, seat, transport, authoritative, predicted, refused>>
  BY DEF ServerMoves
<1>5. authority' = m
  BY <1>2
<1> HIDE DEF m
<1> QED
  BY <1>1, <1>3, <1>4, <1>5, ServerStep

LEMMA ServerRefusesKeeps ==
  ASSUME SocketInv, ServerRefuses
  PROVE  SocketInv'
<1>1. /\ ~practice /\ inFlight' \subseteq inFlight /\ refused' = TRUE
      /\ UNCHANGED <<practice, seat, transport, authoritative, predicted, authority>>
  BY DEF SocketInv, Practising, ServerRefuses
<1> QED
  BY <1>1 DEF SocketInv, SocketTypes, Practising, Known, PredictionIsGrounded, HasPendingPrediction, After,
              Revision, Meant

(* A prediction is abandoned. *)
LEMMA AbandonedKeeps ==
  ASSUME SocketInv, NEW t \in Transports, Abandoned(t), ~practice, t.pending = None, t.known = transport.known,
         t.negotiated => t.status \in {"Negotiating", "Ready"},
         inFlight' \subseteq inFlight, refused' = FALSE, UNCHANGED <<practice, seat, authoritative, authority>>
  PROVE  SocketInv'
<1>1. transport' = t /\ predicted' = authoritative
  BY DEF Abandoned
<1>2. SocketTypes'
  BY <1>1 DEF SocketInv, SocketTypes, Meant
<1>3. Practising' /\ Known'
  BY <1>1 DEF SocketInv, Practising, Known, Revision
<1>4. PredictionIsGrounded'
  BY <1>1 DEF PredictionIsGrounded, HasPendingPrediction
<1> QED
  BY <1>2, <1>3, <1>4 DEF SocketInv

LEMMA DisconnectedClient ==
  ASSUME NEW t \in Transports
  PROVE  /\ Disconnected(t) \in Transports /\ Disconnected(t).pending = None
         /\ Disconnected(t).known = t.known /\ ~Disconnected(t).negotiated
BY DEF Disconnected, Transports, Statuses

LEMMA RejectionArrivesKeeps ==
  ASSUME SocketInv, RejectionArrives
  PROVE  SocketInv'
<1> DEFINE t == ReceiveText(transport, "rejected")
<1>1. transport \in Transports /\ ~practice
  BY DEF SocketInv, SocketTypes, Practising, RejectionArrives
<1>2. /\ t \in Transports /\ t.pending = None /\ t.known = transport.known
      /\ t.negotiated => t.status \in {"Negotiating", "Ready"}
  <2>1. CASE transport.status # "Ready"
    <3>1. t = Disconnected(transport)
      BY <2>1 DEF ReceiveText, Negotiated
    <3> HIDE DEF t
    <3> QED
      BY <1>1, <3>1, DisconnectedClient
  <2>2. CASE transport.status = "Ready"
    <3>1. t = [transport EXCEPT !.pending = None, !.rejected = TRUE]
      BY <2>2 DEF ReceiveText, CommandRejected
    <3> HIDE DEF t
    <3> QED
      BY <1>1, <2>2, <3>1 DEF Transports
  <2> QED
    BY <2>1, <2>2
<1>3. /\ Abandoned(t) /\ inFlight' \subseteq inFlight /\ refused' = FALSE
      /\ UNCHANGED <<practice, seat, authoritative, authority>>
  BY DEF RejectionArrives, Rejected
<1> HIDE DEF t
<1> QED
  BY <1>1, <1>2, <1>3, AbandonedKeeps

LEMMA DisconnectKeeps ==
  ASSUME SocketInv, Disconnect
  PROVE  SocketInv'
<1>1. transport \in Transports /\ ~practice
  BY DEF SocketInv, SocketTypes, Practising, Disconnect, NewClient
<1>2. /\ Abandoned(Disconnected(transport)) /\ inFlight' \subseteq inFlight /\ refused' = FALSE
      /\ UNCHANGED <<practice, seat, authoritative, authority>>
  BY DEF Disconnect
<1> DEFINE t == Disconnected(transport)
<1>3. t \in Transports /\ t.pending = None /\ t.known = transport.known /\ ~t.negotiated
  BY <1>1, DisconnectedClient
<1>4. Abandoned(t)
  BY <1>2
<1> HIDE DEF t
<1> QED
  BY <1>1, <1>2, <1>3, <1>4, AbandonedKeeps

LEMMA ConnectKeeps ==
  ASSUME SocketInv, Connect
  PROVE  SocketInv'
<1> DEFINE t == Opened(Connecting(transport))
<1>1. transport \in Transports
  BY DEF SocketInv, SocketTypes
<1>2. t \in Transports /\ t.status = "Negotiating" /\ t.pending = transport.pending /\ t.known = transport.known
  BY <1>1 DEF Opened, Connecting, Transports, Statuses
<1>3. transport' = ReceiveText(t, "version")
  BY DEF Connect
<1> HIDE DEF t
<1>4. transport' = [t EXCEPT !.negotiated = TRUE]
  BY <1>2, <1>3 DEF ReceiveText, Negotiated
<1>5. /\ transport' \in Transports /\ transport'.status = "Negotiating"
      /\ transport'.pending = transport.pending /\ transport'.known = transport.known
  BY <1>2, <1>4 DEF Transports
<1>6. ~practice /\ refused' = FALSE /\ UNCHANGED <<practice, seat, authoritative, predicted, authority, inFlight>>
  BY DEF Connect
<1> QED
  BY <1>5, <1>6 DEF SocketInv, SocketTypes, Practising, Known, PredictionIsGrounded, HasPendingPrediction, After,
                    Revision, Meant

LEMMA SetLocalPlayerKeeps ==
  ASSUME SocketInv, SetLocalPlayer
  PROVE  SocketInv'
BY DEF SetLocalPlayer, SocketInv, SocketTypes, Practising, Known, PredictionIsGrounded, HasPendingPrediction, After,
       Revision, Meant

LEMMA SendConcessionKeeps ==
  ASSUME SocketInv, SendConcession
  PROVE  /\ SocketInv'
         /\ \A frame \in inFlight' \ inFlight : frame.meant.command.kind # "place"
<1>1. seat = "One"
  BY DEF SocketInv, SocketTypes, SendConcession
<1>2. PICK command \in Resignations, effect \in Commands : Send(command, effect)
  BY <1>1, ConcessionIsOrder DEF SendConcession
<1>3. command \in Orders /\ command.kind = "concede"
  BY DEF Orders, Resignations
<1>4. /\ AcceptsGameplayCommands /\ ~HasPendingPrediction
      /\ UNCHANGED <<practice, seat, authoritative, authority, refused>>
  BY DEF SendConcession
<1> QED
  BY <1>2, <1>3, <1>4, SentFrame

LEMMA SnapshotArrivesKeeps ==
  ASSUME SocketInv, SnapshotArrives
  PROVE  SocketInv'
<1> DEFINE r == Revision(authority)
           t == ReceiveSnapshot(transport, r)
<1>1. /\ transport \in Transports /\ transport.negotiated /\ transport.status \in {"Negotiating", "Ready"}
  BY DEF SocketInv, SocketTypes, Known, SnapshotArrives
<1>2. ~practice /\ authority \in Matches
  BY DEF SocketInv, SocketTypes, Practising, NewClient, SnapshotArrives
<1>3. r \in Nat
  BY <1>2, AfterMatch
<1>4. /\ IF t.known # transport.known
         THEN transport' = t /\ authoritative' = authority /\ predicted' = authority
         ELSE transport' = t /\ UNCHANGED <<authoritative, predicted>>
      /\ UNCHANGED <<practice, seat, authority, inFlight, refused>>
  BY DEF SnapshotArrives
<1>5. transport.known # None => transport.known \in Nat /\ transport.known <= r
  BY DEF SocketInv, Known
<1>6. \/ t = transport
      \/ t = [transport EXCEPT !.status = "Ready"]
      \/ t = [transport EXCEPT !.known = r, !.pending = None, !.status = "Ready"] /\ transport.known # r
  <2>1. CASE HasRevision(transport, r)
    BY <1>1, <2>1 DEF ReceiveSnapshot
  <2>2. CASE ~HasRevision(transport, r) /\ transport.known = None
    BY <1>1, <1>3, <2>2, NothingAssumption DEF ReceiveSnapshot, FromSnapshot
  <2>3. CASE ~HasRevision(transport, r) /\ transport.known # None
    <3>1. ~IsStale(transport, r)
      BY <1>3, <1>5, <2>3 DEF IsStale
    <3>2. Advances(transport, r) => transport.known # r
      BY <1>3, <1>5, <2>3 DEF Advances
    <3> QED
      BY <1>1, <2>3, <3>1, <3>2 DEF ReceiveSnapshot, Advanced
  <2> QED
    BY <2>1, <2>2, <2>3
<1> HIDE DEF t
<1>7. CASE t = transport \/ t = [transport EXCEPT !.status = "Ready"]
  <2>1. t \in Transports /\ t.known = transport.known /\ t.pending = transport.pending
        /\ t.status \in {"Negotiating", "Ready"}
    BY <1>1, <1>7 DEF Transports, Statuses
  <2>2. transport' = t /\ UNCHANGED <<authoritative, predicted, practice, seat, authority, inFlight, refused>>
    BY <1>4, <2>1
  <2> QED
    BY <1>2, <2>1, <2>2 DEF SocketInv, SocketTypes, Practising, Known, PredictionIsGrounded, HasPendingPrediction,
                            After, Revision, Meant
<1>8. CASE t = [transport EXCEPT !.known = r, !.pending = None, !.status = "Ready"] /\ transport.known # r
  <2>1. t \in Transports /\ t.known = r /\ t.pending = None /\ t.status = "Ready" /\ r # transport.known
    BY <1>1, <1>3, <1>8 DEF Transports, Statuses
  <2>2. transport' = t /\ authoritative' = authority /\ predicted' = authority
    BY <1>4, <2>1
  <2>3. SocketTypes'
    BY <1>2, <1>4, <2>1, <2>2 DEF SocketInv, SocketTypes, Meant
  <2>4. Known'
    BY <1>2, <1>3, <1>4, <2>1, <2>2 DEF Known, Revision
  <2>5. PredictionIsGrounded' /\ Practising'
    BY <1>2, <1>4, <2>1, <2>2 DEF PredictionIsGrounded, HasPendingPrediction, Practising
  <2> QED
    BY <2>3, <2>4, <2>5 DEF SocketInv
<1> QED
  BY <1>6, <1>7, <1>8

-----------------------------------------------------------------------------
(* Pointers and the window.                                                *)

LEMMA PageKeeps ==
  ASSUME PageTypes, Press \/ Drag \/ Lift \/ ChangeWindow
  PROVE  PageTypes'
<1>1. CASE Press
  <2>1. PICK p \in Pointers \ DOMAIN held : \E s \in Spots[p] :
          held' = [q \in DOMAIN held \cup {p} |-> IF q = p THEN s ELSE held[q]]
    BY <1>1 DEF Press
  <2> QED
    BY <1>1, <2>1 DEF PageTypes, Press
<1>2. CASE Drag
  <2>1. PICK p \in DOMAIN held : \E s \in Spots[p] : held' = [held EXCEPT ![p] = s]
    BY <1>2 DEF Drag
  <2> QED
    BY <1>2, <2>1 DEF PageTypes, Drag
<1>3. CASE Lift
  <2>1. PICK p \in DOMAIN held : held' = Restrict(held, DOMAIN held \ {p})
    BY <1>3 DEF Lift
  <2> QED
    BY <1>3, <2>1 DEF PageTypes, Lift, Restrict
<1>4. CASE ChangeWindow
  BY <1>4 DEF PageTypes, ChangeWindow
<1> QED
  BY <1>1, <1>2, <1>3, <1>4

LEMMA PageStays ==
  ASSUME PageTypes, UNCHANGED <<held, window, unfocused>>
  PROVE  PageTypes'
BY DEF PageTypes

LEMMA InputStays ==
  ASSUME InputInv, UNCHANGED <<input, wasPressed, contact>>
  PROVE  InputInv'
BY DEF InputInv, InputTypes, ContactsAreRemembered

-----------------------------------------------------------------------------
(* A frame.                                                                *)

LEMMA FrameKeeps ==
  ASSUME IInv, Frame
  PROVE  /\ SocketInv' /\ PageTypes' /\ InputInv'
         /\ contact.placed /\ wasPressed /\ ~wasPressed' => NothingSent
         /\ contact'.cancelled =>
              /\ NothingSent
              /\ input'.aim = input.aim /\ input'.power = input.power /\ input'.pocket = input.pocket
<1>1. TypeOK /\ SocketInv /\ PageTypes /\ InputTypes /\ ContactsAreRemembered /\ Practising
  BY DEF IInv, SocketInv, InputInv, TypeOK
<1>2. PICK s : UpdateInput(Prepared, s)
  BY DEF Frame
<1>3. PICK i : i = Prepared
  OBVIOUS
<1>4. /\ i \in Inputs
      /\ i.aim = input.aim /\ i.power = input.power /\ i.pocket = input.pocket /\ i.placed = input.placed
      /\ AnyPressed /\ (unfocused \/ window = "portrait" \/ (input.blocked /\ input.touch = NoTouch))
           => i.blocked /\ i.touch = NoTouch
  BY <1>1, <1>3, PreparedInput
<1>5. UpdateInput(i, s)
  BY <1>2, <1>3
<1>6. /\ input' \in Inputs
      /\ NothingSent \/ (AcceptsActivePlayerCommand /\ Sends)
      /\ ~AnyPressed /\ i.placed => NothingSent
      /\ AnyPressed /\ (i.placed \/ ~NothingSent) => input'.placed
      /\ AnyPressed /\ i.blocked /\ i.touch = NoTouch =>
           /\ NothingSent /\ input'.blocked /\ input'.touch = NoTouch
           /\ input'.aim = i.aim /\ input'.power = i.power /\ input'.pocket = i.pocket
  BY <1>1, <1>4, <1>5, FrameOutcome
<1>7. /\ UNCHANGED <<practice, seat, authoritative, authority, refused, held, window>>
      /\ wasPressed' = AnyPressed /\ unfocused' = FALSE
      /\ contact' = IF ~AnyPressed THEN NoContact
                    ELSE [ placed    |-> contact.placed \/ PlacedNow,
                           cancelled |-> contact.cancelled \/ unfocused \/ window = "portrait" ]
  BY DEF Frame
<1>8. contact \in [placed : BOOLEAN, cancelled : BOOLEAN] /\ unfocused \in BOOLEAN
  BY <1>1 DEF PageTypes, InputTypes
<1>9. SocketInv'
  <2>1. CASE NothingSent
    BY <1>1, <1>7, <2>1, SocketStays DEF NothingSent, socketVars
  <2>2. CASE AcceptsActivePlayerCommand /\ Sends
    <3>1. PICK command \in Orders, effect \in Commands : Send(command, effect)
      BY <2>2 DEF Sends
    <3>2. AcceptsGameplayCommands /\ ~HasPendingPrediction
      BY <2>2 DEF AcceptsActivePlayerCommand
    <3> QED
      BY <1>1, <1>7, <3>1, <3>2, SentFrame
  <2> QED
    BY <1>6, <2>1, <2>2
<1>10. PageTypes'
  BY <1>1, <1>7 DEF PageTypes
<1>11. PlacedNow => ~NothingSent
  BY DEF PlacedNow, NothingSent
<1>12. PlacedNow \in BOOLEAN /\ AnyPressed \in BOOLEAN
  BY DEF PlacedNow, AnyPressed
<1>13. contact' \in [placed : BOOLEAN, cancelled : BOOLEAN]
  BY <1>7, <1>8, <1>12 DEF NoContact
<1>14. contact'.placed => AnyPressed /\ (contact.placed \/ PlacedNow)
  BY <1>7, <1>8, <1>12 DEF NoContact
<1>15. contact'.cancelled => AnyPressed /\ (contact.cancelled \/ unfocused \/ window = "portrait")
  BY <1>7, <1>8, <1>12 DEF NoContact
<1>16. contact'.placed => input'.placed
  BY <1>1, <1>4, <1>6, <1>11, <1>14 DEF ContactsAreRemembered
<1>17. contact'.cancelled =>
         /\ NothingSent /\ input'.blocked /\ input'.touch = NoTouch
         /\ input'.aim = input.aim /\ input'.power = input.power /\ input'.pocket = input.pocket
  BY <1>1, <1>4, <1>6, <1>15 DEF ContactsAreRemembered
<1>18. InputInv'
  BY <1>6, <1>7, <1>12, <1>13, <1>16, <1>17 DEF InputInv, InputTypes, ContactsAreRemembered
<1>19. contact.placed /\ wasPressed /\ ~wasPressed' => NothingSent
  BY <1>1, <1>4, <1>6, <1>7 DEF ContactsAreRemembered
<1> QED
  BY <1>9, <1>10, <1>17, <1>18, <1>19

-----------------------------------------------------------------------------
LEMMA Initially ==
  Init => IInv
<1> SUFFICES ASSUME Init
             PROVE  IInv
  OBVIOUS
<1>1. transport = NewClient /\ transport \in Transports
  BY DEF Init, NewClient, Transports, Statuses
<1>2. ~practice => authority \in Matches
  <2>1. ASSUME NEW m \in NewMatches
        PROVE  m \in Matches
    <3>1. PICK g \in JoinedGames : m = [game |-> g, table |-> <<0, FALSE>>]
      BY DEF NewMatches
    <3>2. g \in Games
      BY JoinedGamesAssumption
    <3>3. <<0, FALSE>> \in Nat \X BOOLEAN
      OBVIOUS
    <3> QED
      BY <3>1, <3>2, <3>3 DEF Matches
  <2> QED
    BY <2>1 DEF Init
<1>3. SocketTypes
  BY <1>1, <1>2 DEF Init, SocketTypes
<1>4. Practising /\ Known /\ PredictionIsGrounded
  <2>1. transport.known = None /\ transport.pending = None /\ transport.negotiated = FALSE
    BY <1>1 DEF NewClient
  <2>2. Practising
    BY DEF Init, Practising
  <2>3. Known
    BY <2>1 DEF Init, Known
  <2>4. PredictionIsGrounded
    BY <2>1 DEF Init, PredictionIsGrounded, HasPendingPrediction
  <2> QED
    BY <2>2, <2>3, <2>4
<1>5. PageTypes
  <2>1. DOMAIN held = {}
    BY DEF Init
  <2> QED
    BY <2>1 DEF Init, PageTypes, Windows
<1>6. InputInv
  BY FirstInput DEF Init, InputInv, InputTypes, ContactsAreRemembered, NoContact
<1> QED
  BY <1>3, <1>4, <1>5, <1>6 DEF IInv, SocketInv

LEMMA Step ==
  IInv /\ [Next]_vars => IInv'
<1> SUFFICES ASSUME IInv, [Next]_vars
             PROVE  IInv'
  OBVIOUS
<1>1. SocketInv /\ PageTypes /\ InputInv
  BY DEF IInv
<1>2. CASE ServerAccepts
  BY <1>1, <1>2, ServerAcceptsKeeps, PageStays, InputStays DEF ServerAccepts, pageVars, frameVars, IInv
<1>3. CASE ServerRefuses
  BY <1>1, <1>3, ServerRefusesKeeps, PageStays, InputStays DEF ServerRefuses, pageVars, frameVars, IInv
<1>4. CASE ServerMoves
  BY <1>1, <1>4, ServerMovesKeeps, PageStays, InputStays DEF ServerMoves, pageVars, frameVars, IInv
<1>5. CASE SnapshotArrives
  BY <1>1, <1>5, SnapshotArrivesKeeps, PageStays, InputStays DEF SnapshotArrives, pageVars, frameVars, IInv
<1>6. CASE RejectionArrives
  BY <1>1, <1>6, RejectionArrivesKeeps, PageStays, InputStays DEF RejectionArrives, pageVars, frameVars, IInv
<1>7. CASE Connect
  BY <1>1, <1>7, ConnectKeeps, PageStays, InputStays DEF Connect, pageVars, frameVars, IInv
<1>8. CASE Disconnect
  BY <1>1, <1>8, DisconnectKeeps, PageStays, InputStays DEF Disconnect, frameVars, IInv
<1>9. CASE SetLocalPlayer
  BY <1>1, <1>9, SetLocalPlayerKeeps, PageStays, InputStays DEF SetLocalPlayer, pageVars, frameVars, IInv
<1>10. CASE SendConcession
  BY <1>1, <1>10, SendConcessionKeeps, PageStays, InputStays DEF SendConcession, pageVars, frameVars, IInv
<1>11. CASE Press \/ Drag \/ Lift \/ ChangeWindow
  <2>1. UNCHANGED <<practice, socketVars>> /\ UNCHANGED frameVars
    BY <1>11 DEF Press, Drag, Lift, ChangeWindow
  <2> QED
    BY <1>1, <1>11, <2>1, PageKeeps, SocketStays, InputStays DEF frameVars, IInv
<1>12. CASE Frame
  BY <1>12, FrameKeeps DEF IInv
<1>13. CASE UNCHANGED vars
  BY <1>1, <1>13, SocketStays, PageStays, InputStays DEF vars, pageVars, frameVars, IInv
<1> QED
  BY <1>2, <1>3, <1>4, <1>5, <1>6, <1>7, <1>8, <1>9, <1>10, <1>11, <1>12, <1>13 DEF Next

(* What the browser client keeps.                                          *)
THEOREM ClientInvariant ==
  Spec => []IInv
BY Initially, Step, PTL DEF Spec

(* Every frame that is on its way is read by the server as the command     *)
(* that the browser has predicted.                                         *)
THEOREM FramesUnderstood ==
  Spec => []FramesAreUnderstood
<1>1. IInv => FramesAreUnderstood
  BY EnvelopesRoundTrip DEF IInv, SocketInv, SocketTypes, Meant, FramesAreUnderstood
<1> QED
  BY <1>1, ClientInvariant, PTL

(* What is shown is the authoritative match, or one command further.       *)
THEOREM PredictionGrounded ==
  Spec => []PredictionIsGrounded
<1>1. IInv => PredictionIsGrounded
  BY DEF IInv, SocketInv
<1> QED
  BY <1>1, ClientInvariant, PTL

(* A contact that has placed the cue ball does not shoot it when it ends.  *)
THEOREM PlacingNeverShoots ==
  Spec => PlacingIsNotShooting
<1>1. IInv /\ [Next]_vars =>
        [contact.placed /\ wasPressed /\ ~wasPressed' => transport'.pending = transport.pending]_vars
  <2> SUFFICES ASSUME IInv, Next, contact.placed, wasPressed, ~wasPressed'
               PROVE  transport'.pending = transport.pending
    OBVIOUS
  <2>1. Frame
    BY DEF Next, ServerAccepts, ServerRefuses, ServerMoves, SnapshotArrives, RejectionArrives, Connect, Disconnect,
           SetLocalPlayer, SendConcession, Press, Drag, Lift, ChangeWindow, frameVars
  <2>2. NothingSent
    BY <2>1, FrameKeeps
  <2> QED
    BY <2>2 DEF NothingSent
<1> QED
  BY <1>1, ClientInvariant, PTL DEF Spec, PlacingIsNotShooting

(* A cancelled contact does nothing until everything is lifted.            *)
THEOREM CancelledContactsDoNothing ==
  Spec => CancelledContactsAreInert
<1> DEFINE Inert == contact'.cancelled =>
                      /\ <<input.aim, input.power, input.pocket>>' = <<input.aim, input.power, input.pocket>>
                      /\ \A frame \in inFlight' \ inFlight : frame.meant.command.kind # "place"
<1>1. IInv /\ [Next]_vars => [Inert]_vars
  <2> SUFFICES ASSUME IInv, Next, contact'.cancelled
               PROVE  /\ <<input.aim, input.power, input.pocket>>' = <<input.aim, input.power, input.pocket>>
                      /\ \A frame \in inFlight' \ inFlight : frame.meant.command.kind # "place"
    OBVIOUS
  <2>1. CASE Frame
    <3>1. NothingSent /\ input'.aim = input.aim /\ input'.power = input.power /\ input'.pocket = input.pocket
      BY <2>1, FrameKeeps
    <3> QED
      BY <3>1 DEF NothingSent
  <2>2. CASE SendConcession
    <3>1. SocketInv
      BY DEF IInv
    <3>2. \A frame \in inFlight' \ inFlight : frame.meant.command.kind # "place"
      BY <2>2, <3>1, SendConcessionKeeps
    <3> QED
      BY <2>2, <3>2 DEF SendConcession, frameVars
  <2>3. CASE ~Frame /\ ~SendConcession
    <3>1. input' = input /\ inFlight' \subseteq inFlight
      BY <2>3 DEF Next, ServerAccepts, ServerRefuses, ServerMoves, SnapshotArrives, RejectionArrives, Connect,
                  Disconnect, SetLocalPlayer, Press, Drag, Lift, ChangeWindow, frameVars, socketVars
    <3> QED
      BY <3>1
  <2> QED
    BY <2>1, <2>2, <2>3
<1> QED
  BY <1>1, ClientInvariant, PTL DEF Spec, CancelledContactsAreInert
=============================================================================
