----------------------------- MODULE PlayerInput ------------------------------
(***************************************************************************)
(* The Bevy client of one player: what he does with the mouse and his      *)
(* fingers, the chain of systems that runs once a frame (main.rs), the     *)
(* prediction of the commands it sends (transport.rs, prediction.rs,       *)
(* browser_transport.rs) and the practice table (sandbox.rs).              *)
(*                                                                         *)
(* Pointers, the window and the socket change between frames; a frame is   *)
(* one step.  The match is what TurnGame knows of it and a table, which is *)
(* the number of commands it took and whether the server's simulation of   *)
(* the last one differed from the client's.  Aim is the spot the cue was   *)
(* turned to, and from where; the steps it is quantized to, the spin that  *)
(* the page has set and the spots where the cue ball fits are constants.   *)
(***************************************************************************)
EXTENDS BrowserTransport, TurnRules, WireProtocol, Pointer, Functions

CONSTANTS
  Touches, Mouse, NoTouch, (* fingers                                      *)
  Spots,                   (* where each pointer may be                    *)
  FreeSpots,               (* where the cue ball fits                      *)
  AimSteps,                (* the quantized aim from the cue ball or from  *)
                           (* the middle to each spot                      *)
  Spin,
  JoinedGames,             (* the turns in which the match is joined       *)
  PracticeBalls, CueBall,
  MaxRevision,
  MaxFaults                (* lost connections, lost focus, upright windows *)

ASSUME NothingAssumption == None \notin Nat \cup {"command"}

ASSUME PointersAssumption ==
  /\ NoTouch \notin Touches \cup {Mouse}
  /\ \A p \in Touches \cup {Mouse} : \A s \in Spots[p] :
       s.x \in Int /\ s.y \in Int /\ AimSteps[s, "cue"] \in Aims /\ AimSteps[s, "middle"] \in Aims

ASSUME SpinAssumption ==
  Spin.side \in Int /\ Spin.vertical \in Int /\ SpinIsOnBall(Spin.side, Spin.vertical)

ASSUME JoinedGamesAssumption == JoinedGames \subseteq Games

VARIABLES
  practice,        (* Sandbox::enabled: the page is not that of a match    *)
  seat,            (* BrowserTransport::local_player                       *)
  transport, authoritative, predicted,
  authority,       (* the server's match                                   *)
  inFlight,        (* the frames that are on their way to it               *)
  refused,         (* "rejected" is on its way back                        *)
  held,            (* the pointers that are down, and where                *)
  window,
  unfocused,       (* WindowFocused events since the last frame            *)
  input,           (* PrototypeInput                                       *)
  wasPressed,
  sandbox,
  shown,           (* CanonicalPresentation                                *)
  controls,        (* the cue, guide and power are visible                 *)
  contact,         (* of the current contact: what was done in it          *)
  faults           (* so far, at most MaxFaults                            *)

socketVars == <<seat, transport, authoritative, predicted, authority, inFlight, refused>>
pageVars   == <<held, window, unfocused, faults>>
frameVars  == <<input, wasPressed, sandbox, shown, controls, contact>>
vars       == <<practice, socketVars, pageVars, frameVars>>

-----------------------------------------------------------------------------
(* A match that is joined while it goes on. *)
NewMatches == {[game |-> g, table |-> <<0, FALSE>>] : g \in JoinedGames}

Revision(m) == m.table[1]

After(m, c, differs) == [game |-> Apply(m.game, c), table |-> <<Revision(m) + 1, differs>>]

AcceptsGameplayCommands ==
  transport.status = "Ready" /\ authoritative # None /\ ~authoritative.game.over

HasPendingPrediction == transport.pending # None

AcceptsActivePlayerCommand ==
  /\ AcceptsGameplayCommands /\ ~HasPendingPrediction
  /\ seat # None /\ authoritative.game.active = seat

(* What an accepted frame does to the turn. *)
EffectsOf(command) ==
  CASE command.kind = "shot"  -> ShotCommands
    [] command.kind = "place" -> {"place"}
    [] OTHER                  -> {ConcessionOf[command.player]}

CommandId == Be(16, 7)

(* predict_command and send_predicted_frame: the command is applied to the *)
(* predicted match and its frame leaves at once.                           *)
Send(command, effect) ==
  LET envelope == [expected |-> Be(8, transport.known), id |-> CommandId, command |-> command] IN
    /\ transport' = Predict(transport, "command")
    /\ predicted' = After(predicted, effect, FALSE)
    /\ inFlight' = inFlight \cup {[bytes |-> EnvelopeBytes(envelope), meant |-> envelope, effect |-> effect]}

NothingSent == UNCHANGED <<transport, predicted, inFlight>>

PredictShot(shot, calledPocket, effect) ==
  Send([ kind |-> "shot", aim |-> shot.aim, power |-> shot.power, side |-> shot.side,
         vertical |-> shot.vertical, pocket |-> calledPocket ], effect)

PredictCueBallPlacement(position) ==
  Send([kind |-> "place", x |-> Be(8, position.x), y |-> Be(8, position.y)], "place")

PredictConcession(player) == Send([kind |-> "concede", player |-> player], ConcessionOf[player])

-----------------------------------------------------------------------------
(* The server and the socket.                                              *)

Expects(envelope) == envelope.expected = Be(8, Revision(authority))

(* apply_transport_command accepts a frame: its simulation of the command  *)
(* may differ from the client's.                                           *)
ServerAccepts ==
  \E frame \in inFlight :
    LET envelope == EnvelopeFrom(frame.bytes) IN
      /\ envelope # Refused /\ Expects(envelope) /\ ~authority.game.over
      /\ Revision(authority) < MaxRevision
      /\ \/ authority' = After(authority, frame.effect, FALSE)
         \/ \E effect \in EffectsOf(envelope.command) : authority' = After(authority, effect, TRUE)
      /\ inFlight' = inFlight \ {frame}
      /\ UNCHANGED <<practice, seat, transport, authoritative, predicted, refused, pageVars, frameVars>>

ServerRefuses ==
  \E frame \in inFlight :
    LET envelope == EnvelopeFrom(frame.bytes) IN
      /\ envelope = Refused \/ ~Expects(envelope) \/ authority.game.over
      /\ inFlight' = inFlight \ {frame}
      /\ refused' = TRUE
      /\ UNCHANGED <<practice, seat, transport, authoritative, predicted, authority, pageVars, frameVars>>

(* The opponent's commands and the timeouts of either player. *)
ServerMoves ==
  /\ ~practice /\ ~authority.game.over /\ Revision(authority) < MaxRevision
  /\ \E c \in {"timeout"} \cup IF authority.game.active = "Two" THEN {"keep", "pass", "foul"} ELSE {} :
       authority' = After(authority, c, FALSE)
  /\ UNCHANGED <<practice, seat, transport, authoritative, predicted, inFlight, refused, pageVars, frameVars>>

(* Lifecycle losses abandon the prediction. *)
Abandoned(t) == predicted' = authoritative /\ transport' = t

(* reconcile, or from_snapshot if it is the first one. *)
SnapshotArrives ==
  /\ transport.negotiated
  /\ LET t == ReceiveSnapshot(transport, Revision(authority)) IN
       IF t.known # transport.known
       THEN transport' = t /\ authoritative' = authority /\ predicted' = authority
       ELSE transport' = t /\ UNCHANGED <<authoritative, predicted>>
  /\ UNCHANGED <<practice, seat, authority, inFlight, refused, pageVars, frameVars>>

Rejected_KeepTable ==
  /\ transport' = ReceiveText(transport, "rejected")
  /\ UNCHANGED predicted

Rejected == Abandoned(ReceiveText(transport, "rejected"))

RejectionArrives ==
  /\ refused /\ refused' = FALSE
  /\ Rejected
  /\ UNCHANGED <<practice, seat, authoritative, authority, inFlight, pageVars, frameVars>>

(* connect and the negotiation, which MatchDelivery takes apart. *)
Connect ==
  /\ ~practice /\ transport.status \in {"Disconnected", "Backoff"}
  /\ NegotiateVersion(<<ProtocolVersion>>, <<ProtocolVersion>>) = ProtocolVersion
  /\ transport' = ReceiveText(Opened(Connecting(transport)), "version")
  /\ refused' = FALSE
  /\ UNCHANGED <<practice, seat, authoritative, predicted, authority, inFlight, pageVars, frameVars>>

(* What the server has not taken by now is lost. *)
Disconnect ==
  /\ transport.status \notin {"Disconnected", "Backoff"} /\ faults < MaxFaults
  /\ faults' = faults + 1
  /\ Abandoned(Disconnected(transport))
  /\ refused' = FALSE
  /\ inFlight' = {}
  /\ UNCHANGED <<practice, seat, authoritative, authority, held, window, unfocused, frameVars>>

SetLocalPlayer ==
  /\ ~practice /\ seat = None /\ seat' = "One"
  /\ UNCHANGED <<practice, transport, authoritative, predicted, authority, inFlight, refused, pageVars, frameVars>>

(* The page's button. *)
SendConcession ==
  /\ seat # None /\ AcceptsGameplayCommands /\ ~HasPendingPrediction
  /\ PredictConcession(seat)
  /\ UNCHANGED <<practice, seat, authoritative, authority, refused, pageVars, frameVars>>

-----------------------------------------------------------------------------
(* The player and the browser window.                                      *)

(* Focused and wider than high, or not: unfocused windows lie as well.     *)
Windows == {"valid", "portrait", "unfocused"}

Pointers == Touches \cup {Mouse}

AnyPressed == DOMAIN held # {}

Press ==
  /\ \E p \in Pointers \ DOMAIN held : \E s \in Spots[p] :
       held' = [q \in DOMAIN held \cup {p} |-> IF q = p THEN s ELSE held[q]]
  /\ UNCHANGED <<practice, socketVars, window, unfocused, faults, frameVars>>

Drag ==
  /\ \E p \in DOMAIN held : \E s \in Spots[p] : s # held[p] /\ held' = [held EXCEPT ![p] = s]
  /\ UNCHANGED <<practice, socketVars, window, unfocused, faults, frameVars>>

Lift ==
  /\ \E p \in DOMAIN held : held' = Restrict(held, DOMAIN held \ {p})
  /\ UNCHANGED <<practice, socketVars, window, unfocused, faults, frameVars>>

ChangeWindow ==
  /\ \E w \in Windows : w # window /\ window' = w
  /\ window' # "valid" => faults < MaxFaults
  /\ faults' = faults + IF window' = "valid" THEN 0 ELSE 1
  /\ unfocused' = (unfocused \/ window' = "unfocused")
  /\ UNCHANGED <<practice, socketVars, held, frameVars>>

-----------------------------------------------------------------------------
(* The systems of a frame, in their order.                                 *)

ReleaseActiveTouch(i, another) == [i EXCEPT !.touch = NoTouch, !.blocked = another]

CancelInputOnFocusLoss(i) == IF unfocused THEN ReleaseActiveTouch(i, TRUE) ELSE i

UpdateOrientation(i) ==
  LET placing == [i EXCEPT !.placing = predicted # None /\ predicted.game.inHand] IN
    IF window = "portrait" THEN ReleaseActiveTouch(placing, TRUE) ELSE placing

ShouldRearmInput_Held == window = "valid"

ShouldRearmInput == window = "valid" /\ ~AnyPressed

RearmInput(i) == IF ShouldRearmInput THEN [i EXCEPT !.blocked = FALSE] ELSE i

Prepared == RearmInput(UpdateOrientation(CancelInputOnFocusLoss(input)))

(* Sandbox::update, for the ticks of a frame: balls fall while they roll; a *)
(* table without balls, or a shot that fails or takes too long, is racked  *)
(* again, and a scratch undone if the cue ball fits anywhere.              *)
Racked == [moving |-> FALSE, down |-> {}]

Settled(s) ==
  IF PracticeBalls \subseteq s.down THEN {Racked}
  ELSE IF CueBall \notin s.down THEN {[s EXCEPT !.moving = FALSE]}
  ELSE {[moving |-> FALSE, down |-> s.down \ {CueBall}], Racked}

Rolled(s) ==
  IF ~s.moving THEN {s}
  ELSE LET rolling == {[s EXCEPT !.down = s.down \cup fallen] : fallen \in SUBSET (PracticeBalls \cup {CueBall})}
       IN {Racked} \cup rolling \cup UNION {Settled(next) : next \in rolling}

(* update_sandbox runs the practice table only on the practice page. *)
PracticeRuns == IF practice THEN Rolled(sandbox) ELSE {sandbox}

(* Sandbox::shoot. *)
Shot(s) == [s EXCEPT !.moving = TRUE]

-----------------------------------------------------------------------------
(* input_position: the touch that is followed, the mouse, or nothing.      *)
Located(i) ==
  LET following == i.touch \in DOMAIN held
      unlocked  == IF i.touch = NoTouch \/ following THEN i ELSE ReleaseActiveTouch(i, AnyPressed)
      fingers   == DOMAIN held \cap Touches
  IN IF following THEN {[input |-> i, cursor |-> held[i.touch]]}
     ELSE IF unlocked.blocked THEN {[input |-> unlocked, cursor |-> None]}
     ELSE IF fingers # {}
     THEN {[input |-> [unlocked EXCEPT !.touch = t], cursor |-> held[t]] : t \in fingers}
     ELSE {[input |-> unlocked, cursor |-> held[Mouse]]}

Places(i, cursor) == i.contact # "Power" /\ i.placing /\ OnTable(cursor)

(* update_from_pointer, and the aim that follows it. *)
Pointed(i, cursor) ==
  CASE i.contact = "Power"                             -> [i EXCEPT !.power = PowerUnits(cursor)]
    [] i.contact = "Aim"                               -> [i EXCEPT !.aim = AimSteps[cursor, "cue"]]
    [] i.contact \in {"None", "Auxiliary"} /\ Places(i, cursor) -> i
    [] i.contact = "Auxiliary" /\ ~Places(i, cursor) /\ SelectedPocket(cursor) # 0
         -> [i EXCEPT !.pocket = SelectedPocket(cursor)]
    [] OTHER -> IF TurnsCue(cursor) THEN [i EXCEPT !.aim = AimSteps[cursor, "middle"]] ELSE i

(* What practice_shot makes of the input, in the units of the protocol. *)
PracticeShot(i) ==
  [aim |-> i.aim, power |-> i.power, side |-> Spin.side, vertical |-> Spin.vertical]

(* The page numbers the pockets as the protocol does. *)
DecodeCalledPocket(number) == PocketAt(number)

(* Aim, power and spin are checked again: practice_shot has bounded them.  *)
SendShotCommand(shot, calledPocket, effect) ==
  PredictShot(shot, DecodeCalledPocket(calledPocket), effect)

ReleaseShot(i, effect) == SendShotCommand(PracticeShot(i), i.pocket, effect)

-----------------------------------------------------------------------------
(* update_input, by what it finds.                                         *)

NotAccepting_Forget(i, s) ==
  /\ input' = [(IF AnyPressed THEN ReleaseActiveTouch(i, TRUE) ELSE i) EXCEPT !.placed = FALSE]
  /\ sandbox' = s
  /\ NothingSent

(* Nothing is accepted: whatever is down has to be lifted first. *)
NotAccepting(i, s) ==
  /\ input' = IF AnyPressed THEN ReleaseActiveTouch(i, TRUE) ELSE i
  /\ sandbox' = s
  /\ NothingSent

(* A contact ends: what was aimed is shot, unless the contact has placed   *)
(* the cue ball.  No shot can be predicted while the cue ball is down,     *)
(* which it can be only in hand.                                           *)
ContactEnds(i, s) ==
  /\ input' = [i EXCEPT !.placed = FALSE, !.contact = "None", !.touch = NoTouch]
  /\ sandbox' = IF practice /\ i.contact = "Aim" THEN Shot(s) ELSE s
  /\ IF practice \/ i.contact # "Aim" \/ i.placed
     THEN NothingSent
     ELSE \/ \E effect \in ShotCommands : ReleaseShot(i, effect)
          \/ (predicted.game.inHand /\ NothingSent)

NothingHeld(i, s) ==
  /\ input' = [i EXCEPT !.touch = NoTouch]
  /\ sandbox' = s
  /\ NothingSent

(* A contact begins or goes on at a cursor, if any pointer is followed. *)
ContactGoesOn(i, s) ==
  \E located \in Located(i) :
    LET cursor  == located.cursor
        begun   == IF wasPressed THEN located.input
                   ELSE [located.input EXCEPT !.contact = ClassifyPointerContact(cursor)]
        placed  == ~practice /\ Places(begun, cursor) /\ cursor \in FreeSpots
        pointed == Pointed(begun, cursor)
    IN /\ sandbox' = s
       /\ IF cursor = None
          THEN input' = located.input /\ NothingSent
          ELSE /\ input' = [pointed EXCEPT !.placed = @ \/ placed]
               /\ IF placed THEN PredictCueBallPlacement(ScreenToCanonical(cursor))
                            ELSE NothingSent

UpdateInput(i, s) ==
  IF ~(AcceptsActivePlayerCommand \/ (practice /\ ~s.moving)) THEN NotAccepting(i, s)
  ELSE IF AnyPressed THEN ContactGoesOn(i, s)
  ELSE IF wasPressed THEN ContactEnds(i, s)
                     ELSE NothingHeld(i, s)

-----------------------------------------------------------------------------
(* synchronize_canonical_presentation: only a predicted match that looks   *)
(* different is shown anew.                                                *)
Synchronized ==
  IF predicted' = None THEN shown ELSE predicted'

LocalMayAct == (practice /\ ~sandbox.moving) \/ AcceptsActivePlayerCommand

(* update_match_control_visibility: the practice table is shown anew in    *)
(* every frame.                                                            *)
ControlsUpdated ==
  /\ shown' = Synchronized
  /\ controls' = IF practice \/ shown' # shown THEN LocalMayAct' ELSE controls

NoContact == [placed |-> FALSE, cancelled |-> FALSE]

PlacedNow == \E frame \in inFlight' \ inFlight : frame.meant.command.kind = "place"

Frame ==
  /\ \E s \in PracticeRuns : UpdateInput(Prepared, s)
  /\ wasPressed' = AnyPressed
  /\ unfocused' = FALSE
  /\ contact' = IF ~AnyPressed THEN NoContact
                ELSE [ placed    |-> contact.placed \/ PlacedNow,
                       cancelled |-> contact.cancelled \/ unfocused \/ window = "portrait" ]
  /\ UNCHANGED <<practice, seat, authoritative, authority, refused, held, window, faults>>
  /\ ControlsUpdated

-----------------------------------------------------------------------------
NewInput ==
  [ aim |-> DefaultAim, power |-> DefaultPower, pocket |-> 0, placing |-> FALSE,
    placed |-> FALSE, touch |-> NoTouch, contact |-> "None", blocked |-> FALSE ]

Init ==
  /\ practice \in BOOLEAN
  /\ seat = None /\ transport = NewClient /\ authoritative = None /\ predicted = None
  /\ IF practice THEN authority = None ELSE authority \in NewMatches
  /\ inFlight = {} /\ refused = FALSE
  /\ held = <<>> /\ window = "valid" /\ unfocused = FALSE
  /\ input = NewInput /\ wasPressed = FALSE /\ sandbox = Racked
  /\ shown = None
  /\ controls = practice
  /\ contact = NoContact /\ faults = 0

Next ==
  \/ ServerAccepts \/ ServerRefuses \/ ServerMoves
  \/ SnapshotArrives \/ RejectionArrives \/ Connect \/ Disconnect
  \/ SetLocalPlayer \/ SendConcession
  \/ Press \/ Drag \/ Lift \/ ChangeWindow
  \/ Frame

Spec == Init /\ [][Next]_vars

-----------------------------------------------------------------------------
(* A contact that has put the cue ball down does not also shoot it when it *)
(* is lifted, whenever the answer to the placement comes, whatever it is.  *)
PlacingIsNotShooting ==
  [][contact.placed /\ wasPressed /\ ~wasPressed' => transport'.pending = transport.pending]_vars

(* Once the window lost the focus or was upright, nothing that is still    *)
(* down aims, sets the power, calls a pocket or places the cue ball: all   *)
(* contacts have to be lifted first.                                       *)
CancelledContactsAreInert ==
  [][ contact'.cancelled =>
        /\ <<input.aim, input.power, input.pocket>>' = <<input.aim, input.power, input.pocket>>
        /\ \A frame \in inFlight' \ inFlight : frame.meant.command.kind # "place" ]_vars

(* Every frame that leaves is read by the server as the command that was   *)
(* predicted, bound to the revision it was predicted at.                   *)
FramesAreUnderstood ==
  \A frame \in inFlight : Len(frame.bytes) <= MaxFrameBytes /\ EnvelopeFrom(frame.bytes) = frame.meant

(* What is shown is the authoritative match, or what one command makes of  *)
(* it that is not answered yet: no rejection, correction, lost connection  *)
(* or late answer leaves a trace of a prediction.                          *)
PredictionIsGrounded ==
  IF HasPendingPrediction
  THEN \E c \in Commands : predicted = After(authoritative, c, FALSE)
  ELSE predicted = authoritative

(* README.md of the client: the authoritative active player gates the cue, *)
(* the guide and the power.                                                *)
ControlsFollowTheTurn == [][Frame => controls' = LocalMayAct']_vars
=============================================================================
