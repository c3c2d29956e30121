------------------------------ MODULE MatchCodec ------------------------------
(***************************************************************************)
(* What is stored of a match: MatchState, MatchCommandResult and           *)
(* MatchConfiguration in their stable encodings (rules.rs).  Every         *)
(* accepted command leaves a result and a snapshot in the journal, and     *)
(* nothing that cannot be read back is committed (commit_command decodes   *)
(* the snapshot first), so a state that does not survive its encoding is a *)
(* command that can never be accepted, and a result that does not is a     *)
(* server that cannot start.                                               *)
(*                                                                         *)
(* The commands are those of EightBall; balls are their numbers and where  *)
(* a ball lies is a constant.                                              *)
(***************************************************************************)
EXTENDS EightBall, TableCodec, WireProtocol

CONSTANTS
  Physics, Geometry,  (* the pinned configuration, wide numbers as bytes   *)
  RackSeed,
  Tick,               (* VersionedTableState::tick                         *)
  Revision, Checksum, (* of the snapshot that is sent                      *)
  Lie                 (* the coordinates of each ball, as bytes            *)

(* A configuration, and tables, that their constructors accept: tables     *)
(* with any balls down.                                                    *)
ASSUME ConfigurationAssumption ==
  /\ Physics \in PhysicsProfiles /\ PhysicsAccepts(Physics)
  /\ Geometry \in Geometries /\ GeometryAccepts(Geometry)
  /\ RackSeed \in Word(8)

ASSUME LieAssumption ==
  /\ Balls \subseteq 0 .. 15
  /\ \A n \in Balls : Lie[n] \in Lies
  /\ \A down \in SUBSET Balls : TableAccepts([n \in Balls |-> BallOf(n \in down, Lie[n])], Geometry)

ASSUME FrameAssumption == Tick \in Word(4) /\ Revision \in Word(8) /\ Checksum \in Word(8)

VARIABLES
  breaker,
  result              (* MatchCommandResult of the last command            *)

recordVars == <<vars, breaker, result>>

NoResult == [kind |-> "none"]

-----------------------------------------------------------------------------
FoulOrder == << "Scratch", "NoObjectContact", "WrongFirstContact", "NoRailAfterContact" >>

Fouls(s) ==
  LET If(foul, committed) == IF committed THEN <<foul>> ELSE <<>>
  IN  If("Scratch", Scratch(s)) \o If("NoObjectContact", NoObjectContact(s))
        \o If("WrongFirstContact", WrongFirstContact(s)) \o If("NoRailAfterContact", NoRailAfterContact(s))

(* ShotResolution, in the state before the shot. *)
Resolution(s) ==
  [ kind     |-> "shot",
    shooter  |-> activePlayer,
    fouls    |-> Fouls(s),
    assigned |-> IF Eight \in s.drops THEN "None" ELSE AssignedGroup(s),
    reracked |-> breakPending /\ Eight \in s.drops,
    status   |-> status',
    next     |-> IF status' = InProgress THEN activePlayer' ELSE "None",
    inHand   |-> ballInHand' ]

RecordedInit == Init /\ breaker = activePlayer /\ result = NoResult

(* apply_command. *)
RecordedNext ==
  /\ \/ \E s \in Shots : PlayShot(s) /\ result' = Resolution(s)
     \/ PlaceCueBall /\ result' = [kind |-> "placed"]
     \/ TimeoutTurn /\ result' = [kind |-> "timeout", active |-> activePlayer']
     \/ \E p \in Player : Concede(p) /\ result' = [kind |-> "conceded", outcome |-> status']
  /\ UNCHANGED breaker

RecordedSpec == RecordedInit /\ [][RecordedNext]_recordVars

-----------------------------------------------------------------------------
PlayerBytes(p) == <<IF p = "One" THEN 1 ELSE 2>>

PlayerAt(number) == IF number = 1 THEN "One" ELSE "Two"

GroupNames == << "None", "Solids", "Stripes" >>

GroupBytes(g) == <<SelectInSeq(GroupNames, LAMBDA name : name = g) - 1>>

ReasonNames == << "LegalEightBall", "IllegalEightBall", "Concession" >>

(* encode_status: one byte while the match runs, three once it is over. *)
StatusBytes(st) ==
  IF st = InProgress THEN <<0>>
  ELSE <<1>> \o PlayerBytes(st.winner) \o <<SelectInSeq(ReasonNames, LAMBDA name : name = st.reason)>>

TakeStatus(r) ==
  LET tag == Take(r, Field("status", 1, {0, 1})) IN
    IF tag.ok /\ tag.got.status = 1
    THEN ReadAll(tag, << Field("winner", 1, {1, 2}), Field("reason", 1, 1 .. 3) >>)
    ELSE tag

StatusOf(got) ==
  IF got.status = 0 THEN InProgress
  ELSE [winner |-> PlayerAt(got.winner), reason |-> ReasonNames[got.reason]]

-----------------------------------------------------------------------------
(* MatchConfiguration. *)
Configuration == [physics |-> Physics, geometry |-> Geometry, rackSeed |-> RackSeed, breaker |-> breaker]

ConfigurationBytes(c) ==
  Be(2, 1) \o Be(2, 1) \o PhysicsBytes(c.physics) \o GeometryBytes(c.geometry)
    \o c.rackSeed \o PlayerBytes(c.breaker)

PinnedFields ==
  << Field("version", 2, {1}), Field("rules", 2, {1}) >> \o PhysicsFields \o GeometryFields

Part(got, whole) == [name \in DOMAIN whole |-> got[name]]

ConfigurationFrom(bytes) ==
  LET r == ReadAll(Reader(bytes), PinnedFields \o << Raw("rackSeed", 8), Field("breaker", 1, {1, 2}) >>) IN
    IF Finished(r) /\ PhysicsAccepts(r.got) /\ GeometryAccepts(r.got)
    THEN [ physics  |-> Part(r.got, Physics), geometry |-> Part(r.got, Geometry),
           rackSeed |-> r.got.rackSeed,       breaker  |-> PlayerAt(r.got.breaker) ]
    ELSE Refused

(* MatchState. *)
Snapshot ==
  [ physics  |-> Physics, geometry |-> Geometry, rackSeed |-> RackSeed, breaker |-> breaker,
    reracks  |-> Be(4, rerackCount), active |-> activePlayer, pending |-> breakPending,
    group    |-> playerOneGroup, inHand |-> ballInHand, status |-> status,
    table    |-> [ tick  |-> Tick,
                   balls |-> [n \in Balls |-> BallOf(n \in pocketed, Lie[n])] ] ]

SnapshotBytes(m) ==
  LET table == TableBytes(m.table) IN
    Be(2, 1) \o Be(2, 1) \o PhysicsBytes(m.physics) \o GeometryBytes(m.geometry) \o m.rackSeed
      \o m.reracks \o PlayerBytes(m.active) \o PlayerBytes(m.breaker) \o BooleanByte(m.pending)
      \o GroupBytes(m.group) \o BooleanByte(m.inHand) \o StatusBytes(m.status)
      \o Be(4, Len(table)) \o table

HeaderFields ==
  PinnedFields \o
    << Raw("rackSeed", 8), Raw("reracks", 4), Field("active", 1, {1, 2}), Field("breaker", 1, {1, 2}),
       Flag("pending"), Field("group", 1, 0 .. 2), Flag("inHand") >>

(* A match that is over has no cue ball in hand. *)
Consistent(got) == got.status = 1 => got.inHand = 0

MatchOf(got, table) ==
  IF table = Refused \/ ~Consistent(got) THEN Refused
  ELSE [ physics  |-> Part(got, Physics), geometry |-> Part(got, Geometry),
         rackSeed |-> got.rackSeed,       breaker  |-> PlayerAt(got.breaker),
         reracks  |-> got.reracks,        active   |-> PlayerAt(got.active),
         pending  |-> got.pending = 1,    group    |-> GroupNames[got.group + 1],
         inHand   |-> got.inHand = 1,     status   |-> StatusOf(got),
         table    |-> table ]

MatchAfter(r) ==
  LET size == IF r.got.length[1] > 127 THEN 16777216 ELSE Signed(r.got.length) IN
    IF r.ok /\ Remaining(r) = size /\ PhysicsAccepts(r.got) /\ GeometryAccepts(r.got)
    THEN MatchOf(r.got, TableFrom(SubSeq(r.bytes, r.at + 1, Len(r.bytes)), r.got))
    ELSE Refused

SnapshotFrom(bytes) ==
  MatchAfter(Take(TakeStatus(ReadAll(Reader(bytes), HeaderFields)), Raw("length", 4)))

-----------------------------------------------------------------------------
(* MatchCommandResult. *)
ResultBytes(res) ==
  Be(2, 1) \o
    CASE res.kind = "shot" ->
           <<1>> \o PlayerBytes(res.shooter) \o <<Len(res.fouls)>>
             \o [i \in DOMAIN res.fouls |-> SelectInSeq(FoulOrder, LAMBDA foul : foul = res.fouls[i])]
             \o GroupBytes(res.assigned) \o BooleanByte(res.reracked) \o StatusBytes(res.status)
             \o (IF res.next = "None" THEN <<0>> ELSE PlayerBytes(res.next)) \o BooleanByte(res.inHand)
      [] res.kind = "timeout"  -> <<2>> \o PlayerBytes(res.active)
      [] res.kind = "conceded" -> <<3>> \o StatusBytes(res.outcome)
      [] OTHER                 -> <<4>>

(* Fouls are read one by one, and none may come twice. *)
TakeFoul(r) ==
  LET next == Take([r EXCEPT !.got = <<>>], Field("foul", 1, 1 .. 4)) IN
    IF ~next.ok \/ \E k \in DOMAIN r.got : r.got[k] = FoulOrder[next.got.foul]
    THEN [r EXCEPT !.ok = FALSE]
    ELSE [next EXCEPT !.got = Append(r.got, FoulOrder[next.got.foul])]

TakeFouls(r, count) ==
  LET Upto[i \in 0 .. count] == IF i = 0 THEN r ELSE TakeFoul(Upto[i - 1]) IN Upto[count]

ShotOf(shooter, fouls, got) ==
  IF (got.status = 1) # (got.next = 0) \/ ~Consistent(got) THEN Refused
  ELSE [ kind     |-> "shot", shooter |-> PlayerAt(shooter), fouls |-> fouls,
         assigned |-> GroupNames[got.assigned + 1], reracked |-> got.reracked = 1,
         status   |-> StatusOf(got),
         next     |-> IF got.next = 0 THEN "None" ELSE PlayerAt(got.next),
         inHand   |-> got.inHand = 1 ]

ShotAfter(shooter, fouls) ==
  LET facts == ReadAll([fouls EXCEPT !.got = <<>>], << Field("assigned", 1, 0 .. 2), Flag("reracked") >>)
      tail  == ReadAll(TakeStatus(facts), << Field("next", 1, 0 .. 2), Flag("inHand") >>)
  IN IF Finished(tail) THEN ShotOf(shooter, fouls.got, tail.got) ELSE Refused

ShotFrom(start) ==
  LET head == ReadAll(start, << Field("shooter", 1, {1, 2}), Field("count", 1, 0 .. 4) >>) IN
    IF head.ok
    THEN ShotAfter(head.got.shooter, TakeFouls([head EXCEPT !.got = <<>>], head.got.count))
    ELSE Refused

TimeoutFrom(r) == IF Finished(r) THEN [kind |-> "timeout", active |-> PlayerAt(r.got.active)] ELSE Refused

ConcessionFrom(r) ==
  IF Finished(r) /\ r.got.status = 1 THEN [kind |-> "conceded", outcome |-> StatusOf(r.got)] ELSE Refused

ResultOf(r) ==
  IF ~r.ok THEN Refused
  ELSE CASE r.got.kind = 1 -> ShotFrom(r)
         [] r.got.kind = 2 -> TimeoutFrom(Take(r, Field("active", 1, {1, 2})))
         [] r.got.kind = 3 -> ConcessionFrom(TakeStatus(r))
         [] OTHER          -> IF Finished(r) THEN [kind |-> "placed"] ELSE Refused

ResultFrom(bytes) ==
  ResultOf(ReadAll(Reader(bytes), << Field("version", 2, {1}), Field("kind", 1, 1 .. 4) >>))

-----------------------------------------------------------------------------
Sent == [revision |-> Revision, checksum |-> Checksum, snapshot |-> SnapshotBytes(Snapshot)]

(* The result of the last command is what is read back from its encoding.  *)
ResultSurvives == result # NoResult => ResultFrom(ResultBytes(result)) = result

(* So is the configuration of the match.                                   *)
ConfigurationSurvives == ConfigurationFrom(ConfigurationBytes(Configuration)) = Configuration

(* So are a state and the frame its players get it in.                     *)
PayloadsSurvive ==
  /\ LET sent == Sent IN
       /\ MaySend(sent.snapshot) /\ SnapshotFrameFrom(SnapshotFrame(sent)) = sent
       /\ SnapshotFrom(sent.snapshot) = Snapshot
  /\ ConfigurationSurvives
  /\ ResultSurvives

(* The payloads one fault away: cut short, longer by a byte, or with one   *)
(* byte that is another.                                                   *)
Probes == {0, 1, 2, 3, 4, 16, 255}

Cuts(bytes) == {SubSeq(bytes, 1, n) : n \in 0 .. Len(bytes) - 1}

Damaged(bytes, places) ==
  {[bytes EXCEPT ![i] = probe] : i \in places \cap DOMAIN bytes, probe \in Probes} \cup {bytes \o <<0>>}

(* Results do not depend on who broke or how often the balls were racked   *)
(* again, so those of a few of the matches are all there are.              *)
SampledMatches == breaker = "One" /\ rerackCount = MaxRerackCount

(* Of a snapshot everything up to the second ball of its table is damaged, *)
(* and only new matches and the longest ones that were won with solids.    *)
DamagedPlaces == 1 .. 230

DamagedMatches ==
  \/ result = NoResult
  \/ /\ SampledMatches /\ pocketed = Solids \cup {Eight}
     /\ status # InProgress /\ status.reason = "LegalEightBall"

(* A payload that was cut is never accepted.                               *)
SnapshotCutsAreRefused == \A cut \in Cuts(SnapshotBytes(Snapshot)) : SnapshotFrom(cut) = Refused

(* One with a damaged byte is refused or taken for another state, never    *)
(* for the one that was stored; what it is taken for can itself be stored. *)
(* (It need not be the same payload again: from_bytes takes the balls in   *)
(* any order.)                                                             *)
SnapshotDamageIsNoticed ==
  LET bytes == SnapshotBytes(Snapshot) IN
    \A other \in Damaged(bytes, DamagedPlaces) \ {bytes} :
      LET read == SnapshotFrom(other) IN
        read # Refused => read # Snapshot /\ SnapshotFrom(SnapshotBytes(read)) = read

(* The same holds of results.                                              *)
ResultDamageIsNoticed ==
  result # NoResult =>
    LET bytes == ResultBytes(result) IN
      /\ \A cut \in Cuts(bytes) : ResultFrom(cut) = Refused
      /\ \A other \in Damaged(bytes, DOMAIN bytes) \ {bytes} :
           LET read == ResultFrom(other) IN
             read # Refused => read # result /\ ResultFrom(ResultBytes(read)) = read

(* In the matches where it is tried: a payload that was cut or damaged is  *)
(* refused by from_bytes or taken for something else than what was stored. *)
PayloadDamageIsNoticed ==
  /\ DamagedMatches => SnapshotCutsAreRefused /\ SnapshotDamageIsNoticed
  /\ SampledMatches => ResultDamageIsNoticed
=============================================================================
