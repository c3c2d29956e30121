----------------------------- MODULE WireProtocol -----------------------------
(***************************************************************************)
(* pwmtf_protocol: the frames a browser and the server exchange.  A        *)
(* command frame carries one command, the revision it was given at and its *)
(* idempotency key; a snapshot frame carries the bytes of a match, their   *)
(* checksum and the revision they are of.                                  *)
(*                                                                         *)
(* Revisions, keys, checksums and coordinates are the bytes they are sent  *)
(* as; aim, power and spin are numbers, as the decoder compares them.      *)
(***************************************************************************)
EXTENDS ByteStrings, FiniteSets

ProtocolVersion       == 1
MaxNegotiatedVersions == 8
MaxFrameBytes         == 256
MaxSnapshotBytes      == 4096

PocketNames == << "TopLeft", "TopCenter", "TopRight", "BottomLeft", "BottomCenter", "BottomRight" >>

Seats == << "One", "Two" >>

(* negotiate_version: the highest version both offer, or 0.                *)
NegotiateVersion(client, server) ==
  LET shared == {client[i] : i \in DOMAIN client} \cap {server[i] : i \in DOMAIN server} IN
    IF Len(client) > MaxNegotiatedVersions \/ Len(server) > MaxNegotiatedVersions \/ shared = {}
    THEN 0
    ELSE CHOOSE v \in shared : \A w \in shared : w <= v

-----------------------------------------------------------------------------
(* encode_pocket: 0 is no pocket. *)
PocketByte(pocket) == <<SelectInSeq(PocketNames, LAMBDA name : name = pocket)>>

PocketAt(number) == IF number = 0 THEN "None" ELSE PocketNames[number]

(* encode_command. *)
CommandBytes(c) ==
  CASE c.kind = "shot" ->
         <<1>> \o Be(2, 1) \o Be(2, c.aim) \o Be(2, c.power) \o Be(2, c.side) \o Be(2, c.vertical)
           \o PocketByte(c.pocket)
    [] c.kind = "timeout" -> <<2>>
    [] c.kind = "concede" -> <<3>> \o <<SelectInSeq(Seats, LAMBDA seat : seat = c.player)>>
    [] OTHER              -> <<4>> \o c.x \o c.y

Signed16(n) == IF n > 32767 THEN n - 65536 ELSE n

(* Aim::new, ShotPower::new and Spin::new. *)
StepsPerTurn == 10000
MaxPower     == 10000

Aims   == 0 .. StepsPerTurn - 1
Powers == 0 .. MaxPower
U16    == 0 .. 2 ^ 16 - 1

ShotFields ==
  << Field("shotVersion", 2, {1}), Field("aim", 2, Aims), Field("power", 2, Powers),
     Field("side", 2, U16), Field("vertical", 2, U16) >>

SpinIsOnBall(side, vertical) ==
  /\ side \in -10000 .. 10000 /\ vertical \in -10000 .. 10000
  /\ side * side + vertical * vertical <= 100000000

DecodeShot(r) ==
  LET spun     == ReadAll(r, ShotFields)
      side     == Signed16(spun.got.side)
      vertical == Signed16(spun.got.vertical)
      called   == Take(spun, Field("pocket", 1, 0 .. 6))
  IN IF ~(spun.ok /\ SpinIsOnBall(side, vertical) /\ Finished(called)) THEN Refused
     ELSE [ kind |-> "shot", aim |-> spun.got.aim, power |-> spun.got.power, side |-> side,
            vertical |-> vertical, pocket |-> PocketAt(called.got.pocket) ]

DecodePlacement(r) ==
  LET spot == ReadAll(r, << Raw("x", 8), Raw("y", 8) >>) IN
    IF Finished(spot) THEN [kind |-> "place", x |-> spot.got.x, y |-> spot.got.y] ELSE Refused

(* decode_command, and nothing may follow the command. *)
DecodeCommand(start) ==
  LET r    == Take(start, Field("command", 1, 1 .. 4))
      seat == Take(r, Field("player", 1, {1, 2}))
  IN IF ~r.ok THEN Refused
     ELSE CASE r.got.command = 1 -> DecodeShot(r)
            [] r.got.command = 2 -> IF Finished(r) THEN [kind |-> "timeout"] ELSE Refused
            [] r.got.command = 3 -> IF Finished(seat) THEN [kind |-> "concede", player |-> Seats[seat.got.player]]
                                    ELSE Refused
            [] OTHER             -> DecodePlacement(r)

(* CommandEnvelope. *)
EnvelopeBytes(e) == Be(2, ProtocolVersion) \o e.expected \o e.id \o Be(2, 1) \o CommandBytes(e.command)

EnvelopeFields ==
  << Field("protocol", 2, {ProtocolVersion}), Raw("expected", 8), Raw("id", 16), Field("commandVersion", 2, {1}) >>

EnvelopeFrom(bytes) ==
  LET r       == ReadAll(Reader(bytes), EnvelopeFields)
      command == DecodeCommand(r)
  IN IF Len(bytes) > MaxFrameBytes \/ ~r.ok \/ command = Refused THEN Refused
     ELSE [expected |-> r.got.expected, id |-> r.got.id, command |-> command]

-----------------------------------------------------------------------------
(* SnapshotEnvelope::new refuses a snapshot that is too long. *)
MaySend(snapshot) == Len(snapshot) <= MaxSnapshotBytes

SnapshotFrame(s) ==
  Be(2, ProtocolVersion) \o s.revision \o s.checksum \o Be(4, Len(s.snapshot)) \o s.snapshot

SnapshotFields ==
  << Field("protocol", 2, {ProtocolVersion}), Raw("revision", 8), Raw("checksum", 8), Raw("size", 4) >>

SnapshotFrameFrom(bytes) ==
  LET r    == ReadAll(Reader(bytes), SnapshotFields)
      size == IF r.got.size[1] > 127 THEN MaxSnapshotBytes + 1 ELSE Signed(r.got.size)
  IN IF Len(bytes) > MaxSnapshotBytes + 22 \/ ~r.ok \/ size > MaxSnapshotBytes \/ Remaining(r) # size
     THEN Refused
     ELSE [ revision |-> r.got.revision, checksum |-> r.got.checksum,
            snapshot |-> SubSeq(bytes, r.at + 1, Len(bytes)) ]
=============================================================================
