------------------------------ MODULE JournalRows ------------------------------
(***************************************************************************)
(* A match in its tables.  start_lobby_in_transaction writes the row of a  *)
(* new match, commit_command the row of an accepted command and the        *)
(* canonical columns of its match; load_canonical_head, load_commands,     *)
(* initial_match, load_match of a rematch and the summaries read them      *)
(* back, and refuse a row that does not agree with itself.                 *)
(*                                                                         *)
(* A column holds NULL, an integer of 64 bits, a decimal number as text,   *)
(* or bytes as text of two hexadecimal digits each.  Numbers are the       *)
(* bytes of their 64-bit pattern, so that u64 and i64 differ only in what  *)
(* they take the first bit for.  The checksum of a state tells it from     *)
(* every other.                                                            *)
(***************************************************************************)
EXTENDS MatchCodec

CONSTANTS
  MatchId,
  Accounts,           (* the account of each player                        *)
  ExpectedRevisions,  (* the revisions commands are given at               *)
  DueAt, CommandId,
  ShotCommand         (* the command of every shot                         *)

ASSUME AccountAssumption ==
  Accounts = [One |-> Accounts["One"], Two |-> Accounts["Two"]] /\ Accounts["One"] # Accounts["Two"]

ASSUME NumberAssumption ==
  /\ ExpectedRevisions \subseteq Word(8) /\ CommandId \in Word(16)
  /\ DueAt \in Word(8) /\ DueAt[1] < 128

ASSUME ShotAssumption ==
  LET c == ShotCommand IN
    /\ c = [ kind |-> "shot", aim |-> c.aim, power |-> c.power, side |-> c.side, vertical |-> c.vertical,
             pocket |-> c.pocket ]
    /\ c.aim \in Aims /\ c.power \in Powers /\ SpinIsOnBall(c.side, c.vertical)
    /\ c.pocket \in {PocketAt(k) : k \in 0 .. 6}

Null == [type |-> "null"]
Integer64(n) == [type |-> "integer", number |-> n]
Decimal(n) == [type |-> "decimal", number |-> n]
SignedText(n) == [type |-> IF n[1] > 127 THEN "negative" ELSE "decimal", number |-> n]
Words(word) == [type |-> "words", word |-> word]

(* encode_bytes. *)
Hex(bytes) ==
  [ type   |-> "hex",
    digits |-> [ i \in 1 .. 2 * Len(bytes) |->
                   IF i % 2 = 1 THEN bytes[(i + 1) \div 2] \div 16 ELSE bytes[i \div 2] % 16 ] ]

(* decode_bytes reads a text of an even number of digits. *)
IsBytes(c) ==
  c.type = "hex" /\ Len(c.digits) % 2 = 0 /\ \A i \in DOMAIN c.digits : c.digits[i] \in 0 .. 15

BytesOf(c) == [i \in 1 .. Len(c.digits) \div 2 |-> 16 * c.digits[2 * i - 1] + c.digits[2 * i]]

(* to_i64 and its inverse, unsigned_integer: nothing above i64::MAX. *)
FitsInteger(n) == n[1] < 128

IsUnsigned(c) == c.type = "integer" /\ FitsInteger(c.number)

(* row_u64 reads an integer or a text; parse_u64 also takes an integer for *)
(* the bits of an unsigned one, and the summaries' a negative text.        *)
IsNumber(c) == IsUnsigned(c) \/ c.type = "decimal"

IsPattern(c) == c.type \in {"integer", "decimal"}
IsChecksum(c) == IsPattern(c) \/ c.type = "negative"

(* checked_add(1), or the number itself where that overflows. *)
Successor(n) ==
  LET carries == {i \in DOMAIN n : n[i] < 255 /\ \A k \in DOMAIN n : k > i => n[k] = 255} IN
    [i \in DOMAIN n |-> IF \E k \in carries : k < i THEN 0 ELSE IF i \in carries THEN n[i] + 1 ELSE n[i]]

-----------------------------------------------------------------------------
NoDeadline == [none |-> TRUE]

PlayerNumber(p) == Be(8, IF p = "One" THEN 1 ELSE 2)

(* decode_deadline and decode_match_deadline: three columns or none. *)
DeadlineFrom(row) ==
  LET columns == {row.deadlineRevision, row.deadlinePlayer, row.deadlineAt} IN
    CASE columns = {Null} -> NoDeadline
      [] /\ \A c \in columns : IsNumber(c)
         /\ \E p \in Player : row.deadlinePlayer.number = PlayerNumber(p) ->
           [ revision |-> row.deadlineRevision.number,
             player   |-> CHOOSE p \in Player : row.deadlinePlayer.number = PlayerNumber(p),
             dueAt    |-> row.deadlineAt.number ]
      [] OTHER -> Refused

(* validate_deadline: a match has a deadline, of the player and the        *)
(* revision that is current, until it is over.                             *)
DeadlineFits(deadline, revision, m) ==
  IF m.status = InProgress
  THEN /\ deadline # NoDeadline /\ deadline # Refused
       /\ deadline.revision = revision /\ deadline.player = m.active
  ELSE deadline = NoDeadline

(* The columns of a deadline, its numbers in columns of the type. *)
DeadlineColumns(deadline, type) ==
  LET Column(n) == [type |-> type, number |-> n] IN
    IF deadline = NoDeadline THEN [revision |-> Null, player |-> Null, at |-> Null]
    ELSE [ revision |-> Column(deadline.revision), player |-> Column(PlayerNumber(deadline.player)),
           at       |-> Column(deadline.dueAt) ]

DeadlineAt(revision, m) ==
  IF m.status = InProgress THEN [revision |-> revision, player |-> m.active, dueAt |-> DueAt] ELSE NoDeadline

ChecksumOf(m) == IF m = Snapshot THEN Checksum ELSE [i \in DOMAIN Checksum |-> 255 - Checksum[i]]

ConfigurationOf(m) ==
  [physics |-> m.physics, geometry |-> m.geometry, rackSeed |-> m.rackSeed, breaker |-> m.breaker]

-----------------------------------------------------------------------------
(* The row with the canonical columns of a state. *)
Canonical(row, revision, m, deadline) ==
  LET due == DeadlineColumns(deadline, "integer") IN
    [ match |-> row.match, playerOne |-> row.playerOne, playerTwo |-> row.playerTwo, config |-> row.config,
      revision         |-> Integer64(revision), snapshot |-> Hex(SnapshotBytes(m)),
      checksum         |-> Integer64(ChecksumOf(m)),
      deadlineRevision |-> due.revision, deadlinePlayer |-> due.player, deadlineAt |-> due.at ]

(* start_lobby_in_transaction, which refuses another deadline first. *)
InitialRow(m) ==
  Canonical([ match     |-> Decimal(MatchId),
              playerOne |-> Decimal(Accounts["One"]), playerTwo |-> Decimal(Accounts["Two"]),
              config    |-> Hex(ConfigurationBytes(ConfigurationOf(m))) ],
            Be(8, 0), m, DeadlineAt(Be(8, 0), m))

CommandOf(res) ==
  CASE res.kind = "shot"     -> ShotCommand
    [] res.kind = "timeout"  -> [kind |-> "timeout"]
    [] res.kind = "conceded" -> [kind |-> "concede", player |-> Opponent(res.outcome.winner)]
    [] OTHER                 -> [kind |-> "place", x |-> Lie[Cue].x, y |-> Lie[Cue].y]

(* AcceptedCommand, of the last command given at an expected revision. *)
Accepted(expected) ==
  [ match    |-> MatchId, revision |-> Successor(expected), id |-> CommandId,
    actor    |-> Accounts[IF result.kind = "conceded" THEN Opponent(result.outcome.winner) ELSE "One"],
    frame    |-> EnvelopeBytes([expected |-> expected, id |-> CommandId, command |-> CommandOf(result)]),
    result   |-> result, snapshot |-> SnapshotBytes(Snapshot), checksum |-> ChecksumOf(Snapshot),
    deadline |-> DeadlineAt(Successor(expected), Snapshot) ]

(* The row the command finds: its canonical columns are an earlier state's *)
(* and only the revision is compared.                                      *)
RowBefore(expected) == [InitialRow(Snapshot) EXCEPT !.revision = Integer64(expected)]

IsConsistent(command, envelope, m) ==
  /\ envelope # Refused /\ m # Refused
  /\ envelope.id = command.id
  /\ envelope.expected # Successor(envelope.expected) /\ Successor(envelope.expected) = command.revision
  /\ ChecksumOf(m) = command.checksum
  /\ DeadlineFits(command.deadline, command.revision, m)

CommandRow(command) ==
  LET due == DeadlineColumns(command.deadline, "decimal") IN
    [ id       |-> << command.match, command.id >>,
      match    |-> Decimal(command.match),      revision |-> Integer64(command.revision),
      command  |-> Hex(command.id),             actor    |-> Decimal(command.actor),
      frame    |-> Hex(command.frame),          result   |-> Hex(ResultBytes(command.result)),
      snapshot |-> Hex(command.snapshot),       checksum |-> Integer64(command.checksum),
      deadlineRevision |-> due.revision, deadlinePlayer |-> due.player, deadlineAt |-> due.at ]

(* commit_command: the row of the match and the rows of its commands, or   *)
(* Refused.                                                                *)
CommitOf(command, envelope, m, row) ==
  IF /\ FitsInteger(command.revision)
     /\ IsConsistent(command, envelope, m)
     /\ ConfigurationFrom(BytesOf(row.config)) = ConfigurationOf(m)
     /\ row.revision = Integer64(envelope.expected)
  THEN [ match    |-> Canonical(row, command.revision, m, command.deadline),
         commands |-> << CommandRow(command) >> ]
  ELSE Refused

Commit(command, row) == CommitOf(command, EnvelopeFrom(command.frame), SnapshotFrom(command.snapshot), row)

-----------------------------------------------------------------------------
(* decode_command, and what load_commands asks of every record: that its   *)
(* snapshot is of the pinned configuration.                                *)
Pinned(command, envelope, m, config) ==
  IF /\ command.deadline # Refused /\ command.result # Refused
     /\ IsConsistent(command, envelope, m)
     /\ ConfigurationOf(m) = config
  THEN command
  ELSE Refused

CommandFrom(row, config) ==
  IF /\ row.match = Decimal(MatchId) /\ row.actor.type = "decimal"
     /\ IsBytes(row.frame) /\ IsBytes(row.command) /\ IsBytes(row.snapshot) /\ IsBytes(row.result)
     /\ IsUnsigned(row.revision) /\ IsPattern(row.checksum)
  THEN Pinned([ match    |-> row.match.number,        revision |-> row.revision.number,
                id       |-> BytesOf(row.command),    actor    |-> row.actor.number,
                frame    |-> BytesOf(row.frame),      result   |-> ResultFrom(BytesOf(row.result)),
                snapshot |-> BytesOf(row.snapshot),   checksum |-> row.checksum.number,
                deadline |-> DeadlineFrom(row) ],
              EnvelopeFrom(BytesOf(row.frame)), SnapshotFrom(BytesOf(row.snapshot)), config)
  ELSE Refused

(* load_commands. *)
AllOf(records) ==
  IF \A i \in DOMAIN records : records[i] # Refused THEN [records |-> records] ELSE Refused

LoadCommands(rows) ==
  IF IsBytes(rows.match.config)
  THEN AllOf([ i \in DOMAIN rows.commands |->
                 CommandFrom(rows.commands[i], ConfigurationFrom(BytesOf(rows.match.config))) ])
  ELSE Refused

(* decode_participants. *)
ParticipantsFrom(row) ==
  IF /\ row.playerOne.type = "decimal" /\ row.playerTwo.type = "decimal"
     /\ row.playerOne.number # row.playerTwo.number
  THEN [One |-> row.playerOne.number, Two |-> row.playerTwo.number]
  ELSE Refused

(* What every reader of a match row checks: its snapshot is of its         *)
(* checksum and its configuration.                                         *)
Checked(m, row) ==
  IF m = Refused THEN Refused
  ELSE IF ConfigurationOf(m) = ConfigurationFrom(BytesOf(row.config)) /\ ChecksumOf(m) = row.checksum.number
       THEN m ELSE Refused

StateFrom(row) ==
  IF /\ IsBytes(row.snapshot) /\ IsBytes(row.config) /\ IsUnsigned(row.revision) /\ IsPattern(row.checksum)
     /\ ParticipantsFrom(row) # Refused
  THEN Checked(SnapshotFrom(BytesOf(row.snapshot)), row)
  ELSE Refused

(* initial_match. *)
InitialOf(m, deadline, row) ==
  IF \/ m = Refused \/ deadline = Refused \/ row.revision # Integer64(Be(8, 0))
     \/ deadline # NoDeadline /\ (deadline.revision # Be(8, 0) \/ deadline.player # m.active)
  THEN Refused
  ELSE [participants |-> ParticipantsFrom(row), state |-> m, deadline |-> deadline]

InitialMatch(row) == InitialOf(StateFrom(row), DeadlineFrom(row), row)

(* load_match of a rematch checks no more. *)
PreviousOf(m, row) ==
  IF m = Refused THEN Refused
  ELSE [revision |-> row.revision.number, participants |-> ParticipantsFrom(row), state |-> m]

PreviousMatch(row) == PreviousOf(StateFrom(row), row)

(* load_canonical_head: a new match has no commands, and any other agrees  *)
(* with the last that load_commands returns.                               *)
HeadOf(m, deadline, rows, commands) ==
  LET revision == rows.match.revision.number
      Agrees(last) == /\ last.revision = revision /\ last.snapshot = SnapshotBytes(m)
                      /\ last.checksum = ChecksumOf(m) /\ last.deadline = deadline
      TailAgrees == IF revision = Be(8, 0) THEN rows.commands = <<>>
                    ELSE /\ commands # Refused /\ rows.commands # <<>>
                         /\ Agrees(commands.records[Len(rows.commands)])
  IN IF m = Refused THEN Refused
     ELSE IF DeadlineFits(deadline, revision, m) /\ TailAgrees
     THEN [participants |-> ParticipantsFrom(rows.match), revision |-> revision, state |-> m, deadline |-> deadline]
     ELSE Refused

HeadGiven(rows, commands) == HeadOf(StateFrom(rows.match), DeadlineFrom(rows.match), rows, commands)

CanonicalHead(rows) == HeadGiven(rows, LoadCommands(rows))

-----------------------------------------------------------------------------
(* encode_reason. *)
ReasonWord ==
  [ LegalEightBall |-> "legal-eight-ball", IllegalEightBall |-> "illegal-eight-ball", Concession |-> "concession" ]

(* rebuild_match_summaries of one match; the checksum goes into a column   *)
(* of text.  A match without a result has no summary.                      *)
SummaryOf(m, row) ==
  IF m = Refused THEN Refused
  ELSE IF m.status = InProgress THEN Null
  ELSE IF row.revision = Integer64(Be(8, 0)) THEN Refused
  ELSE [ winner   |-> Decimal(ParticipantsFrom(row)[m.status.winner]),
         reason   |-> Words(ReasonWord[m.status.reason]),
         revision |-> row.revision, checksum |-> SignedText(row.checksum.number) ]

SummaryRow(row) == SummaryOf(StateFrom(row), row)

(* match_summary. *)
SummaryFrom(summary) ==
  LET reasons == {reason \in Reasons : summary.reason = Words(ReasonWord[reason])} IN
    IF /\ summary.winner.type = "decimal" /\ IsUnsigned(summary.revision)
       /\ summary.revision.number # Be(8, 0) /\ reasons # {} /\ IsChecksum(summary.checksum)
    THEN [ winner   |-> summary.winner.number,   reason   |-> CHOOSE reason \in reasons : TRUE,
           revision |-> summary.revision.number, checksum |-> summary.checksum.number ]
    ELSE Refused

-----------------------------------------------------------------------------
(* Of every state a match can reach: it comes back from the row it starts  *)
(* with, the command that led to it is committed whenever its revision     *)
(* fits a column, and then the journal, the head and the summary read back *)
(* what was accepted.                                                      *)
Expected(revision) ==
  [participants |-> Accounts, revision |-> revision, state |-> Snapshot, deadline |-> DeadlineAt(revision, Snapshot)]

StartSurvives ==
  LET row == InitialRow(Snapshot) IN
    /\ InitialMatch(row) = [participants |-> Accounts, state |-> Snapshot, deadline |-> DeadlineAt(Be(8, 0), Snapshot)]
    /\ CanonicalHead([match |-> row, commands |-> <<>>]) = Expected(Be(8, 0))

HeadAndCommands(rows, commands) == << HeadGiven(rows, commands), commands >>

ReadBack(rows) == HeadAndCommands(rows, LoadCommands(rows))

RowsHold(rows, command) ==
  /\ ReadBack(rows) = << Expected(command.revision), [records |-> <<command>>] >>
  /\ IF status = InProgress THEN SummaryRow(rows.match) = Null
     ELSE /\ SummaryFrom(SummaryRow(rows.match)) =
               [ winner   |-> Accounts[status.winner], reason   |-> status.reason,
                 revision |-> command.revision,        checksum |-> command.checksum ]
          /\ PreviousMatch(rows.match) =
               [revision |-> command.revision, participants |-> Accounts, state |-> Snapshot]

CommandSurvives(rows, command) ==
  IF FitsInteger(command.revision) THEN rows # Refused /\ RowsHold(rows, command) ELSE rows = Refused

(* Every state a match can reach, the frame its players get it in, its     *)
(* configuration, the result of every command, and the rows they are       *)
(* stored in are what is read back from them.                              *)
RecordsSurvive ==
  /\ PayloadsSurvive
  /\ result = NoResult => StartSurvives
  /\ SampledMatches /\ result # NoResult =>
       \A expected \in ExpectedRevisions :
         CommandSurvives(Commit(Accepted(expected), RowBefore(expected)), Accepted(expected))

-----------------------------------------------------------------------------
(* The rows one column away: NULL, another number, and text that is no     *)
(* bytes or none.                                                          *)
WrongColumns ==
  { Null, Integer64(Be(8, 7)), Decimal(Be(8, 7)), SignedText(Be(8, -7)), Hex(<<>>), [type |-> "hex", digits |-> <<1>>],
    [type |-> "hex", digits |-> <<1, 16>>] }

DamagedRows(rows) ==
  {[rows EXCEPT !.match[column] = wrong] : column \in DOMAIN rows.match \ {"match"}, wrong \in WrongColumns}
    \cup {[rows EXCEPT !.commands[1][column] = wrong] :
             column \in DOMAIN rows.commands[1] \ {"id"}, wrong \in WrongColumns}

(* A payload that was cut is never accepted, one with a damaged byte is    *)
(* refused or taken for another, and neither is a row with a column that   *)
(* holds something else taken for the row that was stored (but for its     *)
(* primary key, which nobody reads).                                       *)
DamageIsNoticed ==
  /\ PayloadDamageIsNoticed
  /\ result # NoResult /\ DamagedMatches =>
       LET expected == CHOOSE n \in ExpectedRevisions : FitsInteger(Successor(n))
       IN \A rows \in {Commit(Accepted(expected), RowBefore(expected))} :
            ReadBack(rows) \notin {ReadBack(other) : other \in DamagedRows(rows) \ {rows}}
=============================================================================
