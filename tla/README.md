# Pool with Friends: a TLA+ verification of the match

Pool with Friends is a two-player 8-ball game: a deterministic game domain, an
authoritative server that accepts commands durably before it acknowledges them, and a
browser client that predicts its own commands until a snapshot of the authority arrives.
This directory models what leads to a match and what decides it: signing in, agreeing on
a lobby, what a player's hand does to the cue, the bytes that carry a command, the
motion of the balls, the rules of a shot, the rows a match is kept in, and what a
browser shows after a lost connection. It checks the models with TLC on small instances
and proves the central claims with TLAPS for every instance.

Paths below are relative to the repository; `server`, `client` and
`game_domain` stand for `packages/<name>/src`.

## Inventory

| Component | State | Operations | Hard behaviour | What makes it correct |
|---|---|---|---|---|
| rules aggregate (`game_domain/rules.rs`, `MatchState`) | table, active player, break pending, groups, ball in hand, result, rerack count | `play_shot`, `place_cue_ball`, `timeout_turn`, `concede` | long sequences: reracks, open table, fouls, illegal eights | the cue ball is never lost, the eight ends the match, results are earned and final |
| match authority (`server/lib.rs`, `MatchService`) | one runtime per loaded match: revision, game, deadline, accepted keys | `apply_at`, `poll_due_deadlines`, `recover_match`, `load_initial_match` | awaits a commit under an asynchronous mutex; failed and misreported commits | accepted once, in order, durable before acknowledged, recoverable |
| command journal (`server/command_store.rs`) | tables `accepted_commands` and `matches` | `commit_command`, `load_commands`, `initial_match`, `canonical_head` | two writes in a transaction; a crash at any point | row and journal agree; a history can always be replayed |
| deadline scheduler (`server/main.rs`, `HttpState::poll_due_deadlines`) | none of its own | wake, poll, publish | clock read before the mutex, polls that fail halfway | due turns end, only due turns end, timeouts are published |
| loading and recovery (`HttpState::ensure_match_loaded`, `recover_all_matches`) | requests between two awaits | check, read, insert | concurrent loaders, stale reads | never rewinds, everything played is loaded |
| publication (`server/http.rs`, `websocket_loop`) | broadcast channel, `delivered_revision` of each task, sockets | upgrade, negotiate, command, forward, lag | publication outside the mutex, overflow, reconnects | nothing stale, nothing missed |
| browser transport (`client/transport.rs`, `prediction.rs`, `browser_transport.rs`) | status, negotiated, last snapshot, pending prediction, predicted match | connect, text, snapshot, predict, reject, disconnect | events in any order, answers of earlier commands | predictions on the current base, always resolved, and never left behind |
| aiming and controls (`client/main.rs`, `sandbox.rs`) | `PrototypeInput`: the contact, aim, power, called pocket, placement; the practice table | a chain of systems once a frame, with the mouse or fingers | pointers, window, socket and match change between frames | a frame sends at most what the player meant, a cancelled contact no longer aims, sets the power, calls a pocket or places the ball |
| wire protocol (`protocol/lib.rs`) | none | encode, decode, negotiate | bounds, widths, trailing bytes | what leaves is what is read |
| physics (`game_domain/lib.rs`, `motion.rs`, `rack.rs`) | balls, tick, events | `start_shot`, `advance_tick`, `simulate_shot` | integer rounding, pockets, cushions and contacts within a tick, bounds of ticks and events | every shot settles, a ball falls once, the rules get a report they expect |
| encodings of a match (`game_domain/rules.rs`, `lib.rs`) | bytes | `to_bytes`, `from_bytes` of tables, configurations, snapshots, results | damaged bytes, versions, states that disagree with themselves | what is written is read back, damage is noticed |
| browser shell (`packages/client/web/bootstrap.js`) | timers, match access, lobby and social panels | reconnect loop, polling | stale responses | reconnects and gets ready |
| waiting lobby (`server/lobby_store.rs`, lobby handlers) | lobby status, connection leases with readiness | connect, heartbeat, ready, start, cancel, disconnect | races of two ready requests, leases against clocks read earlier | one match per lobby, started only when both are ready |
| rematch (`server/rematch_store.rs`) | offers | offer, accept, list | concurrent offers and acceptances | one linked match per offer |
| challenges and invitations (`server/social_store.rs`) | challenges, invitations | create, accept, redeem, revoke | double acceptance, expiry against redemption | one lobby each |
| sessions and sign-in (`server/session_store.rs`, `oidc_store.rs`, ...) | sessions, OIDC attempts | resolve, revoke, claim, clean up | concurrent requests of one session | a live session resolves, an attempt is claimed once |
| profiles (`server/profile_store.rs`) | one handle per account | `assign_handle` | a lookup and an insertion apart | handles are unique and for good |
| readiness probe (`http.rs`, `verify_readiness`) | marks of the scheduler | probe | reads one at a time, without a lock, beside commands and restarts | refuses nothing but what is behind, recovers |
| live subscriptions (`server/lib.rs`, `SubscriptionRegistry`) | connections of each match | subscribe, ask, unsubscribe | a task that ends, a restart | a running task may be sent snapshots |
| match summaries (`server/projection_store.rs`) | a row of each match | rebuild, read | a row that disagrees with its match | as the rows of the journal |
| in-memory lobby and social services, migrations, rendering and sound, scripts | | | | not modelled, see below |

How they interact. A browser opens a socket to a match. The upgrade loads the
match (loading) and subscribes to the channel (publication); the task then takes
commands to the authority, which applies them with the rules, commits them to the
journal and answers; every acceptance is published to all tasks. The scheduler
enters the authority through the same mutex. A challenge or an invitation opens a
waiting lobby; the lobby, or an accepted rematch, inserts the row of a new match in
the database and loads it. Every handler first resolves the session of its
request, which a sign-in made. The handlers of the lobby and of the sign-in share
nothing but the database: each reads the clock, waits, and runs its transactions
with what it read. In the browser, a frame turns what the pointers did into a
command, predicts it and sends its bytes; the server reads them, and its simulation
of the shot gives the rules the events they decide from.

## Modules

| Module | Models | Built on |
|---|---|---|
| `TurnRules` | players, commands and the abstract game of turns: `NewGame`, `Allowed`, `Apply` | |
| `TurnGame` | that game as a specification | `TurnRules` |
| `EightBall` | `MatchState`, one action per command, `play_shot` split at its branches | `TurnRules`; refines `TurnGame` |
| `GameDomainProofs` | its proofs, and those of `MatchCodec`, `JournalRows` and `ShotSimulation` | `JournalRows`, `ShotSimulation`, `WireProtocolProofs` |
| `ByteStrings` | fixed-width numbers, options and lists as bytes, and readers that may refuse | |
| `TableCodec` | the encoding of a table, a geometry and a profile | `ByteStrings` |
| `MatchCodec` | the encodings of a configuration, a snapshot, a shot and a result, of the match in play | `EightBall`, `TableCodec` |
| `JournalRows` | the rows of a match, a command and a summary, column by column | `MatchCodec`, `WireProtocol` |
| `PoolTable` | fixed-point arithmetic, the table, its pockets, the rack | |
| `BallMotion` | one tick of the balls: cloth, cushions, contacts, pockets, overlaps | `PoolTable` |
| `ShotSimulation` | `start_shot`, `advance_tick` and `simulate_shot`, shot after shot | `BallMotion`; its reports are checked against `EightBall` |
| `ShotCorpus` | the twelve shots the physics is qualified with | `PoolTable` |
| `WireProtocol` | command frames, snapshot frames, versions, byte by byte | `ByteStrings` |
| `WireProtocolProofs` | its proofs, and those of the readers of `ByteStrings` and `TableCodec` | `WireProtocol`, `TableCodec` |
| `CommandRecords` | accepted commands and what recovery demands of a history | `TurnRules` |
| `CommandLog` | the abstract promise: one growing history per match | `CommandRecords` |
| `MatchAuthority` | service, journal, scheduler, loaders, crashes | `CommandRecords`; refines `CommandLog` |
| `MatchAuthorityProofs` | its proofs, and those of the readiness probe | `Readiness` |
| `Readiness` | the readiness probe and the marks of the scheduler | `MatchAuthority` |
| `BrowserTransport` | the client's transport and pending prediction, as operators on a record | |
| `MatchDelivery` | channel, websocket tasks, sockets and browsers | `BrowserTransport` |
| `MatchDeliveryProofs` | its proofs | `MatchDelivery` |
| `Pointer` | what a spot of the window is: power bar, pocket or table | |
| `PlayerInput` | the frames of the client, its prediction, its frames on the wire, the practice table | `BrowserTransport`, `TurnRules`, `WireProtocol`, `Pointer` |
| `PlayerInputProofs` | its proofs | `PlayerInput`, `WireProtocolProofs` |
| `OneShot` | the abstract handover: an offer is used once, for one product of its own, or withdrawn | |
| `LobbyStore` | the table of leases, one operator per transaction | |
| `WaitingLobby` | the lobby handlers, one transaction at a time | `LobbyStore`; refines `OneShot` |
| `WaitingLobbyProofs` | its proofs | `WaitingLobby` |
| `Matchmaking` | challenges, invitations, lobbies, matches and rematch offers as tables | refines `OneShot` twice |
| `MatchmakingProofs` | its proofs | `Matchmaking` |
| `IdentityService` | the abstract promise of accounts and sessions | |
| `SignIn` | sign-in attempts, callbacks, the login of development builds, sessions, handles and cleanup | refines `IdentityService` |
| `SignInProofs` | its proofs | `SignIn` |
| `MCEightBall`, `MCMatchAuthority`, `MCMatchDelivery`, `MCWaitingLobby`, `MCMatchmaking`, `MCShots`, `MCPlayerInput` | symmetry sets and constants for TLC | |

### EightBall

The variables are the fields of `MatchState` that its commands change. The table is the
set of pocketed balls. A shot is a record of the facts `play_shot` reads out of the
event list of the simulation (first contact, drops, the first group ball that dropped, a
rail after contact, where the eight fell, which pocket was called); `Shots` is every
such record that the current table allows, so the model does not depend on the physics.
`PlayShot` is the branches of the code in their order: rerack on an eight pocketed on
the break, the end of the match, otherwise the group assignment and the decision who
goes on. `TimeoutTurn`, `PlaceCueBall` and `Concede` are the three other methods. The
rerack counter saturates at `MaxRerackCount`, which is `u32::MAX` in the code.

`ImplementsTurnGame` maps all of this to a game of turns with an active player, a
ball in hand and an end. The authority is modelled over that smaller game, and
this refinement is what makes it a faithful stand-in for the rules.

A table can be opened without any assignment when group balls drop together with
a foul; if all balls of both groups fall that way, nobody has a group and the
eight can no longer be pocketed legally. The model has this state as the code
does; the match still ends by an illegal eight or a concession.

### MatchCodec, TableCodec and JournalRows

`RecordedSpec` plays `EightBall` with two more values, the breaker of the match and
the result of the last command, and the encodings are functions of the state: a
snapshot, its result and its configuration as the bytes `to_bytes` writes, and the
reader that `from_bytes` is, field by field, with every field it refuses. A reader
is a function from the bytes that are left to a value and the rest, or `Refused`.
`JournalRows` goes on to the columns of the tables: a column is null, an integer of
64 bits, a decimal text, a negative text, words or hexadecimal digits, a number is
its 64-bit pattern, so that the difference between `i64` and `u64` is in the model
and `to_i64` can fail. `RecordsSurvive` says that what is written is read back as it
was; `DamageIsNoticed` damages one byte or one column and says that the reader
refuses it or reads something else, never the same match under another state. To keep
the states few, only some of the matches are encoded (those that are just over, in a
break, or with one ball down), and the numbers that no command changes are constants.
The readers also take what no writer writes: the balls of a table may come in any
order, and revisions as text.

### PoolTable, BallMotion and ShotSimulation

The physics of the game is integer arithmetic, and the model computes with the same
operations in the same order: divisions that cut towards zero, `mul_div`, the integer
square root, the CORDIC steps of the aim, four substeps a tick, friction with sliding
and rolling, cushions, pairs of balls in the order of their numbers, pockets, and the
separation of overlaps. Each stage of a substep is a loop over the balls, or the pairs, in
the order of their numbers, as in the code. A tick is `AdvanceTick`, its events are appended in the order of
`event_sort_key`; the shot ends when the table is at rest, when the ticks are used up
or when the events are too many. The table and the profile are constants, as they are
fields of the configuration in the code; TLC computes in 32 bits, so that the runs use
a small table in coarse units (240 by 140, balls of radius 20, eight ticks a second) and
restitutions in hundredths instead of millionths
(`Whole`, `SlidingForce` and `SpinDecay` are the constants of the code that carry that
unit). Left out is the shuffle that draws a rack from a seed: `IsRack` is what it
guarantees, and the corpus takes one of them. `Report` is what `play_shot` reads out of
the events, and `ReportsAreShots` checks it against `Shots` of `EightBall`, the set of
shots the rules are checked with: this is what joins the two halves of the domain.

With the constants of the code about three shots in a thousand settle with two balls
overlapping by less than a unit; `restored_table` below shows how, in small.

### WireProtocol

Frames are encoded as in `protocol/lib.rs`: the version, the expected revision, the
identifier, and the command with its own version. The readers refuse short frames,
trailing bytes and values out of their range. `PlayerInput` puts these bytes on the wire
and `JournalRows` in its rows.

### PlayerInput and Pointer

Between two frames anything may happen: a finger goes down, moves or is lifted, the
window loses the focus or stands upright, the socket opens or closes, a snapshot or
"rejected" arrives, the server accepts, refuses or plays on. A frame is one action, the
chain of systems of `main.rs` in its order: reset on a new contact, pick the touch, what
a contact that begins is for (`classify_pointer_contact`), the contact that goes on or
ends, and the presentation. The match is what `TurnGame` knows of it, and a table that
is the number of commands it took. Where the pointer is decides what it does (`Pointer`,
with the pixels of the code at a scale of 1), and the direction it aims in is a constant
of each spot. The practice table (`sandbox.rs`) takes the same frames, and plays its
shots itself.

### MatchAuthority

`breaker`, `row` and `journal` are the tables; `loaded` and `memory` are the map
of runtimes behind the mutex. The mutex is held over an await exactly while a
commit is under way (`commit # {}`) or a poll runs, so every other action that
needs it has `MutexFree` as a guard. A command is `Submit` (validate, decide,
build the record), `Persist` (the transaction, refused by `Persistable` as
`commit_command` refuses it), `Install` (memory changes after the commit) and
`Respond` (publish, acknowledge). The commands are all of `MatchCommand`; only shots,
placements and concessions have to come from a particular player (`MayGive`). `CommitFails` reports an error with or without
the durable effect. `Resubmit` is the retry of a known key. `ensure_match_loaded`
is `CheckLoaded`, `ReadRecords`, `ReadInitial`, `InsertInitial` and
`InsertRecovered`, one per await. The scheduler is `PollWakes` (reads the clock),
`PollStarts` (gets the mutex and lists what is due), `PollNext` (one deadline, with
the checks of `apply_due_deadline`) and `PollEnds` (publishes and releases).
`Crash` drops everything volatile at any point, `Recover` is
`recover_all_matches`. `CreateMatch` is the insertion a lobby or a rematch makes.

`Readiness` adds the marks a poll leaves (`healthy`, `lastSuccess`) to the steps of
the authority, and a probe that reads the list of matches, takes the heads under the
mutex, and then reads the row and the journal of each match, one await after the
other. Identifiers are text in the database and numbers in memory, and the two lists
are compared in the orders they come in. `LoadedServersAreFoundReady` is stated for
servers on which the two lists agree (`ListsAgree`); where they do not, no probe
succeeds, which is the finding `text_order`.

Database transactions are atomic actions: the code runs every multi-statement
change in a transaction of the database, and TLC interleaves whole transactions.

### MatchDelivery and BrowserTransport

A snapshot is named by its revision. A websocket task goes through `Subscribe`,
`ReadInitial`, `Negotiate` and then alternates between `Forward`, when its receiver has
something and its subscription is in the registry, and a command, which is `Accept` and
later `Reply`, because the mutex is released before the snapshot is published, or
`Refuse`. `Lagged` is the overflow of the channel. `up` and `down` are the two
directions of a socket; a browser that lets go of its socket (`Drop`) loses what was on
its way to it, while what it sent may still be handled. `Timeout` is a timeout accepted
and published by the scheduler; `Crash` is a restart, in which a command under way may
have become durable. Whether a command is legal is the authority's business: here a
command is accepted exactly when its expected revision is the current one and the match
is not over. `BrowserTransport` holds one operator per method of the client's struct, on
records with the fields of that struct.

### LobbyStore and WaitingLobby

`leases` is the table `lobby_readiness`, one row for each connection, and `status`
and `matches` are what starting and cancelling write. A request is a record with the
time it captured and the step it has reached. `AskConnect`, `AskHeartbeat` and
`AskReady` read the clock; `ConnectLobby`, `HeartbeatLobby` and `ReadyLobby` are
the transactions that follow, any time later. A ready request goes on with
`CheckReady` (`lobby_ready`) and `StartReady` (`start_ready_lobby`, which asks for
everything again); `End` is a refusal, the answer that one is waiting for the other,
or a request that was dropped. `DisconnectLobby` and `CancelLobby` read no clock.
The mapping to `OneShot` takes a lobby as the offer and its match as the product.

### Matchmaking

The variables are the tables that hand a player's wish to the other player:
`challenge`, `invitation`, `lobby`, `match` and `offer`. Every action is one
transaction of `social_store.rs`, `rematch_store.rs` or `lobby_store.rs`. A
redemption may have read the clock at any time since its invitation was made
(`Captured`), so that it can succeed after another request found the invitation
expired, and the other way round; a row that is deleted as expired is `Gone`. A
challenge is the one thing that may be accepted again: `RepeatAcceptance` is the
retry, and `answers` remembers every lobby that was told. The module refines
`OneShot` in two ways, from challenges and invitations to lobbies (`Invite`) and
from lobbies and offers of a rematch to matches (`Play`). The leases that a start
needs are in `WaitingLobby`; here a lobby may start as soon as it waits.

### SignIn

`attempt`, `session`, `linked` and `profile` are the tables `oidc_attempts`, `sessions`,
`external_identities` and `account_profiles`. A callback is `Return` (the clock is
read), `Claim`, `Exchange` (the provider, external), `LinkIdentity` (after which the
clock is read again) and `MintSession`, with a wait between each two; `Drop` ends it at
any of them. A request is `Ask` and `Resolve`, so that two requests of one session can
be resolved in the other order of their clocks: the earlier clock then finds a last use
in its future, which the code calls malformed and refuses (the row stays as it is). A
request may go on to take a handle: `FindHandle` looks whether it is free,
`InsertHandle` writes it under the two unique keys and reads again, since another
request may have come first. A server without a provider signs in by a name
(`DevelopmentLogin`, the same steps, and `LogIn`). The cleanup of the scheduler is
`BeginSweep`, `SweepSessions`, `SweepAttempts`, and `SweepFails`, which also skips what
was to come. The server starts over empty tables or over those of an earlier time.

`IdentityService` is what `identity.rs` promises, as one operation at a time with any
clock; the tables implement it, which says that no order of waits lets a session be
used after its time, brings back one that was deleted, or changes whose it is. A token
hash has no session, a session, or one that was removed, and only a hash that never had
one can be given a session: a row that was deleted and written back by a request that
had read it before would not be a step of the abstract service (`Resolve_WrittenBack`
is that mutant). Tokens are random, so that the two callbacks take different ones.

### Ghost values

The modules keep a few values only for their properties: `acked` and `announced` in
`MatchAuthority`; `latest`, `sent`, `refused` and the id in a rejection in
`MatchDelivery`; `issued` in `WaitingLobby`; `answers` in `Matchmaking`; `minted` in
`SignIn`; `contact` in `PlayerInput`; `before` in `ShotSimulation`. No guard reads them,
except that `sent` bounds the number of commands and `issued` keeps the random
identifiers apart.

## Runs

| Run | Shows | Bounds |
|---|---|---|
| `eight_ball` | rules: cue ball, breaks, results, turns, refinement of `TurnGame`; every match survives its encodings and rows, and damage is noticed | two balls a group, one corner and one side pocket, reracks saturate at 1; one byte or one column damaged |
| `match_requests` | requests, loaders and a scheduler on one match with a failed, misreported or interrupted commit and a restart; the scheduler ends only turns that are due; refinement of `CommandLog` | 1 match, 2 keys, either player placing, conceding for player two or sending a timeout, 2 loaders, clients play before revision 2, clock up to 2, 1 fault |
| `readiness` | due turns end; a probe refuses only for a reason, and a loaded server whose two lists agree is found ready | 2 matches, identifiers 1 and 2, 1 loader, no client commands, clock up to 1, 1 fault, no misreported commit, marks good for the tick they are made in |
| `delivery` | nothing stale, predictions on their base; ready clients converge, predictions resolve | 1 client, 2 connections, 2 revisions, 2 commands, a channel that keeps 1, 1 fault |
| `waiting_lobby` | one match per lobby, started by two ready players; readiness is explicit and lapses | 1 lobby, 3 connections, 2 requests at a time, 2 matches, leases of 1 tick, clock up to 3 |
| `matchmaking` | one lobby per challenge or invitation, one match per lobby or offer, seats, breaks | 3 players, 2 challenges, 1 invitation, 2 lobbies, 3 matches, clock up to 2 |
| `sign_in` | one session per sign-in, refinement of `IdentityService`, handles, spent rows are deleted | 1 attempt, 2 callbacks, 2 tokens, 2 requests, 2 users, 1 handle, 2 handlers at a time, attempts of 1 tick, sessions of 2, clock up to 2 |
| `shots` | shots settle, balls fall once and stay on the board, reports are what the rules expect | the 12 shots of the corpus and an 8-ball over a corner pocket, each followed by one of 6 shots; 120 ticks, 400 events |
| `player_input` | frames are understood, predictions are grounded, placing is not shooting, cancelled contacts neither aim, set the power, call a pocket nor place | a mouse in three spots and a finger in one, one revision, 1 lost connection, lost focus or upright window |
| `reconnect`, `restored_table`, `text_order` | the disagreements below | as small as the counterexample allows |

Why these bounds are enough. Two balls a group distinguish cleared, half cleared and
untouched groups, and one rerack is played and then saturates. In the authority every
race is between at most two holders of the mutex and one outsider: two loaders can
overtake one another, two keys make a command and its rival at one revision, and two
matches are what a poll or a probe needs to fail between them. Two revisions are the
least with which publications swap, two connections of one client let it leave one with
a command on it and reconnect, and a channel of one overflows at every second
publication. One fault meets every point of every protocol once. In the lobby, two
requests make every race of two transactions, three connections give one player a second
tab beside the other player's, and a clock of three lets a lease of one tick expire
under a request that is two ticks late. Three players are the least for a stranger, and
three matches for a chain of two rematches, which is where a breaker that does not
alternate shows. Two callbacks and two tokens are a repeated callback and a second
session, two requests are those whose clocks and transactions swap and those that both
find a handle free. The corpus is the code's own choice of shots: every kind of contact,
cushion and pocket occurs, the break moves all sixteen balls, and the shot that follows
starts from a table no one laid out. A mouse and a finger are two pointers that can be
down at once; the spots are one for each thing a pointer can mean. `shots` samples the
shots there are, it does not enumerate them.

`CHECK_DEADLOCK FALSE` stands where things really end: matches are over, lobbies
are started, invitations are used up, and the clock reaches its bound.
`waiting_lobby` checks for deadlocks, since a request can always be made.

Every property of a passing run has a mutant in `PROJECT.json`: a definition
changed the way a bug would change the code, with which TLC finds the property
violated. The mutated definitions stand next to their originals
(`Forward_Everything`, `Install_BeforeCommit`, ...).

## Fairness

`readiness` uses `FairProbeSpec`, which is `MatchAuthority!FairSpec` and a platform that
probes again and again: time passes, spawned tasks run, and a waiter for the mutex gets
it (tokio's mutex is first in, first out), which is strong fairness because the mutex is
taken and released in between (`TakeHeads` of the probe is such a waiter too). The
scheduler loops for as long as the process lives, and a process that crashed is started
again. Clients, loads that nobody requests and failures are not fair. `delivery` uses
`MatchDelivery!FairSpec`: messages on a connection that lasts arrive, an accepted
command is answered, and since `tokio::select!` picks at random among its ready
branches, neither the socket nor the channel starves the other (strong fairness of
`Forward` and of handling a command). Connections may drop at any time and nobody has to
reconnect. `sign_in` assumes that the scheduler goes round (weak fairness of
`BeginSweep`) and that the database does not fail every one of its deletions (strong
fairness of the two sweeps, because a failure takes the sweep away); the clock need not
move. `shots` assumes only that the loop of `simulate_shot` goes on. The other runs
check safety and assume nothing. All models have one clock that never goes back; what
goes back is the order in which the times that were read are used.

## What the runs found

1. `reconnect`: `receive_snapshot` returns before it sets `Ready` when it already
   knows the revision (`client/transport.rs:132`), so that a client that
   reconnects to a match that has not moved never gets ready again.
2. `restored_table`: `separate_overlap` cuts off its quotients
   (`game_domain/lib.rs:1207`), so that two balls may overlap by less than a unit
   between two ticks, and `from_bytes` refuses such a table although the comment of
   `advance_tick` promises that it can be restored. If a shot settles in such a table,
   the commit cannot decode its own snapshot and the shot is never accepted.
3. `text_order`: the readiness probe compares a list of matches sorted as text with
   one sorted as numbers (`server/http.rs:303`), and refuses two matches whose
   identifiers have different lengths.

Seven more claims are stated in the modules and refuted by TLC under
configurations that are kept beside them; they are listed as hazards:

- `TimeoutsArePublished` (`MCPublishing.cfg`): a poll in which a later commit fails
  drops the list of the scheduler's timeouts it had already accepted (`server/http.rs:98`).
- `StartedTurnsEnd` (`MCUnloaded.cfg`): a match is committed first and loaded
  afterwards (`server/http.rs:1739`); if the load fails its deadline never fires.
- `DueTurnsEnd` under `MCReadiness.cfg` with `LostReplies = TRUE` and `MaxMoves = 1`:
  `poll_due_deadlines` stops at the
  first deadline that cannot be accepted (`server/lib.rs:634`). A commit that became
  durable but was reported as failed leaves a match behind its journal; its timeout is
  refused at every poll and keeps all later ones from being applied.
- `OnlyRefusedPredictionsAreDropped` (`MCRejection.cfg`): "rejected" names
  no command (`client/browser_transport.rs:48`), and a late one abandons the prediction
  of a newer command.
- `ReadyOutlivesOneConnection` (`MCReadyOutlives.cfg`): readiness is kept per connection
  (`server/lobby_store.rs:72`), so that a player who closes the tab on which he got
  ready is no longer ready although a later tab of his is open.
- `EveryoneCanListRematches` (`MCRematchListing.cfg`): `pending_rematches_for` authorizes
  every pending offer and returns the first refusal (`server/rematch_store.rs:46`).
- `ControlsFollowTheTurn` (added to `MCPlayerInput.cfg`): the controls of a match are shown or
  hidden when the predicted match looks different, and not when a connection that is lost or a
  rejection changes who may act.

Smaller things seen on the way, which the models have as the code has them: a placement
that is answered while the contact lasts leaves a flag behind that swallows the next
shot (`client/main.rs:1022`); a called pocket stays called from shot to shot; a
registration of a subscription is left behind when the upgrade fails after it
(`server/http.rs:812`); a list of challenges fails for everybody when one challenger has
no handle.

## Proofs

The eight `...Proofs` modules prove, for all values of the constants that satisfy
the named assumptions of the modules (the balls are distinct, matches are numbers,
bounds are natural numbers, the marks of an absent row or revision are no rows and
no revisions; spots of the window have integer coordinates and aim at one of the
10000 steps of a turn, the spin is one that the slider gives, games that a page joins
are games, the fixtures of a shot are tables of balls; what is recorded is a configuration and
tables that their constructors accept, a frame of numbers of their widths, two different
accounts, a deadline of at most 63 bits and a shot within the limits of the protocol):

- `EightBall`, in `GameDomainProofs`: `TypeCorrect`, `CueBallIsNeverLost`, `EightsEndMatches`,
  `BreaksAreFull`, `ResultsAreEarned`, `ExtraTurns`, and the refinement
  `RefinesTurnGame`.
- `MatchCodec`, in `GameDomainProofs`: `ResultsRoundTrip`, `SnapshotRead`,
  `RecordedResultsSurvive`, `ResultsAreCanonical`, `CutsAreRefused` and
  `DamagedPayloadsAreNoticed`.
- `JournalRows`, in `GameDomainProofs`: `RecordedRowsSurvive`, that is `RecordsSurvive`.
- `TableCodec`, in `WireProtocolProofs`: `TablesRoundTrip`.
- `ShotSimulation`, in `GameDomainProofs`: `EachFallIsReported` and `TouchedReportsAreShots`.
- `MatchAuthority`: `TypeCorrect`, `RecoveryIsSafe`, `RowsAreTails`,
  `AcceptanceIsDurable`, `MemoryIsDurable`, `PlayedMatchesArePolled`, `NoRewind`,
  `NoEarlyTimeout`, and the refinement `RefinesCommandLog`.
- `Readiness`, in `MatchAuthorityProofs`: `ProbesRefuseWithReason`.
- `WireProtocol`: `EnvelopesRoundTrip`, `SnapshotsRoundTrip`.
- `PlayerInput`: `ClientInvariant`, `FramesUnderstood`, `PredictionGrounded`,
  `PlacingNeverShoots`, `CancelledContactsDoNothing`.
- `MatchDelivery`: `TypeCorrect`, `NothingStale`, `BaseIsCurrent`.
- `WaitingLobby`: `TypeCorrect`, `ReadinessIsLeased`, `ReadinessIsAsked`,
  `StartsAreAgreed`, and the refinement `LobbyIsOneShot`.
- `Matchmaking`: `TypeCorrect`, `TwoPlayersEverywhere`, `AnswersAgree`,
  `BreaksAlternate`, and the refinements `InvitesAreOneShot` and `MatchesAreOneShot`.
- `SignIn`: `TypeCorrect`, `OneSessionEach`, `HandlesAreKept`, and the refinement
  `KeepsIdentities`.

For `EightBall` the conjunction of the safety invariants is inductive. That a
win is earned needs that the active player does not change when a match is
completed, and a full rack at every break needs that a group can only be assigned
off the break; both are conjuncts.

For `MatchAuthority` the checked invariants are not inductive; `IInv` adds what
the interleavings rely on:

- `NothingBeforeCreation`: a match that was not created has no journal and is not
  loaded, so the first row is not written over anything;
- `CommitContinuesMemory`: the write under way was decided from the runtime in
  memory, which cannot change while the mutex is held, and if it is durable it is
  the last entry of the journal; this makes `Install` keep memory a prefix of the
  journal, and makes `Persist` append a record that replays;
- `LoadersHoldRows`: what a loader read out of the row at revision zero is the
  initial runtime, so that inserting it, which the code does only when the match
  is not loaded yet, is harmless;
- `RepliesAreDurable`: an answer on its way names an entry of the journal;
- `DownIsEmpty` and `PollsAreLoaded`: a crash leaves nothing behind, and polls
  list loaded matches only.

One lemma per action shows that it preserves `IInv`; lemmas about appending to a
history (`Replays`, `GameAfter`) are stated once. `RefinesCommandLog` uses `IInv` to
show that `Persist` is the only step that extends a history, and that it is an
`Accept` of the abstract log; `Respond` is its `Acknowledge`, and everything else
stutters. `NoRewind` follows from `IInv` and the guards of the insertions.
`NoEarlyTimeout` needs `Timely` besides: the deadline in memory is the row's unless
memory is behind the row, a poll holds a time that has passed, and a timeout of the
scheduler under way was decided against a deadline in memory that has passed. The commit compares the
revisions, so a timeout that reaches the journal was decided against the row's own
deadline.

For `Readiness`, a step of the probe is a step of `MatchAuthority` or leaves it alone, so
`IInv` holds of it too, and `ProbeInv` says what the three reads of a probe have seen:
the heads it copied belong to created matches and are not ahead of the rows
(`HeadsAreEarlier`), and the row it read lies between the head and the row that is
there when the tail is read, and is that row if their revisions agree (`RowIsBetween`). Rows only
move to later revisions (`RowsMoveOn`). If the row has not moved since the head was copied, all
three are the same, a row at its revision decodes and has no commands after it
(`RowsAreCanonical`), and the comparison cannot fail. That the query and the map list
what is there, each match once, needs that finitely many matches were created and that
both orders are total: a finite set has an ordered enumeration (`ListedIsList`).

For `WireProtocol`, `ByteStrings` reads a payload by fields, and `ReadAllByStep` says what
the reader has after each of them, when the payload holds them one after the other
(`Holds`, `FiveParts`, `SevenParts`). The two round trips put these together, field by field:
what a number of 16 bits in two's complement, a pocket, a command and an envelope become and
are read as. Frames of every command a client may send are covered, of every aim, power and
spin and of every revision and identifier of their widths, and snapshots of every length that
may be sent. The sizes show that what is written is within the bounds of the readers.

The payloads of results in `MatchCodec` have parts of lengths of their own, so they are
read from the front: `Ends` says what is left of the bytes after the first few, and each
part has a lemma that its reader takes it and leaves the rest (`FrontByte`, `FoulsRead`,
`TakesStatus`, `ShotTailRead`). Reading refuses results that contradict themselves (a
completed match with a next player or with the cue ball in hand, a foul that comes twice),
so that every recorded result is read back needs the rules as well:
`RecordedResultsSurvive` takes `CompletedSnapshotDecodes` and the types from the invariant
of `EightBall`, and that each foul is committed at most once from the order they are listed
in (`NextFoul`).

Damage goes the other way: it asks what the readers make of bytes that nobody wrote. Each part
of a result has a second lemma, that whatever its reader accepted begins with the
encoding of what it got (`BytesAccepted`, `FoulsAccepted`, `StatusAccepted`,
`ShotTailAccepted`), and together they say that an accepted payload is the payload of what it is taken
for (`ResultsAreCanonical`): no two payloads are taken for the same result, so a damaged one is
refused or noticed. That a cut is refused (`CutsAreRefused`) compares two readers, one of
the payload and one of its beginning: after each field they have got the same, or the second
has failed (`Along`), and a reader that failed does not recover (`FailedOnce`). They cannot both
have finished, because they would have to be at the end of both.

Snapshots and configurations are longer, and their readers carry a record from field to
field, so that a lemma of a field says what the record has after it and that it keeps what it
had (`Says`, `With`). A table is a row of fields for each ball that is on it, joined
to one string (`Joined`): its reader takes as many rows as the count says, and that it
finds each ball where it was laid is by induction over the numbers of the balls.
`TablesRoundTrip` holds for every table of up to sixteen balls and every geometry the
constructor accepts it for, and with the bounds on the lengths `SnapshotRead` says that
a state of the game is what its reader makes of its bytes. `CommandIsRead` takes them through the
columns: hexadecimal digits pair by pair, revisions and checksums through the signed
integers and texts they are kept in, the deadline, the summary of a match that is over, and
the previous match a rematch reads. The invariant is `BrokenInv`: the `IInv` of `EightBall`, a
result that is one of the recorded ones, and a breaker who is a player. `commit_command` refuses
nothing but a revision whose successor does not fit a column (`FitsInteger`); `SuccessorMoves` says
that the others never wrap to zero, which would be taken for a match nobody played.

For `ShotSimulation`, a stage of a tick passes on a table and the events so far, and
`Tally` says what a stage that began with a table has done to it: the balls it moved keep
their names, and the reports of pockets among its events name exactly the balls that were in
play and are not any more, each once. Every step of a stage keeps that: a ball that meets
a pocket or a cushion, a pair in contact, the cloth, the separation of overlaps. The loops
of the stages visit balls and segments in turn, so that each has a lemma of what one more
turn does (`StageByStep`, `CushionsByStep`, `ContactsByStep`), and `Upwards` makes the whole
of it. Sorting the events of a tick and joining them to those of earlier ticks neither
loses nor doubles a report (`InOrderTally`, `TalliesJoin`). The invariant is `FallenInv`:
the events of the shot in flight are a `Tally` from the table before it to the table as
it is. Nothing of it depends on where a ball goes, so that it holds for every table,
profile and shot.

The keys of a `Tally` also say which events a stage can report: contacts of two different balls
in play, in order, and falls into one of the six pockets. `TouchedFits` reads a report out of
such events, one field at a time: the first of a kind is found where `EarliestIndex` says.

For `PlayerInput`, `IInv` adds to the types that the practice page sends nothing
(`Practising`), that the known revision is the one shown and not ahead of the server
(`Known`: a snapshot that arrives is never stale, so taking it is sound), and what
a contact has done stays in the input as long as it lasts (`ContactsAreRemembered`).
A frame of the client is a chain of updates of one record, and one lemma per system of
the chain says what it keeps and when it gives a command. Each command that is given is
an envelope of `WireProtocolProofs` (aims and powers that the pointers give are within
the limits of the protocol, whatever the window), so that `FramesUnderstood` is a corollary of
`EnvelopesRoundTrip`.

For `WaitingLobby`, `LobbyInv` adds to the type that a connection has one lease
and that an identifier was drawn by one request (`OneLeasePerConnection`). Without
it, a second lease of the same connection could be revived by a heartbeat of the
first, and `ReadinessLapses` and `ReadinessIsExplicit`, which follow a lease by its
connection, would not hold. The three action properties then follow from what each
operator of `LobbyStore` does to a lease, and `LobbyIsOneShot` from `Startable`,
which looks at the status again inside the transaction.

For `Matchmaking` the invariants stand almost by themselves. `SeatsAreDistinct`
needs that no challenge is to oneself, `AnswersNameTheLobby` that what was answered
was accepted, and `RematchesAlternate` is inductive as it stands because an offer,
once it is accepted, is not written again. The two refinements go action by action: the
transactions that insert a lobby or a match are the `Use` of the abstract handover,
creation is its `Open`, revoking, expiring and cancelling are its `Withdraw`.

For `MatchDelivery`, `NoStaleDelivery` looks at the messages under way and is far
from inductive. `IInv` says of every connection (`Link`) that the snapshots on it
climb and stay below `delivered_revision` of its task, which itself stays below the
match, that the answer a task is about to give is newer than what it delivered, that
nothing is on the connection before the version is negotiated, and that its task
hears nothing but commands after; and of every browser (`Held`) that it knows no more
than its task has delivered. That last one is what a new connection has to
establish: its first snapshot is read after the browser let the earlier one go, and
the match never goes back, not even in a crash. The steps come in three shapes, each with a
lemma of its own: one browser and its connection (`OneBrowser`), one task
(`OneTask`), and a task that writes (`Answers`, by `Followed`: messages that are
not older than those under way keep the order). Nothing in the argument needs
publications to come in order or the channel to keep them, which is the point of
`delivered_revision`.

For `SignIn`, `ClaimedOnce` adds that a callback that goes on holds an attempt whose
row is consumed or deleted, that no two hold the same one, and that none holds one
that already gave a session; rows of attempts never become pending again
(`ConsumedStays`). `KeepsIdentities` goes action by action: a step changes at most one
session the way one operation of `IdentityService` does, or several rows that were
already dead. Handles are kept because the insertion looks at both keys of the table
in its transaction, whatever was found before.

Only model-checked:

- liveness (`DueTurnsEnd`, `LoadedServersAreFoundReady`, `ReadyClientsConverge`,
  `PredictionsResolve`, `SpentRowsAreSwept`), which is out of the prover's reach;
- `ReportsAreShots`, `NoneLeavesTheBoard` and `EveryShotSettles` of the physics, which
  depend on its numbers: that no ball falls before the first contact except the cue ball
  is a matter of how far cushions and pockets are apart, and that a shot ends one of
  friction and of the length of a tick. They do not hold for every value of the constants.
  What `ReportsAreShots` says besides that is proved: `TouchedReportsAreShots` takes it as
  a hypothesis, and shows that everything else in a report is what the rules expect;
- the rest of `DamageIsNoticed`: a snapshot with a damaged byte, and rows with a damaged
  column, in the places and with the values its probes name. That no beginning of a payload
  is accepted, and all that it says of results, is proved (`DamagedPayloadsAreNoticed`). The
  argument for results does not carry over to snapshots: `from_bytes` takes the balls in any order, so
  that a state has several payloads that are read as it.

The installed provers cannot use the induction theorems of the library. Where a proof is
by induction (what a reader has after so many fields, the value of a number of
several bytes, the ordered enumeration of a finite set), it takes the least counterexample
instead (`Upwards`, from `WFMin`). The histories of `MatchAuthority` are related one command at
a time, the messages of a connection one write at a time.

## Not modelled

- The shuffle that draws a rack (`rack.rs`): any rack is taken.
- Replays (`replay_match`), which play a history again; recovery, which does
  the same, is modelled.
- The interpolation of corrections, the retry delay and the aim preview of the client,
  rendering and sound: presentation of the predicted state.
- The page of the waiting lobby in `bootstrap.js`, its other panels, the turn timer,
  and the refresh of the match access.
- `LobbyService` and `SocialService` in memory, which only their own tests use.
- What the identity provider checks (`Exchange` is external) and the text forms of
  tokens, hashes and cookies.
- `rebuild_match_summaries` over all matches, listings that only read, migrations
  (the stores are modelled with the constraints they declare), and the scripts.

The shipped client sends no timeouts, and none is sent in `MatchDelivery` and
`PlayerInput`, which model that client. The server restricts only shots, placements and
concessions to particular players (`server/lib.rs:858-869`) and takes a timeout from
either participant at any time. In `MatchAuthority` clients therefore give any command,
timeouts included, and `TimeoutsAreDue` and the second half of `CommandLog!Accept` speak
of the records that no client gave, which are the scheduler's.

## Plan

What would come next, most valuable first:

1. `LobbyPage`: the page of the waiting lobby (`bootstrap.js`) beside `LobbyStore`:
   polls and answers out of order, a page that is hidden while a poll is in flight,
   two ready leases that nobody starts.
2. The turn timer and the match access refresh of the shell beside `MatchDelivery`,
   and the authorization of participants.
3. `LobbyService` as what the comments of the store promise, and the store against
   it, up to the disagreement of `ReadyOutlivesOneConnection`.
4. The interpolation of a correction that meets another snapshot, beside
   `PlayerInput`.
5. Replays against the game in memory, and the summaries of all matches.
6. Proofs: that the readers refuse what was cut or extended, and take no two strings of
   bytes for the same state (`DamageIsNoticed`), but for the order of the balls on a table.
