---------------------------- MODULE MatchAuthority ---------------------------
(***************************************************************************)
(* The authoritative match service: MatchService in memory behind one      *)
(* asynchronous mutex, its command journal in the database, the deadline   *)
(* scheduler, the requests that load matches on first use, and crashes.    *)
(*                                                                         *)
(* A commit is awaited while the mutex is held: between the moment a       *)
(* command is decided and the moment it is installed in memory, the        *)
(* database can be read and written by others, time passes, the commit may *)
(* fail, its reply may get lost, and the process may stop.                 *)
(***************************************************************************)
EXTENDS CommandRecords

CONSTANTS
  Matches,          (* identifiers, ordered as numbers                     *)
  NoPlayer,         (* the breaker of a match that does not exist          *)
  ClientIds,        (* idempotency keys clients draw                       *)
  ClientCommands,   (* the commands clients send                           *)
  Loaders,          (* the requests that may be loading a match            *)
  TurnTime,         (* turn_duration_millis of the rules profile           *)
  LostReplies,      (* a durable commit may be reported as failed          *)
  MaxMoves,         (* bound: clients only play before this revision       *)
  MaxTime,          (* bound of the clock                                  *)
  MaxFaults         (* bound of crashes, failed and misreported operations *)

ASSUME MatchesAreOrdered == Matches \subseteq Nat

ASSUME NoPlayerAssumption == NoPlayer \notin Player

ASSUME ClientCommandsAssumption == ClientCommands \subseteq Commands

ASSUME BoundsAssumption ==
  /\ TurnTime \in Nat
  /\ MaxMoves \in Nat /\ MaxTime \in Nat /\ MaxFaults \in Nat
  /\ LostReplies \in BOOLEAN

VARIABLES
  now,         (* the wall clock                                           *)
  breaker,     (* matches table: the pinned configuration of each match    *)
  row,         (* matches table: canonical revision, snapshot and deadline *)
  journal,     (* accepted_commands table, by match, in revision order     *)
  loaded,      (* the matches of MatchService                              *)
  memory,      (* their runtimes: revision, game, deadline, accepted       *)
  commit,      (* the journal write under way: a set of at most one        *)
  poll,        (* the scheduler's current poll_due_deadlines               *)
  loader,      (* where each request is in ensure_match_loaded             *)
  replies,     (* accepted commands not yet broadcast and answered         *)
  announced,   (* the highest revision of each match subscribers were sent *)
  acked,       (* the acknowledgements participants were given             *)
  up,          (* the process is serving                                   *)
  faults

durable  == <<breaker, row, journal>>
runtimes == <<loaded, memory>>
volatile == <<runtimes, commit, poll, loader, replies, announced>>
vars     == <<now, durable, volatile, acked, up, faults>>

-----------------------------------------------------------------------------
TimeoutId(revision, player) == <<revision, player>>

RowAt(revision, game, deadline) == [revision |-> revision, game |-> game, deadline |-> deadline]

RuntimeAt(revision, game, deadline, accepted) ==
  [revision |-> revision, game |-> game, deadline |-> deadline, accepted |-> accepted]

Created(m) == breaker[m] # NoPlayer

(* A match as recover_match reads it out of the journal, or, when no       *)
(* command was ever accepted, as initial_match reads it out of its row.    *)
Recovered(m) ==
  LET n == Len(journal[m])
  IN  IF n = 0
      THEN RuntimeAt(0, row[m].game, row[m].deadline, {})
      ELSE RuntimeAt(n, journal[m][n].game, journal[m][n].deadline,
                     {journal[m][i] : i \in 1 .. n})

MutexFree == commit = {} /\ poll.phase # "running"

(* What stands in for a row, a runtime or a request that does not exist. *)
NoRow      == RowAt(0, NewGame("One"), {})
NoRuntime  == RuntimeAt(0, NewGame("One"), {}, {})
IdlePoll   == [phase |-> "idle", at |-> 0, due |-> {}, done |-> {}]
IdleLoader == [phase |-> "idle", match |-> NoPlayer, head |-> NoRow]

-----------------------------------------------------------------------------
Init ==
  /\ now = 0
  /\ breaker = [m \in Matches |-> NoPlayer]
  /\ row = [m \in Matches |-> NoRow]
  /\ journal = [m \in Matches |-> <<>>]
  /\ loaded = {}
  /\ memory = [m \in Matches |-> NoRuntime]
  /\ commit = {}
  /\ poll = IdlePoll
  /\ loader = [l \in Loaders |-> IdleLoader]
  /\ replies = {}
  /\ announced = [m \in Matches |-> 0]
  /\ acked = {}
  /\ up = TRUE
  /\ faults = 0

Tick ==
  /\ now < MaxTime
  /\ now' = now + 1
  /\ UNCHANGED <<durable, volatile, acked, up, faults>>

(* start_ready_lobby and accept_rematch: the match row is inserted with    *)
(* its first deadline, then the same request goes on to load the match.    *)
CreateMatch(l, m, p) ==
  /\ up /\ ~Created(m) /\ loader[l].phase = "idle"
  /\ breaker' = [breaker EXCEPT ![m] = p]
  /\ row' = [row EXCEPT ![m] =
               RowAt(0, NewGame(p), {DeadlineOf(0, NewGame(p), now + TurnTime)})]
  /\ loader' = [loader EXCEPT ![l] = [phase |-> "check", match |-> m, head |-> NoRow]]
  /\ UNCHANGED <<now, journal, runtimes, commit, poll, replies, announced, acked, up, faults>>

-----------------------------------------------------------------------------
(* ensure_match_loaded, one action per await.                              *)
LoaderStep(l, phase, next) ==
  /\ up /\ loader[l].phase = phase
  /\ loader' = [loader EXCEPT ![l] = next]
  /\ UNCHANGED <<now, durable, commit, poll, replies, acked, up, faults>>

AtPhase(l, phase) == [loader[l] EXCEPT !.phase = phase]

RequestMatch(l, m) ==
  /\ Created(m)
  /\ LoaderStep(l, "idle", [phase |-> "check", match |-> m, head |-> NoRow])
  /\ UNCHANGED <<runtimes, announced>>

CheckLoaded(l) ==
  /\ MutexFree
  /\ LoaderStep(l, "check", IF loader[l].match \in loaded THEN IdleLoader ELSE AtPhase(l, "read"))
  /\ UNCHANGED <<runtimes, announced>>

ReadRecords(l) ==
  /\ LoaderStep(l, "read",
                AtPhase(l, IF journal[loader[l].match] = <<>> THEN "initial" ELSE "recover"))
  /\ UNCHANGED <<runtimes, announced>>

(* initial_match refuses a row that has moved on since the records were read. *)
ReadInitial(l) ==
  /\ LoaderStep(l, "initial",
                IF row[loader[l].match].revision = 0
                THEN [AtPhase(l, "insert") EXCEPT !.head = row[loader[l].match]]
                ELSE IdleLoader)
  /\ UNCHANGED <<runtimes, announced>>

Load(m, runtime) ==
  /\ loaded' = loaded \cup {m}
  /\ memory' = [memory EXCEPT ![m] = runtime]
  /\ announced' = [announced EXCEPT ![m] = runtime.revision]

InsertInitial_Blindly(l) ==
  /\ MutexFree
  /\ LoaderStep(l, "insert", IdleLoader)
  /\ Load(loader[l].match, RuntimeAt(0, loader[l].head.game, loader[l].head.deadline, {}))

(* load_match checks again under the mutex before it inserts. *)
InsertInitial(l) ==
  /\ MutexFree
  /\ LoaderStep(l, "insert", IdleLoader)
  /\ IF loader[l].match \in loaded
     THEN UNCHANGED <<runtimes, announced>>
     ELSE Load(loader[l].match, RuntimeAt(0, loader[l].head.game, loader[l].head.deadline, {}))

InsertRecovered(l) ==
  LET m == loader[l].match
  IN  /\ MutexFree
      /\ LoaderStep(l, "recover", IdleLoader)
      /\ IF m \in loaded \/ ~Replayable(breaker[m], journal[m])
         THEN UNCHANGED <<runtimes, announced>>
         ELSE Load(m, Recovered(m))

(* A database error, or the request is dropped with its connection. *)
LoaderFails(l) ==
  /\ faults < MaxFaults
  /\ up /\ loader[l].phase # "idle"
  /\ loader' = [loader EXCEPT ![l] = IdleLoader]
  /\ faults' = faults + 1
  /\ UNCHANGED <<now, durable, runtimes, commit, poll, replies, announced, acked, up>>

-----------------------------------------------------------------------------
Record(m, id, p, c, time) ==
  LET r    == memory[m]
      game == Apply(r.game, c)
  IN  [ id |-> id, actor |-> p, expected |-> r.revision, cmd |-> c, game |-> game,
        deadline |-> IF game.over THEN {}
                     ELSE {DeadlineOf(r.revision + 1, game, time + TurnTime)} ]

Decide_AnyActor(m, id, p, c, time) ==
  /\ \A e \in memory[m].accepted : e.id # id
  /\ Allowed(memory[m].game, c)
  /\ commit' = {[match |-> m, record |-> Record(m, id, p, c, time), durable |-> FALSE]}

(* apply_at up to the journal commit: the command passes every check. *)
Decide(m, id, p, c, time) ==
  /\ \A e \in memory[m].accepted : e.id # id
  /\ Allowed(memory[m].game, c)
  /\ MayGive(memory[m].game, p, c)
  /\ commit' = {[match |-> m, record |-> Record(m, id, p, c, time), durable |-> FALSE]}

(* A client gives a command at the current revision of its match.  It may  *)
(* be any command that CommandEnvelope decodes, a timeout as well: apply_at*)
(* asks no more of one than of any other command.                          *)
Submit(m, id, p, c) ==
  /\ up /\ MutexFree /\ m \in loaded
  /\ memory[m].revision < MaxMoves
  /\ Decide(m, id, p, c, now)
  /\ UNCHANGED <<now, durable, runtimes, poll, loader, replies, announced, acked, up, faults>>

Resubmit_AsNew(m, e) ==
  /\ up /\ MutexFree /\ m \in loaded
  /\ e \in memory[m].accepted /\ e.id \in ClientIds
  /\ replies' = replies \cup {[match |-> m, id |-> e.id, revision |-> memory[m].revision,
                               head |-> memory[m].revision]}
  /\ UNCHANGED <<now, durable, runtimes, commit, poll, loader, announced, acked, up, faults>>

(* The same frame from the same actor again: the first acknowledgement is  *)
(* repeated together with the current snapshot.                            *)
Resubmit(m, e) ==
  /\ up /\ MutexFree /\ m \in loaded
  /\ e \in memory[m].accepted /\ e.id \in ClientIds
  /\ replies' = replies \cup {[match |-> m, id |-> e.id, revision |-> e.expected + 1,
                               head |-> memory[m].revision]}
  /\ UNCHANGED <<now, durable, runtimes, commit, poll, loader, announced, acked, up, faults>>

Persistable_AnyRevision(m, e) == \A i \in DOMAIN journal[m] : journal[m][i].id # e.id

(* The transaction of commit_command compares the revision, and            *)
(* accepted_commands has the match and the command identifier as its key.  *)
Persistable(m, e) ==
  /\ row[m].revision = e.expected
  /\ \A i \in DOMAIN journal[m] : journal[m][i].id # e.id

Persist_KeepRow ==
  \E w \in commit :
    /\ up /\ ~w.durable /\ Persistable(w.match, w.record)
    /\ journal' = [journal EXCEPT ![w.match] = Append(@, w.record)]
    /\ commit' = {[w EXCEPT !.durable = TRUE]}
    /\ UNCHANGED <<now, breaker, row, runtimes, poll, loader, replies, announced, acked, up, faults>>

Persist ==
  \E w \in commit :
    /\ up /\ ~w.durable /\ Persistable(w.match, w.record)
    /\ journal' = [journal EXCEPT ![w.match] = Append(@, w.record)]
    /\ row' = [row EXCEPT ![w.match] =
                 RowAt(w.record.expected + 1, w.record.game, w.record.deadline)]
    /\ commit' = {[w EXCEPT !.durable = TRUE]}
    /\ UNCHANGED <<now, breaker, runtimes, poll, loader, replies, announced, acked, up, faults>>

Install_BeforeCommit ==
  \E w \in commit :
    LET m == w.match
        e == w.record
    IN  /\ up
        /\ memory' = [memory EXCEPT ![m] =
             RuntimeAt(e.expected + 1, e.game, e.deadline, memory[m].accepted \cup {e})]
        /\ commit' = {}
        /\ replies' = replies \cup {[match |-> m, id |-> e.id, revision |-> e.expected + 1,
                                     head |-> e.expected + 1]}
        /\ UNCHANGED <<now, durable, loaded, poll, loader, announced, acked, up, faults>>

(* After the commit: apply_at installs the new state.  A client's command  *)
(* then has to be broadcast and answered, outside the mutex; a poll goes   *)
(* on with the mutex held.                                                 *)
Install ==
  \E w \in commit :
    LET m == w.match
        e == w.record
    IN  /\ up /\ w.durable
        /\ memory' = [memory EXCEPT ![m] =
             RuntimeAt(e.expected + 1, e.game, e.deadline, memory[m].accepted \cup {e})]
        /\ commit' = {}
        /\ IF poll.phase = "running"
           THEN /\ poll' = [poll EXCEPT !.done = @ \cup {m}]
                /\ UNCHANGED replies
           ELSE /\ replies' = replies \cup {[match |-> m, id |-> e.id, revision |-> e.expected + 1,
                                             head |-> e.expected + 1]}
                /\ UNCHANGED poll
        /\ UNCHANGED <<now, durable, loaded, loader, announced, acked, up, faults>>

GiveUp_StopScheduler ==
  /\ commit' = {}
  /\ poll' = IF poll.phase = "running" THEN [IdlePoll EXCEPT !.phase = "stopped"] ELSE poll
  /\ UNCHANGED <<now, durable, runtimes, loader, replies, announced, acked, up>>

(* The commit is refused, fails, or is reported to have failed: apply_at   *)
(* returns the error and leaves memory alone.  A client is told            *)
(* "rejected"; a poll stops there and forgets what it has accepted so far. *)
GiveUp ==
  /\ commit' = {}
  /\ poll' = IF poll.phase = "running" THEN IdlePoll ELSE poll
  /\ UNCHANGED <<now, durable, runtimes, loader, replies, announced, acked, up>>

CommitRefused ==
  /\ up
  /\ \E w \in commit : ~w.durable /\ ~Persistable(w.match, w.record)
  /\ GiveUp /\ UNCHANGED faults

CommitFails ==
  /\ up /\ faults < MaxFaults
  /\ \E w \in commit : w.durable => LostReplies
  /\ GiveUp /\ faults' = faults + 1

(* apply_transport_command after the mutex is released: the snapshot is    *)
(* broadcast, then the command is answered on its own socket.              *)
Respond(a) ==
  /\ up
  /\ replies' = replies \ {a}
  /\ announced' = [announced EXCEPT ![a.match] = IF a.head > @ THEN a.head ELSE @]
  /\ acked' = acked \cup {[match |-> a.match, id |-> a.id, revision |-> a.revision]}
  /\ UNCHANGED <<now, durable, runtimes, commit, poll, loader, up, faults>>

-----------------------------------------------------------------------------
PollWakes_Early ==
  /\ up /\ poll.phase = "idle"
  /\ poll' = [IdlePoll EXCEPT !.phase = "waiting", !.at = now + 1]
  /\ UNCHANGED <<now, durable, runtimes, commit, loader, replies, announced, acked, up, faults>>

(* scheduler_loop reads the clock first and then waits for the mutex.      *)
PollWakes ==
  /\ up /\ poll.phase = "idle"
  /\ poll' = [IdlePoll EXCEPT !.phase = "waiting", !.at = now]
  /\ UNCHANGED <<now, durable, runtimes, commit, loader, replies, announced, acked, up, faults>>

DueDeadlines(time) ==
  { d \in UNION { {[match |-> m, deadline |-> x] : x \in memory[m].deadline} : m \in loaded } :
      d.deadline.due <= time }

PollStarts ==
  /\ up /\ poll.phase = "waiting" /\ MutexFree
  /\ poll' = [poll EXCEPT !.phase = "running", !.due = DueDeadlines(poll.at)]
  /\ UNCHANGED <<now, durable, runtimes, commit, loader, replies, announced, acked, up, faults>>

Earlier(d, e) ==
  \/ d.deadline.due < e.deadline.due
  \/ d.deadline.due = e.deadline.due /\ d.match < e.match

(* apply_due_deadline: a deadline whose turn is no longer played is skipped. *)
Current(d) ==
  /\ ~memory[d.match].game.over
  /\ d.deadline \in memory[d.match].deadline
  /\ d.deadline.due <= poll.at
  /\ d.deadline.revision = memory[d.match].revision
  /\ d.deadline.player = memory[d.match].game.active

PollNext ==
  /\ up /\ poll.phase = "running" /\ commit = {}
  /\ \E d \in poll.due :
       /\ \A e \in poll.due \ {d} : Earlier(d, e)
       /\ poll' = [poll EXCEPT !.due = @ \ {d}]
       /\ IF Current(d)
          THEN Decide(d.match, TimeoutId(d.deadline.revision, d.deadline.player),
                      d.deadline.player, "timeout", poll.at)
          ELSE UNCHANGED commit
  /\ UNCHANGED <<now, durable, runtimes, loader, replies, announced, acked, up, faults>>

(* HttpState::poll_due_deadlines broadcasts every accepted timeout before  *)
(* it releases the mutex.                                                  *)
PollEnds ==
  /\ up /\ poll.phase = "running" /\ commit = {} /\ poll.due = {}
  /\ announced' = [m \in Matches |-> IF m \in poll.done THEN memory[m].revision ELSE announced[m]]
  /\ poll' = IdlePoll
  /\ UNCHANGED <<now, durable, runtimes, commit, loader, replies, acked, up, faults>>

-----------------------------------------------------------------------------
(* The process stops, losing everything that is not in the database. *)
Crash ==
  /\ up /\ faults < MaxFaults
  /\ up' = FALSE
  /\ faults' = faults + 1
  /\ loaded' = {}
  /\ memory' = [m \in Matches |-> NoRuntime]
  /\ commit' = {}
  /\ poll' = IdlePoll
  /\ loader' = [l \in Loaders |-> IdleLoader]
  /\ replies' = {}
  /\ announced' = [m \in Matches |-> 0]
  /\ UNCHANGED <<now, durable, acked>>

Recover_Lazily ==
  /\ ~up
  /\ up' = TRUE
  /\ UNCHANGED <<now, durable, volatile, acked, faults>>

(* recover_all_matches runs before the server listens: one match that      *)
(* cannot be recovered keeps it from starting.                             *)
Recover ==
  /\ ~up
  /\ \A m \in Matches : Created(m) => Replayable(breaker[m], journal[m])
  /\ up' = TRUE
  /\ loaded' = {m \in Matches : Created(m)}
  /\ memory' = [m \in Matches |-> IF Created(m) THEN Recovered(m) ELSE NoRuntime]
  /\ announced' = [m \in Matches |-> IF Created(m) THEN Recovered(m).revision ELSE 0]
  /\ UNCHANGED <<now, durable, commit, poll, loader, replies, acked, faults>>

Loading ==
  \E l \in Loaders :
    \/ CheckLoaded(l) \/ ReadRecords(l) \/ ReadInitial(l)
    \/ InsertInitial(l) \/ InsertRecovered(l)

Committing == Persist \/ Install \/ CommitRefused

Polling == PollNext \/ PollEnds

Next ==
  \/ Tick
  \/ \E l \in Loaders, m \in Matches, p \in Player : CreateMatch(l, m, p)
  \/ \E l \in Loaders, m \in Matches : RequestMatch(l, m)
  \/ Loading
  \/ \E l \in Loaders : LoaderFails(l)
  \/ \E m \in Matches, id \in ClientIds, p \in Player, c \in ClientCommands : Submit(m, id, p, c)
  \/ \E m \in Matches : \E e \in memory[m].accepted : Resubmit(m, e)
  \/ Committing
  \/ CommitFails
  \/ \E a \in replies : Respond(a)
  \/ PollWakes
  \/ PollStarts
  \/ Polling
  \/ Crash
  \/ Recover

Spec == Init /\ [][Next]_vars

(* What the runtime schedules: a task that can run eventually does, and a  *)
(* task that waits for the mutex gets it, because the mutex is first in,   *)
(* first out.  Nothing promises that clients act, that a match is          *)
(* requested again, or that operations fail.                               *)
Fairness ==
  /\ WF_vars(Tick)
  /\ WF_vars(Recover)
  /\ WF_vars(Committing)
  /\ WF_vars(PollWakes)
  /\ SF_vars(PollStarts)
  /\ WF_vars(Polling)
  /\ \A l \in Loaders : SF_vars(CheckLoaded(l) \/ InsertInitial(l) \/ InsertRecovered(l))
                       /\ WF_vars(ReadRecords(l) \/ ReadInitial(l))
  /\ WF_vars(\E a \in replies : Respond(a))

FairSpec == Spec /\ Fairness

-----------------------------------------------------------------------------
Ids == ClientIds \cup (Nat \X Player)

Deadlines == [revision : Nat, player : Player, due : Nat]

Records == [ id : Ids, actor : Player, expected : Nat, cmd : Commands, game : Games,
             deadline : SUBSET Deadlines ]

Rows == [revision : Nat, game : Games, deadline : SUBSET Deadlines]

(* Every variable has the shape of the table or structure it stands for.   *)
TypeOK ==
  /\ now \in Nat
  /\ breaker \in [Matches -> Player \cup {NoPlayer}]
  /\ row \in [Matches -> Rows]
  /\ journal \in [Matches -> Seq(Records)]
  /\ loaded \subseteq Matches
  /\ memory \in [Matches -> [revision : Nat, game : Games, deadline : SUBSET Deadlines,
                             accepted : SUBSET Records]]
  /\ commit \subseteq [match : Matches, record : Records, durable : BOOLEAN]
  /\ \A v, w \in commit : v = w
  /\ poll \in [phase : {"idle", "waiting", "running"}, at : Nat,
              due : SUBSET [match : Matches, deadline : Deadlines], done : SUBSET Matches]
  /\ loader \in [Loaders -> [phase : {"idle", "check", "read", "initial", "insert", "recover"},
                             match : Matches \cup {NoPlayer}, head : Rows]]
  /\ replies \subseteq [match : Matches, id : Ids, revision : Nat, head : Nat]
  /\ announced \in [Matches -> Nat]
  /\ acked \subseteq [match : Matches, id : Ids, revision : Nat]
  /\ up \in BOOLEAN
  /\ faults \in Nat

(* Whatever was committed, in whatever order requests, timeouts, failures  *)
(* and crashes came, recover_match accepts the history again: revisions    *)
(* are contiguous, identifiers unique, every snapshot is the replay of its *)
(* command, nothing follows completion.  One history that did not would    *)
(* keep the whole server from starting.                                    *)
RecoveryNeverFails == \A m \in Matches : Replayable(breaker[m], journal[m])

(* The match row and the journal tell the same story, which is what        *)
(* canonical_head demands for readiness, and a match that is not over      *)
(* always has a deadline in the database for the turn being played.        *)
RowIsTail ==
  \A m \in Matches : Created(m) =>
    LET n == Len(journal[m])
    IN  /\ row[m].revision = n
        /\ row[m].game = GameAfter(breaker[m], journal[m], n)
        /\ Armed(row[m].deadline, n, row[m].game)
        /\ n > 0 => row[m].deadline = journal[m][n].deadline

(* No participant is ever told of an acceptance that a crash could undo:   *)
(* an acknowledged identifier is in the journal at the acknowledged        *)
(* revision, also when the acknowledgement repeats an earlier one.         *)
AckedIsDurable ==
  \A a \in acked : /\ a.revision \in DOMAIN journal[a.match]
                   /\ journal[a.match][a.revision].id = a.id

(* Memory holds what the journal holds, up to the revision it has reached, *)
(* including every key by which a repeated command is recognised.          *)
MemoryIsDurablePrefix ==
  \A m \in loaded :
    /\ memory[m].revision <= Len(journal[m])
    /\ memory[m].game = GameAfter(breaker[m], journal[m], memory[m].revision)
    /\ memory[m].accepted = {journal[m][i] : i \in 1 .. memory[m].revision}

(* A match that has been played is in memory whenever the server is up, so *)
(* that its deadlines are polled although nobody is connected to it.       *)
PlayedMatchesStayLoaded ==
  \A m \in Matches : up /\ journal[m] # <<>> => m \in loaded

(* Loading never puts back an older state of a match that is being played: *)
(* the check, the reads and the insertion are different moments.           *)
MemoryNeverRewinds ==
  [][\A m \in loaded \cap loaded' : memory[m].revision <= memory'[m].revision]_vars

(* The scheduler times a turn out only once its durable deadline has       *)
(* passed, and at the expense of the player whose turn it is, although it  *)
(* looked at the clock before it waited for the mutex, and a command that  *)
(* was given meanwhile has armed another deadline.  (Commands that clients *)
(* gave carry one of their identifiers.)                                   *)
TimeoutsAreDue ==
  [][ \A m \in Matches :
        LET n == Len(journal[m])
        IN  /\ journal'[m] # journal[m]
            /\ journal'[m][n + 1].id \notin ClientIds
            => \E d \in row[m].deadline :
                 d.due <= now /\ d.player = journal'[m][n + 1].actor ]_vars

Log == INSTANCE CommandLog WITH log <- journal

(* The service implements the abstract history of accepted commands.       *)
ImplementsCommandLog == Log!Spec

(* "publishing each resulting complete snapshot before another command can *)
(* advance the same in-process authority" (HttpState::poll_due_deadlines): *)
(* once the mutex is free, subscribers were sent all timeouts it accepted. *)
TimeoutsArePublished ==
  up /\ MutexFree =>
    \A m \in loaded : \A e \in memory[m].accepted :
      e.id \notin ClientIds => announced[m] > e.expected

(* The deadline of the turn played at revision n has passed. *)
Overdue(m, n) == row[m].revision = n /\ \E d \in row[m].deadline : d.due <= now

(* The turns the bounds let a match reach. *)
Revisions == 0 .. MaxMoves + MaxTime

(* A turn of a loaded match whose deadline has passed comes to an end, by  *)
(* a command or by the timeout, through failed commits and crashes.        *)
DueTurnsEnd ==
  \A m \in Matches, n \in Revisions :
    (m \in loaded /\ Overdue(m, n)) ~> row[m].revision > n

(* "Disconnect never pauses a started turn deadline" (INVARIANTS.md:32):   *)
(* the same for every match that was started.                              *)
StartedTurnsEnd ==
  \A m \in Matches, n \in Revisions :
    (Created(m) /\ Overdue(m, n)) ~> row[m].revision > n
=============================================================================
