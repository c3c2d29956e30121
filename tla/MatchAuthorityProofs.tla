------------------------ MODULE MatchAuthorityProofs -------------------------
(***************************************************************************)
(* Proofs about MatchAuthority for any number of matches, clients and      *)
(* requests, any turn time, and any number of crashes, failed commits and  *)
(* lost replies.                                                           *)
(***************************************************************************)
EXTENDS Readiness, FiniteSetTheorems, TLAPS

(* A match that was not created has no history and is not in memory.       *)
NothingBeforeCreation == \A m \in Matches : ~Created(m) => journal[m] = <<>> /\ m \notin loaded

(* The commit under way continues what memory holds, and once it is        *)
(* durable it is the journal's next record.                                *)
CommitContinuesMemory ==
  \A w \in commit :
    LET m == w.match
        e == w.record
        g == memory[m].game
    IN  /\ m \in loaded
        /\ e.expected = memory[m].revision
        /\ Allowed(g, e.cmd) /\ MayGive(g, e.actor, e.cmd)
        /\ e.id \notin ClientIds => e.cmd = "timeout" /\ e.actor = g.active
        /\ e.game = Apply(g, e.cmd)
        /\ Armed(e.deadline, e.expected + 1, e.game)
        /\ w.durable => /\ e.expected + 1 \in DOMAIN journal[m]
                        /\ journal[m][e.expected + 1] = e

(* What a request still holds of the row it read is the row, as long as    *)
(* nobody has loaded the match.                                            *)
LoadersHoldRows ==
  \A l \in Loaders :
    /\ loader[l].phase # "idle" => loader[l].match \in Matches /\ Created(loader[l].match)
    /\ loader[l].phase = "insert" /\ loader[l].match \notin loaded =>
         loader[l].head = row[loader[l].match]

RepliesAreDurable ==
  \A a \in replies : /\ a.revision \in DOMAIN journal[a.match]
                     /\ journal[a.match][a.revision].id = a.id

DownIsEmpty == ~up => commit = {} /\ replies = {} /\ \A l \in Loaders : loader[l].phase = "idle"

PollsAreLoaded == \A d \in poll.due : d.match \in loaded

IInv ==
  /\ TypeOK
  /\ RecoveryNeverFails
  /\ RowIsTail
  /\ NothingBeforeCreation
  /\ MemoryIsDurablePrefix
  /\ PlayedMatchesStayLoaded
  /\ CommitContinuesMemory
  /\ LoadersHoldRows
  /\ RepliesAreDurable
  /\ AckedIsDurable
  /\ DownIsEmpty
  /\ PollsAreLoaded

-----------------------------------------------------------------------------
(* Appending a record leaves the records before it alone.                  *)
LEMMA AppendRecord ==
  ASSUME NEW h \in Seq(Records), NEW e \in Records
  PROVE  /\ Append(h, e) \in Seq(Records)
         /\ Len(Append(h, e)) = Len(h) + 1
         /\ \A i \in 1 .. Len(h) : Append(h, e)[i] = h[i]
         /\ Append(h, e)[Len(h) + 1] = e
         /\ Len(h) \in Nat
OBVIOUS

(* The games a history went through are not changed by what follows.       *)
LEMMA GameAfterAppend ==
  ASSUME NEW b, NEW h \in Seq(Records), NEW e \in Records, NEW n \in 0 .. Len(h)
  PROVE  GameAfter(b, Append(h, e), n) = GameAfter(b, h, n)
BY AppendRecord DEF GameAfter

(* A replayable history can be continued by a record that replays after it. *)
LEMMA ReplayableAppend ==
  ASSUME NEW b, NEW h \in Seq(Records), NEW e \in Records,
         Replayable(b, h), Replays(b, h, Len(h), e)
  PROVE  Replayable(b, Append(h, e))
<1> DEFINE h2 == Append(h, e)
<1> SUFFICES ASSUME NEW n \in 1 .. Len(h) + 1
             PROVE  Replays(b, h2, n - 1, h2[n])
  BY AppendRecord DEF Replayable
<1>1. n - 1 \in 0 .. Len(h) /\ GameAfter(b, h2, n - 1) = GameAfter(b, h, n - 1)
  BY AppendRecord, GameAfterAppend
<1>2. \A i \in 1 .. n - 1 : h2[i] = h[i]
  BY AppendRecord, <1>1
<1>3. CASE n \in 1 .. Len(h)
  <2>1. Replays(b, h, n - 1, h[n]) /\ h2[n] = h[n]
    BY <1>3, AppendRecord DEF Replayable
  <2> HIDE DEF h2
  <2>2. QED
    BY <2>1, <1>1, <1>2 DEF Replays
<1>4. CASE n = Len(h) + 1
  <2>1. h2[n] = e /\ n - 1 = Len(h)
    BY <1>4, AppendRecord
  <2> HIDE DEF h2
  <2>2. QED
    BY <2>1, <1>1, <1>2 DEF Replays
<1>5. QED
  BY <1>3, <1>4, AppendRecord

(* Every command takes a game to a game.                                   *)
LEMMA ApplyType ==
  ASSUME NEW g \in Games, NEW c
  PROVE  Apply(g, c) \in Games
<1>1. (c \in {"foul", "timeout"}) \in BOOLEAN /\ (c \in Concessions \cup {"end"}) \in BOOLEAN
  OBVIOUS
<1>2. (IF c \in {"pass", "foul", "timeout"} THEN Opponent(g.active) ELSE g.active) \in Player
  BY DEF Games, Player, Opponent
<1>3. QED
  BY <1>1, <1>2, Zenon DEF Games, Apply

LEMMA NewGameType ==
  ASSUME NEW p \in Player
  PROVE  NewGame(p) \in Games
BY DEF NewGame, Games

(* The game any recorded revision stands for is a game.                    *)
LEMMA GameAfterType ==
  ASSUME NEW b \in Player, NEW h \in Seq(Records), NEW n \in 0 .. Len(h)
  PROVE  GameAfter(b, h, n) \in Games
<1>1. CASE n = 0
  BY <1>1, NewGameType DEF GameAfter
<1>2. CASE n # 0
  <2>1. h[n] \in Records
    BY <1>2
  <2>2. QED
    BY <1>2, <2>1 DEF GameAfter, Records
<1>3. QED
  BY <1>1, <1>2
-----------------------------------------------------------------------------
LEMMA InitInv == Init => IInv
<1> SUFFICES ASSUME Init
             PROVE  IInv
  OBVIOUS
<1>1. NoRow \in Rows /\ NoRuntime \in [revision : Nat, game : Games,
                                      deadline : SUBSET Deadlines, accepted : SUBSET Records]
  BY NewGameType DEF NoRow, NoRuntime, RowAt, RuntimeAt, Rows, Player
<1>2. <<>> \in Seq(Records) /\ Len(<<>>) = 0
  OBVIOUS
<1>3. TypeOK
  BY <1>1, <1>2 DEF Init, TypeOK, IdlePoll, IdleLoader
<1>4. RecoveryNeverFails
  BY <1>2 DEF Init, RecoveryNeverFails, Replayable
<1>5. RowIsTail /\ NothingBeforeCreation
  BY DEF Init, RowIsTail, NothingBeforeCreation, Created
<1>6. QED
  BY <1>3, <1>4, <1>5
     DEF Init, IInv, MemoryIsDurablePrefix, PlayedMatchesStayLoaded, CommitContinuesMemory,
         LoadersHoldRows, RepliesAreDurable, AckedIsDurable, DownIsEmpty, PollsAreLoaded,
         IdlePoll, IdleLoader

-----------------------------------------------------------------------------
(* Steps that leave the database and memory alone keep what is said of     *)
(* them; what remains is to look at the variables the step changes.        *)
LEMMA QuietStep ==
  ASSUME IInv, UNCHANGED <<durable, runtimes>>, UNCHANGED up,
         TypeOK', CommitContinuesMemory', LoadersHoldRows', RepliesAreDurable',
         AckedIsDurable', DownIsEmpty', PollsAreLoaded'
  PROVE  IInv'
BY DEF IInv, RecoveryNeverFails, RowIsTail, NothingBeforeCreation, MemoryIsDurablePrefix,
       PlayedMatchesStayLoaded, Created, durable, runtimes

LEMMA TickInv == IInv /\ Tick => IInv'
<1> SUFFICES ASSUME IInv, Tick
             PROVE  IInv'
  OBVIOUS
<1>1. TypeOK'
  <2>1. TypeOK
    BY DEF IInv
  <2>2. now \in Nat
    BY <2>1 DEF TypeOK
  <2>3. now' \in Nat
    BY <2>2 DEF Tick
  <2>4. UNCHANGED <<breaker, row, journal, loaded, memory, commit, poll, loader, replies,
                    announced, acked, up, faults>>
    BY DEF Tick, durable, volatile, runtimes
  <2>5. QED
    BY <2>1, <2>3, <2>4 DEF TypeOK
<1>2. QED
  BY <1>1, QuietStep
     DEF IInv, Tick, durable, volatile, runtimes, CommitContinuesMemory, LoadersHoldRows,
         RepliesAreDurable, AckedIsDurable, DownIsEmpty, PollsAreLoaded, Created

(* A request that only reads moves on in ensure_match_loaded.              *)
LEMMA ReadingInv ==
  ASSUME IInv, NEW l \in Loaders, NEW phase, phase # "idle", NEW next, LoaderStep(l, phase, next),
         UNCHANGED <<runtimes, announced>>,
         next \in [phase : {"idle", "check", "read", "initial", "insert", "recover"},
                   match : Matches \cup {NoPlayer}, head : Rows],
         next.phase # "idle" => next.match = loader[l].match,
         next.phase = "insert" => next.head = row[loader[l].match]
  PROVE  IInv'
<1>1. TypeOK'
  BY SMTT(30) DEF IInv, TypeOK, LoaderStep, durable, runtimes
<1>2. LoadersHoldRows'
  BY DEF IInv, TypeOK, LoadersHoldRows, LoaderStep, durable, runtimes, Created
<1>3. QED
  BY <1>1, <1>2, QuietStep
     DEF IInv, LoaderStep, durable, runtimes, CommitContinuesMemory, 
         RepliesAreDurable, AckedIsDurable, DownIsEmpty, PollsAreLoaded

LEMMA RequestMatchInv ==
  ASSUME IInv, NEW l \in Loaders, NEW m \in Matches, RequestMatch(l, m)
  PROVE  IInv'
<1> DEFINE next == [phase |-> "check", match |-> m, head |-> NoRow]
<1>1. NoRow \in Rows
  BY NewGameType DEF NoRow, RowAt, Rows, Player
<1>2. TypeOK'
  BY <1>1, SMTT(30) DEF IInv, TypeOK, RequestMatch, LoaderStep, durable, runtimes
<1>3. LoadersHoldRows'
  BY DEF IInv, TypeOK, LoadersHoldRows, RequestMatch, LoaderStep, durable, runtimes, Created
<1>4. QED
  BY <1>2, <1>3, QuietStep
     DEF IInv, RequestMatch, LoaderStep, durable, runtimes, CommitContinuesMemory,
         RepliesAreDurable, AckedIsDurable, DownIsEmpty, PollsAreLoaded

LEMMA IdleLoaderType == /\ IdleLoader \in [phase : {"idle", "check", "read", "initial", "insert",
                                                    "recover"},
                                           match : Matches \cup {NoPlayer}, head : Rows]
                        /\ IdleLoader.phase = "idle"
BY NewGameType DEF IdleLoader, NoRow, RowAt, Rows, Player

LEMMA CheckLoadedInv ==
  ASSUME IInv, NEW l \in Loaders, CheckLoaded(l)
  PROVE  IInv'
<1> DEFINE next == IF loader[l].match \in loaded THEN IdleLoader ELSE AtPhase(l, "read")
<1>1. /\ next \in [phase : {"idle", "check", "read", "initial", "insert", "recover"},
                   match : Matches \cup {NoPlayer}, head : Rows]
      /\ next.phase # "idle" => next.match = loader[l].match
      /\ next.phase # "insert"
  BY IdleLoaderType DEF IInv, TypeOK, AtPhase
<1> HIDE DEF next
<1>2. LoaderStep(l, "check", next) /\ UNCHANGED <<runtimes, announced>>
  BY DEF CheckLoaded, next
<1>3. QED
  BY <1>1, <1>2, ReadingInv

LEMMA ReadRecordsInv ==
  ASSUME IInv, NEW l \in Loaders, ReadRecords(l)
  PROVE  IInv'
<1> DEFINE next == AtPhase(l, IF journal[loader[l].match] = <<>> THEN "initial" ELSE "recover")
<1>1. /\ next \in [phase : {"idle", "check", "read", "initial", "insert", "recover"},
                   match : Matches \cup {NoPlayer}, head : Rows]
      /\ next.match = loader[l].match
      /\ next.phase # "insert"
  BY DEF IInv, TypeOK, AtPhase
<1> HIDE DEF next
<1>2. LoaderStep(l, "read", next) /\ UNCHANGED <<runtimes, announced>>
  BY DEF ReadRecords, next
<1>3. QED
  BY <1>1, <1>2, ReadingInv

LEMMA ReadInitialInv ==
  ASSUME IInv, NEW l \in Loaders, ReadInitial(l)
  PROVE  IInv'
<1> DEFINE next == IF row[loader[l].match].revision = 0
                   THEN [AtPhase(l, "insert") EXCEPT !.head = row[loader[l].match]]
                   ELSE IdleLoader
<1>1. loader[l].match \in Matches
  BY DEF IInv, LoadersHoldRows, ReadInitial, LoaderStep
<1>2. /\ next \in [phase : {"idle", "check", "read", "initial", "insert", "recover"},
                   match : Matches \cup {NoPlayer}, head : Rows]
      /\ next.phase # "idle" => next.match = loader[l].match
      /\ next.phase = "insert" => next.head = row[loader[l].match]
  BY <1>1, IdleLoaderType DEF IInv, TypeOK, AtPhase
<1> HIDE DEF next
<1>3. LoaderStep(l, "initial", next) /\ UNCHANGED <<runtimes, announced>>
  BY DEF ReadInitial, next
<1>4. QED
  BY <1>2, <1>3, ReadingInv

LEMMA LoaderFailsInv ==
  ASSUME IInv, NEW l \in Loaders, LoaderFails(l)
  PROVE  IInv'
<1>1. TypeOK'
  BY IdleLoaderType, SMTT(30) DEF IInv, TypeOK, LoaderFails, durable, runtimes
<1>2. LoadersHoldRows'
  BY IdleLoaderType DEF IInv, TypeOK, LoadersHoldRows, LoaderFails, durable, runtimes, Created
<1>3. QED
  BY <1>1, <1>2, IdleLoaderType, QuietStep
     DEF IInv, LoaderFails, durable, runtimes, CommitContinuesMemory,
         RepliesAreDurable, AckedIsDurable, DownIsEmpty, PollsAreLoaded, TypeOK
-----------------------------------------------------------------------------
LEMMA CreateMatchInv ==
  ASSUME IInv, NEW l \in Loaders, NEW m \in Matches, NEW p \in Player, CreateMatch(l, m, p)
  PROVE  IInv'
<1> DEFINE r == RowAt(0, NewGame(p), {DeadlineOf(0, NewGame(p), now + TurnTime)})
<1>1. /\ breaker' = [breaker EXCEPT ![m] = p] /\ row' = [row EXCEPT ![m] = r]
      /\ ~Created(m) /\ journal[m] = <<>> /\ m \notin loaded
  BY DEF CreateMatch, IInv, NothingBeforeCreation
<1>2. r \in Rows /\ r.revision = 0 /\ r.game = NewGame(p) /\ Armed(r.deadline, 0, r.game)
  <2> DEFINE d == DeadlineOf(0, NewGame(p), now + TurnTime)
  <2>1. NewGame(p) \in Games /\ NewGame(p).active = p /\ NewGame(p).over = FALSE
    BY NewGameType DEF NewGame
  <2>2. now + TurnTime \in Nat
    BY BoundsAssumption DEF BoundsAssumption, IInv, TypeOK
  <2>3. d \in Deadlines /\ d = DeadlineOf(0, NewGame(p), d.due)
    BY <2>1, <2>2 DEF DeadlineOf, Deadlines
  <2>4. r = [revision |-> 0, game |-> NewGame(p), deadline |-> {d}]
    BY DEF RowAt
  <2> HIDE DEF d, r
  <2>5. QED
    BY <2>1, <2>3, <2>4 DEF Rows, Armed
<1> HIDE DEF r
<1>3. TypeOK'
  <2>1. NoRow \in Rows
    BY NewGameType DEF NoRow, RowAt, Rows, Player
  <2>2. QED
    BY <1>1, <1>2, <2>1 DEF IInv, TypeOK, CreateMatch, runtimes
<1>4. Created(m)' /\ \A k \in Matches \ {m} : Created(k)' <=> Created(k)
  BY <1>1, NoPlayerAssumption DEF IInv, TypeOK, Created
<1>5. RecoveryNeverFails'
  <2>1. ASSUME NEW k \in Matches
        PROVE  Replayable(breaker'[k], journal[k])
    <3>1. CASE k = m
      BY <3>1, <1>1 DEF Replayable
    <3>2. CASE k # m
      BY <3>2, <1>1 DEF IInv, TypeOK, RecoveryNeverFails
    <3>3. QED
      BY <3>1, <3>2
  <2>2. QED
    BY <2>1 DEF CreateMatch, RecoveryNeverFails
<1>6. RowIsTail'
  <2> SUFFICES ASSUME NEW k \in Matches, Created(k)'
               PROVE  LET n == Len(journal[k])
                      IN  /\ row'[k].revision = n
                          /\ row'[k].game = GameAfter(breaker'[k], journal[k], n)
                          /\ Armed(row'[k].deadline, n, row'[k].game)
                          /\ n > 0 => row'[k].deadline = journal[k][n].deadline
    BY DEF RowIsTail, CreateMatch
  <2>1. CASE k = m
    BY <2>1, <1>1, <1>2 DEF IInv, TypeOK, GameAfter
  <2>2. CASE k # m
    BY <2>2, <1>1, <1>4 DEF IInv, TypeOK, RowIsTail
  <2>3. QED
    BY <2>1, <2>2
<1>7. NothingBeforeCreation'
  BY <1>4 DEF IInv, NothingBeforeCreation, CreateMatch, runtimes
<1>8. MemoryIsDurablePrefix'
  BY <1>1 DEF IInv, TypeOK, MemoryIsDurablePrefix, CreateMatch, runtimes
<1>9. LoadersHoldRows'
  <2> SUFFICES ASSUME NEW k \in Loaders
               PROVE  /\ loader'[k].phase # "idle" =>
                           loader'[k].match \in Matches /\ breaker'[loader'[k].match] # NoPlayer
                      /\ loader'[k].phase = "insert" /\ loader'[k].match \notin loaded =>
                           loader'[k].head = row'[loader'[k].match]
    BY DEF LoadersHoldRows, CreateMatch, runtimes, Created
  <2>1. CASE k = l
    BY <2>1, <1>4 DEF IInv, TypeOK, CreateMatch, Created
  <2>2. CASE k # l
    BY <2>2, <1>1, <1>4 DEF IInv, TypeOK, LoadersHoldRows, CreateMatch, Created
  <2>3. QED
    BY <2>1, <2>2
<1>10. QED
  BY <1>3, <1>5, <1>6, <1>7, <1>8, <1>9
     DEF IInv, CreateMatch, runtimes, PlayedMatchesStayLoaded, CommitContinuesMemory,
         RepliesAreDurable, AckedIsDurable, DownIsEmpty, PollsAreLoaded

(* Loading a match from the row or from the journal puts it into memory as *)
(* the database has it.                                                    *)
LEMMA LoadInv ==
  ASSUME IInv, NEW l \in Loaders, NEW phase, LoaderStep(l, phase, IdleLoader),
         NEW m \in Matches, NEW r, Load(m, r), Created(m), m \notin loaded,
         r \in [revision : Nat, game : Games, deadline : SUBSET Deadlines,
                accepted : SUBSET Records],
         r.revision <= Len(journal[m]),
         r.game = GameAfter(breaker[m], journal[m], r.revision),
         r.accepted = {journal[m][i] : i \in 1 .. r.revision}
  PROVE  IInv'
<1>1. TypeOK'
  BY IdleLoaderType, SMTT(30) DEF IInv, TypeOK, LoaderStep, Load, durable
<1>2. MemoryIsDurablePrefix'
  <2>1. ASSUME NEW k \in loaded'
        PROVE  /\ memory'[k].revision <= Len(journal[k])
               /\ memory'[k].game = GameAfter(breaker[k], journal[k], memory'[k].revision)
               /\ memory'[k].accepted = {journal[k][i] : i \in 1 .. memory'[k].revision}
    <3>1. CASE k = m
      <4>1. memory'[k] = r
        BY <3>1 DEF IInv, TypeOK, Load
      <4>2. QED
        BY <3>1, <4>1
    <3>2. CASE k # m
      <4>1. k \in loaded /\ memory'[k] = memory[k]
        BY <3>2 DEF IInv, TypeOK, Load
      <4>2. QED
        BY <4>1 DEF IInv, MemoryIsDurablePrefix
    <3>3. QED
      BY <3>1, <3>2
  <2>2. QED
    BY <2>1 DEF MemoryIsDurablePrefix, LoaderStep, durable
<1>3. \A k \in loaded : memory'[k] = memory[k] /\ k \in loaded'
  BY DEF IInv, TypeOK, Load
<1>4. CommitContinuesMemory'
  BY <1>3 DEF IInv, CommitContinuesMemory, LoaderStep, durable
<1>5. LoadersHoldRows'
  BY IdleLoaderType DEF IInv, TypeOK, LoadersHoldRows, LoaderStep, Load, durable, Created
<1>6. NothingBeforeCreation' /\ PlayedMatchesStayLoaded'
  BY DEF IInv, NothingBeforeCreation, PlayedMatchesStayLoaded, LoaderStep, Load, durable, Created
<1>7. RecoveryNeverFails' /\ RowIsTail'
  BY DEF IInv, RecoveryNeverFails, RowIsTail, LoaderStep, durable, Created
<1>8. DownIsEmpty'
  BY IdleLoaderType DEF IInv, TypeOK, DownIsEmpty, LoaderStep
<1>9. RepliesAreDurable' /\ AckedIsDurable' /\ PollsAreLoaded'
  BY <1>3 DEF IInv, RepliesAreDurable, AckedIsDurable, PollsAreLoaded, LoaderStep, durable
<1>10. QED
  BY <1>1, <1>2, <1>4, <1>5, <1>6, <1>7, <1>8, <1>9 DEF IInv

LEMMA InsertInitialInv ==
  ASSUME IInv, NEW l \in Loaders, InsertInitial(l)
  PROVE  IInv'
<1> DEFINE m == loader[l].match
           r == RuntimeAt(0, loader[l].head.game, loader[l].head.deadline, {})
<1>1. LoaderStep(l, "insert", IdleLoader) /\ m \in Matches /\ Created(m)
  BY DEF InsertInitial, IInv, LoadersHoldRows, LoaderStep
<1>2. CASE m \in loaded
  BY <1>1, <1>2, IdleLoaderType, ReadingInv DEF InsertInitial
<1>3. CASE m \notin loaded
  <2>1. Load(m, r)
    BY <1>3 DEF InsertInitial
  <2>2. journal[m] = <<>>
    BY <1>1, <1>3 DEF IInv, PlayedMatchesStayLoaded, LoaderStep
  <2>3. loader[l].head = row[m] /\ row[m] \in Rows
    BY <1>1, <1>3 DEF IInv, TypeOK, LoadersHoldRows, LoaderStep
  <2>4. row[m].game = GameAfter(breaker[m], journal[m], 0)
    BY <1>1, <2>2 DEF IInv, RowIsTail
  <2>5. /\ r \in [revision : Nat, game : Games, deadline : SUBSET Deadlines,
                  accepted : SUBSET Records]
        /\ r.revision = 0 /\ r.game = row[m].game /\ r.accepted = {}
    BY <2>3 DEF RuntimeAt, Rows
  <2>6. r.revision <= Len(journal[m]) /\ r.accepted = {journal[m][i] : i \in 1 .. r.revision}
    BY <2>2, <2>5
  <2> HIDE DEF m, r
  <2>7. QED
    BY <1>1, <1>3, <2>1, <2>4, <2>5, <2>6, LoadInv
<1>4. QED
  BY <1>2, <1>3

(* What recovery reads is what the database has.                           *)
LEMMA RecoveredIsDurable ==
  ASSUME IInv, NEW m \in Matches, Created(m)
  PROVE  LET r == Recovered(m)
         IN  /\ r \in [revision : Nat, game : Games, deadline : SUBSET Deadlines,
                       accepted : SUBSET Records]
             /\ r.revision = Len(journal[m])
             /\ r.game = GameAfter(breaker[m], journal[m], r.revision)
             /\ r.accepted = {journal[m][i] : i \in 1 .. r.revision}
<1>1. journal[m] \in Seq(Records) /\ row[m] \in Rows /\ Len(journal[m]) \in Nat
  BY DEF IInv, TypeOK
<1>2. CASE Len(journal[m]) = 0
  <2>1. Recovered(m) = RuntimeAt(0, row[m].game, row[m].deadline, {})
    BY <1>2 DEF Recovered
  <2>2. row[m].game = GameAfter(breaker[m], journal[m], 0)
    BY <1>2 DEF IInv, RowIsTail
  <2>3. QED
    BY <1>1, <1>2, <2>1, <2>2 DEF RuntimeAt, Rows
<1>3. CASE Len(journal[m]) # 0
  <2> DEFINE n == Len(journal[m])
  <2>1. Recovered(m) = RuntimeAt(n, journal[m][n].game, journal[m][n].deadline,
                                 {journal[m][i] : i \in 1 .. n})
    BY <1>3 DEF Recovered
  <2>2. \A i \in 1 .. n : journal[m][i] \in Records
    BY <1>1
  <2>3. journal[m][n] \in Records
    BY <1>1, <1>3, <2>2
  <2>4. GameAfter(breaker[m], journal[m], n) = journal[m][n].game
    BY <1>3 DEF GameAfter
  <2>5. QED
    BY <1>1, <2>1, <2>2, <2>3, <2>4 DEF RuntimeAt, Records
<1>4. QED
  BY <1>2, <1>3

LEMMA InsertRecoveredInv ==
  ASSUME IInv, NEW l \in Loaders, InsertRecovered(l)
  PROVE  IInv'
<1> DEFINE m == loader[l].match
<1>1. LoaderStep(l, "recover", IdleLoader) /\ m \in Matches /\ Created(m)
  BY DEF InsertRecovered, IInv, LoadersHoldRows, LoaderStep
<1>2. CASE UNCHANGED <<runtimes, announced>>
  BY <1>1, <1>2, IdleLoaderType, ReadingInv
<1>3. CASE m \notin loaded /\ Load(m, Recovered(m))
  <2>1. Len(journal[m]) \in Nat
    BY <1>1 DEF IInv, TypeOK
  <2>2. QED
    BY <1>1, <1>3, <2>1, RecoveredIsDurable, LoadInv
<1>4. QED
  BY <1>2, <1>3 DEF InsertRecovered
-----------------------------------------------------------------------------
(* A decided command is a record, and Armed for the turn that follows it.  *)
LEMMA RecordType ==
  ASSUME IInv, NEW m \in Matches, NEW id \in Ids, NEW p \in Player, NEW c \in Commands,
         NEW time \in Nat
  PROVE  LET r == memory[m]
             e == Record(m, id, p, c, time)
         IN  /\ e \in Records
             /\ e.id = id /\ e.actor = p /\ e.expected = r.revision /\ e.cmd = c
             /\ e.game = Apply(r.game, c)
             /\ Armed(e.deadline, e.expected + 1, e.game)
<1> DEFINE r == memory[m]
           game == Apply(r.game, c)
           d == DeadlineOf(r.revision + 1, game, time + TurnTime)
           e == Record(m, id, p, c, time)
<1>1. r.revision \in Nat /\ r.game \in Games
  BY DEF IInv, TypeOK
<1>2. game \in Games
  BY <1>1, ApplyType
<1>3. time + TurnTime \in Nat
  BY BoundsAssumption DEF BoundsAssumption
<1>4. e = [ id |-> id, actor |-> p, expected |-> r.revision, cmd |-> c, game |-> game,
            deadline |-> IF game.over THEN {} ELSE {d} ]
  BY DEF Record
<1> HIDE DEF game, e
<1>5. d \in Deadlines /\ d = DeadlineOf(r.revision + 1, game, d.due)
  BY <1>1, <1>2, <1>3 DEF DeadlineOf, Deadlines, Games
<1> HIDE DEF d, r
<1>6. Armed(IF game.over THEN {} ELSE {d}, r.revision + 1, game)
  BY <1>5 DEF Armed
<1>7. QED
  BY <1>1, <1>2, <1>4, <1>5, <1>6 DEF Records, game, r, e

(* Deciding a command, whether a client's or the scheduler's.              *)
LEMMA DecideInv ==
  ASSUME IInv, up, NEW m \in loaded, NEW id \in Ids, NEW p \in Player, NEW c \in Commands,
         NEW time \in Nat, Decide(m, id, p, c, time),
         id \notin ClientIds => c = "timeout" /\ p = memory[m].game.active,
         UNCHANGED <<now, durable, runtimes, loader, replies, announced, acked, up, faults>>,
         poll' \in [phase : {"idle", "waiting", "running"}, at : Nat,
                    due : SUBSET [match : Matches, deadline : Deadlines], done : SUBSET Matches],
         \A d \in poll'.due : d.match \in loaded
  PROVE  IInv'
<1> DEFINE e == Record(m, id, p, c, time)
           w == [match |-> m, record |-> e, durable |-> FALSE]
<1>1. m \in Matches
  BY DEF IInv, TypeOK
<1>2. /\ e \in Records /\ e.actor = p /\ e.expected = memory[m].revision /\ e.cmd = c
      /\ e.game = Apply(memory[m].game, c)
      /\ Armed(e.deadline, e.expected + 1, e.game)
  BY <1>1, RecordType
<1>3. commit' = {w} /\ Allowed(memory[m].game, c) /\ MayGive(memory[m].game, p, c)
  BY DEF Decide
<1>4. e.id = id
  BY DEF Record
<1> HIDE DEF e
<1>5. TypeOK'
  <2>1. /\ commit' \subseteq [match : Matches, record : Records, durable : BOOLEAN]
        /\ \A v, x \in commit' : v = x
    BY <1>1, <1>2, <1>3
  <2>2. TypeOK
    BY DEF IInv
  <2>3. /\ now' = now /\ breaker' = breaker /\ row' = row /\ journal' = journal
        /\ loaded' = loaded /\ memory' = memory /\ loader' = loader /\ replies' = replies
        /\ announced' = announced /\ acked' = acked /\ up' = up /\ faults' = faults
    BY DEF durable, runtimes
  <2>4. QED
    BY <2>1, <2>2, <2>3 DEF TypeOK
<1>6. CommitContinuesMemory'
  BY <1>2, <1>3, <1>4 DEF CommitContinuesMemory, durable, runtimes
<1>7. QED
  BY <1>5, <1>6, QuietStep
     DEF IInv, LoadersHoldRows, RepliesAreDurable, AckedIsDurable, DownIsEmpty, PollsAreLoaded,
         durable, runtimes, Created

LEMMA SubmitInv ==
  ASSUME IInv, NEW m \in Matches, NEW id \in ClientIds, NEW p \in Player, NEW c \in ClientCommands,
         Submit(m, id, p, c)
  PROVE  IInv'
<1>1. c \in Commands /\ id \in Ids
  BY ClientCommandsAssumption DEF ClientCommandsAssumption, Ids
<1>2. /\ up /\ m \in loaded /\ now \in Nat /\ Decide(m, id, p, c, now)
      /\ UNCHANGED <<now, durable, runtimes, poll, loader, replies, announced, acked, up, faults>>
  BY DEF Submit, IInv, TypeOK
<1>3. /\ poll' \in [phase : {"idle", "waiting", "running"}, at : Nat,
                    due : SUBSET [match : Matches, deadline : Deadlines], done : SUBSET Matches]
      /\ \A d \in poll'.due : d.match \in loaded
  BY <1>2 DEF IInv, TypeOK, PollsAreLoaded
<1>4. QED
  BY <1>1, <1>2, <1>3, DecideInv

(* What memory remembers of a match is in the journal, at its revision.    *)
LEMMA AcceptedIsDurable ==
  ASSUME IInv, NEW m \in loaded, NEW e \in memory[m].accepted
  PROVE  /\ m \in Matches /\ e \in Records
         /\ e.expected + 1 \in DOMAIN journal[m] /\ journal[m][e.expected + 1] = e
<1>1. m \in Matches /\ journal[m] \in Seq(Records) /\ memory[m].revision \in Nat
  BY DEF IInv, TypeOK
<1>2. PICK i \in 1 .. memory[m].revision : journal[m][i] = e
  BY DEF IInv, MemoryIsDurablePrefix
<1>3. i \in 1 .. Len(journal[m])
  BY <1>1, <1>2 DEF IInv, MemoryIsDurablePrefix
<1>4. e.expected = i - 1
  BY <1>1, <1>2, <1>3 DEF IInv, RecoveryNeverFails, Replayable, Replays
<1>5. QED
  BY <1>1, <1>2, <1>3, <1>4

LEMMA ResubmitInv ==
  ASSUME IInv, NEW m \in Matches, NEW e \in memory[m].accepted, Resubmit(m, e)
  PROVE  IInv'
<1> DEFINE a == [match |-> m, id |-> e.id, revision |-> e.expected + 1,
                 head |-> memory[m].revision]
<1>1. m \in loaded /\ e.id \in Ids /\ replies' = replies \cup {a}
  BY DEF Resubmit, Ids
<1>2. /\ e \in Records
      /\ e.expected + 1 \in DOMAIN journal[m] /\ journal[m][e.expected + 1] = e
  BY <1>1, AcceptedIsDurable
<1>3. a \in [match : Matches, id : Ids, revision : Nat, head : Nat]
  BY <1>1, <1>2 DEF IInv, TypeOK, Records
<1>4. TypeOK'
  BY <1>1, <1>3, SMTT(30) DEF IInv, TypeOK, Resubmit, durable, runtimes
<1>5. RepliesAreDurable'
  BY <1>1, <1>2 DEF IInv, RepliesAreDurable, Resubmit, durable
<1>6. QED
  BY <1>4, <1>5, QuietStep
     DEF IInv, Resubmit, CommitContinuesMemory, LoadersHoldRows, AckedIsDurable, DownIsEmpty,
         PollsAreLoaded, durable, runtimes, Created
-----------------------------------------------------------------------------
(* What a commit finds in the database when the transaction accepts it.    *)
LEMMA PersistReplays ==
  ASSUME IInv, NEW w \in commit, Persistable(w.match, w.record)
  PROVE  LET m == w.match
             e == w.record
         IN  /\ m \in Matches /\ e \in Records /\ m \in loaded /\ Created(m)
             /\ e.expected = Len(journal[m]) /\ Len(journal[m]) \in Nat
             /\ Replays(breaker[m], journal[m], Len(journal[m]), e)
             /\ MayGive(GameAfter(breaker[m], journal[m], Len(journal[m])), e.actor, e.cmd)
             /\ e.id \notin ClientIds =>
                  /\ e.cmd = "timeout"
                  /\ e.actor = GameAfter(breaker[m], journal[m], Len(journal[m])).active
<1> DEFINE m == w.match
           e == w.record
<1>1. m \in Matches /\ e \in Records /\ journal[m] \in Seq(Records) /\ Len(journal[m]) \in Nat
  BY DEF IInv, TypeOK
<1>2. /\ m \in loaded /\ e.expected = memory[m].revision
      /\ Allowed(memory[m].game, e.cmd) /\ MayGive(memory[m].game, e.actor, e.cmd)
      /\ e.id \notin ClientIds => e.cmd = "timeout" /\ e.actor = memory[m].game.active
      /\ e.game = Apply(memory[m].game, e.cmd)
      /\ Armed(e.deadline, e.expected + 1, e.game)
  BY DEF IInv, CommitContinuesMemory
<1>3. Created(m)
  BY <1>1, <1>2 DEF IInv, NothingBeforeCreation
<1>4. e.expected = Len(journal[m])
  BY <1>1, <1>3 DEF IInv, RowIsTail, Persistable
<1>5. memory[m].game = GameAfter(breaker[m], journal[m], Len(journal[m]))
  BY <1>2, <1>4 DEF IInv, MemoryIsDurablePrefix
<1>6. \A i \in 1 .. Len(journal[m]) : journal[m][i].id # e.id
  BY <1>1 DEF Persistable
<1>7. e.cmd \in Commands
  BY <1>1 DEF Records
<1> HIDE DEF m, e
<1>8. Replays(breaker[m], journal[m], Len(journal[m]), e)
  BY <1>2, <1>4, <1>5, <1>6, <1>7 DEF Replays
<1>9. QED
  BY <1>1, <1>2, <1>3, <1>4, <1>5, <1>8 DEF m, e

LEMMA PersistInv == IInv /\ Persist => IInv'
<1> SUFFICES ASSUME IInv, NEW w \in commit, up, ~w.durable, Persistable(w.match, w.record),
                    journal' = [journal EXCEPT ![w.match] = Append(@, w.record)],
                    row' = [row EXCEPT ![w.match] =
                              RowAt(w.record.expected + 1, w.record.game, w.record.deadline)],
                    commit' = {[w EXCEPT !.durable = TRUE]},
                    UNCHANGED <<now, breaker, loaded, memory, poll, loader, replies, announced,
                                acked, up, faults>>
             PROVE  IInv'
  BY DEF Persist, runtimes
<1> DEFINE m == w.match
           e == w.record
           n == Len(journal[m])
<1>1. /\ m \in Matches /\ e \in Records /\ m \in loaded /\ Created(m)
      /\ e.expected = n /\ n \in Nat
      /\ Replays(breaker[m], journal[m], n, e)
  BY PersistReplays
<1>2. /\ journal[m] \in Seq(Records)
      /\ journal'[m] = Append(journal[m], e)
      /\ \A k \in Matches \ {m} : journal'[k] = journal[k] /\ row'[k] = row[k]
      /\ row'[m] = RowAt(n + 1, e.game, e.deadline)
  BY <1>1 DEF IInv, TypeOK
<1>3. /\ journal'[m] \in Seq(Records) /\ Len(journal'[m]) = n + 1
      /\ \A i \in 1 .. n : journal'[m][i] = journal[m][i]
      /\ journal'[m][n + 1] = e
  BY <1>1, <1>2, AppendRecord
<1>4. w \in [match : Matches, record : Records, durable : BOOLEAN]
  BY DEF IInv, TypeOK
<1>5. commit' = {[match |-> m, record |-> e, durable |-> TRUE]}
  BY <1>4
<1> HIDE DEF m, e, n
<1>6. \A k \in Matches : \A i \in DOMAIN journal[k] :
        i \in DOMAIN journal'[k] /\ journal'[k][i] = journal[k][i]
  <2> SUFFICES ASSUME NEW k \in Matches, NEW i \in DOMAIN journal[k]
               PROVE  i \in DOMAIN journal'[k] /\ journal'[k][i] = journal[k][i]
    OBVIOUS
  <2>1. CASE k = m
    BY <2>1, <1>1, <1>2, <1>3 DEF n
  <2>2. CASE k # m
    BY <2>2, <1>2
  <2>3. QED
    BY <2>1, <2>2
<1>7. TypeOK'
  <2>1. row'[m] \in Rows
    BY <1>1, <1>2 DEF RowAt, Rows, Records
  <2>2. row' \in [Matches -> Rows]
    BY <1>2, <2>1 DEF IInv, TypeOK
  <2>3. journal' \in [Matches -> Seq(Records)]
    BY <1>2, <1>3 DEF IInv, TypeOK
  <2>4. commit' \subseteq [match : Matches, record : Records, durable : BOOLEAN]
    <3> DEFINE w2 == [match |-> m, record |-> e, durable |-> TRUE]
    <3>1. w2 \in [match : Matches, record : Records, durable : BOOLEAN]
      BY <1>1
    <3> HIDE DEF w2
    <3>2. commit' = {w2}
      BY <1>5 DEF w2
    <3>3. QED
      BY <3>1, <3>2
  <2>5. QED
    BY <2>2, <2>3, <2>4, <1>5 DEF IInv, TypeOK
<1>8. RecoveryNeverFails'
  <2>1. Replayable(breaker[m], journal'[m])
    BY <1>1, <1>2, ReplayableAppend DEF IInv, RecoveryNeverFails, n
  <2>2. QED
    BY <2>1, <1>2 DEF IInv, RecoveryNeverFails
<1>9. RowIsTail'
  <2>1. /\ row'[m].revision = n + 1 /\ row'[m].game = GameAfter(breaker[m], journal'[m], n + 1)
        /\ Armed(row'[m].deadline, n + 1, row'[m].game)
        /\ row'[m].deadline = journal'[m][n + 1].deadline
    BY <1>1, <1>2, <1>3 DEF RowAt, GameAfter, Replays
  <2>2. QED
    BY <2>1, <1>2, <1>3 DEF IInv, RowIsTail, Created
<1>10. NothingBeforeCreation' /\ PlayedMatchesStayLoaded'
  BY <1>1, <1>2 DEF IInv, NothingBeforeCreation, PlayedMatchesStayLoaded, Created
<1>11. MemoryIsDurablePrefix'
  <2> SUFFICES ASSUME NEW k \in loaded
               PROVE  /\ memory[k].revision <= Len(journal'[k])
                      /\ memory[k].game = GameAfter(breaker[k], journal'[k], memory[k].revision)
                      /\ memory[k].accepted = {journal'[k][i] : i \in 1 .. memory[k].revision}
    BY DEF MemoryIsDurablePrefix
  <2>1. /\ memory[k].revision <= Len(journal[k]) /\ memory[k].revision \in Nat
        /\ memory[k].game = GameAfter(breaker[k], journal[k], memory[k].revision)
        /\ memory[k].accepted = {journal[k][i] : i \in 1 .. memory[k].revision}
    BY DEF IInv, TypeOK, MemoryIsDurablePrefix
  <2>2. CASE k = m
    <3>1. memory[k].revision \in 0 .. n
      BY <2>1, <2>2, <1>1 DEF n
    <3>2. GameAfter(breaker[k], journal'[k], memory[k].revision)
            = GameAfter(breaker[k], journal[k], memory[k].revision)
      BY <2>2, <3>1, <1>1, <1>2, GameAfterAppend DEF n
    <3>3. \A i \in 1 .. memory[k].revision : journal'[k][i] = journal[k][i]
      BY <2>2, <3>1, <1>1, <1>3
    <3>4. memory[k].revision <= Len(journal'[k])
      BY <2>2, <3>1, <1>1, <1>3
    <3>5. QED
      BY <2>1, <3>2, <3>3, <3>4
  <2>3. CASE k # m
    BY <2>1, <2>3, <1>2 DEF IInv, TypeOK
  <2>4. QED
    BY <2>2, <2>3
<1>12. CommitContinuesMemory'
  <2>1. /\ e.expected = memory[m].revision /\ m \in loaded
        /\ Allowed(memory[m].game, e.cmd) /\ MayGive(memory[m].game, e.actor, e.cmd)
        /\ e.id \notin ClientIds => e.cmd = "timeout" /\ e.actor = memory[m].game.active
        /\ e.game = Apply(memory[m].game, e.cmd)
        /\ Armed(e.deadline, e.expected + 1, e.game)
    BY DEF IInv, CommitContinuesMemory, m, e
  <2>2. e.expected + 1 \in DOMAIN journal'[m] /\ journal'[m][e.expected + 1] = e
    BY <1>1, <1>3
  <2>3. QED
    BY <1>5, <2>1, <2>2 DEF CommitContinuesMemory
<1>13. LoadersHoldRows'
  BY <1>1, <1>2 DEF IInv, LoadersHoldRows, Created
<1>14. RepliesAreDurable'
  BY <1>6 DEF IInv, TypeOK, RepliesAreDurable
<1>15. AckedIsDurable'
  BY <1>6 DEF IInv, TypeOK, AckedIsDurable
<1>16. DownIsEmpty' /\ PollsAreLoaded'
  BY DEF IInv, DownIsEmpty, PollsAreLoaded
<1>17. QED
  BY <1>7, <1>8, <1>9, <1>10, <1>11, <1>12, <1>13, <1>14, <1>15, <1>16 DEF IInv
-----------------------------------------------------------------------------
(* The commit is over, one way or the other, without a new state.          *)
LEMMA GiveUpInv ==
  ASSUME IInv, up, GiveUp, faults' \in Nat
  PROVE  IInv'
<1>1. /\ poll' \in [phase : {"idle", "waiting", "running"}, at : Nat,
                    due : SUBSET [match : Matches, deadline : Deadlines], done : SUBSET Matches]
      /\ \A d \in poll'.due : d.match \in loaded
  BY DEF IInv, TypeOK, PollsAreLoaded, GiveUp, IdlePoll
<1>2. TypeOK'
  BY <1>1, SMTT(30) DEF IInv, TypeOK, GiveUp, durable, runtimes
<1>3. QED
  BY <1>1, <1>2, QuietStep
     DEF IInv, GiveUp, CommitContinuesMemory, LoadersHoldRows, RepliesAreDurable, AckedIsDurable,
         DownIsEmpty, PollsAreLoaded, durable, runtimes, Created

LEMMA CommitRefusedInv == IInv /\ CommitRefused => IInv'
BY GiveUpInv DEF CommitRefused, IInv, TypeOK

LEMMA CommitFailsInv == IInv /\ CommitFails => IInv'
<1> SUFFICES ASSUME IInv, CommitFails
             PROVE  IInv'
  OBVIOUS
<1>1. up /\ GiveUp /\ faults' = faults + 1 /\ faults \in Nat
  BY DEF CommitFails, IInv, TypeOK
<1>2. QED
  BY <1>1, GiveUpInv

(* Memory takes up what has become durable.                                *)
LEMMA InstallInv == IInv /\ Install => IInv'
<1> SUFFICES ASSUME IInv, NEW w \in commit, up, w.durable,
                    memory' = [memory EXCEPT ![w.match] =
                                 RuntimeAt(w.record.expected + 1, w.record.game, w.record.deadline,
                                           memory[w.match].accepted \cup {w.record})],
                    commit' = {},
                    \/ /\ poll' = [poll EXCEPT !.done = @ \cup {w.match}]
                       /\ UNCHANGED replies
                    \/ /\ replies' = replies \cup {[match |-> w.match, id |-> w.record.id,
                                                    revision |-> w.record.expected + 1,
                                                    head |-> w.record.expected + 1]}
                       /\ UNCHANGED poll,
                    UNCHANGED <<now, durable, loaded, loader, announced, acked, up, faults>>
             PROVE  IInv'
  BY DEF Install
<1> DEFINE m == w.match
           e == w.record
           n == e.expected
           r == RuntimeAt(n + 1, e.game, e.deadline, memory[m].accepted \cup {e})
           a == [match |-> m, id |-> e.id, revision |-> n + 1, head |-> n + 1]
<1>1. m \in Matches /\ e \in Records /\ journal[m] \in Seq(Records) /\ n \in Nat
  BY DEF IInv, TypeOK, Records
<1>2. /\ m \in loaded /\ n = memory[m].revision
      /\ n + 1 \in DOMAIN journal[m] /\ journal[m][n + 1] = e
  BY DEF IInv, CommitContinuesMemory
<1>3. memory'[m] = r /\ \A k \in Matches \ {m} : memory'[k] = memory[k]
  BY <1>1 DEF IInv, TypeOK
<1>4. replies' \subseteq replies \cup {a}
  OBVIOUS
<1>5. /\ poll' \in [phase : {"idle", "waiting", "running"}, at : Nat,
                    due : SUBSET [match : Matches, deadline : Deadlines], done : SUBSET Matches]
      /\ poll'.due = poll.due
  <2>1. poll \in [phase : {"idle", "waiting", "running"}, at : Nat,
                  due : SUBSET [match : Matches, deadline : Deadlines], done : SUBSET Matches]
    BY DEF IInv, TypeOK
  <2>2. CASE poll' = [poll EXCEPT !.done = @ \cup {m}]
    <3>1. poll.done \cup {m} \in SUBSET Matches
      BY <1>1, <2>1
    <3> HIDE DEF m
    <3>2. QED
      BY <2>1, <2>2, <3>1
  <2>3. CASE poll' = poll
    BY <2>1, <2>3
  <2>4. QED
    BY <2>2, <2>3
<1> HIDE DEF m, e, n
<1>6. r \in [revision : Nat, game : Games, deadline : SUBSET Deadlines, accepted : SUBSET Records]
  BY <1>1 DEF IInv, TypeOK, RuntimeAt, Records
<1>7. a \in [match : Matches, id : Ids, revision : Nat, head : Nat]
  BY <1>1 DEF Records
<1>8. r.revision = n + 1 /\ r.game = e.game /\ r.accepted = memory[m].accepted \cup {e}
  BY DEF RuntimeAt
<1> HIDE DEF r
<1>9. TypeOK'
  <2>1. memory' \in [Matches -> [revision : Nat, game : Games, deadline : SUBSET Deadlines,
                                 accepted : SUBSET Records]]
    BY <1>3, <1>6 DEF IInv, TypeOK, m
  <2>2. replies' \subseteq [match : Matches, id : Ids, revision : Nat, head : Nat]
    BY <1>4, <1>7 DEF IInv, TypeOK
  <2>3. QED
    BY <2>1, <2>2, <1>5 DEF IInv, TypeOK, durable
<1>10. MemoryIsDurablePrefix'
  <2> SUFFICES ASSUME NEW k \in loaded
               PROVE  /\ memory'[k].revision <= Len(journal[k])
                      /\ memory'[k].game = GameAfter(breaker[k], journal[k], memory'[k].revision)
                      /\ memory'[k].accepted = {journal[k][i] : i \in 1 .. memory'[k].revision}
    BY DEF MemoryIsDurablePrefix, durable
  <2>1. CASE k = m
    <3>1. n + 1 <= Len(journal[m]) /\ GameAfter(breaker[m], journal[m], n + 1) = e.game
      BY <1>1, <1>2 DEF GameAfter
    <3>2. memory[m].accepted = {journal[m][i] : i \in 1 .. n}
      BY <1>2 DEF IInv, MemoryIsDurablePrefix
    <3>3. \A i : i \in 1 .. n + 1 <=> i \in 1 .. n \/ i = n + 1
      BY <1>1
    <3>4. {journal[m][i] : i \in 1 .. n + 1} = {journal[m][i] : i \in 1 .. n} \cup {e}
      BY <3>3, <1>2
    <3>5. memory'[k] = r /\ memory'[k].revision = n + 1
      BY <2>1, <1>3, <1>8
    <3>6. memory'[k].accepted = {journal[m][i] : i \in 1 .. n + 1}
      BY <3>2, <3>4, <3>5, <1>8
    <3>7. QED
      BY <2>1, <3>1, <3>5, <3>6, <1>8
  <2>2. CASE k # m
    BY <2>2, <1>3 DEF IInv, TypeOK, MemoryIsDurablePrefix
  <2>3. QED
    BY <2>1, <2>2
<1>11. RepliesAreDurable'
  BY <1>2, <1>4 DEF IInv, RepliesAreDurable, durable
<1>12. RecoveryNeverFails' /\ RowIsTail' /\ NothingBeforeCreation' /\ PlayedMatchesStayLoaded'
  BY DEF IInv, RecoveryNeverFails, RowIsTail, NothingBeforeCreation, PlayedMatchesStayLoaded,
         Created, durable
<1>13. CommitContinuesMemory' /\ LoadersHoldRows' /\ AckedIsDurable' /\ PollsAreLoaded'
  BY <1>5 DEF IInv, CommitContinuesMemory, LoadersHoldRows, AckedIsDurable, PollsAreLoaded,
              Created, durable
<1>14. DownIsEmpty'
  BY DEF DownIsEmpty
<1>15. QED
  BY <1>9, <1>10, <1>11, <1>12, <1>13, <1>14 DEF IInv

LEMMA RespondInv ==
  ASSUME IInv, NEW a \in replies, Respond(a)
  PROVE  IInv'
<1> DEFINE b == [match |-> a.match, id |-> a.id, revision |-> a.revision]
<1>1. a \in [match : Matches, id : Ids, revision : Nat, head : Nat]
  BY DEF IInv, TypeOK
<1>2. b \in [match : Matches, id : Ids, revision : Nat]
  BY <1>1
<1>3. acked' = acked \cup {b} /\ replies' \subseteq replies
  BY DEF Respond
<1>4. announced' \in [Matches -> Nat]
  BY <1>1 DEF IInv, TypeOK, Respond
<1>5. b.match = a.match /\ b.id = a.id /\ b.revision = a.revision
  OBVIOUS
<1> HIDE DEF b
<1>6. TypeOK'
  BY <1>2, <1>3, <1>4, SMTT(30) DEF IInv, TypeOK, Respond, durable, runtimes
<1>7. AckedIsDurable'
  BY <1>3, <1>5 DEF IInv, AckedIsDurable, RepliesAreDurable, Respond, durable
<1>8. QED
  BY <1>3, <1>6, <1>7, QuietStep
     DEF IInv, Respond, CommitContinuesMemory, LoadersHoldRows, RepliesAreDurable, DownIsEmpty,
         PollsAreLoaded, durable, runtimes, Created
-----------------------------------------------------------------------------
LEMMA PollWakesInv == IInv /\ PollWakes => IInv'
<1> SUFFICES ASSUME IInv, PollWakes
             PROVE  IInv'
  OBVIOUS
<1>1. poll' = [phase |-> "waiting", at |-> now, due |-> {}, done |-> {}]
  BY DEF PollWakes, IdlePoll
<1>2. TypeOK'
  BY <1>1, SMTT(30) DEF IInv, TypeOK, PollWakes, durable, runtimes
<1>3. PollsAreLoaded'
  BY <1>1 DEF PollsAreLoaded
<1>4. QED
  BY <1>2, <1>3, QuietStep
     DEF IInv, PollWakes, CommitContinuesMemory, LoadersHoldRows, RepliesAreDurable,
         AckedIsDurable, DownIsEmpty, durable, runtimes, Created

LEMMA PollStartsInv == IInv /\ PollStarts => IInv'
<1> SUFFICES ASSUME IInv, PollStarts
             PROVE  IInv'
  OBVIOUS
<1>1. \A d \in DueDeadlines(poll.at) :
        d \in [match : Matches, deadline : Deadlines] /\ d.match \in loaded
  <2> SUFFICES ASSUME NEW d \in DueDeadlines(poll.at)
               PROVE  d \in [match : Matches, deadline : Deadlines] /\ d.match \in loaded
    OBVIOUS
  <2>1. PICK m \in loaded : d \in {[match |-> m, deadline |-> x] : x \in memory[m].deadline}
    BY DEF DueDeadlines
  <2>2. m \in Matches /\ memory[m].deadline \subseteq Deadlines
    BY DEF IInv, TypeOK
  <2>3. QED
    BY <2>1, <2>2
<1>2. poll' = [poll EXCEPT !.phase = "running", !.due = DueDeadlines(poll.at)]
  BY DEF PollStarts
<1>3. poll'.due = DueDeadlines(poll.at) /\ poll'.phase = "running"
      /\ poll' \in [phase : {"idle", "waiting", "running"}, at : Nat,
                    due : SUBSET [match : Matches, deadline : Deadlines], done : SUBSET Matches]
  <2> DEFINE D == DueDeadlines(poll.at)
  <2>1. D \in SUBSET [match : Matches, deadline : Deadlines]
    BY <1>1
  <2> HIDE DEF D
  <2>2. QED
    BY <2>1, <1>2 DEF IInv, TypeOK, D
<1>4. TypeOK'
  BY <1>3, SMTT(30) DEF IInv, TypeOK, PollStarts, durable, runtimes
<1>5. QED
  BY <1>1, <1>3, <1>4, QuietStep
     DEF IInv, PollStarts, CommitContinuesMemory, LoadersHoldRows, RepliesAreDurable,
         AckedIsDurable, DownIsEmpty, PollsAreLoaded, durable, runtimes, Created

LEMMA PollNextInv == IInv /\ PollNext => IInv'
<1> SUFFICES ASSUME IInv, PollNext
             PROVE  IInv'
  OBVIOUS
<1>1. PICK d \in poll.due :
        /\ poll' = [poll EXCEPT !.due = @ \ {d}]
        /\ IF Current(d)
           THEN Decide(d.match, TimeoutId(d.deadline.revision, d.deadline.player),
                       d.deadline.player, "timeout", poll.at)
           ELSE UNCHANGED commit
  BY DEF PollNext
<1>2. /\ up
      /\ UNCHANGED <<now, durable, runtimes, loader, replies, announced, acked, up, faults>>
  BY DEF PollNext
<1>3. /\ d \in [match : Matches, deadline : Deadlines] /\ d.match \in loaded
      /\ poll.at \in Nat
  BY DEF IInv, TypeOK, PollsAreLoaded
<1>4. /\ poll'.due \subseteq poll.due
      /\ poll' \in [phase : {"idle", "waiting", "running"}, at : Nat,
                    due : SUBSET [match : Matches, deadline : Deadlines], done : SUBSET Matches]
  BY <1>1 DEF IInv, TypeOK
<1>5. \A x \in poll'.due : x.match \in loaded
  BY <1>4 DEF IInv, PollsAreLoaded
<1>6. CASE Current(d)
  <2>1. TimeoutId(d.deadline.revision, d.deadline.player) \in Ids /\ d.deadline.player \in Player
    BY <1>3 DEF TimeoutId, Ids, Deadlines
  <2>2. d.deadline.player = memory[d.match].game.active
    BY <1>6 DEF Current
  <2>3. "timeout" \in Commands
    BY DEF Commands
  <2>4. QED
    BY <1>1, <1>2, <1>3, <1>4, <1>5, <1>6, <2>1, <2>2, <2>3, DecideInv
<1>7. CASE UNCHANGED commit
  <2>1. TypeOK'
    BY <1>2, <1>4, <1>7, SMTT(30) DEF IInv, TypeOK, durable, runtimes
  <2>2. QED
    BY <1>2, <1>5, <1>7, <2>1, QuietStep
       DEF IInv, CommitContinuesMemory, LoadersHoldRows, RepliesAreDurable,
           AckedIsDurable, DownIsEmpty, PollsAreLoaded, durable, runtimes, Created
<1>8. QED
  BY <1>1, <1>6, <1>7

LEMMA PollEndsInv == IInv /\ PollEnds => IInv'
<1> SUFFICES ASSUME IInv, PollEnds
             PROVE  IInv'
  OBVIOUS
<1>1. announced' \in [Matches -> Nat]
  BY DEF IInv, TypeOK, PollEnds
<1>2. poll' = [phase |-> "idle", at |-> 0, due |-> {}, done |-> {}]
  BY DEF PollEnds, IdlePoll
<1>3. TypeOK'
  BY <1>1, <1>2, SMTT(30) DEF IInv, TypeOK, PollEnds, durable, runtimes
<1>4. QED
  BY <1>2, <1>3, QuietStep
     DEF IInv, PollEnds, CommitContinuesMemory, LoadersHoldRows, RepliesAreDurable,
         AckedIsDurable, DownIsEmpty, PollsAreLoaded, durable, runtimes, Created

-----------------------------------------------------------------------------
LEMMA CrashInv == IInv /\ Crash => IInv'
<1> SUFFICES ASSUME IInv, Crash
             PROVE  IInv'
  OBVIOUS
<1>1. NoRuntime \in [revision : Nat, game : Games, deadline : SUBSET Deadlines,
                     accepted : SUBSET Records]
  BY NewGameType DEF NoRuntime, RuntimeAt, Player
<1>2. poll' = [phase |-> "idle", at |-> 0, due |-> {}, done |-> {}]
  BY DEF Crash, IdlePoll
<1>3. \A l \in Loaders : loader'[l] = IdleLoader
  BY DEF Crash
<1>4. TypeOK'
  <2>1. /\ memory' \in [Matches -> [revision : Nat, game : Games, deadline : SUBSET Deadlines,
                                    accepted : SUBSET Records]]
        /\ announced' \in [Matches -> Nat]
    BY <1>1 DEF Crash
  <2>2. loader' \in [Loaders -> [phase : {"idle", "check", "read", "initial", "insert", "recover"},
                                 match : Matches \cup {NoPlayer}, head : Rows]]
    BY IdleLoaderType DEF Crash
  <2>3. poll' \in [phase : {"idle", "waiting", "running"}, at : Nat,
                   due : SUBSET [match : Matches, deadline : Deadlines], done : SUBSET Matches]
    BY <1>2
  <2>4. /\ loaded' = {} /\ commit' = {} /\ replies' = {} /\ up' \in BOOLEAN /\ faults' = faults + 1
        /\ UNCHANGED <<now, breaker, row, journal, acked>>
    BY DEF Crash, durable
  <2>5. QED
    BY <2>1, <2>2, <2>3, <2>4 DEF IInv, TypeOK
<1>5. LoadersHoldRows' /\ DownIsEmpty'
  BY <1>3, IdleLoaderType DEF LoadersHoldRows, DownIsEmpty, Crash
<1>6. QED
  BY <1>2, <1>4, <1>5
     DEF IInv, Crash, RecoveryNeverFails, RowIsTail, NothingBeforeCreation, MemoryIsDurablePrefix,
         PlayedMatchesStayLoaded, CommitContinuesMemory, RepliesAreDurable, AckedIsDurable,
         PollsAreLoaded, durable, Created

LEMMA RecoverInv == IInv /\ Recover => IInv'
<1> SUFFICES ASSUME IInv, Recover
             PROVE  IInv'
  OBVIOUS
<1>1. \A m \in Matches : m \in loaded' <=> Created(m)
  BY DEF Recover
<1>2. \A m \in Matches : Created(m) => memory'[m] = Recovered(m)
  BY DEF Recover
<1>3. \A m \in Matches : Created(m) =>
        /\ Recovered(m) \in [revision : Nat, game : Games, deadline : SUBSET Deadlines,
                             accepted : SUBSET Records]
        /\ Recovered(m).revision = Len(journal[m])
        /\ Recovered(m).game = GameAfter(breaker[m], journal[m], Recovered(m).revision)
        /\ Recovered(m).accepted = {journal[m][i] : i \in 1 .. Recovered(m).revision}
  BY RecoveredIsDurable
<1>4. NoRuntime \in [revision : Nat, game : Games, deadline : SUBSET Deadlines,
                     accepted : SUBSET Records]
  BY NewGameType DEF NoRuntime, RuntimeAt, Player
<1>5. commit = {} /\ replies = {} /\ \A l \in Loaders : loader[l].phase = "idle"
  BY DEF IInv, DownIsEmpty, Recover
<1>6. TypeOK'
  <2>1. memory' \in [Matches -> [revision : Nat, game : Games, deadline : SUBSET Deadlines,
                                 accepted : SUBSET Records]]
    BY <1>3, <1>4 DEF Recover
  <2>2. announced' \in [Matches -> Nat]
    BY <1>3 DEF Recover
  <2>3. QED
    BY <2>1, <2>2 DEF IInv, TypeOK, Recover, durable
<1>7. MemoryIsDurablePrefix'
  <2> SUFFICES ASSUME NEW m \in loaded'
               PROVE  /\ memory'[m].revision <= Len(journal[m])
                      /\ memory'[m].game = GameAfter(breaker[m], journal[m], memory'[m].revision)
                      /\ memory'[m].accepted = {journal[m][i] : i \in 1 .. memory'[m].revision}
    BY DEF MemoryIsDurablePrefix, Recover, durable
  <2>1. m \in Matches /\ Created(m) /\ Len(journal[m]) \in Nat
    BY DEF Recover, IInv, TypeOK
  <2>2. QED
    BY <2>1, <1>2, <1>3
<1>8. NothingBeforeCreation' /\ PlayedMatchesStayLoaded'
  BY <1>1 DEF IInv, NothingBeforeCreation, PlayedMatchesStayLoaded, Recover, durable, Created
<1>9. PollsAreLoaded'
  <2>1. \A d \in poll.due : d.match \in loaded /\ d.match \in Matches
    BY DEF IInv, TypeOK, PollsAreLoaded
  <2>2. loaded \subseteq loaded'
    BY <1>1 DEF IInv, TypeOK, NothingBeforeCreation
  <2>3. poll' = poll
    BY DEF Recover
  <2>4. QED
    BY <2>1, <2>2, <2>3 DEF PollsAreLoaded
<1>10. QED
  BY <1>5, <1>6, <1>7, <1>8, <1>9
     DEF IInv, Recover, RecoveryNeverFails, RowIsTail, CommitContinuesMemory, LoadersHoldRows,
         RepliesAreDurable, AckedIsDurable, DownIsEmpty, durable, Created
-----------------------------------------------------------------------------
LEMMA NextInv == IInv /\ [Next]_vars => IInv'
<1> SUFFICES ASSUME IInv, [Next]_vars
             PROVE  IInv'
  OBVIOUS
<1>1. CASE Tick
  BY <1>1, TickInv
<1>2. CASE \E l \in Loaders, m \in Matches, p \in Player : CreateMatch(l, m, p)
  BY <1>2, CreateMatchInv
<1>3. CASE \E l \in Loaders, m \in Matches : RequestMatch(l, m)
  BY <1>3, RequestMatchInv
<1>4. CASE Loading
  BY <1>4, CheckLoadedInv, ReadRecordsInv, ReadInitialInv, InsertInitialInv, InsertRecoveredInv
     DEF Loading
<1>5. CASE \E l \in Loaders : LoaderFails(l)
  BY <1>5, LoaderFailsInv
<1>6. CASE \E m \in Matches, id \in ClientIds, p \in Player, c \in ClientCommands :
             Submit(m, id, p, c)
  BY <1>6, SubmitInv
<1>7. CASE \E m \in Matches : \E e \in memory[m].accepted : Resubmit(m, e)
  BY <1>7, ResubmitInv
<1>8. CASE Committing
  BY <1>8, PersistInv, InstallInv, CommitRefusedInv DEF Committing
<1>9. CASE CommitFails
  BY <1>9, CommitFailsInv
<1>10. CASE \E a \in replies : Respond(a)
  BY <1>10, RespondInv
<1>11. CASE PollWakes \/ PollStarts \/ Polling
  BY <1>11, PollWakesInv, PollStartsInv, PollNextInv, PollEndsInv DEF Polling
<1>12. CASE Crash \/ Recover
  BY <1>12, CrashInv, RecoverInv
<1>13. CASE UNCHANGED vars
  <2>1. UNCHANGED <<now, breaker, row, journal, loaded, memory, commit, poll, loader, replies,
                    announced, acked, up, faults>>
    BY <1>13 DEF vars, durable, volatile, runtimes
  <2>2. TypeOK' /\ CommitContinuesMemory' /\ LoadersHoldRows' /\ RepliesAreDurable'
    BY <2>1 DEF IInv, TypeOK, CommitContinuesMemory, LoadersHoldRows, RepliesAreDurable, Created
  <2>3. AckedIsDurable' /\ DownIsEmpty' /\ PollsAreLoaded'
    BY <2>1 DEF IInv, AckedIsDurable, DownIsEmpty, PollsAreLoaded
  <2>4. QED
    BY <2>1, <2>2, <2>3, QuietStep DEF durable, runtimes
<1>14. QED
  BY <1>1, <1>2, <1>3, <1>4, <1>5, <1>6, <1>7, <1>8, <1>9, <1>10, <1>11, <1>12, <1>13 DEF Next

LEMMA Invariance == Spec => []IInv
BY InitInv, NextInv, PTL DEF Spec

(* Every variable keeps the shape of the table or structure it stands for. *)
THEOREM TypeCorrect == Spec => []TypeOK
<1>1. IInv => TypeOK
  BY DEF IInv
<1>2. QED
  BY <1>1, Invariance, PTL

(* Whatever was accepted before a crash, recover_match accepts it again:   *)
(* recovery never keeps the server from starting.                          *)
THEOREM RecoveryIsSafe == Spec => []RecoveryNeverFails
<1>1. IInv => RecoveryNeverFails
  BY DEF IInv
<1>2. QED
  BY <1>1, Invariance, PTL

(* The matches row is the tail of the journal and every match that is not  *)
(* over has a durable deadline for the turn being played.                  *)
THEOREM RowsAreTails == Spec => []RowIsTail
<1>1. IInv => RowIsTail
  BY DEF IInv
<1>2. QED
  BY <1>1, Invariance, PTL

(* What participants were told was accepted survives every crash.          *)
THEOREM AcceptanceIsDurable == Spec => []AckedIsDurable
<1>1. IInv => AckedIsDurable
  BY DEF IInv
<1>2. QED
  BY <1>1, Invariance, PTL

(* Memory never holds a state that is not in the journal.                  *)
THEOREM MemoryIsDurable == Spec => []MemoryIsDurablePrefix
<1>1. IInv => MemoryIsDurablePrefix
  BY DEF IInv
<1>2. QED
  BY <1>1, Invariance, PTL

(* A match that has been played stays with the scheduler.                  *)
THEOREM PlayedMatchesArePolled == Spec => []PlayedMatchesStayLoaded
<1>1. IInv => PlayedMatchesStayLoaded
  BY DEF IInv
<1>2. QED
  BY <1>1, Invariance, PTL

-----------------------------------------------------------------------------
(* Loading, committing and recovering never take a match that is in memory *)
(* back to an earlier revision.                                            *)
LEMMA NoRewindStep ==
  ASSUME IInv, [Next]_vars
  PROVE  \A m \in loaded \cap loaded' : memory[m].revision <= memory'[m].revision
<1> SUFFICES ASSUME NEW m \in loaded, m \in loaded'
             PROVE  memory[m].revision <= memory'[m].revision
  OBVIOUS
<1>1. m \in Matches /\ memory[m].revision \in Nat
  BY DEF IInv, TypeOK
<1>2. CASE UNCHANGED memory
  BY <1>1, <1>2
<1>3. CASE \E l \in Loaders : InsertInitial(l) \/ InsertRecovered(l)
  <2>1. UNCHANGED memory \/ \E k, r : k \notin loaded /\ Load(k, r)
    BY <1>3 DEF InsertInitial, InsertRecovered, runtimes
  <2>2. ASSUME NEW k, NEW r, k \notin loaded, Load(k, r)
        PROVE  memory'[m] = memory[m]
    BY <2>2, <1>1 DEF IInv, TypeOK, Load
  <2>3. QED
    BY <1>1, <1>2, <2>1, <2>2
<1>4. CASE Install
  <2>1. PICK w \in commit :
          memory' = [memory EXCEPT ![w.match] =
                       RuntimeAt(w.record.expected + 1, w.record.game, w.record.deadline,
                                 memory[w.match].accepted \cup {w.record})]
    BY <1>4 DEF Install
  <2>2. w.record.expected = memory[w.match].revision
    BY DEF IInv, CommitContinuesMemory
  <2>3. CASE w.match = m
    <3>1. memory'[m] = RuntimeAt(memory[m].revision + 1, w.record.game, w.record.deadline,
                                 memory[m].accepted \cup {w.record})
      BY <1>1, <2>1, <2>2, <2>3 DEF IInv, TypeOK
    <3>2. memory'[m].revision = memory[m].revision + 1
      BY <3>1 DEF RuntimeAt
    <3>3. QED
      BY <1>1, <3>2
  <2>4. CASE w.match # m
    BY <1>1, <2>1, <2>4 DEF IInv, TypeOK
  <2>5. QED
    BY <2>3, <2>4
<1>5. CASE Crash
  BY <1>5 DEF Crash
<1>6. CASE Recover
  <2>1. Created(m) /\ memory'[m] = Recovered(m)
    BY <1>1, <1>6 DEF Recover
  <2>2. memory'[m].revision = Len(journal[m])
    BY <1>1, <2>1, RecoveredIsDurable
  <2>3. QED
    BY <2>2 DEF IInv, MemoryIsDurablePrefix
<1>7. QED
  <2>1. CASE Tick \/ (\E l \in Loaders, k \in Matches, p \in Player : CreateMatch(l, k, p))
              \/ (\E l \in Loaders, k \in Matches : RequestMatch(l, k))
              \/ (\E l \in Loaders : LoaderFails(l))
    BY <1>2, <2>1 DEF Tick, CreateMatch, RequestMatch, LoaderFails, volatile, runtimes
  <2>2. CASE Loading
    BY <1>2, <1>3, <2>2 DEF Loading, CheckLoaded, ReadRecords, ReadInitial, runtimes
  <2>3. CASE (\E k \in Matches, id \in ClientIds, p \in Player, c \in ClientCommands :
                Submit(k, id, p, c))
              \/ (\E k \in Matches : \E e \in memory[k].accepted : Resubmit(k, e))
              \/ (\E a \in replies : Respond(a))
    BY <1>2, <2>3 DEF Submit, Resubmit, Respond, runtimes
  <2>4. CASE Committing \/ CommitFails
    BY <1>2, <1>4, <2>4 DEF Committing, CommitFails, CommitRefused, GiveUp, Persist, runtimes
  <2>5. CASE PollWakes \/ PollStarts \/ Polling
    BY <1>2, <2>5 DEF PollWakes, PollStarts, Polling, PollNext, PollEnds, runtimes
  <2>6. CASE UNCHANGED vars
    BY <1>2, <2>6 DEF vars, volatile, runtimes
  <2>7. QED
    BY <1>5, <1>6, <2>1, <2>2, <2>3, <2>4, <2>5, <2>6 DEF Next

(* Memory never goes back, whatever a request read before it inserts.      *)
THEOREM NoRewind == Spec => MemoryNeverRewinds
<1>1. IInv /\ [Next]_vars =>
        [\A m \in loaded \cap loaded' : memory[m].revision <= memory'[m].revision]_vars
  BY NoRewindStep
<1>2. QED
  BY <1>1, Invariance, PTL DEF Spec, MemoryNeverRewinds
-----------------------------------------------------------------------------
(* The deadline in memory is the one in the row as long as memory is not   *)
(* behind the row, polls and the timeouts they have decided are of moments *)
(* that have passed.                                                       *)
DeadlinesAgree ==
  \A m \in loaded : memory[m].revision = row[m].revision => memory[m].deadline = row[m].deadline

TimeoutsAreDecidedLate ==
  \A w \in commit : w.record.id \notin ClientIds =>
    \E d \in memory[w.match].deadline : d.due <= now /\ d.player = w.record.actor

Timely == DeadlinesAgree /\ poll.at <= now /\ TimeoutsAreDecidedLate

(* What is read out of the database is armed like its row.                 *)
LEMMA RecoveredDeadline ==
  ASSUME IInv, NEW m \in Matches, Created(m)
  PROVE  Recovered(m).deadline = row[m].deadline
<1>1. Len(journal[m]) \in Nat
  BY DEF IInv, TypeOK
<1>2. CASE Len(journal[m]) = 0
  BY <1>2 DEF Recovered, RuntimeAt
<1>3. CASE Len(journal[m]) # 0
  <2>1. row[m].deadline = journal[m][Len(journal[m])].deadline
    BY <1>1, <1>3 DEF IInv, RowIsTail
  <2> QED
    BY <1>3, <2>1 DEF Recovered, RuntimeAt
<1> QED
  BY <1>2, <1>3

LEMMA DeadlinesAgreeStep ==
  ASSUME IInv, DeadlinesAgree, [Next]_vars
  PROVE  DeadlinesAgree'
<1> SUFFICES ASSUME NEW m \in loaded', memory'[m].revision = row'[m].revision
             PROVE  memory'[m].deadline = row'[m].deadline
  BY DEF DeadlinesAgree
<1>1. loaded \subseteq Matches
  BY DEF IInv, TypeOK
<1>2. CASE UNCHANGED <<loaded, memory, row>>
  BY <1>2 DEF DeadlinesAgree
<1>3. ASSUME NEW l \in Loaders, NEW k \in Matches, NEW p \in Player, CreateMatch(l, k, p)
      PROVE  memory'[m].deadline = row'[m].deadline
  <2>1. k \notin loaded /\ loaded' = loaded /\ memory' = memory
    BY <1>3 DEF CreateMatch, IInv, NothingBeforeCreation, runtimes
  <2>2. m # k /\ row'[m] = row[m]
    BY <1>1, <1>3, <2>1 DEF CreateMatch, IInv, TypeOK
  <2> QED
    BY <2>1, <2>2 DEF DeadlinesAgree
<1>4. ASSUME NEW l \in Loaders, InsertInitial(l) \/ InsertRecovered(l)
      PROVE  memory'[m].deadline = row'[m].deadline
  <2>1. row' = row /\ loader[l].phase # "idle"
    BY <1>4 DEF InsertInitial, InsertRecovered, LoaderStep, durable
  <2>2. loader[l].match \in Matches /\ Created(loader[l].match)
    BY <2>1 DEF IInv, LoadersHoldRows
  <2>3. CASE UNCHANGED runtimes
    BY <1>2, <2>1, <2>3 DEF runtimes
  <2>4. ASSUME NEW k, k = loader[l].match, k \notin loaded,
               NEW r, Load(k, r), r.deadline = row[k].deadline
        PROVE  memory'[m].deadline = row'[m].deadline
    <3>1. CASE m = k
      BY <2>1, <2>2, <2>4, <3>1 DEF Load, IInv, TypeOK
    <3>2. CASE m # k
      <4>1. m \in loaded /\ memory'[m] = memory[m]
        BY <1>1, <2>4, <3>2 DEF Load, IInv, TypeOK
      <4> QED
        BY <2>1, <4>1 DEF DeadlinesAgree
    <3> QED
      BY <3>1, <3>2
  <2>5. PICK k : k = loader[l].match
    OBVIOUS
  <2>6. CASE InsertInitial(l)
    <3>1. PICK r : r = RuntimeAt(0, loader[l].head.game, loader[l].head.deadline, {})
      OBVIOUS
    <3>2. UNCHANGED runtimes \/ (k \notin loaded /\ Load(k, r) /\ loader[l].phase = "insert")
      BY <2>5, <2>6, <3>1 DEF InsertInitial, LoaderStep
    <3>3. k \notin loaded /\ loader[l].phase = "insert" => r.deadline = row[k].deadline
      BY <2>5, <3>1 DEF IInv, LoadersHoldRows, RuntimeAt
    <3> QED
      BY <2>3, <2>4, <2>5, <3>2, <3>3
  <2>7. CASE InsertRecovered(l)
    <3>1. PICK r : r = Recovered(k)
      OBVIOUS
    <3>2. UNCHANGED runtimes \/ (k \notin loaded /\ Load(k, r))
      BY <2>5, <2>7, <3>1 DEF InsertRecovered
    <3>3. r.deadline = row[k].deadline
      BY <2>2, <2>5, <3>1, RecoveredDeadline
    <3> QED
      BY <2>3, <2>4, <2>5, <3>2, <3>3
  <2> QED
    BY <1>4, <2>6, <2>7
<1>5. CASE Persist
  <2>1. PICK w \in commit :
          /\ row' = [row EXCEPT ![w.match] =
                       RowAt(w.record.expected + 1, w.record.game, w.record.deadline)]
          /\ UNCHANGED <<loaded, memory>>
    BY <1>5 DEF Persist, runtimes
  <2>2. w.record.expected = memory[w.match].revision /\ w.match \in Matches
        /\ memory[w.match].revision \in Nat
    BY DEF IInv, CommitContinuesMemory, TypeOK
  <2>3. CASE m = w.match
    <3>1. row'[m].revision = memory[m].revision + 1
      BY <2>1, <2>2, <2>3 DEF IInv, TypeOK, RowAt
    <3> QED
      BY <2>1, <2>2, <2>3, <3>1
  <2>4. CASE m # w.match
    <3>1. row'[m] = row[m] /\ memory'[m] = memory[m] /\ m \in loaded
      BY <1>1, <2>1, <2>4 DEF IInv, TypeOK
    <3> QED
      BY <3>1 DEF DeadlinesAgree
  <2> QED
    BY <2>3, <2>4
<1>6. CASE Install
  <2>1. PICK w \in commit :
          /\ w.durable
          /\ memory' = [memory EXCEPT ![w.match] =
               RuntimeAt(w.record.expected + 1, w.record.game, w.record.deadline,
                         memory[w.match].accepted \cup {w.record})]
          /\ UNCHANGED <<row, loaded>>
    BY <1>6 DEF Install, durable
  <2>2. /\ w.match \in Matches /\ w.match \in loaded
        /\ w.record.expected + 1 \in DOMAIN journal[w.match]
        /\ journal[w.match][w.record.expected + 1] = w.record
    BY <1>1, <2>1 DEF IInv, CommitContinuesMemory
  <2>3. CASE m = w.match
    <3>1. memory'[m].revision = w.record.expected + 1 /\ memory'[m].deadline = w.record.deadline
      BY <2>1, <2>2, <2>3 DEF IInv, TypeOK, RuntimeAt
    <3>2. Created(m) /\ journal[m] \in Seq(Records)
      BY <2>2, <2>3 DEF IInv, NothingBeforeCreation, TypeOK
    <3>3. row[m].revision = Len(journal[m]) /\ Len(journal[m]) > 0
          /\ row[m].deadline = journal[m][Len(journal[m])].deadline
      BY <2>2, <2>3, <3>2 DEF IInv, RowIsTail
    <3> QED
      BY <2>1, <2>2, <2>3, <3>1, <3>3
  <2>4. CASE m # w.match
    <3>1. memory'[m] = memory[m] /\ m \in loaded
      BY <1>1, <2>1, <2>4 DEF IInv, TypeOK
    <3> QED
      BY <2>1, <3>1 DEF DeadlinesAgree
  <2> QED
    BY <2>3, <2>4
<1>7. CASE Crash
  BY <1>7 DEF Crash
<1>8. CASE Recover
  <2>1. m \in Matches /\ Created(m) /\ memory'[m] = Recovered(m) /\ row' = row
    BY <1>8 DEF Recover, durable
  <2> QED
    BY <2>1, RecoveredDeadline
<1>9. CASE Tick \/ (\E l \in Loaders, k \in Matches : RequestMatch(l, k))
           \/ (\E l \in Loaders : LoaderFails(l))
  BY <1>2, <1>9 DEF Tick, RequestMatch, LoaderStep, LoaderFails, volatile, durable, runtimes
<1>10. CASE Loading
  BY <1>2, <1>4, <1>10 DEF Loading, CheckLoaded, ReadRecords, ReadInitial, LoaderStep, durable,
                           runtimes
<1>11. CASE (\E k \in Matches, id \in ClientIds, p \in Player, c \in ClientCommands :
               Submit(k, id, p, c))
            \/ (\E k \in Matches : \E e \in memory[k].accepted : Resubmit(k, e))
            \/ (\E a \in replies : Respond(a))
  BY <1>2, <1>11 DEF Submit, Resubmit, Respond, durable, runtimes
<1>12. CASE Committing \/ CommitFails
  BY <1>2, <1>5, <1>6, <1>12 DEF Committing, CommitFails, CommitRefused, GiveUp, durable, runtimes
<1>13. CASE PollWakes \/ PollStarts \/ Polling
  BY <1>2, <1>13 DEF PollWakes, PollStarts, Polling, PollNext, PollEnds, durable, runtimes
<1>14. CASE UNCHANGED vars
  BY <1>2, <1>14 DEF vars, volatile, durable, runtimes
<1> QED
  BY <1>3, <1>7, <1>8, <1>9, <1>10, <1>11, <1>12, <1>13, <1>14 DEF Next

(* A poll reads the clock before it waits, and the clock never goes back.  *)
LEMMA PollIsPastStep ==
  ASSUME IInv, poll.at <= now, [Next]_vars
  PROVE  poll'.at <= now'
<1>1. now \in Nat /\ poll.at \in Nat
  BY DEF IInv, TypeOK
<1>2. poll \in [phase : {"idle", "waiting", "running"}, at : Nat,
                due : SUBSET [match : Matches, deadline : Deadlines], done : SUBSET Matches]
  BY DEF IInv, TypeOK
<1>3. CASE poll'.at = poll.at /\ UNCHANGED now
  BY <1>3
<1>4. CASE poll' = IdlePoll /\ UNCHANGED now
  BY <1>1, <1>4 DEF IdlePoll
<1>5. CASE Tick
  BY <1>1, <1>5 DEF Tick, volatile
<1>6. CASE (\E l \in Loaders, m \in Matches, p \in Player : CreateMatch(l, m, p))
           \/ (\E l \in Loaders, m \in Matches : RequestMatch(l, m)) \/ Loading
           \/ (\E l \in Loaders : LoaderFails(l))
  BY <1>3, <1>6 DEF CreateMatch, RequestMatch, Loading, LoaderFails, CheckLoaded, ReadRecords,
                    ReadInitial, InsertInitial, InsertRecovered, LoaderStep
<1>7. CASE (\E m \in Matches, id \in ClientIds, p \in Player, c \in ClientCommands :
              Submit(m, id, p, c))
           \/ (\E m \in Matches : \E e \in memory[m].accepted : Resubmit(m, e))
           \/ (\E a \in replies : Respond(a))
  BY <1>3, <1>7 DEF Submit, Resubmit, Respond
<1>8. CASE Committing \/ CommitFails
  <2>1. UNCHANGED now
    BY <1>8 DEF Committing, Persist, Install, CommitRefused, CommitFails, GiveUp
  <2>2. poll' = IdlePoll \/ UNCHANGED poll \/ \E done : poll' = [poll EXCEPT !.done = done]
    BY <1>8 DEF Committing, Persist, Install, CommitRefused, CommitFails, GiveUp
  <2>3. poll' = IdlePoll \/ poll'.at = poll.at
    BY <1>2, <2>2
  <2> QED
    BY <1>3, <1>4, <2>1, <2>3
<1>9. CASE PollWakes
  BY <1>1, <1>9 DEF PollWakes, IdlePoll
<1>10. CASE PollStarts
  BY <1>2, <1>3, <1>10 DEF PollStarts
<1>11. CASE PollNext
  <2>1. UNCHANGED now /\ \E due : poll' = [poll EXCEPT !.due = due]
    BY <1>11 DEF PollNext
  <2> QED
    BY <1>2, <1>3, <2>1
<1>12. CASE PollEnds \/ Crash
  BY <1>4, <1>12 DEF PollEnds, Crash
<1>13. CASE Recover \/ UNCHANGED vars
  BY <1>3, <1>13 DEF Recover, vars, volatile
<1> QED
  BY <1>5, <1>6, <1>7, <1>8, <1>9, <1>10, <1>11, <1>12, <1>13 DEF Next, Polling

LEMMA TimeoutsAreDecidedLateStep ==
  ASSUME IInv, poll.at <= now, TimeoutsAreDecidedLate, [Next]_vars
  PROVE  TimeoutsAreDecidedLate'
<1>1. now \in Nat /\ poll.at \in Nat /\ loaded \subseteq Matches
  BY DEF IInv, TypeOK
<1>2. \A w \in commit : w.match \in loaded
  BY DEF IInv, CommitContinuesMemory
<1>3. CASE commit' = {}
  BY <1>3 DEF TimeoutsAreDecidedLate
<1>4. CASE UNCHANGED <<now, memory, commit>>
  BY <1>4 DEF TimeoutsAreDecidedLate
<1>5. CASE Tick
  <2> SUFFICES ASSUME NEW w \in commit, w.record.id \notin ClientIds
               PROVE  \E d \in memory[w.match].deadline : d.due <= now' /\ d.player = w.record.actor
    BY <1>5 DEF Tick, TimeoutsAreDecidedLate, volatile, runtimes
  <2>1. PICK d \in memory[w.match].deadline : d.due <= now /\ d.player = w.record.actor
    BY DEF TimeoutsAreDecidedLate
  <2>2. d.due \in Nat
    BY <1>1, <1>2 DEF IInv, TypeOK, Deadlines
  <2> QED
    BY <1>1, <1>5, <2>1, <2>2 DEF Tick
<1>6. ASSUME NEW l \in Loaders, InsertInitial(l) \/ InsertRecovered(l)
      PROVE  TimeoutsAreDecidedLate'
  BY <1>3, <1>6 DEF InsertInitial, InsertRecovered, MutexFree, LoaderStep
<1>7. ASSUME NEW m \in Matches, NEW id \in ClientIds, NEW p \in Player, NEW c \in ClientCommands,
             Submit(m, id, p, c)
      PROVE  TimeoutsAreDecidedLate'
  <2>1. PICK e : e = Record(m, id, p, c, now)
    OBVIOUS
  <2>2. commit' = {[match |-> m, record |-> e, durable |-> FALSE]}
    BY <1>7, <2>1 DEF Submit, Decide
  <2>3. e.id \in ClientIds
    BY <2>1 DEF Record
  <2> QED
    BY <2>2, <2>3 DEF TimeoutsAreDecidedLate
<1>8. CASE Persist
  <2>1. PICK w \in commit : /\ commit' = {[w EXCEPT !.durable = TRUE]}
                            /\ UNCHANGED <<now, memory>>
    BY <1>8 DEF Persist, runtimes
  <2>2. w \in [match : Matches, record : Records, durable : BOOLEAN]
    BY DEF IInv, TypeOK
  <2>3. PICK v : v = [w EXCEPT !.durable = TRUE]
    OBVIOUS
  <2>4. v.match = w.match /\ v.record = w.record
    BY <2>2, <2>3
  <2> QED
    BY <2>1, <2>3, <2>4 DEF TimeoutsAreDecidedLate
<1>9. CASE PollNext
  <2>1. UNCHANGED <<now, memory>>
    BY <1>9 DEF PollNext, runtimes
  <2>2. PICK d \in poll.due :
          IF Current(d)
          THEN Decide(d.match, TimeoutId(d.deadline.revision, d.deadline.player),
                      d.deadline.player, "timeout", poll.at)
          ELSE UNCHANGED commit
    BY <1>9 DEF PollNext
  <2>3. CASE Current(d)
    <3>1. PICK e : e = Record(d.match, TimeoutId(d.deadline.revision, d.deadline.player),
                              d.deadline.player, "timeout", poll.at)
      OBVIOUS
    <3>2. commit' = {[match |-> d.match, record |-> e, durable |-> FALSE]}
      BY <2>2, <2>3, <3>1 DEF Decide
    <3>3. e.actor = d.deadline.player
      BY <3>1 DEF Record
    <3>4. d \in [match : Matches, deadline : Deadlines]
      BY DEF IInv, TypeOK
    <3>5. d.deadline \in memory[d.match].deadline /\ d.deadline.due <= poll.at
          /\ d.deadline.due \in Nat
      BY <2>3, <3>4 DEF Current, Deadlines
    <3>6. d.deadline.due <= now
      BY <1>1, <3>5
    <3> QED
      BY <2>1, <3>2, <3>3, <3>5, <3>6 DEF TimeoutsAreDecidedLate
  <2> QED
    BY <1>4, <2>1, <2>2, <2>3
<1>10. CASE Recover
  BY <1>3, <1>10 DEF Recover, IInv, DownIsEmpty
<1>11. CASE (\E l \in Loaders, m \in Matches, p \in Player : CreateMatch(l, m, p))
            \/ (\E l \in Loaders, m \in Matches : RequestMatch(l, m))
            \/ (\E l \in Loaders : LoaderFails(l))
  BY <1>4, <1>11 DEF CreateMatch, RequestMatch, LoaderFails, LoaderStep, runtimes
<1>12. CASE Loading
  BY <1>4, <1>6, <1>12 DEF Loading, CheckLoaded, ReadRecords, ReadInitial, LoaderStep, runtimes
<1>13. CASE (\E m \in Matches : \E e \in memory[m].accepted : Resubmit(m, e))
            \/ (\E a \in replies : Respond(a))
  BY <1>4, <1>13 DEF Resubmit, Respond, runtimes
<1>14. CASE Committing \/ CommitFails
  BY <1>3, <1>8, <1>14 DEF Committing, Install, CommitRefused, CommitFails, GiveUp
<1>15. CASE PollWakes \/ PollStarts \/ Polling
  BY <1>4, <1>9, <1>15 DEF PollWakes, PollStarts, Polling, PollEnds, runtimes
<1>16. CASE Crash
  BY <1>3, <1>16 DEF Crash
<1>17. CASE UNCHANGED vars
  BY <1>4, <1>17 DEF vars, volatile, runtimes
<1> QED
  BY <1>5, <1>7, <1>10, <1>11, <1>12, <1>13, <1>14, <1>15, <1>16, <1>17 DEF Next

LEMMA TimelyInvariance == Spec => []Timely
<1>1. Init => Timely
  BY DEF Init, Timely, DeadlinesAgree, TimeoutsAreDecidedLate, IdlePoll
<1>2. IInv /\ Timely /\ [Next]_vars => Timely'
  BY DeadlinesAgreeStep, PollIsPastStep, TimeoutsAreDecidedLateStep DEF Timely
<1> QED
  BY <1>1, <1>2, Invariance, PTL DEF Spec

(* Only a commit writes to the journal: a timeout it writes was decided    *)
(* against the deadline that the row still has.                            *)
LEMMA TimeoutsAreDueStep ==
  ASSUME IInv, Timely, [Next]_vars, NEW m \in Matches, journal'[m] # journal[m],
         journal'[m][Len(journal[m]) + 1].id \notin ClientIds
  PROVE  \E d \in row[m].deadline :
           d.due <= now /\ d.player = journal'[m][Len(journal[m]) + 1].actor
<1>1. CASE Persist
  <2>1. PICK w \in commit : /\ Persistable(w.match, w.record)
                            /\ journal' = [journal EXCEPT ![w.match] = Append(@, w.record)]
    BY <1>1 DEF Persist
  <2>2. journal[m] \in Seq(Records) /\ w.record \in Records
    BY DEF IInv, TypeOK
  <2>3. w.match = m /\ journal'[m] = Append(journal[m], w.record)
    BY <2>1 DEF IInv, TypeOK
  <2>4. journal'[m][Len(journal[m]) + 1] = w.record
    BY <2>2, <2>3, AppendRecord
  <2>5. m \in loaded /\ memory[m].revision = row[m].revision
    BY <2>1, <2>3 DEF IInv, CommitContinuesMemory, Persistable
  <2>6. memory[m].deadline = row[m].deadline
    BY <2>5 DEF Timely, DeadlinesAgree
  <2> QED
    BY <2>3, <2>4, <2>6 DEF Timely, TimeoutsAreDecidedLate
<1>2. CASE UNCHANGED journal
  BY <1>2
<1>3. CASE Tick \/ (\E l \in Loaders, k \in Matches, p \in Player : CreateMatch(l, k, p))
           \/ (\E l \in Loaders, k \in Matches : RequestMatch(l, k)) \/ Loading
           \/ (\E l \in Loaders : LoaderFails(l))
  BY <1>2, <1>3 DEF Tick, CreateMatch, RequestMatch, Loading, LoaderFails, CheckLoaded, ReadRecords,
                    ReadInitial, InsertInitial, InsertRecovered, LoaderStep, durable
<1>4. CASE (\E k \in Matches, id \in ClientIds, p \in Player, c \in ClientCommands :
              Submit(k, id, p, c))
           \/ (\E k \in Matches : \E e \in memory[k].accepted : Resubmit(k, e))
           \/ (\E a \in replies : Respond(a))
  BY <1>2, <1>4 DEF Submit, Resubmit, Respond, durable
<1>5. CASE Install \/ CommitRefused \/ CommitFails
  BY <1>2, <1>5 DEF Install, CommitRefused, CommitFails, GiveUp, durable
<1>6. CASE PollWakes \/ PollStarts \/ Polling
  BY <1>2, <1>6 DEF PollWakes, PollStarts, Polling, PollNext, PollEnds, durable
<1>7. CASE Crash \/ Recover \/ UNCHANGED vars
  BY <1>2, <1>7 DEF Crash, Recover, vars, durable
<1> QED
  BY <1>1, <1>3, <1>4, <1>5, <1>6, <1>7 DEF Next, Committing

(* No poll, however long it waited for the mutex or the database and       *)
(* whatever clients did meanwhile, times out a turn before its durable     *)
(* deadline has passed, or a player whose turn it is not.                  *)
THEOREM NoEarlyTimeout == Spec => TimeoutsAreDue
<1>1. IInv /\ Timely /\ [Next]_vars =>
        [ \A m \in Matches :
            LET n == Len(journal[m])
            IN  /\ journal'[m] # journal[m]
                /\ journal'[m][n + 1].id \notin ClientIds
                => \E d \in row[m].deadline :
                     d.due <= now /\ d.player = journal'[m][n + 1].actor ]_vars
  BY TimeoutsAreDueStep
<1>2. QED
  BY <1>1, Invariance, TimelyInvariance, PTL DEF Spec, TimeoutsAreDue

-----------------------------------------------------------------------------
(* The operators of the abstract specification are those of this module.   *)
LEMMA SameOperators ==
  /\ \A b, h, n : Log!GameAfter(b, h, n) = GameAfter(b, h, n)
  /\ \A b, h, n, e : Log!Replays(b, h, n, e) <=> Replays(b, h, n, e)
  /\ \A g, p, c : Log!MayGive(g, p, c) <=> MayGive(g, p, c)
  /\ Log!Player = Player
<1>1. \A b, h, n : Log!GameAfter(b, h, n) = GameAfter(b, h, n)
  BY DEF Log!GameAfter, GameAfter, Log!NewGame, NewGame
<1>2. \A g, c : Log!Allowed(g, c) <=> Allowed(g, c)
  BY DEF Log!Allowed, Allowed
<1>3. \A d, n, g : Log!Armed(d, n, g) <=> Armed(d, n, g)
  BY DEF Log!Armed, Armed, Log!DeadlineOf, DeadlineOf
<1>4. \A g, c : Log!Apply(g, c) = Apply(g, c)
  BY Zenon DEF Log!Apply, Apply, Log!Opponent, Opponent, Log!Concessions, Concessions
<1>5. Log!Commands = Commands /\ Log!Player = Player
  BY DEF Log!Commands, Commands, Log!TurnCommands, TurnCommands, Log!ShotCommands, ShotCommands,
         Log!Concessions, Concessions, Log!Player, Player
<1>6. \A g, p, c : Log!MayGive(g, p, c) <=> MayGive(g, p, c)
  BY DEF Log!MayGive, MayGive, Log!TurnCommands, TurnCommands, Log!ShotCommands, ShotCommands,
         Log!Concessions, Concessions, Log!ConcessionOf, ConcessionOf, Log!Player, Player
<1>7. \A b, h, n, e : Log!Replays(b, h, n, e) <=> Replays(b, h, n, e)
  BY <1>1, <1>2, <1>3, <1>4, <1>5 DEF Log!Replays, Replays
<1>8. QED
  BY <1>1, <1>5, <1>6, <1>7

LEMMA CreateMatchOpens ==
  ASSUME IInv, NEW l \in Loaders, NEW m \in Matches, NEW p \in Player, CreateMatch(l, m, p)
  PROVE  Log!Open(m)
BY SameOperators DEF Log!Open, CreateMatch, Created

(* The commit of a command is the step that accepts it: not the decision   *)
(* before it, nor the installation after it.                               *)
LEMMA PersistAccepts ==
  ASSUME IInv, Persist
  PROVE  \E m \in Matches : Log!Accept(m)
<1>1. PICK w \in commit :
        /\ Persistable(w.match, w.record)
        /\ journal' = [journal EXCEPT ![w.match] = Append(@, w.record)]
        /\ UNCHANGED <<breaker, acked>>
  BY DEF Persist
<1> DEFINE m == w.match
           e == w.record
           n == Len(journal[m])
<1>2. /\ m \in Matches /\ e \in Records /\ Created(m) /\ n \in Nat
      /\ Replays(breaker[m], journal[m], n, e)
      /\ MayGive(GameAfter(breaker[m], journal[m], n), e.actor, e.cmd)
      /\ e.id \notin ClientIds =>
           e.cmd = "timeout" /\ e.actor = GameAfter(breaker[m], journal[m], n).active
  BY <1>1, PersistReplays
<1>3. journal[m] \in Seq(Records) /\ journal'[m] = Append(journal[m], e)
  BY <1>1, <1>2 DEF IInv, TypeOK
<1> HIDE DEF m, e, n
<1>4. Len(journal'[m]) = n + 1 /\ journal'[m][n + 1] = e
  BY <1>2, <1>3, AppendRecord DEF n
<1>5. journal' = [journal EXCEPT ![m] = Append(@, e)]
  BY <1>1 DEF m, e
<1>6. Log!Accept(m)
  BY <1>1, <1>2, <1>4, <1>5, SameOperators DEF Log!Accept, Created, n
<1>7. QED
  BY <1>2, <1>6

LEMMA RespondAcknowledges ==
  ASSUME IInv, NEW a \in replies, Respond(a)
  PROVE  \E m \in Matches : Log!Acknowledge(m)
<1>1. a.match \in Matches
  BY DEF IInv, TypeOK
<1>2. a.revision \in DOMAIN journal[a.match] /\ journal[a.match][a.revision].id = a.id
  BY DEF IInv, RepliesAreDurable
<1>3. /\ acked' = acked \cup {[match |-> a.match, id |-> journal[a.match][a.revision].id,
                               revision |-> a.revision]}
      /\ UNCHANGED <<breaker, journal>>
  BY <1>2 DEF Respond, durable
<1>4. QED
  BY <1>1, <1>2, <1>3 DEF Log!Acknowledge

(* Every step either leaves the history alone or is a step of CommandLog.  *)
LEMMA LogStep == IInv /\ [Next]_vars => [Log!Next]_(Log!vars)
<1> SUFFICES ASSUME IInv, [Next]_vars
             PROVE  [Log!Next]_(Log!vars)
  OBVIOUS
<1>1. CASE UNCHANGED <<breaker, journal, acked>>
  BY <1>1 DEF Log!vars
<1>2. CASE \E l \in Loaders, m \in Matches, p \in Player : CreateMatch(l, m, p)
  BY <1>2, CreateMatchOpens DEF Log!Next
<1>3. CASE Persist
  BY <1>3, PersistAccepts DEF Log!Next
<1>4. CASE \E a \in replies : Respond(a)
  BY <1>4, RespondAcknowledges DEF Log!Next
<1>5. CASE Tick \/ (\E l \in Loaders, k \in Matches : RequestMatch(l, k)) \/ Loading
             \/ (\E l \in Loaders : LoaderFails(l))
  BY <1>1, <1>5 DEF Tick, RequestMatch, Loading, LoaderFails, CheckLoaded, ReadRecords, ReadInitial,
                    InsertInitial, InsertRecovered, LoaderStep, durable
<1>6. CASE (\E k \in Matches, id \in ClientIds, p \in Player, c \in ClientCommands :
              Submit(k, id, p, c))
           \/ (\E k \in Matches : \E e \in memory[k].accepted : Resubmit(k, e))
  BY <1>1, <1>6 DEF Submit, Resubmit, durable
<1>7. CASE Install \/ CommitRefused \/ CommitFails
  BY <1>1, <1>7 DEF Install, CommitRefused, CommitFails, GiveUp, durable
<1>8. CASE PollWakes \/ PollStarts \/ Polling
  BY <1>1, <1>8 DEF PollWakes, PollStarts, Polling, PollNext, PollEnds, durable
<1>9. CASE Crash \/ Recover
  BY <1>1, <1>9 DEF Crash, Recover, durable
<1>10. CASE UNCHANGED vars
  BY <1>1, <1>10 DEF vars, durable
<1>11. QED
  BY <1>2, <1>3, <1>4, <1>5, <1>6, <1>7, <1>8, <1>9, <1>10 DEF Next, Committing

(* The service, with its mutex, its awaits, its scheduler and its crashes, *)
(* implements the abstract history of accepted commands.                   *)
THEOREM RefinesCommandLog == Spec => ImplementsCommandLog
<1>1. Init => Log!Init
  BY DEF Init, Log!Init
<1>2. QED
  BY <1>1, LogStep, Invariance, PTL DEF Spec, ImplementsCommandLog, Log!Spec
-----------------------------------------------------------------------------
(* A failing probe takes one of the faults, and is no step of the service  *)
(* otherwise; every other step of the probe is none at all.                *)
LEMMA ProbeFailsInv == IInv /\ ProbeFails => IInv'
<1> SUFFICES ASSUME IInv, ProbeFails
             PROVE  IInv'
  OBVIOUS
<1>1. /\ UNCHANGED <<now, breaker, row, journal, loaded, memory, commit, poll, loader, replies,
                     announced, acked, up>>
      /\ faults' = faults + 1
  BY DEF ProbeFails, durable, volatile, runtimes
<1>2. TypeOK'
  <2>1. TypeOK
    BY DEF IInv
  <2>2. faults' \in Nat
    BY <1>1, <2>1 DEF TypeOK
  <2> QED
    BY <1>1, <2>1, <2>2 DEF TypeOK
<1> QED
  BY <1>1, <1>2, QuietStep
     DEF IInv, durable, runtimes, CommitContinuesMemory, LoadersHoldRows, RepliesAreDurable,
         AckedIsDurable, DownIsEmpty, PollsAreLoaded, Created

LEMMA ProbeStepIsStep ==
  ASSUME [ProbeNext]_<<vars, probeVars>>, ~ProbeFails
  PROVE  [Next]_vars
<1>1. CASE Authority
  BY <1>1 DEF Authority
<1>2. CASE UNCHANGED vars
  BY <1>2
<1> QED
  BY <1>1, <1>2 DEF ProbeNext, ProbeBegins, Probing, ListMatches, ReadRow, ReadTail, TakeHeads,
                    ProbeStep

LEMMA ProbeInvariance == ProbeSpec => []IInv
<1>1. IInv /\ [ProbeNext]_<<vars, probeVars>> => IInv'
  BY ProbeStepIsStep, ProbeFailsInv, NextInv
<1> QED
  BY <1>1, InitInv, PTL DEF ProbeSpec, ProbeInit

(* There is a list of any finite set of identifiers in their order: it has *)
(* each of them at the place that the number of smaller ones gives it.     *)
LEMMA ListedIsList ==
  ASSUME NEW S \in SUBSET Nat, IsFiniteSet(S)
  PROVE  Listed(S, NumberBefore) \in [1 .. Cardinality(S) -> S]
<1> DEFINE n       == Cardinality(S)
           Less(m) == {k \in S : k < m}
           rank    == [m \in S |-> Cardinality(Less(m)) + 1]
<1>1. n \in Nat
  BY FS_CardinalityType
<1>2. ASSUME NEW m \in S
      PROVE  IsFiniteSet(Less(m)) /\ Cardinality(Less(m)) \in Nat /\ Cardinality(Less(m)) < n
  <2>1. IsFiniteSet(S \ {m}) /\ Cardinality(S \ {m}) = n - 1
    BY FS_RemoveElement
  <2>2. Less(m) \in SUBSET (S \ {m})
    OBVIOUS
  <2> HIDE DEF n, Less
  <2> QED
    BY <1>1, <2>1, <2>2, FS_Subset, FS_CardinalityType
<1>3. ASSUME NEW a \in S, NEW b \in S, a < b
      PROVE  rank[a] < rank[b]
  <2>1. Less(a) \cup {a} \in SUBSET Less(b) /\ a \notin Less(a)
    <3>1. a \in Nat /\ b \in Nat /\ \A k \in S : k \in Nat
      OBVIOUS
    <3>2. \A k \in S : k < a => k < b
      BY <1>3, <3>1
    <3>3. a \in Less(b) /\ a \notin Less(a)
      BY <1>3, <3>1
    <3> QED
      BY <3>2, <3>3
  <2> HIDE DEF Less
  <2>2. Cardinality(Less(a) \cup {a}) = Cardinality(Less(a)) + 1
    BY <1>2, <2>1, FS_AddElement
  <2>3. Cardinality(Less(a) \cup {a}) <= Cardinality(Less(b))
    BY <1>2, <2>1, FS_Subset
  <2> QED
    BY <1>2, <2>2, <2>3
<1>4. rank \in [S -> 1 .. n]
  <2> HIDE DEF n, Less
  <2> QED
    BY <1>1, <1>2
<1> HIDE DEF rank
<1>5. \A a, b \in S : rank[a] = rank[b] => a = b
  BY <1>3, <1>4
<1>6. rank \in Injection(S, 1 .. n)
  BY <1>4, <1>5 DEF Injection, IsInjective
<1>7. rank \in Surjection(S, 1 .. n)
  <2>1. IsFiniteSet(1 .. n) /\ Cardinality(1 .. n) = n
    BY <1>1, FS_Interval
  <2> QED
    BY <1>6, <2>1, FS_Injection
<1> DEFINE list == [i \in 1 .. n |-> CHOOSE m \in S : rank[m] = i]
<1>8. \A i \in 1 .. n : list[i] \in S /\ rank[list[i]] = i
  BY <1>7 DEF Surjection
<1>9. list \in [1 .. n -> S] /\ DOMAIN list = 1 .. n
  BY <1>8
<1> HIDE DEF list
<1>10. \A i, j \in DOMAIN list : i < j => list[i] < list[j]
  <2> SUFFICES ASSUME NEW i \in 1 .. n, NEW j \in 1 .. n, i < j
               PROVE  list[i] < list[j]
    BY <1>9
  <2>1. list[i] \in Nat /\ list[j] \in Nat /\ list[i] \in S /\ list[j] \in S
    BY <1>8
  <2>2. ~(list[j] < list[i]) /\ list[i] # list[j]
    BY <1>1, <1>3, <1>8, <2>1
  <2> QED
    BY <2>1, <2>2
<1> QED
  BY <1>9, <1>10 DEF Listed, NumberBefore
(* Which matches there are, and what the probe still holds of them: heads  *)
(* of matches in the database, none of them ahead of its row, and a row    *)
(* that was read after the head and is still the same unless the match     *)
(* has moved on.                                                           *)
FinitelyMany == IsFiniteSet({m \in Matches : Created(m)})

ProbeTypes ==
  /\ probe = [step |-> probe.step, ids |-> probe.ids, heads |-> probe.heads, row |-> probe.row]
  /\ probe.heads \in Seq([match : Matches, row : Rows])

HeadsAreEarlier ==
  /\ probe.step \in {"row", "tail"} => probe.heads # <<>>
  /\ \A i \in DOMAIN probe.heads :
       LET head == probe.heads[i]
       IN  Created(head.match) /\ head.row.revision <= row[head.match].revision

RowIsBetween ==
  probe.step = "tail" =>
    LET head == Head(probe.heads)
    IN  /\ probe.row.revision \in Nat
        /\ head.row.revision <= probe.row.revision
        /\ probe.row.revision <= row[head.match].revision
        /\ probe.row.revision = row[head.match].revision => probe.row = row[head.match]

ProbeInv == FinitelyMany /\ ProbeTypes /\ HeadsAreEarlier /\ RowIsBetween

(* A match that was created stays created, and its row changes only to a   *)
(* later revision.                                                         *)
RowsMoveOn ==
  \A m \in Matches : Created(m) =>
    Created(m)' /\ (row'[m] = row[m] \/ row[m].revision < row'[m].revision)

LEMMA RowsMoveOnStep ==
  ASSUME IInv, [Next]_vars
  PROVE  RowsMoveOn
<1>1. CASE UNCHANGED durable
  BY <1>1 DEF RowsMoveOn, Created, durable
<1>2. ASSUME NEW l \in Loaders, NEW k \in Matches, NEW p \in Player, CreateMatch(l, k, p)
      PROVE  RowsMoveOn
  <2> SUFFICES ASSUME NEW m \in Matches, Created(m)
               PROVE  Created(m)' /\ row'[m] = row[m]
    BY DEF RowsMoveOn
  <2>1. m # k
    BY <1>2 DEF CreateMatch
  <2> QED
    BY <1>2, <2>1 DEF CreateMatch, Created, IInv, TypeOK
<1>3. CASE Persist
  <2> SUFFICES ASSUME NEW m \in Matches, Created(m)
               PROVE  Created(m)' /\ (row'[m] = row[m] \/ row[m].revision < row'[m].revision)
    BY DEF RowsMoveOn
  <2>1. PICK w \in commit :
          /\ Persistable(w.match, w.record)
          /\ row' = [row EXCEPT ![w.match] =
                       RowAt(w.record.expected + 1, w.record.game, w.record.deadline)]
          /\ UNCHANGED breaker
    BY <1>3 DEF Persist
  <2>2. CASE m # w.match
    BY <2>1, <2>2 DEF Created, IInv, TypeOK
  <2>3. CASE m = w.match
    <3>1. row[m].revision = w.record.expected /\ w.record.expected \in Nat
      BY <2>1, <2>3 DEF Persistable, IInv, TypeOK, Rows
    <3>2. row'[m].revision = w.record.expected + 1
      BY <2>1, <2>3 DEF RowAt, IInv, TypeOK
    <3> QED
      BY <2>1, <3>1, <3>2 DEF Created
  <2> QED
    BY <2>2, <2>3
<1>4. CASE Tick \/ (\E l \in Loaders, k \in Matches : RequestMatch(l, k)) \/ Loading
           \/ (\E l \in Loaders : LoaderFails(l))
  BY <1>1, <1>4 DEF Tick, RequestMatch, Loading, LoaderFails, CheckLoaded, ReadRecords, ReadInitial,
                    InsertInitial, InsertRecovered, LoaderStep
<1>5. CASE (\E k \in Matches, id \in ClientIds, p \in Player, c \in ClientCommands :
              Submit(k, id, p, c))
           \/ (\E k \in Matches : \E e \in memory[k].accepted : Resubmit(k, e))
           \/ (\E a \in replies : Respond(a))
  BY <1>1, <1>5 DEF Submit, Resubmit, Respond
<1>6. CASE Install \/ CommitRefused \/ CommitFails
  BY <1>1, <1>6 DEF Install, CommitRefused, CommitFails, GiveUp
<1>7. CASE PollWakes \/ PollStarts \/ Polling
  BY <1>1, <1>7 DEF PollWakes, PollStarts, Polling, PollNext, PollEnds
<1>8. CASE Crash \/ Recover \/ UNCHANGED vars
  BY <1>1, <1>8 DEF Crash, Recover, vars
<1> QED
  BY <1>2, <1>3, <1>4, <1>5, <1>6, <1>7, <1>8 DEF Next, Committing

LEMMA FinitelyManyStep ==
  ASSUME IInv, FinitelyMany, [Next]_vars
  PROVE  FinitelyMany'
<1>1. CASE UNCHANGED breaker
  BY <1>1 DEF FinitelyMany, Created
<1>2. ASSUME NEW l \in Loaders, NEW k \in Matches, NEW p \in Player, CreateMatch(l, k, p)
      PROVE  FinitelyMany'
  <2>1. \A m \in Matches : m = k \/ breaker'[m] = breaker[m]
    BY <1>2 DEF CreateMatch, IInv, TypeOK
  <2> DEFINE S == {m \in Matches : Created(m)} \cup {k}
  <2>2. IsFiniteSet(S)
    BY FS_AddElement DEF FinitelyMany
  <2>3. {m \in Matches : Created(m)'} \in SUBSET S
    BY <2>1 DEF Created
  <2> HIDE DEF S
  <2>4. IsFiniteSet({m \in Matches : Created(m)'})
    BY <2>2, <2>3, FS_Subset
  <2> QED
    BY <2>4 DEF FinitelyMany
<1>3. CASE Tick \/ (\E l \in Loaders, k \in Matches : RequestMatch(l, k)) \/ Loading
           \/ (\E l \in Loaders : LoaderFails(l))
  BY <1>1, <1>3 DEF Tick, RequestMatch, Loading, LoaderFails, CheckLoaded, ReadRecords, ReadInitial,
                    InsertInitial, InsertRecovered, LoaderStep, durable
<1>4. CASE (\E k \in Matches, id \in ClientIds, p \in Player, c \in ClientCommands :
              Submit(k, id, p, c))
           \/ (\E k \in Matches : \E e \in memory[k].accepted : Resubmit(k, e))
           \/ (\E a \in replies : Respond(a))
  BY <1>1, <1>4 DEF Submit, Resubmit, Respond, durable
<1>5. CASE Persist \/ Install \/ CommitRefused \/ CommitFails
  BY <1>1, <1>5 DEF Persist, Install, CommitRefused, CommitFails, GiveUp, durable
<1>6. CASE PollWakes \/ PollStarts \/ Polling
  BY <1>1, <1>6 DEF PollWakes, PollStarts, Polling, PollNext, PollEnds, durable
<1>7. CASE Crash \/ Recover \/ UNCHANGED vars
  BY <1>1, <1>7 DEF Crash, Recover, vars, durable
<1> QED
  BY <1>2, <1>3, <1>4, <1>5, <1>6, <1>7 DEF Next, Committing
(* What the front of a queue, the rest of it, and a list by its places are. *)
LEMMA QueueFacts ==
  ASSUME NEW S, NEW q \in Seq(S)
  PROVE  /\ \A i \in DOMAIN q : q[i] \in S
         /\ q # <<>> => /\ 1 \in DOMAIN q /\ Len(q) > 0
                        /\ Head(q) = q[1]
                        /\ Tail(q) \in Seq(S)
                        /\ \A i \in DOMAIN Tail(q) : i + 1 \in DOMAIN q /\ Tail(q)[i] = q[i + 1]
OBVIOUS

LEMMA ListIsSequence ==
  ASSUME NEW S, NEW n \in Nat, NEW f \in [1 .. n -> S]
  PROVE  f \in Seq(S) /\ DOMAIN f = 1 .. n
<1>1. f = [i \in 1 .. n |-> f[i]]
  OBVIOUS
<1>2. [i \in 1 .. n |-> f[i]] \in Seq(S)
  OBVIOUS
<1> QED
  BY <1>1, <1>2

LEMMA ProbedHead ==
  ASSUME ProbeInv, probe.step \in {"row", "tail"}
  PROVE  /\ probe.heads # <<>> /\ probe.heads \in Seq([match : Matches, row : Rows])
         /\ Head(probe.heads) = probe.heads[1] /\ 1 \in DOMAIN probe.heads
         /\ probe.heads[1].match \in Matches /\ Created(probe.heads[1].match)
         /\ probe.heads[1].row.revision <= row[probe.heads[1].match].revision
<1>1. probe.heads # <<>> /\ probe.heads \in Seq([match : Matches, row : Rows])
  BY DEF ProbeInv, ProbeTypes, HeadsAreEarlier
<1>2. /\ Head(probe.heads) = probe.heads[1] /\ 1 \in DOMAIN probe.heads
      /\ probe.heads[1] \in [match : Matches, row : Rows]
  BY <1>1, QueueFacts
<1> QED
  BY <1>1, <1>2 DEF ProbeInv, HeadsAreEarlier

(* An answered or restarted probe holds nothing.                           *)
LEMMA AnswerStep ==
  ASSUME NEW step, step \notin {"row", "tail"}, probe' = Answer(step)
  PROVE  ProbeTypes' /\ HeadsAreEarlier' /\ RowIsBetween'
BY DEF Answer, ProbeTypes, HeadsAreEarlier, RowIsBetween

(* The matches that the service goes on with leave the probe behind, not   *)
(* ahead.                                                                  *)
LEMMA WaitingStep ==
  ASSUME IInv, IInv', ProbeInv, RowsMoveOn, UNCHANGED probe
  PROVE  ProbeTypes' /\ HeadsAreEarlier' /\ RowIsBetween'
<1>1. ProbeTypes'
  BY DEF ProbeInv, ProbeTypes
<1>2. \A m \in Matches : row[m] \in Rows /\ row'[m] \in Rows
  BY DEF IInv, TypeOK
<1>3. ASSUME NEW m \in Matches, Created(m), NEW n \in Nat, n <= row[m].revision
      PROVE  /\ Created(m)'
             /\ n <= row'[m].revision
             /\ n = row'[m].revision => row'[m] = row[m]
  <2>1. row[m].revision \in Nat /\ row'[m].revision \in Nat
    BY <1>2 DEF Rows
  <2> QED
    BY <1>3, <2>1 DEF RowsMoveOn
<1>4. \A i \in DOMAIN probe.heads : /\ probe.heads[i].match \in Matches
                                    /\ probe.heads[i].row.revision \in Nat
  <2> SUFFICES ASSUME NEW i \in DOMAIN probe.heads
               PROVE  probe.heads[i] \in [match : Matches, row : Rows]
    BY DEF Rows
  <2> QED
    BY QueueFacts DEF ProbeInv, ProbeTypes
<1>5. HeadsAreEarlier'
  BY <1>3, <1>4 DEF ProbeInv, HeadsAreEarlier
<1>6. RowIsBetween'
  BY <1>3, <1>4, ProbedHead DEF ProbeInv, RowIsBetween, HeadsAreEarlier
<1> QED
  BY <1>1, <1>5, <1>6

(* The heads are copied from memory, which is never ahead of the journal.  *)
LEMMA MatchHeadsAreEarlier ==
  ASSUME IInv, FinitelyMany
  PROVE  /\ MatchHeads \in Seq([match : Matches, row : Rows])
         /\ \A i \in DOMAIN MatchHeads :
              LET head == MatchHeads[i]
              IN  Created(head.match) /\ head.row.revision <= row[head.match].revision
<1>1. loaded \in SUBSET {m \in Matches : Created(m)}
  BY DEF IInv, TypeOK, NothingBeforeCreation
<1>2. IsFiniteSet(loaded)
  BY <1>1, FS_Subset DEF FinitelyMany
<1> DEFINE n   == Cardinality(loaded)
           ids == Listed(loaded, NumberBefore)
<1>3. n \in Nat /\ ids \in [1 .. n -> loaded]
  BY <1>1, <1>2, MatchesAreOrdered, ListedIsList, FS_CardinalityType DEF MatchesAreOrdered
<1>4. MatchHeads = [i \in 1 .. n |-> HeadOf(ids[i])]
  BY <1>3 DEF MatchHeads
<1>5. ASSUME NEW m \in loaded
      PROVE  /\ HeadOf(m) \in [match : Matches, row : Rows]
             /\ HeadOf(m).match = m
             /\ HeadOf(m).row.revision <= row[m].revision
             /\ Created(m)
  <2>1. m \in Matches /\ Created(m)
    BY <1>1
  <2>2. memory[m].revision <= Len(journal[m]) /\ row[m].revision = Len(journal[m])
    BY <2>1 DEF IInv, MemoryIsDurablePrefix, RowIsTail
  <2>3. RowAt(memory[m].revision, memory[m].game, memory[m].deadline) \in Rows
    BY <2>1 DEF IInv, TypeOK, RowAt, Rows
  <2> QED
    BY <2>1, <2>2, <2>3 DEF HeadOf, RowAt
<1> HIDE DEF n, ids
<1>6. \A i \in 1 .. n : MatchHeads[i] = HeadOf(ids[i]) /\ ids[i] \in loaded
  BY <1>3, <1>4
<1>7. MatchHeads \in [1 .. n -> [match : Matches, row : Rows]]
  BY <1>4, <1>5, <1>6
<1>8. MatchHeads \in Seq([match : Matches, row : Rows]) /\ DOMAIN MatchHeads = 1 .. n
  BY <1>3, <1>7, ListIsSequence
<1> QED
  BY <1>5, <1>6, <1>8

LEMMA TakeHeadsStep ==
  ASSUME IInv, ProbeInv, TakeHeads
  PROVE  ProbeTypes' /\ HeadsAreEarlier' /\ RowIsBetween'
<1> PICK heads : heads = MatchHeads
  OBVIOUS
<1>1. CASE probe' = Answer("unready") \/ probe' = Answer("ready")
  BY <1>1, AnswerStep
<1>2. CASE probe' = [Answer("row") EXCEPT !.heads = heads] /\ heads # <<>>
  <2>1. probe' = [step |-> "row", ids |-> <<>>, heads |-> heads, row |-> NoRow]
    BY <1>2 DEF Answer
  <2>2. UNCHANGED <<row, breaker>>
    BY DEF TakeHeads, ProbeStep, vars, durable
  <2> QED
    BY <1>2, <2>1, <2>2, MatchHeadsAreEarlier
       DEF ProbeInv, ProbeTypes, HeadsAreEarlier, RowIsBetween, Created
<1> QED
  BY <1>1, <1>2 DEF TakeHeads, ProbeStep

LEMMA ReadRowStep ==
  ASSUME IInv, ProbeInv, ReadRow
  PROVE  ProbeTypes' /\ HeadsAreEarlier' /\ RowIsBetween'
<1>1. probe.step = "row" /\ UNCHANGED <<row, breaker>>
  BY DEF ReadRow, ProbeStep, vars, durable
<1>2. PICK m, r : m = Head(probe.heads).match /\ r = row[m]
  OBVIOUS
<1>3. probe' = [step |-> "tail", ids |-> probe.ids, heads |-> probe.heads, row |-> r]
  BY <1>2 DEF ReadRow, ProbeStep, ProbeInv, ProbeTypes
<1>4. /\ probe.heads # <<>> /\ Head(probe.heads) = probe.heads[1]
      /\ 1 \in DOMAIN probe.heads /\ m \in Matches
  BY <1>1, <1>2, ProbedHead
<1>5. r.revision \in Nat /\ probe.heads[1].row.revision <= r.revision
  BY <1>2, <1>4 DEF IInv, TypeOK, Rows, ProbeInv, HeadsAreEarlier
<1> QED
  BY <1>1, <1>2, <1>3, <1>4, <1>5
     DEF ProbeInv, ProbeTypes, HeadsAreEarlier, RowIsBetween, Created

LEMMA ReadTailStep ==
  ASSUME IInv, ProbeInv, ReadTail
  PROVE  ProbeTypes' /\ HeadsAreEarlier' /\ RowIsBetween'
<1>1. CASE probe' = Answer("unready") \/ probe' = Answer("ready")
  BY <1>1, AnswerStep
<1>2. CASE probe' = [Answer("row") EXCEPT !.heads = Tail(probe.heads)] /\ Tail(probe.heads) # <<>>
  <2>1. PICK rest : rest = Tail(probe.heads)
    OBVIOUS
  <2>2. probe' = [step |-> "row", ids |-> <<>>, heads |-> rest, row |-> NoRow]
    BY <1>2, <2>1 DEF Answer
  <2>3. UNCHANGED <<row, breaker>> /\ probe.step = "tail"
    BY DEF ReadTail, ProbeStep, vars, durable
  <2>4. probe.heads # <<>> /\ probe.heads \in Seq([match : Matches, row : Rows])
    BY <2>3, ProbedHead
  <2>5. /\ rest \in Seq([match : Matches, row : Rows])
        /\ \A i \in DOMAIN rest : i + 1 \in DOMAIN probe.heads /\ rest[i] = probe.heads[i + 1]
    BY <2>1, <2>4, QueueFacts
  <2>6. /\ probe'.step = "row" /\ probe'.heads = rest
        /\ probe' = [step |-> "row", ids |-> probe'.ids, heads |-> rest, row |-> probe'.row]
    BY <2>2
  <2>7. ProbeTypes'
    BY <2>5, <2>6 DEF ProbeTypes
  <2>8. HeadsAreEarlier'
    BY <1>2, <2>1, <2>3, <2>5, <2>6 DEF ProbeInv, HeadsAreEarlier, Created
  <2> QED
    BY <2>6, <2>7, <2>8 DEF RowIsBetween
<1> QED
  BY <1>1, <1>2 DEF ReadTail, ProbeStep
LEMMA ProbeInvStep == IInv /\ ProbeInv /\ [ProbeNext]_<<vars, probeVars>> => ProbeInv'
<1> SUFFICES ASSUME IInv, ProbeInv, [ProbeNext]_<<vars, probeVars>>
             PROVE  ProbeInv'
  OBVIOUS
<1>1. FinitelyMany'
  <2>1. CASE ProbeFails
    BY <2>1 DEF ProbeFails, durable, ProbeInv, FinitelyMany, Created
  <2> QED
    BY <2>1, ProbeStepIsStep, FinitelyManyStep DEF ProbeInv
<1>2. CASE ProbeFails
  <2>1. probe' = Answer("unready")
    BY <1>2 DEF ProbeFails
  <2> QED
    BY <1>1, <2>1, AnswerStep DEF ProbeInv
<1>3. CASE Authority
  <2>1. IInv' /\ RowsMoveOn
    BY <1>3, NextInv, RowsMoveOnStep DEF Authority
  <2>2. UNCHANGED probe \/ probe' = Answer("unready")
    BY <1>3 DEF Authority
  <2> QED
    BY <1>1, <2>1, <2>2, AnswerStep, WaitingStep DEF ProbeInv
<1>4. CASE UNCHANGED <<vars, probeVars>>
  <2>1. IInv' /\ RowsMoveOn
    BY <1>4, NextInv, RowsMoveOnStep
  <2> QED
    BY <1>1, <1>4, <2>1, WaitingStep DEF ProbeInv, probeVars
<1>5. CASE ProbeBegins
  <2>1. probe' = Answer("ids") \/ probe' = Answer("unready")
    BY <1>5 DEF ProbeBegins, ProbeStep
  <2> QED
    BY <1>1, <2>1, AnswerStep DEF ProbeInv
<1>6. CASE ListMatches
  <2>1. PICK ids : ids = MatchIds
    OBVIOUS
  <2>2. probe' = [step |-> "heads", ids |-> ids, heads |-> <<>>, row |-> NoRow]
    BY <1>6, <2>1 DEF ListMatches, ProbeStep, Answer
  <2> QED
    BY <1>1, <2>2 DEF ProbeInv, ProbeTypes, HeadsAreEarlier, RowIsBetween
<1> QED
  BY <1>1, <1>2, <1>3, <1>4, <1>5, <1>6, TakeHeadsStep, ReadRowStep, ReadTailStep
     DEF ProbeNext, Probing, ProbeInv

LEMMA ProbeKnows == ProbeSpec => []ProbeInv
<1>1. Init /\ ProbeInit => ProbeInv
  <2> SUFFICES ASSUME Init, ProbeInit
               PROVE  ProbeInv
    OBVIOUS
  <2>1. {m \in Matches : Created(m)} = {}
    BY DEF Init, Created
  <2>2. FinitelyMany
    BY <2>1, FS_EmptySet DEF FinitelyMany
  <2> QED
    BY <2>2 DEF ProbeInit, Answer, ProbeInv, ProbeTypes, HeadsAreEarlier, RowIsBetween
<1> QED
  BY <1>1, ProbeInvStep, ProbeInvariance, PTL DEF ProbeSpec, ProbeInit

(* Whatever the service has accepted, canonical_head can make a head of a  *)
(* row and the commands after it when both were read from one state.       *)
LEMMA RowsAreCanonical ==
  ASSUME IInv, NEW m \in Matches, Created(m)
  PROVE  Canonical(row[m], journal[m])
<1>1. PICK h, n : h = journal[m] /\ n = Len(journal[m])
  OBVIOUS
<1>2. h \in Seq(Records) /\ n \in Nat /\ n = Len(h) /\ row[m] \in Rows
  BY <1>1 DEF IInv, TypeOK
<1>3. /\ row[m].revision = n
      /\ row[m].game = GameAfter(breaker[m], h, n)
      /\ Armed(row[m].deadline, n, row[m].game)
      /\ n > 0 => row[m].deadline = h[n].deadline
  BY <1>1 DEF IInv, RowIsTail
<1>4. ASSUME NEW i \in 1 .. n
      PROVE  Decodes(h[i], i) /\ h[i].expected = i - 1
  <2>1. Replays(breaker[m], h, i - 1, h[i]) /\ h[i] \in Records
    BY <1>1, <1>2, <1>4 DEF IInv, RecoveryNeverFails, Replayable
  <2> QED
    BY <2>1 DEF Replays, Decodes, Records
<1>5. CASE n = 0
  <2>1. h = <<>>
    <3>1. h \in Seq(Records) /\ Len(h) = 0
      BY <1>2, <1>5
    <3>2. h # <<>> => Len(h) > 0
      BY <3>1, QueueFacts
    <3> QED
      BY <3>1, <3>2
  <2> QED
    BY <1>1, <1>3, <1>5, <2>1 DEF Canonical
<1>6. CASE n > 0
  <2>1. row[m] = RowAt(h[n].expected + 1, h[n].game, h[n].deadline)
    BY <1>2, <1>3, <1>4, <1>6 DEF RowAt, Rows, GameAfter
  <2>2. DOMAIN h = 1 .. n /\ h # <<>>
    BY <1>2, <1>6
  <2> QED
    BY <1>1, <1>2, <1>3, <1>4, <1>6, <2>1, <2>2 DEF Canonical
<1> QED
  BY <1>2, <1>5, <1>6

LEMMA RefusalStep ==
  ASSUME IInv, ProbeInv, [ProbeNext]_<<vars, probeVars>>,
         probe.step = "tail", up', probe'.step = "unready", faults' = faults
  PROVE  row[Head(probe.heads).match] # Head(probe.heads).row
<1>1. ReadTail
  <2>1. ~ProbeFails
    <3>1. faults \in Nat
      BY DEF IInv, TypeOK
    <3>2. ProbeFails => faults' = faults + 1
      BY Zenon DEF ProbeFails
    <3> QED
      BY <3>1, <3>2
  <2>2. ~UNCHANGED probe
    OBVIOUS
  <2> QED
    BY <2>1, <2>2 DEF ProbeNext, Authority, ProbeBegins, Probing, ListMatches, ReadRow, TakeHeads,
                      ProbeStep, probeVars
<1>2. PICK head : head = Head(probe.heads)
  OBVIOUS
<1> SUFFICES ASSUME row[head.match] = head.row
             PROVE  FALSE
  BY <1>2
<1>3. head.match \in Matches /\ Created(head.match)
  BY <1>2, ProbedHead
<1>4. row[head.match].revision \in Nat
  BY <1>3 DEF IInv, TypeOK, Rows
<1>5. probe.row = row[head.match]
  BY <1>2, <1>4 DEF ProbeInv, RowIsBetween
<1>6. Canonical(probe.row, journal[head.match]) /\ head.row = probe.row
  BY <1>3, <1>5, RowsAreCanonical
<1>7. probe' = Answer("ready") \/ probe' = [Answer("row") EXCEPT !.heads = Tail(probe.heads)]
  BY <1>1, <1>2, <1>6 DEF ReadTail, ProbeStep
<1> QED
  BY <1>7 DEF Answer

(* A readiness probe never finds fault with a match that is where it was   *)
(* when its head was copied, although the probe reads memory, the row and  *)
(* the commands at three different moments and holds no lock between them. *)
THEOREM ProbesRefuseWithReason == ProbeSpec => RefusalsHaveAReason
<1>1. IInv /\ ProbeInv /\ [ProbeNext]_<<vars, probeVars>> =>
        [ probe.step = "tail" /\ up' /\ probe'.step = "unready" /\ faults' = faults
          => row[Head(probe.heads).match] # Head(probe.heads).row ]_<<vars, probeVars>>
  BY RefusalStep
<1> QED
  BY <1>1, ProbeInvariance, ProbeKnows, PTL DEF ProbeSpec, RefusalsHaveAReason
=============================================================================
