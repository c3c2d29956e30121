------------------------------ MODULE Readiness ------------------------------
(***************************************************************************)
(* The readiness probe beside the match authority: verify_readiness of     *)
(* http.rs, over match_ids and canonical_head of command_store.rs and the  *)
(* two marks the scheduler leaves.  The probe holds no lock while it waits *)
(* for the database, so that commands, timeouts, failures and a restart    *)
(* come between any two of its reads.                                      *)
(***************************************************************************)
EXTENDS MatchAuthority, FiniteSets

CONSTANT MaxAge   (* READINESS_MAX_AGE_MS *)

ASSUME MaxAgeAssumption == MaxAge \in Nat

VARIABLES
  healthy,       (* scheduler_healthy                                      *)
  lastSuccess,   (* scheduler_last_success_ms                              *)
  probe          (* the request to /readyz: its step, or its last answer   *)

probeVars == <<healthy, lastSuccess, probe>>

(* Match identifiers are text in the database and numbers in memory. *)
Digits[n \in Nat] == IF n < 10 THEN <<n>> ELSE Append(Digits[n \div 10], n % 10)

TextBefore(m, n) ==
  LET a == Digits[m]
      b == Digits[n]
      k == CHOOSE i \in 1 .. Len(a) + 1 :
             /\ \A j \in 1 .. i - 1 : j <= Len(b) /\ a[j] = b[j]
             /\ i > Len(a) \/ i > Len(b) \/ a[i] # b[i]
  IN  k <= Len(b) /\ (k > Len(a) \/ a[k] < b[k])

NumberBefore(m, n) == m < n

(* The members of a finite set as they come from a query that orders them, *)
(* or from a map that keeps its keys in order.                             *)
Listed(S, Before(_, _)) ==
  CHOOSE list \in [1 .. Cardinality(S) -> S] :
    \A i, j \in DOMAIN list : i < j => Before(list[i], list[j])

MatchIds == Listed({m \in Matches : Created(m)}, TextBefore)

HeadOf(m) == [match |-> m, row |-> RowAt(memory[m].revision, memory[m].game, memory[m].deadline)]

MatchHeads ==
  LET ids == Listed(loaded, NumberBefore) IN [i \in DOMAIN ids |-> HeadOf(ids[i])]

(* A stored command is at the revision after the one it was given at. *)
Decodes(command, revision) ==
  command.expected + 1 = revision /\ Armed(command.deadline, revision, command.game)

(* What canonical_head makes of a row and of the commands it reads after   *)
(* it: it refuses one that does not end where the other does.              *)
Canonical(r, commands) ==
  /\ Armed(r.deadline, r.revision, r.game)
  /\ \A i \in DOMAIN commands : Decodes(commands[i], i)
  /\ IF r.revision = 0
     THEN commands = <<>>
     ELSE /\ commands # <<>>
          /\ LET last == commands[Len(commands)]
             IN  r = RowAt(last.expected + 1, last.game, last.deadline)

Answer(step) == [step |-> step, ids |-> <<>>, heads |-> <<>>, row |-> NoRow]

SchedulerIsReady == healthy /\ now <= lastSuccess + MaxAge

ProbeInit == Init /\ healthy = FALSE /\ lastSuccess = 0 /\ probe = Answer("unready")

-----------------------------------------------------------------------------
ProbeStep(step, next) ==
  /\ up /\ probe.step = step
  /\ probe' = next
  /\ UNCHANGED <<vars, healthy, lastSuccess>>

ProbeBegins ==
  \E answer \in {"ready", "unready"} :
    ProbeStep(answer, IF SchedulerIsReady THEN Answer("ids") ELSE Answer("unready"))

ListMatches == ProbeStep("ids", [Answer("heads") EXCEPT !.ids = MatchIds])

(* The heads are copied under the mutex, and the identifiers compared as   *)
(* two lists.                                                              *)
TakeHeads ==
  /\ MutexFree
  /\ ProbeStep("heads",
       IF probe.ids # [i \in DOMAIN MatchHeads |-> MatchHeads[i].match] THEN Answer("unready")
       ELSE IF MatchHeads = <<>> THEN Answer("ready")
       ELSE [Answer("row") EXCEPT !.heads = MatchHeads])

ReadRow == ProbeStep("row", [probe EXCEPT !.step = "tail", !.row = row[Head(probe.heads).match]])

ReadTail ==
  LET head == Head(probe.heads)
  IN  ProbeStep("tail",
        IF ~Canonical(probe.row, journal[head.match]) \/ head.row # probe.row
        THEN Answer("unready")
        ELSE IF Tail(probe.heads) = <<>> THEN Answer("ready")
        ELSE [Answer("row") EXCEPT !.heads = Tail(probe.heads)])

(* A read fails, or the two seconds of the handler have passed. *)
ProbeFails ==
  /\ up /\ faults < MaxFaults
  /\ probe.step \notin {"ready", "unready"}
  /\ probe' = Answer("unready")
  /\ faults' = faults + 1
  /\ UNCHANGED <<now, durable, volatile, acked, up, healthy, lastSuccess>>

(* A poll that ended well marks the scheduler, one that failed unmarks it, *)
(* a new process starts without marks.                                     *)
PollSucceeded == poll.phase = "running" /\ poll'.phase = "idle" /\ commit = {} /\ up'
PollFailed    == poll.phase = "running" /\ poll'.phase = "idle" /\ commit # {} /\ up'

Marks_NotRestored ==
  /\ healthy' = IF ~up' \/ PollFailed THEN FALSE ELSE healthy \/ (PollSucceeded /\ lastSuccess = 0)
  /\ lastSuccess' = IF ~up' THEN 0 ELSE IF PollSucceeded THEN poll.at ELSE lastSuccess

Marks ==
  /\ healthy' = IF ~up' \/ PollFailed THEN FALSE ELSE PollSucceeded \/ healthy
  /\ lastSuccess' = IF ~up' THEN 0 ELSE IF PollSucceeded THEN poll.at ELSE lastSuccess

Authority == Next /\ Marks /\ probe' = IF up' THEN probe ELSE Answer("unready")

Probing == ListMatches \/ ReadRow \/ ReadTail

ProbeNext == Authority \/ ProbeBegins \/ Probing \/ TakeHeads \/ ProbeFails

ProbeSpec == ProbeInit /\ [][ProbeNext]_<<vars, probeVars>>

(* The platform asks again and again. *)
FairProbeSpec ==
  /\ ProbeSpec /\ Fairness
  /\ WF_probeVars(ProbeBegins)
  /\ WF_probeVars(Probing)
  /\ SF_probeVars(TakeHeads)

-----------------------------------------------------------------------------
(* The two lists of matches that a probe compares are one, as long as the  *)
(* text of the identifiers is in the order of the numbers.                 *)
ListsAgree == MatchIds = Listed(loaded, NumberBefore)

(* A server that stays up with all its matches in memory, whose lists      *)
(* agree, is found ready again and again, whatever failed, restarted or    *)
(* was read out of step before: an unhealthy mark does not outlive the     *)
(* failure, an old one is renewed by the next poll, and no command leaves  *)
(* memory and the database apart.                                          *)
LoadedServersAreFoundReady ==
  <>[](up /\ loaded = {m \in Matches : Created(m)} /\ ListsAgree) => []<>(probe.step = "ready")

(* A probe that compared a match and refused it had a reason: the match    *)
(* has moved on since its head was copied, or memory is behind the         *)
(* database.  A commit seen by half of the probe's reads is no other one.  *)
RefusalsHaveAReason ==
  [][ probe.step = "tail" /\ up' /\ probe'.step = "unready" /\ faults' = faults
      => row[Head(probe.heads).match] # Head(probe.heads).row ]_<<vars, probeVars>>

(* verify_readiness fails "when durable match rows are unavailable,        *)
(* malformed, or do not exactly match the authority loaded at startup"     *)
(* (src/packages/server/src/http.rs:288): it does not fail because of the  *)
(* identifiers as long as the same matches are in both places.             *)
SameMatchesAreReady ==
  [][ probe.step = "heads" /\ up' /\ probe'.step = "unready" /\ faults' = faults
      => {probe.ids[i] : i \in DOMAIN probe.ids} # loaded ]_<<vars, probeVars>>
=============================================================================
