---------------------------- MODULE WaitingLobby ----------------------------
(***************************************************************************)
(* Waiting lobbies on the server: the handlers of http.rs over the         *)
(* transactions of lobby_store.rs.  A handler reads the clock once and     *)
(* then waits for the database, so its transactions run, in any order with *)
(* those of other requests, with a time that may have passed.  A ready     *)
(* request runs three transactions one after the other: it marks its       *)
(* account ready, looks whether both accounts are, and starts the match.   *)
(* A request may be dropped at every wait: its client left, the database   *)
(* failed, or the server stopped.                                          *)
(***************************************************************************)
EXTENDS LobbyStore, FiniteSets

CONSTANTS Lobbies, Accounts, Members, Connections, Matches, Requests,
          TurnTime,   \* ticks a player has for the first turn
          MaxTime     \* bound of the clock, for TLC

ASSUME MembersAssumption == Members \in [Lobbies -> SUBSET Accounts]
ASSUME TimesAssumption == TurnTime \in Nat /\ MaxTime \in Nat
ASSUME MatchesAssumption == Matches \cap {"waiting", "cancelled"} = {}

VARIABLES now,
          status,    \* waiting_lobbies.status: "waiting", "cancelled" or the match
          matches,   \* the rows start_lobby_in_transaction inserts
          leases,    \* lobby_readiness
          issued,    \* connection identifiers drawn so far
          request    \* what each request is about to do

vars == <<now, status, matches, leases, issued, request>>

Idle == [step |-> "idle"]

Lease_ == [lobby : Lobbies, account : Accounts, connection : Connections,
           ready : BOOLEAN, seen : 0..MaxTime]

Request == {Idle}
  \cup [step : {"connect", "heartbeat"}, lobby : Lobbies, account : Accounts,
        connection : Connections, at : 0..MaxTime]
  \cup [step : {"ready", "check", "start"}, lobby : Lobbies, account : Accounts, at : 0..MaxTime]

Init == /\ now = 0
        /\ status = [l \in Lobbies |-> "waiting"]
        /\ matches = {}
        /\ leases = {}
        /\ issued = {}
        /\ request = [q \in Requests |-> Idle]

-----------------------------------------------------------------------------
\* require_waiting_member
Waiting(l, a) == status[l] = "waiting" /\ a \in Members[l]

Finish(q) == request' = [request EXCEPT ![q] = Idle]

\* An identifier drawn at random is new.
Drawn(c) == c \notin issued

\* connect_waiting_lobby draws an identifier and reads the clock.
AskConnect(q, l, a, c) ==
  /\ request[q] = Idle
  /\ Drawn(c)
  /\ issued' = issued \cup {c}
  /\ request' = [request EXCEPT ![q] =
       [step |-> "connect", lobby |-> l, account |-> a, connection |-> c, at |-> now]]
  /\ UNCHANGED <<now, status, matches, leases>>

\* heartbeat_waiting_lobby reads the clock.
AskHeartbeat(q, l, a, c) ==
  /\ request[q] = Idle
  /\ c \in issued
  /\ request' = [request EXCEPT ![q] =
       [step |-> "heartbeat", lobby |-> l, account |-> a, connection |-> c, at |-> now]]
  /\ UNCHANGED <<now, status, matches, leases, issued>>

\* ready_waiting_lobby reads the clock for all of its transactions.
AskReady(q, l, a) ==
  /\ request[q] = Idle
  /\ request' = [request EXCEPT ![q] =
       [step |-> "ready", lobby |-> l, account |-> a, at |-> now]]
  /\ UNCHANGED <<now, status, matches, leases, issued>>

ConnectLobby(q) == LET r == request[q] IN
  /\ r.step = "connect"
  /\ Waiting(r.lobby, r.account)
  /\ leases' = Connected(leases, r.lobby, r.account, r.connection, r.at)
  /\ Finish(q)
  /\ UNCHANGED <<now, status, matches, issued>>

HeartbeatLobby(q) == LET r == request[q] IN
  /\ r.step = "heartbeat"
  /\ Waiting(r.lobby, r.account)
  /\ Holds(leases, r.lobby, r.account, r.connection)
  /\ leases' = Beaten(leases, r.connection, r.at)
  /\ Finish(q)
  /\ UNCHANGED <<now, status, matches, issued>>

ReadyLobby(q) == LET r == request[q] IN
  /\ r.step = "ready"
  /\ Waiting(r.lobby, r.account)
  /\ \E lease \in leases : Owned(lease, r.lobby, r.account) /\ Live(lease, r.at)
  /\ leases' = Readied(leases, r.lobby, r.account, r.at)
  /\ request' = [request EXCEPT ![q].step = "check"]
  /\ UNCHANGED <<now, status, matches, issued>>

\* lobby_ready between the two transactions of a ready request.
CheckReady(q) == LET r == request[q] IN
  /\ r.step = "check"
  /\ status[r.lobby] = "waiting"
  /\ BothReady(leases, r.lobby, Members[r.lobby], r.at)
  /\ request' = [request EXCEPT ![q].step = "start"]
  /\ UNCHANGED <<now, status, matches, leases, issued>>

\* What start_ready_lobby looks at again before it inserts the match.
\* Mistakes would be to trust the status, or the leases, that were found before.
Startable_Twice(r) == BothReady(leases, r.lobby, Members[r.lobby], r.at)
Startable_TrustCheck(r) == status[r.lobby] = "waiting"
Startable(r) == /\ status[r.lobby] = "waiting"
                /\ BothReady(leases, r.lobby, Members[r.lobby], r.at)

StartReady(q) == LET r == request[q] IN
  /\ r.step = "start"
  /\ Startable(r)
  /\ \E m \in Matches \ {row.match : row \in matches} :
       /\ matches' = matches \cup {[match |-> m, lobby |-> r.lobby, due |-> r.at + TurnTime]}
       /\ status' = [status EXCEPT ![r.lobby] = m]
  /\ Finish(q)
  /\ UNCHANGED <<now, leases, issued>>

\* A request ends: it is refused by one of the conditions above, answers that
\* not both are ready, or is dropped.
End(q) == /\ request[q] # Idle
          /\ Finish(q)
          /\ UNCHANGED <<now, status, matches, leases, issued>>

DisconnectLobby(l, a, c) ==
  /\ Waiting(l, a)
  /\ Holds(leases, l, a, c)
  /\ leases' = Disconnected(leases, c)
  /\ UNCHANGED <<now, status, matches, issued, request>>

CancelLobby(l, a) ==
  /\ Waiting(l, a)
  /\ status' = [status EXCEPT ![l] = "cancelled"]
  /\ UNCHANGED <<now, matches, leases, issued, request>>

Tick == /\ now < MaxTime
        /\ now' = now + 1
        /\ UNCHANGED <<status, matches, leases, issued, request>>

Next ==
  \/ Tick
  \/ \E q \in Requests :
       \/ \E l \in Lobbies, a \in Accounts :
            \/ AskReady(q, l, a)
            \/ \E c \in Connections : AskConnect(q, l, a, c) \/ AskHeartbeat(q, l, a, c)
       \/ ConnectLobby(q) \/ HeartbeatLobby(q)
       \/ ReadyLobby(q) \/ CheckReady(q) \/ StartReady(q) \/ End(q)
  \/ \E l \in Lobbies, a \in Accounts :
       \/ CancelLobby(l, a)
       \/ \E c \in Connections : DisconnectLobby(l, a, c)

Spec == Init /\ [][Next]_vars

-----------------------------------------------------------------------------
\* Every variable has the shape of what it stands for.
TypeOK == /\ now \in 0..MaxTime
          /\ status \in [Lobbies -> {"waiting", "cancelled"} \cup Matches]
          /\ matches \subseteq [match : Matches, lobby : Lobbies, due : Nat]
          /\ leases \subseteq Lease_
          /\ issued \subseteq Connections
          /\ request \in [Requests -> Request]

\* The handoff the store promises, with a lobby as the offer.
Handoff == INSTANCE OneShot WITH
  Offers <- Lobbies, Products <- Matches,
  outcome <- [l \in Lobbies |-> CASE status[l] = "waiting" -> "open"
                                  [] status[l] = "cancelled" -> "withdrawn"
                                  [] OTHER -> status[l]],
  made <- {row.match : row \in matches}

\* A lobby starts at most one match, never after it was cancelled, and keeps
\* it, however many ready requests found both players ready.
RefinesOneShot == Handoff!Spec

\* When a match starts, each member holds a lease that is ready and live at the
\* time of the request, whatever happened since that request found them ready.
StartsOnlyWhenBothReady ==
  [][\A l \in Lobbies : status[l] = "waiting" /\ status'[l] \in Matches =>
       \E row \in matches' :
         /\ row.match = status'[l]
         /\ \A a \in Members[l] : \E r \in leases :
              Owned(r, l, a) /\ r.ready /\ Live(r, row.due - TurnTime)]_vars

\* A lease gets ready only by a ready request of its own account: not by being
\* made, not by a heartbeat, and not by the other player's request.
ReadinessIsExplicit ==
  [][\A t \in leases' : t.ready =>
       \/ \E r \in leases : r.connection = t.connection /\ r.ready
       \/ \E q \in Requests : /\ request[q].step = "ready"
                              /\ request'[q].step = "check"
                              /\ Owned(t, request[q].lobby, request[q].account)]_vars

\* A lease that was silent for longer than Lease comes back without its
\* readiness, in whatever order its heartbeats are applied.
ReadinessLapses ==
  [][\A r \in leases, t \in leases' :
       r.connection = t.connection /\ r.ready /\ t.ready => t.seen <= r.seen + Lease]_vars

-----------------------------------------------------------------------------
Present(l, a) == \E r \in leases : Owned(r, l, a) /\ Live(r, now)
IsReady(l, a) == \E r \in leases : Owned(r, l, a) /\ r.ready /\ Live(r, now)

\* lobby_store.rs on disconnect_lobby: "clears the participant's ready state
\* only after their last connection disappears".
ReadyOutlivesOneConnection ==
  [][\A l \in Lobbies : \A a \in Members[l] :
       IsReady(l, a) /\ leases' \subseteq leases /\ now' = now /\ Present(l, a)'
         => IsReady(l, a)']_vars

=============================================================================
