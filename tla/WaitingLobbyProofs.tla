------------------------- MODULE WaitingLobbyProofs -------------------------
(***************************************************************************)
(* What WaitingLobby promises, for any number of lobbies, players,         *)
(* connections and requests, and for leases of any length.  The leases     *)
(* need one fact besides their types: a connection has one of them, which  *)
(* rests on identifiers that are drawn once.                               *)
(***************************************************************************)
EXTENDS WaitingLobby, TLAPS

(* A connection has at most one lease, made by the one request that drew   *)
(* its identifier: lobby_readiness has connection_id as its primary key,   *)
(* and connect_lobby never meets a row with the identifier it inserts.     *)
OneLeasePerConnection ==
  /\ \A r, t \in leases : r.connection = t.connection => r = t
  /\ \A r \in leases : r.connection \in issued
  /\ \A q \in Requests : request[q].step = "connect" =>
       /\ request[q].connection \in issued
       /\ \A r \in leases : r.connection # request[q].connection
  /\ \A p, q \in Requests :
       /\ request[p].step = "connect" /\ request[q].step = "connect"
       /\ request[p].connection = request[q].connection
       => p = q

LobbyInv == TypeOK /\ OneLeasePerConnection

-----------------------------------------------------------------------------
(* The requests by what they carry. *)
Connecting == [step : {"connect", "heartbeat"}, lobby : Lobbies, account : Accounts,
               connection : Connections, at : 0..MaxTime]
Starting == [step : {"ready", "check", "start"}, lobby : Lobbies, account : Accounts,
             at : 0..MaxTime]

(* What a request carries is told by its step. *)
LEMMA RequestShapes ==
  ASSUME TypeOK, NEW q \in Requests
  PROVE  /\ request[q].step \in {"connect", "heartbeat"} => request[q] \in Connecting
         /\ request[q].step \in {"ready", "check", "start"} => request[q] \in Starting
         /\ request[q] \in Request
  BY DEF TypeOK, Request, Idle, Connecting, Starting

(* The operations of the store make leases of leases. *)
LEMMA StoreTypes ==
  ASSUME leases \subseteq Lease_,
         NEW l \in Lobbies, NEW a \in Accounts, NEW c \in Connections, NEW at \in 0..MaxTime
  PROVE  /\ Connected(leases, l, a, c, at) \subseteq Lease_
         /\ Beaten(leases, c, at) \subseteq Lease_
         /\ Readied(leases, l, a, at) \subseteq Lease_
         /\ Disconnected(leases, c) \subseteq Lease_
<1>1. Connected(leases, l, a, c, at) \subseteq Lease_
  <2>1. [lobby |-> l, account |-> a, connection |-> c, ready |-> FALSE, seen |-> at] \in Lease_
    BY DEF Lease_
  <2> QED
    BY <2>1 DEF Connected
<1>2. Beaten(leases, c, at) \subseteq Lease_
  <2> SUFFICES ASSUME NEW r \in leases
               PROVE  /\ r \in Lease_
                      /\ [r EXCEPT !.seen = at, !.ready = r.ready /\ Live(r, at)] \in Lease_
    BY DEF Beaten
  <2>1. r \in Lease_
    OBVIOUS
  <2>2. (r.ready /\ Live(r, at)) \in BOOLEAN
    BY <2>1 DEF Lease_, Live
  <2> QED
    BY <2>1, <2>2 DEF Lease_
<1>3. Readied(leases, l, a, at) \subseteq Lease_
  BY DEF Readied, Lease_
<1>4. Disconnected(leases, c) \subseteq Lease_
  BY DEF Disconnected
<1> QED
  BY <1>1, <1>2, <1>3, <1>4

LEMMA InitType == Init => TypeOK
  BY TimesAssumption DEF Init, TypeOK, Request, Idle

LEMMA NextType == TypeOK /\ [Next]_vars => TypeOK'
<1> SUFFICES ASSUME TypeOK, [Next]_vars
             PROVE  TypeOK'
  OBVIOUS
<1> USE TimesAssumption
<1>1. CASE UNCHANGED vars
  BY <1>1 DEF TypeOK, vars
<1>2. CASE Tick
  BY <1>2 DEF Tick, TypeOK
<1>3. ASSUME NEW q \in Requests, NEW l \in Lobbies, NEW a \in Accounts, AskReady(q, l, a)
      PROVE  TypeOK'
  <2>1. [step |-> "ready", lobby |-> l, account |-> a, at |-> now] \in Request
    BY DEF TypeOK, Request
  <2> QED
    BY <1>3, <2>1 DEF AskReady, TypeOK
<1>4. ASSUME NEW q \in Requests, NEW l \in Lobbies, NEW a \in Accounts,
             NEW c \in Connections, AskConnect(q, l, a, c)
      PROVE  TypeOK'
  <2>1. [step |-> "connect", lobby |-> l, account |-> a, connection |-> c, at |-> now] \in Request
    BY DEF TypeOK, Request
  <2> QED
    BY <1>4, <2>1 DEF AskConnect, TypeOK
<1>5. ASSUME NEW q \in Requests, NEW l \in Lobbies, NEW a \in Accounts,
             NEW c \in Connections, AskHeartbeat(q, l, a, c)
      PROVE  TypeOK'
  <2>1. [step |-> "heartbeat", lobby |-> l, account |-> a, connection |-> c, at |-> now] \in Request
    BY DEF TypeOK, Request
  <2> QED
    BY <1>5, <2>1 DEF AskHeartbeat, TypeOK
<1>6. ASSUME NEW q \in Requests, Finish(q)
      PROVE  request' \in [Requests -> Request]
  BY <1>6 DEF Finish, TypeOK, Request
<1>7. ASSUME NEW q \in Requests, ConnectLobby(q)
      PROVE  TypeOK'
  <2>1. request[q] \in Connecting
    BY <1>7, RequestShapes DEF ConnectLobby
  <2>2. leases' \subseteq Lease_
    BY <1>7, <2>1, StoreTypes DEF ConnectLobby, TypeOK, Connecting
  <2> QED
    BY <1>6, <1>7, <2>2 DEF ConnectLobby, TypeOK
<1>8. ASSUME NEW q \in Requests, HeartbeatLobby(q)
      PROVE  TypeOK'
  <2>1. request[q] \in Connecting
    BY <1>8, RequestShapes DEF HeartbeatLobby
  <2>2. leases' \subseteq Lease_
    BY <1>8, <2>1, StoreTypes DEF HeartbeatLobby, TypeOK, Connecting
  <2> QED
    BY <1>6, <1>8, <2>2 DEF HeartbeatLobby, TypeOK
<1>9. ASSUME NEW q \in Requests, ReadyLobby(q)
      PROVE  TypeOK'
  <2>1. request[q] \in Starting
    BY <1>9, RequestShapes DEF ReadyLobby
  <2>2. [request[q] EXCEPT !.step = "check"] \in Request
    BY <2>1 DEF Starting, Request
  <2>3. request' \in [Requests -> Request]
    BY <1>9, <2>2 DEF ReadyLobby, TypeOK
  <2>4. Readied(leases, request[q].lobby, request[q].account, request[q].at) \subseteq Lease_
    BY DEF Readied, TypeOK, Lease_
  <2> QED
    BY <1>9, <2>3, <2>4 DEF ReadyLobby, TypeOK
<1>10. ASSUME NEW q \in Requests, CheckReady(q)
       PROVE  TypeOK'
  <2>1. request[q] \in Starting
    BY <1>10, RequestShapes DEF CheckReady
  <2>2. [request[q] EXCEPT !.step = "start"] \in Request
    BY <2>1 DEF Starting, Request
  <2> QED
    BY <1>10, <2>2 DEF CheckReady, TypeOK
<1>11. ASSUME NEW q \in Requests, StartReady(q)
       PROVE  TypeOK'
  <2>1. request[q] \in Starting
    BY <1>11, RequestShapes DEF StartReady
  <2>2. request[q].at + TurnTime \in Nat
    BY <2>1 DEF Starting
  <2>3. PICK m \in Matches \ {row.match : row \in matches} :
          /\ matches' = matches \cup {[match |-> m, lobby |-> request[q].lobby,
                                       due |-> request[q].at + TurnTime]}
          /\ status' = [status EXCEPT ![request[q].lobby] = m]
    BY <1>11 DEF StartReady
  <2>4. matches' \subseteq [match : Matches, lobby : Lobbies, due : Nat]
    BY <2>1, <2>2, <2>3 DEF TypeOK, Starting
  <2>5. status' \in [Lobbies -> {"waiting", "cancelled"} \cup Matches]
    BY <2>3 DEF TypeOK
  <2> QED
    BY <1>6, <1>11, <2>4, <2>5 DEF StartReady, TypeOK
<1>12. ASSUME NEW q \in Requests, End(q)
       PROVE  TypeOK'
  BY <1>6, <1>12 DEF End, TypeOK
<1>13. ASSUME NEW l \in Lobbies, NEW a \in Accounts, CancelLobby(l, a)
       PROVE  TypeOK'
  BY <1>13 DEF CancelLobby, TypeOK
<1>14. ASSUME NEW l \in Lobbies, NEW a \in Accounts, NEW c \in Connections,
              DisconnectLobby(l, a, c)
       PROVE  TypeOK'
  BY <1>14 DEF DisconnectLobby, Disconnected, TypeOK
<1> QED
  BY <1>1, <1>2, <1>3, <1>4, <1>5, <1>7, <1>8, <1>9, <1>10, <1>11, <1>12, <1>13, <1>14 DEF Next

(* The lobbies, the leases, the matches and the requests under way are     *)
(* well formed at all times.                                               *)
THEOREM TypeCorrect == Spec => []TypeOK
  BY InitType, NextType, PTL DEF Spec

-----------------------------------------------------------------------------
LEMMA InitOneLease == Init => OneLeasePerConnection
  BY DEF Init, OneLeasePerConnection, Idle

LEMMA NextOneLease == LobbyInv /\ [Next]_vars => OneLeasePerConnection'
<1> SUFFICES ASSUME LobbyInv, [Next]_vars
             PROVE  OneLeasePerConnection'
  OBVIOUS
<1>0. TypeOK /\ OneLeasePerConnection
  BY DEF LobbyInv
(* Requests that only go on, end, or are not about connecting. *)
<1>1. ASSUME leases' = leases, issued' = issued,
             \A q \in Requests : request'[q].step = "connect" => request'[q] = request[q]
      PROVE  OneLeasePerConnection'
  BY <1>0, <1>1 DEF OneLeasePerConnection
(* A transaction that keeps leases, changes them in place or removes some. *)
<1>2. ASSUME issued' = issued,
             \A q \in Requests : request'[q].step = "connect" => request'[q] = request[q],
             \A t \in leases' : \E r \in leases : r.connection = t.connection,
             \A s, t \in leases' : s.connection = t.connection => s = t
      PROVE  OneLeasePerConnection'
  BY <1>0, <1>2 DEF OneLeasePerConnection
<1>3. CASE UNCHANGED vars
  BY <1>1, <1>3 DEF vars
<1>4. CASE Tick
  BY <1>1, <1>4 DEF Tick
<1>5. ASSUME NEW q \in Requests, NEW l \in Lobbies, NEW a \in Accounts, AskReady(q, l, a)
      PROVE  OneLeasePerConnection'
  BY <1>0, <1>1, <1>5 DEF AskReady, TypeOK
<1>6. ASSUME NEW q \in Requests, NEW l \in Lobbies, NEW a \in Accounts,
             NEW c \in Connections, AskConnect(q, l, a, c)
      PROVE  OneLeasePerConnection'
  <2>1. /\ c \notin issued
        /\ issued' = issued \cup {c}
        /\ leases' = leases
        /\ request'[q].step = "connect" /\ request'[q].connection = c
        /\ \A p \in Requests \ {q} : request'[p] = request[p]
    BY <1>0, <1>6 DEF AskConnect, Drawn, TypeOK
  <2>2. \A r \in leases : r.connection # c
    BY <1>0, <2>1 DEF OneLeasePerConnection
  <2>3. \A p \in Requests \ {q} : request[p].step = "connect" => request[p].connection # c
    BY <1>0, <2>1 DEF OneLeasePerConnection
  <2> QED
    BY <1>0, <2>1, <2>2, <2>3 DEF OneLeasePerConnection
<1>7. ASSUME NEW q \in Requests, NEW l \in Lobbies, NEW a \in Accounts,
             NEW c \in Connections, AskHeartbeat(q, l, a, c)
      PROVE  OneLeasePerConnection'
  BY <1>0, <1>1, <1>7 DEF AskHeartbeat, TypeOK
<1>8. ASSUME NEW q \in Requests, Finish(q)
      PROVE  /\ request'[q].step # "connect"
             /\ \A p \in Requests \ {q} : request'[p] = request[p]
             /\ \A p \in Requests : request'[p].step = "connect" => request'[p] = request[p]
  BY <1>0, <1>8 DEF Finish, Idle, TypeOK
<1>9. ASSUME NEW q \in Requests, ConnectLobby(q)
      PROVE  OneLeasePerConnection'
  <2> DEFINE r == request[q]
             new == [lobby |-> r.lobby, account |-> r.account, connection |-> r.connection,
                     ready |-> FALSE, seen |-> r.at]
  <2>1. r.step = "connect" /\ Finish(q) /\ issued' = issued
    BY <1>9 DEF ConnectLobby
  <2>2. \A t \in leases' : t \in leases \/ t = new
    BY <1>9 DEF ConnectLobby, Connected
  <2>3. \A t \in leases : t.connection # new.connection
    BY <1>0, <2>1 DEF OneLeasePerConnection
  <2>4. new.connection \in issued
    BY <1>0, <2>1 DEF OneLeasePerConnection
  <2>5. \A p \in Requests \ {q} : request[p].step = "connect" =>
          request[p].connection # new.connection
    BY <1>0, <2>1 DEF OneLeasePerConnection
  <2> HIDE DEF new
  <2> QED
    BY <1>0, <1>8, <2>1, <2>2, <2>3, <2>4, <2>5 DEF OneLeasePerConnection
<1>10. ASSUME NEW q \in Requests, HeartbeatLobby(q)
       PROVE  OneLeasePerConnection'
  <2> DEFINE Changed(r) == IF r.connection = request[q].connection
                           THEN [r EXCEPT !.seen = request[q].at,
                                          !.ready = r.ready /\ Live(r, request[q].at)]
                           ELSE r
  <2>1. leases' = Beaten(leases, request[q].connection, request[q].at)
    BY <1>10 DEF HeartbeatLobby
  <2>2. leases \subseteq Lease_
    BY <1>0 DEF TypeOK
  <2>3. \A t \in leases' : \E r \in leases : r.connection = t.connection /\ t = Changed(r)
    BY <2>1, <2>2 DEF Beaten, Lease_
  <2>4. \A s, t \in leases' : s.connection = t.connection => s = t
    <3> SUFFICES ASSUME NEW s \in leases', NEW t \in leases', s.connection = t.connection
                 PROVE  s = t
      OBVIOUS
    <3>1. PICK u \in leases : u.connection = s.connection /\ s = Changed(u)
      BY <2>3
    <3>2. PICK v \in leases : v.connection = t.connection /\ t = Changed(v)
      BY <2>3
    <3>3. u = v
      BY <1>0, <3>1, <3>2 DEF OneLeasePerConnection
    <3> QED
      BY <3>1, <3>2, <3>3
  <2> QED
    BY <1>2, <1>8, <1>10, <2>3, <2>4 DEF HeartbeatLobby
<1>11. ASSUME NEW q \in Requests, ReadyLobby(q)
       PROVE  OneLeasePerConnection'
  <2> DEFINE l == request[q].lobby
             a == request[q].account
             Changed(r) == IF Owned(r, l, a) THEN [r EXCEPT !.ready = TRUE] ELSE r
  <2>1. leases' = Readied(leases, l, a, request[q].at)
    BY <1>11 DEF ReadyLobby
  <2>2. leases \subseteq Lease_
    BY <1>0 DEF TypeOK
  <2>3. \A t \in leases' : \E r \in leases : r.connection = t.connection /\ t = Changed(r)
    BY <2>1, <2>2 DEF Readied, Lease_
  <2>4. \A s, t \in leases' : s.connection = t.connection => s = t
    <3> SUFFICES ASSUME NEW s \in leases', NEW t \in leases', s.connection = t.connection
                 PROVE  s = t
      OBVIOUS
    <3>1. PICK u \in leases : u.connection = s.connection /\ s = Changed(u)
      BY <2>3
    <3>2. PICK v \in leases : v.connection = t.connection /\ t = Changed(v)
      BY <2>3
    <3>3. u = v
      BY <1>0, <3>1, <3>2 DEF OneLeasePerConnection
    <3> QED
      BY <3>1, <3>2, <3>3
  <2>5. \A p \in Requests : request'[p].step = "connect" => request'[p] = request[p]
    <3>1. request[q] \in Starting
      BY <1>0, <1>11, RequestShapes DEF ReadyLobby
    <3>2. request'[q].step = "check"
      BY <1>0, <1>11, <3>1 DEF ReadyLobby, TypeOK, Starting
    <3> QED
      BY <1>0, <1>11, <3>2 DEF ReadyLobby, TypeOK
  <2> QED
    BY <1>2, <1>11, <2>3, <2>4, <2>5 DEF ReadyLobby
<1>12. ASSUME NEW q \in Requests, CheckReady(q)
       PROVE  OneLeasePerConnection'
  <2>1. request[q] \in Starting
    BY <1>0, <1>12, RequestShapes DEF CheckReady
  <2>2. request'[q].step = "start"
    BY <1>0, <1>12, <2>1 DEF CheckReady, TypeOK, Starting
  <2> QED
    BY <1>0, <1>1, <1>12, <2>2 DEF CheckReady, TypeOK
<1>13. ASSUME NEW q \in Requests, StartReady(q)
       PROVE  OneLeasePerConnection'
  BY <1>1, <1>8, <1>13 DEF StartReady
<1>14. ASSUME NEW q \in Requests, End(q)
       PROVE  OneLeasePerConnection'
  BY <1>1, <1>8, <1>14 DEF End
<1>15. ASSUME NEW l \in Lobbies, NEW a \in Accounts, CancelLobby(l, a)
       PROVE  OneLeasePerConnection'
  BY <1>1, <1>15 DEF CancelLobby
<1>16. ASSUME NEW l \in Lobbies, NEW a \in Accounts, NEW c \in Connections,
              DisconnectLobby(l, a, c)
       PROVE  OneLeasePerConnection'
  BY <1>0, <1>2, <1>16 DEF DisconnectLobby, Disconnected, OneLeasePerConnection
<1> QED
  BY <1>3, <1>4, <1>5, <1>6, <1>7, <1>9, <1>10, <1>11, <1>12, <1>13, <1>14, <1>15, <1>16 DEF Next

(* The inductive invariant holds at all times. *)
THEOREM InvariantHolds == Spec => []LobbyInv
<1>1. Init => LobbyInv
  BY InitType, InitOneLease DEF LobbyInv
<1>2. LobbyInv /\ [Next]_vars => LobbyInv'
  BY NextType, NextOneLease DEF LobbyInv
<1> QED
  BY <1>1, <1>2, PTL DEF Spec

-----------------------------------------------------------------------------
(* Every transaction that touches the leases, for the properties of steps. *)
LEMMA LeaseSteps ==
  ASSUME TypeOK, [Next]_vars
  PROVE  \/ leases' \subseteq leases
         \/ \E q \in Requests : ConnectLobby(q)
         \/ \E q \in Requests : HeartbeatLobby(q)
         \/ \E q \in Requests : ReadyLobby(q)
<1>1. CASE UNCHANGED vars
  BY <1>1 DEF vars
<1>2. CASE Tick
  BY <1>2 DEF Tick
<1>3. ASSUME NEW q \in Requests, NEW l \in Lobbies, NEW a \in Accounts,
             \/ AskReady(q, l, a)
             \/ \E c \in Connections : AskConnect(q, l, a, c) \/ AskHeartbeat(q, l, a, c)
      PROVE  leases' \subseteq leases
  BY <1>3 DEF AskReady, AskConnect, AskHeartbeat
<1>4. ASSUME NEW q \in Requests, CheckReady(q) \/ StartReady(q) \/ End(q)
      PROVE  leases' \subseteq leases
  BY <1>4 DEF CheckReady, StartReady, End
<1>5. ASSUME NEW l \in Lobbies, NEW a \in Accounts,
             CancelLobby(l, a) \/ \E c \in Connections : DisconnectLobby(l, a, c)
      PROVE  leases' \subseteq leases
  BY <1>5 DEF CancelLobby, DisconnectLobby, Disconnected
<1> QED
  BY <1>1, <1>2, <1>3, <1>4, <1>5 DEF Next

(* However heartbeats, ready requests and connections interleave, and      *)
(* whatever clocks they read, a lease that was silent for longer than its  *)
(* length does not come back ready.                                        *)
THEOREM ReadinessIsLeased == Spec => ReadinessLapses
<1>1. LobbyInv /\ [Next]_vars =>
        [\A r \in leases, t \in leases' :
           r.connection = t.connection /\ r.ready /\ t.ready => t.seen <= r.seen + Lease]_vars
  <2> SUFFICES ASSUME LobbyInv, [Next]_vars, NEW r \in leases, NEW t \in leases',
                      r.connection = t.connection, r.ready, t.ready
               PROVE  t.seen <= r.seen + Lease
    OBVIOUS
  <2>0. TypeOK /\ OneLeasePerConnection
    BY DEF LobbyInv
  <2>1. r.seen \in Nat /\ r.seen <= r.seen + Lease
    BY <2>0, LeaseAssumption, TimesAssumption DEF TypeOK, Lease_
  <2>2. CASE t \in leases
    BY <2>0, <2>1, <2>2 DEF OneLeasePerConnection
  <2>3. ASSUME NEW q \in Requests, ConnectLobby(q)
        PROVE  t \in leases
    BY <2>3 DEF ConnectLobby, Connected
  <2>4. ASSUME NEW q \in Requests, HeartbeatLobby(q)
        PROVE  t.seen <= r.seen + Lease
    <3> DEFINE at == request[q].at
    <3>1. at \in Nat
      BY <2>0, <2>4, RequestShapes, TimesAssumption DEF HeartbeatLobby, Connecting
    <3>2. PICK u \in leases :
            t = IF u.connection = request[q].connection
                THEN [u EXCEPT !.seen = at, !.ready = u.ready /\ Live(u, at)]
                ELSE u
      BY <2>4 DEF HeartbeatLobby, Beaten
    <3>3. u \in Lease_
      BY <2>0 DEF TypeOK
    <3>4. u = r
      BY <2>0, <3>2, <3>3 DEF OneLeasePerConnection, Lease_
    <3>5. CASE t = u
      BY <2>1, <3>4, <3>5
    <3>6. CASE t = [u EXCEPT !.seen = at, !.ready = u.ready /\ Live(u, at)]
      BY <3>1, <3>3, <3>4, <3>6 DEF Lease_, Live
    <3> QED
      BY <3>2, <3>5, <3>6
  <2>5. ASSUME NEW q \in Requests, ReadyLobby(q)
        PROVE  t.seen <= r.seen + Lease
    <3>1. PICK u \in leases :
            t = IF Owned(u, request[q].lobby, request[q].account)
                THEN [u EXCEPT !.ready = TRUE] ELSE u
      BY <2>5 DEF ReadyLobby, Readied
    <3>2. u \in Lease_
      BY <2>0 DEF TypeOK
    <3>3. t.connection = u.connection /\ t.seen = u.seen
      BY <3>1, <3>2 DEF Lease_
    <3>4. u = r
      BY <2>0, <3>3 DEF OneLeasePerConnection
    <3> QED
      BY <2>1, <3>3, <3>4
  <2> QED
    BY <2>0, <2>2, <2>3, <2>4, <2>5, LeaseSteps
<1> QED
  BY <1>1, InvariantHolds, PTL DEF Spec, ReadinessLapses

(* Whoever is ready asked for it himself: no connection is born ready, no  *)
(* heartbeat and no request of the other player makes one ready.           *)
THEOREM ReadinessIsAsked == Spec => ReadinessIsExplicit
<1> DEFINE Asked(t) ==
             \/ \E r \in leases : r.connection = t.connection /\ r.ready
             \/ \E q \in Requests : /\ request[q].step = "ready"
                                    /\ request'[q].step = "check"
                                    /\ Owned(t, request[q].lobby, request[q].account)
<1>1. TypeOK /\ [Next]_vars => [\A t \in leases' : t.ready => Asked(t)]_vars
  <2> SUFFICES ASSUME TypeOK, [Next]_vars, NEW t \in leases', t.ready
               PROVE  Asked(t)
    OBVIOUS
  <2>1. CASE t \in leases
    BY <2>1
  <2>2. ASSUME NEW q \in Requests, ConnectLobby(q)
        PROVE  t \in leases
    BY <2>2 DEF ConnectLobby, Connected
  <2>3. ASSUME NEW q \in Requests, HeartbeatLobby(q)
        PROVE  Asked(t)
    <3>1. PICK u \in leases :
            t = IF u.connection = request[q].connection
                THEN [u EXCEPT !.seen = request[q].at,
                               !.ready = u.ready /\ Live(u, request[q].at)]
                ELSE u
      BY <2>3 DEF HeartbeatLobby, Beaten
    <3>2. u \in Lease_
      BY DEF TypeOK
    <3>3. t.connection = u.connection /\ (t.ready => u.ready)
      BY <3>1, <3>2 DEF Lease_
    <3> QED
      BY <3>3
  <2>4. ASSUME NEW q \in Requests, ReadyLobby(q)
        PROVE  Asked(t)
    <3>1. PICK u \in leases :
            t = IF Owned(u, request[q].lobby, request[q].account)
                THEN [u EXCEPT !.ready = TRUE] ELSE u
      BY <2>4 DEF ReadyLobby, Readied
    <3>2. u \in Lease_
      BY DEF TypeOK
    <3>3. CASE ~Owned(u, request[q].lobby, request[q].account)
      BY <3>1, <3>3
    <3>4. CASE Owned(u, request[q].lobby, request[q].account)
      <4>1. Owned(t, request[q].lobby, request[q].account)
        BY <3>1, <3>2, <3>4 DEF Owned, Lease_
      <4>2. request[q] \in Starting /\ request[q].step = "ready"
        BY <2>4, RequestShapes DEF ReadyLobby
      <4>3. request'[q].step = "check"
        BY <2>4, <4>2 DEF ReadyLobby, TypeOK, Starting
      <4> QED
        BY <4>1, <4>2, <4>3
    <3> QED
      BY <3>3, <3>4
  <2> QED
    BY <2>1, <2>2, <2>3, <2>4, LeaseSteps
<1> QED
  BY <1>1, TypeCorrect, PTL DEF Spec, ReadinessIsExplicit

-----------------------------------------------------------------------------
(* What happens to a lobby in a step: it starts, is cancelled or stays.    *)
LEMMA LobbySteps ==
  ASSUME TypeOK, [Next]_vars
  PROVE  \/ status' = status /\ matches' = matches
         \/ \E q \in Requests : StartReady(q)
         \/ \E l \in Lobbies, a \in Accounts : CancelLobby(l, a)
<1>1. CASE UNCHANGED vars
  BY <1>1 DEF vars
<1>2. CASE Tick
  BY <1>2 DEF Tick
<1>3. ASSUME NEW q \in Requests, NEW l \in Lobbies, NEW a \in Accounts,
             \/ AskReady(q, l, a)
             \/ \E c \in Connections : AskConnect(q, l, a, c) \/ AskHeartbeat(q, l, a, c)
      PROVE  status' = status /\ matches' = matches
  BY <1>3 DEF AskReady, AskConnect, AskHeartbeat
<1>4. ASSUME NEW q \in Requests,
             ConnectLobby(q) \/ HeartbeatLobby(q) \/ ReadyLobby(q) \/ CheckReady(q) \/ End(q)
      PROVE  status' = status /\ matches' = matches
  BY <1>4 DEF ConnectLobby, HeartbeatLobby, ReadyLobby, CheckReady, End
<1>5. ASSUME NEW l \in Lobbies, NEW a \in Accounts, NEW c \in Connections,
             DisconnectLobby(l, a, c)
      PROVE  status' = status /\ matches' = matches
  BY <1>5 DEF DisconnectLobby
<1> QED
  BY <1>1, <1>2, <1>3, <1>4, <1>5 DEF Next

(* A start, in the terms of what it writes. *)
LEMMA StartWrites ==
  ASSUME TypeOK, NEW q \in Requests, StartReady(q)
  PROVE  \E m \in Matches \ {row.match : row \in matches} :
           LET r == request[q] IN
             /\ r.lobby \in Lobbies /\ r.at \in Nat
             /\ status[r.lobby] = "waiting"
             /\ BothReady(leases, r.lobby, Members[r.lobby], r.at)
             /\ matches' = matches \cup {[match |-> m, lobby |-> r.lobby, due |-> r.at + TurnTime]}
             /\ status' = [status EXCEPT ![r.lobby] = m]
<1>1. request[q] \in Starting
  BY RequestShapes DEF StartReady
<1>2. request[q].lobby \in Lobbies /\ request[q].at \in Nat
  BY <1>1, TimesAssumption DEF Starting
<1>3. Startable(request[q])
  BY DEF StartReady
<1>4. PICK m \in Matches \ {row.match : row \in matches} :
        /\ matches' = matches \cup {[match |-> m, lobby |-> request[q].lobby,
                                     due |-> request[q].at + TurnTime]}
        /\ status' = [status EXCEPT ![request[q].lobby] = m]
  BY DEF StartReady
<1> QED
  BY <1>2, <1>3, <1>4 DEF Startable

(* A match is started only for two players who hold leases that are ready  *)
(* and live at the time by which it starts, however long its request       *)
(* waited and whatever ran in between.                                     *)
THEOREM StartsAreAgreed == Spec => StartsOnlyWhenBothReady
<1> DEFINE Agreed(l) ==
             \E row \in matches' :
               /\ row.match = status'[l]
               /\ \A a \in Members[l] : \E r \in leases :
                    Owned(r, l, a) /\ r.ready /\ Live(r, row.due - TurnTime)
<1>1. TypeOK /\ [Next]_vars =>
        [\A l \in Lobbies : status[l] = "waiting" /\ status'[l] \in Matches => Agreed(l)]_vars
  <2> SUFFICES ASSUME TypeOK, [Next]_vars, NEW l \in Lobbies,
                      status[l] = "waiting", status'[l] \in Matches
               PROVE  Agreed(l)
    OBVIOUS
  <2>1. status'[l] # "waiting"
    BY MatchesAssumption
  <2>2. ASSUME NEW k \in Lobbies, NEW a \in Accounts, CancelLobby(k, a)
        PROVE  FALSE
    BY <2>1, <2>2, MatchesAssumption DEF CancelLobby, TypeOK
  <2>3. PICK q \in Requests : StartReady(q)
    BY <2>1, <2>2, LobbySteps
  <2> DEFINE k == request[q].lobby  at == request[q].at
  <2>4. PICK m \in Matches :
          /\ k \in Lobbies /\ at \in Nat
          /\ BothReady(leases, k, Members[k], at)
          /\ matches' = matches \cup {[match |-> m, lobby |-> k, due |-> at + TurnTime]}
          /\ status' = [status EXCEPT ![k] = m]
    BY <2>3, StartWrites
  <2>5. l = k /\ status'[l] = m
    BY <2>1, <2>4 DEF TypeOK
  <2> DEFINE row == [match |-> m, lobby |-> k, due |-> at + TurnTime]
  <2>6. row \in matches' /\ row.match = status'[l] /\ row.due - TurnTime = at
    BY <2>4, <2>5, TimesAssumption
  <2>7. \A a \in Members[l] : \E r \in leases : Owned(r, l, a) /\ r.ready /\ Live(r, at)
    BY <2>4, <2>5 DEF BothReady
  <2> HIDE DEF row, at, k
  <2> QED
    BY <2>6, <2>7
<1> QED
  BY <1>1, TypeCorrect, PTL DEF Spec, StartsOnlyWhenBothReady

-----------------------------------------------------------------------------
(* The state of the handoff, as WaitingLobby has it. *)
Outcome == [l \in Lobbies |-> CASE status[l] = "waiting" -> "open"
                                [] status[l] = "cancelled" -> "withdrawn"
                                [] OTHER -> status[l]]
Made == {row.match : row \in matches}

LEMMA InitHandoff == Init => Handoff!Init
  BY DEF Init, Handoff!Init

LEMMA NextHandoff ==
  ASSUME TypeOK, [Next]_vars
  PROVE  Handoff!Next \/ (Outcome' = Outcome /\ Made' = Made)
<1>1. CASE status' = status /\ matches' = matches
  BY <1>1 DEF Outcome, Made
<1>2. ASSUME NEW l \in Lobbies, NEW a \in Accounts, CancelLobby(l, a)
      PROVE  Handoff!Withdraw(l)
  <2>1. status[l] = "waiting" /\ status' = [status EXCEPT ![l] = "cancelled"] /\ matches' = matches
    BY <1>2 DEF CancelLobby, Waiting
  <2>2. Outcome[l] = "open" /\ Outcome' = [Outcome EXCEPT ![l] = "withdrawn"] /\ Made' = Made
    BY <2>1 DEF TypeOK, Outcome, Made
  <2> QED
    BY <2>2 DEF Handoff!Withdraw, Outcome, Made
<1>3. ASSUME NEW q \in Requests, StartReady(q)
      PROVE  Handoff!Next
  <2> DEFINE l == request[q].lobby
  <2>1. PICK m \in Matches \ Made :
          /\ l \in Lobbies
          /\ status[l] = "waiting"
          /\ matches' = matches \cup {[match |-> m, lobby |-> l, due |-> request[q].at + TurnTime]}
          /\ status' = [status EXCEPT ![l] = m]
    BY <1>3, StartWrites DEF Made
  <2>2. m \notin {"waiting", "cancelled"}
    BY MatchesAssumption
  <2>3. Outcome[l] = "open" /\ Outcome' = [Outcome EXCEPT ![l] = m]
    BY <2>1, <2>2 DEF TypeOK, Outcome
  <2> DEFINE new == [match |-> m, lobby |-> l, due |-> request[q].at + TurnTime]
  <2>4. Made' = Made \cup {m}
    <3>1. new.match = m /\ matches' = matches \cup {new}
      BY <2>1
    <3> HIDE DEF new
    <3>2. \A x : x \in Made' <=> \E row \in matches \cup {new} : x = row.match
      BY <3>1 DEF Made
    <3>3. \A x : x \in Made <=> \E row \in matches : x = row.match
      BY DEF Made
    <3>4. \A x : x \in Made' <=> x \in Made \/ x = m
      BY <3>1, <3>2, <3>3
    <3> QED
      BY <3>4
  <2>5. Handoff!Use(l, m)
    BY <2>1, <2>3, <2>4 DEF Handoff!Use, Outcome, Made
  <2> QED
    BY <2>1, <2>5 DEF Handoff!Next
<1> QED
  BY <1>1, <1>2, <1>3, LobbySteps DEF Handoff!Next

(* A lobby is a one-shot offer: it starts one match of its own, which it   *)
(* keeps, or it is cancelled and starts none.                              *)
THEOREM LobbyIsOneShot == Spec => RefinesOneShot
<1>1. TypeOK /\ [Next]_vars => [Handoff!Next]_<<Outcome, Made>>
  BY NextHandoff
<1> QED
  BY <1>1, InitHandoff, TypeCorrect, PTL DEF Spec, RefinesOneShot, Handoff!Spec, Outcome, Made
=============================================================================
