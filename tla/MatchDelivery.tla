---------------------------- MODULE MatchDelivery ----------------------------
(***************************************************************************)
(* How the snapshots of one match reach its clients: the authority behind  *)
(* its mutex, the broadcast channel every acceptance is published on, one  *)
(* websocket task per connection, the two directions of every socket, and  *)
(* the browsers at their ends, which lose connections and open new ones.   *)
(*                                                                         *)
(* A snapshot is named by its revision.  A command is accepted at the      *)
(* revision it was given at and only there; whose turn it is does not      *)
(* matter here.                                                            *)
(***************************************************************************)
EXTENDS BrowserTransport, Sequences

CONSTANTS
  Clients,
  MaxConnections,   (* bound: sockets ever opened                          *)
  MaxRevision,      (* bound: revisions of the match                       *)
  MaxCommands,      (* bound: commands ever sent                           *)
  MaxFaults,        (* bound: failed commits and crashes                   *)
  Capacity          (* SNAPSHOT_CHANNEL_CAPACITY                           *)

ASSUME DeliveryBounds ==
  /\ {MaxConnections, MaxRevision, MaxCommands, MaxFaults} \subseteq Nat
  /\ Capacity \in Nat \ {0}

ASSUME NoneAssumption == None \notin Nat

Connections == 1 .. MaxConnections

VARIABLES
  head,        (* the revision of the match in the authority               *)
  over,        (* the match was completed at that revision                 *)
  published,   (* the revisions sent on the broadcast channel              *)
  task,        (* the websocket task of each connection                    *)
  registry,    (* the connections the SubscriptionRegistry has subscribed  *)
  up, down,    (* what each connection has under way to and from its task  *)
  client,      (* the transport state of each browser                      *)
  socket,      (* the connection each browser holds, or None               *)
  latest,      (* the last command each client gave: [id, expected]        *)
  sent,        (* how many commands were given                             *)
  refused,     (* the commands the server refused                          *)
  faults

authority == <<head, over>>
players   == <<latest, sent>>
vars == <<authority, published, task, registry, up, down, client, socket, players, refused, faults>>

-----------------------------------------------------------------------------
(* A task is                                                               *)
(*   phase      "unused", "accepting", "subscribed", "upgraded", "open",   *)
(*              "replying" or "closed"                                     *)
(*   next       the place in the channel its receiver has reached          *)
(*   initial    the revision of the snapshot read during the upgrade       *)
(*   delivered  delivered_revision                                         *)
(*   answer     the revision of the snapshot it is about to answer with    *)
UnusedTask == [phase |-> "unused", next |-> 1, initial |-> 0, delivered |-> 0, answer |-> 0]

ClosedTask == [UnusedTask EXCEPT !.phase = "closed"]

Offer == [kind |-> "offer"]

Command(id, expected) == [kind |-> "command", id |-> id, expected |-> expected]

(* On the wire a rejection is a bare word: the id of the refused command,  *)
(* which no client reads, is carried for the properties only.              *)
Text(word, id) == [kind |-> "text", word |-> word, id |-> id]

Snapshot(r) == [kind |-> "snapshot", revision |-> r]

Live(n) == \E c \in Clients : socket[c] = n

(* What a task writes is lost once the browser has let the socket go. *)
Written(n, messages) == IF Live(n) THEN [down EXCEPT ![n] = @ \o messages] ELSE down

Later(r, s) == IF r > s THEN r ELSE s

Init ==
  /\ head = 0
  /\ over = FALSE
  /\ published = <<>>
  /\ task = [n \in Connections |-> UnusedTask]
  /\ registry = {}
  /\ up = [n \in Connections |-> <<>>]
  /\ down = [n \in Connections |-> <<>>]
  /\ client = [c \in Clients |-> NewClient]
  /\ socket = [c \in Clients |-> None]
  /\ latest = [c \in Clients |-> [id |-> 0, expected |-> 0]]
  /\ sent = 0
  /\ refused = {}
  /\ faults = 0

-----------------------------------------------------------------------------
(* The browser opens a socket; the server starts to handle the request. *)
Connect(c) ==
  /\ socket[c] = None
  /\ \E n \in Connections :
       /\ task[n].phase = "unused"
       /\ \A i \in 1 .. n - 1 : task[i].phase # "unused"
       /\ socket' = [socket EXCEPT ![c] = n]
       /\ task' = [task EXCEPT ![n].phase = "accepting"]
  /\ client' = [client EXCEPT ![c] = Connecting(@)]
  /\ UNCHANGED <<registry, authority, published, up, down, players, refused, faults>>

Opens(c) ==
  /\ socket[c] # None
  /\ client[c].status = "Connecting"
  /\ task[socket[c]].phase = "upgraded"
  /\ client' = [client EXCEPT ![c] = Opened(@)]
  /\ up' = [up EXCEPT ![socket[c]] = Append(@, Offer)]
  /\ UNCHANGED <<registry, authority, published, task, down, socket, players, refused, faults>>

(* predict_and_send: the command is bound to the revision the client knows, *)
(* and is given only while no other prediction is pending and the match    *)
(* that the client knows is not completed.                                 *)
Give(c) ==
  /\ sent < MaxCommands
  /\ client[c].status = "Ready"
  /\ client[c].pending = None
  /\ client[c].known < MaxRevision
  /\ ~(over /\ client[c].known = head)
  /\ sent' = sent + 1
  /\ client' = [client EXCEPT ![c] = Predict(@, sent + 1)]
  /\ latest' = [latest EXCEPT ![c] = [id |-> sent + 1, expected |-> client[c].known]]
  /\ up' = [up EXCEPT ![socket[c]] = Append(@, Command(sent + 1, client[c].known))]
  /\ UNCHANGED <<registry, authority, published, task, down, socket, refused, faults>>

Received(t, m) ==
  IF m.kind = "text" THEN ReceiveText(t, m.word) ELSE ReceiveSnapshot(t, m.revision)

(* on_message: a failure to make sense of a message closes the socket.     *)
Receive(c) ==
  /\ socket[c] # None
  /\ down[socket[c]] # <<>>
  /\ LET n == socket[c]
         t == Received(client[c], Head(down[n]))
     IN  /\ client' = [client EXCEPT ![c] = t]
         /\ socket' = [socket EXCEPT ![c] = IF t.status = "Backoff" THEN None ELSE n]
         /\ down' = [down EXCEPT ![n] = IF t.status = "Backoff" THEN <<>> ELSE Tail(@)]
  /\ UNCHANGED <<registry, authority, published, task, up, players, refused, faults>>

(* The monitor of the page shows a rejection once. *)
ShowRejection(c) ==
  /\ client[c].status = "Ready" /\ client[c].rejected
  /\ client' = [client EXCEPT ![c].rejected = FALSE]
  /\ UNCHANGED <<registry, authority, published, task, up, down, socket, players, refused, faults>>

(* The browser lets the socket go: network loss, a hidden page, the limit  *)
(* of ten seconds to get ready.  What it had sent may or may not arrive.   *)
Drop(c) ==
  /\ socket[c] # None
  /\ client' = [client EXCEPT ![c] = Disconnected(@)]
  /\ socket' = [socket EXCEPT ![c] = None]
  /\ down' = [down EXCEPT ![socket[c]] = <<>>]
  /\ up' \in {up, [up EXCEPT ![socket[c]] = <<>>]}
  /\ UNCHANGED <<registry, authority, published, task, players, refused, faults>>

-----------------------------------------------------------------------------
(* SubscriptionRegistry, of this match.                                    *)
Subscribed(n) == registry' = registry \cup {n}

Unsubscribed(n) == registry' = registry \ {n}

IsSubscribed(n) == n \in registry

(* websocket: the task registers the connection, subscribes to the channel, *)
(* then waits for the mutex to read the snapshot that it will send first.  *)
Subscribe(n) ==
  /\ task[n].phase = "accepting"
  /\ Subscribed(n)
  /\ task' = [task EXCEPT ![n].phase = "subscribed", ![n].next = Len(published) + 1]
  /\ UNCHANGED <<authority, published, up, down, client, socket, players, refused, faults>>

ReadInitial(n) ==
  /\ task[n].phase = "subscribed"
  /\ task' = [task EXCEPT ![n].phase = "upgraded", ![n].initial = head, ![n].delivered = head]
  /\ UNCHANGED <<registry, authority, published, up, down, client, socket, players, refused, faults>>

(* Nothing is forwarded before the client has offered its version. *)
Negotiate(n) ==
  /\ task[n].phase = "upgraded" /\ up[n] # <<>>
  /\ up' = [up EXCEPT ![n] = Tail(@)]
  /\ down' = Written(n, <<Text("version", 0), Snapshot(task[n].initial)>>)
  /\ task' = [task EXCEPT ![n].phase = "open"]
  /\ UNCHANGED <<registry, authority, published, client, socket, players, refused, faults>>

Handling(n) == task[n].phase = "open" /\ up[n] # <<>>

(* apply_transport_command: the mutex is released when the command has     *)
(* been accepted, before its snapshot is published.                        *)
Accept(n) ==
  /\ Handling(n)
  /\ Head(up[n]).expected = head /\ ~over
  /\ head' = head + 1
  /\ over' \in BOOLEAN
  /\ task' = [task EXCEPT ![n].phase = "replying", ![n].answer = head + 1]
  /\ up' = [up EXCEPT ![n] = Tail(@)]
  /\ UNCHANGED <<registry, published, down, client, socket, players, refused, faults>>

Reply(n) ==
  /\ task[n].phase = "replying"
  /\ published' = Append(published, task[n].answer)
  /\ down' = Written(n, <<Snapshot(task[n].answer)>>)
  /\ task' = [task EXCEPT ![n].phase = "open",
                          ![n].delivered = Later(@, task[n].answer)]
  /\ UNCHANGED <<registry, authority, up, client, socket, players, refused, faults>>

Refusal_Silent(n, withSnapshot) ==
  /\ Handling(n)
  /\ refused' = refused \cup {Head(up[n]).id}
  /\ up' = [up EXCEPT ![n] = Tail(@)]
  /\ down' = Written(n, IF withSnapshot THEN <<Snapshot(head)>> ELSE <<>>)
  /\ task' = IF withSnapshot THEN [task EXCEPT ![n].delivered = Later(@, head)] ELSE task
  /\ UNCHANGED <<registry, authority, published, client, socket, players>>

(* The word "rejected", then the snapshot that was read under the mutex,   *)
(* unless there was an error that kept it from being read.                 *)
Refusal(n, withSnapshot) ==
  /\ Handling(n)
  /\ refused' = refused \cup {Head(up[n]).id}
  /\ up' = [up EXCEPT ![n] = Tail(@)]
  /\ down' = Written(n, <<Text("rejected", Head(up[n]).id)>>
                        \o (IF withSnapshot THEN <<Snapshot(head)>> ELSE <<>>))
  /\ task' = IF withSnapshot THEN [task EXCEPT ![n].delivered = Later(@, head)] ELSE task
  /\ UNCHANGED <<registry, authority, published, client, socket, players>>

Refuse(n) ==
  \/ /\ Handling(n) /\ (Head(up[n]).expected # head \/ over)
     /\ Refusal(n, TRUE)
     /\ UNCHANGED faults
  \/ /\ faults < MaxFaults
     /\ \E withSnapshot \in BOOLEAN : Refusal(n, withSnapshot)
     /\ faults' = faults + 1

(* The channel keeps the last Capacity revisions: a receiver that has      *)
(* fallen behind is told so, and goes on at the oldest one.                *)
Lagged(n) == Len(published) - task[n].next >= Capacity

(* A lagging task reads the current snapshot instead. *)
Publication(n) == IF Lagged(n) THEN head ELSE published[task[n].next]

NextPlace(n) == IF Lagged(n) THEN Len(published) - Capacity + 1 ELSE task[n].next + 1

Forward_Everything(n) ==
  /\ task[n].phase = "open" /\ task[n].next <= Len(published)
  /\ down' = Written(n, <<Snapshot(Publication(n))>>)
  /\ task' = [task EXCEPT ![n].next = NextPlace(n), ![n].delivered = Publication(n)]
  /\ UNCHANGED <<registry, authority, published, up, client, socket, players, refused, faults>>

SendSnapshotIfSubscribed(n, r) == IsSubscribed(n) /\ down' = Written(n, <<Snapshot(r)>>)

HasNews(n) ==
  /\ task[n].phase = "open" /\ task[n].next <= Len(published)
  /\ Publication(n) > task[n].delivered

(* forward_publication: only a newer snapshot is sent on, and only on a    *)
(* connection that is still subscribed.                                    *)
Forward(n) ==
  /\ task[n].phase = "open" /\ task[n].next <= Len(published)
  /\ IF HasNews(n) THEN SendSnapshotIfSubscribed(n, Publication(n)) ELSE UNCHANGED down
  /\ task' = [task EXCEPT ![n].next = NextPlace(n),
                          ![n].delivered = Later(@, Publication(n))]
  /\ UNCHANGED <<registry, authority, published, up, client, socket, players, refused, faults>>

Timeout_Unpublished ==
  /\ ~over /\ head < MaxRevision
  /\ head' = head + 1
  /\ UNCHANGED <<registry, published, over, task, up, down, client, socket, players, refused, faults>>

(* The scheduler publishes a timeout before it releases the mutex. *)
Timeout ==
  /\ ~over /\ head < MaxRevision
  /\ head' = head + 1
  /\ published' = Append(published, head + 1)
  /\ UNCHANGED <<registry, over, task, up, down, client, socket, players, refused, faults>>

(* The task ends when it reads the end of the socket, fails to write, or   *)
(* is to send a snapshot but is not subscribed.  It takes its connection   *)
(* off the registry when it ends, if it ever ran: the request of a browser *)
(* that goes away before its socket is upgraded leaves it there.           *)
Close(n) ==
  /\ task[n].phase \notin {"unused", "replying", "closed"}
  /\ ~Live(n) \/ (HasNews(n) /\ ~IsSubscribed(n))
  /\ \/ task[n].phase \in {"upgraded", "open"} /\ Unsubscribed(n)
     \/ task[n].phase # "open" /\ UNCHANGED registry
  /\ task' = [task EXCEPT ![n] = ClosedTask]
  /\ up' = [up EXCEPT ![n] = <<>>]
  /\ UNCHANGED <<authority, published, down, client, socket, players, refused, faults>>

(* The server restarts with the matches it has in the database, where a    *)
(* command it was handling may or may not have become durable.             *)
Crash ==
  /\ faults < MaxFaults
  /\ faults' = faults + 1
  /\ \/ UNCHANGED authority
     \/ /\ \E n \in Connections :
             Handling(n) /\ Head(up[n]).expected = head /\ ~over
        /\ head' = head + 1
        /\ over' \in BOOLEAN
  /\ published' = <<>>
  /\ task' = [n \in Connections |->
                IF task[n].phase = "unused" THEN task[n] ELSE ClosedTask]
  /\ registry' = {}
  /\ up' = [n \in Connections |-> <<>>]
  /\ UNCHANGED <<down, client, socket, players, refused>>

(* The browser learns that the other end is gone. *)
Closed(c) ==
  /\ socket[c] # None /\ task[socket[c]].phase = "closed"
  /\ down[socket[c]] = <<>>
  /\ client' = [client EXCEPT ![c] = Disconnected(@)]
  /\ socket' = [socket EXCEPT ![c] = None]
  /\ UNCHANGED <<registry, authority, published, task, up, down, players, refused, faults>>

-----------------------------------------------------------------------------
Browser(c) ==
  Connect(c) \/ Opens(c) \/ Give(c) \/ Receive(c) \/ ShowRejection(c) \/ Drop(c) \/ Closed(c)

Task(n) ==
  \/ Subscribe(n) \/ ReadInitial(n) \/ Negotiate(n)
  \/ Accept(n) \/ Reply(n) \/ Refuse(n) \/ Forward(n) \/ Close(n)

Next ==
  \/ \E c \in Clients : Browser(c)
  \/ \E n \in Connections : Task(n)
  \/ Timeout
  \/ Crash

Spec == Init /\ [][Next]_vars

(* Messages are delivered while a connection lasts, and tasks run; select! *)
(* picks at random between the channel and the socket, so neither starves. *)
(* Nothing promises that connections last or that players act.             *)
Fairness ==
  /\ \A c \in Clients : WF_vars(Receive(c)) /\ WF_vars(Closed(c))
  /\ \A n \in Connections :
       /\ SF_vars(Accept(n) \/ Refuse(n))
       /\ WF_vars(Reply(n))
       /\ SF_vars(Forward(n))

FairSpec == Spec /\ Fairness

-----------------------------------------------------------------------------
Revisions == 0 .. MaxRevision

Ids == 1 .. MaxCommands

(* A client is ready only on a negotiated connection and with a snapshot,  *)
(* and predicts only while it is ready.                                    *)
ClientStates ==
  {t \in [status : Statuses, negotiated : BOOLEAN, known : Nat \cup {None},
          pending : Nat \cup {None}, rejected : BOOLEAN] :
     /\ t.status = "Ready" => t.negotiated /\ t.known # None
     /\ t.pending # None => t.status = "Ready"}

Message == [kind : {"text"}, word : {"version", "rejected"}, id : Nat]
           \cup [kind : {"snapshot"}, revision : Nat]

Commands == [kind : {"command"}, id : Nat, expected : Nat]

TaskStates ==
  [phase : {"unused", "accepting", "subscribed", "upgraded", "open", "replying", "closed"},
   next : Nat \ {0}, initial : Nat, delivered : Nat, answer : Nat]

(* Every variable has the shape of what it stands for. *)
TypeOK ==
  /\ head \in Nat
  /\ over \in BOOLEAN
  /\ published \in Seq(Nat)
  /\ task \in [Connections -> TaskStates]
  /\ up \in [Connections -> Seq({Offer} \cup Commands)]
  /\ down \in [Connections -> Seq(Message)]
  /\ client \in [Clients -> ClientStates]
  /\ registry \subseteq Connections
  /\ socket \in [Clients -> Connections \cup {None}]
  /\ latest \in [Clients -> [id : Nat, expected : Nat]]
  /\ sent \in Nat
  /\ refused \subseteq Nat
  /\ faults \in Nat

IsSnapshot(m) == m.kind = "snapshot"

(* The snapshots of a socket are in the order of their revisions. *)
Climbs(messages) ==
  \A i, j \in DOMAIN messages :
    i <= j /\ IsSnapshot(messages[i]) /\ IsSnapshot(messages[j])
      => messages[i].revision <= messages[j].revision

(* No snapshot that reaches a browser is older than one it already has,    *)
(* across reconnections, lag and restarts, although two acceptances can be *)
(* published in the wrong order: a stale one would throw the client off    *)
(* its connection (StaleSnapshot).                                         *)
NoStaleDelivery ==
  \A c \in Clients : socket[c] # None =>
    LET messages == down[socket[c]]
    IN  /\ Climbs(messages)
        /\ \A i \in DOMAIN messages :
             IsSnapshot(messages[i]) => ~IsStale(client[c], messages[i].revision)

(* A prediction is based on the snapshot the client shows: what is pending *)
(* was given at the revision the client knows.                             *)
PredictionIsOnCurrentBase ==
  \A c \in Clients : client[c].pending # None =>
    latest[c] = [id |-> client[c].pending, expected |-> client[c].known]

Knows(c, r) == client[c].known # None /\ client[c].known >= r

(* As long as its connection lasts, a client that is ready gets to know    *)
(* every revision the match reaches, or a later one.                       *)
ReadyClientsConverge ==
  \A c \in Clients, n \in Connections, r \in Revisions :
    (socket[c] = n /\ client[c].status = "Ready" /\ task[n].phase # "closed" /\ head >= r)
      ~> (socket[c] # n \/ task[n].phase = "closed" \/ Knows(c, r))

(* "One unresolved prediction disables duplicate transport input ... until *)
(* confirmation, correction, rejection, or reconnect": one of these comes. *)
PredictionsResolve ==
  \A c \in Clients, id \in Ids : client[c].pending = id ~> client[c].pending # id

(* "Socket is authenticated, authorized, and initialized by a snapshot"    *)
(* (ConnectionStatus::Ready): once the snapshots of a connection have been *)
(* received, its client is ready to play, also after a reconnection.       *)
InitializedClientsAreReady ==
  \A c \in Clients :
    socket[c] # None /\ task[socket[c]].phase = "open" /\ down[socket[c]] = <<>>
      => client[c].status = "Ready"

(* "An authoritative command rejection abandons the affected local         *)
(* prediction": a prediction that is dropped while the connection lasts    *)
(* and no newer snapshot came is one the server refused.                   *)
OnlyRefusedPredictionsAreDropped ==
  [][ \A c \in Clients :
        /\ client[c].pending # None /\ client'[c].pending = None
        /\ socket'[c] = socket[c] /\ client'[c].known = client[c].known
        => client[c].pending \in refused ]_vars
=============================================================================
