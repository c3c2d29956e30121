------------------------- MODULE MatchDeliveryProofs -------------------------
(***************************************************************************)
(* What MatchDelivery promises of the order of snapshots, for any number   *)
(* of clients, connections, commands and faults.  A task only ever sends a *)
(* snapshot that is not older than the last one it sent, its first one is  *)
(* read after its browser gave up every earlier connection, and no browser *)
(* knows more than the task that serves it has sent.                       *)
(***************************************************************************)
EXTENDS MatchDelivery, TLAPS

Below(messages, r) ==
  \A i \in DOMAIN messages : IsSnapshot(messages[i]) => messages[i].revision <= r

Above(messages, r) ==
  \A i \in DOMAIN messages : IsSnapshot(messages[i]) => messages[i].revision >= r

Quiet == {"unused", "accepting", "subscribed", "upgraded"}

Talking == {"upgraded", "open", "replying"}

(* A task t with messages q under way to its browser and u from it, of a   *)
(* match at the revision top: it says nothing before the version is        *)
(* negotiated, hears nothing but commands after, and goes up.              *)
Link(t, q, u, top) ==
  /\ Climbs(q) /\ Below(q, top)
  /\ t.phase \in Quiet => q = <<>>
  /\ t.phase \in Talking => Below(q, t.delivered) /\ t.delivered <= top
  /\ t.phase = "upgraded" => t.initial = t.delivered /\ u \in {<<>>, <<Offer>>}
  /\ t.phase = "replying" => t.delivered < t.answer /\ t.answer <= top
  /\ t.phase \in {"unused", "accepting", "subscribed"} => u = <<>>
  /\ t.phase \in {"open", "replying"} => u \in Seq(Commands)

(* A browser b at the other end of it. *)
Held(b, t, q, u) ==
  /\ t.phase # "unused"
  /\ t.phase \in Quiet => ~b.negotiated
  /\ t.phase = "upgraded" /\ b.status = "Connecting" => u = <<>>
  /\ b.known # None => /\ Above(q, b.known)
                       /\ t.phase \in Talking => b.known <= t.delivered

Lost == {"Disconnected", "Backoff"}

Sockets ==
  /\ \A c, d \in Clients : socket[c] # None /\ socket[c] = socket[d] => c = d
  /\ \A c \in Clients : socket[c] = None <=> client[c].status \in Lost

Tasks ==
  \A n \in Connections : Link(task[n], down[n], up[n], head) /\ (Live(n) \/ down[n] = <<>>)

Browsers ==
  \A c \in Clients :
    /\ client[c].known # None => client[c].known <= head
    /\ socket[c] # None =>
         Held(client[c], task[socket[c]], down[socket[c]], up[socket[c]])

Channel == \A i \in DOMAIN published : published[i] <= head

IInv == TypeOK /\ Sockets /\ Tasks /\ Browsers /\ Channel /\ PredictionIsOnCurrentBase

-----------------------------------------------------------------------------
(* Messages that come after the ones under way, none older, keep the order. *)
LEMMA Followed ==
  ASSUME NEW q \in Seq(Message), NEW ms \in Seq(Message), NEW d \in Nat, NEW r \in Nat, d <= r,
         Climbs(q), Below(q, d), Climbs(ms), Above(ms, d), Below(ms, r)
  PROVE  /\ q \o ms \in Seq(Message)
         /\ Climbs(q \o ms) /\ Below(q \o ms, r)
         /\ \A k \in Nat : k <= d /\ Above(q, k) => Above(q \o ms, k)
<1> DEFINE all == q \o ms
<1>1. /\ all \in Seq(Message)
      /\ Len(all) = Len(q) + Len(ms)
      /\ DOMAIN all = 1 .. Len(all) /\ DOMAIN q = 1 .. Len(q) /\ DOMAIN ms = 1 .. Len(ms)
      /\ Len(q) \in Nat /\ Len(ms) \in Nat
  OBVIOUS
<1>2. \A i \in DOMAIN all : \/ i \in DOMAIN q /\ all[i] = q[i]
                            \/ i - Len(q) \in DOMAIN ms /\ all[i] = ms[i - Len(q)] /\ i > Len(q)
  BY <1>1
<1>3. \A m \in Message : IsSnapshot(m) => m.revision \in Nat
  BY DEF Message, IsSnapshot
<1>4. \A i \in DOMAIN q : q[i] \in Message
  BY <1>1
<1>5. \A i \in DOMAIN ms : ms[i] \in Message
  BY <1>1
<1> HIDE DEF all
<1>6. Below(all, r)
  BY <1>2, <1>3, <1>4, <1>5 DEF Below
<1>7. ASSUME NEW k \in Nat, k <= d, Above(q, k)
      PROVE  Above(all, k)
  BY <1>2, <1>3, <1>4, <1>5, <1>7 DEF Above
<1>8. Climbs(all)
  <2> SUFFICES ASSUME NEW i \in DOMAIN all, NEW j \in DOMAIN all, i <= j,
                      IsSnapshot(all[i]), IsSnapshot(all[j])
               PROVE  all[i].revision <= all[j].revision
    BY DEF Climbs
  <2>1. i \in Nat /\ j \in Nat
    BY <1>1
  <2>2. CASE i \in DOMAIN q /\ all[i] = q[i] /\ j \in DOMAIN q /\ all[j] = q[j]
    BY <2>2 DEF Climbs
  <2>3. CASE /\ i \in DOMAIN q /\ all[i] = q[i]
             /\ j - Len(q) \in DOMAIN ms /\ all[j] = ms[j - Len(q)]
    BY <1>3, <1>4, <1>5, <2>3 DEF Below, Above
  <2>4. CASE /\ i - Len(q) \in DOMAIN ms /\ all[i] = ms[i - Len(q)]
             /\ j - Len(q) \in DOMAIN ms /\ all[j] = ms[j - Len(q)]
    <3>1. i - Len(q) <= j - Len(q)
      BY <1>1, <2>1
    <3> QED
      BY <2>4, <3>1 DEF Climbs
  <2>5. i > Len(q) => ~(j \in DOMAIN q)
    BY <1>1, <2>1
  <2> QED
    BY <1>2, <2>2, <2>3, <2>4, <2>5
<1> QED
  BY <1>1, <1>6, <1>7, <1>8 DEF all

(* What a task says at once: one snapshot at most, after any text. *)
LEMMA Utterances ==
  ASSUME NEW r \in Nat, NEW word \in {"version", "rejected"}, NEW id \in Nat,
         NEW ms \in {<<Snapshot(r)>>, <<Text(word, id), Snapshot(r)>>, <<Text(word, id)>>}
  PROVE  ms \in Seq(Message) /\ Climbs(ms) /\ Above(ms, r) /\ Below(ms, r)
<1>1. Snapshot(r) \in Message /\ Text(word, id) \in Message
  BY DEF Snapshot, Text, Message
<1>2. Snapshot(r).revision = r /\ ~IsSnapshot(Text(word, id))
  BY DEF Snapshot, Text, IsSnapshot
<1>3. CASE ms = <<Snapshot(r)>>
  BY <1>1, <1>2, <1>3 DEF Climbs, Above, Below
<1>4. CASE ms = <<Text(word, id), Snapshot(r)>>
  BY <1>1, <1>2, <1>4 DEF Climbs, Above, Below
<1>5. CASE ms = <<Text(word, id)>>
  BY <1>1, <1>2, <1>5 DEF Climbs, Above, Below
<1> QED
  BY <1>3, <1>4, <1>5
(* What a task writes, at a revision it may go up to. *)
LEMMA Spoken ==
  ASSUME IInv, NEW n \in Connections, NEW d \in Nat, NEW r \in Nat, d <= r, Below(down[n], d),
         \A c \in Clients : socket[c] = n /\ client[c].known # None => client[c].known <= d,
         NEW ms \in Seq(Message), Climbs(ms), Above(ms, d), Below(ms, r)
  PROVE  \E q2 \in Seq(Message) :
           /\ Written(n, ms) = [down EXCEPT ![n] = q2]
           /\ Climbs(q2) /\ Below(q2, r) /\ (Live(n) \/ q2 = <<>>)
           /\ \A c \in Clients : socket[c] = n /\ client[c].known # None => Above(q2, client[c].known)
<1>1. down[n] \in Seq(Message) /\ Climbs(down[n]) /\ down = [down EXCEPT ![n] = down[n]]
  BY DEF IInv, TypeOK, Tasks, Link
<1>2. \A c \in Clients : client[c].known # None => client[c].known \in Nat
  BY DEF IInv, TypeOK, ClientStates
<1>3. CASE Live(n)
  <2> DEFINE q2 == down[n] \o ms
  <2>1. /\ q2 \in Seq(Message) /\ Climbs(q2) /\ Below(q2, r)
        /\ \A k \in Nat : k <= d /\ Above(down[n], k) => Above(q2, k)
    BY <1>1, Followed
  <2>2. \A c \in Clients : socket[c] = n /\ client[c].known # None => Above(down[n], client[c].known)
    BY NoneAssumption DEF IInv, Browsers, Held, Connections
  <2>3. Written(n, ms) = [down EXCEPT ![n] = q2]
    BY <1>1, <1>3 DEF Written
  <2> QED
    BY <1>2, <1>3, <2>1, <2>2, <2>3
<1>4. CASE ~Live(n)
  <2>1. down[n] = <<>>
    BY <1>4 DEF IInv, Tasks
  <2>2. Written(n, ms) = [down EXCEPT ![n] = down[n]]
    BY <1>1, <1>4 DEF Written
  <2>3. Below(down[n], r)
    BY <2>1 DEF Below
  <2>4. \A c \in Clients : socket[c] # n
    BY <1>4 DEF Live
  <2> QED
    BY <1>1, <2>1, <2>2, <2>3, <2>4
<1> QED
  BY <1>3, <1>4

(* The match going on does no harm to what is under way. *)
LEMMA LinkRises ==
  ASSUME NEW t \in TaskStates, NEW q \in Seq(Message), NEW u, NEW low \in Nat, NEW high \in Nat,
         low <= high, Link(t, q, u, low)
  PROVE  Link(t, q, u, high)
<1>1. Below(q, high)
  <2>1. \A i \in DOMAIN q : IsSnapshot(q[i]) => q[i].revision \in Nat
    BY DEF IsSnapshot, Message
  <2> QED
    BY <2>1 DEF Link, Below
<1> QED
  BY <1>1 DEF Link, TaskStates

(* A step of one task, and of the match. *)
TaskStep(n, t2, q2, u2) ==
  /\ t2 \in TaskStates /\ q2 \in Seq(Message) /\ u2 \in Seq({Offer} \cup Commands)
  /\ task' = [task EXCEPT ![n] = t2] /\ down' = [down EXCEPT ![n] = q2] /\ up' = [up EXCEPT ![n] = u2]
  /\ client' = client /\ socket' = socket /\ latest' = latest /\ sent' = sent
  /\ head' \in Nat /\ head <= head' /\ over' \in BOOLEAN /\ registry' \subseteq Connections
  /\ refused' \subseteq Nat /\ faults' \in Nat
  /\ published' \in Seq(Nat) /\ \A i \in DOMAIN published' : published'[i] <= head'
  /\ Link(t2, q2, u2, head') /\ (Live(n) \/ q2 = <<>>)
  /\ \A c \in Clients : socket[c] = n => Held(client[c], t2, q2, u2)

LEMMA OneTask ==
  ASSUME IInv, NEW n \in Connections, NEW t2, NEW q2, NEW u2, TaskStep(n, t2, q2, u2)
  PROVE  IInv'
<1> USE DEF TaskStep
<1>1. TypeOK'
  BY DEF IInv, TypeOK
<1>2. Sockets'
  BY DEF IInv, Sockets
<1>3. Tasks'
  <2> SUFFICES ASSUME NEW m \in Connections
               PROVE  Link(task'[m], down'[m], up'[m], head') /\ (Live(m)' \/ down'[m] = <<>>)
    BY DEF Tasks
  <2>1. Live(m)' <=> Live(m)
    BY DEF Live
  <2>2. CASE m = n
    BY <2>1, <2>2 DEF IInv, TypeOK
  <2>3. CASE m # n
    <3>1. /\ task'[m] = task[m] /\ down'[m] = down[m] /\ up'[m] = up[m]
          /\ task[m] \in TaskStates /\ down[m] \in Seq(Message) /\ head \in Nat
      BY <2>3 DEF IInv, TypeOK
    <3>2. Link(task[m], down[m], up[m], head) /\ (Live(m) \/ down[m] = <<>>)
      BY DEF IInv, Tasks
    <3>3. Link(task[m], down[m], up[m], head')
      BY <3>1, <3>2, LinkRises
    <3> QED
      BY <2>1, <3>1, <3>2, <3>3
  <2> QED
    BY <2>2, <2>3
<1>4. Browsers'
  <2> SUFFICES ASSUME NEW c \in Clients
               PROVE  /\ client[c].known # None => client[c].known <= head'
                      /\ socket[c] # None =>
                           Held(client[c], task'[socket[c]], down'[socket[c]], up'[socket[c]])
    BY DEF Browsers
  <2>1. client[c].known # None => client[c].known <= head'
    BY DEF IInv, Browsers, TypeOK, ClientStates
  <2>2. ASSUME socket[c] # None
        PROVE  Held(client[c], task'[socket[c]], down'[socket[c]], up'[socket[c]])
    <3>1. socket[c] \in Connections
      BY <2>2 DEF IInv, TypeOK
    <3>2. CASE socket[c] = n
      BY <3>2 DEF IInv, TypeOK
    <3>3. CASE socket[c] # n
      <4>1. Held(client[c], task[socket[c]], down[socket[c]], up[socket[c]])
        BY <2>2 DEF IInv, Browsers
      <4>2. /\ task'[socket[c]] = task[socket[c]] /\ down'[socket[c]] = down[socket[c]]
            /\ up'[socket[c]] = up[socket[c]]
        BY <3>1, <3>3 DEF IInv, TypeOK
      <4> QED
        BY <4>1, <4>2
    <3> QED
      BY <3>2, <3>3
  <2> QED
    BY <2>1, <2>2
<1>5. Channel' /\ PredictionIsOnCurrentBase'
  BY DEF IInv, Channel, PredictionIsOnCurrentBase
<1> QED
  BY <1>1, <1>2, <1>3, <1>4, <1>5 DEF IInv

(* A step of one browser, with the task it is or gets connected to. *)
BrowserStep(c, b2, s2, n, t2, q2, u2) ==
  /\ b2 \in ClientStates /\ s2 \in {n, None}
  /\ t2 \in TaskStates /\ q2 \in Seq(Message) /\ u2 \in Seq({Offer} \cup Commands)
  /\ socket[c] = n \/ (socket[c] = None /\ ~Live(n))
  /\ client' = [client EXCEPT ![c] = b2] /\ socket' = [socket EXCEPT ![c] = s2]
  /\ task' = [task EXCEPT ![n] = t2] /\ down' = [down EXCEPT ![n] = q2] /\ up' = [up EXCEPT ![n] = u2]
  /\ UNCHANGED <<authority, published, registry, refused, faults>>
  /\ sent' \in Nat /\ latest' \in [Clients -> [id : Nat, expected : Nat]]
  /\ \A d \in Clients \ {c} : latest'[d] = latest[d]
  /\ Link(t2, q2, u2, head) /\ (s2 = None => q2 = <<>>)
  /\ s2 = None <=> b2.status \in Lost
  /\ s2 = n => Held(b2, t2, q2, u2)
  /\ b2.known # None => b2.known <= head
  /\ b2.pending # None => latest'[c] = [id |-> b2.pending, expected |-> b2.known]

LEMMA OneBrowser ==
  ASSUME IInv, NEW c \in Clients, NEW n \in Connections, NEW b2, NEW s2, NEW t2, NEW q2, NEW u2,
         BrowserStep(c, b2, s2, n, t2, q2, u2)
  PROVE  IInv'
<1> USE DEF BrowserStep
<1>0. None \notin Connections
  BY NoneAssumption DEF Connections
<1>1. TypeOK'
  BY DEF IInv, TypeOK, authority
<1>2. \A d \in Clients \ {c} : socket'[d] = socket[d] /\ client'[d] = client[d] /\ socket[d] # n
  BY <1>0 DEF IInv, TypeOK, Sockets, Live
<1>3. socket'[c] = s2 /\ client'[c] = b2
  BY DEF IInv, TypeOK
<1>4. Sockets'
  <2>1. ASSUME NEW d \in Clients, NEW e \in Clients, socket'[d] # None, socket'[d] = socket'[e]
        PROVE  d = e
    BY <1>2, <1>3, <2>1 DEF IInv, Sockets
  <2>2. \A d \in Clients : socket'[d] = None <=> client'[d].status \in Lost
    BY <1>2, <1>3 DEF IInv, Sockets
  <2> QED
    BY <2>1, <2>2 DEF Sockets
<1>5. \A m \in Connections \ {n} :
        /\ task'[m] = task[m] /\ down'[m] = down[m] /\ up'[m] = up[m]
        /\ Live(m)' <=> Live(m)
  <2>1. \A m \in Connections \ {n} : task'[m] = task[m] /\ down'[m] = down[m] /\ up'[m] = up[m]
    BY DEF IInv, TypeOK
  <2>2. \A m \in Connections \ {n} : socket[c] # m /\ socket'[c] # m
    BY <1>0, <1>3
  <2>3. \A m \in Connections \ {n} : Live(m)' <=> Live(m)
    BY <1>2, <2>2 DEF Live
  <2> QED
    BY <2>1, <2>3
<1>6. task'[n] = t2 /\ down'[n] = q2 /\ up'[n] = u2 /\ (s2 = n => Live(n)')
  BY <1>3 DEF IInv, TypeOK, Live
<1>7. Tasks'
  BY <1>5, <1>6 DEF IInv, Tasks, authority
<1>8. Browsers'
  <2> SUFFICES ASSUME NEW d \in Clients
               PROVE  /\ client'[d].known # None => client'[d].known <= head
                      /\ socket'[d] # None =>
                           Held(client'[d], task'[socket'[d]], down'[socket'[d]], up'[socket'[d]])
    BY DEF Browsers, authority
  <2>1. CASE d = c
    BY <1>3, <1>6, <2>1
  <2>2. CASE d # c
    <3>1. /\ client'[d] = client[d] /\ socket'[d] = socket[d]
          /\ socket[d] # None => socket[d] \in Connections \ {n}
      BY <1>2, <2>2 DEF IInv, TypeOK
    <3>2. /\ client[d].known # None => client[d].known <= head
          /\ socket[d] # None => Held(client[d], task[socket[d]], down[socket[d]], up[socket[d]])
      BY DEF IInv, Browsers
    <3> QED
      BY <1>5, <3>1, <3>2
  <2> QED
    BY <2>1, <2>2
<1>9. Channel'
  BY DEF IInv, Channel, authority
<1>10. PredictionIsOnCurrentBase'
  BY <1>2, <1>3 DEF IInv, PredictionIsOnCurrentBase
<1> QED
  BY <1>1, <1>4, <1>7, <1>8, <1>9, <1>10 DEF IInv
(* What a message can do to a browser: it goes up to the snapshot, or it   *)
(* gives the connection up, and a prediction that stays keeps its base.    *)
LEMMA ReceivedBrowser ==
  ASSUME NEW b \in ClientStates, b.status \notin Lost, NEW m \in Message, NEW b2, b2 = Received(b, m)
  PROVE  /\ b2 \in ClientStates
         /\ b2.status # "Disconnected" /\ b2.status # "Connecting"
         /\ b2.known # b.known => IsSnapshot(m) /\ b2.known = m.revision
         /\ b2.pending # None => b2.pending = b.pending /\ b2.known = b.known
<1>1. Disconnected(b) \in ClientStates
  BY DEF Disconnected, ClientStates, Statuses
<1>2. CASE m.kind = "text"
  <2>1. b2 = ReceiveText(b, m.word)
    BY <1>2 DEF Received
  <2>2. CASE b.status # "Ready"
    <3>1. b.pending = None
      BY <2>2 DEF ClientStates
    <3>2. b2 = Negotiated(b, m.word)
      BY <2>1, <2>2 DEF ReceiveText
    <3>3. CASE b.status = "Negotiating" /\ m.word = "version"
      <4>1. b2 = [b EXCEPT !.negotiated = TRUE]
        BY <3>2, <3>3 DEF Negotiated
      <4> QED
        BY <3>1, <3>3, <4>1 DEF ClientStates
    <3>4. CASE ~(b.status = "Negotiating" /\ m.word = "version")
      <4>1. b2 = Disconnected(b)
        BY <3>2, <3>4 DEF Negotiated
      <4> QED
        BY <1>1, <4>1 DEF Disconnected, ClientStates
    <3> QED
      BY <3>3, <3>4
  <2>3. CASE b.status = "Ready"
    <3>1. b2 = CommandRejected(b) \/ b2 = b
      BY <2>1, <2>3 DEF ReceiveText
    <3>2. CASE b2 = CommandRejected(b)
      <4>1. b2 = [b EXCEPT !.pending = None, !.rejected = TRUE]
        BY <3>2 DEF CommandRejected
      <4> QED
        BY <2>3, <4>1 DEF ClientStates
    <3>3. CASE b2 = b
      BY <2>3, <3>3
    <3> QED
      BY <3>1, <3>2, <3>3
  <2> QED
    BY <2>2, <2>3
<1>3. CASE m.kind # "text"
  <2>1. IsSnapshot(m) /\ m.revision \in Nat /\ b2 = ReceiveSnapshot(b, m.revision)
    BY <1>3 DEF Received, Message, IsSnapshot
  <2>2. CASE ~b.negotiated \/ b.status \notin {"Negotiating", "Ready"}
    <3>1. b2 = Disconnected(b)
      BY <2>1, <2>2 DEF ReceiveSnapshot
    <3> QED
      BY <1>1, <3>1 DEF Disconnected, ClientStates
  <2>3. CASE b.negotiated /\ b.status \in {"Negotiating", "Ready"}
    <3>1. b2 \in {b, Disconnected(b)} \/ b2 = FromSnapshot(b, m.revision) \/ b2 = Advanced(b, m.revision)
          \/ (b.known # None /\ b2 = [b EXCEPT !.status = "Ready"])
      BY <2>1, <2>3 DEF ReceiveSnapshot
    <3>2. CASE b2 = b
      BY <2>3, <3>2
    <3>3. CASE b2 = Disconnected(b)
      BY <1>1, <3>3 DEF Disconnected, ClientStates
    <3>4. CASE b2 = FromSnapshot(b, m.revision) \/ b2 = Advanced(b, m.revision)
      <4>1. b2 = [b EXCEPT !.known = m.revision, !.pending = None, !.status = "Ready"]
        BY <3>4 DEF FromSnapshot, Advanced, ClientStates
      <4> QED
        BY <2>1, <2>3, <4>1, NoneAssumption DEF ClientStates, Statuses
    <3>5. CASE b.known # None /\ b2 = [b EXCEPT !.status = "Ready"]
      BY <2>3, <3>5 DEF ClientStates, Statuses
    <3> QED
      BY <3>1, <3>2, <3>3, <3>4, <3>5
  <2> QED
    BY <2>2, <2>3
<1> QED
  BY <1>2, <1>3

(* What is left of the messages after the first. *)
LEMMA Taken ==
  ASSUME NEW q \in Seq(Message), q # <<>>, NEW top \in Nat, Climbs(q), Below(q, top)
  PROVE  /\ Head(q) \in Message /\ Tail(q) \in Seq(Message)
         /\ Climbs(Tail(q)) /\ Below(Tail(q), top)
         /\ \A k \in Nat : Above(q, k) => Above(Tail(q), k)
         /\ \A d \in Nat : Below(q, d) => Below(Tail(q), d)
         /\ IsSnapshot(Head(q)) => /\ Above(Tail(q), Head(q).revision)
                                   /\ \A d : Below(q, d) => Head(q).revision <= d
<1> DEFINE rest == Tail(q)
<1>1. /\ Head(q) = q[1] /\ 1 \in DOMAIN q /\ Head(q) \in Message
      /\ rest \in Seq(Message)
      /\ \A i \in DOMAIN rest : i + 1 \in DOMAIN q /\ rest[i] = q[i + 1] /\ 1 <= i + 1
  OBVIOUS
<1>2. \A i, j \in DOMAIN rest : i \in Nat /\ j \in Nat /\ (i <= j => i + 1 <= j + 1)
  BY <1>1
<1> HIDE DEF rest
<1>3. Climbs(rest)
  BY <1>1, <1>2 DEF Climbs
<1>4. \A d : Below(q, d) => Below(rest, d) /\ (IsSnapshot(Head(q)) => Head(q).revision <= d)
  BY <1>1 DEF Below
<1>5. \A k : Above(q, k) => Above(rest, k)
  BY <1>1 DEF Above
<1>6. IsSnapshot(Head(q)) => Above(rest, Head(q).revision)
  <2> SUFFICES ASSUME IsSnapshot(q[1]), NEW i \in DOMAIN rest, IsSnapshot(rest[i])
               PROVE  rest[i].revision >= q[1].revision
    BY <1>1 DEF Above
  <2>1. q[1].revision <= q[i + 1].revision
    BY <1>1 DEF Climbs
  <2>2. q[1].revision \in Nat /\ q[i + 1].revision \in Nat
    BY <1>1 DEF Message, IsSnapshot
  <2> QED
    BY <1>1, <2>1, <2>2
<1> QED
  BY <1>1, <1>3, <1>4, <1>5, <1>6 DEF rest
-----------------------------------------------------------------------------
LEMMA InitInv == Init => IInv
<1> SUFFICES ASSUME Init
             PROVE  IInv
  OBVIOUS
<1>1. TypeOK
  <2>1. NewClient \in ClientStates
    BY DEF NewClient, ClientStates, Statuses
  <2>2. UnusedTask \in TaskStates
    BY DEF UnusedTask, TaskStates
  <2>3. <<>> \in Seq(Message) /\ <<>> \in Seq({Offer} \cup Commands) /\ <<>> \in Seq(Nat)
    OBVIOUS
  <2> QED
    BY <2>1, <2>2, <2>3 DEF Init, TypeOK
<1>2. Sockets
  BY DEF Init, Sockets, NewClient, Lost
<1>3. Tasks
  BY DEF Init, Tasks, Link, UnusedTask, Climbs, Below, Quiet, Talking
<1>4. Browsers
  BY DEF Init, Browsers, NewClient
<1>5. Channel /\ PredictionIsOnCurrentBase
  BY DEF Init, Channel, PredictionIsOnCurrentBase, NewClient
<1> QED
  BY <1>1, <1>2, <1>3, <1>4, <1>5 DEF IInv

(* What the invariant says of one connected browser. *)
LEMMA Connection ==
  ASSUME IInv, NEW c \in Clients, socket[c] # None
  PROVE  /\ socket[c] \in Connections
         /\ client[c] \in ClientStates /\ client[c].status \notin Lost
         /\ task[socket[c]] \in TaskStates /\ down[socket[c]] \in Seq(Message)
         /\ up[socket[c]] \in Seq({Offer} \cup Commands)
         /\ Link(task[socket[c]], down[socket[c]], up[socket[c]], head)
         /\ Held(client[c], task[socket[c]], down[socket[c]], up[socket[c]])
         /\ client[c].known # None => client[c].known <= head
         /\ client[c].pending # None =>
              latest[c] = [id |-> client[c].pending, expected |-> client[c].known]
         /\ task = [task EXCEPT ![socket[c]] = task[socket[c]]]
         /\ down = [down EXCEPT ![socket[c]] = down[socket[c]]]
         /\ up = [up EXCEPT ![socket[c]] = up[socket[c]]]
         /\ socket = [socket EXCEPT ![c] = socket[c]]
         /\ head \in Nat /\ sent \in Nat /\ latest \in [Clients -> [id : Nat, expected : Nat]]
<1>1. socket[c] \in Connections
  BY DEF IInv, TypeOK
<1>2. TypeOK /\ Sockets /\ Tasks /\ Browsers /\ PredictionIsOnCurrentBase
  BY DEF IInv
<1> QED
  BY <1>1, <1>2 DEF TypeOK, Sockets, Tasks, Browsers, PredictionIsOnCurrentBase

LEMMA ConnectInv ==
  ASSUME IInv, NEW c \in Clients, Connect(c)
  PROVE  IInv'
<1>1. PICK n \in Connections :
        /\ task[n].phase = "unused"
        /\ socket' = [socket EXCEPT ![c] = n]
        /\ task' = [task EXCEPT ![n].phase = "accepting"]
  BY DEF Connect
<1>b. PICK b2 : b2 = Connecting(client[c])
  OBVIOUS
<1>t. PICK t2 : t2 = [task[n] EXCEPT !.phase = "accepting"]
  OBVIOUS
<1>2. /\ socket[c] = None /\ client' = [client EXCEPT ![c] = b2]
      /\ UNCHANGED <<registry, authority, published, up, down, players, refused, faults>>
  BY <1>b DEF Connect
<1>3. /\ client[c] \in ClientStates /\ client[c].status \in Lost
      /\ client[c].known # None => client[c].known <= head
  BY <1>2 DEF IInv, TypeOK, Sockets, Browsers
<1>4. client[c].pending = None
  BY <1>3 DEF ClientStates, Lost
<1>5. /\ b2 \in ClientStates /\ b2.status = "Connecting" /\ ~b2.negotiated
      /\ b2.known = client[c].known /\ b2.pending = None
  BY <1>b, <1>3, <1>4 DEF Connecting, ClientStates, Statuses
<1>6. /\ task[n] \in TaskStates /\ down[n] \in Seq(Message) /\ up[n] \in Seq({Offer} \cup Commands)
      /\ Link(task[n], down[n], up[n], head)
  BY DEF IInv, TypeOK, Tasks
<1>7. t2 \in TaskStates /\ t2.phase = "accepting"
  BY <1>t, <1>6 DEF TaskStates
<1>8. down[n] = <<>> /\ up[n] = <<>> /\ Climbs(<<>>) /\ Below(<<>>, head) /\ \A k : Above(<<>>, k)
  BY <1>1, <1>6 DEF Link, Quiet, Climbs, Below, Above
<1>9. Link(t2, <<>>, <<>>, head)
  BY <1>7, <1>8 DEF Link, Talking
<1>10. Held(b2, t2, <<>>, <<>>)
  BY <1>5, <1>7, <1>8 DEF Held, Talking
<1>11. ~Live(n)
  <2> SUFFICES ASSUME NEW d \in Clients, socket[d] = n
               PROVE  FALSE
    BY DEF Live
  <2>1. n # None
    BY NoneAssumption DEF Connections
  <2> QED
    BY <1>1, <2>1, Connection DEF Held
<1>12. /\ task' = [task EXCEPT ![n] = t2] /\ down' = [down EXCEPT ![n] = <<>>]
       /\ up' = [up EXCEPT ![n] = <<>>]
  BY <1>t, <1>1, <1>2, <1>8 DEF IInv, TypeOK
<1>13. /\ sent' \in Nat /\ latest' \in [Clients -> [id : Nat, expected : Nat]] /\ latest' = latest
  BY <1>2 DEF players, IInv, TypeOK
<1>14. n # None /\ b2.status \notin Lost
  BY <1>5, NoneAssumption DEF Connections, Lost
<1>15. UNCHANGED <<authority, published, registry, refused, faults>>
  BY <1>2
<1>16. BrowserStep(c, b2, n, n, t2, <<>>, <<>>)
  BY <1>1, <1>2, <1>3, <1>5, <1>6, <1>7, <1>8, <1>9, <1>10, <1>11, <1>12, <1>13, <1>14, <1>15
  DEF BrowserStep
<1> QED
  BY <1>16, OneBrowser

LEMMA OpensInv ==
  ASSUME IInv, NEW c \in Clients, Opens(c)
  PROVE  IInv'
<1> DEFINE n == socket[c]
<1>b. PICK b2 : b2 = Opened(client[c])
  OBVIOUS
<1>u. PICK u2 : u2 = Append(up[n], Offer)
  OBVIOUS
<1>1. /\ n # None /\ client[c].status = "Connecting" /\ task[n].phase = "upgraded"
      /\ client' = [client EXCEPT ![c] = b2] /\ up' = [up EXCEPT ![n] = u2]
      /\ UNCHANGED <<registry, authority, published, task, down, socket, players, refused, faults>>
  BY <1>b, <1>u DEF Opens
<1>2. PICK k \in Connections : k = n
  BY <1>1, Connection
<1>3. /\ client[c] \in ClientStates /\ task[k] \in TaskStates /\ down[k] \in Seq(Message)
      /\ Link(task[k], down[k], up[k], head) /\ Held(client[c], task[k], down[k], up[k])
      /\ client[c].known # None => client[c].known <= head
      /\ sent \in Nat /\ latest \in [Clients -> [id : Nat, expected : Nat]]
  BY <1>1, <1>2, Connection
<1>4. /\ task' = [task EXCEPT ![k] = task[k]] /\ down' = [down EXCEPT ![k] = down[k]]
      /\ socket' = [socket EXCEPT ![c] = k] /\ up' = [up EXCEPT ![k] = u2]
      /\ latest' = latest /\ sent' = sent /\ socket[c] = k /\ k # None /\ task[k].phase = "upgraded"
      /\ UNCHANGED <<authority, published, registry, refused, faults>>
  BY <1>1, <1>2, Connection DEF players
<1>5. up[k] = <<>> /\ u2 = <<Offer>>
  <2>1. up[k] = <<>>
    BY <1>1, <1>2, <1>3, <1>4 DEF Held
  <2> QED
    BY <1>u, <1>2, <2>1
<1>6. /\ b2 \in ClientStates /\ b2.status = "Negotiating" /\ b2.known = client[c].known
      /\ b2.pending = None /\ b2.negotiated = client[c].negotiated
  BY <1>b, <1>1, <1>3 DEF Opened, ClientStates, Statuses
<1>7. u2 \in Seq({Offer} \cup Commands) /\ Link(task[k], down[k], u2, head)
  BY <1>3, <1>4, <1>5 DEF Link
<1>8. Held(b2, task[k], down[k], u2) /\ b2.status \notin Lost
  BY <1>3, <1>6 DEF Held, Lost
<1>9. PICK t2, q2 : t2 = task[k] /\ q2 = down[k]
  OBVIOUS
<1>10. BrowserStep(c, b2, k, k, t2, q2, u2)
  BY <1>1, <1>3, <1>4, <1>6, <1>7, <1>8, <1>9 DEF BrowserStep
<1> QED
  BY <1>10, OneBrowser

LEMMA GiveInv ==
  ASSUME IInv, NEW c \in Clients, Give(c)
  PROVE  IInv'
<1> DEFINE n == socket[c]
           m == Command(sent + 1, client[c].known)
<1>b. PICK b2 : b2 = Predict(client[c], sent + 1)
  OBVIOUS
<1>u. PICK u2 : u2 = Append(up[n], m)
  OBVIOUS
<1>1. /\ client[c].status = "Ready"
      /\ client' = [client EXCEPT ![c] = b2] /\ up' = [up EXCEPT ![n] = u2]
      /\ latest' = [latest EXCEPT ![c] = [id |-> sent + 1, expected |-> client[c].known]]
      /\ sent' = sent + 1
      /\ UNCHANGED <<registry, authority, published, task, down, socket, refused, faults>>
  BY <1>b, <1>u DEF Give
<1>2. PICK k \in Connections : k = n
  BY <1>1, Connection DEF IInv, Sockets, Lost
<1>0. n # None
  BY <1>2, NoneAssumption DEF Connections
<1>3. /\ client[c] \in ClientStates /\ task[k] \in TaskStates /\ down[k] \in Seq(Message)
      /\ up[k] \in Seq({Offer} \cup Commands)
      /\ Link(task[k], down[k], up[k], head) /\ Held(client[c], task[k], down[k], up[k])
      /\ client[c].known # None => client[c].known <= head
      /\ sent \in Nat /\ latest \in [Clients -> [id : Nat, expected : Nat]]
  BY <1>0, <1>2, Connection
<1>4. /\ task' = [task EXCEPT ![k] = task[k]] /\ down' = [down EXCEPT ![k] = down[k]]
      /\ socket' = [socket EXCEPT ![c] = k] /\ up' = [up EXCEPT ![k] = u2]
      /\ socket[c] = k /\ k # None
      /\ UNCHANGED <<authority, published, registry, refused, faults>>
  BY <1>0, <1>1, <1>2, Connection
<1>5. client[c].negotiated /\ client[c].known \in Nat
  BY <1>1, <1>3 DEF ClientStates
<1>6. /\ b2 \in ClientStates /\ b2.status = "Ready" /\ b2.known = client[c].known
      /\ b2.pending = sent + 1 /\ b2.negotiated
  <2>1. b2 = [client[c] EXCEPT !.pending = sent + 1]
    BY <1>b DEF Predict
  <2>2. sent + 1 \in Nat /\ sent + 1 # None
    BY <1>3, NoneAssumption
  <2> QED
    BY <1>1, <1>3, <1>5, <2>1, <2>2 DEF ClientStates
<1>7. m \in Commands
  BY <1>3, <1>5 DEF Command, Commands
<1>8. task[k].phase \notin Quiet
  BY <1>3, <1>5 DEF Held
<1>9. u2 \in Seq({Offer} \cup Commands) /\ (up[k] \in Seq(Commands) => u2 \in Seq(Commands))
  BY <1>u, <1>2, <1>3, <1>7
<1>10. Link(task[k], down[k], u2, head)
  BY <1>3, <1>8, <1>9 DEF Link, Quiet
<1>11. Held(b2, task[k], down[k], u2) /\ b2.status \notin Lost
  BY <1>3, <1>6, <1>8 DEF Held, Lost, Quiet
<1>12. /\ latest' \in [Clients -> [id : Nat, expected : Nat]] /\ sent' \in Nat
       /\ latest'[c] = [id |-> b2.pending, expected |-> b2.known]
       /\ \A d \in Clients \ {c} : latest'[d] = latest[d]
  BY <1>1, <1>3, <1>5, <1>6
<1>13. PICK t2, q2 : t2 = task[k] /\ q2 = down[k]
  OBVIOUS
<1>14. BrowserStep(c, b2, k, k, t2, q2, u2)
  BY <1>1, <1>3, <1>4, <1>6, <1>9, <1>10, <1>11, <1>12, <1>13 DEF BrowserStep
<1> QED
  BY <1>14, OneBrowser
LEMMA ReceiveInv ==
  ASSUME IInv, NEW c \in Clients, Receive(c)
  PROVE  IInv'
<1> DEFINE n == socket[c]
<1>0. n # None /\ down[n] # <<>>
  BY DEF Receive
<1>1. PICK k \in Connections : k = n
  BY <1>0, Connection
<1>m. PICK m : m = Head(down[n])
  OBVIOUS
<1>b. PICK b2 : b2 = Received(client[c], m)
  OBVIOUS
<1>s. PICK s2 : s2 = IF b2.status = "Backoff" THEN None ELSE k
  OBVIOUS
<1>q. PICK q2 : q2 = IF b2.status = "Backoff" THEN <<>> ELSE Tail(down[k])
  OBVIOUS
<1>t. PICK t2, u2 : t2 = task[k] /\ u2 = up[k]
  OBVIOUS
<1>2. /\ client' = [client EXCEPT ![c] = b2] /\ socket' = [socket EXCEPT ![c] = s2]
      /\ down' = [down EXCEPT ![k] = q2]
      /\ UNCHANGED <<registry, authority, published, task, up, players, refused, faults>>
  BY <1>1, <1>m, <1>b, <1>s, <1>q DEF Receive
<1>3. /\ client[c] \in ClientStates /\ client[c].status \notin Lost
      /\ task[k] \in TaskStates /\ down[k] \in Seq(Message) /\ up[k] \in Seq({Offer} \cup Commands)
      /\ Link(task[k], down[k], up[k], head) /\ Held(client[c], task[k], down[k], up[k])
      /\ client[c].known # None => client[c].known <= head
      /\ client[c].pending # None =>
            latest[c] = [id |-> client[c].pending, expected |-> client[c].known]
      /\ sent \in Nat /\ latest \in [Clients -> [id : Nat, expected : Nat]] /\ head \in Nat
  BY <1>0, <1>1, Connection
<1>4. /\ task' = [task EXCEPT ![k] = t2] /\ up' = [up EXCEPT ![k] = u2]
      /\ latest' = latest /\ sent' = sent /\ socket[c] = k /\ k # None
      /\ UNCHANGED <<authority, published, registry, refused, faults>>
  BY <1>0, <1>1, <1>2, <1>t, Connection DEF players
<1>5. /\ m \in Message /\ Tail(down[k]) \in Seq(Message)
      /\ Climbs(Tail(down[k])) /\ Below(Tail(down[k]), head)
      /\ \A r \in Nat : Above(down[k], r) => Above(Tail(down[k]), r)
      /\ \A d \in Nat : Below(down[k], d) => Below(Tail(down[k]), d)
      /\ IsSnapshot(m) => /\ Above(Tail(down[k]), m.revision)
                          /\ \A d : Below(down[k], d) => m.revision <= d
  BY <1>0, <1>1, <1>3, <1>m, Taken DEF Link
<1>6. /\ b2 \in ClientStates
      /\ b2.status # "Disconnected" /\ b2.status # "Connecting"
      /\ b2.known # client[c].known => IsSnapshot(m) /\ b2.known = m.revision
      /\ b2.pending # None => b2.pending = client[c].pending /\ b2.known = client[c].known
  BY <1>3, <1>5, <1>b, ReceivedBrowser
<1>7. task[k].phase \notin Quiet
  BY <1>0, <1>1, <1>3 DEF Link
<1>8. b2.status = "Backoff" <=> s2 = None
  BY <1>4, <1>s
<1>9. q2 \in Seq(Message) /\ (s2 = None => q2 = <<>>) /\ s2 \in {k, None}
  BY <1>5, <1>8, <1>q, <1>s
<1>10. Link(t2, q2, u2, head)
  <2>1. CASE b2.status = "Backoff"
    BY <1>3, <1>q, <1>t, <2>1 DEF Link, Climbs, Below
  <2>2. CASE b2.status # "Backoff"
    <3>1. q2 = Tail(down[k])
      BY <1>q, <2>2
    <3>2. t2.phase \in Talking => Below(q2, t2.delivered)
      BY <1>3, <1>5, <1>t, <3>1 DEF Link, TaskStates
    <3> QED
      BY <1>3, <1>5, <1>7, <1>t, <3>1, <3>2 DEF Link
  <2> QED
    BY <2>1, <2>2
<1>11. b2.known # None => b2.known <= head
  BY <1>3, <1>5, <1>6 DEF Link
<1>12. s2 = k => Held(b2, t2, q2, u2)
  <2> SUFFICES ASSUME s2 = k
               PROVE  Held(b2, t2, q2, u2)
    OBVIOUS
  <2>1. q2 = Tail(down[k]) /\ t2.phase \notin Quiet
    BY <1>4, <1>7, <1>8, <1>q, <1>t
  <2>2. ASSUME b2.known # None
        PROVE  Above(q2, b2.known) /\ (t2.phase \in Talking => b2.known <= t2.delivered)
    <3>1. CASE b2.known = client[c].known
      <4>1. b2.known \in Nat
        BY <1>6, <2>2 DEF ClientStates
      <4> QED
        BY <1>3, <1>5, <1>t, <2>1, <2>2, <3>1, <4>1 DEF Held
    <3>2. CASE b2.known # client[c].known
      BY <1>3, <1>5, <1>6, <1>t, <2>1, <3>2 DEF Link
    <3> QED
      BY <3>1, <3>2
  <2> QED
    BY <1>3, <1>6, <1>t, <2>1, <2>2 DEF Held, Quiet
<1>13. b2.pending # None => latest'[c] = [id |-> b2.pending, expected |-> b2.known]
  BY <1>3, <1>4, <1>6
<1>14. BrowserStep(c, b2, s2, k, t2, q2, u2)
  BY <1>2, <1>3, <1>4, <1>6, <1>8, <1>9, <1>10, <1>11, <1>12, <1>13, <1>t DEF BrowserStep, Lost
<1> QED
  BY <1>14, OneBrowser

LEMMA ShowRejectionInv ==
  ASSUME IInv, NEW c \in Clients, ShowRejection(c)
  PROVE  IInv'
<1> DEFINE n == socket[c]
<1>b. PICK b2 : b2 = [client[c] EXCEPT !.rejected = FALSE]
  OBVIOUS
<1>1. /\ client[c].status = "Ready" /\ client' = [client EXCEPT ![c] = b2]
      /\ UNCHANGED <<registry, authority, published, task, up, down, socket, players, refused, faults>>
  BY <1>b DEF ShowRejection
<1>2. PICK k \in Connections : k = n
  BY <1>1, Connection DEF IInv, Sockets, Lost
<1>0. n # None
  BY <1>2, NoneAssumption DEF Connections
<1>3. PICK t2, q2, u2 : t2 = task[k] /\ q2 = down[k] /\ u2 = up[k]
  OBVIOUS
<1>4. /\ client[c] \in ClientStates /\ client[c].status \notin Lost
      /\ t2 \in TaskStates /\ q2 \in Seq(Message) /\ u2 \in Seq({Offer} \cup Commands)
      /\ Link(t2, q2, u2, head) /\ Held(client[c], t2, q2, u2)
      /\ client[c].known # None => client[c].known <= head
      /\ client[c].pending # None =>
            latest[c] = [id |-> client[c].pending, expected |-> client[c].known]
      /\ sent \in Nat /\ latest \in [Clients -> [id : Nat, expected : Nat]] /\ head \in Nat
      /\ socket[c] = k /\ k # None /\ socket' = [socket EXCEPT ![c] = k]
      /\ task' = [task EXCEPT ![k] = t2] /\ down' = [down EXCEPT ![k] = q2] /\ up' = [up EXCEPT ![k] = u2]
      /\ latest' = latest /\ sent' = sent
  BY <1>0, <1>1, <1>2, <1>3, Connection DEF players
<1>5. /\ b2 \in ClientStates /\ b2.status = client[c].status /\ b2.known = client[c].known
      /\ b2.pending = client[c].pending /\ b2.negotiated = client[c].negotiated
  BY <1>b, <1>4 DEF ClientStates
<1>6. Held(b2, t2, q2, u2)
  BY <1>4, <1>5 DEF Held
<1>7. BrowserStep(c, b2, k, k, t2, q2, u2)
  BY <1>1, <1>4, <1>5, <1>6 DEF BrowserStep
<1> QED
  BY <1>7, OneBrowser

(* A browser gives its connection up, and with it what is under way to it. *)
LEMMA LetGo ==
  ASSUME IInv, NEW c \in Clients, socket[c] # None,
         client' = [client EXCEPT ![c] = Disconnected(@)],
         socket' = [socket EXCEPT ![c] = None],
         down' = [down EXCEPT ![socket[c]] = <<>>],
         up' \in {up, [up EXCEPT ![socket[c]] = <<>>]},
         UNCHANGED <<registry, authority, published, task, players, refused, faults>>
  PROVE  IInv'
<1>b. PICK b2 : b2 = Disconnected(client[c])
  OBVIOUS
<1>1. PICK k \in Connections : k = socket[c]
  BY Connection
<1>2. PICK t2, q2 : t2 = task[k] /\ q2 = <<>>
  OBVIOUS
<1>3. /\ client[c] \in ClientStates
      /\ t2 \in TaskStates /\ down[k] \in Seq(Message) /\ up[k] \in Seq({Offer} \cup Commands)
      /\ Link(t2, down[k], up[k], head)
      /\ client[c].known # None => client[c].known <= head
      /\ sent \in Nat /\ latest \in [Clients -> [id : Nat, expected : Nat]] /\ head \in Nat
      /\ k # None /\ task' = [task EXCEPT ![k] = t2] /\ up = [up EXCEPT ![k] = up[k]]
      /\ latest' = latest /\ sent' = sent
  BY <1>1, <1>2, Connection DEF players
<1>4. PICK u2 \in {<<>>, up[k]} : up' = [up EXCEPT ![k] = u2]
  BY <1>1, <1>3
<1>5. client' = [client EXCEPT ![c] = b2] /\ down' = [down EXCEPT ![k] = q2]
  BY <1>b, <1>1, <1>2
<1>6. /\ b2 \in ClientStates /\ b2.status = "Backoff" /\ b2.known = client[c].known
      /\ b2.pending = None
  <2>1. b2 = [client[c] EXCEPT !.status = "Backoff", !.negotiated = FALSE, !.pending = None,
                               !.rejected = FALSE]
    BY <1>b DEF Disconnected
  <2> QED
    BY <1>3, <2>1 DEF ClientStates, Statuses
<1>7. q2 \in Seq(Message) /\ u2 \in Seq({Offer} \cup Commands)
  <2>1. <<>> \in Seq(Message) /\ <<>> \in Seq({Offer} \cup Commands)
    OBVIOUS
  <2> QED
    BY <1>2, <1>3, <1>4, <2>1
<1>8. Link(t2, q2, u2, head)
  <2>1. Climbs(q2) /\ Below(q2, head) /\ Below(q2, t2.delivered)
    BY <1>2 DEF Climbs, Below
  <2>2. <<>> \in Seq(Commands)
    OBVIOUS
  <2> QED
    BY <1>2, <1>3, <1>4, <2>1, <2>2 DEF Link
<1>9. PICK s2 : s2 = None
  OBVIOUS
<1>10. BrowserStep(c, b2, s2, k, t2, q2, u2)
  BY <1>1, <1>2, <1>3, <1>4, <1>5, <1>6, <1>7, <1>8, <1>9 DEF BrowserStep, Lost
<1> QED
  BY <1>10, OneBrowser

LEMMA DropInv ==
  ASSUME IInv, NEW c \in Clients, Drop(c)
  PROVE  IInv'
BY LetGo DEF Drop

LEMMA ClosedInv ==
  ASSUME IInv, NEW c \in Clients, Closed(c)
  PROVE  IInv'
<1>1. down = [down EXCEPT ![socket[c]] = <<>>]
  <2>1. socket[c] \in Connections /\ down[socket[c]] = <<>>
    BY Connection DEF Closed
  <2> QED
    BY <2>1 DEF IInv, TypeOK
<1> QED
  BY <1>1, LetGo DEF Closed
-----------------------------------------------------------------------------
(* What the invariant says of one task. *)
LEMMA Service ==
  ASSUME IInv, NEW n \in Connections
  PROVE  /\ task[n] \in TaskStates /\ down[n] \in Seq(Message)
         /\ up[n] \in Seq({Offer} \cup Commands)
         /\ Link(task[n], down[n], up[n], head)
         /\ Live(n) \/ down[n] = <<>>
         /\ \A c \in Clients : socket[c] = n =>
              /\ Held(client[c], task[n], down[n], up[n]) /\ client[c] \in ClientStates
              /\ client[c].known # None => client[c].known <= head
         /\ task = [task EXCEPT ![n] = task[n]]
         /\ down = [down EXCEPT ![n] = down[n]]
         /\ up = [up EXCEPT ![n] = up[n]]
         /\ head \in Nat /\ over \in BOOLEAN /\ registry \subseteq Connections
         /\ refused \subseteq Nat /\ faults \in Nat /\ published \in Seq(Nat)
         /\ \A i \in DOMAIN published : published[i] <= head
<1>1. TypeOK /\ Tasks /\ Browsers /\ Channel
  BY DEF IInv
<1>2. n # None
  BY NoneAssumption DEF Connections
<1> QED
  BY <1>1, <1>2 DEF TypeOK, Tasks, Browsers, Channel

LEMMA SubscribeInv ==
  ASSUME IInv, NEW n \in Connections, Subscribe(n)
  PROVE  IInv'
<1>t. PICK t2 : t2 = [task[n] EXCEPT !.phase = "subscribed", !.next = Len(published) + 1]
  OBVIOUS
<1>q. PICK q2, u2 : q2 = down[n] /\ u2 = up[n]
  OBVIOUS
<1>1. /\ task[n].phase = "accepting" /\ task' = [task EXCEPT ![n] = t2]
      /\ down' = [down EXCEPT ![n] = q2] /\ up' = [up EXCEPT ![n] = u2]
      /\ registry' = registry \cup {n}
      /\ UNCHANGED <<head, over, published, client, socket, latest, sent, refused, faults>>
  BY <1>t, <1>q, Service DEF Subscribe, Subscribed, authority, players
<1>2. /\ t2 \in TaskStates /\ t2.phase = "subscribed"
  <2>1. Len(published) + 1 \in Nat \ {0} /\ task[n] \in TaskStates
    BY Service
  <2> QED
    BY <1>t, <2>1 DEF TaskStates
<1>3. Link(t2, q2, u2, head)
  BY <1>1, <1>2, <1>q, Service DEF Link, Quiet, Talking
<1>4. \A c \in Clients : socket[c] = n => Held(client[c], t2, q2, u2)
  BY <1>1, <1>2, <1>q, Service DEF Held, Quiet, Talking
<1>5. TaskStep(n, t2, q2, u2)
  BY <1>1, <1>2, <1>3, <1>4, <1>q, Service DEF TaskStep
<1> QED
  BY <1>5, OneTask

LEMMA ReadInitialInv ==
  ASSUME IInv, NEW n \in Connections, ReadInitial(n)
  PROVE  IInv'
<1>t. PICK t2 : t2 = [task[n] EXCEPT !.phase = "upgraded", !.initial = head, !.delivered = head]
  OBVIOUS
<1>q. PICK q2, u2 : q2 = down[n] /\ u2 = up[n]
  OBVIOUS
<1>1. /\ task[n].phase = "subscribed" /\ task' = [task EXCEPT ![n] = t2]
      /\ down' = [down EXCEPT ![n] = q2] /\ up' = [up EXCEPT ![n] = u2]
      /\ UNCHANGED <<registry, head, over, published, client, socket, latest, sent, refused, faults>>
  BY <1>t, <1>q, Service DEF ReadInitial, authority, players
<1>2. /\ t2 \in TaskStates /\ t2.phase = "upgraded" /\ t2.initial = head /\ t2.delivered = head
  BY <1>t, <1>1, Service DEF TaskStates
<1>3. q2 = <<>> /\ u2 = <<>>
  BY <1>1, <1>q, Service DEF Link, Quiet
<1>4. Link(t2, q2, u2, head)
  BY <1>2, <1>3, Service DEF Link, Quiet, Talking, Climbs, Below
<1>5. \A c \in Clients : socket[c] = n => Held(client[c], t2, q2, u2)
  BY <1>1, <1>2, <1>3, <1>q, Service DEF Held, Quiet
<1>6. TaskStep(n, t2, q2, u2)
  BY <1>1, <1>2, <1>4, <1>5, <1>q, Service DEF TaskStep
<1> QED
  BY <1>6, OneTask

(* A task that answers: it says a snapshot at the revision r, or nothing   *)
(* newer than what it had sent, and is then open at the revision r.        *)
AnswerStep(n, r, ms, t2, u2) ==
  /\ task[n].phase \in Talking
  /\ r \in Nat /\ task[n].delivered <= r /\ r <= head
  /\ ms \in Seq(Message) /\ Climbs(ms) /\ Above(ms, task[n].delivered) /\ Below(ms, r)
  /\ t2 \in TaskStates /\ t2.phase = "open" /\ t2.delivered = r
  /\ u2 \in Seq(Commands)
  /\ task' = [task EXCEPT ![n] = t2] /\ down' = Written(n, ms) /\ up' = [up EXCEPT ![n] = u2]
  /\ UNCHANGED <<registry, authority, client, socket, players>>
  /\ refused' \subseteq Nat /\ faults' \in Nat
  /\ published' \in Seq(Nat) /\ \A i \in DOMAIN published' : published'[i] <= head

LEMMA Answers ==
  ASSUME IInv, NEW n \in Connections, NEW r, NEW ms, NEW t2, NEW u2, AnswerStep(n, r, ms, t2, u2)
  PROVE  IInv'
<1> USE DEF AnswerStep
<1>1. PICK d \in Nat : d = task[n].delivered
  BY Service DEF TaskStates
<1>2. /\ \A c \in Clients : socket[c] = n /\ client[c].known # None => client[c].known <= d
      /\ Below(down[n], d)
  BY <1>1, Service DEF Held, Link
<1>3. PICK q2 \in Seq(Message) :
        /\ down' = [down EXCEPT ![n] = q2]
        /\ Climbs(q2) /\ Below(q2, r) /\ (Live(n) \/ q2 = <<>>)
        /\ \A c \in Clients : socket[c] = n /\ client[c].known # None => Above(q2, client[c].known)
  BY <1>1, <1>2, Spoken
<1>4. \A i \in DOMAIN q2 : IsSnapshot(q2[i]) => q2[i].revision \in Nat
  BY DEF Message, IsSnapshot
<1>5. Below(q2, head)
  BY <1>3, <1>4, Service DEF Below
<1>6. Link(t2, q2, u2, head)
  BY <1>3, <1>5 DEF Link, Quiet
<1>7. \A c \in Clients : socket[c] = n => Held(client[c], t2, q2, u2)
  <2> SUFFICES ASSUME NEW c \in Clients, socket[c] = n
               PROVE  Held(client[c], t2, q2, u2)
    OBVIOUS
  <2>1. client[c].known # None => client[c].known <= r
    BY <1>1, <1>2, Service DEF ClientStates
  <2> QED
    BY <1>3, <2>1 DEF Held, Quiet
<1>8. u2 \in Seq({Offer} \cup Commands)
  OBVIOUS
<1>9. TaskStep(n, t2, q2, u2)
  BY <1>3, <1>6, <1>7, <1>8, Service DEF TaskStep, authority, players
<1> QED
  BY <1>9, OneTask

(* What is left of the commands after the first. *)
LEMMA Heard ==
  ASSUME NEW u \in Seq(Commands), u # <<>>
  PROVE  Head(u) \in Commands /\ Head(u).id \in Nat /\ Tail(u) \in Seq(Commands)
<1>1. Head(u) \in Commands /\ Tail(u) \in Seq(Commands)
  OBVIOUS
<1> QED
  BY <1>1 DEF Commands

LEMMA NegotiateInv ==
  ASSUME IInv, NEW n \in Connections, Negotiate(n)
  PROVE  IInv'
<1>r. PICK r : r = task[n].initial
  OBVIOUS
<1>t. PICK t2 : t2 = [task[n] EXCEPT !.phase = "open"]
  OBVIOUS
<1>m. PICK ms : ms = <<Text("version", 0), Snapshot(r)>>
  OBVIOUS
<1>1. /\ task[n].phase = "upgraded" /\ up[n] # <<>> /\ task' = [task EXCEPT ![n] = t2]
      /\ down' = Written(n, ms) /\ up' = [up EXCEPT ![n] = Tail(up[n])]
      /\ UNCHANGED <<registry, authority, published, client, socket, players, refused, faults>>
  BY <1>r, <1>t, <1>m, Service DEF Negotiate
<1>2. /\ r \in Nat /\ r = task[n].delivered /\ r <= head /\ Tail(up[n]) = <<>>
  <2>1. r \in Nat /\ r = task[n].delivered /\ r <= head
    BY <1>r, <1>1, Service DEF Link, Talking, TaskStates
  <2>2. up[n] = <<Offer>>
    BY <1>1, Service DEF Link
  <2>3. Tail(<<Offer>>) = <<>>
    OBVIOUS
  <2> QED
    BY <2>1, <2>2, <2>3
<1>3. t2 \in TaskStates /\ t2.phase = "open" /\ t2.delivered = r
  BY <1>t, <1>2, Service DEF TaskStates
<1>4. ms \in Seq(Message) /\ Climbs(ms) /\ Above(ms, r) /\ Below(ms, r)
  BY <1>2, <1>m, Utterances
<1>5. PICK u2 \in Seq(Commands) : u2 = Tail(up[n])
  <2>1. <<>> \in Seq(Commands)
    OBVIOUS
  <2> QED
    BY <1>2, <2>1
<1>6. /\ published' \in Seq(Nat) /\ \A i \in DOMAIN published' : published'[i] <= head
      /\ refused' \subseteq Nat /\ faults' \in Nat
  BY <1>1, Service
<1>7. AnswerStep(n, r, ms, t2, u2)
  BY <1>1, <1>2, <1>3, <1>4, <1>5, <1>6, Service DEF AnswerStep, Talking
<1> QED
  BY <1>7, Answers
LEMMA AcceptInv ==
  ASSUME IInv, NEW n \in Connections, Accept(n)
  PROVE  IInv'
<1>t. PICK t2 : t2 = [task[n] EXCEPT !.phase = "replying", !.answer = head + 1]
  OBVIOUS
<1>q. PICK q2, u2 : q2 = down[n] /\ u2 = Tail(up[n])
  OBVIOUS
<1>1. /\ task[n].phase = "open" /\ up[n] # <<>> /\ task' = [task EXCEPT ![n] = t2]
      /\ down' = [down EXCEPT ![n] = q2] /\ up' = [up EXCEPT ![n] = u2]
      /\ head' = head + 1 /\ over' \in BOOLEAN
      /\ UNCHANGED <<registry, published, client, socket, latest, sent, refused, faults>>
  BY <1>t, <1>q, Service DEF Accept, Handling, players
<1>2. /\ task[n] \in TaskStates /\ head \in Nat /\ Link(task[n], down[n], up[n], head)
  BY Service
<1>3. /\ t2 \in TaskStates /\ t2.phase = "replying" /\ t2.delivered = task[n].delivered
      /\ t2.answer = head + 1
  <2>1. head + 1 \in Nat
    BY <1>2
  <2> QED
    BY <1>t, <1>2, <2>1 DEF TaskStates
<1>4. up[n] \in Seq(Commands) /\ task[n].delivered <= head /\ task[n].delivered \in Nat
  BY <1>1, <1>2 DEF Link, Talking, TaskStates
<1>5. u2 \in Seq(Commands) /\ u2 \in Seq({Offer} \cup Commands)
  BY <1>1, <1>4, <1>q, Heard
<1>6. Link(task[n], down[n], up[n], head + 1)
  <2>1. head + 1 \in Nat /\ head <= head + 1
    BY <1>2
  <2> QED
    BY <1>2, <2>1, Service, LinkRises
<1>7. Link(t2, q2, u2, head + 1)
  BY <1>1, <1>2, <1>3, <1>4, <1>5, <1>6, <1>q DEF Link, Quiet, Talking
<1>8. \A c \in Clients : socket[c] = n => Held(client[c], t2, q2, u2)
  BY <1>1, <1>3, <1>q, Service DEF Held, Quiet, Talking
<1>9. \A i \in DOMAIN published : published[i] <= head + 1
  BY Service
<1>10. TaskStep(n, t2, q2, u2)
  BY <1>1, <1>2, <1>3, <1>5, <1>7, <1>8, <1>9, <1>q, Service DEF TaskStep
<1> QED
  BY <1>10, OneTask

LEMMA ReplyInv ==
  ASSUME IInv, NEW n \in Connections, Reply(n)
  PROVE  IInv'
<1>r. PICK r : r = task[n].answer
  OBVIOUS
<1>t. PICK t2 : t2 = [task[n] EXCEPT !.phase = "open", !.delivered = Later(task[n].delivered, r)]
  OBVIOUS
<1>m. PICK ms, u2 : ms = <<Snapshot(r)>> /\ u2 = up[n]
  OBVIOUS
<1>1. /\ task[n].phase = "replying" /\ published' = Append(published, r)
      /\ task' = [task EXCEPT ![n] = t2] /\ down' = Written(n, ms) /\ up' = [up EXCEPT ![n] = u2]
      /\ UNCHANGED <<registry, authority, client, socket, players, refused, faults>>
  BY <1>r, <1>t, <1>m, Service DEF Reply
<1>2. /\ task[n] \in TaskStates /\ r \in Nat /\ task[n].delivered \in Nat
      /\ task[n].delivered < r /\ r <= head /\ u2 \in Seq(Commands)
  BY <1>1, <1>r, <1>m, Service DEF Link, TaskStates
<1>3. t2 \in TaskStates /\ t2.phase = "open" /\ t2.delivered = r
  <2>1. Later(task[n].delivered, r) = r
    BY <1>2 DEF Later
  <2> QED
    BY <1>1, <1>t, <1>2, <2>1 DEF TaskStates
<1>4. ms \in Seq(Message) /\ Climbs(ms) /\ Above(ms, r) /\ Below(ms, r)
  BY <1>2, <1>m, Utterances
<1>5. Above(ms, task[n].delivered)
  <2>1. \A i \in DOMAIN ms : IsSnapshot(ms[i]) => ms[i].revision \in Nat
    BY <1>4 DEF Message, IsSnapshot
  <2> QED
    BY <1>2, <1>4, <2>1 DEF Above
<1>6. published' \in Seq(Nat) /\ \A i \in DOMAIN published' : published'[i] <= head
  BY <1>1, <1>2, Service
<1>7. AnswerStep(n, r, ms, t2, u2)
  BY <1>1, <1>2, <1>3, <1>4, <1>5, <1>6, Service DEF AnswerStep, Talking
<1> QED
  BY <1>7, Answers

(* A refusal leaves the task as it is, or brings it up to date. *)
LEMMA RefusalInv ==
  ASSUME IInv, NEW n \in Connections, NEW withSnapshot \in BOOLEAN, Refusal(n, withSnapshot),
         faults' \in Nat
  PROVE  IInv'
<1>i. PICK id : id = Head(up[n]).id
  OBVIOUS
<1>1. /\ task[n].phase = "open" /\ up[n] # <<>>
      /\ refused' = refused \cup {id}
      /\ up' = [up EXCEPT ![n] = Tail(up[n])]
      /\ down' = Written(n, <<Text("rejected", id)>>
                            \o (IF withSnapshot THEN <<Snapshot(head)>> ELSE <<>>))
      /\ task' = IF withSnapshot THEN [task EXCEPT ![n].delivered = Later(@, head)] ELSE task
      /\ UNCHANGED <<registry, authority, published, client, socket, players>>
  BY <1>i, Service DEF Refusal, Handling
<1>2. /\ task[n] \in TaskStates /\ head \in Nat /\ task[n].delivered \in Nat
      /\ task[n].delivered <= head /\ up[n] \in Seq(Commands)
  BY <1>1, Service DEF Link, Talking, TaskStates
<1>3. id \in Nat /\ refused' \subseteq Nat
  BY <1>1, <1>2, <1>i, Service, Heard
<1>4. PICK u2 \in Seq(Commands) : u2 = Tail(up[n])
  BY <1>1, <1>2, Heard
<1>5. /\ published' \in Seq(Nat) /\ \A i \in DOMAIN published' : published'[i] <= head
      /\ up' = [up EXCEPT ![n] = u2]
  BY <1>1, <1>4, Service
<1>6. /\ task[n].phase = "open"
      /\ UNCHANGED <<registry, authority, client, socket, players>>
  BY <1>1
<1>7. CASE withSnapshot
  <2>1. PICK ms : ms = <<Text("rejected", id)>> \o <<Snapshot(head)>>
    OBVIOUS
  <2>2. PICK t2 : t2 = [task[n] EXCEPT !.delivered = Later(task[n].delivered, head)]
    OBVIOUS
  <2>3. t2 \in TaskStates /\ t2.phase = "open" /\ t2.delivered = head
    <3>1. Later(task[n].delivered, head) = head
      BY <1>2 DEF Later
    <3> QED
      BY <1>1, <1>2, <2>2, <3>1 DEF TaskStates
  <2>4. task' = [task EXCEPT ![n] = t2] /\ down' = Written(n, ms)
    BY <1>1, <1>7, <2>1, <2>2, Service
  <2>5. ms \in Seq(Message) /\ Climbs(ms) /\ Above(ms, head) /\ Below(ms, head)
    <3>1. PICK said, shown : said = <<Text("rejected", id)>> /\ shown = <<Snapshot(head)>>
      OBVIOUS
    <3>2. said \in Seq(Message) /\ Climbs(said) /\ Above(said, head) /\ Below(said, head)
      BY <1>2, <1>3, <3>1, Utterances
    <3>3. shown \in Seq(Message) /\ Climbs(shown) /\ Above(shown, head) /\ Below(shown, head)
      BY <1>2, <1>3, <3>1, Utterances
    <3>4. head <= head /\ ms = said \o shown
      BY <1>2, <2>1, <3>1
    <3> QED
      BY <1>2, <3>2, <3>3, <3>4, Followed
  <2>6. Above(ms, task[n].delivered)
    <3>1. \A i \in DOMAIN ms : IsSnapshot(ms[i]) => ms[i].revision \in Nat
      BY <2>5 DEF Message, IsSnapshot
    <3> QED
      BY <1>2, <2>5, <3>1 DEF Above
  <2>7. PICK r : r = head
    OBVIOUS
  <2>8. AnswerStep(n, r, ms, t2, u2)
    BY <1>6, <1>2, <1>3, <1>4, <1>5, <2>3, <2>4, <2>5, <2>6, <2>7, Service DEF AnswerStep, Talking
  <2> QED
    BY <2>8, Answers
<1>8. CASE ~withSnapshot
  <2>1. PICK ms, r, t2 : ms = <<Text("rejected", id)>> /\ r = task[n].delivered /\ t2 = task[n]
    OBVIOUS
  <2>2. task' = [task EXCEPT ![n] = t2] /\ down' = Written(n, ms)
    <3>1. Text("rejected", id) \in Message
      BY <1>3 DEF Text, Message
    <3>2. <<Text("rejected", id)>> \o (IF withSnapshot THEN <<Snapshot(head)>> ELSE <<>>) = ms
      BY <1>8, <2>1, <3>1
    <3> QED
      BY <1>1, <1>8, <2>1, <3>2, Service
  <2>3. ms \in Seq(Message) /\ Climbs(ms) /\ Above(ms, r) /\ Below(ms, r)
    BY <1>2, <1>3, <2>1, Utterances
  <2>4. AnswerStep(n, r, ms, t2, u2)
    BY <1>6, <1>2, <1>3, <1>4, <1>5, <2>1, <2>2, <2>3, Service DEF AnswerStep, Talking
  <2> QED
    BY <2>4, Answers
<1> QED
  BY <1>7, <1>8

LEMMA RefuseInv ==
  ASSUME IInv, NEW n \in Connections, Refuse(n)
  PROVE  IInv'
<1>1. faults \in Nat
  BY Service
<1>2. CASE Refusal(n, TRUE) /\ UNCHANGED faults
  BY <1>1, <1>2, RefusalInv
<1>3. CASE (\E withSnapshot \in BOOLEAN : Refusal(n, withSnapshot)) /\ faults' = faults + 1
  BY <1>1, <1>3, RefusalInv
<1> QED
  BY <1>2, <1>3 DEF Refuse
LEMMA ForwardInv ==
  ASSUME IInv, NEW n \in Connections, Forward(n)
  PROVE  IInv'
<1>1. /\ task[n].phase = "open" /\ task[n].next <= Len(published)
      /\ task[n] \in TaskStates /\ Link(task[n], down[n], up[n], head)
      /\ head \in Nat /\ published \in Seq(Nat)
      /\ \A i \in DOMAIN published : published[i] <= head
  BY Service DEF Forward
<1>2. task[n].next \in Nat \ {0} /\ task[n].delivered \in Nat
  BY <1>1 DEF TaskStates
<1>3. PICK p : p = Publication(n)
  OBVIOUS
<1>4. p \in Nat /\ p <= head
  <2>1. task[n].next \in DOMAIN published
    BY <1>1, <1>2
  <2> QED
    BY <1>1, <1>3, <2>1 DEF Publication
<1>5. PICK place : place = NextPlace(n)
  OBVIOUS
<1>6. place \in Nat \ {0}
  <2>1. Len(published) \in Nat
    BY <1>1
  <2> QED
    BY <1>2, <1>5, <2>1, DeliveryBounds DEF NextPlace, Lagged
<1>7. PICK r : r = Later(task[n].delivered, p)
  OBVIOUS
<1>8. r \in Nat /\ task[n].delivered <= r /\ r <= head /\ r \in {task[n].delivered, p}
  BY <1>1, <1>2, <1>4, <1>7 DEF Later, Link, Talking
<1>9. PICK t2 : t2 = [task[n] EXCEPT !.next = place, !.delivered = r]
  OBVIOUS
<1>10. t2 \in TaskStates /\ t2.phase = "open" /\ t2.delivered = r
  BY <1>1, <1>6, <1>8, <1>9 DEF TaskStates
<1>11. task' = [task EXCEPT ![n] = t2]
  BY <1>1, <1>3, <1>5, <1>7, <1>9, Service DEF Forward
<1>12. UNCHANGED <<registry, authority, published, up, client, socket, players, refused, faults>>
  BY DEF Forward
<1>13. PICK u2 : u2 = up[n]
  OBVIOUS
<1>14. u2 \in Seq(Commands) /\ up' = [up EXCEPT ![n] = u2]
  BY <1>1, <1>12, <1>13, Service DEF Link
<1>15. CASE HasNews(n)
  <2>1. down' = Written(n, <<Snapshot(p)>>) /\ r = p
    BY <1>2, <1>3, <1>4, <1>7, <1>15 DEF Forward, SendSnapshotIfSubscribed, HasNews, Later
  <2>2. PICK ms : ms = <<Snapshot(r)>>
    OBVIOUS
  <2>3. ms \in Seq(Message) /\ Climbs(ms) /\ Above(ms, r) /\ Below(ms, r)
    BY <1>8, <2>2, Utterances
  <2>4. Above(ms, task[n].delivered)
    <3>1. \A i \in DOMAIN ms : IsSnapshot(ms[i]) => ms[i].revision \in Nat
      BY <2>3 DEF Message, IsSnapshot
    <3> QED
      BY <1>2, <1>8, <2>3, <3>1 DEF Above
  <2>5. AnswerStep(n, r, ms, t2, u2)
    BY <1>1, <1>8, <1>10, <1>11, <1>12, <1>14, <2>1, <2>2, <2>3, <2>4, Service
    DEF AnswerStep, Talking
  <2> QED
    BY <2>5, Answers
<1>16. CASE ~HasNews(n)
  <2>1. PICK q2 : q2 = down[n]
    OBVIOUS
  <2>2. down' = [down EXCEPT ![n] = q2]
    BY <1>16, <2>1, Service DEF Forward
  <2>3. r = task[n].delivered
    BY <1>1, <1>2, <1>3, <1>4, <1>7, <1>16 DEF HasNews, Later
  <2>4. Link(t2, q2, u2, head)
    BY <1>1, <1>10, <1>13, <2>1, <2>3 DEF Link, Talking, Quiet
  <2>5. \A c \in Clients : socket[c] = n => Held(client[c], t2, q2, u2)
    BY <1>1, <1>10, <1>13, <2>1, <2>3, Service DEF Held, Talking, Quiet
  <2>6. /\ u2 \in Seq({Offer} \cup Commands) /\ q2 \in Seq(Message) /\ (Live(n) \/ q2 = <<>>)
        /\ refused \subseteq Nat /\ faults \in Nat /\ over \in BOOLEAN /\ registry \subseteq Connections
    BY <1>13, <2>1, Service
  <2>7. /\ head' = head /\ over' = over /\ registry' = registry /\ published' = published
        /\ client' = client /\ socket' = socket /\ latest' = latest /\ sent' = sent
        /\ refused' = refused /\ faults' = faults
    BY <1>12 DEF authority, players
  <2>8. TaskStep(n, t2, q2, u2)
    BY <1>1, <1>10, <1>11, <1>14, <2>2, <2>4, <2>5, <2>6, <2>7 DEF TaskStep
  <2> QED
    BY <2>8, OneTask
<1> QED
  BY <1>15, <1>16

LEMMA CloseInv ==
  ASSUME IInv, NEW n \in Connections, Close(n)
  PROVE  IInv'
<1>1. PICK t2, q2, u2 : t2 = ClosedTask /\ q2 = down[n] /\ u2 = <<>>
  OBVIOUS
<1>2. /\ task' = [task EXCEPT ![n] = t2] /\ down' = [down EXCEPT ![n] = q2]
      /\ up' = [up EXCEPT ![n] = u2] /\ registry' \subseteq Connections
      /\ UNCHANGED <<authority, published, client, socket, players, refused, faults>>
  BY <1>1, Service DEF Close, Unsubscribed
<1>3. t2 \in TaskStates /\ t2.phase = "closed"
  BY <1>1 DEF ClosedTask, UnusedTask, TaskStates
<1>4. u2 \in Seq({Offer} \cup Commands)
  <2>1. <<>> \in Seq({Offer} \cup Commands)
    OBVIOUS
  <2> QED
    BY <1>1, <2>1
<1>5. Link(t2, q2, u2, head)
  BY <1>1, <1>3, Service DEF Link, Quiet, Talking
<1>6. \A c \in Clients : socket[c] = n => Held(client[c], t2, q2, u2)
  BY <1>1, <1>3, Service DEF Held, Quiet, Talking
<1>7. TaskStep(n, t2, q2, u2)
  BY <1>1, <1>2, <1>3, <1>4, <1>5, <1>6, Service DEF TaskStep, authority, players
<1> QED
  BY <1>7, OneTask
-----------------------------------------------------------------------------
(* A timeout only raises the match and publishes its new revision. *)
LEMMA TimeoutInv ==
  ASSUME IInv, Timeout
  PROVE  IInv'
<1>1. /\ head \in Nat /\ head' = head + 1 /\ published' = Append(published, head + 1)
      /\ published \in Seq(Nat) /\ \A i \in DOMAIN published : published[i] <= head
      /\ UNCHANGED <<registry, over, task, up, down, client, socket, latest, sent, refused, faults>>
  BY DEF Timeout, players, IInv, TypeOK, Channel
<1>2. head' \in Nat /\ head <= head'
  BY <1>1
<1>3. published' \in Seq(Nat) /\ \A i \in DOMAIN published' : published'[i] <= head'
  BY <1>1, <1>2
<1>4. TypeOK'
  BY <1>1, <1>2, <1>3 DEF IInv, TypeOK
<1>5. Tasks'
  <2>1. \A n \in Connections : Link(task[n], down[n], up[n], head')
    BY <1>1, <1>2, Service, LinkRises
  <2> QED
    BY <1>1, <2>1 DEF IInv, Tasks, Live
<1>6. Browsers'
  <2>1. \A c \in Clients : client[c].known # None => client[c].known <= head'
    BY <1>1, <1>2 DEF IInv, Browsers, TypeOK, ClientStates
  <2> QED
    BY <1>1, <2>1 DEF IInv, Browsers
<1>7. Sockets' /\ PredictionIsOnCurrentBase'
  BY <1>1 DEF IInv, Sockets, PredictionIsOnCurrentBase
<1> QED
  BY <1>3, <1>4, <1>5, <1>6, <1>7 DEF IInv, Channel

(* A crash closes every task; what is still on its way arrives, of a match *)
(* that is where it was or one command further.                            *)
LEMMA CrashInv ==
  ASSUME IInv, Crash
  PROVE  IInv'
<1>1. /\ head \in Nat /\ over \in BOOLEAN /\ faults \in Nat
      /\ task \in [Connections -> TaskStates]
      /\ \A n \in Connections : Link(task[n], down[n], up[n], head) /\ down[n] \in Seq(Message)
  BY DEF IInv, TypeOK, Tasks
<1>2. head' \in Nat /\ head <= head' /\ over' \in BOOLEAN
  BY <1>1 DEF Crash, authority
<1>3. /\ faults' \in Nat /\ published' = <<>> /\ registry' = {}
      /\ task' = [n \in Connections |-> IF task[n].phase = "unused" THEN task[n] ELSE ClosedTask]
      /\ up' = [n \in Connections |-> <<>>]
      /\ UNCHANGED <<down, client, socket, latest, sent, refused>>
  BY <1>1 DEF Crash, players
<1>4. ClosedTask \in TaskStates /\ ClosedTask.phase = "closed"
  BY DEF ClosedTask, UnusedTask, TaskStates
<1>5. TypeOK'
  <2>1. task' \in [Connections -> TaskStates]
    BY <1>1, <1>3, <1>4
  <2>2. <<>> \in Seq(Nat) /\ <<>> \in Seq({Offer} \cup Commands)
    OBVIOUS
  <2> QED
    BY <1>2, <1>3, <2>1, <2>2 DEF IInv, TypeOK
<1>6. Tasks'
  <2> SUFFICES ASSUME NEW n \in Connections
               PROVE  Link(task'[n], down'[n], up'[n], head') /\ (Live(n)' \/ down'[n] = <<>>)
    BY DEF Tasks
  <2>1. Link(task[n], down[n], up[n], head')
    BY <1>1, <1>2, LinkRises
  <2>2. Link(task'[n], down'[n], up'[n], head')
    <3>1. CASE task[n].phase = "unused"
      BY <1>3, <2>1, <3>1 DEF Link, Quiet, Talking
    <3>2. CASE task[n].phase # "unused"
      BY <1>3, <1>4, <2>1, <3>2 DEF Link, Quiet, Talking
    <3> QED
      BY <3>1, <3>2
  <2> QED
    BY <1>3, <2>2 DEF IInv, Tasks, Live
<1>7. Browsers'
  <2> SUFFICES ASSUME NEW c \in Clients
               PROVE  /\ client[c].known # None => client[c].known <= head'
                      /\ socket[c] # None =>
                           Held(client[c], task'[socket[c]], down[socket[c]], up'[socket[c]])
    BY <1>3 DEF Browsers
  <2>1. client[c].known # None => client[c].known <= head'
    BY <1>1, <1>2 DEF IInv, Browsers, TypeOK, ClientStates
  <2>2. ASSUME socket[c] # None
        PROVE  Held(client[c], task'[socket[c]], down[socket[c]], up'[socket[c]])
    <3>1. PICK n \in Connections : n = socket[c]
      BY <2>2, Connection
    <3>2. Held(client[c], task[n], down[n], up[n])
      BY <2>2, <3>1, Connection
    <3>3. task'[n] = ClosedTask
      BY <1>3, <3>2 DEF Held
    <3> QED
      BY <1>4, <3>1, <3>2, <3>3 DEF Held, Quiet, Talking
  <2> QED
    BY <2>1, <2>2
<1>8. Sockets' /\ PredictionIsOnCurrentBase'
  BY <1>3 DEF IInv, Sockets, PredictionIsOnCurrentBase
<1>9. Channel'
  BY <1>3 DEF Channel
<1> QED
  BY <1>5, <1>6, <1>7, <1>8, <1>9 DEF IInv

LEMMA StepInv == IInv /\ [Next]_vars => IInv'
<1> SUFFICES ASSUME IInv, [Next]_vars
             PROVE  IInv'
  OBVIOUS
<1>1. ASSUME NEW c \in Clients, Browser(c)
      PROVE  IInv'
  BY <1>1, ConnectInv, OpensInv, GiveInv, ReceiveInv, ShowRejectionInv, DropInv, ClosedInv DEF Browser
<1>2. ASSUME NEW n \in Connections, Task(n)
      PROVE  IInv'
  BY <1>2, SubscribeInv, ReadInitialInv, NegotiateInv, AcceptInv, ReplyInv, RefuseInv, ForwardInv,
     CloseInv DEF Task
<1>3. CASE UNCHANGED vars
  BY <1>3 DEF vars, authority, players, IInv, TypeOK, Sockets, Tasks, Browsers, Channel, Live,
     PredictionIsOnCurrentBase
<1> QED
  BY <1>1, <1>2, <1>3, TimeoutInv, CrashInv DEF Next

LEMMA Invariance == Spec => []IInv
<1> QED
  BY InitInv, StepInv, PTL DEF Spec

-----------------------------------------------------------------------------
(* No variable ever loses its shape: above all, a task whose version was   *)
(* negotiated never meets anything but commands (websocket_loop closes the *)
(* connection otherwise), and a browser only predicts while it is ready.   *)
THEOREM TypeCorrect == Spec => []TypeOK
<1>1. IInv => TypeOK
  BY DEF IInv
<1> QED
  BY Invariance, <1>1, PTL

(* No snapshot on its way to a browser is older than one before it or than *)
(* what the browser knows: BrowserTransport never meets StaleSnapshot,     *)
(* whatever the channel and the sockets do.                                *)
THEOREM NothingStale == Spec => []NoStaleDelivery
<1>1. IInv => NoStaleDelivery
  <2> SUFFICES ASSUME IInv, NEW c \in Clients, socket[c] # None
               PROVE  /\ Climbs(down[socket[c]])
                      /\ \A i \in DOMAIN down[socket[c]] :
                           IsSnapshot(down[socket[c]][i])
                             => ~IsStale(client[c], down[socket[c]][i].revision)
    BY DEF NoStaleDelivery
  <2>1. PICK q \in Seq(Message) : q = down[socket[c]]
    BY Connection
  <2>2. Climbs(q) /\ (client[c].known # None => client[c].known \in Nat /\ Above(q, client[c].known))
    BY <2>1, Connection DEF Link, Held, ClientStates
  <2>3. \A i \in DOMAIN q : IsSnapshot(q[i]) => q[i].revision \in Nat
    BY DEF Message, IsSnapshot
  <2> QED
    BY <2>1, <2>2, <2>3 DEF Above, IsStale
<1> QED
  BY Invariance, <1>1, PTL

(* What a browser predicts is what it last gave, at the revision it shows. *)
THEOREM BaseIsCurrent == Spec => []PredictionIsOnCurrentBase
<1>1. IInv => PredictionIsOnCurrentBase
  BY DEF IInv
<1> QED
  BY Invariance, <1>1, PTL

=============================================================================
