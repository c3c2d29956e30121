--------------------------- MODULE BrowserTransport --------------------------
(***************************************************************************)
(* The browser's BrowserTransport and PredictionState: how one event of    *)
(* the socket or of the player changes what the client knows of its match. *)
(* A client is                                                             *)
(*   status      the lifecycle of the connection                           *)
(*   negotiated  the protocol version has been agreed on this socket       *)
(*   known       the revision of the last authoritative snapshot, or None  *)
(*   pending     the command that has been predicted, or None              *)
(*   rejected    a rejection the page has not shown yet                    *)
(* The predicted position of the balls and the retry delay are left out.   *)
(***************************************************************************)
EXTENDS Naturals

CONSTANT None

Statuses == {"Disconnected", "Connecting", "Negotiating", "Ready", "Backoff"}

NewClient ==
  [status |-> "Disconnected", negotiated |-> FALSE, known |-> None, pending |-> None,
   rejected |-> FALSE]

Connecting(t) == [t EXCEPT !.status = "Connecting", !.negotiated = FALSE, !.rejected = FALSE]

Opened(t) == [t EXCEPT !.status = "Negotiating"]

Disconnected(t) ==
  [t EXCEPT !.status = "Backoff", !.negotiated = FALSE, !.pending = None, !.rejected = FALSE]

CommandRejected(t) == [t EXCEPT !.pending = None, !.rejected = TRUE]

(* The response is the supported version, or no good: whatever is wrong    *)
(* with it, or with the time it comes, the page closes the socket.         *)
Negotiated(t, response) ==
  IF t.status = "Negotiating" /\ response = "version"
  THEN [t EXCEPT !.negotiated = TRUE]
  ELSE Disconnected(t)

(* Text means a negotiated version until the client is ready, and then only *)
(* "rejected" means anything.                                              *)
ReceiveText(t, text) ==
  IF t.status # "Ready"  THEN Negotiated(t, text)
  ELSE IF text = "rejected" THEN CommandRejected(t)
                            ELSE t

HasRevision(t, r) == t.known = r /\ t.pending = None

IsStale(t, r) == t.known # None /\ r < t.known

Advances(t, r) == r > t.known

(* The first snapshot. *)
FromSnapshot(t, r) == [t EXCEPT !.known = r, !.pending = None, !.status = "Ready"]

Advanced_KeepPending(t, r) == [t EXCEPT !.known = r, !.status = "Ready"]

(* A newer snapshot resolves whatever prediction is pending. *)
Advanced(t, r) == [t EXCEPT !.known = r, !.pending = None, !.status = "Ready"]

ReceiveSnapshot(t, r) ==
  IF ~t.negotiated \/ t.status \notin {"Negotiating", "Ready"} THEN Disconnected(t)
  ELSE IF HasRevision(t, r) THEN t
  ELSE IF t.known = None THEN FromSnapshot(t, r)
  ELSE IF IsStale(t, r) THEN Disconnected(t)
  ELSE IF Advances(t, r) THEN Advanced(t, r)
                         ELSE [t EXCEPT !.status = "Ready"]

Predict(t, id) == [t EXCEPT !.pending = id]
=============================================================================
