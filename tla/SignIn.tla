------------------------------- MODULE SignIn -------------------------------
(***************************************************************************)
(* Signing in, with the external provider or on a developer's machine with *)
(* a name alone, using the session it gives, and taking a public handle:   *)
(* google_start, google_callback, development_login, logout, set_handle    *)
(* and authenticated_account of http.rs, over oidc_store.rs,               *)
(* identity_store.rs, session_store.rs and profile_store.rs, and the       *)
(* cleanup the scheduler does.  A handler reads the clock, waits, and runs *)
(* its transaction with what it read, so that the transactions come in any *)
(* order of their clocks.                                                  *)
(***************************************************************************)
EXTENDS Naturals, FiniteSets

CONSTANTS Attempts, Tokens,    \* names drawn at random, never twice
          Callbacks, Requests, \* handlers that run at a time
          Subjects,            \* the provider's users; each has its account
          Handles,             \* public names; in development each has its account
          None, Gone,          \* nothing yet; a row that was deleted
          AttemptLife, SessionLife,
          MaxTime,             \* bound of the clock, for TLC
          MaxHandlers          \* bound of the handlers under way at a time, for TLC

ASSUME LivesAssumption == AttemptLife \in Nat \ {0} /\ SessionLife \in Nat \ {0}
ASSUME NullsAssumption == None # Gone /\ None \notin Subjects \cup Handles
ASSUME BoundsAssumption == MaxTime \in Nat /\ MaxHandlers \in Nat

VARIABLES now,
          development, \* the login of the insecure build, without a provider
          attempt,   \* the table oidc_attempts
          session,   \* the table sessions
          linked,    \* the table external_identities
          profile,   \* the table account_profiles
          callback,  \* the google_callback handlers under way
          request,   \* the authenticated requests under way
          sweep,     \* cleanup_expired_auth_records under way
          minted     \* every session ever made, and for which attempt

profiles == <<development, profile>>
vars == <<now, attempt, session, linked, profiles, callback, request, sweep, minted>>

Times == 0..MaxTime
Accounts == Subjects \cup Handles   \* digests, which do not collide

AttemptRow == [expires : Nat, status : {"pending", "consumed"}]
SessionRow == [account : Accounts, expires : Nat, used : Times]

ASSUME RowsAssumption == {None, Gone} \cap (AttemptRow \cup SessionRow) = {}

\* The row a sign-in of an account makes.
Minted(account, at) == [account |-> account, expires |-> at + SessionLife, used |-> at]

\* The tables in which each of these users has a session; tokens do not differ.
SessionsOf(users) ==
  {table \in [Tokens -> {None} \cup {Minted(s, 0) : s \in users}] :
     \A s \in users : Cardinality({t \in Tokens : table[t] = Minted(s, 0)}) = 1}

\* A server starts over empty tables, or over those an earlier one left, in
\* which the attempts were swept and every linked user has a session, but no name.
Init == /\ now = 0
        /\ development \in BOOLEAN
        /\ linked \in IF development THEN {{}} ELSE {{}, Subjects}
        /\ attempt = [a \in Attempts |-> IF linked = {} /\ ~development THEN None ELSE Gone]
        /\ SessionsOf(linked) # {} /\ session = CHOOSE table \in SessionsOf(linked) : TRUE
        /\ profile = [a \in Accounts |-> None]
        /\ callback = [k \in Callbacks |-> None]
        /\ request = [r \in Requests |-> None]
        /\ sweep = None
        /\ minted = {}

CanStart ==
  Cardinality({k \in Callbacks : callback[k] # None})
    + Cardinality({r \in Requests : request[r] # None}) < MaxHandlers

-----------------------------------------------------------------------------
StartSignIn(a) ==
  /\ attempt[a] = None
  /\ attempt' = [attempt EXCEPT ![a] = [expires |-> now + AttemptLife, status |-> "pending"]]
  /\ UNCHANGED <<now, session, linked, profiles, callback, request, sweep, minted>>

\* The browser comes back from the provider, perhaps more than once.  Without a
\* provider google_start makes its row as well, but does not send anybody there.
Return(k, a) ==
  /\ ~development /\ CanStart
  /\ callback[k] = None /\ attempt[a] # None
  /\ callback' = [callback EXCEPT ![k] =
       [attempt |-> a, step |-> "asked", at |-> now, subject |-> None]]
  /\ UNCHANGED <<now, attempt, session, linked, profiles, request, sweep, minted>>

At(k, step) == callback[k] # None /\ callback[k].step = step

\* What claim_oidc_attempt asks of the row.  A mistake would be to look at its
\* age alone.
Claimable_Reused(a, at) == attempt[a] \notin {None, Gone} /\ at < attempt[a].expires
Claimable(a, at) == /\ attempt[a] \notin {None, Gone}
                    /\ attempt[a].status = "pending"
                    /\ at < attempt[a].expires

Overdue(a, at) == /\ attempt[a] \notin {None, Gone}
                  /\ attempt[a].status = "pending"
                  /\ attempt[a].expires <= at

Claim(k) ==
  LET a == callback[k].attempt  at == callback[k].at IN
    /\ At(k, "asked")
    /\ \/ /\ Claimable(a, at)
          /\ attempt' = [attempt EXCEPT ![a].status = "consumed"]
          /\ callback' = [callback EXCEPT ![k].step = "claimed", ![k].at = None]
       \/ /\ Overdue(a, at)
          /\ attempt' = [attempt EXCEPT ![a] = Gone]
          /\ callback' = [callback EXCEPT ![k] = None]
       \/ /\ ~Claimable(a, at) /\ ~Overdue(a, at)
          /\ callback' = [callback EXCEPT ![k] = None]
          /\ UNCHANGED attempt
    /\ UNCHANGED <<now, session, linked, profiles, request, sweep, minted>>

\* The provider says who it was; that it may refuse is in Drop.
Exchange(k, who) ==
  /\ At(k, "claimed")
  /\ callback' = [callback EXCEPT ![k].step = "verified", ![k].subject = who]
  /\ UNCHANGED <<now, attempt, session, linked, profiles, request, sweep, minted>>

Linked(who) == who \in linked

\* link_google_identity; the account is a digest of the identity, so that an
\* identity that is linked is linked to it.  Then the clock is read again.
LinkIdentity(k) ==
  /\ At(k, "verified")
  /\ linked' = IF Linked(callback[k].subject) THEN linked ELSE linked \cup {callback[k].subject}
  /\ callback' = [callback EXCEPT ![k].step = "linked", ![k].at = now]
  /\ UNCHANGED <<now, attempt, session, profiles, request, sweep, minted>>

\* create_session with a token drawn for it.
MintSession(k, t) ==
  /\ At(k, "linked")
  /\ session[t] = None
  /\ session' = [session EXCEPT ![t] = Minted(callback[k].subject, callback[k].at)]
  /\ minted' = minted \cup {[attempt |-> callback[k].attempt, token |-> t,
                             account |-> callback[k].subject]}
  /\ callback' = [callback EXCEPT ![k] = None]
  /\ UNCHANGED <<now, attempt, linked, profiles, request, sweep>>

\* The provider or the database fails, the browser leaves, the server stops.
Drop(k) ==
  /\ callback[k] # None
  /\ callback' = [callback EXCEPT ![k] = None]
  /\ UNCHANGED <<now, attempt, session, linked, profiles, request, sweep, minted>>

-----------------------------------------------------------------------------
\* An authenticated request has read the clock; it may have come to name its
\* account (set_handle) ...
Ask(r, t, handle) ==
  /\ CanStart
  /\ request[r] = None /\ session[t] # None
  /\ request' = [request EXCEPT ![r] =
       [step |-> "asked", token |-> t, account |-> None, handle |-> handle, at |-> now]]
  /\ UNCHANGED <<now, attempt, session, linked, profiles, callback, sweep, minted>>

\* ... and resolves its session: it is malformed to a clock that is behind its
\* last use, deleted once it has expired, and used otherwise.
Resolved(row, at) ==
  CASE at < row.used                        -> row
    [] row.used <= at /\ row.expires <= at  -> Gone
    [] row.used <= at /\ at < row.expires   -> [row EXCEPT !.used = at]

Live(t) == session[t] \notin {None, Gone}

Reached(r, step) == request[r] # None /\ request[r].step = step

\* A mistake would be to write the row back when it has gone in the meantime.
Resolve_WrittenBack(r) ==
  LET t  == request[r].token
      at == request[r].at
  IN
    /\ Reached(r, "asked")
    /\ session' = [session EXCEPT ![t] =
         IF Live(t) THEN Resolved(@, at)
         ELSE IF \E x \in minted : x.token = t
         THEN Minted((CHOOSE x \in minted : x.token = t).account, at) ELSE @]
    /\ request' = [request EXCEPT ![r] = None]
    /\ UNCHANGED <<now, attempt, linked, profiles, callback, sweep, minted>>
Resolve(r) ==
  LET t == request[r].token
      at == request[r].at
      valid == Live(t) /\ session[t].used <= at /\ at < session[t].expires
  IN
    /\ Reached(r, "asked")
    /\ session' = IF Live(t) THEN [session EXCEPT ![t] = Resolved(@, at)] ELSE session
    /\ request' = [request EXCEPT ![r] =
         IF valid /\ request[r].handle # None
         THEN [request[r] EXCEPT !.step = "known", !.account = session[t].account, !.at = None]
         ELSE None]
    /\ UNCHANGED <<now, attempt, linked, profiles, callback, sweep, minted>>

\* development_login: the account is a digest of the name, there is no session yet.
DevelopmentLogin(r, handle) ==
  /\ development /\ CanStart
  /\ request[r] = None
  /\ request' = [request EXCEPT ![r] =
       [step |-> "known", token |-> None, account |-> handle, handle |-> handle, at |-> None]]
  /\ UNCHANGED <<now, attempt, session, linked, profiles, callback, sweep, minted>>

HandleFree(handle) == \A a \in Accounts : profile[a] # handle

\* The answer of assign_handle; a login reads the clock when it has it.
Named(r, names) ==
  LET asked == request[r] IN
    [request EXCEPT ![r] =
       IF names[asked.account] = asked.handle
       THEN [asked EXCEPT !.step = "named", !.at = IF asked.token = None THEN now ELSE None]
       ELSE None]

\* assign_handle reads both tables of names ...
FindHandle(r) ==
  LET asked == request[r] IN
    /\ Reached(r, "known")
    /\ request' = IF profile[asked.account] = None /\ HandleFree(asked.handle)
                  THEN [request EXCEPT ![r].step = "free"] ELSE Named(r, profile)
    /\ UNCHANGED <<now, attempt, session, linked, profiles, callback, sweep, minted>>

\* ... and inserts, which the two unique keys may refuse; then it reads again.
\* A mistake would be a key on the account alone.
InsertHandle_AccountKey(r) ==
  LET asked == request[r] IN
    /\ Reached(r, "free")
    /\ profile' = IF profile[asked.account] = None
                  THEN [profile EXCEPT ![asked.account] = asked.handle] ELSE profile
    /\ request' = Named(r, profile')
    /\ UNCHANGED <<now, development, attempt, session, linked, callback, sweep, minted>>
InsertHandle(r) ==
  LET asked == request[r] IN
    /\ Reached(r, "free")
    /\ profile' = IF profile[asked.account] = None /\ HandleFree(asked.handle)
                  THEN [profile EXCEPT ![asked.account] = asked.handle] ELSE profile
    /\ request' = Named(r, profile')
    /\ UNCHANGED <<now, development, attempt, session, linked, callback, sweep, minted>>

\* set_handle answers, a login gets its session.
AnswerHandle(r) ==
  /\ Reached(r, "named") /\ request[r].token # None
  /\ request' = [request EXCEPT ![r] = None]
  /\ UNCHANGED <<now, attempt, session, linked, profiles, callback, sweep, minted>>

LogIn(r, t) ==
  /\ Reached(r, "named") /\ request[r].token = None
  /\ session[t] = None
  /\ session' = [session EXCEPT ![t] = Minted(request[r].account, request[r].at)]
  /\ request' = [request EXCEPT ![r] = None]
  /\ UNCHANGED <<now, attempt, linked, profiles, callback, sweep, minted>>

\* A request is dropped before its transaction commits.
Leave(r) ==
  /\ request[r] # None
  /\ request' = [request EXCEPT ![r] = None]
  /\ UNCHANGED <<now, attempt, session, linked, profiles, callback, sweep, minted>>

Revoked(t) == [session EXCEPT ![t] = Gone]

Logout(t) ==
  /\ Live(t)
  /\ session' = Revoked(t)
  /\ UNCHANGED <<now, attempt, linked, profiles, callback, request, sweep, minted>>

-----------------------------------------------------------------------------
\* cleanup_expired_auth_records, with the time scheduler_loop read.
BeginSweep ==
  /\ sweep = None
  /\ sweep' = [at |-> now, step |-> "sessions"]
  /\ UNCHANGED <<now, attempt, session, linked, profiles, callback, request, minted>>

SessionsSwept == [t \in Tokens |-> IF Live(t) /\ session[t].expires <= sweep.at
                                   THEN Gone ELSE session[t]]

\* A mistake would be to return after the sessions.
SweepSessions_Return ==
  /\ sweep # None /\ sweep.step = "sessions"
  /\ session' = SessionsSwept
  /\ sweep' = None
  /\ UNCHANGED <<now, attempt, linked, profiles, callback, request, minted>>
SweepSessions ==
  /\ sweep # None /\ sweep.step = "sessions"
  /\ session' = SessionsSwept
  /\ sweep' = [sweep EXCEPT !.step = "attempts"]
  /\ UNCHANGED <<now, attempt, linked, profiles, callback, request, minted>>

Spent(a) == /\ attempt[a] \notin {None, Gone}
            /\ attempt[a].status = "consumed" \/ attempt[a].expires <= sweep.at

SweepAttempts ==
  /\ sweep # None /\ sweep.step = "attempts"
  /\ attempt' = [a \in Attempts |-> IF Spent(a) THEN Gone ELSE attempt[a]]
  /\ sweep' = None
  /\ UNCHANGED <<now, session, linked, profiles, callback, request, minted>>

\* A deletion fails, which also skips the next one, or the server stops.
SweepFails ==
  /\ sweep # None
  /\ sweep' = None
  /\ UNCHANGED <<now, attempt, session, linked, profiles, callback, request, minted>>

Tick == /\ now < MaxTime
        /\ now' = now + 1
        /\ UNCHANGED <<attempt, session, linked, profiles, callback, request, sweep, minted>>

Next ==
  \/ \E a \in Attempts : StartSignIn(a) \/ \E k \in Callbacks : Return(k, a)
  \/ \E k \in Callbacks :
       \/ Claim(k) \/ LinkIdentity(k) \/ Drop(k)
       \/ \E who \in Subjects : Exchange(k, who)
       \/ \E t \in Tokens : MintSession(k, t)
  \/ \E t \in Tokens : Logout(t) \/ \E r \in Requests : LogIn(r, t)
  \/ \E r \in Requests :
       \/ \E t \in Tokens, handle \in Handles \cup {None} : Ask(r, t, handle)
       \/ \E handle \in Handles : DevelopmentLogin(r, handle)
       \/ Resolve(r) \/ FindHandle(r) \/ InsertHandle(r) \/ AnswerHandle(r) \/ Leave(r)
  \/ BeginSweep \/ SweepSessions \/ SweepAttempts \/ SweepFails
  \/ Tick

\* The scheduler goes round for as long as the server runs, and the database
\* does not fail every one of its deletions.
Fairness == WF_vars(BeginSweep) /\ SF_vars(SweepSessions) /\ SF_vars(SweepAttempts)

Spec == Init /\ [][Next]_vars /\ Fairness

-----------------------------------------------------------------------------
\* A callback by what it has learned, and a request.
CallbackRow ==
  {c \in [attempt : Attempts, step : {"asked", "claimed", "verified", "linked"},
          at : Times \cup {None}, subject : Subjects \cup {None}] :
     /\ c.step \in {"asked", "linked"} => c.at \in Times
     /\ c.step \in {"verified", "linked"} => c.subject \in Subjects}

RequestRow ==
  {q \in [step : {"asked", "known", "free", "named"}, token : Tokens \cup {None},
          account : Accounts \cup {None}, handle : Handles \cup {None}, at : Times \cup {None}] :
     /\ q.step = "asked" => q.token \in Tokens /\ q.at \in Times
     /\ q.step # "asked" => q.account \in Accounts /\ q.handle \in Handles
     /\ q.step = "named" /\ q.token = None => q.at \in Times}

\* The rows of the tables and the handlers under way are well formed.
TypeOK ==
  /\ now \in Times /\ development \in BOOLEAN
  /\ attempt \in [Attempts -> AttemptRow \cup {None, Gone}]
  /\ session \in [Tokens -> SessionRow \cup {None, Gone}]
  /\ linked \subseteq Subjects
  /\ profile \in [Accounts -> Handles \cup {None}]
  /\ callback \in [Callbacks -> CallbackRow \cup {None}]
  /\ request \in [Requests -> RequestRow \cup {None}]
  /\ sweep \in [at : Times, step : {"sessions", "attempts"}] \cup {None}
  /\ minted \subseteq [attempt : Attempts, token : Tokens, account : Subjects]

\* One start of a sign-in gives one session, however often the browser comes
\* back and whatever the cleanup deletes in between, and the session is of an
\* account that was linked first.
OneSessionPerSignIn ==
  /\ \A x, y \in minted : x.attempt = y.attempt \/ x.token = y.token => x = y
  /\ \A x \in minted : x.account \in linked

\* The tables implement the service in memory that says what they are for: no
\* order of requests, clocks and cleanup makes a session last longer than it was
\* given, brings back one that was deleted, or marks it used when it had expired.
Service == INSTANCE IdentityService WITH
  Identities <- Subjects, Hashes <- Tokens, Clock <- 0..MaxTime + SessionLife,
  Unlinked <- None, NoSession <- None, RevokedSession <- Gone,
  identities <- [s \in Subjects |-> IF s \in linked THEN s ELSE None],
  sessions <- session

ImplementsIdentityService == Service!Spec

\* A handle is for good and of one account, although two requests may both have
\* found it free, and whoever is told that a handle is theirs has it.
HandlesAreForGood ==
  /\ [][\A a \in Accounts : profile[a] # None => profile'[a] = profile[a]]_profile
  /\ [](\A a, b \in Accounts : profile[a] # None /\ profile[a] = profile[b] => a = b)
  /\ [](\A r \in Requests : Reached(r, "named") => profile[request[r].account] = request[r].handle)

\* A sign-in that was used and a session that has expired do not stay in the
\* database, whether or not anybody asks for them again.
SpentRowsAreSwept ==
  /\ \A a \in Attempts :
       attempt[a] \notin {None, Gone} /\ attempt[a].status = "consumed" ~> attempt[a] = Gone
  /\ \A t \in Tokens : Live(t) /\ session[t].expires <= now ~> session[t] = Gone
=============================================================================
