---------------------------- MODULE SignInProofs ----------------------------
(***************************************************************************)
(* What SignIn promises, for any number of users, tokens, handlers and     *)
(* handles, and for attempts and sessions of any length.  Its tables keep  *)
(* the promises of IdentityService; one sign-in gives one session because  *)
(* an attempt is claimed once and its row never comes back; and handles    *)
(* are for good because the insertion looks at both keys again.            *)
(***************************************************************************)
EXTENDS SignIn, TLAPS

-----------------------------------------------------------------------------
(* A new session lasts longer than the moment it is made at. *)
LEMMA MintedIsASession ==
  ASSUME NEW account \in Accounts, NEW at \in Times
  PROVE  /\ Minted(account, at) \in SessionRow
         /\ Minted(account, at) \notin {None, Gone}
         /\ at < at + SessionLife
  BY RowsAssumption, LivesAssumption, BoundsAssumption DEF Minted, SessionRow, Times

(* A session that is resolved stays a session, or goes. *)
LEMMA ResolvedIsASession ==
  ASSUME NEW row \in SessionRow, NEW at \in Times
  PROVE  /\ Resolved(row, at) \in SessionRow \cup {Gone}
         /\ row.used <= at /\ at < row.expires =>
              Resolved(row, at) = [row EXCEPT !.used = at] /\ Resolved(row, at) \in SessionRow
         /\ ~(row.used <= at /\ at < row.expires) => Resolved(row, at) \in {row, Gone}
<1>1. at \in Nat /\ row.used \in Nat /\ row.expires \in Nat
  BY BoundsAssumption DEF Times, SessionRow
<1>2. [row EXCEPT !.used = at] \in SessionRow
  BY DEF SessionRow
<1> QED
  BY <1>1, <1>2 DEF Resolved

(* The answer about a handle is about a request that was waiting for it. *)
LEMMA NamedTypes ==
  ASSUME TypeOK, NEW r \in Requests, request[r] # None, request[r].step # "asked",
         NEW names
  PROVE  Named(r, names) \in [Requests -> RequestRow \cup {None}]
<1> DEFINE asked == request[r]
           new == [asked EXCEPT !.step = "named", !.at = IF asked.token = None THEN now ELSE None]
<1>1. asked \in RequestRow /\ asked.step # "asked"
  BY DEF TypeOK
<1>2. new \in RequestRow
  BY <1>1 DEF RequestRow, TypeOK
<1>3. Named(r, names) = [request EXCEPT ![r] = IF names[asked.account] = asked.handle THEN new ELSE None]
  BY DEF Named
<1> HIDE DEF asked, new
<1> QED
  BY <1>2, <1>3 DEF TypeOK

-----------------------------------------------------------------------------
LEMMA InitType == Init => TypeOK
<1> SUFFICES ASSUME Init
             PROVE  TypeOK
  OBVIOUS
<1>1. 0 \in Times
  BY BoundsAssumption DEF Times
<1>2. linked \subseteq Subjects
  BY DEF Init
<1>3. {Minted(s, 0) : s \in linked} \subseteq SessionRow
  BY <1>1, <1>2, MintedIsASession DEF Accounts
<1>4. session \in SessionsOf(linked)
  BY DEF Init
<1>5. session \in [Tokens -> SessionRow \cup {None, Gone}]
  BY <1>3, <1>4 DEF SessionsOf
<1> QED
  BY <1>1, <1>2, <1>5 DEF Init, TypeOK

(* The steps of a callback. *)
LEMMA CallbackType ==
  ASSUME TypeOK, NEW k \in Callbacks,
         \/ Claim(k) \/ LinkIdentity(k) \/ Drop(k)
         \/ \E who \in Subjects : Exchange(k, who)
         \/ \E t \in Tokens : MintSession(k, t)
  PROVE  TypeOK'
<1> DEFINE c == callback[k]
<1>1. c # None => c \in CallbackRow
  BY DEF TypeOK
<1> USE RowsAssumption
<1>2. CASE Claim(k)
  <2>1. c \in CallbackRow /\ c.step = "asked" /\ c.attempt \in Attempts
    BY <1>1, <1>2 DEF Claim, At, CallbackRow
  <2>2. [c EXCEPT !.step = "claimed", !.at = None] \in CallbackRow
    BY <2>1 DEF CallbackRow
  <2>3. callback' \in [Callbacks -> CallbackRow \cup {None}]
    <3> HIDE DEF c
    <3>1. callback' = [callback EXCEPT ![k] = [c EXCEPT !.step = "claimed", !.at = None]]
          \/ callback' = [callback EXCEPT ![k] = None]
      BY <1>2 DEF Claim, c
    <3> QED
      BY <2>2, <3>1 DEF TypeOK
  <2>4. attempt' \in [Attempts -> AttemptRow \cup {None, Gone}]
    <3>1. CASE Claimable(c.attempt, c.at) /\ attempt' = [attempt EXCEPT ![c.attempt].status = "consumed"]
      <4>1. attempt[c.attempt] \in AttemptRow
        BY <2>1, <3>1 DEF TypeOK, Claimable
      <4>2. [attempt[c.attempt] EXCEPT !.status = "consumed"] \in AttemptRow
        BY <4>1 DEF AttemptRow
      <4> QED
        BY <3>1, <4>2 DEF TypeOK
    <3>2. CASE attempt' = [attempt EXCEPT ![c.attempt] = Gone] \/ attempt' = attempt
      BY <3>2 DEF TypeOK
    <3> QED
      BY <1>2, <3>1, <3>2 DEF Claim
  <2> QED
    BY <1>2, <2>3, <2>4 DEF Claim, TypeOK, profiles
<1>3. ASSUME NEW who \in Subjects, Exchange(k, who)
      PROVE  TypeOK'
  <2>1. c \in CallbackRow
    BY <1>1, <1>3 DEF Exchange, At
  <2>2. [c EXCEPT !.step = "verified", !.subject = who] \in CallbackRow
    BY <2>1 DEF CallbackRow
  <2>3. callback' \in [Callbacks -> CallbackRow \cup {None}]
    BY <1>3, <2>2 DEF Exchange, TypeOK
  <2> QED
    BY <1>3, <2>3 DEF Exchange, TypeOK, profiles
<1>4. CASE LinkIdentity(k)
  <2>1. c \in CallbackRow /\ c.subject \in Subjects
    BY <1>1, <1>4 DEF LinkIdentity, At, CallbackRow
  <2>2. [c EXCEPT !.step = "linked", !.at = now] \in CallbackRow
    BY <2>1 DEF CallbackRow, TypeOK
  <2>3. callback' \in [Callbacks -> CallbackRow \cup {None}] /\ linked' \subseteq Subjects
    BY <1>4, <2>1, <2>2 DEF LinkIdentity, TypeOK
  <2> QED
    BY <1>4, <2>3 DEF LinkIdentity, TypeOK, profiles
<1>5. ASSUME NEW t \in Tokens, MintSession(k, t)
      PROVE  TypeOK'
  <2>1. c \in CallbackRow /\ c.subject \in Subjects /\ c.at \in Times /\ c.attempt \in Attempts
    BY <1>1, <1>5 DEF MintSession, At, CallbackRow
  <2>2. Minted(c.subject, c.at) \in SessionRow
    BY <2>1, MintedIsASession DEF Accounts
  <2>3. session' \in [Tokens -> SessionRow \cup {None, Gone}]
    BY <1>5, <2>2 DEF MintSession, TypeOK
  <2>4. minted' \subseteq [attempt : Attempts, token : Tokens, account : Subjects]
    BY <1>5, <2>1 DEF MintSession, TypeOK
  <2> QED
    BY <1>5, <2>3, <2>4 DEF MintSession, TypeOK, profiles
<1>6. CASE Drop(k)
  BY <1>6 DEF Drop, TypeOK, profiles
<1> QED
  BY <1>2, <1>3, <1>4, <1>5, <1>6

(* The steps of a request. *)
LEMMA RequestType ==
  ASSUME TypeOK, NEW r \in Requests,
         \/ \E t \in Tokens, handle \in Handles \cup {None} : Ask(r, t, handle)
         \/ \E handle \in Handles : DevelopmentLogin(r, handle)
         \/ \E t \in Tokens : LogIn(r, t)
         \/ Resolve(r) \/ FindHandle(r) \/ InsertHandle(r) \/ AnswerHandle(r) \/ Leave(r)
  PROVE  TypeOK'
<1> DEFINE q == request[r]
<1> USE RowsAssumption
<1>1. q # None => q \in RequestRow
  BY DEF TypeOK
<1>2. ASSUME NEW t \in Tokens, NEW handle \in Handles \cup {None}, Ask(r, t, handle)
      PROVE  TypeOK'
  <2>1. [step |-> "asked", token |-> t, account |-> None, handle |-> handle, at |-> now] \in RequestRow
    BY DEF RequestRow, TypeOK
  <2> QED
    BY <1>2, <2>1 DEF Ask, TypeOK, profiles
<1>3. ASSUME NEW handle \in Handles, DevelopmentLogin(r, handle)
      PROVE  TypeOK'
  <2>1. [step |-> "known", token |-> None, account |-> handle, handle |-> handle, at |-> None] \in RequestRow
    BY DEF RequestRow, Accounts
  <2> QED
    BY <1>3, <2>1 DEF DevelopmentLogin, TypeOK, profiles
<1>4. ASSUME NEW t \in Tokens, LogIn(r, t)
      PROVE  TypeOK'
  <2>1. q \in RequestRow /\ q.account \in Accounts /\ q.at \in Times
    BY <1>1, <1>4 DEF LogIn, Reached, RequestRow
  <2>2. Minted(q.account, q.at) \in SessionRow
    BY <2>1, MintedIsASession
  <2> QED
    BY <1>4, <2>2 DEF LogIn, TypeOK, profiles
<1>5. CASE Resolve(r)
  <2>1. q \in RequestRow /\ q.token \in Tokens /\ q.at \in Times
    BY <1>1, <1>5 DEF Resolve, Reached, RequestRow
  <2>2. session' \in [Tokens -> SessionRow \cup {None, Gone}]
    <3>1. CASE Live(q.token)
      <4>1. Resolved(session[q.token], q.at) \in SessionRow \cup {Gone}
        BY <2>1, <3>1, ResolvedIsASession DEF Live, TypeOK
      <4> QED
        BY <1>5, <3>1, <4>1 DEF Resolve, TypeOK
    <3>2. CASE ~Live(q.token)
      BY <1>5, <3>2 DEF Resolve, TypeOK
    <3> QED
      BY <3>1, <3>2
  <2>3. request' \in [Requests -> RequestRow \cup {None}]
    <3>1. CASE request' = [request EXCEPT ![r] = None]
      BY <3>1 DEF TypeOK
    <3>2. CASE /\ Live(q.token) /\ q.handle # None
               /\ request' = [request EXCEPT ![r] =
                    [q EXCEPT !.step = "known", !.account = session[q.token].account, !.at = None]]
      <4>1. session[q.token].account \in Accounts
        BY <2>1, <3>2 DEF Live, TypeOK, SessionRow
      <4>2. [q EXCEPT !.step = "known", !.account = session[q.token].account, !.at = None] \in RequestRow
        BY <2>1, <3>2, <4>1 DEF RequestRow
      <4> QED
        BY <3>2, <4>2 DEF TypeOK
    <3> QED
      BY <1>5, <3>1, <3>2 DEF Resolve
  <2> QED
    BY <1>5, <2>2, <2>3 DEF Resolve, TypeOK, profiles
<1>6. CASE FindHandle(r)
  <2>1. q \in RequestRow /\ q.step = "known"
    BY <1>1, <1>6 DEF FindHandle, Reached
  <2>2. [q EXCEPT !.step = "free"] \in RequestRow
    BY <2>1 DEF RequestRow
  <2>3. Named(r, profile) \in [Requests -> RequestRow \cup {None}]
    BY <1>6, NamedTypes DEF FindHandle, Reached
  <2>4. request' \in [Requests -> RequestRow \cup {None}]
    BY <1>6, <2>2, <2>3 DEF FindHandle, TypeOK
  <2> QED
    BY <1>6, <2>4 DEF FindHandle, TypeOK, profiles
<1>7. CASE InsertHandle(r)
  <2>1. q \in RequestRow /\ q.account \in Accounts /\ q.handle \in Handles
    BY <1>1, <1>7 DEF InsertHandle, Reached, RequestRow
  <2>2. profile' \in [Accounts -> Handles \cup {None}]
    BY <1>7, <2>1 DEF InsertHandle, TypeOK
  <2>3. request' \in [Requests -> RequestRow \cup {None}]
    BY <1>7, NamedTypes DEF InsertHandle, Reached
  <2> QED
    BY <1>7, <2>2, <2>3 DEF InsertHandle, TypeOK, profiles
<1>8. CASE AnswerHandle(r) \/ Leave(r)
  BY <1>8 DEF AnswerHandle, Leave, TypeOK, profiles
<1> QED
  BY <1>2, <1>3, <1>4, <1>5, <1>6, <1>7, <1>8

(* The cleanup, and everything else. *)
LEMMA NextType == TypeOK /\ [Next]_vars => TypeOK'
<1> SUFFICES ASSUME TypeOK, [Next]_vars
             PROVE  TypeOK'
  OBVIOUS
<1> USE RowsAssumption
<1>1. CASE UNCHANGED vars
  BY <1>1 DEF TypeOK, vars, profiles
<1>2. ASSUME NEW a \in Attempts, StartSignIn(a)
      PROVE  TypeOK'
  <2>1. [expires |-> now + AttemptLife, status |-> "pending"] \in AttemptRow
    BY LivesAssumption, BoundsAssumption DEF AttemptRow, TypeOK, Times
  <2> QED
    BY <1>2, <2>1 DEF StartSignIn, TypeOK, profiles
<1>3. ASSUME NEW k \in Callbacks, NEW a \in Attempts, Return(k, a)
      PROVE  TypeOK'
  <2>1. [attempt |-> a, step |-> "asked", at |-> now, subject |-> None] \in CallbackRow
    BY DEF CallbackRow, TypeOK
  <2> QED
    BY <1>3, <2>1 DEF Return, TypeOK, profiles
<1>4. ASSUME NEW k \in Callbacks,
             \/ Claim(k) \/ LinkIdentity(k) \/ Drop(k)
             \/ \E who \in Subjects : Exchange(k, who)
             \/ \E t \in Tokens : MintSession(k, t)
      PROVE  TypeOK'
  BY <1>4, CallbackType
<1>5. ASSUME NEW t \in Tokens, Logout(t)
      PROVE  TypeOK'
  BY <1>5 DEF Logout, Revoked, TypeOK, profiles
<1>6. ASSUME NEW r \in Requests,
             \/ \E t \in Tokens, handle \in Handles \cup {None} : Ask(r, t, handle)
             \/ \E handle \in Handles : DevelopmentLogin(r, handle)
             \/ \E t \in Tokens : LogIn(r, t)
             \/ Resolve(r) \/ FindHandle(r) \/ InsertHandle(r) \/ AnswerHandle(r) \/ Leave(r)
      PROVE  TypeOK'
  BY <1>6, RequestType
<1>7. CASE BeginSweep
  BY <1>7 DEF BeginSweep, TypeOK, profiles
<1>8. CASE SweepSessions
  <2>1. SessionsSwept \in [Tokens -> SessionRow \cup {None, Gone}]
    BY DEF SessionsSwept, TypeOK
  <2>2. sweep' \in [at : Times, step : {"sessions", "attempts"}] \cup {None}
    BY <1>8 DEF SweepSessions, TypeOK
  <2> QED
    BY <1>8, <2>1, <2>2 DEF SweepSessions, TypeOK, profiles
<1>9. CASE SweepAttempts
  BY <1>9 DEF SweepAttempts, TypeOK, profiles
<1>10. CASE SweepFails
  BY <1>10 DEF SweepFails, TypeOK, profiles
<1>11. CASE Tick
  BY <1>11, BoundsAssumption DEF Tick, TypeOK, Times, profiles
<1> QED
  BY <1>1, <1>2, <1>3, <1>4, <1>5, <1>6, <1>7, <1>8, <1>9, <1>10, <1>11 DEF Next

(* The tables and the handlers under way are well formed, however many     *)
(* users, tokens and handlers there are.                                   *)
THEOREM TypeCorrect == Spec => []TypeOK
  BY InitType, NextType, PTL DEF Spec

-----------------------------------------------------------------------------
(* The row of an attempt that was claimed is consumed or deleted.          *)
Consumed(table, a) == table[a] = Gone \/ (table[a] \in AttemptRow /\ table[a].status = "consumed")

(* The callback has claimed its attempt. *)
Holds(k) == callback[k] # None /\ callback[k].step # "asked"

(* One callback at most goes on with an attempt, and none does once it has *)
(* given its session: claim_oidc_attempt consumes the row in the           *)
(* transaction that finds it pending, and no row comes back.               *)
ClaimedOnce ==
  /\ \A k \in Callbacks : Holds(k) => Consumed(attempt, callback[k].attempt)
  /\ \A j, k \in Callbacks :
       Holds(j) /\ Holds(k) /\ callback[j].attempt = callback[k].attempt => j = k
  /\ \A k \in Callbacks, x \in minted : Holds(k) => callback[k].attempt # x.attempt
  /\ \A k \in Callbacks : At(k, "linked") => callback[k].subject \in linked
  /\ \A x \in minted : Consumed(attempt, x.attempt) /\ session[x.token] # None

SessionInv == TypeOK /\ ClaimedOnce /\ OneSessionPerSignIn

(* An attempt that was consumed stays so. *)
LEMMA ConsumedStays ==
  ASSUME TypeOK, [Next]_vars, NEW a \in Attempts, Consumed(attempt, a)
  PROVE  Consumed(attempt', a)
<1> USE RowsAssumption
<1>1. CASE attempt' = attempt
  BY <1>1 DEF Consumed
<1>2. ASSUME NEW b \in Attempts, StartSignIn(b)
      PROVE  Consumed(attempt', a)
  <2>1. a # b
    BY <1>2, NullsAssumption DEF StartSignIn, Consumed
  <2> QED
    BY <1>2, <2>1 DEF StartSignIn, Consumed, TypeOK
<1>3. ASSUME NEW k \in Callbacks, Claim(k)
      PROVE  Consumed(attempt', a)
  <2> DEFINE b == callback[k].attempt
  <2>1. b # a \/ attempt[a] = Gone \/ attempt[a].status # "pending"
    BY DEF Consumed
  <2>2. attempt'[a] \in {attempt[a], Gone}
    BY <1>3, <2>1 DEF Claim, Claimable, Overdue, TypeOK
  <2> QED
    BY <2>2 DEF Consumed
<1>4. CASE SweepAttempts
  <2>1. attempt'[a] \in {attempt[a], Gone}
    BY <1>4 DEF SweepAttempts
  <2> QED
    BY <2>1 DEF Consumed
<1> QED
  BY <1>1, <1>2, <1>3, <1>4
     DEF Next, vars, Return, LinkIdentity, Drop, Exchange, MintSession, Logout, LogIn, Ask,
         DevelopmentLogin, Resolve, FindHandle, InsertHandle, AnswerHandle, Leave, BeginSweep,
         SweepSessions, SweepFails, Tick

(* A token that was given out is never given out again. *)
LEMMA TokensAreSpent ==
  ASSUME TypeOK, [Next]_vars, NEW t \in Tokens, session[t] # None
  PROVE  session'[t] # None
<1> USE RowsAssumption, NullsAssumption
<1>1. CASE session' = session
  BY <1>1
<1>2. ASSUME NEW k \in Callbacks, NEW u \in Tokens, MintSession(k, u)
      PROVE  session'[t] # None
  BY <1>2 DEF MintSession, TypeOK
<1>3. ASSUME NEW r \in Requests, NEW u \in Tokens, LogIn(r, u)
      PROVE  session'[t] # None
  BY <1>3 DEF LogIn, TypeOK
<1>4. ASSUME NEW r \in Requests, Resolve(r)
      PROVE  session'[t] # None
  <2> DEFINE q == request[r]
  <2>1. q.token \in Tokens /\ q.at \in Times
    BY <1>4 DEF Resolve, Reached, TypeOK, RequestRow
  <2>2. CASE Live(q.token)
    <3>1. Resolved(session[q.token], q.at) \in SessionRow \cup {Gone}
      BY <2>1, <2>2, ResolvedIsASession DEF Live, TypeOK
    <3> QED
      BY <1>4, <2>2, <3>1 DEF Resolve, TypeOK
  <2>3. CASE ~Live(q.token)
    BY <1>4, <2>3 DEF Resolve
  <2> QED
    BY <2>2, <2>3
<1>5. ASSUME NEW u \in Tokens, Logout(u)
      PROVE  session'[t] # None
  BY <1>5 DEF Logout, Revoked, TypeOK
<1>6. CASE SweepSessions
  BY <1>6 DEF SweepSessions, SessionsSwept
<1> QED
  BY <1>1, <1>2, <1>3, <1>4, <1>5, <1>6
     DEF Next, vars, StartSignIn, Return, Claim, LinkIdentity, Drop, Exchange, Ask,
         DevelopmentLogin, FindHandle, InsertHandle, AnswerHandle, Leave, BeginSweep,
         SweepAttempts, SweepFails, Tick

(* What the callbacks, the linked users and the sessions made have to do   *)
(* with one another, apart from the rows.                                  *)
LEMMA ClaimsStay ==
  ASSUME SessionInv, [Next]_vars, minted' = minted, linked \subseteq linked',
         \A k \in Callbacks : Holds(k)' => Holds(k) /\ callback'[k].attempt = callback[k].attempt,
         \A k \in Callbacks : At(k, "linked")' => callback'[k].subject \in linked'
  PROVE  ClaimedOnce' /\ OneSessionPerSignIn'
<1>1. \A k \in Callbacks : Holds(k) => callback[k].attempt \in Attempts
  BY DEF SessionInv, TypeOK, Holds, CallbackRow
<1>2. \A x \in minted : x.attempt \in Attempts /\ x.token \in Tokens
  BY DEF SessionInv, TypeOK
<1>3. \A a \in Attempts : Consumed(attempt, a) => Consumed(attempt', a)
  BY ConsumedStays DEF SessionInv
<1>4. \A t \in Tokens : session[t] # None => session'[t] # None
  BY TokensAreSpent DEF SessionInv
<1>5. \A k \in Callbacks : Holds(k)' => Consumed(attempt', callback'[k].attempt)
  <2> SUFFICES ASSUME NEW k \in Callbacks, Holds(k)'
               PROVE  Consumed(attempt', callback'[k].attempt)
    OBVIOUS
  <2>1. Holds(k) /\ callback'[k].attempt = callback[k].attempt /\ callback[k].attempt \in Attempts
    BY <1>1
  <2>2. Consumed(attempt, callback[k].attempt)
    BY <2>1 DEF SessionInv, ClaimedOnce
  <2> QED
    BY <1>3, <2>1, <2>2
<1>6. \A x \in minted' : Consumed(attempt', x.attempt) /\ session'[x.token] # None
  BY <1>2, <1>3, <1>4 DEF SessionInv, ClaimedOnce
<1>7. \A j, k \in Callbacks :
        Holds(j)' /\ Holds(k)' /\ callback'[j].attempt = callback'[k].attempt => j = k
  BY DEF SessionInv, ClaimedOnce
<1>8. \A k \in Callbacks, x \in minted' : Holds(k)' => callback'[k].attempt # x.attempt
  BY DEF SessionInv, ClaimedOnce
<1>9. ClaimedOnce'
  BY <1>5, <1>6, <1>7, <1>8 DEF ClaimedOnce
<1>10. OneSessionPerSignIn'
  BY DEF SessionInv, OneSessionPerSignIn
<1> QED
  BY <1>9, <1>10

(* Claiming an attempt that nobody has claimed. *)
LEMMA ClaimKeeps ==
  ASSUME SessionInv, [Next]_vars, NEW k \in Callbacks, Claim(k)
  PROVE  ClaimedOnce' /\ OneSessionPerSignIn'
<1> DEFINE a == callback[k].attempt
<1>1. callback[k] # None /\ callback[k].step = "asked" /\ callback[k] \in CallbackRow
  BY DEF Claim, At, SessionInv, TypeOK
<1>2. a \in Attempts
  BY <1>1 DEF CallbackRow
<1>3. CASE callback' = [callback EXCEPT ![k] = None]
  <2>1. \A j \in Callbacks : Holds(j)' => Holds(j) /\ callback'[j] = callback[j]
    BY <1>3 DEF Holds, SessionInv, TypeOK
  <2>2. \A j \in Callbacks : At(j, "linked")' => At(j, "linked") /\ callback'[j] = callback[j]
    BY <1>3 DEF At, SessionInv, TypeOK
  <2>3. minted' = minted /\ linked' = linked
    BY DEF Claim
  <2> QED
    BY <2>1, <2>2, <2>3, ClaimsStay DEF SessionInv, ClaimedOnce
<1>4. CASE Claimable(a, callback[k].at) /\ attempt' = [attempt EXCEPT ![a].status = "consumed"]
           /\ callback' = [callback EXCEPT ![k].step = "claimed", ![k].at = None]
  <2> DEFINE new == [callback[k] EXCEPT !.step = "claimed", !.at = None]
  <2>1. callback' = [callback EXCEPT ![k] = new]
    BY <1>4
  <2>2. new.attempt = a /\ new.step = "claimed"
    BY <1>1 DEF CallbackRow
  <2>3. attempt[a] \in AttemptRow /\ attempt[a].status = "pending" /\ attempt[a] # Gone
    BY <1>2, <1>4 DEF Claimable, SessionInv, TypeOK
  <2>4. ~Consumed(attempt, a)
    BY <2>3 DEF Consumed
  <2>5. [attempt[a] EXCEPT !.status = "consumed"] \in AttemptRow
        /\ [attempt[a] EXCEPT !.status = "consumed"].status = "consumed"
    BY <2>3 DEF AttemptRow
  <2>6. Consumed(attempt', a)
    BY <1>2, <1>4, <2>5 DEF Consumed, SessionInv, TypeOK
  <2>7. \A j \in Callbacks : j # k => callback'[j] = callback[j]
    BY <2>1 DEF SessionInv, TypeOK
  <2>8. callback'[k] = new
    BY <2>1 DEF SessionInv, TypeOK
  <2> HIDE DEF new
  <2>9. \A b \in Attempts : Consumed(attempt, b) => Consumed(attempt', b)
    BY ConsumedStays DEF SessionInv
  <2>10. minted' = minted /\ linked' = linked /\ session' = session
    BY DEF Claim
  <2>11. \A j \in Callbacks : Holds(j) => callback[j].attempt \in Attempts
    BY DEF SessionInv, TypeOK, Holds, CallbackRow
  <2>12. \A j \in Callbacks : Holds(j) => callback[j].attempt # a
    BY <2>4 DEF SessionInv, ClaimedOnce
  <2>13. \A x \in minted : x.attempt # a /\ x.attempt \in Attempts
    BY <2>4 DEF SessionInv, ClaimedOnce, TypeOK
  <2>14. \A j \in Callbacks : Holds(j)' => j = k \/ (Holds(j) /\ callback'[j] = callback[j])
    BY <2>7 DEF Holds
  <2>15. \A j \in Callbacks : Holds(j)' => Consumed(attempt', callback'[j].attempt)
    <3> SUFFICES ASSUME NEW j \in Callbacks, Holds(j)'
                 PROVE  Consumed(attempt', callback'[j].attempt)
      OBVIOUS
    <3>1. CASE j = k
      BY <2>2, <2>6, <2>8, <3>1 DEF Consumed
    <3>2. CASE j # k
      <4>1. Holds(j) /\ callback'[j] = callback[j]
        BY <2>14, <3>2
      <4> DEFINE b == callback[j].attempt
      <4>2. b \in Attempts /\ Consumed(attempt, b)
        BY <2>11, <4>1 DEF SessionInv, ClaimedOnce
      <4> HIDE DEF b
      <4>3. Consumed(attempt', b)
        BY <2>9, <4>2
      <4> QED
        BY <4>1, <4>3 DEF b, Consumed
    <3> QED
      BY <3>1, <3>2
  <2>16. \A i, j \in Callbacks :
           Holds(i)' /\ Holds(j)' /\ callback'[i].attempt = callback'[j].attempt => i = j
    BY <2>2, <2>8, <2>12, <2>14 DEF SessionInv, ClaimedOnce
  <2>17. \A j \in Callbacks, x \in minted' : Holds(j)' => callback'[j].attempt # x.attempt
    BY <2>2, <2>8, <2>10, <2>13, <2>14 DEF SessionInv, ClaimedOnce
  <2>18. \A j \in Callbacks : At(j, "linked")' => callback'[j].subject \in linked'
    BY <2>2, <2>7, <2>8, <2>10 DEF At, SessionInv, ClaimedOnce
  <2>19. \A x \in minted' : Consumed(attempt', x.attempt) /\ session'[x.token] # None
    BY <2>9, <2>10, <2>13 DEF SessionInv, ClaimedOnce
  <2>20. OneSessionPerSignIn'
    BY <2>10 DEF SessionInv, OneSessionPerSignIn
  <2> QED
    BY <2>15, <2>16, <2>17, <2>18, <2>19, <2>20 DEF ClaimedOnce
<1> QED
  BY <1>3, <1>4 DEF Claim

(* The one callback that holds an attempt gives it its one session. *)
LEMMA MintKeeps ==
  ASSUME SessionInv, [Next]_vars, NEW k \in Callbacks, NEW t \in Tokens, MintSession(k, t)
  PROVE  ClaimedOnce' /\ OneSessionPerSignIn'
<1> DEFINE c == callback[k]
           x0 == [attempt |-> c.attempt, token |-> t, account |-> c.subject]
<1>1. At(k, "linked") /\ Holds(k) /\ c \in CallbackRow /\ c.attempt \in Attempts
      /\ c.subject \in Subjects /\ c.at \in Times
  BY DEF MintSession, At, Holds, SessionInv, TypeOK, CallbackRow
<1>2. minted' = minted \cup {x0} /\ linked' = linked /\ attempt' = attempt
  BY DEF MintSession
<1>3. x0.attempt = c.attempt /\ x0.token = t /\ x0.account = c.subject
  OBVIOUS
<1>4. c.subject \in linked
  BY <1>1 DEF SessionInv, ClaimedOnce
<1>5. session[t] = None /\ session'[t] # None
  BY <1>1, MintedIsASession DEF MintSession, SessionInv, TypeOK, Accounts
<1>6. \A u \in Tokens : session[u] # None => session'[u] # None
  BY TokensAreSpent DEF SessionInv
<1>7. \A x \in minted : x.attempt # c.attempt /\ x.token # t /\ x.token \in Tokens
  BY <1>1, <1>5 DEF SessionInv, ClaimedOnce, TypeOK
<1>8. \A j \in Callbacks : callback'[j] # None => j # k /\ callback'[j] = callback[j]
  BY DEF MintSession, SessionInv, TypeOK
<1>9. Consumed(attempt, c.attempt)
  BY <1>1 DEF SessionInv, ClaimedOnce
<1> HIDE DEF c, x0
<1>10. \A j \in Callbacks : Holds(j)' => Holds(j) /\ j # k /\ callback'[j] = callback[j]
  BY <1>8 DEF Holds
<1>11. \A j \in Callbacks : Holds(j)' => Consumed(attempt', callback'[j].attempt)
  BY <1>2, <1>10 DEF SessionInv, ClaimedOnce, Consumed
<1>12. \A i, j \in Callbacks :
         Holds(i)' /\ Holds(j)' /\ callback'[i].attempt = callback'[j].attempt => i = j
  BY <1>10 DEF SessionInv, ClaimedOnce
<1>13. \A j \in Callbacks, x \in minted' : Holds(j)' => callback'[j].attempt # x.attempt
  BY <1>1, <1>2, <1>3, <1>10 DEF SessionInv, ClaimedOnce, c
<1>14. \A j \in Callbacks : At(j, "linked")' => callback'[j].subject \in linked'
  BY <1>2, <1>8 DEF At, SessionInv, ClaimedOnce
<1>15. \A x \in minted' : Consumed(attempt', x.attempt) /\ session'[x.token] # None
  BY <1>2, <1>3, <1>5, <1>6, <1>7, <1>9 DEF SessionInv, ClaimedOnce, Consumed
<1>16. OneSessionPerSignIn'
  BY <1>2, <1>3, <1>4, <1>7 DEF SessionInv, OneSessionPerSignIn
<1> QED
  BY <1>11, <1>12, <1>13, <1>14, <1>15, <1>16 DEF ClaimedOnce

LEMMA NextClaims == SessionInv /\ [Next]_vars => SessionInv'
<1> SUFFICES ASSUME SessionInv, [Next]_vars
             PROVE  ClaimedOnce' /\ OneSessionPerSignIn'
  BY NextType DEF SessionInv
<1>1. CASE callback' = callback /\ minted' = minted /\ linked' = linked
  <2>1. \A k \in Callbacks : (Holds(k)' <=> Holds(k)) /\ (At(k, "linked")' <=> At(k, "linked"))
    BY <1>1 DEF Holds, At
  <2> QED
    BY <1>1, <2>1, ClaimsStay DEF SessionInv, ClaimedOnce
<1>2. ASSUME NEW k \in Callbacks, NEW a \in Attempts, Return(k, a)
      PROVE  ClaimedOnce' /\ OneSessionPerSignIn'
  <2>1. /\ \A j \in Callbacks : j # k => callback'[j] = callback[j]
        /\ callback'[k].step = "asked"
        /\ minted' = minted /\ linked' = linked
    BY <1>2 DEF Return, SessionInv, TypeOK
  <2>2. \A j \in Callbacks : /\ Holds(j)' => Holds(j) /\ callback'[j] = callback[j]
                             /\ At(j, "linked")' => At(j, "linked") /\ callback'[j] = callback[j]
    BY <2>1 DEF Holds, At
  <2> QED
    BY <2>1, <2>2, ClaimsStay DEF SessionInv, ClaimedOnce
<1>3. ASSUME NEW k \in Callbacks, NEW who \in Subjects, Exchange(k, who)
      PROVE  ClaimedOnce' /\ OneSessionPerSignIn'
  <2>1. callback[k] \in CallbackRow /\ At(k, "claimed") /\ Holds(k)
    BY <1>3 DEF Exchange, At, Holds, SessionInv, TypeOK
  <2> DEFINE new == [callback[k] EXCEPT !.step = "verified", !.subject = who]
  <2>2. new.attempt = callback[k].attempt /\ new.step = "verified"
    BY <2>1 DEF CallbackRow
  <2>3. callback' = [callback EXCEPT ![k] = new] /\ minted' = minted /\ linked' = linked
    BY <1>3 DEF Exchange
  <2> HIDE DEF new
  <2>4. callback'[k] = new /\ \A j \in Callbacks : j # k => callback'[j] = callback[j]
    BY <2>3 DEF SessionInv, TypeOK
  <2>5. \A j \in Callbacks : /\ Holds(j)' => Holds(j) /\ callback'[j].attempt = callback[j].attempt
                             /\ At(j, "linked")' => At(j, "linked") /\ callback'[j] = callback[j]
    BY <2>1, <2>2, <2>4 DEF Holds, At
  <2> QED
    BY <2>3, <2>5, ClaimsStay DEF SessionInv, ClaimedOnce
<1>4. ASSUME NEW k \in Callbacks, LinkIdentity(k)
      PROVE  ClaimedOnce' /\ OneSessionPerSignIn'
  <2>1. callback[k] \in CallbackRow /\ At(k, "verified") /\ Holds(k)
    BY <1>4 DEF LinkIdentity, At, Holds, SessionInv, TypeOK
  <2> DEFINE new == [callback[k] EXCEPT !.step = "linked", !.at = now]
  <2>2. new.attempt = callback[k].attempt /\ new.step = "linked" /\ new.subject = callback[k].subject
    BY <2>1 DEF CallbackRow
  <2>3. /\ callback' = [callback EXCEPT ![k] = new] /\ minted' = minted
        /\ linked \subseteq linked' /\ callback[k].subject \in linked'
    BY <1>4 DEF LinkIdentity, Linked
  <2> HIDE DEF new
  <2>4. callback'[k] = new /\ \A j \in Callbacks : j # k => callback'[j] = callback[j]
    BY <2>3 DEF SessionInv, TypeOK
  <2>5. \A j \in Callbacks : Holds(j)' => Holds(j) /\ callback'[j].attempt = callback[j].attempt
    BY <2>1, <2>2, <2>4 DEF Holds, At
  <2>6. \A j \in Callbacks : At(j, "linked")' => callback'[j].subject \in linked'
    BY <2>2, <2>3, <2>4 DEF At, SessionInv, ClaimedOnce
  <2> QED
    BY <2>3, <2>5, <2>6, ClaimsStay
<1>5. ASSUME NEW k \in Callbacks, Drop(k)
      PROVE  ClaimedOnce' /\ OneSessionPerSignIn'
  <2>1. /\ \A j \in Callbacks : callback'[j] # None => callback'[j] = callback[j]
        /\ minted' = minted /\ linked' = linked
    BY <1>5 DEF Drop, SessionInv, TypeOK
  <2>2. \A j \in Callbacks : /\ Holds(j)' => Holds(j) /\ callback'[j] = callback[j]
                             /\ At(j, "linked")' => At(j, "linked") /\ callback'[j] = callback[j]
    BY <2>1 DEF Holds, At
  <2> QED
    BY <2>1, <2>2, ClaimsStay DEF SessionInv, ClaimedOnce
<1> QED
  BY <1>1, <1>2, <1>3, <1>4, <1>5, ClaimKeeps, MintKeeps
     DEF Next, vars, StartSignIn, Logout, LogIn, Ask, DevelopmentLogin, Resolve, FindHandle,
         InsertHandle, AnswerHandle, Leave, BeginSweep, SweepSessions, SweepAttempts, SweepFails, Tick

(* A sign-in that was started once gives one session, of an account that   *)
(* was linked first, for any number of callbacks, lifetimes and failures.  *)
THEOREM OneSessionEach == Spec => []OneSessionPerSignIn
<1>1. Init => SessionInv
  BY InitType DEF Init, SessionInv, ClaimedOnce, OneSessionPerSignIn, Holds, At
<1>2. SessionInv => OneSessionPerSignIn
  BY DEF SessionInv
<1> QED
  BY <1>1, <1>2, NextClaims, PTL DEF Spec

-----------------------------------------------------------------------------
(* The identities of the service, as the table has them.                   *)
Ids == [s \in Subjects |-> IF s \in linked THEN s ELSE None]

LEMMA InitService == Init => Service!Init
<1> SUFFICES ASSUME Init
             PROVE  Service!Init
  OBVIOUS
<1>1. linked \subseteq Subjects /\ session \in SessionsOf(linked)
  BY DEF Init
<1>2. \A t \in Tokens : session[t] = None \/ \E s \in linked : session[t] = Minted(s, 0)
  BY <1>1 DEF SessionsOf
<1>3. \A s \in linked : Minted(s, 0) \in Service!Session
  <2> SUFFICES ASSUME NEW s \in linked
               PROVE  Minted(s, 0) \in Service!Session
    OBVIOUS
  <2>1. s \in Accounts
    BY <1>1 DEF Accounts
  <2>2. 0 \in 0..MaxTime + SessionLife /\ 0 + SessionLife \in 0..MaxTime + SessionLife
    BY BoundsAssumption, LivesAssumption
  <2> QED
    BY <2>1, <2>2 DEF Minted, Service!Session
<1>4. session \in [Tokens -> Service!Session \cup {None}]
  BY <1>1, <1>2, <1>3 DEF SessionsOf
<1>5. Ids \in [Subjects -> Accounts \cup {None}]
  BY DEF Ids, Accounts
<1> QED
  BY <1>4, <1>5 DEF Service!Init, Ids

(* Whoever signs in gets a session of the service. *)
LEMMA MintedService ==
  ASSUME TypeOK, NEW t \in Tokens, NEW account \in Accounts, NEW at \in Times,
         session[t] = None, session' = [session EXCEPT ![t] = Minted(account, at)], linked' = linked
  PROVE  Service!Next
<1>1. Minted(account, at) \notin {None, Gone} /\ at < at + SessionLife
  BY MintedIsASession
<1>2. at \in 0..MaxTime + SessionLife /\ at + SessionLife \in 0..MaxTime + SessionLife
  BY BoundsAssumption, LivesAssumption DEF Times
<1>3. session' = [session EXCEPT ![t] =
                    [account |-> account, expires |-> at + SessionLife, used |-> at]]
  BY DEF Minted
<1>4. Service!CreateSession(t, account, at + SessionLife, at)
  BY <1>1, <1>3 DEF Service!CreateSession, Ids
<1> QED
  BY <1>2, <1>4 DEF Service!Next

(* What a request finds of its session is used, deleted or left alone. *)
LEMMA ResolveService ==
  ASSUME TypeOK, NEW r \in Requests, Resolve(r)
  PROVE  Service!Next \/ (Ids' = Ids /\ session' = session)
<1>1. PICK t \in Tokens, at \in Times :
        /\ t = request[r].token /\ at = request[r].at /\ linked' = linked
        /\ session' = IF Live(t) THEN [session EXCEPT ![t] = Resolved(session[t], at)] ELSE session
  BY DEF Resolve, Reached, TypeOK, RequestRow
<1> DEFINE row == session[t]
<1>2. Ids' = Ids
  BY <1>1 DEF Ids
<1>3. CASE ~Live(t)
  BY <1>1, <1>2, <1>3
<1>4. CASE Live(t)
  <2>1. row \in SessionRow /\ row \notin {None, Gone}
    BY <1>1, <1>4 DEF Live, TypeOK
  <2>2. session' = [session EXCEPT ![t] = Resolved(row, at)]
    BY <1>1, <1>4
  <2> HIDE DEF row
  <2>3. CASE row.used <= at /\ at < row.expires
    <3>1. Resolved(row, at) = [row EXCEPT !.used = at] /\ Resolved(row, at) \notin {None, Gone}
      BY <1>1, <2>1, <2>3, ResolvedIsASession, RowsAssumption
    <3>2. session[t] = row /\ Service!Present(t)
      BY <2>1 DEF row, Service!Present
    <3>3. session' = [session EXCEPT ![t].used = at]
      BY <2>2, <3>1, <3>2
    <3>4. at \in 0..MaxTime + SessionLife
      BY <1>1, BoundsAssumption, LivesAssumption DEF Times
    <3>5. Service!ResolveSession(t, at)
      BY <1>1, <1>2, <2>3, <3>2, <3>3 DEF Service!ResolveSession, Ids
    <3> QED
      BY <1>1, <3>4, <3>5 DEF Service!Next
  <2>4. CASE ~(row.used <= at /\ at < row.expires)
    <3>1. Resolved(row, at) \in {row, Gone}
      BY <1>1, <2>1, <2>4, ResolvedIsASession
    <3>2. CASE Resolved(row, at) = row
      BY <1>2, <2>2, <3>2 DEF TypeOK, row
    <3>3. CASE Resolved(row, at) = Gone
      <4>1. session' = [u \in Tokens |-> IF u \in {t} THEN Gone ELSE session[u]]
        BY <1>1, <2>2, <3>3 DEF TypeOK
      <4>2. Service!RevokeSessions({t})
        BY <1>2, <1>4, <4>1 DEF Service!RevokeSessions, Service!Present, Live, Ids
      <4> QED
        BY <1>1, <4>2 DEF Service!Next
    <3> QED
      BY <3>1, <3>2, <3>3
  <2> QED
    BY <2>3, <2>4
<1> QED
  BY <1>3, <1>4

LEMMA NextService ==
  ASSUME TypeOK, [Next]_vars
  PROVE  Service!Next \/ (Ids' = Ids /\ session' = session)
<1>1. CASE session' = session /\ linked' = linked
  BY <1>1 DEF Ids
<1>2. ASSUME NEW k \in Callbacks, LinkIdentity(k)
      PROVE  Service!Next
  <2>1. PICK s \in Subjects :
          s \in Accounts /\ session' = session /\ linked' = linked \cup {s}
    BY <1>2 DEF LinkIdentity, Linked, At, TypeOK, CallbackRow, Accounts
  <2>2. Ids[s] \in {None, s} /\ Ids' = [Ids EXCEPT ![s] = s]
    BY <2>1 DEF Ids
  <2>3. Service!LinkGoogle(s, s)
    BY <2>1, <2>2 DEF Service!LinkGoogle, Ids
  <2> QED
    BY <2>1, <2>3 DEF Service!Next
<1>3. ASSUME NEW k \in Callbacks, NEW t \in Tokens, MintSession(k, t)
      PROVE  Service!Next
  <2>1. callback[k].subject \in Accounts /\ callback[k].at \in Times
    BY <1>3 DEF MintSession, At, TypeOK, CallbackRow, Accounts
  <2> QED
    BY <1>3, <2>1, MintedService DEF MintSession
<1>4. ASSUME NEW r \in Requests, NEW t \in Tokens, LogIn(r, t)
      PROVE  Service!Next
  <2>1. request[r].account \in Accounts /\ request[r].at \in Times
    BY <1>4 DEF LogIn, Reached, TypeOK, RequestRow
  <2> QED
    BY <1>4, <2>1, MintedService DEF LogIn
<1>5. ASSUME NEW t \in Tokens, Logout(t)
      PROVE  Service!Next
  <2>1. Ids' = Ids /\ session' = [u \in Tokens |-> IF u \in {t} THEN Gone ELSE session[u]]
    BY <1>5 DEF Logout, Revoked, Ids, TypeOK
  <2>2. Service!RevokeSessions({t})
    BY <1>5, <2>1 DEF Service!RevokeSessions, Service!Present, Logout, Live, Ids
  <2> QED
    BY <2>2 DEF Service!Next
<1>6. CASE SweepSessions
  <2>1. PICK spent \in SUBSET Tokens : spent = {t \in Tokens : Live(t) /\ session[t].expires <= sweep.at}
    OBVIOUS
  <2>2. Ids' = Ids /\ session' = [u \in Tokens |-> IF u \in spent THEN Gone ELSE session[u]]
    BY <1>6, <2>1 DEF SweepSessions, SessionsSwept, Ids
  <2>3. Service!RevokeSessions(spent)
    BY <2>1, <2>2 DEF Service!RevokeSessions, Service!Present, Live, Ids
  <2> QED
    BY <2>3 DEF Service!Next
<1> QED
  BY <1>1, <1>2, <1>3, <1>4, <1>5, <1>6, ResolveService
     DEF Next, vars, StartSignIn, Return, Claim, Exchange, Drop, Ask, DevelopmentLogin, FindHandle,
         InsertHandle, AnswerHandle, Leave, BeginSweep, SweepAttempts, SweepFails, Tick

(* The tables keep what identity.rs promises of accounts and sessions,     *)
(* whatever the order in which clocks are read and transactions are run: a *)
(* session that was deleted is not there again.                            *)
THEOREM KeepsIdentities == Spec => ImplementsIdentityService
<1>1. TypeOK /\ [Next]_vars => [Service!Next]_<<Ids, session>>
  BY NextService
<1> QED
  BY <1>1, InitService, TypeCorrect,
     PTL DEF Spec, ImplementsIdentityService, Service!Spec, Ids

-----------------------------------------------------------------------------
HandlesDiffer == \A a, b \in Accounts : profile[a] # None /\ profile[a] = profile[b] => a = b

AnswersHold == \A r \in Requests : Reached(r, "named") => profile[request[r].account] = request[r].handle

HandlesStay == \A a \in Accounts : profile[a] # None => profile'[a] = profile[a]

(* A name that is there is written by nobody. *)
LEMMA ProfilesGrow ==
  ASSUME TypeOK, [Next]_vars
  PROVE  HandlesStay /\ (HandlesDiffer => HandlesDiffer')
<1>1. CASE profile' = profile
  BY <1>1 DEF HandlesStay, HandlesDiffer
<1>2. ASSUME NEW r \in Requests, InsertHandle(r)
      PROVE  HandlesStay /\ (HandlesDiffer => HandlesDiffer')
  <2> DEFINE a == request[r].account
             h == request[r].handle
  <2>1. a \in Accounts /\ h \in Handles
    BY <1>2 DEF InsertHandle, Reached, TypeOK, RequestRow
  <2>2. CASE profile' = profile
    BY <2>2 DEF HandlesStay, HandlesDiffer
  <2>3. CASE profile[a] = None /\ HandleFree(h) /\ profile' = [profile EXCEPT ![a] = h]
    BY <2>1, <2>3 DEF HandlesStay, HandlesDiffer, HandleFree, TypeOK
  <2> QED
    BY <1>2, <2>2, <2>3 DEF InsertHandle
<1> QED
  BY <1>1, <1>2
     DEF Next, vars, profiles, StartSignIn, Return, Claim, LinkIdentity, MintSession, Logout, LogIn,
         Exchange, Drop, Ask, DevelopmentLogin, Resolve, FindHandle, AnswerHandle, Leave, BeginSweep,
         SweepSessions, SweepAttempts, SweepFails, Tick

(* Named answers by what it was given, which is what is stored now. *)
LEMMA NamedHolds ==
  ASSUME TypeOK, HandlesStay, AnswersHold, NEW r \in Requests,
         request[r] # None, request[r].step # "asked",
         request' = Named(r, profile')
  PROVE  AnswersHold'
<1> DEFINE asked == request[r]
           new == [asked EXCEPT !.step = "named", !.at = IF asked.token = None THEN now ELSE None]
<1>1. asked \in RequestRow
  BY DEF TypeOK
<1>2. new.account = asked.account /\ new.handle = asked.handle
  BY <1>1 DEF RequestRow
<1>3. request' = [request EXCEPT ![r] = IF profile'[asked.account] = asked.handle THEN new ELSE None]
  BY DEF Named
<1> HIDE DEF asked, new
<1>4. request'[r] # None => profile'[asked.account] = asked.handle /\ request'[r] = new
  BY <1>3 DEF TypeOK
<1>5. \A p \in Requests : p # r => request'[p] = request[p]
  BY <1>3 DEF TypeOK
<1>6. \A p \in Requests : Reached(p, "named") =>
        request[p].account \in Accounts /\ profile[request[p].account] # None
  BY NullsAssumption DEF Reached, TypeOK, RequestRow, AnswersHold
<1>7. \A p \in Requests : Reached(p, "named")' /\ p # r =>
        profile'[request'[p].account] = request'[p].handle
  BY <1>5, <1>6 DEF Reached, AnswersHold, HandlesStay
<1>8. Reached(r, "named")' => profile'[request'[r].account] = request'[r].handle
  BY <1>2, <1>4 DEF Reached
<1> QED
  BY <1>7, <1>8 DEF AnswersHold

LEMMA NextHandles ==
  ASSUME TypeOK, HandlesDiffer, AnswersHold, [Next]_vars
  PROVE  HandlesDiffer' /\ AnswersHold'
<1>1. HandlesStay /\ HandlesDiffer'
  BY ProfilesGrow
<1>2. \A r \in Requests : Reached(r, "named") =>
        request[r].account \in Accounts /\ profile[request[r].account] # None
  BY NullsAssumption DEF Reached, TypeOK, RequestRow, AnswersHold
<1>3. ASSUME \A r \in Requests : Reached(r, "named")' => Reached(r, "named") /\ request'[r] = request[r]
      PROVE  AnswersHold'
  BY <1>1, <1>2, <1>3 DEF AnswersHold, HandlesStay
<1>4. ASSUME request' = request
      PROVE  AnswersHold'
  BY <1>3, <1>4 DEF Reached
<1>5. ASSUME NEW r \in Requests,
             /\ \A p \in Requests : p # r => request'[p] = request[p]
             /\ request'[r] = None \/ request'[r].step # "named"
      PROVE  AnswersHold'
  BY <1>3, <1>5 DEF Reached
<1>6. ASSUME NEW r \in Requests, NEW t \in Tokens, NEW handle \in Handles \cup {None}, Ask(r, t, handle)
      PROVE  AnswersHold'
  BY <1>5, <1>6 DEF Ask, TypeOK
<1>7. ASSUME NEW r \in Requests, NEW handle \in Handles, DevelopmentLogin(r, handle)
      PROVE  AnswersHold'
  BY <1>5, <1>7 DEF DevelopmentLogin, TypeOK
<1>8. ASSUME NEW r \in Requests, NEW t \in Tokens, LogIn(r, t)
      PROVE  AnswersHold'
  BY <1>5, <1>8 DEF LogIn, TypeOK
<1>9. ASSUME NEW r \in Requests, Resolve(r)
      PROVE  AnswersHold'
  <2> DEFINE q == request[r]
             new == [q EXCEPT !.step = "known", !.account = session[q.token].account, !.at = None]
  <2>1. q \in RequestRow
    BY <1>9 DEF Resolve, Reached, TypeOK
  <2>2. new.step = "known"
    BY <2>1 DEF RequestRow
  <2>3. request' = [request EXCEPT ![r] = None] \/ request' = [request EXCEPT ![r] = new]
    BY <1>9 DEF Resolve
  <2> HIDE DEF new
  <2> QED
    BY <1>5, <2>2, <2>3 DEF TypeOK
<1>10. ASSUME NEW r \in Requests, FindHandle(r)
      PROVE  AnswersHold'
  <2> DEFINE new == [request[r] EXCEPT !.step = "free"]
  <2>1. new.step = "free"
    BY <1>10 DEF FindHandle, Reached, TypeOK, RequestRow
  <2>2. request' = [request EXCEPT ![r] = new] \/ request' = Named(r, profile)
    BY <1>10 DEF FindHandle
  <2>3. profile' = profile /\ request[r] # None /\ request[r].step # "asked"
    BY <1>10 DEF FindHandle, Reached, profiles
  <2>4. CASE request' = [request EXCEPT ![r] = new]
    <3> HIDE DEF new
    <3> QED
      BY <1>5, <2>1, <2>4 DEF TypeOK
  <2>5. CASE request' = Named(r, profile)
    <3>1. request' = Named(r, profile')
      BY <2>3, <2>5
    <3> QED
      BY <1>1, <2>3, <3>1, NamedHolds
  <2> QED
    BY <2>2, <2>4, <2>5
<1>11. ASSUME NEW r \in Requests, InsertHandle(r)
      PROVE  AnswersHold'
  BY <1>1, <1>11, NamedHolds DEF InsertHandle, Reached
<1>12. ASSUME NEW r \in Requests, AnswerHandle(r) \/ Leave(r)
      PROVE  AnswersHold'
  BY <1>5, <1>12 DEF AnswerHandle, Leave, TypeOK
<1> QED
  BY <1>1, <1>4, <1>6, <1>7, <1>8, <1>9, <1>10, <1>11, <1>12
     DEF Next, vars, StartSignIn, Return, Claim, LinkIdentity, MintSession, Logout,
         Exchange, Drop, BeginSweep, SweepSessions, SweepAttempts, SweepFails, Tick

(* A handle has one account and stays with it, and nobody is told that he  *)
(* has a handle that is somebody else's, whoever asks for it at the same   *)
(* time.                                                                   *)
THEOREM HandlesAreKept == Spec => HandlesAreForGood
<1>1. Init => HandlesDiffer /\ AnswersHold
  BY DEF Init, HandlesDiffer, AnswersHold, Reached
<1>2. TypeOK /\ HandlesDiffer /\ AnswersHold /\ [Next]_vars => HandlesDiffer' /\ AnswersHold'
  BY NextHandles
<1>3. TypeOK /\ [Next]_vars => [HandlesStay]_profile
  BY ProfilesGrow
<1> QED
  BY <1>1, <1>2, <1>3, TypeCorrect,
     PTL DEF Spec, HandlesAreForGood, HandlesDiffer, AnswersHold, HandlesStay
=============================================================================
