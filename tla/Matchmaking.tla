----------------------------- MODULE Matchmaking -----------------------------
(***************************************************************************)
(* How players get from a challenge or an invitation to a lobby, from the  *)
(* lobby to a match, and from a completed match to its rematch:            *)
(* social_store.rs, rematch_store.rs and the start and cancellation of     *)
(* lobby_store.rs (WaitingLobby has the leases that a start asks for).     *)
(* Every action is one transaction.  Identifiers are drawn at random by    *)
(* the handlers, so that an identifier that was used is not drawn again.   *)
(***************************************************************************)
EXTENDS Naturals

CONSTANTS Accounts, Challenges, Invitations, Lobbies, Matches,
          None,      \* no row, or NULL
          Gone,      \* a row that was deleted
          Lifetime,  \* ticks an invitation is valid
          MaxTime    \* bound of the clock, for TLC

ASSUME LifetimeAssumption == Lifetime \in Nat \ {0} /\ MaxTime \in Nat
ASSUME NamesAssumption ==
  /\ Challenges \cap Invitations = {}
  /\ Lobbies \cap Matches = {}
  /\ None # Gone
  /\ {None, Gone} \cap (Accounts \cup Lobbies \cup Matches) = {}
  /\ (Lobbies \cup Matches) \cap {"absent", "open", "withdrawn"} = {}

VARIABLES now,
          challenge,   \* the table challenges
          invitation,  \* the table invitations
          lobby,       \* the table waiting_lobbies
          match,       \* the table matches
          offer,       \* the table rematch_offers, by previous match
          answers      \* the lobbies accept_challenge has answered with

vars == <<now, challenge, invitation, lobby, match, offer, answers>>

Seats == {1, 2}

Challenge == [from : Accounts, to : Accounts, lobby : Lobbies \cup {None}]
Invitation == [creator : Accounts, expires : 0..MaxTime + Lifetime, revoked : BOOLEAN,
               lobby : Lobbies \cup {None}]
Lobby == [one : Accounts, two : Accounts, cancelled : BOOLEAN, match : Matches \cup {None}]
Match == [one : Accounts, two : Accounts, breaker : Seats, completed : BOOLEAN,
          previous : Matches \cup {None}]
Offer == [by : Accounts, accepted : Matches \cup {None}]

\* What marks the absence of a row is not a row.
ASSUME RowsAssumption ==
  /\ None \notin Challenge /\ None \notin Lobby /\ None \notin Match /\ None \notin Offer
  /\ None \notin Invitation /\ Gone \notin Invitation

Init == /\ now = 0
        /\ challenge = [c \in Challenges |-> None]
        /\ invitation = [i \in Invitations |-> None]
        /\ lobby = [l \in Lobbies |-> None]
        /\ match = [m \in Matches |-> None]
        /\ offer = [m \in Matches |-> None]
        /\ answers = {}

-----------------------------------------------------------------------------
Pending(c) == challenge[c] # None /\ challenge[c].lobby = None

CreateChallenge(c, from, to) ==
  /\ challenge[c] = None
  /\ from # to
  /\ \A d \in Challenges : Pending(d) => <<challenge[d].from, challenge[d].to>> # <<from, to>>
  /\ challenge' = [challenge EXCEPT ![c] = [from |-> from, to |-> to, lobby |-> None]]
  /\ UNCHANGED <<now, invitation, lobby, match, offer, answers>>

\* The row that both kinds of acceptance insert.
OpenLobby(l, one, two) ==
  /\ lobby[l] = None
  /\ lobby' = [lobby EXCEPT ![l] =
       [one |-> one, two |-> two, cancelled |-> FALSE, match |-> None]]

\* accept_challenge_into_lobby, the first time ...
AcceptChallenge(c, actor, l) ==
  /\ Pending(c)
  /\ actor = challenge[c].to
  /\ OpenLobby(l, challenge[c].from, challenge[c].to)
  /\ challenge' = [challenge EXCEPT ![c].lobby = l]
  /\ answers' = answers \cup {<<c, l>>}
  /\ UNCHANGED <<now, invitation, match, offer>>

\* ... and again: the lobby drawn for the repeated request is not the answer.
RepeatedAnswer(c, l) == challenge[c].lobby

RepeatAcceptance(c, actor, l) ==
  /\ challenge[c] # None /\ challenge[c].lobby # None
  /\ actor = challenge[c].to
  /\ answers' = answers \cup {<<c, RepeatedAnswer(c, l)>>}
  /\ UNCHANGED <<now, challenge, invitation, lobby, match, offer>>

-----------------------------------------------------------------------------
Invited(i) == invitation[i] \notin {None, Gone}

CreateInvitation(i, creator) ==
  /\ invitation[i] = None
  /\ invitation' = [invitation EXCEPT ![i] =
       [creator |-> creator, expires |-> now + Lifetime, revoked |-> FALSE, lobby |-> None]]
  /\ UNCHANGED <<now, challenge, lobby, match, offer, answers>>

RevokeInvitation(i, actor) ==
  /\ Invited(i)
  /\ invitation[i].creator = actor
  /\ ~invitation[i].revoked
  /\ invitation[i].lobby = None
  /\ invitation' = [invitation EXCEPT ![i].revoked = TRUE]
  /\ UNCHANGED <<now, challenge, lobby, match, offer, answers>>

\* What redeem_invitation_into_lobby asks first, of a request that read the
\* clock at some time `at` since the invitation was made.
Redeemable(i, redeemer) ==
  Invited(i) /\ invitation[i].creator # redeemer /\ ~invitation[i].revoked

Captured(i) == {at \in 0..now : at + Lifetime >= invitation[i].expires}

RedeemInvitation(i, redeemer, l) ==
  /\ Redeemable(i, redeemer)
  /\ \E at \in Captured(i) : at < invitation[i].expires
  /\ invitation[i].lobby = None
  /\ OpenLobby(l, invitation[i].creator, redeemer)
  /\ invitation' = [invitation EXCEPT ![i].lobby = l]
  /\ UNCHANGED <<now, challenge, match, offer, answers>>

\* An expired invitation is deleted by the request that finds it, unless it was
\* redeemed.  A mistake would be to delete it in any case.
Deletable_Redeemed(i) == TRUE
Deletable(i) == invitation[i].lobby = None

ExpireInvitation(i, redeemer) ==
  /\ Redeemable(i, redeemer)
  /\ \E at \in Captured(i) : at >= invitation[i].expires
  /\ Deletable(i)
  /\ invitation' = [invitation EXCEPT ![i] = Gone]
  /\ UNCHANGED <<now, challenge, lobby, match, offer, answers>>

-----------------------------------------------------------------------------
\* A mistake would be to start a lobby without a look at its status.
Waiting_Always(l) == lobby[l] # None
Waiting(l) == lobby[l] # None /\ ~lobby[l].cancelled /\ lobby[l].match = None

InsertMatch(m, row) == /\ match[m] = None
                       /\ match' = [match EXCEPT ![m] = row]

\* start_lobby_in_transaction; the first break is player one's.
StartLobby(l, m) ==
  /\ Waiting(l)
  /\ InsertMatch(m, [one |-> lobby[l].one, two |-> lobby[l].two, breaker |-> 1,
                     completed |-> FALSE, previous |-> None])
  /\ lobby' = [lobby EXCEPT ![l].match = m]
  /\ UNCHANGED <<now, challenge, invitation, offer, answers>>

CancelLobby(l, actor) ==
  /\ Waiting(l)
  /\ actor \in {lobby[l].one, lobby[l].two}
  /\ lobby' = [lobby EXCEPT ![l].cancelled = TRUE]
  /\ UNCHANGED <<now, challenge, invitation, match, offer, answers>>

\* The command that ends a match is committed (MatchAuthority).
CompleteMatch(m) ==
  /\ match[m] # None
  /\ ~match[m].completed
  /\ match' = [match EXCEPT ![m].completed = TRUE]
  /\ UNCHANGED <<now, challenge, invitation, lobby, offer, answers>>

-----------------------------------------------------------------------------
Plays(m, a) == match[m] # None /\ a \in {match[m].one, match[m].two}

OfferRematch(m, actor) ==
  /\ Plays(m, actor)
  /\ match[m].completed
  /\ offer[m] = None
  /\ offer' = [offer EXCEPT ![m] = [by |-> actor, accepted |-> None]]
  /\ UNCHANGED <<now, challenge, invitation, lobby, match, answers>>

\* RematchMetadata: the breaker alternates.  A mistake would be to let the
\* seats alone say who breaks.
RematchBreaker_SeatTwo(m) == 2
RematchBreaker(m) == 3 - match[m].breaker

AcceptRematch(m, actor, n) ==
  /\ Plays(m, actor)
  /\ match[m].completed
  /\ offer[m] # None /\ offer[m].accepted = None /\ offer[m].by # actor
  /\ InsertMatch(n, [one |-> match[m].one, two |-> match[m].two,
                     breaker |-> RematchBreaker(m), completed |-> FALSE, previous |-> m])
  /\ offer' = [offer EXCEPT ![m].accepted = n]
  /\ UNCHANGED <<now, challenge, invitation, lobby, answers>>

\* The offers pending_rematches_for meets before it leaves those that are not
\* the actor's business, and the error it makes of a foreign one.
Met(actor) == {m \in Matches : /\ offer[m] # None /\ offer[m].accepted = None
                               /\ offer[m].by # actor}
ListingFails(actor) == \E m \in Met(actor) : ~Plays(m, actor)

Tick == /\ now < MaxTime
        /\ now' = now + 1
        /\ UNCHANGED <<challenge, invitation, lobby, match, offer, answers>>

Next ==
  \/ Tick
  \/ \E a \in Accounts :
       \/ \E c \in Challenges :
            \/ \E b \in Accounts : CreateChallenge(c, a, b)
            \/ \E l \in Lobbies : AcceptChallenge(c, a, l) \/ RepeatAcceptance(c, a, l)
       \/ \E i \in Invitations :
            \/ CreateInvitation(i, a) \/ RevokeInvitation(i, a) \/ ExpireInvitation(i, a)
            \/ \E l \in Lobbies : RedeemInvitation(i, a, l)
       \/ \E l \in Lobbies : CancelLobby(l, a)
       \/ \E m \in Matches :
            \/ OfferRematch(m, a)
            \/ \E n \in Matches : AcceptRematch(m, a, n)
  \/ \E m \in Matches :
       \/ CompleteMatch(m)
       \/ \E l \in Lobbies : StartLobby(l, m)

Spec == Init /\ [][Next]_vars

-----------------------------------------------------------------------------
\* Every variable has the shape of what it stands for.
TypeOK == /\ now \in 0..MaxTime
          /\ challenge \in [Challenges -> Challenge \cup {None}]
          /\ invitation \in [Invitations -> Invitation \cup {None, Gone}]
          /\ lobby \in [Lobbies -> Lobby \cup {None}]
          /\ match \in [Matches -> Match \cup {None}]
          /\ offer \in [Matches -> Offer \cup {None}]
          /\ answers \subseteq Challenges \X Lobbies

\* A lobby was made for one challenge or one invitation.
LobbyOf(x) == IF x \in Challenges
              THEN IF challenge[x] = None THEN "absent"
                   ELSE IF challenge[x].lobby = None THEN "open" ELSE challenge[x].lobby
              ELSE IF invitation[x] = None THEN "absent"
                   ELSE IF invitation[x] = Gone \/ invitation[x].revoked THEN "withdrawn"
                   ELSE IF invitation[x].lobby = None THEN "open" ELSE invitation[x].lobby

Invite == INSTANCE OneShot WITH
  Offers <- Challenges \cup Invitations, Products <- Lobbies,
  outcome <- [x \in Challenges \cup Invitations |-> LobbyOf(x)],
  made <- {l \in Lobbies : lobby[l] # None}

\* Accepting and redeeming, repeated, raced or late, make at most one lobby of
\* each challenge and invitation, none of one that was revoked or has expired,
\* and no lobby comes from anything else.
ImplementsInvite == Invite!Spec

\* A match was made for one lobby or for one offer of a rematch, which is named
\* by the completed match.
MatchOf(x) == IF x \in Lobbies
              THEN IF lobby[x] = None THEN "absent"
                   ELSE IF lobby[x].cancelled THEN "withdrawn"
                   ELSE IF lobby[x].match = None THEN "open" ELSE lobby[x].match
              ELSE IF offer[x] = None THEN "absent"
                   ELSE IF offer[x].accepted = None THEN "open" ELSE offer[x].accepted

Play == INSTANCE OneShot WITH
  Offers <- Lobbies \cup Matches, Products <- Matches,
  outcome <- [x \in Lobbies \cup Matches |-> MatchOf(x)],
  made <- {m \in Matches : match[m] # None}

\* Every match has its own lobby or its own offer of a rematch: none is started
\* twice, none after it was cancelled, and a completed match has one rematch.
ImplementsPlay == Play!Spec

\* Whoever is told of the lobby of a challenge is told of the same one.
AnswersNameTheLobby ==
  \A answer \in answers : challenge[answer[1]].lobby = answer[2]

\* Nobody sits opposite themselves, in a lobby or in any match that follows.
SeatsAreDistinct ==
  /\ \A l \in Lobbies : lobby[l] # None => lobby[l].one # lobby[l].two
  /\ \A m \in Matches : match[m] # None => match[m].one # match[m].two

\* A rematch continues a completed match that names it, with the same players,
\* and the other one breaks: along a chain of rematches the breaks alternate.
RematchesAlternate ==
  \A n \in Matches : match[n] # None /\ match[n].previous # None =>
    LET m == match[n].previous IN
      /\ match[m] # None /\ match[m].completed
      /\ offer[m] # None /\ offer[m].accepted = n
      /\ <<match[n].one, match[n].two>> = <<match[m].one, match[m].two>>
      /\ match[n].breaker # match[m].breaker

\* rematch_store.rs on pending_rematches_for: "Returns pending opponent rematch
\* offers for an authenticated account".
EveryoneCanListRematches == \A a \in Accounts : ~ListingFails(a)
=============================================================================
