------------------------- MODULE MatchmakingProofs --------------------------
(***************************************************************************)
(* What Matchmaking promises, for any number of players, challenges,       *)
(* invitations, lobbies and matches, and invitations of any lifetime.      *)
(***************************************************************************)
EXTENDS Matchmaking, TLAPS

LEMMA InitType == Init => TypeOK
  BY LifetimeAssumption DEF Init, TypeOK

(* The table of lobbies with one more. *)
LEMMA OpenLobbyType ==
  ASSUME TypeOK, NEW l \in Lobbies, NEW a \in Accounts, NEW b \in Accounts, OpenLobby(l, a, b)
  PROVE  lobby' \in [Lobbies -> Lobby \cup {None}]
<1>1. [one |-> a, two |-> b, cancelled |-> FALSE, match |-> None] \in Lobby
  BY DEF Lobby
<1> QED
  BY <1>1 DEF OpenLobby, TypeOK

LEMMA NextType == TypeOK /\ [Next]_vars => TypeOK'
<1> SUFFICES ASSUME TypeOK, [Next]_vars
             PROVE  TypeOK'
  OBVIOUS
<1> USE LifetimeAssumption
<1>1. CASE UNCHANGED vars
  BY <1>1 DEF TypeOK, vars
<1>2. CASE Tick
  BY <1>2 DEF Tick, TypeOK, Invitation
<1>3. ASSUME NEW c \in Challenges, NEW a \in Accounts, NEW b \in Accounts, CreateChallenge(c, a, b)
      PROVE  TypeOK'
  <2>1. [from |-> a, to |-> b, lobby |-> None] \in Challenge
    BY DEF Challenge
  <2> QED
    BY <1>3, <2>1 DEF CreateChallenge, TypeOK
<1>4. ASSUME NEW c \in Challenges, NEW a \in Accounts, NEW l \in Lobbies, AcceptChallenge(c, a, l)
      PROVE  TypeOK'
  <2>1. challenge[c] \in Challenge
    BY <1>4 DEF AcceptChallenge, Pending, TypeOK
  <2>2. [challenge[c] EXCEPT !.lobby = l] \in Challenge
    BY <2>1 DEF Challenge
  <2>3. lobby' \in [Lobbies -> Lobby \cup {None}]
    BY <1>4, <2>1, OpenLobbyType DEF AcceptChallenge, Challenge
  <2> QED
    BY <1>4, <2>2, <2>3 DEF AcceptChallenge, TypeOK
<1>5. ASSUME NEW c \in Challenges, NEW a \in Accounts, NEW l \in Lobbies, RepeatAcceptance(c, a, l)
      PROVE  TypeOK'
  <2>1. challenge[c].lobby \in Lobbies
    BY <1>5 DEF RepeatAcceptance, TypeOK, Challenge
  <2> QED
    BY <1>5, <2>1 DEF RepeatAcceptance, RepeatedAnswer, TypeOK
<1>6. ASSUME NEW i \in Invitations, NEW a \in Accounts, CreateInvitation(i, a)
      PROVE  TypeOK'
  <2>1. [creator |-> a, expires |-> now + Lifetime, revoked |-> FALSE, lobby |-> None] \in Invitation
    BY DEF Invitation, TypeOK
  <2> QED
    BY <1>6, <2>1 DEF CreateInvitation, TypeOK
<1>7. ASSUME NEW i \in Invitations, NEW a \in Accounts, RevokeInvitation(i, a)
      PROVE  TypeOK'
  <2>1. [invitation[i] EXCEPT !.revoked = TRUE] \in Invitation
    BY <1>7 DEF RevokeInvitation, Invited, TypeOK, Invitation
  <2> QED
    BY <1>7, <2>1 DEF RevokeInvitation, TypeOK
<1>8. ASSUME NEW i \in Invitations, NEW a \in Accounts, NEW l \in Lobbies, RedeemInvitation(i, a, l)
      PROVE  TypeOK'
  <2>1. invitation[i] \in Invitation
    BY <1>8 DEF RedeemInvitation, Redeemable, Invited, TypeOK
  <2>2. [invitation[i] EXCEPT !.lobby = l] \in Invitation
    BY <2>1 DEF Invitation
  <2>3. lobby' \in [Lobbies -> Lobby \cup {None}]
    BY <1>8, <2>1, OpenLobbyType DEF RedeemInvitation, Invitation
  <2> QED
    BY <1>8, <2>2, <2>3 DEF RedeemInvitation, TypeOK
<1>9. ASSUME NEW i \in Invitations, NEW a \in Accounts, ExpireInvitation(i, a)
      PROVE  TypeOK'
  BY <1>9 DEF ExpireInvitation, TypeOK
<1>10. ASSUME NEW l \in Lobbies, NEW m \in Matches, StartLobby(l, m)
       PROVE  TypeOK'
  <2>1. lobby[l] \in Lobby
    BY <1>10 DEF StartLobby, Waiting, TypeOK
  <2>2. [lobby[l] EXCEPT !.match = m] \in Lobby
    BY <2>1 DEF Lobby
  <2>3. [one |-> lobby[l].one, two |-> lobby[l].two, breaker |-> 1,
         completed |-> FALSE, previous |-> None] \in Match
    BY <2>1 DEF Lobby, Match, Seats
  <2> QED
    BY <1>10, <2>2, <2>3 DEF StartLobby, InsertMatch, TypeOK
<1>11. ASSUME NEW l \in Lobbies, NEW a \in Accounts, CancelLobby(l, a)
       PROVE  TypeOK'
  <2>1. lobby[l] \in Lobby
    BY <1>11 DEF CancelLobby, Waiting, TypeOK
  <2>2. [lobby[l] EXCEPT !.cancelled = TRUE] \in Lobby
    BY <2>1 DEF Lobby
  <2> QED
    BY <1>11, <2>2 DEF CancelLobby, TypeOK
<1>12. ASSUME NEW m \in Matches, CompleteMatch(m)
       PROVE  TypeOK'
  <2>1. [match[m] EXCEPT !.completed = TRUE] \in Match
    BY <1>12 DEF CompleteMatch, TypeOK, Match
  <2> QED
    BY <1>12, <2>1 DEF CompleteMatch, TypeOK
<1>13. ASSUME NEW m \in Matches, NEW a \in Accounts, OfferRematch(m, a)
       PROVE  TypeOK'
  <2>1. [by |-> a, accepted |-> None] \in Offer
    BY DEF Offer
  <2> QED
    BY <1>13, <2>1 DEF OfferRematch, TypeOK
<1>14. ASSUME NEW m \in Matches, NEW n \in Matches, NEW a \in Accounts, AcceptRematch(m, a, n)
       PROVE  TypeOK'
  <2>1. match[m] \in Match /\ offer[m] \in Offer
    BY <1>14 DEF AcceptRematch, Plays, TypeOK
  <2>2. [offer[m] EXCEPT !.accepted = n] \in Offer
    BY <2>1 DEF Offer
  <2>3. [one |-> match[m].one, two |-> match[m].two, breaker |-> RematchBreaker(m),
         completed |-> FALSE, previous |-> m] \in Match
    BY <2>1 DEF Match, Seats, RematchBreaker
  <2> QED
    BY <1>14, <2>2, <2>3 DEF AcceptRematch, InsertMatch, TypeOK
<1> QED
  BY <1>1, <1>2, <1>3, <1>4, <1>5, <1>6, <1>7, <1>8, <1>9, <1>10, <1>11, <1>12, <1>13, <1>14
  DEF Next

(* The tables of challenges, invitations, lobbies, matches and offers are  *)
(* well formed at all times.                                               *)
THEOREM TypeCorrect == Spec => []TypeOK
  BY InitType, NextType, PTL DEF Spec

-----------------------------------------------------------------------------
(* Nobody challenges himself; with what a redemption asks this seats two   *)
(* players everywhere.                                                     *)
SeatsInv ==
  /\ \A c \in Challenges : challenge[c] # None => challenge[c].from # challenge[c].to
  /\ SeatsAreDistinct

LEMMA InitSeats == Init => SeatsInv
  BY DEF Init, SeatsInv, SeatsAreDistinct

LEMMA NextSeats == TypeOK /\ SeatsInv /\ [Next]_vars => SeatsInv'
<1> SUFFICES ASSUME TypeOK, SeatsInv, [Next]_vars
             PROVE  SeatsInv'
  OBVIOUS
<1> USE RowsAssumption DEF SeatsInv, SeatsAreDistinct, TypeOK
<1>1. CASE UNCHANGED vars \/ Tick
  BY <1>1 DEF vars, Tick
<1>2. ASSUME NEW c \in Challenges, NEW a \in Accounts, NEW b \in Accounts, CreateChallenge(c, a, b)
      PROVE  SeatsInv'
  BY <1>2 DEF CreateChallenge
<1>3. ASSUME NEW c \in Challenges, NEW a \in Accounts, NEW l \in Lobbies, AcceptChallenge(c, a, l)
      PROVE  SeatsInv'
  <2>1. challenge[c] \in Challenge /\ challenge[c].from # challenge[c].to
    BY <1>3 DEF AcceptChallenge, Pending
  <2>2. /\ lobby' = [lobby EXCEPT ![l] = [one |-> challenge[c].from, two |-> challenge[c].to,
                                          cancelled |-> FALSE, match |-> None]]
        /\ challenge' = [challenge EXCEPT ![c].lobby = l]
        /\ match' = match
    BY <1>3 DEF AcceptChallenge, OpenLobby
  <2>3. \A d \in Challenges : challenge'[d] # None => challenge'[d].from # challenge'[d].to
    BY <2>1, <2>2 DEF Challenge
  <2>4. \A k \in Lobbies : lobby'[k] # None => lobby'[k].one # lobby'[k].two
    BY <2>1, <2>2
  <2> QED
    BY <2>2, <2>3, <2>4
<1>4. ASSUME NEW c \in Challenges, NEW a \in Accounts, NEW l \in Lobbies, RepeatAcceptance(c, a, l)
      PROVE  SeatsInv'
  BY <1>4 DEF RepeatAcceptance
<1>5. ASSUME NEW i \in Invitations, NEW a \in Accounts,
             CreateInvitation(i, a) \/ RevokeInvitation(i, a) \/ ExpireInvitation(i, a)
      PROVE  SeatsInv'
  BY <1>5 DEF CreateInvitation, RevokeInvitation, ExpireInvitation
<1>6. ASSUME NEW i \in Invitations, NEW a \in Accounts, NEW l \in Lobbies, RedeemInvitation(i, a, l)
      PROVE  SeatsInv'
  BY <1>6 DEF RedeemInvitation, Redeemable, OpenLobby
<1>7. ASSUME NEW l \in Lobbies, NEW m \in Matches, StartLobby(l, m)
      PROVE  SeatsInv'
  <2>1. lobby[l] \in Lobby /\ lobby[l].one # lobby[l].two
    BY <1>7 DEF StartLobby, Waiting
  <2>2. /\ lobby' = [lobby EXCEPT ![l].match = m]
        /\ match' = [match EXCEPT ![m] = [one |-> lobby[l].one, two |-> lobby[l].two, breaker |-> 1,
                                          completed |-> FALSE, previous |-> None]]
        /\ challenge' = challenge
    BY <1>7 DEF StartLobby, InsertMatch
  <2>3. \A k \in Lobbies : lobby'[k] # None => lobby'[k].one # lobby'[k].two
    BY <2>1, <2>2 DEF Lobby
  <2>4. \A n \in Matches : match'[n] # None => match'[n].one # match'[n].two
    BY <2>1, <2>2
  <2> QED
    BY <2>2, <2>3, <2>4
<1>8. ASSUME NEW l \in Lobbies, NEW a \in Accounts, CancelLobby(l, a)
      PROVE  SeatsInv'
  <2>1. lobby[l] \in Lobby
    BY <1>8 DEF CancelLobby, Waiting
  <2>2. \A k \in Lobbies : lobby'[k] # None => lobby'[k].one # lobby'[k].two
    BY <1>8, <2>1 DEF CancelLobby, Lobby
  <2> QED
    BY <1>8, <2>2 DEF CancelLobby
<1>9. ASSUME NEW m \in Matches, CompleteMatch(m)
      PROVE  SeatsInv'
  <2>1. match[m] \in Match
    BY <1>9 DEF CompleteMatch
  <2>2. \A n \in Matches : match'[n] # None => match'[n].one # match'[n].two
    BY <1>9, <2>1 DEF CompleteMatch, Match
  <2> QED
    BY <1>9, <2>2 DEF CompleteMatch
<1>10. ASSUME NEW m \in Matches, NEW a \in Accounts, OfferRematch(m, a)
       PROVE  SeatsInv'
  BY <1>10 DEF OfferRematch
<1>11. ASSUME NEW m \in Matches, NEW n \in Matches, NEW a \in Accounts, AcceptRematch(m, a, n)
       PROVE  SeatsInv'
  <2>1. match[m] # None
    BY <1>11 DEF AcceptRematch, Plays
  <2> QED
    BY <1>11, <2>1 DEF AcceptRematch, InsertMatch
<1> QED
  BY <1>1, <1>2, <1>3, <1>4, <1>5, <1>6, <1>7, <1>8, <1>9, <1>10, <1>11 DEF Next

(* Nobody ever sits opposite himself, however long the chain of rematches. *)
THEOREM TwoPlayersEverywhere == Spec => []SeatsAreDistinct
<1>1. SeatsInv => SeatsAreDistinct
  BY DEF SeatsInv
<1> QED
  BY <1>1, InitSeats, NextSeats, TypeCorrect, PTL DEF Spec

-----------------------------------------------------------------------------
(* Who was told of a lobby was told of the one the challenge has. *)
AnswersInv ==
  \A answer \in answers : /\ challenge[answer[1]] # None
                          /\ challenge[answer[1]].lobby = answer[2]

LEMMA NextAnswers == TypeOK /\ AnswersInv /\ [Next]_vars => AnswersInv'
<1> SUFFICES ASSUME TypeOK, AnswersInv, [Next]_vars, NEW answer \in answers'
             PROVE  /\ challenge'[answer[1]] # None
                    /\ challenge'[answer[1]].lobby = answer[2]
  BY DEF AnswersInv
<1> USE RowsAssumption, NamesAssumption DEF AnswersInv, TypeOK
<1>1. CASE challenge' = challenge /\ answers' = answers
  BY <1>1
<1>2. ASSUME NEW c \in Challenges, NEW a \in Accounts, NEW b \in Accounts, CreateChallenge(c, a, b)
      PROVE  challenge'[answer[1]] = challenge[answer[1]] /\ answer \in answers
  BY <1>2 DEF CreateChallenge
<1>3. ASSUME NEW c \in Challenges, NEW a \in Accounts, NEW l \in Lobbies, AcceptChallenge(c, a, l)
      PROVE  /\ challenge'[answer[1]] # None
             /\ challenge'[answer[1]].lobby = answer[2]
  <2>1. challenge[c] \in Challenge /\ challenge[c].lobby = None
    BY <1>3 DEF AcceptChallenge, Pending
  <2>2. [challenge[c] EXCEPT !.lobby = l] \in Challenge /\ [challenge[c] EXCEPT !.lobby = l].lobby = l
    BY <2>1 DEF Challenge
  <2>3. challenge' = [challenge EXCEPT ![c] = [challenge[c] EXCEPT !.lobby = l]]
    BY <1>3 DEF AcceptChallenge
  <2>4. CASE answer \in answers
    BY <2>1, <2>3, <2>4
  <2>5. CASE answer = <<c, l>>
    BY <2>2, <2>3, <2>5
  <2> QED
    BY <1>3, <2>4, <2>5 DEF AcceptChallenge
<1>4. ASSUME NEW c \in Challenges, NEW a \in Accounts, NEW l \in Lobbies, RepeatAcceptance(c, a, l)
      PROVE  /\ challenge'[answer[1]] # None
             /\ challenge'[answer[1]].lobby = answer[2]
  BY <1>4 DEF RepeatAcceptance, RepeatedAnswer
<1>5. \/ challenge' = challenge /\ answers' = answers
      \/ \E c \in Challenges, a, b \in Accounts : CreateChallenge(c, a, b)
      \/ \E c \in Challenges, a \in Accounts, l \in Lobbies :
           AcceptChallenge(c, a, l) \/ RepeatAcceptance(c, a, l)
  BY DEF Next, vars, Tick, CreateInvitation, RevokeInvitation, RedeemInvitation, ExpireInvitation,
         StartLobby, CancelLobby, CompleteMatch, OfferRematch, AcceptRematch
<1> QED
  BY <1>1, <1>2, <1>3, <1>4, <1>5

(* Acceptances of a challenge, repeated or raced, are all answered with    *)
(* the one lobby that was made for it.                                     *)
THEOREM AnswersAgree == Spec => []AnswersNameTheLobby
<1>1. Init => AnswersInv
  BY DEF Init, AnswersInv
<1>2. AnswersInv => AnswersNameTheLobby
  BY DEF AnswersInv, AnswersNameTheLobby
<1> QED
  BY <1>1, <1>2, NextAnswers, TypeCorrect, PTL DEF Spec

-----------------------------------------------------------------------------
LEMMA NextRematches == TypeOK /\ RematchesAlternate /\ [Next]_vars => RematchesAlternate'
<1> SUFFICES ASSUME TypeOK, RematchesAlternate, [Next]_vars
             PROVE  RematchesAlternate'
  OBVIOUS
<1> USE RowsAssumption, NamesAssumption DEF TypeOK
<1>1. CASE match' = match /\ offer' = offer
  BY <1>1 DEF RematchesAlternate
<1>2. ASSUME NEW l \in Lobbies, NEW m \in Matches, StartLobby(l, m)
      PROVE  RematchesAlternate'
  <2>1. match[m] = None /\ offer' = offer
    BY <1>2 DEF StartLobby, InsertMatch
  <2>2. match'[m].previous = None /\ \A n \in Matches \ {m} : match'[n] = match[n]
    BY <1>2 DEF StartLobby, InsertMatch
  <2>3. \A k \in Matches : match[k] # None /\ match[k].previous # None =>
          match[k].previous \in Matches /\ match[k].previous # m
    BY <2>1 DEF RematchesAlternate, Match
  <2> QED
    BY <2>1, <2>2, <2>3 DEF RematchesAlternate
<1>3. ASSUME NEW m \in Matches, CompleteMatch(m)
      PROVE  RematchesAlternate'
  <2>1. match[m] \in Match /\ offer' = offer
    BY <1>3 DEF CompleteMatch
  <2>2. /\ match'[m] # None
        /\ match'[m].completed
        /\ match'[m].one = match[m].one /\ match'[m].two = match[m].two
        /\ match'[m].breaker = match[m].breaker
        /\ match'[m].previous = match[m].previous
        /\ \A n \in Matches \ {m} : match'[n] = match[n]
    <3>1. match' = [match EXCEPT ![m] = [match[m] EXCEPT !.completed = TRUE]]
      BY <1>3 DEF CompleteMatch
    <3>2. [match[m] EXCEPT !.completed = TRUE] \in Match
      BY <2>1 DEF Match
    <3> QED
      BY <2>1, <3>1, <3>2 DEF Match
  <2>3. \A n \in Matches :
          /\ match'[n] # None <=> match[n] # None
          /\ match'[n].one = match[n].one /\ match'[n].two = match[n].two
          /\ match'[n].breaker = match[n].breaker
          /\ match'[n].previous = match[n].previous
          /\ match[n].completed => match'[n].completed
    BY <1>3, <2>2 DEF CompleteMatch
  <2>4. \A n \in Matches : match[n] # None /\ match[n].previous # None => match[n].previous \in Matches
    BY DEF Match
  <2> SUFFICES ASSUME NEW n \in Matches, match[n] # None, match[n].previous # None
               PROVE  LET p == match[n].previous IN
                        /\ match'[p] # None /\ match'[p].completed
                        /\ offer'[p] # None /\ offer'[p].accepted = n
                        /\ <<match'[n].one, match'[n].two>> = <<match'[p].one, match'[p].two>>
                        /\ match'[n].breaker # match'[p].breaker
    BY <2>3 DEF RematchesAlternate
  <2> DEFINE p == match[n].previous
  <2>5. /\ p \in Matches /\ match[p] # None /\ match[p].completed
        /\ offer[p] # None /\ offer[p].accepted = n
        /\ <<match[n].one, match[n].two>> = <<match[p].one, match[p].two>>
        /\ match[n].breaker # match[p].breaker
    BY <2>4 DEF RematchesAlternate
  <2> HIDE DEF p
  <2> QED
    BY <2>1, <2>3, <2>5 DEF p
<1>4. ASSUME NEW m \in Matches, NEW a \in Accounts, OfferRematch(m, a)
      PROVE  RematchesAlternate'
  <2>1. /\ offer[m] = None /\ match' = match
        /\ \A n \in Matches \ {m} : offer'[n] = offer[n]
    BY <1>4 DEF OfferRematch
  <2>2. \A n \in Matches : match[n] # None /\ match[n].previous # None =>
          match[n].previous \in Matches /\ match[n].previous # m
    BY <2>1 DEF RematchesAlternate, Match
  <2> QED
    BY <2>1, <2>2 DEF RematchesAlternate
<1>5. ASSUME NEW m \in Matches, NEW n \in Matches, NEW a \in Accounts, AcceptRematch(m, a, n)
      PROVE  RematchesAlternate'
  <2>1. /\ match[m] # None /\ match[m] \in Match /\ match[m].completed
        /\ offer[m] # None /\ offer[m] \in Offer /\ offer[m].accepted = None
        /\ match[n] = None
    BY <1>5 DEF AcceptRematch, Plays, InsertMatch
  <2>2. /\ match'[n] = [one |-> match[m].one, two |-> match[m].two, breaker |-> RematchBreaker(m),
                        completed |-> FALSE, previous |-> m]
        /\ \A k \in Matches \ {n} : match'[k] = match[k]
    BY <1>5 DEF AcceptRematch, InsertMatch
  <2>3. /\ offer'[m] # None /\ offer'[m].accepted = n
        /\ \A k \in Matches \ {m} : offer'[k] = offer[k]
    <3>1. offer' = [offer EXCEPT ![m] = [offer[m] EXCEPT !.accepted = n]]
      BY <1>5 DEF AcceptRematch
    <3>2. [offer[m] EXCEPT !.accepted = n] \in Offer
      BY <2>1 DEF Offer
    <3> QED
      BY <2>1, <3>1, <3>2 DEF Offer
  <2>4. RematchBreaker(m) # match[m].breaker
    BY <2>1 DEF RematchBreaker, Match, Seats
  <2>5. \A k \in Matches : match[k] # None /\ match[k].previous # None =>
          match[k].previous \in Matches /\ match[k].previous \notin {m, n}
    BY <2>1 DEF RematchesAlternate, Match
  <2>6. m # n
    BY <2>1
  <2> QED
    BY <2>1, <2>2, <2>3, <2>4, <2>5, <2>6 DEF RematchesAlternate
<1>6. \/ match' = match /\ offer' = offer
      \/ \E l \in Lobbies, m \in Matches : StartLobby(l, m)
      \/ \E m \in Matches : CompleteMatch(m)
      \/ \E m \in Matches, a \in Accounts : OfferRematch(m, a)
      \/ \E m, n \in Matches, a \in Accounts : AcceptRematch(m, a, n)
  BY DEF Next, vars, Tick, CreateChallenge, AcceptChallenge, RepeatAcceptance, CreateInvitation,
         RevokeInvitation, RedeemInvitation, ExpireInvitation, CancelLobby
<1> QED
  BY <1>1, <1>2, <1>3, <1>4, <1>5, <1>6

(* Every rematch continues a completed match of the same two players that  *)
(* has no other rematch, and the other one breaks.                         *)
THEOREM BreaksAlternate == Spec => []RematchesAlternate
<1>1. Init => RematchesAlternate
  BY DEF Init, RematchesAlternate
<1> QED
  BY <1>1, NextRematches, TypeCorrect, PTL DEF Spec

-----------------------------------------------------------------------------
(* The state of the two handoffs, as Matchmaking has them. *)
Invitees == Challenges \cup Invitations
InviteOutcome == [x \in Invitees |-> LobbyOf(x)]
LobbiesMade == {l \in Lobbies : lobby[l] # None}

(* Opening a lobby for an offer uses that offer, whatever else changes. *)
LEMMA OpenLobbyMakes ==
  ASSUME TypeOK, NEW l \in Lobbies, NEW a \in Accounts, NEW b \in Accounts, OpenLobby(l, a, b)
  PROVE  l \notin LobbiesMade /\ LobbiesMade' = LobbiesMade \cup {l}
<1>1. [one |-> a, two |-> b, cancelled |-> FALSE, match |-> None] \in Lobby
  BY DEF Lobby
<1> QED
  BY <1>1, RowsAssumption DEF OpenLobby, LobbiesMade, TypeOK

LEMMA NextInvite ==
  ASSUME TypeOK, [Next]_vars
  PROVE  Invite!Next \/ (InviteOutcome' = InviteOutcome /\ LobbiesMade' = LobbiesMade)
<1> USE RowsAssumption, NamesAssumption
(* A step of the abstract offers, from what becomes of one of them. *)
<1>1. ASSUME NEW x \in Invitees, NEW o,
             LobbyOf(x)' = o, \A y \in Invitees : y # x => LobbyOf(y)' = LobbyOf(y),
             \/ LobbyOf(x) = "absent" /\ o = "open" /\ LobbiesMade' = LobbiesMade
             \/ LobbyOf(x) = "open" /\ o = "withdrawn" /\ LobbiesMade' = LobbiesMade
             \/ /\ LobbyOf(x) = "open" /\ o \in Lobbies /\ o \notin LobbiesMade
                /\ LobbiesMade' = LobbiesMade \cup {o}
      PROVE  Invite!Next
  <2>1. InviteOutcome[x] = LobbyOf(x) /\ InviteOutcome' = [InviteOutcome EXCEPT ![x] = o]
    BY <1>1 DEF InviteOutcome
  <2> QED
    BY <1>1, <2>1 DEF Invite!Next, Invite!Open, Invite!Use, Invite!Withdraw, Invitees,
                      InviteOutcome, LobbiesMade
<1>2. CASE UNCHANGED <<challenge, invitation, lobby>>
  BY <1>2 DEF InviteOutcome, LobbiesMade, LobbyOf
<1>3. ASSUME NEW c \in Challenges, NEW a \in Accounts, NEW b \in Accounts, CreateChallenge(c, a, b)
      PROVE  Invite!Next
  <2>1. [from |-> a, to |-> b, lobby |-> None] # None
    BY DEF Challenge
  <2>2. /\ challenge[c] = None
        /\ challenge' = [challenge EXCEPT ![c] = [from |-> a, to |-> b, lobby |-> None]]
        /\ invitation' = invitation /\ lobby' = lobby
    BY <1>3 DEF CreateChallenge
  <2>3. challenge'[c] = [from |-> a, to |-> b, lobby |-> None]
    BY <2>2 DEF TypeOK
  <2>4. LobbyOf(c) = "absent" /\ LobbyOf(c)' = "open"
    BY <2>1, <2>2, <2>3 DEF LobbyOf
  <2>5. \A y \in Invitees : y # c => LobbyOf(y)' = LobbyOf(y)
    BY <2>2 DEF LobbyOf, TypeOK
  <2> QED
    BY <1>1, <2>2, <2>4, <2>5 DEF Invitees, LobbiesMade
<1>4. ASSUME NEW c \in Challenges, NEW a \in Accounts, NEW l \in Lobbies, AcceptChallenge(c, a, l)
      PROVE  Invite!Next
  <2>1. challenge[c] \in Challenge /\ challenge[c] # None /\ challenge[c].lobby = None
    BY <1>4 DEF AcceptChallenge, Pending, TypeOK
  <2>2. /\ [challenge[c] EXCEPT !.lobby = l] # None
        /\ [challenge[c] EXCEPT !.lobby = l].lobby = l
        /\ l # None
    BY <2>1 DEF Challenge
  <2>3. /\ challenge' = [challenge EXCEPT ![c] = [challenge[c] EXCEPT !.lobby = l]]
        /\ invitation' = invitation
    BY <1>4 DEF AcceptChallenge
  <2>4. challenge'[c] = [challenge[c] EXCEPT !.lobby = l]
    BY <2>3 DEF TypeOK
  <2>5. LobbyOf(c) = "open" /\ LobbyOf(c)' = l
    BY <2>1, <2>2, <2>4 DEF LobbyOf
  <2>6. \A y \in Invitees : y # c => LobbyOf(y)' = LobbyOf(y)
    BY <2>3 DEF LobbyOf, TypeOK
  <2>7. challenge[c].from \in Accounts /\ challenge[c].to \in Accounts
    BY <2>1 DEF Challenge
  <2>8. l \notin LobbiesMade /\ LobbiesMade' = LobbiesMade \cup {l}
    BY <1>4, <2>7, OpenLobbyMakes DEF AcceptChallenge
  <2> QED
    BY <1>1, <2>5, <2>6, <2>8 DEF Invitees
(* An invitation is no challenge, and what becomes of it is in its row. *)
<1>5. ASSUME NEW i \in Invitations
      PROVE  /\ i \notin Challenges /\ i \in Invitees
             /\ invitation[i] = None => LobbyOf(i) = "absent"
             /\ invitation[i] \in Invitation /\ ~invitation[i].revoked
                  /\ invitation[i].lobby = None => LobbyOf(i) = "open"
  <2>1. i \notin Challenges /\ i \in Invitees
    BY DEF Invitees
  <2>2. invitation[i] = None => LobbyOf(i) = "absent"
    BY <2>1 DEF LobbyOf
  <2>3. ASSUME invitation[i] \in Invitation, ~invitation[i].revoked, invitation[i].lobby = None
        PROVE  LobbyOf(i) = "open"
    <3>1. invitation[i] # None /\ invitation[i] # Gone
      BY <2>3
    <3> QED
      BY <2>1, <2>3, <3>1 DEF LobbyOf
  <2> QED
    BY <2>1, <2>2, <2>3
<1>6. ASSUME NEW i \in Invitations, NEW row, invitation' = [invitation EXCEPT ![i] = row],
             challenge' = challenge
      PROVE  /\ \A y \in Invitees : y # i => LobbyOf(y)' = LobbyOf(y)
             /\ row = Gone => LobbyOf(i)' = "withdrawn"
             /\ row \in Invitation =>
                  LobbyOf(i)' = IF row.revoked THEN "withdrawn"
                                ELSE IF row.lobby = None THEN "open" ELSE row.lobby
  <2>1. invitation'[i] = row /\ \A y \in Invitees : y # i /\ y \notin Challenges => invitation'[y] = invitation[y]
    BY <1>6 DEF TypeOK, Invitees
  <2>2. \A y \in Invitees : y # i => LobbyOf(y)' = LobbyOf(y)
    BY <1>6, <2>1 DEF LobbyOf
  <2>3. row = Gone => LobbyOf(i)' = "withdrawn"
    BY <1>5, <2>1 DEF LobbyOf
  <2>4. ASSUME row \in Invitation
        PROVE  LobbyOf(i)' = IF row.revoked THEN "withdrawn"
                             ELSE IF row.lobby = None THEN "open" ELSE row.lobby
    <3>1. row # None /\ row # Gone
      BY <2>4
    <3> QED
      BY <1>5, <2>1, <3>1 DEF LobbyOf
  <2> QED
    BY <2>2, <2>3, <2>4
<1>7. ASSUME NEW i \in Invitations, NEW a \in Accounts, CreateInvitation(i, a)
      PROVE  Invite!Next
  <2> DEFINE row == [creator |-> a, expires |-> now + Lifetime, revoked |-> FALSE, lobby |-> None]
  <2>1. row \in Invitation /\ ~row.revoked /\ row.lobby = None
    BY LifetimeAssumption DEF Invitation, TypeOK
  <2>2. /\ invitation[i] = None /\ invitation' = [invitation EXCEPT ![i] = row]
        /\ challenge' = challenge /\ lobby' = lobby
    BY <1>7 DEF CreateInvitation
  <2> HIDE DEF row
  <2>3. LobbyOf(i) = "absent" /\ LobbyOf(i)' = "open"
    BY <1>5, <1>6, <2>1, <2>2
  <2>4. \A y \in Invitees : y # i => LobbyOf(y)' = LobbyOf(y)
    BY <1>6, <2>2
  <2> QED
    BY <1>1, <1>5, <2>2, <2>3, <2>4 DEF LobbiesMade
<1>8. ASSUME NEW i \in Invitations, NEW a \in Accounts,
             RevokeInvitation(i, a) \/ ExpireInvitation(i, a)
      PROVE  Invite!Next
  <2>1. invitation[i] \in Invitation /\ ~invitation[i].revoked /\ invitation[i].lobby = None
    BY <1>8 DEF RevokeInvitation, ExpireInvitation, Redeemable, Deletable, Invited, TypeOK
  <2>2. /\ [invitation[i] EXCEPT !.revoked = TRUE] \in Invitation
        /\ [invitation[i] EXCEPT !.revoked = TRUE].revoked
    BY <2>1 DEF Invitation
  <2>3. /\ \/ invitation' = [invitation EXCEPT ![i] = [invitation[i] EXCEPT !.revoked = TRUE]]
           \/ invitation' = [invitation EXCEPT ![i] = Gone]
        /\ challenge' = challenge /\ lobby' = lobby
    BY <1>8 DEF RevokeInvitation, ExpireInvitation
  <2>4. PICK row : /\ invitation' = [invitation EXCEPT ![i] = row]
                   /\ row = Gone \/ (row \in Invitation /\ row.revoked)
    BY <2>2, <2>3
  <2>5. LobbyOf(i) = "open" /\ LobbyOf(i)' = "withdrawn"
    BY <1>5, <1>6, <2>1, <2>3, <2>4
  <2>6. \A y \in Invitees : y # i => LobbyOf(y)' = LobbyOf(y)
    BY <1>6, <2>3, <2>4
  <2> QED
    BY <1>1, <1>5, <2>3, <2>5, <2>6 DEF LobbiesMade
<1>9. ASSUME NEW i \in Invitations, NEW a \in Accounts, NEW l \in Lobbies, RedeemInvitation(i, a, l)
      PROVE  Invite!Next
  <2>1. invitation[i] \in Invitation /\ ~invitation[i].revoked /\ invitation[i].lobby = None
    BY <1>9 DEF RedeemInvitation, Redeemable, Invited, TypeOK
  <2>2. PICK row \in Invitation : row = [invitation[i] EXCEPT !.lobby = l]
    BY <2>1 DEF Invitation
  <2>3. ~row.revoked /\ row.lobby = l /\ l # None
    BY <2>1, <2>2 DEF Invitation
  <2>4. invitation' = [invitation EXCEPT ![i] = row] /\ challenge' = challenge
    BY <1>9, <2>2 DEF RedeemInvitation
  <2>5. LobbyOf(i) = "open" /\ LobbyOf(i)' = l
    BY <1>5, <1>6, <2>1, <2>3, <2>4
  <2>6. \A y \in Invitees : y # i => LobbyOf(y)' = LobbyOf(y)
    BY <1>6, <2>4
  <2>7. invitation[i].creator \in Accounts
    BY <2>1 DEF Invitation
  <2>8. l \notin LobbiesMade /\ LobbiesMade' = LobbiesMade \cup {l}
    BY <1>9, <2>7, OpenLobbyMakes DEF RedeemInvitation
  <2> QED
    BY <1>1, <1>5, <2>5, <2>6, <2>8
(* The rows of lobbies change, and none is made. *)
<1>10. ASSUME NEW l \in Lobbies,
             \/ \E m \in Matches : StartLobby(l, m)
             \/ \E a \in Accounts : CancelLobby(l, a)
      PROVE  InviteOutcome' = InviteOutcome /\ LobbiesMade' = LobbiesMade
  <2>1. lobby[l] \in Lobby /\ lobby[l] # None
    BY <1>10 DEF StartLobby, CancelLobby, Waiting, TypeOK
  <2>2. /\ challenge' = challenge /\ invitation' = invitation
        /\ \/ \E m \in Matches : lobby' = [lobby EXCEPT ![l] = [lobby[l] EXCEPT !.match = m]]
           \/ lobby' = [lobby EXCEPT ![l] = [lobby[l] EXCEPT !.cancelled = TRUE]]
    BY <1>10 DEF StartLobby, CancelLobby
  <2>3. /\ [lobby[l] EXCEPT !.cancelled = TRUE] \in Lobby
        /\ \A m \in Matches : [lobby[l] EXCEPT !.match = m] \in Lobby
    BY <2>1 DEF Lobby
  <2>4. lobby'[l] # None /\ \A k \in Lobbies \ {l} : lobby'[k] = lobby[k]
    <3>1. PICK row \in Lobby : lobby' = [lobby EXCEPT ![l] = row]
      BY <2>2, <2>3
    <3> QED
      BY <3>1 DEF TypeOK
  <2> QED
    BY <2>1, <2>2, <2>4 DEF InviteOutcome, LobbiesMade, LobbyOf
<1>11. \/ UNCHANGED <<challenge, invitation, lobby>>
       \/ \E c \in Challenges, a \in Accounts :
            \/ \E b \in Accounts : CreateChallenge(c, a, b)
            \/ \E l \in Lobbies : AcceptChallenge(c, a, l)
       \/ \E i \in Invitations, a \in Accounts :
            \/ CreateInvitation(i, a) \/ RevokeInvitation(i, a) \/ ExpireInvitation(i, a)
            \/ \E l \in Lobbies : RedeemInvitation(i, a, l)
       \/ \E l \in Lobbies : \/ \E m \in Matches : StartLobby(l, m)
                             \/ \E a \in Accounts : CancelLobby(l, a)
  BY DEF Next, vars, Tick, RepeatAcceptance, CompleteMatch, OfferRematch, AcceptRematch
<1> QED
  BY <1>2, <1>3, <1>4, <1>7, <1>8, <1>9, <1>10, <1>11

(* Challenges and invitations are one-shot: each makes at most one lobby,  *)
(* of its own, and none once it was revoked or has expired.                *)
THEOREM InvitesAreOneShot == Spec => ImplementsInvite
<1>1. Init => Invite!Init
  BY NamesAssumption DEF Init, Invite!Init, LobbyOf
<1>2. TypeOK /\ [Next]_vars => [Invite!Next]_<<InviteOutcome, LobbiesMade>>
  BY NextInvite
<1> QED
  BY <1>1, <1>2, TypeCorrect, PTL DEF Spec, ImplementsInvite, Invite!Spec, InviteOutcome,
     LobbiesMade, Invitees

-----------------------------------------------------------------------------
Startables == Lobbies \cup Matches
PlayOutcome == [x \in Startables |-> MatchOf(x)]
MatchesMade == {m \in Matches : match[m] # None}

(* A match is made by its row. *)
LEMMA InsertMakes ==
  ASSUME TypeOK, NEW m \in Matches, NEW row \in Match, InsertMatch(m, row)
  PROVE  m \notin MatchesMade /\ MatchesMade' = MatchesMade \cup {m}
  BY RowsAssumption DEF InsertMatch, MatchesMade, TypeOK

LEMMA NextPlay ==
  ASSUME TypeOK, [Next]_vars
  PROVE  Play!Next \/ (PlayOutcome' = PlayOutcome /\ MatchesMade' = MatchesMade)
<1> USE RowsAssumption, NamesAssumption
<1>1. ASSUME NEW x \in Startables, NEW o,
             MatchOf(x)' = o, \A y \in Startables : y # x => MatchOf(y)' = MatchOf(y),
             \/ MatchOf(x) = "absent" /\ o = "open" /\ MatchesMade' = MatchesMade
             \/ MatchOf(x) = "open" /\ o = "withdrawn" /\ MatchesMade' = MatchesMade
             \/ /\ MatchOf(x) = "open" /\ o \in Matches /\ o \notin MatchesMade
                /\ MatchesMade' = MatchesMade \cup {o}
      PROVE  Play!Next
  <2>1. PlayOutcome[x] = MatchOf(x) /\ PlayOutcome' = [PlayOutcome EXCEPT ![x] = o]
    BY <1>1 DEF PlayOutcome
  <2> QED
    BY <1>1, <2>1 DEF Play!Next, Play!Open, Play!Use, Play!Withdraw, Startables, PlayOutcome,
                      MatchesMade
<1>2. CASE UNCHANGED <<lobby, match, offer>>
  BY <1>2 DEF PlayOutcome, MatchesMade, MatchOf
(* A lobby is opened. *)
<1>3. ASSUME NEW l \in Lobbies, NEW a \in Accounts, NEW b \in Accounts, OpenLobby(l, a, b),
             match' = match, offer' = offer
      PROVE  Play!Next
  <2>1. [one |-> a, two |-> b, cancelled |-> FALSE, match |-> None] \in Lobby
    BY DEF Lobby
  <2>2. MatchOf(l) = "absent" /\ MatchOf(l)' = "open"
    BY <1>3, <2>1 DEF OpenLobby, MatchOf, TypeOK
  <2>3. \A y \in Startables : y # l => MatchOf(y)' = MatchOf(y)
    BY <1>3 DEF OpenLobby, MatchOf, TypeOK
  <2> QED
    BY <1>1, <1>3, <2>2, <2>3 DEF Startables, MatchesMade
<1>4. ASSUME NEW c \in Challenges, NEW a \in Accounts, NEW l \in Lobbies, AcceptChallenge(c, a, l)
      PROVE  Play!Next
  BY <1>3, <1>4 DEF AcceptChallenge, Pending, TypeOK, Challenge
<1>5. ASSUME NEW i \in Invitations, NEW a \in Accounts, NEW l \in Lobbies, RedeemInvitation(i, a, l)
      PROVE  Play!Next
  BY <1>3, <1>5 DEF RedeemInvitation, Redeemable, Invited, TypeOK, Invitation
<1>6. ASSUME NEW l \in Lobbies, NEW m \in Matches, StartLobby(l, m)
      PROVE  Play!Next
  <2>1. lobby[l] \in Lobby /\ ~lobby[l].cancelled /\ lobby[l].match = None
    BY <1>6 DEF StartLobby, Waiting, TypeOK
  <2>2. /\ [lobby[l] EXCEPT !.match = m] \in Lobby
        /\ ~[lobby[l] EXCEPT !.match = m].cancelled
        /\ [lobby[l] EXCEPT !.match = m].match = m
    BY <2>1 DEF Lobby
  <2>3. lobby' = [lobby EXCEPT ![l] = [lobby[l] EXCEPT !.match = m]] /\ offer' = offer
    BY <1>6 DEF StartLobby
  <2>4. lobby'[l] = [lobby[l] EXCEPT !.match = m]
    BY <2>3 DEF TypeOK
  <2>5. MatchOf(l) = "open" /\ MatchOf(l)' = m
    BY <2>1, <2>2, <2>4 DEF MatchOf
  <2>6. \A y \in Startables : y # l => MatchOf(y)' = MatchOf(y)
    BY <2>3 DEF MatchOf, TypeOK
  <2>7. [one |-> lobby[l].one, two |-> lobby[l].two, breaker |-> 1,
         completed |-> FALSE, previous |-> None] \in Match
    BY <2>1 DEF Lobby, Match, Seats
  <2>8. m \notin MatchesMade /\ MatchesMade' = MatchesMade \cup {m}
    BY <1>6, <2>7, InsertMakes DEF StartLobby
  <2> QED
    BY <1>1, <2>5, <2>6, <2>8 DEF Startables
<1>7. ASSUME NEW l \in Lobbies, NEW a \in Accounts, CancelLobby(l, a)
      PROVE  Play!Next
  <2>1. lobby[l] \in Lobby /\ ~lobby[l].cancelled /\ lobby[l].match = None
    BY <1>7 DEF CancelLobby, Waiting, TypeOK
  <2>2. [lobby[l] EXCEPT !.cancelled = TRUE] \in Lobby /\ [lobby[l] EXCEPT !.cancelled = TRUE].cancelled
    BY <2>1 DEF Lobby
  <2>3. /\ lobby' = [lobby EXCEPT ![l] = [lobby[l] EXCEPT !.cancelled = TRUE]]
        /\ offer' = offer /\ match' = match
    BY <1>7 DEF CancelLobby
  <2>4. lobby'[l] = [lobby[l] EXCEPT !.cancelled = TRUE]
    BY <2>3 DEF TypeOK
  <2>5. MatchOf(l) = "open" /\ MatchOf(l)' = "withdrawn"
    BY <2>1, <2>2, <2>4 DEF MatchOf
  <2>6. \A y \in Startables : y # l => MatchOf(y)' = MatchOf(y)
    BY <2>3 DEF MatchOf, TypeOK
  <2> QED
    BY <1>1, <2>3, <2>5, <2>6 DEF Startables, MatchesMade
<1>8. ASSUME NEW m \in Matches, CompleteMatch(m)
      PROVE  PlayOutcome' = PlayOutcome /\ MatchesMade' = MatchesMade
  <2>1. match[m] \in Match /\ match[m] # None
    BY <1>8 DEF CompleteMatch, TypeOK
  <2>2. [match[m] EXCEPT !.completed = TRUE] \in Match
    BY <2>1 DEF Match
  <2>3. /\ match' = [match EXCEPT ![m] = [match[m] EXCEPT !.completed = TRUE]]
        /\ lobby' = lobby /\ offer' = offer
    BY <1>8 DEF CompleteMatch
  <2>4. match'[m] # None /\ \A n \in Matches \ {m} : match'[n] = match[n]
    BY <2>2, <2>3 DEF TypeOK
  <2> QED
    BY <2>1, <2>3, <2>4 DEF PlayOutcome, MatchesMade, MatchOf
<1>9. ASSUME NEW m \in Matches, NEW a \in Accounts, OfferRematch(m, a)
      PROVE  Play!Next
  <2>1. [by |-> a, accepted |-> None] \in Offer
    BY DEF Offer
  <2>2. m \notin Lobbies
    OBVIOUS
  <2>3. MatchOf(m) = "absent" /\ MatchOf(m)' = "open"
    BY <1>9, <2>1, <2>2 DEF OfferRematch, MatchOf, TypeOK
  <2>4. \A y \in Startables : y # m => MatchOf(y)' = MatchOf(y)
    BY <1>9 DEF OfferRematch, MatchOf, TypeOK, Startables
  <2> QED
    BY <1>1, <1>9, <2>3, <2>4 DEF OfferRematch, Startables, MatchesMade
<1>10. ASSUME NEW m \in Matches, NEW n \in Matches, NEW a \in Accounts, AcceptRematch(m, a, n)
       PROVE  Play!Next
  <2>1. match[m] \in Match /\ offer[m] \in Offer /\ offer[m] # None /\ offer[m].accepted = None
    BY <1>10 DEF AcceptRematch, Plays, TypeOK
  <2>2. [offer[m] EXCEPT !.accepted = n] \in Offer /\ [offer[m] EXCEPT !.accepted = n].accepted = n
    BY <2>1 DEF Offer
  <2>3. offer' = [offer EXCEPT ![m] = [offer[m] EXCEPT !.accepted = n]] /\ lobby' = lobby
    BY <1>10 DEF AcceptRematch
  <2>4. offer'[m] = [offer[m] EXCEPT !.accepted = n] /\ m \notin Lobbies
    BY <2>3 DEF TypeOK
  <2>5. MatchOf(m) = "open" /\ MatchOf(m)' = n
    BY <2>1, <2>2, <2>4 DEF MatchOf
  <2>6. \A y \in Startables : y # m => MatchOf(y)' = MatchOf(y)
    BY <2>3 DEF MatchOf, TypeOK, Startables
  <2>7. [one |-> match[m].one, two |-> match[m].two, breaker |-> RematchBreaker(m),
         completed |-> FALSE, previous |-> m] \in Match
    BY <2>1 DEF Match, Seats, RematchBreaker
  <2>8. n \notin MatchesMade /\ MatchesMade' = MatchesMade \cup {n}
    BY <1>10, <2>7, InsertMakes DEF AcceptRematch
  <2> QED
    BY <1>1, <2>5, <2>6, <2>8 DEF Startables
<1>11. \/ UNCHANGED <<lobby, match, offer>>
       \/ \E c \in Challenges, a \in Accounts, l \in Lobbies : AcceptChallenge(c, a, l)
       \/ \E i \in Invitations, a \in Accounts, l \in Lobbies : RedeemInvitation(i, a, l)
       \/ \E l \in Lobbies : \/ \E m \in Matches : StartLobby(l, m)
                             \/ \E a \in Accounts : CancelLobby(l, a)
       \/ \E m \in Matches : \/ CompleteMatch(m)
                             \/ \E a \in Accounts : \/ OfferRematch(m, a)
                                                    \/ \E n \in Matches : AcceptRematch(m, a, n)
  BY DEF Next, vars, Tick, CreateChallenge, RepeatAcceptance, CreateInvitation, RevokeInvitation,
         ExpireInvitation
<1> QED
  BY <1>2, <1>4, <1>5, <1>6, <1>7, <1>8, <1>9, <1>10, <1>11

(* Every match is made once, of one lobby that was not cancelled or of one *)
(* offer of a rematch, and each of them makes at most one.                 *)
THEOREM MatchesAreOneShot == Spec => ImplementsPlay
<1>1. Init => Play!Init
  BY NamesAssumption DEF Init, Play!Init, MatchOf
<1>2. TypeOK /\ [Next]_vars => [Play!Next]_<<PlayOutcome, MatchesMade>>
  BY NextPlay
<1> QED
  BY <1>1, <1>2, TypeCorrect, PTL DEF Spec, ImplementsPlay, Play!Spec, PlayOutcome,
     MatchesMade, Startables
=============================================================================
