--------------------------- MODULE IdentityService ---------------------------
(***************************************************************************)
(* What identity.rs promises of identities and sessions: an identity is    *)
(* linked to one account for good, a session is made once and for a time   *)
(* that is fixed when it is made, is used only before that time, and is    *)
(* gone for good when it is revoked: its token was drawn at random and is  *)
(* not drawn again.  Every operation is given the time as its caller read  *)
(* it, so that the times of two operations are in no order.                *)
(***************************************************************************)
EXTENDS Naturals

CONSTANTS Identities, Accounts, Hashes, Clock,
          Unlinked,
          NoSession,       \* the token was not drawn yet
          RevokedSession   \* its session was removed

VARIABLES identities,  \* the account of each identity
          sessions     \* the session of each token hash

Session == [account : Accounts, expires : Clock, used : Clock]

Init == /\ identities \in [Identities -> Accounts \cup {Unlinked}]
        /\ sessions \in [Hashes -> Session \cup {NoSession}]

LinkGoogle(identity, account) ==
  /\ identities[identity] \in {Unlinked, account}
  /\ identities' = [identities EXCEPT ![identity] = account]
  /\ UNCHANGED sessions

Present(hash) == sessions[hash] \notin {NoSession, RevokedSession}

CreateSession(hash, account, expires, at) ==
  /\ at < expires
  /\ sessions[hash] = NoSession
  /\ sessions' = [sessions EXCEPT ![hash] =
                    [account |-> account, expires |-> expires, used |-> at]]
  /\ UNCHANGED identities

ResolveSession(hash, at) ==
  /\ Present(hash)
  /\ at < sessions[hash].expires
  /\ sessions' = [sessions EXCEPT ![hash].used = at]
  /\ UNCHANGED identities

\* One statement may revoke several.
RevokeSessions(hashes) ==
  /\ \A h \in hashes : Present(h)
  /\ sessions' = [h \in Hashes |-> IF h \in hashes THEN RevokedSession ELSE sessions[h]]
  /\ UNCHANGED identities

Next ==
  \/ \E hashes \in SUBSET Hashes : RevokeSessions(hashes)
  \/ \E identity \in Identities, account \in Accounts : LinkGoogle(identity, account)
  \/ \E hash \in Hashes, at \in Clock :
       \/ \E account \in Accounts, expires \in Clock : CreateSession(hash, account, expires, at)
       \/ ResolveSession(hash, at)

Spec == Init /\ [][Next]_<<identities, sessions>>
=============================================================================
