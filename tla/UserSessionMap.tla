--------------------------- MODULE UserSessionMap ---------------------------
(***************************************************************************)
(* The table that ties user ids to session ids                             *)
(* (src/src/protocol/Router/UserSessionMap.cpp).  The code keeps two hash  *)
(* maps under one shared_mutex: user_to_session_ (here u2s) routes a       *)
(* message addressed to a user, session_to_user_ (here s2u) names the      *)
(* sender of a message received on a session.  Every operation takes the   *)
(* unique lock for its whole body, so one operation is one step.           *)
(*                                                                         *)
(* A lookup that finds nothing returns the id 0 ("0 is an invalid id",     *)
(* Types.h): an absent entry is the value NoSession or NoUser.             *)
(***************************************************************************)
CONSTANTS
    Users,        \* valid user ids
    Sessions,     \* valid session ids
    NoUser,       \* the user id 0
    NoSession     \* the session id 0

ASSUME ZeroIsInvalid == NoUser \notin Users /\ NoSession \notin Sessions

VARIABLES
    u2s,          \* user_to_session_
    s2u           \* session_to_user_

vars == <<u2s, s2u>>

LoginResults == {"SUCCESS", "INVALID_CREDENTIALS"}

Init ==
    /\ u2s = [u \in Users |-> NoSession]
    /\ s2u = [s \in Sessions |-> NoUser]

-----------------------------------------------------------------------------
(* The three private operations. *)

\* session_to_user_.erase(s): erasing an absent key is a no-op.
EraseSession(s) ==
    IF s \in Sessions THEN [s2u EXCEPT ![s] = NoUser] ELSE s2u

\* Mutant of Bind: both ids are integers, and the wrong one is stored.
Bind_storesSession(u, s) ==
    /\ s2u' = [EraseSession(u2s[u]) EXCEPT ![s] = s]
    /\ u2s' = [u2s EXCEPT ![u] = s]

\* Binding u to s forgets u's previous session, but not the previous user of s.
Bind(u, s) ==
    /\ s2u' = [EraseSession(u2s[u]) EXCEPT ![s] = u]
    /\ u2s' = [u2s EXCEPT ![u] = s]

\* Mutant of Unbind: the session goes on naming the unbound user.
Unbind_keepsSession(u) ==
    /\ u2s[u] # NoSession
    /\ u2s' = [u2s EXCEPT ![u] = NoSession]
    /\ UNCHANGED s2u

Unbind(u) ==
    /\ u2s[u] # NoSession
    /\ s2u' = EraseSession(u2s[u])
    /\ u2s' = [u2s EXCEPT ![u] = NoSession]

\* Mutant of UnbindBySessionId: the user's route is left behind.
UnbindBySessionId_keepsRoute(s) ==
    /\ s2u[s] # NoUser
    /\ s2u' = [s2u EXCEPT ![s] = NoUser]
    /\ UNCHANGED u2s

UnbindBySessionId(s) ==
    /\ s2u[s] # NoUser
    /\ s2u' = [s2u EXCEPT ![s] = NoUser]
    /\ u2s' = [u2s EXCEPT ![s2u[s]] = NoSession]

-----------------------------------------------------------------------------
(* What the rest of the server calls.  A call whose guard is false leaves   *)
(* both maps alone.                                                         *)

GetSessionId(u) == IF u \in Users THEN u2s[u] ELSE NoSession
GetUserId(s) == IF s \in Sessions THEN s2u[s] ELSE NoUser

onUserLogin(result, u, s) ==
    /\ result = "SUCCESS"
    /\ u # NoUser
    /\ s # NoSession
    /\ Bind(u, s)

\* The user id wins; the session id is looked at only when there is no user id.
onUserLogout(u, s) ==
    \/ u # NoUser /\ Unbind(u)
    \/ u = NoUser /\ s # NoSession /\ UnbindBySessionId(s)

RegisterUserSession(u, s) == Bind(u, s)
UnregisterUserSession(u) == Unbind(u)
UnregisterSessionById(s) == UnbindBySessionId(s)

Next ==
    \/ \E r \in LoginResults, u \in Users \cup {NoUser}, s \in Sessions \cup {NoSession} :
          onUserLogin(r, u, s)
    \/ \E u \in Users \cup {NoUser}, s \in Sessions \cup {NoSession} : onUserLogout(u, s)
    \/ \E u \in Users, s \in Sessions : RegisterUserSession(u, s)
    \/ \E u \in Users : UnregisterUserSession(u)
    \/ \E s \in Sessions : UnregisterSessionById(s)

Spec == Init /\ [][Next]_vars

-----------------------------------------------------------------------------
(* Properties. *)

\* Type invariant: each map holds valid ids or the "not found" id 0.
TypeOK ==
    /\ u2s \in [Users -> Sessions \cup {NoSession}]
    /\ s2u \in [Sessions -> Users \cup {NoUser}]

\* A session that names a user as its sender is the session that user's
\* messages are routed to: whatever the order of logins, re-logins and
\* unbindings, an abandoned session never keeps speaking for its user.
BackRoute == \A s \in Sessions : s2u[s] # NoUser => u2s[s2u[s]] = s

\* No two sessions speak for one user at the same time.
OneSessionPerUser ==
    \A s, t \in Sessions : s2u[s] # NoUser /\ s2u[s] = s2u[t] => s = t

\* A session stops naming a sender only in a step that moves or removes the
\* route of a user that was routed to it.  The user need not be the session's
\* own: a previous user of the session that logs in elsewhere silences it too.
SilencedOnlyByRouteChange ==
    [][\A s \in Sessions :
          s2u[s] # NoUser /\ s2u'[s] = NoUser
             => \E u \in Users : u2s[u] = s /\ u2s'[u] # s]_vars
=============================================================================
