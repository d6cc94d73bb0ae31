----------------------- MODULE UserSessionMap_proofs -----------------------
(***************************************************************************)
(* What holds of the user/session table for any sets of users and sessions. *)
(***************************************************************************)
EXTENDS UserSessionMap, TLAPS

\* Erasing a session id, valid or not, leaves a well-typed map that differs
\* from the old one at most at that session, which then names nobody.
LEMMA EraseSessionEffect ==
    ASSUME TypeOK, NEW s
    PROVE  /\ EraseSession(s) \in [Sessions -> Users \cup {NoUser}]
           /\ \A t \in Sessions :
                 EraseSession(s)[t] = IF t = s THEN NoUser ELSE s2u[t]
BY DEF TypeOK, EraseSession

\* Bind keeps both maps well typed.
LEMMA BindType ==
    ASSUME TypeOK, NEW u \in Users, NEW s \in Sessions, Bind(u, s)
    PROVE  TypeOK'
<1>1. EraseSession(u2s[u]) \in [Sessions -> Users \cup {NoUser}]
    BY EraseSessionEffect
<1> QED
    BY <1>1 DEF TypeOK, Bind

\* Unbind keeps both maps well typed.
LEMMA UnbindType ==
    ASSUME TypeOK, NEW u \in Users, Unbind(u)
    PROVE  TypeOK'
<1>1. EraseSession(u2s[u]) \in [Sessions -> Users \cup {NoUser}]
    BY EraseSessionEffect
<1> QED
    BY <1>1 DEF TypeOK, Unbind

\* UnbindBySessionId keeps both maps well typed.
LEMMA UnbindBySessionIdType ==
    ASSUME TypeOK, NEW s \in Sessions, UnbindBySessionId(s)
    PROVE  TypeOK'
BY DEF TypeOK, UnbindBySessionId

\* Every step of the table is one of its three private operations on valid ids.
LEMMA StepIsOperation ==
    ASSUME TypeOK, Next
    PROVE  \/ \E u \in Users, s \in Sessions : Bind(u, s)
           \/ \E u \in Users : Unbind(u)
           \/ \E s \in Sessions : UnbindBySessionId(s)
BY ZeroIsInvalid
   DEF Next, onUserLogin, onUserLogout, RegisterUserSession,
       UnregisterUserSession, UnregisterSessionById

\* Both maps hold only valid ids or the "not found" id.
THEOREM TypeCorrect == Spec => []TypeOK
<1>1. Init => TypeOK
    BY DEF Init, TypeOK
<1>2. TypeOK /\ [Next]_vars => TypeOK'
    <2>1. ASSUME TypeOK, Next
          PROVE  TypeOK'
        BY <2>1, StepIsOperation, BindType, UnbindType, UnbindBySessionIdType
    <2>2. ASSUME TypeOK, UNCHANGED vars
          PROVE  TypeOK'
        BY <2>2 DEF vars, TypeOK
    <2> QED
        BY <2>1, <2>2
<1> QED
    BY <1>1, <1>2, PTL DEF Spec

\* Each private operation keeps the way back from a session to itself.
LEMMA BackRouteStep ==
    ASSUME TypeOK, BackRoute, Next
    PROVE  BackRoute'
<1> SUFFICES ASSUME NEW t \in Sessions, s2u'[t] # NoUser
             PROVE  u2s'[s2u'[t]] = t
    BY DEF BackRoute
<1>1. CASE \E u \in Users, s \in Sessions : Bind(u, s)
    <2> PICK u \in Users, s \in Sessions : Bind(u, s)
        BY <1>1
    <2>1. CASE t = s
        BY <2>1, EraseSessionEffect DEF Bind, TypeOK
    <2>2. CASE t # s
        \* t named its user before, and was not u's session, or it would be erased
        <3>1. s2u'[t] = s2u[t] /\ t # u2s[u]
            BY <2>2, EraseSessionEffect DEF Bind
        <3>2. u2s[s2u[t]] = t /\ s2u[t] # u /\ s2u[t] \in Users
            BY <3>1 DEF BackRoute, TypeOK
        <3> QED
            BY <3>1, <3>2 DEF Bind, TypeOK
    <2> QED
        BY <2>1, <2>2
<1>2. CASE \E u \in Users : Unbind(u)
    <2> PICK u \in Users : Unbind(u)
        BY <1>2
    <2>1. s2u'[t] = s2u[t] /\ t # u2s[u]
        BY EraseSessionEffect DEF Unbind
    <2>2. u2s[s2u[t]] = t /\ s2u[t] # u /\ s2u[t] \in Users
        BY <2>1 DEF BackRoute, TypeOK
    <2> QED
        BY <2>1, <2>2 DEF Unbind, TypeOK
<1>3. CASE \E s \in Sessions : UnbindBySessionId(s)
    <2> PICK s \in Sessions : UnbindBySessionId(s)
        BY <1>3
    <2>1. t # s /\ s2u'[t] = s2u[t]
        BY DEF UnbindBySessionId, TypeOK
    <2>2. u2s[s2u[t]] = t /\ u2s[s2u[s]] = s /\ s2u[t] \in Users
        BY <2>1 DEF BackRoute, UnbindBySessionId, TypeOK
    <2> QED
        BY <2>1, <2>2 DEF UnbindBySessionId, TypeOK
<1> QED
    BY <1>1, <1>2, <1>3, StepIsOperation

\* A session that names a sender is where that sender's messages are routed.
THEOREM BackRouteHolds == Spec => []BackRoute
<1>1. Init => BackRoute
    BY DEF Init, BackRoute
<1>2. TypeOK /\ BackRoute /\ [Next]_vars => BackRoute'
    <2>1. ASSUME UNCHANGED vars, BackRoute
          PROVE  BackRoute'
        BY <2>1 DEF vars, BackRoute
    <2> QED
        BY <2>1, BackRouteStep
<1> QED
    BY <1>1, <1>2, TypeCorrect, PTL DEF Spec

\* No user is ever the sender of two sessions.
THEOREM OneSession == Spec => []OneSessionPerUser
<1>1. BackRoute => OneSessionPerUser
    BY DEF BackRoute, OneSessionPerUser
<1> QED
    BY <1>1, BackRouteHolds, PTL

\* A session falls silent only when a user routed to it moves or leaves.
THEOREM SilencedByRouteChange == Spec => SilencedOnlyByRouteChange
<1> DEFINE A == \A s \in Sessions :
                   s2u[s] # NoUser /\ s2u'[s] = NoUser
                      => \E u \in Users : u2s[u] = s /\ u2s'[u] # s
<1>1. ASSUME TypeOK, BackRoute, Next
      PROVE  A
    <2> SUFFICES ASSUME NEW t \in Sessions, s2u[t] # NoUser, s2u'[t] = NoUser
                 PROVE  \E u \in Users : u2s[u] = t /\ u2s'[u] # t
        OBVIOUS
    <2>1. CASE \E u \in Users, s \in Sessions : Bind(u, s)
        <3> PICK u \in Users, s \in Sessions : Bind(u, s)
            BY <2>1
        <3>1. t # s
            BY <1>1, EraseSessionEffect, ZeroIsInvalid DEF Bind, TypeOK
        <3>2. t = u2s[u] /\ u2s'[u] = s
            BY <1>1, <3>1, EraseSessionEffect DEF Bind, TypeOK
        <3> QED
            BY <3>1, <3>2
    <2>2. CASE \E u \in Users : Unbind(u)
        <3> PICK u \in Users : Unbind(u)
            BY <2>2
        <3>1. t = u2s[u]
            BY <1>1, EraseSessionEffect DEF Unbind
        <3> QED
            BY <1>1, <3>1, ZeroIsInvalid DEF Unbind, TypeOK
    <2>3. CASE \E s \in Sessions : UnbindBySessionId(s)
        <3> PICK s \in Sessions : UnbindBySessionId(s)
            BY <2>3
        <3>1. t = s /\ s2u[s] \in Users
            BY <1>1 DEF UnbindBySessionId, TypeOK
        <3>2. u2s[s2u[s]] = s /\ u2s'[s2u[s]] = NoSession
            BY <1>1, <3>1 DEF BackRoute, UnbindBySessionId, TypeOK
        <3> QED
            BY <3>1, <3>2, ZeroIsInvalid
    <2> QED
        BY <1>1, <2>1, <2>2, <2>3, StepIsOperation
<1>2. TypeOK /\ BackRoute /\ [Next]_vars => [A]_vars
    BY <1>1 DEF vars
<1> QED
    BY <1>2, TypeCorrect, BackRouteHolds, PTL DEF Spec, SilencedOnlyByRouteChange
=============================================================================
