------------------------ MODULE SessionManager_proofs ------------------------
(***************************************************************************)
(* What holds of the session table and its sweep for any number of ids,    *)
(* any limit on sessions and any timeout, with the sweep on or off.        *)
(***************************************************************************)
EXTENDS SessionManager, FiniteSetTheorems, TLAPS

\* An id is an id, and until the counter goes round it is the connection's number.
LEMMA SessionIdFacts ==
    ASSUME NEW c \in Nat
    PROVE  /\ SessionIdOf(c) \in Ids
           /\ c < SessionSpace => SessionIdOf(c) = c
BY SpaceAssumption DEF SessionIdOf, Ids

\* Any set of ids is finite, and one id more or less changes its size by at
\* most one.
LEMMA IdSetSizes ==
    ASSUME NEW S \in SUBSET Ids, NEW s \in Ids
    PROVE  /\ Cardinality(S) \in Nat
           /\ Cardinality(S \cup {s}) <= Cardinality(S) + 1
           /\ Cardinality(S \ {s}) \in Nat
           /\ Cardinality(S \ {s}) <= Cardinality(S)
<1>1. IsFiniteSet(Ids)
    BY SpaceAssumption, FS_Interval DEF Ids
<1>2. IsFiniteSet(S)
    BY <1>1, FS_Subset
<1>3. Cardinality(S) \in Nat
    BY <1>2, FS_CardinalityType
<1>4. Cardinality(S \cup {s}) <= Cardinality(S) + 1
    <2>1. CASE s \in S
        <3>1. S \cup {s} = S
            BY <2>1
        <3> QED
            BY <1>3, <3>1
    <2>2. CASE s \notin S
        <3>1. Cardinality(S \cup {s}) = Cardinality(S) + 1
            BY <1>2, <2>2, FS_AddElement
        <3> QED
            BY <1>3, <3>1
    <2> QED
        BY <2>1, <2>2
<1>5. IsFiniteSet(S \ {s}) /\ Cardinality(S \ {s}) <= Cardinality(S)
    <2>1. S \ {s} \in SUBSET S
        OBVIOUS
    <2> QED
        BY <1>2, <2>1, FS_Subset
<1> QED
    BY <1>3, <1>4, <1>5, FS_CardinalityType

\* Taking an id out of the tables, whatever else happens.
LEMMA RemovalEffect ==
    ASSUME TypeOK, NEW s \in Ids,
           sessions' = [sessions EXCEPT ![s] = NoConn],
           silence' = [silence EXCEPT ![s] = 0]
    PROVE  /\ sessions' \in [Ids -> Conns \cup {NoConn}]
           /\ silence' \in [Ids -> 0 .. LongAgo]
           /\ Present' = Present \ {s}
           /\ \A t \in Present' : sessions'[t] = sessions[t] /\ silence'[t] = silence[t]
           /\ sessions'[NoSession] = NoConn
           /\ Cardinality(Present') <= MaxSessions
<1>1. /\ sessions' \in [Ids -> Conns \cup {NoConn}]
      /\ silence' \in [Ids -> 0 .. LongAgo]
    BY TimesAssumption, BoundsAssumption DEF TypeOK, LongAgo
<1>2. Present' = Present \ {s}
    BY DEF TypeOK, Present
<1>3. \A t \in Present' : sessions'[t] = sessions[t] /\ silence'[t] = silence[t]
    BY <1>2 DEF TypeOK, Present
<1>4. sessions'[NoSession] = NoConn
    BY DEF TypeOK
<1>5. Cardinality(Present') <= MaxSessions
    <2>1. Present \in SUBSET Ids
        BY DEF Present
    <2>2. /\ Cardinality(Present) \in Nat
          /\ Cardinality(Present \ {s}) \in Nat
          /\ Cardinality(Present \ {s}) <= Cardinality(Present)
        BY <2>1, IdSetSizes
    <2> QED
        BY <1>2, <2>2, SpaceAssumption DEF TypeOK
<1> QED
    BY <1>1, <1>2, <1>3, <1>4, <1>5

\* What CloseSession does to the tables: the id goes, nothing else does.
LEMMA CloseSessionEffect ==
    ASSUME TypeOK, NEW s \in Ids, NEW others \in [Conns -> ConnStates],
           CloseSession(s, others)
    PROVE  /\ sessions' \in [Ids -> Conns \cup {NoConn}]
           /\ silence' \in [Ids -> 0 .. LongAgo]
           /\ conn' \in [Conns -> ConnStates]
           /\ hooks' \in [Conns -> Nat]
           /\ Present' = Present \ {s}
           /\ \A t \in Present' : sessions'[t] = sessions[t] /\ silence'[t] = silence[t]
           /\ sessions'[NoSession] = NoConn
           /\ Cardinality(Present') <= MaxSessions
<1>1. conn' \in [Conns -> ConnStates] /\ hooks' \in [Conns -> Nat]
    BY DEF TypeOK, CloseSession, ConnStates
<1>2. sessions' = [sessions EXCEPT ![s] = NoConn] /\ silence' = [silence EXCEPT ![s] = 0]
    BY DEF CloseSession
<1> QED
    BY <1>1, <1>2, RemovalEffect

-----------------------------------------------------------------------------
(* The inductive invariant.                                                 *)

\* A session is under its own connection's id; its hook has not been called
\* and its connection was not closed by the manager.
Keyed ==
    /\ \A s \in Present : /\ sessions[s] \in 1 .. accepted
                          /\ SessionIdOf(sessions[s]) = s
                          /\ hooks[sessions[s]] = 0
                          /\ conn[sessions[s]] \in {"fresh", "open", "closed"}
    /\ \A c \in Conns : c > accepted => hooks[c] = 0
    /\ creating.at # "idle" => creating.conn \in Conns /\ creating.conn <= accepted

\* Whoever is silent too long is known to be late, and so is, until ids go
\* round, whoever the sweep has collected (the connection of id s is s then).
Lateness ==
    /\ \A s \in Present : silence[s] > Timeout => sessions[s] \in late
    /\ IdsFresh => expired \subseteq late

Inv == TypeOK /\ Keyed /\ Lateness /\ SweepLoopRuns /\ ClosedOnce /\ PromptSessionsKept

\* The table is empty, and nothing is under way.
LEMMA InitInv == Init => Inv
<1> SUFFICES ASSUME Init PROVE Inv
    OBVIOUS
<1>1. Present = {} /\ Live = {} /\ Sweepers = {}
    BY DEF Init, Present, Live, Sweepers, Idle, NoWait
<1>2. TypeOK
    <2>1. Cardinality(Present) = 0
        BY <1>1, FS_EmptySet
    <2>2. NoSession \in Ids
        BY SpaceAssumption DEF NoSession, Ids
    <2>3. Cardinality(Present) <= MaxSessions
        BY <2>1, SpaceAssumption
    <2>4. 0 \in 0 .. LongAgo /\ 0 \in 0 .. LagLimit /\ 0 \in 0 .. ConnLimit
        BY TimesAssumption, BoundsAssumption DEF LongAgo
    <2>5. NoWait \in NoWait .. Interval
        BY TimesAssumption DEF NoWait
    <2> QED
        BY <2>2, <2>3, <2>4, <2>5 DEF Init, TypeOK, ConnStates, Idle
<1>3. Keyed /\ Lateness /\ SweepLoopRuns /\ ClosedOnce /\ PromptSessionsKept
    BY <1>1, BoundsAssumption
       DEF Init, Keyed, Lateness, SweepLoopRuns, ClosedOnce, PromptSessionsKept, Conns, Idle
<1> QED
    BY <1>2, <1>3 DEF Inv

-----------------------------------------------------------------------------
(* Every action preserves it.                                               *)

\* The sessions and who they belong to, in terms of the table alone.
LEMMA SameTable ==
    ASSUME UNCHANGED sessions
    PROVE  Present' = Present /\ Live' = Live
BY DEF Present, Live

\* A socket is refused, or gets a place under a new id.
LEMMA CreateSessionInv == ASSUME Inv, CreateSession PROVE Inv'
<1> DEFINE c == accepted + 1
           s == SessionIdOf(c)
<1>1. c \in Conns /\ c \in Nat /\ s \in Ids /\ accepted \in Nat /\ accepted' = c
    BY BoundsAssumption, SessionIdFacts DEF Inv, TypeOK, CreateSession, Conns
<1>2. CASE Refuses(s)
    <2>1. UNCHANGED <<tableVars, conn, creating, sweepVars, history>>
        BY <1>2 DEF CreateSession
    <2>2. Present' = Present /\ Live' = Live /\ Sweepers' = Sweepers
        BY <2>1, SameTable DEF tableVars, sweepVars, Sweepers
    <2>3. TypeOK'
        BY <1>1, <2>1, <2>2 DEF Inv, TypeOK, tableVars, sweepVars, history, Conns
    <2>4. Keyed'
        BY <1>1, <2>1, <2>2 DEF Inv, TypeOK, Keyed, tableVars, history, Conns
    <2>5. IdsFresh' => IdsFresh
        BY <1>1, SpaceAssumption DEF IdsFresh
    <2> QED
        BY <2>1, <2>2, <2>3, <2>4, <2>5
           DEF Inv, Lateness, SweepLoopRuns, ClosedOnce, PromptSessionsKept,
               tableVars, sweepVars, history
<1>3. CASE ~Refuses(s)
    <2>1. /\ s # NoSession /\ s \notin Present /\ ~(Cardinality(Present) >= MaxSessions)
          /\ sessions' = [sessions EXCEPT ![s] = c]
          /\ silence' = [silence EXCEPT ![s] = 0]
          /\ conn' = [conn EXCEPT ![c] = "fresh"]
          /\ creating' = [at |-> "start", conn |-> c]
          /\ creating = Idle
          /\ UNCHANGED <<sweepVars, history>>
        BY <1>3 DEF CreateSession, Refuses
    <2>2. Present' = Present \cup {s} /\ sessions'[s] = c /\ silence'[s] = 0
        BY <1>1, <2>1 DEF Inv, TypeOK, Present, Conns, NoConn
    <2>3. \A t \in Present : t # s /\ sessions'[t] = sessions[t] /\ silence'[t] = silence[t]
        BY <1>1, <2>1 DEF Inv, TypeOK, Present
    <2>4. TypeOK'
        <3>1. Cardinality(Present') <= MaxSessions
            <4>1. Present \in SUBSET Ids
                BY DEF Present
            <4>2. /\ Cardinality(Present) \in Nat
                  /\ Cardinality(Present \cup {s}) <= Cardinality(Present) + 1
                BY <1>1, <4>1, IdSetSizes
            <4>3. Cardinality(Present \cup {s}) \in Nat
                <5>1. Present \cup {s} \in SUBSET Ids
                    BY <1>1, <4>1
                <5> QED
                    BY <1>1, <5>1, IdSetSizes
            <4> QED
                BY <2>1, <2>2, <4>2, <4>3, SpaceAssumption
        <3>2. 0 \in 0 .. LongAgo
            BY TimesAssumption, BoundsAssumption DEF LongAgo
        <3>3. accepted' \in 0 .. ConnLimit
            BY <1>1, BoundsAssumption DEF Conns
        <3> HIDE DEF c, s
        <3>4. sessions' \in [Ids -> Conns \cup {NoConn}] /\ silence' \in [Ids -> 0 .. LongAgo]
            BY <1>1, <2>1, <3>2 DEF Inv, TypeOK
        <3>5. conn' \in [Conns -> ConnStates]
            BY <1>1, <2>1 DEF Inv, TypeOK, ConnStates
        <3>6. creating' \in [at : {"idle", "start", "ensure", "schedule"}, conn : Conns \cup {NoConn}]
            BY <1>1, <2>1
        <3>7. sessions'[NoSession] = NoConn
            BY <1>1, <2>1 DEF Inv, TypeOK
        <3> QED
            BY <2>1, <3>1, <3>3, <3>4, <3>5, <3>6, <3>7
               DEF Inv, TypeOK, sweepVars, history
    <2>5. Keyed'
        <3>1. hooks[c] = 0 /\ hooks' = hooks
            BY <1>1, <2>1 DEF Inv, Keyed, history
        <3>2. ASSUME NEW t \in Present PROVE sessions[t] # c /\ conn'[sessions[t]] = conn[sessions[t]]
            BY <1>1, <2>1 DEF Inv, TypeOK, Keyed, Present
        <3>3. conn'[c] = "fresh"
            BY <1>1, <2>1 DEF Inv, TypeOK
        <3> HIDE DEF c, s
        <3>4. \A t \in Present' :
                  /\ sessions'[t] \in 1 .. accepted'
                  /\ SessionIdOf(sessions'[t]) = t
                  /\ hooks'[sessions'[t]] = 0
                  /\ conn'[sessions'[t]] \in {"fresh", "open", "closed"}
            <4>1. ASSUME NEW t \in Present
                  PROVE  /\ sessions'[t] \in 1 .. accepted'
                         /\ SessionIdOf(sessions'[t]) = t
                         /\ hooks'[sessions'[t]] = 0
                         /\ conn'[sessions'[t]] \in {"fresh", "open", "closed"}
                <5>1. sessions[t] \in 1 .. accepted'
                    BY <1>1 DEF Inv, Keyed, c
                <5> QED
                    BY <2>3, <3>1, <3>2, <5>1 DEF Inv, Keyed
            <4>2. /\ sessions'[s] \in 1 .. accepted'
                  /\ SessionIdOf(sessions'[s]) = s
                  /\ hooks'[sessions'[s]] = 0
                  /\ conn'[sessions'[s]] \in {"fresh", "open", "closed"}
                BY <1>1, <2>2, <3>1, <3>3 DEF s, Conns
            <4> QED
                BY <2>2, <4>1, <4>2
        <3>5. \A d \in Conns : d > accepted' => hooks'[d] = 0
            BY <1>1, <3>1 DEF Inv, Keyed, Conns, c
        <3>6. creating'.conn \in Conns /\ creating'.conn <= accepted'
            BY <1>1, <2>1 DEF c, Conns
        <3> QED
            BY <3>4, <3>5, <3>6 DEF Keyed
    <2>6. IdsFresh' => IdsFresh
        BY <1>1, SpaceAssumption DEF IdsFresh
    <2>7. Lateness'
        BY <2>1, <2>2, <2>3, <2>6, TimesAssumption DEF Inv, Lateness, sweepVars, history
    <2>8. SweepLoopRuns'
        <3>1. Sweepers' = Sweepers
            BY <2>1 DEF Sweepers, Idle, sweepVars
        <3>2. SweepEnabled => \A t \in Present : running
            BY <2>1, TimesAssumption DEF Inv, SweepLoopRuns, Idle
        <3> QED
            BY <2>1, <2>2, <2>3, <3>1, TimesAssumption
               DEF Inv, SweepLoopRuns, Idle, sweepVars, history
    <2>9. ClosedOnce'
        <3>1. hooks[c] = 0 /\ hooks' = hooks
            BY <1>1, <2>1 DEF Inv, Keyed, history
        <3>2. \A d \in Conns : d # c => (d \in Live' <=> d \in Live) /\ conn'[d] = conn[d]
            BY <1>1, <2>1, <2>2, <2>3 DEF Inv, TypeOK, Live
        <3> QED
            BY <1>1, <3>1, <3>2 DEF Inv, ClosedOnce
    <2>10. PromptSessionsKept'
        BY <2>1, <2>6 DEF Inv, PromptSessionsKept, history
    <2> QED
        BY <2>4, <2>5, <2>7, <2>8, <2>9, <2>10 DEF Inv
<1> QED
    BY <1>2, <1>3
-----------------------------------------------------------------------------
(* CreateSession after the table, and the start of the sweep.               *)

\* At most one of the three is under way, none once arming the timer failed,
\* and the flag is set exactly in these four cases.
Flags(atSchedule, isDue, inHandler, flag, failed) ==
    /\ flag <=> (atSchedule \/ isDue \/ inHandler \/ failed)
    /\ ~(atSchedule /\ isDue) /\ ~(atSchedule /\ inHandler) /\ ~(isDue /\ inHandler)
    /\ ~(failed /\ atSchedule) /\ ~(failed /\ isDue) /\ ~(failed /\ inHandler)

\* The first three parts of SweepLoopRuns say the same of the set Sweepers.
LEMMA SweepersAsFlags ==
    (/\ running <=> (Sweepers # {} \/ armFailed)
     /\ armFailed => Sweepers = {}
     /\ \A p, q \in Sweepers : p = q)
        <=> Flags(creating.at = "schedule", due # NoWait, sweep # "idle", running, armFailed)
<1>1. /\ "creator" \in Sweepers <=> creating.at = "schedule"
      /\ "timer" \in Sweepers <=> due # NoWait
      /\ "handler" \in Sweepers <=> sweep # "idle"
      /\ \A p \in Sweepers : p \in {"creator", "timer", "handler"}
    BY DEF Sweepers
<1>2. Sweepers # {} <=> (creating.at = "schedule" \/ due # NoWait \/ sweep # "idle")
    BY <1>1
<1>3. (\A p, q \in Sweepers : p = q)
        <=> /\ ~(creating.at = "schedule" /\ due # NoWait)
            /\ ~(creating.at = "schedule" /\ sweep # "idle")
            /\ ~(due # NoWait /\ sweep # "idle")
    BY <1>1
<1> QED
    BY <1>2, <1>3 DEF Flags

\* The same after a step.
LEMMA SweepersAsFlagsNext ==
    (/\ running' <=> (Sweepers' # {} \/ armFailed')
     /\ armFailed' => Sweepers' = {}
     /\ \A p, q \in Sweepers' : p = q)
        <=> Flags(creating'.at = "schedule", due' # NoWait, sweep' # "idle", running', armFailed')
<1>1. /\ "creator" \in Sweepers' <=> creating'.at = "schedule"
      /\ "timer" \in Sweepers' <=> due' # NoWait
      /\ "handler" \in Sweepers' <=> sweep' # "idle"
      /\ \A p \in Sweepers' : p \in {"creator", "timer", "handler"}
    BY DEF Sweepers
<1>2. Sweepers' # {} <=> (creating'.at = "schedule" \/ due' # NoWait \/ sweep' # "idle")
    BY <1>1
<1>3. (\A p, q \in Sweepers' : p = q)
        <=> /\ ~(creating'.at = "schedule" /\ due' # NoWait)
            /\ ~(creating'.at = "schedule" /\ sweep' # "idle")
            /\ ~(due' # NoWait /\ sweep' # "idle")
    BY <1>1
<1> QED
    BY <1>2, <1>3 DEF Flags

\* A connection that starts reading was fresh, so nobody has closed it.
LEMMA StartConnectionInv == ASSUME Inv, StartConnection PROVE Inv'
<1>1. /\ creating.at = "start" /\ creating.conn \in Conns
      /\ UNCHANGED <<accepted, sessions, silence, running, due, sweep, lag, expired, late, swept, hooks, armFailed>>
    BY DEF Inv, Keyed, StartConnection, tableVars, sweepVars, history
<1>2. Present' = Present /\ Live' = Live
    BY <1>1, SameTable
<1>3. conn' \in [Conns -> ConnStates]
    BY <1>1 DEF Inv, TypeOK, StartConnection, ConnStates
<1>4. \A c \in Conns : conn'[c] = conn[c] \/ (conn[c] = "fresh" /\ conn'[c] = "open")
    BY <1>1 DEF Inv, TypeOK, StartConnection
<1>5. /\ creating' \in [at : {"idle", "start", "ensure", "schedule"}, conn : Conns \cup {NoConn}]
      /\ creating' = Idle \/ creating'.conn = creating.conn
      /\ creating'.at # "schedule"
      /\ SweepEnabled => creating'.at = "ensure" /\ creating'.conn = creating.conn
    BY <1>1 DEF Inv, TypeOK, StartConnection, Idle
<1>6. TypeOK'
    BY <1>1, <1>2, <1>3, <1>5 DEF Inv, TypeOK
<1>7. Keyed'
    <2>1. \A s \in Present : sessions[s] \in Conns
        BY DEF Inv, TypeOK, Present
    <2> QED
        BY <1>1, <1>2, <1>4, <1>5, <2>1 DEF Inv, Keyed, Idle
<1>8. SweepLoopRuns'
    <2>1. Sweepers' = Sweepers
        BY <1>1, <1>5 DEF Sweepers
    <2> QED
        BY <1>1, <1>2, <1>5, <2>1 DEF Inv, SweepLoopRuns
<1>9. Lateness' /\ PromptSessionsKept'
    BY <1>1, <1>2 DEF Inv, Lateness, PromptSessionsKept, IdsFresh
<1>10. ClosedOnce'
    BY <1>1, <1>2, <1>4 DEF Inv, ClosedOnce
<1> QED
    BY <1>6, <1>7, <1>8, <1>9, <1>10 DEF Inv

\* The catch of CreateSession: the id is taken out; the flag and the hooks are
\* left alone.
LEMMA TakeBackInv ==
    ASSUME Inv, TakeBack, creating.at # "idle",
           armFailed' = (armFailed \/ creating.at = "schedule")
    PROVE  Inv'
<1> DEFINE s == SessionIdOf(creating.conn)
<1>1. /\ creating.conn \in Conns /\ creating' = Idle
      /\ UNCHANGED <<accepted, running, due, sweep, lag, expired, late, swept, hooks>>
    BY DEF Inv, Keyed, TakeBack, sweepVars
<1>2. s \in Ids
    BY <1>1, SessionIdFacts DEF Conns
<1>3. sessions' = [sessions EXCEPT ![s] = NoConn] /\ silence' = [silence EXCEPT ![s] = 0]
    BY DEF TakeBack
<1>4. \A c \in Conns : conn'[c] = conn[c] \/ (c = creating.conn /\ conn[c] = "fresh" /\ conn'[c] = "done")
    BY <1>1 DEF Inv, TypeOK, TakeBack
<1>5. conn' \in [Conns -> ConnStates]
    BY <1>1 DEF Inv, TypeOK, TakeBack, ConnStates
<1>6. /\ sessions' \in [Ids -> Conns \cup {NoConn}]
      /\ silence' \in [Ids -> 0 .. LongAgo]
      /\ Present' = Present \ {s}
      /\ \A t \in Present' : sessions'[t] = sessions[t] /\ silence'[t] = silence[t]
      /\ sessions'[NoSession] = NoConn
      /\ Cardinality(Present') <= MaxSessions
    BY <1>2, <1>3, RemovalEffect DEF Inv
<1> HIDE DEF s
<1>7. TypeOK'
    <2>1. armFailed' \in BOOLEAN
        BY DEF Inv, TypeOK
    <2> QED
        BY <1>1, <1>5, <1>6, <2>1 DEF Inv, TypeOK, Idle
<1>8. Keyed'
    <2>1. ASSUME NEW t \in Present'
          PROVE  sessions[t] \in Conns /\ sessions[t] # creating.conn
        BY <1>6 DEF Inv, TypeOK, Keyed, Present, s
    <2> QED
        BY <1>1, <1>4, <1>6, <2>1 DEF Inv, Keyed, Idle
<1>9. SweepLoopRuns'
    <2>1. Flags(creating'.at = "schedule", due' # NoWait, sweep' # "idle", running', armFailed')
        <3>1. Flags(creating.at = "schedule", due # NoWait, sweep # "idle", running, armFailed)
            BY SweepersAsFlags DEF Inv, SweepLoopRuns
        <3>2. creating'.at # "schedule"
            BY <1>1 DEF Idle
        <3> QED
            BY <1>1, <3>1, <3>2 DEF Flags
    <2>2. ASSUME SweepEnabled, NEW t \in Present' PROVE running'
        <3>1. sessions[t] # creating.conn
            BY <1>6 DEF Keyed, Inv, s
        <3> QED
            BY <1>1, <1>6, <2>2, <3>1 DEF Inv, SweepLoopRuns
    <2> QED
        BY <2>1, <2>2, SweepersAsFlagsNext DEF SweepLoopRuns
<1>10. Lateness' /\ PromptSessionsKept'
    BY <1>1, <1>6 DEF Inv, Lateness, PromptSessionsKept, IdsFresh
<1>11. ClosedOnce'
    <2>1. Live' \subseteq Live
        BY <1>6 DEF Live
    <2> QED
        BY <1>1, <1>4, <2>1 DEF Inv, ClosedOnce
<1> QED
    BY <1>7, <1>8, <1>9, <1>10, <1>11 DEF Inv

\* Start throws, or setting the timer does.
LEMMA ThrowsInv == ASSUME Inv, StartThrows \/ StartSweepThrows PROVE Inv'
<1>1. /\ TakeBack /\ creating.at # "idle"
      /\ armFailed' = (armFailed \/ creating.at = "schedule")
    BY DEF Inv, TypeOK, StartThrows, StartSweepThrows
<1> QED
    BY <1>1, TakeBackInv

\* Steps that change neither the table nor a connection keep what is said of them.
LEMMA SameConnections ==
    ASSUME Inv, UNCHANGED <<accepted, sessions, silence, conn, late, swept, hooks, armFailed>>,
           expired' \subseteq expired,
           creating'.at # "idle" => creating'.at \in {"start", "ensure", "schedule"}
                                    /\ creating.at # "idle" /\ creating'.conn = creating.conn
    PROVE  Keyed' /\ Lateness' /\ ClosedOnce' /\ PromptSessionsKept' /\ Present' = Present
<1>1. Present' = Present /\ Live' = Live
    BY SameTable
<1> QED
    BY <1>1 DEF Inv, Keyed, Lateness, ClosedOnce, PromptSessionsKept, IdsFresh

\* The flag is set; the thread that set it is the one on its way.
LEMMA EnsureInv == ASSUME Inv, EnsureHeartbeatSweepStarted PROVE Inv'
<1>1. /\ creating.at = "ensure" /\ running'
      /\ UNCHANGED <<accepted, sessions, silence, conn, due, sweep, lag, expired, late, swept, hooks, armFailed>>
      /\ creating' = IF running THEN Idle ELSE [creating EXCEPT !.at = "schedule"]
    BY DEF EnsureHeartbeatSweepStarted, tableVars, history
<1>2. /\ creating' \in [at : {"idle", "start", "ensure", "schedule"}, conn : Conns \cup {NoConn}]
      /\ creating' = Idle \/ (creating'.at = "schedule" /\ creating'.conn = creating.conn)
      /\ creating'.at = "schedule" <=> ~running
    BY <1>1 DEF Inv, TypeOK, Idle
<1>3. Keyed' /\ Lateness' /\ ClosedOnce' /\ PromptSessionsKept' /\ Present' = Present
    BY <1>1, <1>2, SameConnections DEF Idle
<1>4. TypeOK'
    BY <1>1, <1>2, <1>3 DEF Inv, TypeOK
<1>5. SweepLoopRuns'
    <2>1. Flags(FALSE, due # NoWait, sweep # "idle", running, armFailed)
        BY <1>1, SweepersAsFlags DEF Inv, SweepLoopRuns
    <2>2. Flags(creating'.at = "schedule", due' # NoWait, sweep' # "idle", running', armFailed')
        BY <1>1, <1>2, <2>1 DEF Flags
    <2> QED
        BY <1>1, <2>2, SweepersAsFlagsNext DEF SweepLoopRuns
<1> QED
    BY <1>3, <1>4, <1>5 DEF Inv

\* The creator hands over to the timer, which had no wait outstanding.
LEMMA StartSweepInv == ASSUME Inv, StartSweep PROVE Inv'
<1>1. /\ creating.at = "schedule" /\ creating' = Idle /\ due' = Interval
      /\ UNCHANGED <<accepted, sessions, silence, conn, running, sweep, lag, expired, late, swept, hooks, armFailed>>
    BY DEF StartSweep, ScheduleHeartbeatSweep, tableVars, history
<1>2. Keyed' /\ Lateness' /\ ClosedOnce' /\ PromptSessionsKept' /\ Present' = Present
    BY <1>1, SameConnections DEF Idle
<1>3. due' \in NoWait .. Interval /\ due' # NoWait
    BY <1>1, TimesAssumption DEF NoWait
<1>4. TypeOK'
    BY <1>1, <1>2, <1>3 DEF Inv, TypeOK, Idle
<1>5. Flags(TRUE, due # NoWait, sweep # "idle", running, armFailed)
    BY <1>1, SweepersAsFlags DEF Inv, SweepLoopRuns
<1>6. SweepLoopRuns'
    <2>1. Flags(creating'.at = "schedule", due' # NoWait, sweep' # "idle", running', armFailed')
        BY <1>1, <1>3, <1>5 DEF Flags, Idle
    <2>2. running'
        BY <1>1, <1>5 DEF Flags
    <2> QED
        BY <2>1, <2>2, SweepersAsFlagsNext DEF SweepLoopRuns
<1> QED
    BY <1>2, <1>4, <1>6 DEF Inv

-----------------------------------------------------------------------------
(* The connections.                                                         *)

\* A heartbeat sets one session's silence back and changes nothing else.
LEMMA HandleHeartbeatInv == ASSUME Inv, NEW c \in Conns, HandleHeartbeat(c) PROVE Inv'
<1>1. UNCHANGED <<accepted, sessions, conn, creating, running, due, sweep, lag, expired, late, swept, hooks, armFailed>>
    BY DEF HandleHeartbeat, sweepVars, history
<1>2. Present' = Present /\ Live' = Live /\ Sweepers' = Sweepers
    BY <1>1, SameTable DEF Sweepers
<1>3. /\ silence' \in [Ids -> 0 .. LongAgo]
      /\ \A s \in Present : silence'[s] = silence[s] \/ silence'[s] = 0
    BY TimesAssumption, BoundsAssumption
       DEF Inv, TypeOK, HandleHeartbeat, onSessionHeartbeat, LongAgo, Present
<1>4. TypeOK'
    BY <1>1, <1>2, <1>3 DEF Inv, TypeOK
<1>5. Keyed' /\ ClosedOnce' /\ PromptSessionsKept' /\ SweepLoopRuns'
    BY <1>1, <1>2 DEF Inv, Keyed, ClosedOnce, PromptSessionsKept, SweepLoopRuns, IdsFresh
<1>6. Lateness'
    BY <1>1, <1>2, <1>3, TimesAssumption DEF Inv, Lateness, IdsFresh
<1> QED
    BY <1>4, <1>5, <1>6 DEF Inv

\* A connection that closes was open or asked to close.
LEMMA DoCloseInv == ASSUME Inv, NEW c \in Conns, DoClose(c) PROVE Inv'
<1>1. UNCHANGED <<accepted, sessions, silence, creating, running, due, sweep, lag, expired, late, swept, hooks, armFailed>>
    BY DEF DoClose, sweepVars, tableVars, history
<1>2. Present' = Present /\ Live' = Live /\ Sweepers' = Sweepers
    BY <1>1, SameTable DEF Sweepers
<1>3. /\ conn' \in [Conns -> ConnStates]
      /\ \A d \in Conns : conn'[d] = conn[d] \/ conn'[d] = "closed"
    BY DEF Inv, TypeOK, DoClose, ConnStates
<1>4. TypeOK'
    BY <1>1, <1>2, <1>3 DEF Inv, TypeOK
<1>5. Keyed'
    <2>1. \A s \in Present : sessions[s] \in Conns
        BY DEF Inv, TypeOK, Present
    <2> QED
        BY <1>1, <1>2, <1>3, <2>1 DEF Inv, Keyed
<1>6. PromptSessionsKept' /\ SweepLoopRuns' /\ Lateness'
    BY <1>1, <1>2 DEF Inv, PromptSessionsKept, SweepLoopRuns, IdsFresh, Lateness
<1>7. ClosedOnce'
    BY <1>1, <1>2, <1>3 DEF Inv, ClosedOnce
<1> QED
    BY <1>4, <1>5, <1>6, <1>7 DEF Inv

\* CloseSession keeps the table keyed and every session closed once, provided
\* only a connection under the same id was moved on, from "closed" to "done".
LEMMA CloseSessionInv ==
    ASSUME Inv, NEW s \in Ids, NEW others \in [Conns -> ConnStates],
           CloseSession(s, others), UNCHANGED <<accepted, creating, running, due, sweep, lag, armFailed>>,
           \A c \in Conns : \/ others[c] = conn[c]
                            \/ SessionIdOf(c) = s /\ conn[c] = "closed" /\ others[c] = "done"
    PROVE  Keyed' /\ ClosedOnce' /\ SweepLoopRuns' /\ Present' = Present \ {s}
           /\ \A t \in Present' : sessions'[t] = sessions[t] /\ silence'[t] = silence[t]
<1>1. /\ Present' = Present \ {s}
      /\ \A t \in Present' : sessions'[t] = sessions[t] /\ silence'[t] = silence[t]
    BY CloseSessionEffect DEF Inv
<1>2. \A c \in Conns :
        /\ c # sessions[s] => conn'[c] = others[c] /\ hooks'[c] = hooks[c]
        /\ c = sessions[s] => /\ conn'[c] = IF others[c] \in {"fresh", "open"} THEN "closing" ELSE others[c]
                              /\ hooks'[c] = hooks[c] + 1
    BY DEF CloseSession
<1>3. ASSUME NEW t \in Present'
      PROVE  /\ sessions[t] \in Conns /\ sessions[t] # sessions[s]
             /\ conn'[sessions[t]] = conn[sessions[t]] /\ hooks'[sessions[t]] = hooks[sessions[t]]
    <2>1. sessions[t] \in Conns /\ SessionIdOf(sessions[t]) = t /\ t # s
        BY <1>1 DEF Inv, TypeOK, Keyed, Present
    <2>2. sessions[t] # sessions[s]
        BY <1>1, <2>1 DEF Inv, Keyed, Present
    <2> QED
        BY <1>2, <2>1, <2>2
<1>4. ASSUME sessions[s] # NoConn
      PROVE  /\ s \in Present /\ sessions[s] \in Conns /\ sessions[s] <= accepted
             /\ hooks[sessions[s]] = 0 /\ conn[sessions[s]] \in {"fresh", "open", "closed"}
    <2>1. s \in Present
        BY <1>4 DEF Present
    <2> QED
        BY <2>1, <1>4 DEF Inv, TypeOK, Keyed
<1>5. Keyed'
    <2>1. \A t \in Present' : /\ sessions'[t] \in 1 .. accepted'
                              /\ SessionIdOf(sessions'[t]) = t
                              /\ hooks'[sessions'[t]] = 0
                              /\ conn'[sessions'[t]] \in {"fresh", "open", "closed"}
        BY <1>1, <1>3 DEF Inv, Keyed
    <2>2. ASSUME NEW c \in Conns, c > accepted' PROVE hooks'[c] = 0
        <3>1. c # sessions[s]
            BY <1>4, <2>2 DEF Inv, TypeOK, Conns, NoConn
        <3> QED
            BY <1>2, <2>2, <3>1 DEF Inv, Keyed
    <2> QED
        BY <2>1, <2>2 DEF Inv, Keyed
<1>6. ClosedOnce'
    <2> SUFFICES ASSUME NEW c \in Conns
                 PROVE  /\ hooks'[c] <= 1
                        /\ hooks'[c] = 1 => c \notin Live' /\ conn'[c] \in {"closing", "closed", "done"}
        BY DEF ClosedOnce
    <2>1. CASE c = sessions[s]
        <3>1. c \notin Live'
            BY <1>1, <1>3, <2>1 DEF Live
        <3>2. hooks[c] = 0 /\ conn[c] \in {"fresh", "open", "closed"}
            BY <1>4, <2>1 DEF Conns, NoConn
        <3> QED
            BY <1>2, <2>1, <3>1, <3>2
    <2>2. CASE c # sessions[s]
        <3>1. Live' \subseteq Live
            BY <1>1 DEF Live
        <3> QED
            BY <1>2, <2>2, <3>1 DEF Inv, ClosedOnce
    <2> QED
        BY <2>1, <2>2
<1>7. SweepLoopRuns'
    <2>1. Sweepers' = Sweepers
        BY DEF Sweepers
    <2> QED
        BY <1>1, <2>1 DEF Inv, SweepLoopRuns
<1> QED
    BY <1>1, <1>5, <1>6, <1>7

\* The close callback: its own session goes, or, once ids have gone round,
\* the one that has the same id by now.
LEMMA NotifyInv == ASSUME Inv, NEW c \in Conns, Notify(c) PROVE Inv'
<1> DEFINE s == SessionIdOf(c)
           others == [conn EXCEPT ![c] = "done"]
<1>1. /\ conn[c] = "closed" /\ CloseSession(s, others)
      /\ UNCHANGED <<accepted, creating, running, due, sweep, lag, expired, late, swept, armFailed>>
    BY DEF Notify, sweepVars
<1>2. s \in Ids
    BY SessionIdFacts DEF Conns
<1>3. /\ others \in [Conns -> ConnStates]
      /\ \A d \in Conns : \/ others[d] = conn[d]
                          \/ SessionIdOf(d) = s /\ conn[d] = "closed" /\ others[d] = "done"
    BY <1>1 DEF Inv, TypeOK, ConnStates
<1> HIDE DEF s, others
<1>4. Keyed' /\ ClosedOnce' /\ SweepLoopRuns' /\ Present' = Present \ {s}
      /\ \A t \in Present' : sessions'[t] = sessions[t] /\ silence'[t] = silence[t]
    BY <1>1, <1>2, <1>3, CloseSessionInv
<1>5. TypeOK'
    <2>1. /\ sessions' \in [Ids -> Conns \cup {NoConn}]
          /\ silence' \in [Ids -> 0 .. LongAgo]
          /\ conn' \in [Conns -> ConnStates]
          /\ hooks' \in [Conns -> Nat]
          /\ sessions'[NoSession] = NoConn
          /\ Cardinality(Present') <= MaxSessions
        BY <1>1, <1>2, <1>3, CloseSessionEffect DEF Inv
    <2> QED
        BY <1>1, <2>1 DEF Inv, TypeOK
<1>6. Lateness' /\ PromptSessionsKept'
    BY <1>1, <1>4 DEF Inv, Lateness, PromptSessionsKept, IdsFresh
<1> QED
    BY <1>4, <1>5, <1>6 DEF Inv

-----------------------------------------------------------------------------
(* Time and the sweep.                                                      *)

\* Whoever a tick makes silent too long is recorded as late; a wait stays one.
LEMMA TickInv == ASSUME Inv, Tick PROVE Inv'
<1>1. UNCHANGED <<accepted, sessions, conn, creating, running, sweep, expired, swept, hooks, armFailed>>
    BY DEF Tick
<1>2. Present' = Present /\ Live' = Live
    BY <1>1, SameTable
<1>3. lag' \in 0 .. LagLimit
    BY BoundsAssumption DEF Inv, TypeOK, Tick
<1>4. due' \in NoWait .. Interval /\ (due' # NoWait <=> due # NoWait)
    BY TimesAssumption DEF Inv, TypeOK, Tick, NoWait
<1>5. silence' \in [Ids -> 0 .. LongAgo]
    BY TimesAssumption, BoundsAssumption DEF Inv, TypeOK, Tick, LongAgo
<1>6. late \subseteq late' /\ late' \subseteq Conns
      /\ \A s \in Present : silence'[s] > Timeout => sessions[s] \in late'
    BY DEF Inv, TypeOK, Tick, Present
<1>7. TypeOK'
    BY <1>1, <1>2, <1>3, <1>4, <1>5, <1>6 DEF Inv, TypeOK
<1>8. Keyed' /\ ClosedOnce'
    BY <1>1, <1>2 DEF Inv, Keyed, ClosedOnce
<1>9. Lateness' /\ PromptSessionsKept'
    BY <1>1, <1>2, <1>6 DEF Inv, Lateness, PromptSessionsKept, IdsFresh
<1>10. SweepLoopRuns'
    <2>1. Sweepers' = Sweepers
        BY <1>1, <1>4 DEF Sweepers
    <2> QED
        BY <1>1, <1>2, <2>1 DEF Inv, SweepLoopRuns
<1> QED
    BY <1>7, <1>8, <1>9, <1>10 DEF Inv

\* The timer hands over to its handler.
LEMMA WaitCompletesInv == ASSUME Inv, WaitCompletes PROVE Inv'
<1>1. /\ due = 0 /\ sweep = "idle" /\ due' = NoWait /\ sweep' = "scan" /\ lag' = 0
      /\ UNCHANGED <<accepted, sessions, silence, conn, creating, running, expired, late, swept, hooks, armFailed>>
    BY DEF WaitCompletes, tableVars, history
<1>2. Keyed' /\ Lateness' /\ ClosedOnce' /\ PromptSessionsKept' /\ Present' = Present
    <2>1. creating.at # "idle" => creating.at \in {"start", "ensure", "schedule"}
        BY DEF Inv, TypeOK
    <2> QED
        BY <1>1, <2>1, SameConnections
<1>3. TypeOK'
    <2>1. 0 \in 0 .. LagLimit /\ NoWait \in NoWait .. Interval
        BY BoundsAssumption, TimesAssumption DEF NoWait
    <2> QED
        BY <1>1, <1>2, <2>1 DEF Inv, TypeOK
<1>4. SweepLoopRuns'
    <2>1. Flags(creating.at = "schedule", due # NoWait, sweep # "idle", running, armFailed)
        BY SweepersAsFlags DEF Inv, SweepLoopRuns
    <2>2. due # NoWait
        BY <1>1 DEF NoWait
    <2>3. Flags(creating'.at = "schedule", due' # NoWait, sweep' # "idle", running', armFailed') /\ running'
        BY <1>1, <2>1, <2>2 DEF Flags
    <2> QED
        BY <2>3, SweepersAsFlagsNext DEF SweepLoopRuns
<1> QED
    BY <1>2, <1>3, <1>4 DEF Inv

\* Only late connections are collected: `now' is not later than the look.
LEMMA SweepScanInv == ASSUME Inv, SweepScan PROVE Inv'
<1>1. /\ sweep = "scan" /\ sweep' = "close" /\ lag' = 0
      /\ expired' = {s \in Present : silence[s] - lag > Timeout}
      /\ UNCHANGED <<accepted, sessions, silence, conn, creating, running, due, late, swept, hooks, armFailed>>
    BY DEF SweepScan, tableVars, history
<1>2. Present' = Present /\ Live' = Live
    BY <1>1, SameTable
<1>3. Keyed' /\ ClosedOnce' /\ PromptSessionsKept'
    BY <1>1, <1>2 DEF Inv, Keyed, ClosedOnce, PromptSessionsKept, IdsFresh
<1>4. TypeOK'
    <2>1. 0 \in 0 .. LagLimit
        BY BoundsAssumption
    <2>2. expired' \subseteq Ids
        BY <1>1 DEF Present
    <2> QED
        BY <1>1, <1>2, <2>1, <2>2 DEF Inv, TypeOK
<1>5. Lateness'
    <2>1. ASSUME IdsFresh, NEW s \in expired' PROVE s \in late
        <3>1. s \in Present /\ silence[s] - lag > Timeout
            BY <1>1, <2>1
        <3>2. s \in Ids /\ silence[s] \in 0 .. LongAgo /\ lag \in 0 .. LagLimit
            BY <3>1 DEF Present, Inv, TypeOK
        <3>3. silence[s] > Timeout
            BY <3>1, <3>2, TimesAssumption, BoundsAssumption DEF LongAgo
        <3>4. sessions[s] \in late /\ sessions[s] \in 1 .. accepted /\ SessionIdOf(sessions[s]) = s
            BY <3>1, <3>3 DEF Inv, Lateness, Keyed
        <3>5. sessions[s] = s
            BY <2>1, <3>4, SpaceAssumption, SessionIdFacts DEF IdsFresh, Inv, TypeOK
        <3> QED
            BY <3>4, <3>5
    <2> QED
        BY <1>1, <1>2, <2>1 DEF Inv, Lateness, IdsFresh
<1>6. SweepLoopRuns'
    <2>1. Sweepers' = Sweepers
        BY <1>1 DEF Sweepers
    <2> QED
        BY <1>1, <1>2, <2>1 DEF Inv, SweepLoopRuns
<1> QED
    BY <1>3, <1>4, <1>5, <1>6 DEF Inv

\* The connection of a collected id is late, whatever came between.
LEMMA SweepCloseInv == ASSUME Inv, NEW s \in Ids, SweepClose(s) PROVE Inv'
<1>1. /\ s \in expired /\ expired' = expired \ {s} /\ CloseSession(s, conn)
      /\ swept' = swept \cup ({sessions[s]} \ {NoConn})
      /\ UNCHANGED <<accepted, creating, running, due, sweep, lag, late, armFailed>>
    BY DEF SweepClose
<1>2. conn \in [Conns -> ConnStates]
    BY DEF Inv, TypeOK
<1>3. Keyed' /\ ClosedOnce' /\ SweepLoopRuns' /\ Present' = Present \ {s}
      /\ \A t \in Present' : sessions'[t] = sessions[t] /\ silence'[t] = silence[t]
    BY <1>1, <1>2, CloseSessionInv
<1>4. TypeOK'
    <2>1. /\ sessions' \in [Ids -> Conns \cup {NoConn}]
          /\ silence' \in [Ids -> 0 .. LongAgo]
          /\ conn' \in [Conns -> ConnStates]
          /\ hooks' \in [Conns -> Nat]
          /\ sessions'[NoSession] = NoConn
          /\ Cardinality(Present') <= MaxSessions
        BY <1>1, <1>2, CloseSessionEffect DEF Inv
    <2>2. swept' \subseteq Conns
        BY <1>1 DEF Inv, TypeOK
    <2> QED
        BY <1>1, <2>1, <2>2 DEF Inv, TypeOK
<1>5. Lateness'
    BY <1>1, <1>3 DEF Inv, Lateness, IdsFresh
<1>6. PromptSessionsKept'
    <2> SUFFICES ASSUME IdsFresh, sessions[s] # NoConn PROVE sessions[s] \in late
        BY <1>1 DEF Inv, PromptSessionsKept, IdsFresh
    <2>1. sessions[s] \in 1 .. accepted /\ SessionIdOf(sessions[s]) = s
        BY DEF Inv, Keyed, Present
    <2>2. sessions[s] = s
        BY <2>1, SpaceAssumption, SessionIdFacts DEF IdsFresh, Inv, TypeOK
    <2> QED
        BY <1>1, <2>2 DEF Inv, Lateness
<1> QED
    BY <1>3, <1>4, <1>5, <1>6 DEF Inv

\* The loop ends only when there is nobody left to watch.
LEMMA SweepCheckInv == ASSUME Inv, SweepCheck PROVE Inv'
<1>1. /\ sweep = "close"
      /\ \/ Present = {} /\ running' = FALSE /\ sweep' = "idle"
         \/ sweep' = "schedule" /\ running' = running
      /\ UNCHANGED <<accepted, sessions, silence, conn, creating, due, lag, expired, late, swept, hooks, armFailed>>
    BY DEF SweepCheck, tableVars, history
<1>2. Keyed' /\ Lateness' /\ ClosedOnce' /\ PromptSessionsKept' /\ Present' = Present
    <2>1. creating.at # "idle" => creating.at \in {"start", "ensure", "schedule"}
        BY DEF Inv, TypeOK
    <2> QED
        BY <1>1, <2>1, SameConnections
<1>3. TypeOK'
    BY <1>1, <1>2 DEF Inv, TypeOK
<1>4. SweepLoopRuns'
    <2>1. Flags(creating.at = "schedule", due # NoWait, TRUE, running, armFailed)
        BY <1>1, SweepersAsFlags DEF Inv, SweepLoopRuns
    <2>2. Flags(creating'.at = "schedule", due' # NoWait, sweep' # "idle", running', armFailed')
        BY <1>1, <2>1 DEF Flags
    <2>3. Present' = {} \/ running'
        BY <1>1, <1>2, <2>1 DEF Flags
    <2> QED
        BY <2>2, <2>3, SweepersAsFlagsNext DEF SweepLoopRuns
<1> QED
    BY <1>2, <1>3, <1>4 DEF Inv

\* The handler hands over to the timer.
LEMMA SweepAgainInv == ASSUME Inv, SweepAgain PROVE Inv'
<1>1. /\ sweep = "schedule" /\ sweep' = "idle" /\ due' = Interval
      /\ UNCHANGED <<accepted, sessions, silence, conn, creating, running, lag, expired, late, swept, hooks, armFailed>>
    BY DEF SweepAgain, ScheduleHeartbeatSweep, tableVars, history
<1>2. Keyed' /\ Lateness' /\ ClosedOnce' /\ PromptSessionsKept' /\ Present' = Present
    <2>1. creating.at # "idle" => creating.at \in {"start", "ensure", "schedule"}
        BY DEF Inv, TypeOK
    <2> QED
        BY <1>1, <2>1, SameConnections
<1>3. due' \in NoWait .. Interval /\ due' # NoWait
    BY <1>1, TimesAssumption DEF NoWait
<1>4. TypeOK'
    BY <1>1, <1>2, <1>3 DEF Inv, TypeOK
<1>5. SweepLoopRuns'
    <2>1. Flags(creating.at = "schedule", due # NoWait, TRUE, running, armFailed)
        BY <1>1, SweepersAsFlags DEF Inv, SweepLoopRuns
    <2>2. Flags(creating'.at = "schedule", due' # NoWait, sweep' # "idle", running', armFailed') /\ running'
        BY <1>1, <1>3, <2>1 DEF Flags
    <2> QED
        BY <2>2, SweepersAsFlagsNext DEF SweepLoopRuns
<1> QED
    BY <1>2, <1>4, <1>5 DEF Inv

-----------------------------------------------------------------------------
(* The theorems.                                                            *)

\* No step of any thread leads out of the invariant.
LEMMA NextInv == ASSUME Inv, [Next]_vars PROVE Inv'
<1>1. CASE CreateSession
    BY <1>1, CreateSessionInv
<1>2. CASE Creator
    BY <1>2, StartConnectionInv, ThrowsInv, EnsureInv, StartSweepInv DEF Creator
<1>3. ASSUME NEW c \in Conns, HandleHeartbeat(c) \/ DoClose(c) \/ Notify(c) PROVE Inv'
    BY <1>3, HandleHeartbeatInv, DoCloseInv, NotifyInv
<1>4. CASE Tick
    BY <1>4, TickInv
<1>5. CASE Sweeper
    BY <1>5, WaitCompletesInv, SweepScanInv, SweepCloseInv, SweepCheckInv, SweepAgainInv DEF Sweeper
<1>6. CASE UNCHANGED vars
    <2>1. UNCHANGED <<accepted, sessions, silence, conn, creating, running, due, sweep, lag, expired,
                      late, swept, hooks, armFailed>>
        BY <1>6 DEF vars, tableVars, sweepVars, history
    <2>2. Present' = Present /\ Live' = Live /\ Sweepers' = Sweepers
        BY <2>1, SameTable DEF Sweepers
    <2> QED
        BY <2>1, <2>2
           DEF Inv, TypeOK, Keyed, Lateness, SweepLoopRuns, ClosedOnce, PromptSessionsKept, IdsFresh
<1> QED
    BY <1>1, <1>2, <1>3, <1>4, <1>5, <1>6 DEF Next

\* The invariant holds throughout.
LEMMA InvHolds == Spec => []Inv
<1>1. Init => Inv
    BY InitInv
<1>2. Inv /\ [Next]_vars => Inv'
    BY NextInv
<1> QED
    BY <1>1, <1>2, PTL DEF Spec

\* Type correctness of the session table, with the limit on sessions and
\* without the id 0.
THEOREM TypeCorrect == Spec => []TypeOK
<1>1. Inv => TypeOK
    BY DEF Inv
<1> QED
    BY <1>1, InvHolds, PTL

\* While the flag is set exactly one thread is on its way to the next sweep,
\* unless setting the timer has thrown, after which none ever is; and every
\* session in the table finds the flag set.
THEOREM SweepLoopHolds == Spec => []SweepLoopRuns
<1>1. Inv => SweepLoopRuns
    BY DEF Inv
<1> QED
    BY <1>1, InvHolds, PTL

\* The sweep closes no session whose client kept within the timeout.
THEOREM PromptHolds == Spec => []PromptSessionsKept
<1>1. Inv => PromptSessionsKept
    BY DEF Inv
<1> QED
    BY <1>1, InvHolds, PTL

\* No session is closed twice, even after ids have gone round.
THEOREM ClosedOnceHolds == Spec => []ClosedOnce
<1>1. Inv => ClosedOnce
    BY DEF Inv
<1> QED
    BY <1>1, InvHolds, PTL
=============================================================================
