---------------------------- MODULE SessionManager ----------------------------
(***************************************************************************)
(* The table of sessions (src/src/network/session/SessionManager.cpp) and  *)
(* the heartbeat sweep that closes silent ones.  The acceptor creates one  *)
(* session after the other; the connections' strands record heartbeats and *)
(* report that they closed; the sweep is the handler of a timer and runs   *)
(* on any io thread.  mutex_ is held for one look at the tables at a time, *)
(* so a step of this module is what happens under the lock once, and       *)
(* everything else may happen in between.                                  *)
(*                                                                         *)
(* Connection c is the c-th socket that was accepted.  Time is counted in  *)
(* units of which kHeartbeatTimeout has Timeout and                        *)
(* kHeartbeatCheckInterval has Interval; for each session the model keeps  *)
(* how long ago last_heartbeat_at_ is, up to a time that makes no          *)
(* difference any more.                                                    *)
(*                                                                         *)
(* SweepEnabled is FALSE in the code as it stands: CreateSession's call of *)
(* EnsureHeartbeatSweepStarted is commented out (SessionManager.cpp:77-78).*)
(* With TRUE the module is the code with that call put back.               *)
(***************************************************************************)
EXTENDS Integers, FiniteSets

CONSTANTS
    SessionSpace,   \* number of session ids: 2^32 in the code
    MaxSessions,    \* kMaxConnectionNum
    Timeout,        \* kHeartbeatTimeout
    Interval,       \* kHeartbeatCheckInterval
    SweepEnabled,   \* CreateSession starts the sweep
    ConnLimit,      \* bound on the number of accepted sockets
    LagLimit        \* bound on the time between `now' and the lock in a sweep

ASSUME SpaceAssumption == SessionSpace \in Nat \ {0} /\ MaxSessions \in Nat
ASSUME TimesAssumption == Timeout \in Nat /\ Interval \in Nat /\ SweepEnabled \in BOOLEAN
ASSUME BoundsAssumption == ConnLimit \in Nat /\ LagLimit \in Nat

NoSession == 0
Ids == 0 .. SessionSpace - 1
Conns == 1 .. ConnLimit
NoConn == 0
NoWait == -1

\* Times beyond this one are not told apart.
LongAgo == Timeout + LagLimit + 1

VARIABLES
    accepted,       \* sockets accepted so far; gives next_session_id_
    sessions,       \* sessions_: session id -> its connection, or NoConn
    silence,        \* time since last_heartbeat_at_ of each session, 0 without one
    conn,           \* the state of each connection
    creating,       \* where CreateSession stands, and with which connection
    running,        \* heartbeat_sweep_running_
    due,            \* time until the timer's wait completes, or NoWait
    sweep,          \* where HandleHeartbeatSweep stands
    lag,            \* time since the sweep read `now'
    expired,        \* expired_sessions
    late,           \* history: connections that let the timeout pass
    swept,          \* history: connections whose session the sweep closed
    hooks,          \* history: calls of on_session_close_ per connection
    armFailed       \* history: the timer's arming threw in CreateSession

tableVars == <<sessions, silence>>
sweepVars == <<running, due, sweep, lag, expired>>
history == <<late, swept, hooks, armFailed>>
vars == <<accepted, tableVars, conn, creating, sweepVars, history>>

\* A connection is "fresh" from the moment its session is in the table,
\* "open" once it reads, "closing" when Close has been posted to its strand,
\* "closed" when DoClose has run, "done" when the manager has been told.
ConnStates == {"none", "fresh", "open", "closing", "closed", "done"}

Idle == [at |-> "idle", conn |-> NoConn]

Init ==
    /\ accepted = 0
    /\ sessions = [s \in Ids |-> NoConn]
    /\ silence = [s \in Ids |-> 0]
    /\ conn = [c \in Conns |-> "none"]
    /\ creating = Idle
    /\ running = FALSE
    /\ due = NoWait
    /\ sweep = "idle"
    /\ lag = 0
    /\ expired = {}
    /\ late = {}
    /\ swept = {}
    /\ hooks = [c \in Conns |-> 0]
    /\ armFailed = FALSE

\* The ids in sessions_, and the connections of its sessions.
Present == {s \in Ids : sessions[s] # NoConn}
Live == {sessions[s] : s \in Present}

\* next_session_id_ starts at 1 and wraps at the width of SessionId.
SessionIdOf(c) == c % SessionSpace

-----------------------------------------------------------------------------
(* CreateSession, called by the acceptor for one socket at a time.          *)

\* Mutant of Refuses: the table is allowed one session too many.
Refuses_offByOne(s) ==
    \/ s = NoSession
    \/ Cardinality(Present) > MaxSessions
    \/ s \in Present

\* The id 0, a full table and an id in use refuse the socket; the id is spent.
Refuses(s) ==
    \/ s = NoSession
    \/ Cardinality(Present) >= MaxSessions
    \/ s \in Present

CreateSession ==
    LET c == accepted + 1
        s == SessionIdOf(c)
    IN  /\ creating = Idle
        /\ accepted < ConnLimit
        /\ accepted' = c
        /\ IF Refuses(s)
           THEN UNCHANGED <<tableVars, conn, creating>>
           ELSE /\ sessions' = [sessions EXCEPT ![s] = c]
                /\ silence' = [silence EXCEPT ![s] = 0]
                /\ conn' = [conn EXCEPT ![c] = "fresh"]
                /\ creating' = [at |-> "start", conn |-> c]
        /\ UNCHANGED <<sweepVars, history>>

\* connection->Start().  A connection that was closed meanwhile stays closed.
StartConnection ==
    /\ creating.at = "start"
    /\ conn' = [conn EXCEPT ![creating.conn] = IF @ = "fresh" THEN "open" ELSE @]
    /\ creating' = IF SweepEnabled THEN [creating EXCEPT !.at = "ensure"] ELSE Idle
    /\ UNCHANGED <<accepted, tableVars, sweepVars, history>>

\* CreateSession's catch: the session is taken out again and the hook is not
\* called; a connection nobody posted to goes with its last pointer, one that
\* reads already goes on reading, for nobody.  The sweep's flag is not reset.
TakeBack ==
    LET c == creating.conn
    IN  /\ sessions' = [sessions EXCEPT ![SessionIdOf(c)] = NoConn]
        /\ silence' = [silence EXCEPT ![SessionIdOf(c)] = 0]
        /\ conn' = [conn EXCEPT ![c] = IF @ = "fresh" THEN "done" ELSE @]
        /\ creating' = Idle
        /\ UNCHANGED <<accepted, sweepVars, late, swept, hooks>>

\* Start() throws.
StartThrows ==
    /\ creating.at = "start"
    /\ TakeBack
    /\ UNCHANGED armFailed

\* ScheduleHeartbeatSweep: a wait that is still outstanding is cancelled, and
\* its handler returns at once.
ScheduleHeartbeatSweep == due' = Interval

\* Mutant of EnsureHeartbeatSweepStarted: the flag is tested but not set.
EnsureHeartbeatSweepStarted_testsOnly ==
    /\ creating.at = "ensure"
    /\ creating' = IF running THEN Idle ELSE [creating EXCEPT !.at = "schedule"]
    /\ UNCHANGED <<accepted, tableVars, conn, sweepVars, history>>

\* EnsureHeartbeatSweepStarted, under the lock ...
EnsureHeartbeatSweepStarted ==
    /\ creating.at = "ensure"
    /\ running' = TRUE
    /\ creating' = IF running THEN Idle ELSE [creating EXCEPT !.at = "schedule"]
    /\ UNCHANGED <<accepted, tableVars, conn, due, sweep, lag, expired, history>>

\* ... and after it.
StartSweep ==
    /\ creating.at = "schedule"
    /\ ScheduleHeartbeatSweep
    /\ creating' = Idle
    /\ UNCHANGED <<accepted, tableVars, conn, running, sweep, lag, expired, history>>

\* Setting the timer throws (expires_after and async_wait may): the same catch
\* takes the session back, after the flag was set and with no wait outstanding.
\* A throw of the handler's own call (SweepAgain) is not caught anywhere and
\* ends the process.
StartSweepThrows ==
    /\ creating.at = "schedule"
    /\ TakeBack
    /\ armFailed' = TRUE

-----------------------------------------------------------------------------
(* CloseSession and the connections.                                        *)

\* Mutant of CloseSession: the hook runs even if somebody was faster.
CloseSession_always(s, others) ==
    LET c == IF sessions[s] # NoConn THEN sessions[s] ELSE CHOOSE x \in Conns : SessionIdOf(x) = s
    IN  /\ sessions' = [sessions EXCEPT ![s] = NoConn]
        /\ silence' = [silence EXCEPT ![s] = 0]
        /\ conn' = [others EXCEPT ![c] = IF @ \in {"fresh", "open"} THEN "closing" ELSE @]
        /\ hooks' = [hooks EXCEPT ![c] = @ + 1]

\* The session is taken out under the lock; whoever takes it out closes its
\* connection (a task for the connection's strand) and calls the hook.
\* Nothing happens if it is not in the table.  `others' is the state of the
\* connections the call finds.
CloseSession(s, others) ==
    /\ sessions' = [sessions EXCEPT ![s] = NoConn]
    /\ silence' = [silence EXCEPT ![s] = 0]
    /\ conn' = [c \in Conns |->
                  IF c = sessions[s] /\ others[c] \in {"fresh", "open"} THEN "closing" ELSE others[c]]
    /\ hooks' = [c \in Conns |-> IF c = sessions[s] THEN hooks[c] + 1 ELSE hooks[c]]

\* A heartbeat counts if the id is in the table.
onSessionHeartbeat(s) ==
    silence' = IF s \in Present THEN [silence EXCEPT ![s] = 0] ELSE silence

\* HeartbeatHandler, on the strand of the connection that sent a heartbeat.
\* The answer it sends has no payload and EncodeSync refuses it, so nothing
\* goes back.
HandleHeartbeat(c) ==
    /\ conn[c] \in {"open", "closing"}
    /\ onSessionHeartbeat(SessionIdOf(c))
    /\ UNCHANGED <<accepted, sessions, conn, creating, sweepVars, history>>

\* DoClose on the strand: the peer went away, or Close was posted.
DoClose(c) ==
    /\ conn[c] \in {"open", "closing"}
    /\ conn' = [conn EXCEPT ![c] = "closed"]
    /\ UNCHANGED <<accepted, tableVars, creating, sweepVars, history>>

\* The close callback of DoClose.
Notify(c) ==
    /\ conn[c] = "closed"
    /\ CloseSession(SessionIdOf(c), [conn EXCEPT ![c] = "done"])
    /\ UNCHANGED <<accepted, creating, sweepVars, late, swept, armFailed>>

-----------------------------------------------------------------------------
(* The sweep.                                                               *)

\* A unit of time passes for every session, the timer and a sweep's `now'.
Tick ==
    /\ sweep = "scan" => lag < LagLimit
    /\ lag' = IF sweep = "scan" THEN lag + 1 ELSE lag
    /\ silence' = [s \in Ids |->
                     IF s \in Present /\ silence[s] < LongAgo THEN silence[s] + 1 ELSE silence[s]]
    /\ late' = late \cup {sessions[s] : s \in {x \in Present : silence'[x] > Timeout}}
    /\ due' = IF due > 0 THEN due - 1 ELSE due
    /\ UNCHANGED <<accepted, sessions, conn, creating, running, sweep, expired, swept, hooks, armFailed>>

\* The wait completes and HandleHeartbeatSweep reads `now'.
WaitCompletes ==
    /\ due = 0
    /\ sweep = "idle"
    /\ due' = NoWait
    /\ sweep' = "scan"
    /\ lag' = 0
    /\ UNCHANGED <<accepted, tableVars, conn, creating, running, expired, history>>

\* Mutant of SweepScan: the interval is used instead of the timeout.
SweepScan_tooEarly ==
    /\ sweep = "scan"
    /\ expired' = {s \in Present : silence[s] - lag >= Interval}
    /\ sweep' = "close"
    /\ lag' = 0
    /\ UNCHANGED <<accepted, tableVars, conn, creating, running, due, history>>

\* The sessions that were silent too long at `now' are collected under the lock.
SweepScan ==
    /\ sweep = "scan"
    /\ expired' = {s \in Present : silence[s] - lag > Timeout}
    /\ sweep' = "close"
    /\ lag' = 0
    /\ UNCHANGED <<accepted, tableVars, conn, creating, running, due, history>>

\* They are closed one after the other, whatever has happened to them since.
SweepClose(s) ==
    /\ sweep = "close"
    /\ s \in expired
    /\ expired' = expired \ {s}
    /\ CloseSession(s, conn)
    /\ swept' = swept \cup ({sessions[s]} \ {NoConn})
    /\ UNCHANGED <<accepted, creating, running, due, sweep, lag, late, armFailed>>

\* Under the lock again: without sessions the sweep ends, and the flag lets
\* the next session start it.
SweepCheck ==
    /\ sweep = "close"
    /\ expired = {}
    /\ IF Present = {}
       THEN running' = FALSE /\ sweep' = "idle"
       ELSE sweep' = "schedule" /\ UNCHANGED running
    /\ UNCHANGED <<accepted, tableVars, conn, creating, due, lag, expired, history>>

\* Mutant of SweepAgain: the timer is not set again.
SweepAgain_stops ==
    /\ sweep = "schedule"
    /\ sweep' = "idle"
    /\ UNCHANGED <<accepted, tableVars, conn, creating, running, due, lag, expired, history>>

SweepAgain ==
    /\ sweep = "schedule"
    /\ ScheduleHeartbeatSweep
    /\ sweep' = "idle"
    /\ UNCHANGED <<accepted, tableVars, conn, creating, running, lag, expired, history>>

-----------------------------------------------------------------------------

Creator ==
    \/ StartConnection
    \/ StartThrows
    \/ EnsureHeartbeatSweepStarted
    \/ StartSweep
    \/ StartSweepThrows

Sweeper ==
    \/ WaitCompletes
    \/ SweepScan
    \/ \E s \in Ids : SweepClose(s)
    \/ SweepCheck
    \/ SweepAgain

Next ==
    \/ CreateSession
    \/ Creator
    \/ \E c \in Conns : HandleHeartbeat(c) \/ DoClose(c) \/ Notify(c)
    \/ Tick
    \/ Sweeper

\* Time passes, the io threads run what is posted (a strand's DoClose, its
\* callback, the timer's handler) and the acceptor's call comes to its end.
\* Nothing makes a client connect, send a heartbeat or go.
Fairness ==
    /\ WF_vars(Tick)
    /\ WF_vars(Creator)
    /\ WF_vars(Sweeper)
    /\ \A c \in Conns : WF_vars((conn[c] = "closing" /\ DoClose(c)) \/ Notify(c))

Spec == Init /\ [][Next]_vars /\ Fairness

-----------------------------------------------------------------------------
(* Properties. *)

\* Type invariant: among other things there are never more sessions than
\* kMaxConnectionNum, and none has the id 0, also when ids go round.
TypeOK ==
    /\ accepted \in 0 .. ConnLimit
    /\ sessions \in [Ids -> Conns \cup {NoConn}]
    /\ silence \in [Ids -> 0 .. LongAgo]
    /\ conn \in [Conns -> ConnStates]
    /\ creating \in [at : {"idle", "start", "ensure", "schedule"}, conn : Conns \cup {NoConn}]
    /\ running \in BOOLEAN
    /\ due \in NoWait .. Interval
    /\ sweep \in {"idle", "scan", "close", "schedule"}
    /\ lag \in 0 .. LagLimit
    /\ expired \subseteq Ids
    /\ late \subseteq Conns /\ swept \subseteq Conns
    /\ hooks \in [Conns -> Nat]
    /\ armFailed \in BOOLEAN
    /\ sessions[NoSession] = NoConn
    /\ Cardinality(Present) <= MaxSessions

\* Session ids are not used twice until next_session_id_ has gone round.
IdsFresh == accepted < SessionSpace

\* The threads that are on their way to the next sweep.
Sweepers ==
    {p \in {"creator", "timer", "handler"} :
        \/ p = "creator" /\ creating.at = "schedule"
        \/ p = "timer" /\ due # NoWait
        \/ p = "handler" /\ sweep # "idle"}

\* Every session but the one that CreateSession is still working on finds the
\* flag set: a sweep that ends because the table is empty cannot miss a session
\* that is just being added.  The flag is set while exactly one thread is on
\* its way to the next sweep (two would cancel each other's waits), and in one
\* other case: when setting the timer threw in CreateSession, after which no
\* thread ever is, because nothing resets the flag.
SweepLoopRuns ==
    /\ running <=> (Sweepers # {} \/ armFailed)
    /\ armFailed => Sweepers = {}
    /\ \A p, q \in Sweepers : p = q
    /\ SweepEnabled =>
          \A s \in Present :
             running \/ (creating.at \in {"start", "ensure"} /\ creating.conn = sessions[s])

\* However heartbeats, closes and a sweep's two looks at the table fall
\* together, the sweep closes a session only if its client did let more than
\* the timeout pass without a heartbeat.
PromptSessionsKept == IdsFresh => swept \subseteq late

\* A session is closed once: of the sweep and the connection's own callback
\* one finds the session, closes the connection and calls the hook.
ClosedOnce ==
    \A c \in Conns :
        /\ hooks[c] <= 1
        /\ hooks[c] = 1 => c \notin Live /\ conn[c] \in {"closing", "closed", "done"}

\* A session stays in the table only as long as its client goes on sending
\* heartbeats: one that has fallen silent, or whose connection has closed,
\* is taken out, whether the connection noticed or not.  That is so as long as
\* the timer can be set: once setting it has thrown (StartSweepThrows) silent
\* sessions stay for good.
SilentSessionsClosed ==
    SweepEnabled => \A s \in Ids : s \in Present ~> (s \notin Present \/ silence[s] = 0 \/ armFailed)
=============================================================================
