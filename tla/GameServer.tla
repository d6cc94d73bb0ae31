----------------------------- MODULE GameServer -----------------------------
(***************************************************************************)
(* The server as main.cpp wires it: connections become sessions            *)
(* (SessionManager), a request is given the user its session speaks for    *)
(* and is posted to a strand (MsgRouter), one strand serves logins         *)
(* (ReqHandler) and one serves rooms (RoomReqHandler), and answers go back *)
(* through the user and session tables.                                    *)
(*                                                                         *)
(* Four io threads run this concurrently.  The strand of a connection runs *)
(* its reads one at a time; the two handlers' strands run their tasks in   *)
(* the order they were posted; the tables are locked one call at a time.   *)
(* So every call on a table is a step of its own, and anything may happen  *)
(* between two of them.                                                    *)
(*                                                                         *)
(* Connection c is the c-th socket that was accepted.  Heartbeats are left *)
(* out: the time they record is read only by a sweep that is switched off. *)
(***************************************************************************)
EXTENDS Naturals, Sequences, SequencesExt, FiniteSets

CONSTANTS
    Users,          \* valid user ids
    NoUser,         \* the user id 0
    Codes,          \* the room codes GenRoomCode can draw
    DefaultMap,     \* "default_map.json"
    NoMap,          \* the name of no map
    Text,           \* the name and password of every room
    SessionSpace,   \* number of session ids: 2^32 in the code
    MaxSessions,    \* kMaxConnectionNum
    ListLimit,      \* rooms whose list fits into MAX_DATA_SIZE
    Kinds,          \* bound on the kinds of requests that clients send
    ConnLimit,      \* bound on the number of accepted sockets
    RequestLimit,   \* bound on the number of requests of one connection
    TotalLimit      \* bound on the number of requests of all connections

ASSUME SpacesAssumption == SessionSpace \in Nat \ {0} /\ MaxSessions \in Nat
\* 0 is no user id, and ids are 32 bits wide.
ASSUME UsersAssumption == NoUser \notin Users /\ IsFiniteSet(Users)
ASSUME BoundsAssumption == {ConnLimit, RequestLimit, TotalLimit, ListLimit} \subseteq Nat

NoSession == 0
Sessions == 1 .. SessionSpace - 1
Conns == 1 .. ConnLimit
Strands == {"login", "room"}

VARIABLES
    up,             \* the process runs
    accepted,       \* sockets accepted so far; gives next_session_id_
    sessions,       \* sessions_: session id -> connection
    requests,       \* number of requests each connection has sent
    incoming,       \* the request a connection's strand has still to post
    queue,          \* each handler strand's tasks
    binding,        \* the login whose second callback has still to run
    sends,          \* what the running task of each strand has still to send
    outbox,         \* what was handed to each connection, in order
    bound,          \* history: <<connection, user>> for every login
    u2s, s2u,                                                  \* UserSessionMap
    rooms, codeMap, created, players, currentGroup, ready      \* GameRoomManager

netVars == <<accepted, sessions, requests, incoming>>
taskVars == <<queue, binding, sends>>
routeVars == <<u2s, s2u>>
roomVars == <<rooms, codeMap, created, players, currentGroup, ready>>
served == <<netVars, taskVars, outbox, bound, routeVars, roomVars>>
vars == <<up, served>>

Routes == INSTANCE UserSessionMap

\* A room request creates rooms of capacity 4 on the default map, whose file
\* GameMapIO never finds.  The bounds of the room module are never reached.
Rooms == INSTANCE GameRoomManager WITH
            Maps <- {DefaultMap}, LoadableMaps <- {}, Texts <- {Text},
            Capacities <- {4}, IdSpace <- ConnLimit * RequestLimit + 2,
            CreateLimit <- ConnLimit * RequestLimit + 1,
            CountLimit <- Cardinality(Users) + 1

Requests ==
    [kind : {"login"}, name : Users]
    \cup [kind : {"logout", "create", "list"}]
    \cup [kind : {"join", "leave"}, code : Codes]

NoPack == [kind |-> "none"]

Init ==
    /\ up = TRUE
    /\ accepted = 0
    /\ sessions = [s \in {} |-> 0]
    /\ requests = [c \in Conns |-> 0]
    /\ incoming = [c \in Conns |-> NoPack]
    /\ queue = [t \in Strands |-> << >>]
    /\ binding = NoPack
    /\ sends = [t \in Strands |-> << >>]
    /\ outbox = [c \in Conns |-> << >>]
    /\ bound = {}
    /\ Routes!Init
    /\ Rooms!Init

-----------------------------------------------------------------------------
(* Connections. *)

Live == {sessions[s] : s \in DOMAIN sessions}

\* Mutant of SessionIdOf: the id of a closed session is given out again.
SessionIdOf_reused(c) == 1 + Cardinality(DOMAIN sessions)

\* Mutant of SessionIdOf: the counter never wraps.
SessionIdOf_noWrap(c) == c

\* next_session_id_ starts at 1 and wraps at the width of SessionId.
SessionIdOf(c) == c % SessionSpace

\* CreateSession: the id is spent even if the socket is refused.
Accept ==
    /\ accepted < ConnLimit
    /\ accepted' = accepted + 1
    /\ LET sid == SessionIdOf(accepted + 1)
       IN  sessions' = IF \/ sid = NoSession
                          \/ Cardinality(DOMAIN sessions) >= MaxSessions
                          \/ sid \in DOMAIN sessions
                       THEN sessions
                       ELSE [s \in DOMAIN sessions \cup {sid} |->
                                IF s = sid THEN accepted + 1 ELSE sessions[s]]
    /\ UNCHANGED <<requests, incoming, taskVars, outbox, bound, routeVars, roomVars>>

\* The session a request of connection c comes from.
SessionOf(c) == CHOOSE s \in DOMAIN sessions : sessions[s] = c

\* Mutant of Disconnect: only the user's side of the route is removed.
Disconnect_unroutesUser(c) ==
    /\ c \in Live
    /\ incoming[c] = NoPack
    /\ sessions' = [s \in DOMAIN sessions \ {SessionOf(c)} |-> sessions[s]]
    /\ u2s' = [u \in Users |-> IF u2s[u] = SessionOf(c) THEN NoSession ELSE u2s[u]]
    /\ UNCHANGED <<accepted, requests, incoming, taskVars, outbox, bound, s2u, roomVars>>

\* DoClose on the connection's strand, then CloseSession.  The hook that
\* TcpServer installs is empty: routes, players and rooms stay as they are.
Disconnect(c) ==
    /\ c \in Live
    /\ incoming[c] = NoPack
    /\ sessions' = [s \in DOMAIN sessions \ {SessionOf(c)} |-> sessions[s]]
    /\ UNCHANGED <<accepted, requests, incoming, taskVars, outbox, bound, routeVars, roomVars>>

\* A request is decoded and the router looks up its sender.
Receive(c, req) ==
    /\ c \in Live
    /\ incoming[c] = NoPack
    /\ requests[c] < RequestLimit
    /\ FoldFunction(+, 0, requests) < TotalLimit
    /\ req.kind \in Kinds
    /\ requests' = [requests EXCEPT ![c] = @ + 1]
    /\ incoming' = [incoming EXCEPT ![c] =
                       [kind |-> req.kind, req |-> req, conn |-> c, id |-> requests[c] + 1,
                        session |-> SessionOf(c), sender |-> Routes!GetUserId(SessionOf(c))]]
    /\ UNCHANGED <<accepted, sessions, taskVars, outbox, bound, routeVars, roomVars>>

StrandOf(kind) == IF kind \in {"login", "logout"} THEN "login" ELSE "room"

\* Mutant of Post: the latest request is served first.
Post_lifo(c) ==
    /\ incoming[c] # NoPack
    /\ LET t == StrandOf(incoming[c].kind)
       IN  queue' = [queue EXCEPT ![t] = <<incoming[c]>> \o @]
    /\ incoming' = [incoming EXCEPT ![c] = NoPack]
    /\ UNCHANGED <<accepted, sessions, requests, binding, sends, outbox, bound,
                   routeVars, roomVars>>

\* HandleDecodedMsg posts it to the strand of its handler.
Post(c) ==
    /\ incoming[c] # NoPack
    /\ LET t == StrandOf(incoming[c].kind)
       IN  queue' = [queue EXCEPT ![t] = Append(@, incoming[c])]
    /\ incoming' = [incoming EXCEPT ![c] = NoPack]
    /\ UNCHANGED <<accepted, sessions, requests, binding, sends, outbox, bound,
                   routeVars, roomVars>>

-----------------------------------------------------------------------------
(* Sending: to a session, or to a user whose session is looked up first.    *)

Message(kind, p, result) == [kind |-> kind, conn |-> p.conn, id |-> p.id, result |-> result]

ToSession(s, m) == [user |-> NoUser, session |-> s, msg |-> m]
ToUser(u, m) == [user |-> u, session |-> NoSession, msg |-> m]

\* The first half of SendMessageToUser.
Route(t) ==
    /\ sends[t] # << >>
    /\ Head(sends[t]).session = NoSession
    /\ LET sid == Routes!GetSessionId(Head(sends[t]).user)
       IN  sends' = [sends EXCEPT ![t] =
                        IF sid = NoSession THEN Tail(@) ELSE [@ EXCEPT ![1].session = sid]]
    /\ UNCHANGED <<netVars, queue, binding, outbox, bound, routeVars, roomVars>>

\* Mutant of Deliver: the session is found but the message is not handed to it.
Deliver_drops(t) ==
    /\ sends[t] # << >>
    /\ Head(sends[t]).session # NoSession
    /\ sends' = [sends EXCEPT ![t] = Tail(@)]
    /\ UNCHANGED <<netVars, queue, binding, outbox, bound, routeVars, roomVars>>

\* EncodeSync refuses a payload above MAX_DATA_SIZE; only a list can grow so long.
Fits(m) == m.result # "TOO_LONG"

\* SendMessageToSession: a session that has gone loses the message, and one
\* that does not fit is not written.
Deliver(t) ==
    /\ sends[t] # << >>
    /\ Head(sends[t]).session # NoSession
    /\ LET m == Head(sends[t])
       IN  outbox' = IF m.session \in DOMAIN sessions
                           /\ Fits(m.msg)
                     THEN [outbox EXCEPT ![sessions[m.session]] = Append(@, m)]
                     ELSE outbox
    /\ sends' = [sends EXCEPT ![t] = Tail(@)]
    /\ UNCHANGED <<netVars, queue, binding, bound, routeVars, roomVars>>

-----------------------------------------------------------------------------
(* The login strand. *)

\* The strand is free and the first task is p.
Serves(t, p) ==
    /\ sends[t] = << >>
    /\ t = "login" => binding = NoPack
    /\ queue[t] # << >>
    /\ p = Head(queue[t])
    /\ queue' = [queue EXCEPT ![t] = Tail(@)]

\* Every name is accepted, and names its user.  The first login callback
\* binds the user to the session, even one that has closed since.
LoginBind(p) ==
    /\ p.kind = "login"
    /\ Routes!onUserLogin("SUCCESS", p.req.name, p.session)
    /\ binding' = p
    /\ bound' = bound \cup {<<p.conn, p.req.name>>}
    /\ UNCHANGED <<netVars, sends, outbox, roomVars>>

\* HandleLogoutRequest does nothing.
Logout(p) ==
    /\ p.kind = "logout"
    /\ UNCHANGED <<netVars, binding, sends, outbox, bound, routeVars, roomVars>>

\* Mutant of LoginPlayer: the second callback is not registered.
LoginPlayer_missing ==
    /\ binding # NoPack
    /\ binding' = NoPack
    /\ sends' = [sends EXCEPT !["login"] =
                    <<ToSession(binding.session, Message("login", binding, "SUCCESS"))>>]
    /\ UNCHANGED <<netVars, queue, outbox, bound, routeVars, roomVars>>

\* The second callback creates the player; then the answer is built.
LoginPlayer ==
    /\ binding # NoPack
    /\ Rooms!PlayerLogin(binding.req.name)
    /\ binding' = NoPack
    /\ sends' = [sends EXCEPT !["login"] =
                    <<ToSession(binding.session, Message("login", binding, "SUCCESS"))>>]
    /\ UNCHANGED <<netVars, queue, outbox, bound, routeVars>>

-----------------------------------------------------------------------------
(* The room strand.  Only this strand changes rooms, so a task's operation  *)
(* on them is one step; what it sends follows.                              *)

Answer(p, result) == sends' = [sends EXCEPT !["room"] =
                                  <<ToUser(p.sender, Message(p.kind, p, result))>>]

RoomCreate(p) ==
    /\ p.kind = "create"
    /\ \E code \in Codes : Rooms!CreateRoom(p.sender, Text, Text, 4, code)
    /\ Answer(p, Rooms!CreateRoomResult(p.sender, 4))
    /\ UNCHANGED <<netVars, binding, outbox, bound, routeVars>>

JoinResult(p) ==
    IF p.req.code \in DOMAIN codeMap
    THEN Rooms!JoinRoomResult(codeMap[p.req.code], p.sender)
    ELSE "NOT_FOUND"

\* A join that the room takes or that its group refuses.
RoomJoin(p) ==
    /\ p.kind = "join"
    /\ p.req.code \in DOMAIN codeMap
    /\ LET id == codeMap[p.req.code]
       IN  /\ Rooms!JoinRoom(id, p.sender)
           /\ IF JoinResult(p) = "OK"
              THEN sends' = [sends EXCEPT !["room"] =
                       <<ToUser(p.sender, Message("join", p, "OK"))>>
                       \o [i \in DOMAIN rooms'[id].group.members |->
                              ToUser(rooms'[id].group.members[i], Message("notice", p, "OK"))]]
              ELSE Answer(p, JoinResult(p))
    /\ UNCHANGED <<netVars, binding, outbox, bound, routeVars>>

\* A join refused before the room is reached.
RoomJoinRefused(p) ==
    /\ p.kind = "join"
    /\ JoinResult(p) \in {"NOT_FOUND", "NOT_AUTHORIZED", "GAME_RUNNING"}
    /\ Answer(p, JoinResult(p))
    /\ UNCHANGED <<netVars, binding, outbox, bound, routeVars, roomVars>>

\* The handler copies the code into a string of length 0, looks up the empty
\* code, finds nothing and returns without an answer.
RoomLeave(p) ==
    /\ p.kind = "leave"
    /\ UNCHANGED <<netVars, binding, sends, outbox, bound, routeVars, roomVars>>

\* The list of all rooms, in one message however many they are.
ListResult == IF Cardinality(DOMAIN rooms) > ListLimit THEN "TOO_LONG" ELSE "OK"

RoomList(p) ==
    /\ p.kind = "list"
    /\ sends' = [sends EXCEPT !["room"] =
                    <<ToSession(p.session, Message("list", p, ListResult))>>]
    /\ UNCHANGED <<netVars, binding, outbox, bound, routeVars, roomVars>>

-----------------------------------------------------------------------------

LoginStrand ==
    \/ \E p \in ToSet(queue["login"]) : Serves("login", p) /\ (LoginBind(p) \/ Logout(p))
    \/ LoginPlayer
    \/ Deliver("login")

RoomStrand ==
    \/ \E p \in ToSet(queue["room"]) :
          /\ Serves("room", p)
          /\ RoomCreate(p) \/ RoomJoin(p) \/ RoomJoinRefused(p) \/ RoomLeave(p) \/ RoomList(p)
    \/ Route("room")
    \/ Deliver("room")

\* The answer to p quotes the text of a room: name, password, players' names.
QuotesRoom(p) ==
    \/ p.kind = "create" /\ Rooms!CreateRoomResult(p.sender, 4) = "OK"
    \/ p.kind = "join" /\ JoinResult(p) = "OK"
    \/ p.kind = "list" /\ DOMAIN rooms # {}

\* dump() throws on a text that is not UTF-8.  Texts come as they are out of a
\* request's bytes and Text stands for all of them, so every answer that quotes
\* one may be the one that throws.  Nothing catches it: it leaves run() in one
\* of the threads, and with that the process ends.
SerializeThrows ==
    /\ sends["room"] = << >>
    /\ queue["room"] # << >>
    /\ QuotesRoom(Head(queue["room"]))
    /\ up' = FALSE
    /\ UNCHANGED served

Serving ==
    \/ Accept
    \/ \E c \in Conns :
          \/ Disconnect(c)
          \/ Post(c)
          \/ \E req \in Requests : Receive(c, req)
    \/ LoginStrand
    \/ RoomStrand

Next ==
    /\ up
    /\ (Serving /\ UNCHANGED up) \/ SerializeThrows

\* The io threads run whatever has been posted, as long as the process runs.
\* Nothing makes a client connect, send or disconnect.
Fairness ==
    /\ WF_vars(up /\ LoginStrand /\ UNCHANGED up)
    /\ WF_vars(up /\ RoomStrand /\ UNCHANGED up)
    /\ \A c \in Conns : WF_vars(up /\ Post(c) /\ UNCHANGED up)

Spec == Init /\ [][Next]_vars /\ Fairness

-----------------------------------------------------------------------------
(* Properties. *)

Packs ==
    {p \in [kind : {"login", "logout", "create", "join", "leave", "list"}, req : Requests,
             conn : Conns, id : 1 .. RequestLimit, session : Sessions,
             sender : Users \cup {NoUser}] : p.kind = p.req.kind}

Results ==
    {"SUCCESS", "OK", "NOT_FOUND", "NOT_AUTHORIZED", "GAME_RUNNING", "FULL", "ALREADY_IN_ROOM",
     "TOO_LONG"}

Messages ==
    [kind : {"login", "create", "join", "list", "notice"}, conn : Conns,
     id : 1 .. RequestLimit, result : Results]

Sendings == [user : Users \cup {NoUser}, session : Sessions \cup {NoSession}, msg : Messages]

TablesTyped ==
    /\ accepted \in 0 .. ConnLimit
    /\ DOMAIN sessions \subseteq Sessions /\ Live \subseteq 1 .. accepted
    /\ requests \in [Conns -> 0 .. RequestLimit]
    /\ incoming \in [Conns -> Packs \cup {NoPack}]
    /\ queue \in [Strands -> Seq(Packs)]
    /\ binding \in Packs \cup {NoPack}
    /\ sends \in [Strands -> Seq(Sendings)]
    /\ outbox \in [Conns -> Seq(Sendings)]
    /\ bound \subseteq Conns \X Users
    /\ Routes!TypeOK
    /\ Rooms!TypeOK

\* Type invariant.
TypeOK == up \in BOOLEAN /\ TablesTyped

\* Session ids are not used twice until next_session_id_ has gone round.
SessionsFresh == accepted < SessionSpace

\* What is addressed to a user is only ever written to a connection that
\* logged in as that user, although routes outlive their connections: a
\* later connection never takes over the session id of a route left behind.
DeliveredToOwner ==
    SessionsFresh =>
        \A c \in Conns : \A i \in DOMAIN outbox[c] :
            outbox[c][i].user # NoUser => <<c, outbox[c][i].user>> \in bound

\* A request is taken to come from a user only if its own connection logged
\* in as that user, whatever was posted, bound or closed since.
SenderLoggedIn ==
    SessionsFresh =>
        \A t \in Strands : \A p \in ToSet(queue[t]) :
            p.sender # NoUser => <<p.conn, p.sender>> \in bound

\* m answers a request of connection c that strand t served.
AnswersRequest(m, c, t) ==
    m.msg.conn = c /\ m.msg.kind # "notice" /\ StrandOf(m.msg.kind) = t

\* The answers of one handler reach the connection that asked in the order of
\* its requests and never twice: a client can match answers by msg_id.
AnswersInOrder ==
    \A c \in Conns, t \in Strands : \A i, j \in DOMAIN outbox[c] :
        i < j /\ AnswersRequest(outbox[c][i], c, t) /\ AnswersRequest(outbox[c][j], c, t)
            => outbox[c][i].msg.id < outbox[c][j].msg.id

\* Every user that has a route has a player, except for the login that stands
\* between its two callbacks; so a routed user's room request is not refused
\* for want of a player unless it races that very login.
RoutedUsersArePlayers ==
    \A u \in Users :
        u2s[u] # NoSession => u \in players \/ (binding # NoPack /\ binding.req.name = u)

\* The routes move only as UserSessionMap lets them, and rooms and players
\* only as the room manager lets them: a handler that is interleaved with
\* logins and disconnections does not break a call on a table.
TablesImplemented == Routes!Spec /\ Rooms!Spec

\* Some connection was handed the answer to request k of connection c.
Answered(c, k) ==
    \E d \in Conns : \E m \in ToSet(outbox[d]) :
        m.msg.conn = c /\ m.msg.id = k /\ m.msg.kind # "notice"

WaitingFor(c, k, kinds) ==
    \/ incoming[c] # NoPack /\ incoming[c].id = k /\ incoming[c].kind \in kinds
    \/ \E t \in Strands : \E p \in ToSet(queue[t]) :
          p.conn = c /\ p.id = k /\ p.kind \in kinds

\* The answer to request k of connection c has grown too long to be sent.
TooLong(c, k) ==
    \E m \in ToSet(sends["room"]) : m.msg.conn = c /\ m.msg.id = k /\ ~Fits(m.msg)

\* A login and a request for the list are answered, or the connection that
\* asked goes, or the process ends under a text it cannot send; and a list is
\* not answered either once the rooms no longer fit into one message.
SessionRequestsAnswered ==
    \A c \in Conns, k \in 1 .. RequestLimit :
        WaitingFor(c, k, {"login", "list"})
            ~> (Answered(c, k) \/ c \notin Live \/ ~up \/ TooLong(c, k))

FromUser(c, k) ==
    \E t \in Strands : \E p \in ToSet(queue[t]) :
        p.conn = c /\ p.id = k /\ p.sender # NoUser /\ p.kind \in {"create", "join"}

\* A room request of a user who has logged in is answered, on whatever
\* connection the user is on by then: logins of the same user on a second
\* connection and of other users on this one go on meanwhile, also between the
\* two look-ups of an answer, and lose none.  Only when a connection of the
\* user who asked is lost, or the process ends, need no answer come.
UserRequestsAnswered ==
    \A c \in Conns, k \in 1 .. RequestLimit :
        FromUser(c, k)
            ~> \/ Answered(c, k)
               \/ \E d \in Conns, u \in Users : {<<c, u>>, <<d, u>>} \subseteq bound /\ d \notin Live
               \/ ~up

\* "The answer uses the same msg_id" (RoomReqHandler.cpp:62), and NOT_FOUND and
\* NOT_AUTHORIZED are among the answers: every room request is answered, a
\* refused one too, or the connection that asked goes.
RefusalsAnswered ==
    \A c \in Conns, k \in 1 .. RequestLimit :
        WaitingFor(c, k, {"create", "join"}) ~> (Answered(c, k) \/ c \notin Live \/ ~up)
=============================================================================
