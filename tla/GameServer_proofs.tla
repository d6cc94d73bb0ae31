-------------------------- MODULE GameServer_proofs --------------------------
(***************************************************************************)
(* What holds of the wired server for any numbers of users, connections,   *)
(* session ids and requests: its types, who a request or an answer can be  *)
(* taken to belong to, and the order of the answers.                       *)
(***************************************************************************)
EXTENDS GameServer, SequenceTheorems, FiniteSetTheorems, TLAPS

\* The rest of a queue, place by place.
LEMMA TailFacts ==
    ASSUME NEW S, NEW s \in Seq(S), s # << >>
    PROVE  /\ Tail(s) \in Seq(S) /\ Head(s) = s[1] /\ 1 \in DOMAIN s /\ s[1] \in S
           /\ \A i \in DOMAIN Tail(s) :
                 i \in Nat /\ 1 <= i /\ i + 1 \in DOMAIN s /\ Tail(s)[i] = s[i + 1]
<1>1. Len(s) \in Nat /\ Len(s) > 0 /\ DOMAIN s = 1 .. Len(s)
    OBVIOUS
<1>2. /\ Tail(s) \in Seq(S) /\ Len(Tail(s)) = Len(s) - 1 /\ Head(s) = s[1]
      /\ \A i \in 1 .. Len(Tail(s)) : Tail(s)[i] = s[i + 1]
    BY HeadTailProperties
<1>3. DOMAIN Tail(s) = 1 .. Len(s) - 1
    BY <1>1, <1>2
<1> QED
    BY <1>1, <1>2, <1>3

\* A queue with one more element, place by place.
LEMMA AppendFacts ==
    ASSUME NEW S, NEW s \in Seq(S), NEW e \in S
    PROVE  /\ Append(s, e) \in Seq(S) /\ Len(s) \in Nat
           /\ \A i \in DOMAIN Append(s, e) :
                 /\ i \in Nat
                 /\ \/ i \in DOMAIN s /\ i < Len(s) + 1 /\ Append(s, e)[i] = s[i]
                    \/ i = Len(s) + 1 /\ Append(s, e)[i] = e
<1>1. Len(s) \in Nat /\ DOMAIN s = 1 .. Len(s)
    OBVIOUS
<1>2. /\ Append(s, e) \in Seq(S) /\ Len(Append(s, e)) = Len(s) + 1
      /\ \A i \in 1 .. Len(s) : Append(s, e)[i] = s[i]
      /\ Append(s, e)[Len(s) + 1] = e
    BY AppendProperties
<1>3. DOMAIN Append(s, e) = 1 .. Len(s) + 1
    BY <1>1, <1>2
<1> QED
    BY <1>1, <1>2, <1>3

\* What a request that is under way is made of.
LEMMA PackFacts ==
    ASSUME NEW p \in Packs
    PROVE  /\ p # NoPack /\ p.conn \in Conns /\ p.session \in Sessions
           /\ p.id \in 1 .. RequestLimit /\ p.sender \in Users \cup {NoUser}
           /\ p.req \in Requests /\ p.kind = p.req.kind
           /\ p.kind = "login" => p.req.name \in Users
           /\ p.kind \in {"join", "leave"} => p.req.code \in Codes
BY DEF Packs, NoPack, Requests

-----------------------------------------------------------------------------
(* The tables' own types.                                                   *)

\* Binding a user keeps the routes' types.
LEMMA BindTypes ==
    ASSUME Routes!TypeOK, NEW u \in Users, NEW s \in Sessions, Routes!Bind(u, s)
    PROVE  /\ Routes!TypeOK'
           /\ \A v \in Users : u2s'[v] = IF v = u THEN s ELSE u2s[v]
           /\ \A r \in Sessions : (s2u'[r] = u /\ r = s) \/ s2u'[r] \in {s2u[r], NoUser}
BY DEF Routes!TypeOK, Routes!Bind, Routes!EraseSession

\* A room that is joined remains a room.
LEMMA RoomJoinTypes ==
    ASSUME NEW room \in Rooms!RoomRecords(Codes), NEW u \in Users
    PROVE  /\ Rooms!RoomJoin(room, u) \in Rooms!RoomRecords(Codes)
           /\ Rooms!RoomJoin(room, u).group.members = Append(room.group.members, u)
           /\ Rooms!RoomJoin(room, u).owner = room.owner
<1> DEFINE g == room.group
           h == Rooms!AddMember(g, u)
           count == room.playerCount + 1
           next == Rooms!RoomJoin(room, u)
<1>1. g \in [capacity : Nat, members : Seq(Users)] /\ g.members \in Seq(Users)
    BY DEF Rooms!RoomRecords, Rooms!Groups
<1>2. Append(g.members, u) \in Seq(Users)
    BY <1>1, AppendProperties
<1>3. h = [g EXCEPT !.members = Append(g.members, u)]
    BY DEF Rooms!AddMember
<1>4. h \in Rooms!Groups(Users) /\ h.members = Append(g.members, u)
    BY <1>1, <1>2, <1>3 DEF Rooms!Groups
<1>5. count \in Int
    BY DEF Rooms!RoomRecords
<1>6. next = [room EXCEPT !.group = h, !.playerCount = count]
    BY DEF Rooms!RoomJoin
<1> HIDE DEF h, count, next
<1>7. next \in Rooms!RoomRecords(Codes)
    BY <1>4, <1>5, <1>6 DEF Rooms!RoomRecords
<1>8. next.group = h /\ next.owner = room.owner
    BY <1>6 DEF Rooms!RoomRecords
<1> QED
    BY <1>4, <1>7, <1>8 DEF next

\* A new room is a room without members.
LEMMA NewRoomTypes ==
    ASSUME NEW c \in Codes, NEW u \in Users
    PROVE  /\ Rooms!NewRoom(c, u, Text, Text, 4) \in Rooms!RoomRecords(Codes)
           /\ Rooms!NewRoom(c, u, Text, Text, 4).group.members = << >>
           /\ Rooms!NewRoom(c, u, Text, Text, 4).owner = u
<1>1. Rooms!NewGroup(4) \in Rooms!Groups(Users) /\ Rooms!NewGroup(4).members = << >>
    BY DEF Rooms!NewGroup, Rooms!Groups
<1>2. [map |-> NoMap, players |-> {}] \in Rooms!Runtimes
    BY DEF Rooms!Runtimes
<1>3. 0 \in Int
    OBVIOUS
<1> QED
    BY <1>1, <1>2, <1>3 DEF Rooms!NewRoom, Rooms!RoomRecords

\* A remainder is less than the divisor.
LEMMA Remainder ==
    ASSUME NEW n \in Nat \ {0}, NEW x \in Nat
    PROVE  x % n \in 0 .. n - 1
OBVIOUS

\* The room ids that the server's bounds leave.
LEMMA RoomIdTypes ==
    ASSUME created \in Nat
    PROVE  /\ Rooms!NextRoomId \in Rooms!RoomIds
           /\ created + 1 < ConnLimit * RequestLimit + 2 => Rooms!NextRoomId # Rooms!NoRoom
<1> DEFINE n == ConnLimit * RequestLimit + 2
<1>1. n \in Nat \ {0}
    <2>1. ConnLimit * RequestLimit \in Nat
        BY BoundsAssumption
    <2> QED
        BY <2>1
<1> HIDE DEF n
<1>2. (1 + created) % n \in 0 .. n - 1
    BY <1>1, Remainder
<1>3. created + 1 < n => (1 + created) % n = created + 1
    BY <1>1
<1>4. created + 1 # 0
    OBVIOUS
<1> QED
    BY <1>2, <1>3, <1>4 DEF n, Rooms!NextRoomId, Rooms!RoomIds, Rooms!NoRoom

\* A user whose first login this is gets a player.
LEMMA PlayerLoginTypes ==
    ASSUME Rooms!TypeOK, NEW u \in Users, Rooms!PlayerLogin(u)
    PROVE  Rooms!TypeOK'
BY DEF Rooms!TypeOK, Rooms!PlayerLogin

\* Creating a room keeps the types, whoever asks.
LEMMA CreateRoomTypes ==
    ASSUME Rooms!TypeOK, NEW u \in Users \cup {NoUser}, NEW c \in Codes,
           Rooms!CreateRoom(u, Text, Text, 4, c)
    PROVE  Rooms!TypeOK' /\ players' = players
<1> DEFINE id == Rooms!NextRoomId
           room == Rooms!RoomJoin(Rooms!NewRoom(c, u, Text, Text, 4), u)
<1>1. created \in Nat /\ created' \in 0 .. ConnLimit * RequestLimit + 1
    <2>1. ConnLimit * RequestLimit \in Nat
        BY BoundsAssumption
    <2> DEFINE n == ConnLimit * RequestLimit + 1
    <2>2. n \in Nat
        BY <2>1
    <2>3. created \in 0 .. n /\ created < n /\ created' = created + 1
        BY DEF Rooms!TypeOK, Rooms!CreateRoom
    <2> HIDE DEF n
    <2>4. created \in Nat /\ created' \in 0 .. n
        BY <2>2, <2>3
    <2> QED
        BY <2>4 DEF n
<1>2. id \in Rooms!RoomIds
    BY <1>1, RoomIdTypes
<1>6. /\ created' < ConnLimit * RequestLimit + 2 => created < ConnLimit * RequestLimit + 2
      /\ created' < ConnLimit * RequestLimit + 2 => id # Rooms!NoRoom
    <2>1. created' = created + 1
        BY DEF Rooms!CreateRoom
    <2> PICK n : n = ConnLimit * RequestLimit + 2
        OBVIOUS
    <2>2. n \in Nat
        <3>1. ConnLimit * RequestLimit \in Nat
            BY BoundsAssumption
        <3> QED
            BY <3>1
    <2>3. created + 1 < n => created < n
        BY <1>1, <2>2
    <2> QED
        BY <1>1, <2>1, <2>3, RoomIdTypes
<1> HIDE DEF id
<1>3. currentGroup' \in [Users -> Rooms!RoomIds] /\ UNCHANGED <<players, ready>>
    BY <1>2 DEF Rooms!CreateRoom, Rooms!TypeOK, id
<1>4. CASE Rooms!CreateRoomResult(u, 4) = "OK"
    <2>1. u \in players /\ u \in Users
        BY <1>4 DEF Rooms!CreateRoomResult, Rooms!TypeOK
    <2>2. room \in Rooms!RoomRecords(Codes)
        BY <2>1, NewRoomTypes, RoomJoinTypes
    <2>3. /\ rooms' = [i \in DOMAIN rooms \cup {id} |-> IF i = id THEN room ELSE rooms[i]]
          /\ codeMap' = Rooms!InsertCode(c, id)
        BY <1>4 DEF Rooms!CreateRoom, id
    <2> HIDE DEF room
    <2>4. DOMAIN rooms' \subseteq Rooms!RoomIds /\ \A i \in DOMAIN rooms' : rooms'[i] \in Rooms!RoomRecords(Codes)
        BY <1>2, <2>2, <2>3 DEF Rooms!TypeOK
    <2>5. DOMAIN codeMap' \subseteq Codes /\ \A d \in DOMAIN codeMap' : codeMap'[d] \in Rooms!RoomIds
        BY <1>2, <2>3 DEF Rooms!TypeOK, Rooms!InsertCode
    <2>6. created' < ConnLimit * RequestLimit + 2 => Rooms!NoRoom \notin DOMAIN rooms'
        BY <1>6, <2>3 DEF Rooms!TypeOK
    <2> QED
        BY <1>1, <1>3, <2>4, <2>5, <2>6 DEF Rooms!TypeOK
<1>5. CASE Rooms!CreateRoomResult(u, 4) # "OK"
    <2>1. UNCHANGED <<rooms, codeMap>>
        BY <1>5 DEF Rooms!CreateRoom
    <2> QED
        BY <1>1, <1>3, <1>6, <2>1 DEF Rooms!TypeOK
<1> QED
    BY <1>4, <1>5

\* So does joining one.
LEMMA JoinRoomTypes ==
    ASSUME Rooms!TypeOK, NEW u \in Users \cup {NoUser}, NEW id, Rooms!JoinRoom(id, u)
    PROVE  Rooms!TypeOK' /\ players' = players /\ id \in DOMAIN rooms' /\ u \in Users
<1>1. id \in DOMAIN rooms /\ u \in players /\ u \in Users
    BY DEF Rooms!JoinRoom, Rooms!JoinRoomResult, Rooms!TypeOK
<1>2. /\ currentGroup' = [currentGroup EXCEPT ![u] = id]
      /\ UNCHANGED <<codeMap, created, players, ready>>
    BY DEF Rooms!JoinRoom
<1>3. currentGroup' \in [Users -> Rooms!RoomIds]
    BY <1>1, <1>2 DEF Rooms!TypeOK
<1>4. CASE Rooms!JoinRoomResult(id, u) = "OK"
    <2> DEFINE room == Rooms!RoomJoin(rooms[id], u)
    <2>1. room \in Rooms!RoomRecords(Codes)
        BY <1>1, RoomJoinTypes DEF Rooms!TypeOK
    <2>2. rooms' = [rooms EXCEPT ![id] = room]
        BY <1>4 DEF Rooms!JoinRoom
    <2> HIDE DEF room
    <2>3. DOMAIN rooms' = DOMAIN rooms /\ \A i \in DOMAIN rooms' : rooms'[i] \in Rooms!RoomRecords(Codes)
        BY <2>1, <2>2 DEF Rooms!TypeOK
    <2> QED
        BY <1>1, <1>2, <1>3, <2>3 DEF Rooms!TypeOK
<1>5. CASE Rooms!JoinRoomResult(id, u) # "OK"
    <2>1. UNCHANGED rooms
        BY <1>5 DEF Rooms!JoinRoom
    <2> QED
        BY <1>1, <1>2, <1>3, <2>1 DEF Rooms!TypeOK
<1> QED
    BY <1>4, <1>5

\* The answers of the room calls.
LEMMA ResultTypes ==
    ASSUME NEW u, NEW id
    PROVE  Rooms!CreateRoomResult(u, 4) \in Results /\ Rooms!JoinRoomResult(id, u) \in Results
<1>1. ASSUME NEW g PROVE Rooms!AddMemberResult(g, u) \in {"ALREADY_IN_GROUP", "FULL", "OK"}
    BY DEF Rooms!AddMemberResult
<1>2. ASSUME NEW r \in {"ALREADY_IN_GROUP", "FULL", "OK"}
      PROVE  Rooms!MapGroupResult(r) \in Results
    BY DEF Rooms!MapGroupResult, Results
<1>3. ASSUME NEW g PROVE Rooms!MapGroupResult(Rooms!AddMemberResult(g, u)) \in Results
    BY <1>1, <1>2
<1>4. Rooms!CreateRoomResult(u, 4) \in Results
    BY <1>3 DEF Rooms!CreateRoomResult, Results
<1>5. Rooms!RoomJoinResult(rooms[id], u) \in Results
    BY <1>3 DEF Rooms!RoomJoinResult, Results
<1>6. Rooms!JoinRoomResult(id, u) \in Results
    BY <1>5 DEF Rooms!JoinRoomResult, Results
<1> QED
    BY <1>4, <1>6

-----------------------------------------------------------------------------
(* The tasks of the room strand, seen from outside the rooms.               *)

\* The first task p of the room strand has been served and left S to send:
\* at most one answer, in front, to p itself, and nothing routed yet.
RoomTask(p, S) ==
    /\ sends["room"] = << >>
    /\ queue["room"] # << >>
    /\ p = Head(queue["room"])
    /\ queue' = [queue EXCEPT !["room"] = Tail(queue["room"])]
    /\ sends' = [sends EXCEPT !["room"] = S]
    /\ S \in Seq(Sendings)
    /\ \A i \in DOMAIN S : S[i].user = NoUser \/ S[i].session = NoSession
    /\ \A i \in DOMAIN S :
          S[i].msg.kind # "notice" =>
              i = 1 /\ S[i].msg.conn = p.conn /\ S[i].msg.id = p.id /\ StrandOf(S[i].msg.kind) = "room"
    /\ UNCHANGED <<netVars, binding, outbox, bound, routeVars>>

\* One answer to p makes a proper list of things to send.
LEMMA OneAnswer ==
    ASSUME NEW p \in Packs, NEW kind \in {"create", "join", "list"}, NEW result \in Results,
           NEW m \in {ToUser(p.sender, Message(kind, p, result)),
                      ToSession(p.session, Message(kind, p, result))}
    PROVE  /\ <<m>> \in Seq(Sendings) /\ m \in Sendings
           /\ m.user = NoUser \/ m.session = NoSession
           /\ m.msg.conn = p.conn /\ m.msg.id = p.id /\ StrandOf(m.msg.kind) = "room"
<1>1. Message(kind, p, result) \in Messages
    BY PackFacts DEF Message, Messages
<1>2. m \in Sendings /\ m.msg = Message(kind, p, result)
    BY <1>1, PackFacts DEF ToUser, ToSession, Sendings
<1> QED
    BY <1>1, <1>2 DEF ToUser, ToSession, Message, StrandOf, NoSession

\* A request for a new room.
LEMMA RoomCreateTask ==
    ASSUME TablesTyped, NEW p \in Packs, Serves("room", p), RoomCreate(p)
    PROVE  Rooms!TypeOK' /\ players' = players /\ \E S : RoomTask(p, S)
<1> DEFINE m == ToUser(p.sender, Message("create", p, Rooms!CreateRoomResult(p.sender, 4)))
<1>1. PICK c \in Codes : Rooms!CreateRoom(p.sender, Text, Text, 4, c)
    BY DEF RoomCreate
<1>2. Rooms!TypeOK' /\ players' = players
    BY <1>1, CreateRoomTypes, PackFacts DEF TablesTyped
<1>3. sends' = [sends EXCEPT !["room"] = <<m>>]
    BY DEF RoomCreate, Answer
<1>4. /\ <<m>> \in Seq(Sendings)
      /\ m.user = NoUser \/ m.session = NoSession
      /\ m.msg.conn = p.conn /\ m.msg.id = p.id /\ StrandOf(m.msg.kind) = "room"
    BY ResultTypes, OneAnswer
<1> HIDE DEF m
<1>5. RoomTask(p, <<m>>)
    BY <1>3, <1>4 DEF RoomTask, Serves, RoomCreate
<1> QED
    BY <1>2, <1>5

\* A join that reached the room.
LEMMA RoomJoinTask ==
    ASSUME TablesTyped, NEW p \in Packs, Serves("room", p), RoomJoin(p)
    PROVE  Rooms!TypeOK' /\ players' = players /\ \E S : RoomTask(p, S)
<1> DEFINE id == codeMap[p.req.code]
           members == rooms'[id].group.members
           m == ToUser(p.sender, Message("join", p, JoinResult(p)))
           notice(u) == ToUser(u, Message("notice", p, "OK"))
           notices == [i \in DOMAIN members |-> notice(members[i])]
<1>1. Rooms!JoinRoom(id, p.sender) /\ JoinResult(p) = Rooms!JoinRoomResult(id, p.sender)
    BY DEF RoomJoin, JoinResult
<1>2. Rooms!TypeOK' /\ players' = players /\ id \in DOMAIN rooms'
    BY <1>1, JoinRoomTypes, PackFacts DEF TablesTyped
<1>3. /\ <<m>> \in Seq(Sendings) /\ m \in Sendings
      /\ m.user = NoUser \/ m.session = NoSession
      /\ m.msg.conn = p.conn /\ m.msg.id = p.id /\ StrandOf(m.msg.kind) = "room"
    BY <1>1, ResultTypes, OneAnswer
<1>4. CASE JoinResult(p) # "OK"
    <2>1. sends' = [sends EXCEPT !["room"] = <<m>>]
        BY <1>4 DEF RoomJoin, Answer
    <2> HIDE DEF m
    <2>2. /\ sends["room"] = << >> /\ queue["room"] # << >> /\ p = Head(queue["room"])
          /\ queue' = [queue EXCEPT !["room"] = Tail(queue["room"])]
          /\ UNCHANGED <<netVars, binding, outbox, bound, routeVars>>
        BY DEF Serves, RoomJoin
    <2>3. RoomTask(p, <<m>>)
        BY <1>3, <2>1, <2>2 DEF RoomTask
    <2> QED
        BY <1>2, <2>3
<1>5. CASE JoinResult(p) = "OK"
    <2>1. members \in Seq(Users)
        BY <1>2 DEF Rooms!TypeOK, Rooms!RoomRecords, Rooms!Groups
    <2>2. \A u \in Users : /\ notice(u) \in Sendings /\ notice(u).session = NoSession
                            /\ notice(u).msg.kind = "notice"
        BY PackFacts DEF ToUser, Sendings, Message, Messages, Results
    <2>3. sends' = [sends EXCEPT !["room"] = <<m>> \o notices]
        BY <1>5 DEF RoomJoin
    <2> HIDE DEF m, notice, members, id
    <2>4. /\ notices \in Seq(Sendings)
          /\ \A i \in DOMAIN notices : notices[i].session = NoSession /\ notices[i].msg.kind = "notice"
        BY <2>1, <2>2
    <2> HIDE DEF notices
    <2>5. /\ <<m>> \o notices \in Seq(Sendings)
          /\ \A i \in DOMAIN (<<m>> \o notices) :
                \/ i = 1 /\ (<<m>> \o notices)[i] = m
                \/ i - 1 \in DOMAIN notices /\ (<<m>> \o notices)[i] = notices[i - 1]
        BY <1>3, <2>4, ConcatProperties
    <2>6. RoomTask(p, <<m>> \o notices)
        <3>1. /\ sends["room"] = << >> /\ queue["room"] # << >> /\ p = Head(queue["room"])
              /\ queue' = [queue EXCEPT !["room"] = Tail(queue["room"])]
              /\ UNCHANGED <<netVars, binding, outbox, bound, routeVars>>
            BY DEF Serves, RoomJoin
        <3> DEFINE S == <<m>> \o notices
        <3>2. /\ S \in Seq(Sendings) /\ sends' = [sends EXCEPT !["room"] = S]
              /\ \A i \in DOMAIN S : \/ i = 1 /\ S[i] = m
                                     \/ S[i].session = NoSession /\ S[i].msg.kind = "notice"
            BY <2>3, <2>4, <2>5
        <3> HIDE DEF S
        <3>3. RoomTask(p, S)
            BY <1>3, <3>1, <3>2 DEF RoomTask
        <3> QED
            BY <3>3 DEF S
    <2> QED
        BY <1>2, <2>6
<1> QED
    BY <1>4, <1>5

\* Requests that leave the rooms alone.
LEMMA OtherRoomTasks ==
    ASSUME TablesTyped, NEW p \in Packs, Serves("room", p),
           RoomJoinRefused(p) \/ RoomLeave(p) \/ RoomList(p)
    PROVE  Rooms!TypeOK' /\ players' = players /\ \E S : RoomTask(p, S)
<1>1. UNCHANGED roomVars
    BY DEF RoomJoinRefused, RoomLeave, RoomList
<1>2. Rooms!TypeOK' /\ players' = players
    BY <1>1 DEF roomVars, TablesTyped, Rooms!TypeOK
<1>3. CASE RoomJoinRefused(p)
    <2> DEFINE m == ToUser(p.sender, Message("join", p, JoinResult(p)))
    <2>1. JoinResult(p) \in Results /\ sends' = [sends EXCEPT !["room"] = <<m>>]
        BY <1>3 DEF RoomJoinRefused, Answer, Results
    <2>2. /\ <<m>> \in Seq(Sendings)
          /\ m.user = NoUser \/ m.session = NoSession
          /\ m.msg.conn = p.conn /\ m.msg.id = p.id /\ StrandOf(m.msg.kind) = "room"
        BY <2>1, OneAnswer
    <2> HIDE DEF m
    <2>3. RoomTask(p, <<m>>)
        BY <1>3, <2>1, <2>2 DEF RoomTask, Serves, RoomJoinRefused
    <2> QED
        BY <1>2, <2>3
<1>4. CASE RoomList(p)
    <2> DEFINE m == ToSession(p.session, Message("list", p, ListResult))
    <2>1. sends' = [sends EXCEPT !["room"] = <<m>>]
        BY <1>4 DEF RoomList
    <2>2. /\ <<m>> \in Seq(Sendings)
          /\ m.user = NoUser \/ m.session = NoSession
          /\ m.msg.conn = p.conn /\ m.msg.id = p.id /\ StrandOf(m.msg.kind) = "room"
        <3>1. ListResult \in Results
            BY DEF Results, ListResult
        <3> QED
            BY <3>1, OneAnswer
    <2> HIDE DEF m
    <2>3. /\ sends["room"] = << >> /\ queue["room"] # << >> /\ p = Head(queue["room"])
          /\ queue' = [queue EXCEPT !["room"] = Tail(queue["room"])]
          /\ UNCHANGED <<netVars, binding, outbox, bound, routeVars>>
        BY <1>4 DEF Serves, RoomList
    <2>4. RoomTask(p, <<m>>)
        BY <2>1, <2>2, <2>3 DEF RoomTask
    <2> QED
        BY <1>2, <2>4
<1>5. CASE RoomLeave(p)
    <2>1. /\ sends["room"] = << >> /\ queue["room"] # << >> /\ p = Head(queue["room"])
          /\ queue' = [queue EXCEPT !["room"] = Tail(queue["room"])]
          /\ UNCHANGED <<netVars, binding, outbox, bound, routeVars>> /\ sends' = sends
        BY <1>5 DEF Serves, RoomLeave
    <2>2. sends' = [sends EXCEPT !["room"] = << >>]
        BY <2>1 DEF TablesTyped, Strands
    <2> DEFINE none == << >>
    <2>3. none \in Seq(Sendings) /\ DOMAIN none = {} /\ sends' = [sends EXCEPT !["room"] = none]
        BY <2>2
    <2> HIDE DEF none
    <2>4. RoomTask(p, none)
        BY <2>1, <2>3 DEF RoomTask
    <2> QED
        BY <1>2, <2>4
<1> QED
    BY <1>3, <1>4, <1>5

-----------------------------------------------------------------------------
(* Types. *)

\* Between the two callbacks of a login nothing else is done by its strand.
BindingIsLogin == binding # NoPack => binding.kind = "login" /\ sends["login"] = << >>

Types == TablesTyped /\ BindingIsLogin

\* The types of the tables hold as long as the tables are left alone.
LEMMA SameTables ==
    ASSUME TablesTyped
    PROVE  /\ UNCHANGED routeVars => Routes!TypeOK'
           /\ UNCHANGED roomVars => Rooms!TypeOK'
BY DEF TablesTyped, routeVars, roomVars, Routes!TypeOK, Rooms!TypeOK

\* The session of a connection that has one.
LEMMA SessionOfLive ==
    ASSUME TablesTyped, NEW c \in Live
    PROVE  SessionOf(c) \in DOMAIN sessions /\ sessions[SessionOf(c)] = c /\ SessionOf(c) \in Sessions
<1>1. \E s \in DOMAIN sessions : sessions[s] = c
    BY DEF Live
<1> QED
    BY <1>1 DEF SessionOf, TablesTyped

\* A new connection gets a session id or is refused.
LEMMA AcceptEffect ==
    ASSUME TablesTyped, Accept
    PROVE  /\ accepted' = accepted + 1 /\ accepted' \in 0 .. ConnLimit
           /\ \A s \in DOMAIN sessions' :
                 \/ s \in DOMAIN sessions /\ sessions'[s] = sessions[s]
                 \/ s = SessionIdOf(accepted + 1) /\ s # NoSession /\ sessions'[s] = accepted + 1
           /\ SessionIdOf(accepted + 1) \in 0 .. SessionSpace - 1
           /\ UNCHANGED <<requests, incoming, taskVars, outbox, bound, routeVars, roomVars>>
<1>1. accepted \in 0 .. ConnLimit /\ accepted < ConnLimit /\ accepted' = accepted + 1
    BY DEF Accept, TablesTyped
<1>2. SessionIdOf(accepted + 1) \in 0 .. SessionSpace - 1
    BY <1>1, SpacesAssumption, Remainder DEF SessionIdOf
<1>3. accepted' \in 0 .. ConnLimit
    BY <1>1, BoundsAssumption
<1> QED
    BY <1>1, <1>2, <1>3 DEF Accept

\* Connections that come.
LEMMA AcceptTypes ==
    ASSUME Types, Accept
    PROVE  Types'
<1>1. TablesTyped
    BY DEF Types
<1>2. DOMAIN sessions' \subseteq Sessions
    BY <1>1, AcceptEffect, SpacesAssumption DEF TablesTyped, Sessions, NoSession
<1>3. Live' \subseteq 1 .. accepted'
    <2> SUFFICES ASSUME NEW s \in DOMAIN sessions' PROVE sessions'[s] \in 1 .. accepted'
        BY DEF Live
    <2>1. accepted \in Nat /\ accepted' = accepted + 1
        BY <1>1, AcceptEffect DEF TablesTyped
    <2>2. s \in DOMAIN sessions => sessions[s] \in 1 .. accepted
        BY <1>1 DEF TablesTyped, Live
    <2> QED
        BY <1>1, <2>1, <2>2, AcceptEffect
<1> QED
    BY <1>1, <1>2, <1>3, AcceptEffect, SameTables DEF Types, TablesTyped, BindingIsLogin, taskVars

\* Connections that go.
LEMMA DisconnectTypes ==
    ASSUME Types, NEW c \in Conns, Disconnect(c)
    PROVE  Types'
<1>1. TablesTyped /\ UNCHANGED <<accepted, requests, incoming, taskVars, outbox, bound, routeVars, roomVars>>
    BY DEF Types, Disconnect
<1>2. DOMAIN sessions' \subseteq DOMAIN sessions /\ \A s \in DOMAIN sessions' : sessions'[s] = sessions[s]
    BY DEF Disconnect
<1>3. Live' \subseteq Live
    BY <1>2 DEF Live
<1> QED
    BY <1>1, <1>2, <1>3, SameTables DEF Types, TablesTyped, BindingIsLogin, taskVars

\* What a connection's strand has received.
LEMMA ReceiveEffect ==
    ASSUME TablesTyped, NEW c \in Conns, NEW req \in Requests, Receive(c, req)
    PROVE  /\ c \in Live /\ incoming[c] = NoPack
           /\ requests' = [requests EXCEPT ![c] = requests[c] + 1]
           /\ requests[c] + 1 \in 1 .. RequestLimit
           /\ \E p \in Packs : /\ incoming' = [incoming EXCEPT ![c] = p]
                              /\ p.conn = c /\ p.id = requests[c] + 1
                              /\ p.session = SessionOf(c) /\ p.sender = s2u[SessionOf(c)]
           /\ UNCHANGED <<accepted, sessions, taskVars, outbox, bound, routeVars, roomVars>>
<1> DEFINE p == [kind |-> req.kind, req |-> req, conn |-> c, id |-> requests[c] + 1,
                 session |-> SessionOf(c), sender |-> Routes!GetUserId(SessionOf(c))]
<1>1. c \in Live /\ incoming[c] = NoPack /\ requests[c] < RequestLimit
    BY DEF Receive
<1>2. requests[c] + 1 \in 1 .. RequestLimit
    BY <1>1, BoundsAssumption DEF TablesTyped
<1>3. SessionOf(c) \in Sessions
    BY <1>1, SessionOfLive
<1>4. Routes!GetUserId(SessionOf(c)) = s2u[SessionOf(c)] /\ s2u[SessionOf(c)] \in Users \cup {NoUser}
    BY <1>3 DEF Routes!GetUserId, TablesTyped, Routes!TypeOK
<1>5. p \in Packs
    <2>1. req.kind \in {"login", "logout", "create", "join", "leave", "list"}
        BY DEF Requests
    <2> QED
        BY <1>2, <1>3, <1>4, <2>1 DEF Packs
<1>6. incoming' = [incoming EXCEPT ![c] = p] /\ p.conn = c /\ p.id = requests[c] + 1
      /\ p.session = SessionOf(c) /\ p.sender = s2u[SessionOf(c)]
    BY <1>4 DEF Receive
<1>7. /\ requests' = [requests EXCEPT ![c] = requests[c] + 1]
      /\ UNCHANGED <<accepted, sessions, taskVars, outbox, bound, routeVars, roomVars>>
    BY DEF Receive
<1> HIDE DEF p
<1> QED
    BY <1>1, <1>2, <1>5, <1>6, <1>7

\* Requests that arrive.
LEMMA ReceiveTypes ==
    ASSUME Types, NEW c \in Conns, NEW req \in Requests, Receive(c, req)
    PROVE  Types'
<1>1. TablesTyped
    BY DEF Types
<1>2. requests' \in [Conns -> 0 .. RequestLimit]
    <2>1. requests' = [requests EXCEPT ![c] = requests[c] + 1] /\ requests[c] + 1 \in 1 .. RequestLimit
        BY <1>1, ReceiveEffect
    <2>2. requests \in [Conns -> 0 .. RequestLimit]
        BY <1>1 DEF TablesTyped
    <2> DEFINE n == requests[c] + 1
    <2>3. n \in 0 .. RequestLimit
        BY <2>1
    <2> HIDE DEF n
    <2> QED
        BY <2>1, <2>2, <2>3 DEF n
<1>3. incoming' \in [Conns -> Packs \cup {NoPack}]
    <2>1. PICK p \in Packs : incoming' = [incoming EXCEPT ![c] = p]
        BY <1>1, ReceiveEffect
    <2> QED
        BY <1>1, <2>1 DEF TablesTyped
<1>4. UNCHANGED <<accepted, sessions, taskVars, outbox, bound, routeVars, roomVars>>
    BY <1>1, ReceiveEffect
<1>5. Live' = Live
    BY <1>4 DEF Live
<1> QED
    BY <1>1, <1>2, <1>3, <1>4, <1>5, SameTables DEF Types, TablesTyped, BindingIsLogin, taskVars

\* A request that is posted joins the queue of its strand.
LEMMA PostEffect ==
    ASSUME TablesTyped, NEW c \in Conns, Post(c)
    PROVE  LET t == StrandOf(incoming[c].kind)
           IN  /\ t \in Strands /\ incoming[c] \in Packs
               /\ queue' = [queue EXCEPT ![t] = Append(queue[t], incoming[c])]
               /\ incoming' = [incoming EXCEPT ![c] = NoPack]
               /\ UNCHANGED <<accepted, sessions, requests, binding, sends, outbox, bound,
                              routeVars, roomVars>>
BY DEF Post, TablesTyped, StrandOf, Strands

\* Requests that are posted.
LEMMA PostTypes ==
    ASSUME Types, NEW c \in Conns, Post(c)
    PROVE  Types'
<1>1. TablesTyped
    BY DEF Types
<1> DEFINE t == StrandOf(incoming[c].kind)
<1>2. /\ t \in Strands /\ incoming[c] \in Packs
      /\ queue' = [queue EXCEPT ![t] = Append(queue[t], incoming[c])]
      /\ incoming' = [incoming EXCEPT ![c] = NoPack]
      /\ UNCHANGED <<accepted, sessions, requests, binding, sends, outbox, bound,
                     routeVars, roomVars>>
    BY <1>1, PostEffect
<1> HIDE DEF t
<1>3. queue' \in [Strands -> Seq(Packs)]
    <2>1. Append(queue[t], incoming[c]) \in Seq(Packs)
        BY <1>1, <1>2, AppendProperties DEF TablesTyped
    <2> QED
        BY <1>1, <1>2, <2>1 DEF TablesTyped
<1>4. incoming' \in [Conns -> Packs \cup {NoPack}]
    BY <1>1, <1>2 DEF TablesTyped
<1>5. Live' = Live
    BY <1>2 DEF Live
<1> QED
    BY <1>1, <1>2, <1>3, <1>4, <1>5, SameTables DEF Types, TablesTyped, BindingIsLogin

\* A message that is routed either disappears or learns its user's session.
LEMMA RouteEffect ==
    ASSUME TablesTyped, NEW t \in Strands, Route(t)
    PROVE  /\ sends[t] # << >>
           /\ \/ sends' = [sends EXCEPT ![t] = Tail(sends[t])]
              \/ \E S \in Seq(Sendings) :
                    /\ sends' = [sends EXCEPT ![t] = S]
                    /\ 1 \in DOMAIN S /\ DOMAIN S = DOMAIN sends[t]
                    /\ S[1].user = sends[t][1].user /\ S[1].msg = sends[t][1].msg
                    /\ S[1].user \in Users => S[1].session = u2s[S[1].user]
                    /\ S[1].user \in Users /\ S[1].session # NoSession
                    /\ \A i \in DOMAIN S : i # 1 => S[i] = sends[t][i]
           /\ UNCHANGED <<netVars, queue, binding, outbox, bound, routeVars, roomVars>>
<1> DEFINE s == sends[t]
           sid == Routes!GetSessionId(Head(s).user)
           S == [s EXCEPT ![1].session = sid]
<1>1. s \in Seq(Sendings) /\ s # << >>
    BY DEF TablesTyped, Route
<1>2. Head(s) = s[1] /\ 1 \in DOMAIN s /\ s[1] \in Sendings
    BY <1>1, TailFacts
<1>3. /\ sends' = [sends EXCEPT ![t] = IF sid = NoSession THEN Tail(s) ELSE S]
      /\ UNCHANGED <<netVars, queue, binding, outbox, bound, routeVars, roomVars>>
    BY DEF Route
<1>4. CASE sid = NoSession
    BY <1>1, <1>3, <1>4
<1>5. CASE sid # NoSession
    <2> DEFINE e == [s[1] EXCEPT !.session = sid]
    <2>1. s[1].user \in Users /\ sid = u2s[s[1].user] /\ sid \in Sessions
        BY <1>2, <1>5 DEF Routes!GetSessionId, TablesTyped, Routes!TypeOK
    <2> HIDE DEF sid
    <2>2. e \in Sendings /\ e.user = s[1].user /\ e.msg = s[1].msg /\ e.session = sid
        BY <1>2, <2>1 DEF Sendings
    <2>3. S = [s EXCEPT ![1] = e]
        OBVIOUS
    <2> HIDE DEF e
    <2>4. /\ S \in Seq(Sendings) /\ DOMAIN S = DOMAIN s /\ S[1] = e
          /\ \A i \in DOMAIN S : i # 1 => S[i] = s[i]
        BY <1>1, <1>2, <2>2, <2>3
    <2>5. sends' = [sends EXCEPT ![t] = S]
        BY <1>3, <1>5
    <2> HIDE DEF S
    <2>6. S[1].session = u2s[S[1].user] /\ S[1].user \in Users /\ S[1].session # NoSession
        BY <1>5, <2>1, <2>2, <2>4
    <2> QED
        BY <1>1, <1>2, <1>3, <2>2, <2>4, <2>5, <2>6
<1> QED
    BY <1>4, <1>5

\* Messages that are routed.
LEMMA RouteTypes ==
    ASSUME Types, NEW t \in Strands, Route(t)
    PROVE  Types'
<1>1. TablesTyped /\ sends[t] # << >> /\ sends[t] \in Seq(Sendings)
    BY RouteEffect DEF Types, TablesTyped
<1>2. UNCHANGED <<netVars, queue, binding, outbox, bound, routeVars, roomVars>>
    BY <1>1, RouteEffect
<1>3. sends' \in [Strands -> Seq(Sendings)]
    <2>1. CASE sends' = [sends EXCEPT ![t] = Tail(sends[t])]
        BY <1>1, <2>1, TailFacts DEF TablesTyped
    <2>2. CASE \E S \in Seq(Sendings) : sends' = [sends EXCEPT ![t] = S]
        BY <1>1, <2>2 DEF TablesTyped
    <2> QED
        BY <1>1, <2>1, <2>2, RouteEffect
<1>4. BindingIsLogin'
    <2>1. t = "login" => binding = NoPack
        BY <1>1 DEF Types, BindingIsLogin
    <2>2. t # "login" => sends'["login"] = sends["login"]
        BY <1>1, RouteEffect DEF TablesTyped, Strands
    <2> QED
        BY <1>2, <2>1, <2>2 DEF Types, BindingIsLogin
<1>5. Live' = Live
    BY <1>2 DEF Live, netVars
<1> QED
    BY <1>1, <1>2, <1>3, <1>4, <1>5, SameTables DEF Types, TablesTyped, netVars

\* A message that is delivered leaves the strand, for a connection or nowhere.
LEMMA DeliverEffect ==
    ASSUME TablesTyped, NEW t \in Strands, Deliver(t)
    PROVE  /\ sends[t] # << >> /\ sends[t][1] \in Sendings /\ sends[t][1].session # NoSession
           /\ sends' = [sends EXCEPT ![t] = Tail(sends[t])]
           /\ \/ outbox' = outbox
              \/ /\ sends[t][1].session \in DOMAIN sessions
                 /\ sessions[sends[t][1].session] \in Conns
                 /\ outbox' = [outbox EXCEPT ![sessions[sends[t][1].session]] =
                                  Append(outbox[sessions[sends[t][1].session]], sends[t][1])]
           /\ UNCHANGED <<netVars, queue, binding, bound, routeVars, roomVars>>
<1>1. sends[t] \in Seq(Sendings) /\ sends[t] # << >>
    BY DEF TablesTyped, Deliver
<1>2. Head(sends[t]) = sends[t][1] /\ sends[t][1] \in Sendings
    BY <1>1, TailFacts
<1>3. \A s \in DOMAIN sessions : sessions[s] \in Conns
    <2> SUFFICES ASSUME NEW s \in DOMAIN sessions PROVE sessions[s] \in Conns
        OBVIOUS
    <2>1. sessions[s] \in 1 .. accepted
        BY DEF TablesTyped, Live
    <2>2. accepted \in 0 .. ConnLimit
        BY DEF TablesTyped
    <2> QED
        BY <2>1, <2>2, BoundsAssumption DEF Conns
<1> QED
    BY <1>1, <1>2, <1>3 DEF Deliver

\* Messages that are delivered.
LEMMA DeliverTypes ==
    ASSUME Types, NEW t \in Strands, Deliver(t)
    PROVE  Types'
<1>1. TablesTyped /\ sends[t] # << >> /\ sends[t] \in Seq(Sendings)
    BY DeliverEffect DEF Types, TablesTyped
<1>2. /\ sends' = [sends EXCEPT ![t] = Tail(sends[t])]
      /\ UNCHANGED <<netVars, queue, binding, bound, routeVars, roomVars>>
    BY <1>1, DeliverEffect
<1>3. sends' \in [Strands -> Seq(Sendings)]
    BY <1>1, <1>2, TailFacts DEF TablesTyped
<1>4. outbox' \in [Conns -> Seq(Sendings)]
    <2> DEFINE c == sessions[sends[t][1].session]
               m == sends[t][1]
    <2>1. m \in Sendings
        BY <1>1, DeliverEffect
    <2>2. CASE outbox' = outbox
        BY <1>1, <2>2 DEF TablesTyped
    <2>3. CASE c \in Conns /\ outbox' = [outbox EXCEPT ![c] = Append(outbox[c], m)]
        <3> HIDE DEF c, m
        <3>1. Append(outbox[c], m) \in Seq(Sendings)
            BY <1>1, <2>1, <2>3, AppendFacts DEF TablesTyped
        <3> QED
            BY <1>1, <2>3, <3>1 DEF TablesTyped
    <2> QED
        BY <1>1, <2>2, <2>3, DeliverEffect
<1>5. BindingIsLogin'
    <2>1. t = "login" => binding = NoPack
        BY <1>1 DEF Types, BindingIsLogin
    <2>2. t # "login" => sends'["login"] = sends["login"]
        BY <1>1, <1>2 DEF TablesTyped, Strands
    <2> QED
        BY <1>2, <2>1, <2>2 DEF Types, BindingIsLogin
<1>6. Live' = Live
    BY <1>2 DEF Live, netVars
<1> QED
    BY <1>1, <1>2, <1>3, <1>4, <1>5, <1>6, SameTables DEF Types, TablesTyped, netVars

\* The first task of a strand and the queue behind it.
LEMMA ServesEffect ==
    ASSUME TablesTyped, NEW t \in Strands, NEW p, Serves(t, p)
    PROVE  /\ queue[t] \in Seq(Packs) /\ queue[t] # << >> /\ p = queue[t][1] /\ p \in Packs
           /\ sends[t] = << >> /\ (t = "login" => binding = NoPack)
           /\ queue' = [queue EXCEPT ![t] = Tail(queue[t])]
           /\ queue' \in [Strands -> Seq(Packs)]
<1>1. queue[t] \in Seq(Packs) /\ queue[t] # << >> /\ p = Head(queue[t])
    BY DEF TablesTyped, Serves
<1>2. p = queue[t][1] /\ p \in Packs /\ Tail(queue[t]) \in Seq(Packs)
    BY <1>1, TailFacts
<1> QED
    BY <1>1, <1>2 DEF TablesTyped, Serves

\* A login whose first callback has run.
LEMMA LoginBindEffect ==
    ASSUME TablesTyped, NEW p \in Packs, LoginBind(p)
    PROVE  /\ p.kind = "login" /\ p.req.name \in Users /\ Routes!Bind(p.req.name, p.session)
           /\ binding' = p /\ bound' = bound \cup {<<p.conn, p.req.name>>}
           /\ UNCHANGED <<netVars, sends, outbox, roomVars>>
BY PackFacts DEF LoginBind, Routes!onUserLogin

\* Logins that are bound.
LEMMA LoginBindTypes ==
    ASSUME Types, NEW p, Serves("login", p), LoginBind(p)
    PROVE  Types'
<1>1. TablesTyped /\ "login" \in Strands
    BY DEF Types, Strands
<1>2. p \in Packs /\ sends["login"] = << >> /\ queue' \in [Strands -> Seq(Packs)]
    BY <1>1, ServesEffect
<1>3. /\ p.kind = "login" /\ p.req.name \in Users /\ Routes!Bind(p.req.name, p.session)
      /\ binding' = p /\ bound' = bound \cup {<<p.conn, p.req.name>>}
      /\ UNCHANGED <<netVars, sends, outbox, roomVars>>
    BY <1>1, <1>2, LoginBindEffect
<1>4. Routes!TypeOK'
    BY <1>1, <1>2, <1>3, BindTypes, PackFacts DEF TablesTyped
<1>5. bound' \subseteq Conns \X Users
    BY <1>1, <1>2, <1>3, PackFacts DEF TablesTyped
<1>6. Live' = Live
    BY <1>3 DEF Live, netVars
<1> QED
    BY <1>1, <1>2, <1>3, <1>4, <1>5, <1>6, SameTables DEF Types, TablesTyped, BindingIsLogin, netVars

\* Logouts that are served.
LEMMA LogoutTypes ==
    ASSUME Types, NEW p, Serves("login", p), Logout(p)
    PROVE  Types'
<1>1. TablesTyped /\ "login" \in Strands
    BY DEF Types, Strands
<1>2. queue' \in [Strands -> Seq(Packs)]
    BY <1>1, ServesEffect
<1>3. UNCHANGED <<netVars, binding, sends, outbox, bound, routeVars, roomVars>>
    BY DEF Logout
<1>4. Live' = Live
    BY <1>3 DEF Live, netVars
<1> QED
    BY <1>1, <1>2, <1>3, <1>4, SameTables DEF Types, TablesTyped, BindingIsLogin, netVars

\* A login whose second callback has run.
LEMMA LoginPlayerEffect ==
    ASSUME Types, LoginPlayer
    PROVE  /\ binding \in Packs /\ binding' = NoPack /\ sends["login"] = << >>
           /\ binding.req.name \in Users /\ players' = players \cup {binding.req.name}
           /\ \E m \in Sendings : /\ sends' = [sends EXCEPT !["login"] = <<m>>]
                                /\ m.user = NoUser /\ m.msg.kind = "login"
                                /\ m.msg.conn = binding.conn /\ m.msg.id = binding.id
           /\ Rooms!TypeOK'
           /\ UNCHANGED <<netVars, queue, outbox, bound, routeVars>>
<1> DEFINE m == ToSession(binding.session, Message("login", binding, "SUCCESS"))
<1>1. binding \in Packs /\ binding.kind = "login" /\ sends["login"] = << >>
    BY DEF LoginPlayer, Types, TablesTyped, BindingIsLogin
<1>2. binding.req.name \in Users
    BY <1>1, PackFacts
<1>3. Message("login", binding, "SUCCESS") \in Messages
    BY <1>1, PackFacts DEF Message, Messages, Results
<1>4. /\ m \in Sendings /\ m.user = NoUser /\ m.msg.kind = "login"
      /\ m.msg.conn = binding.conn /\ m.msg.id = binding.id
    BY <1>1, <1>3, PackFacts DEF ToSession, Sendings, Message
<1>5. sends' = [sends EXCEPT !["login"] = <<m>>]
    BY DEF LoginPlayer
<1>6. Rooms!TypeOK' /\ players' = players \cup {binding.req.name}
    BY <1>2, PlayerLoginTypes DEF LoginPlayer, Types, TablesTyped, Rooms!PlayerLogin
<1>7. binding' = NoPack /\ UNCHANGED <<netVars, queue, outbox, bound, routeVars>>
    BY DEF LoginPlayer
<1> HIDE DEF m
<1> QED
    BY <1>1, <1>2, <1>4, <1>5, <1>6, <1>7

\* Logins that are completed.
LEMMA LoginPlayerTypes ==
    ASSUME Types, LoginPlayer
    PROVE  Types'
<1>1. /\ binding' = NoPack /\ Rooms!TypeOK'
      /\ UNCHANGED <<netVars, queue, outbox, bound, routeVars>>
    BY LoginPlayerEffect
<1>2. PICK m \in Sendings : sends' = [sends EXCEPT !["login"] = <<m>>]
    BY LoginPlayerEffect
<1>3. sends' \in [Strands -> Seq(Sendings)]
    BY <1>2 DEF Types, TablesTyped, Strands
<1>4. Live' = Live
    BY <1>1 DEF Live, netVars
<1> QED
    BY <1>1, <1>3, <1>4, SameTables DEF Types, TablesTyped, BindingIsLogin, netVars

\* Tasks of the room strand.
LEMMA RoomTaskTypes ==
    ASSUME Types, NEW p, NEW S, RoomTask(p, S), Rooms!TypeOK'
    PROVE  Types'
<1>1. TablesTyped /\ "room" \in Strands
    BY DEF Types, Strands
<1>2. Tail(queue["room"]) \in Seq(Packs)
    BY <1>1, TailFacts DEF TablesTyped, RoomTask
<1>3. queue' \in [Strands -> Seq(Packs)] /\ sends' \in [Strands -> Seq(Sendings)]
    BY <1>1, <1>2 DEF TablesTyped, RoomTask
<1>4. UNCHANGED <<netVars, binding, outbox, bound, routeVars>> /\ sends'["login"] = sends["login"]
    BY <1>1 DEF RoomTask, TablesTyped, Strands
<1>5. Live' = Live
    BY <1>4 DEF Live, netVars
<1> QED
    BY <1>1, <1>3, <1>4, <1>5, SameTables DEF Types, TablesTyped, BindingIsLogin, netVars

-----------------------------------------------------------------------------
(* Whose a request, a route and a message are, until session ids are used   *)
(* again.  A session id is then the number of its connection.               *)

\* p names its own session, and a sender that logged in on its connection.
Known(p, b) ==
    /\ p.session = p.conn
    /\ p.sender # NoUser => <<p.conn, p.sender>> \in b

KnownSessions == \A s \in DOMAIN sessions : sessions[s] = s

KnownRoutes ==
    /\ \A s \in Sessions : s2u[s] # NoUser => <<s, s2u[s]>> \in bound
    /\ \A u \in Users : u2s[u] # NoSession => <<u2s[u], u>> \in bound

KnownTasks ==
    /\ \A c \in Conns : incoming[c] # NoPack => Known(incoming[c], bound)
    /\ \A t \in Strands : \A i \in DOMAIN queue[t] : Known(queue[t][i], bound)
    /\ binding # NoPack => Known(binding, bound)

\* What is to be sent to a user's session.
Owned(m, b) == m.user # NoUser /\ m.session # NoSession => <<m.session, m.user>> \in b

KnownSends == \A t \in Strands : \A i \in DOMAIN sends[t] : Owned(sends[t][i], bound)

KnownOutbox ==
    \A c \in Conns : \A i \in DOMAIN outbox[c] :
        outbox[c][i].user # NoUser => <<c, outbox[c][i].user>> \in bound

Owners ==
    SessionsFresh => KnownSessions /\ KnownRoutes /\ KnownTasks /\ KnownSends /\ KnownOutbox

\* A step that accepts or closes connections moves no ownership.
LEMMA ConnectionOwners ==
    ASSUME TablesTyped, Owners, Accept \/ \E c \in Conns : Disconnect(c)
    PROVE  Owners'
<1>1. UNCHANGED <<requests, incoming, taskVars, outbox, bound, routeVars, roomVars>>
    BY DEF Accept, Disconnect
<1>2. accepted \in Nat /\ (SessionsFresh' => SessionsFresh)
    <2>1. accepted \in 0 .. ConnLimit
        BY DEF TablesTyped
    <2>2. accepted' = accepted \/ accepted' = accepted + 1
        BY DEF Accept, Disconnect
    <2> QED
        BY <2>1, <2>2, SpacesAssumption DEF SessionsFresh
<1>3. SessionsFresh' => KnownSessions'
    <2>1. CASE Accept
        <3>1. accepted' = accepted + 1 /\ (SessionsFresh' => SessionIdOf(accepted + 1) = accepted + 1)
            BY <1>2, <2>1, AcceptEffect, SpacesAssumption DEF SessionsFresh, SessionIdOf
        <3> QED
            BY <1>2, <2>1, <3>1, AcceptEffect DEF KnownSessions, Owners
    <2>2. CASE \E c \in Conns : Disconnect(c)
        BY <1>2, <2>2 DEF Disconnect, KnownSessions, Owners
    <2> QED
        BY <2>1, <2>2
<1> QED
    BY <1>1, <1>2, <1>3 DEF Owners, KnownRoutes, KnownTasks, Known, KnownSends, Owned, KnownOutbox,
                            taskVars, routeVars

\* A request comes from the session it was read on.
LEMMA ReceiveOwners ==
    ASSUME TablesTyped, Owners, NEW c \in Conns, NEW req \in Requests, Receive(c, req)
    PROVE  Owners'
<1>1. /\ c \in Live /\ incoming[c] = NoPack
      /\ UNCHANGED <<accepted, sessions, taskVars, outbox, bound, routeVars, roomVars>>
    BY ReceiveEffect
<1>2. PICK p \in Packs : /\ incoming' = [incoming EXCEPT ![c] = p] /\ p.conn = c
                         /\ p.session = SessionOf(c) /\ p.sender = s2u[SessionOf(c)]
    BY ReceiveEffect
<1>3. SessionOf(c) \in DOMAIN sessions /\ sessions[SessionOf(c)] = c /\ SessionOf(c) \in Sessions
    BY <1>1, SessionOfLive
<1>4. SessionsFresh => Known(p, bound)
    BY <1>2, <1>3 DEF Owners, KnownSessions, KnownRoutes, Known
<1>5. SessionsFresh => KnownTasks'
    <2> SUFFICES ASSUME SessionsFresh PROVE KnownTasks'
        OBVIOUS
    <2>1. ASSUME NEW d \in Conns, incoming'[d] # NoPack PROVE Known(incoming'[d], bound')
        <3>1. CASE d = c
            BY <1>1, <1>2, <1>4, <3>1 DEF TablesTyped
        <3>2. CASE d # c
            BY <1>1, <1>2, <2>1, <3>2 DEF TablesTyped, Owners, KnownTasks
        <3> QED
            BY <3>1, <3>2
    <2> QED
        BY <1>1, <2>1 DEF Owners, KnownTasks, taskVars
<1> QED
    BY <1>1, <1>5 DEF Owners, SessionsFresh, KnownSessions, KnownRoutes, KnownSends, Owned, KnownOutbox,
                      taskVars, routeVars

\* A request that is posted is the one that was received.
LEMMA PostOwners ==
    ASSUME TablesTyped, Owners, NEW c \in Conns, Post(c)
    PROVE  Owners'
<1> DEFINE t == StrandOf(incoming[c].kind)
<1>1. /\ t \in Strands /\ incoming[c] \in Packs
      /\ queue' = [queue EXCEPT ![t] = Append(queue[t], incoming[c])]
      /\ incoming' = [incoming EXCEPT ![c] = NoPack]
      /\ UNCHANGED <<accepted, sessions, requests, binding, sends, outbox, bound,
                     routeVars, roomVars>>
    BY PostEffect
<1> HIDE DEF t
<1>2. SessionsFresh => KnownTasks'
    <2> SUFFICES ASSUME SessionsFresh PROVE KnownTasks'
        OBVIOUS
    <2>1. Known(incoming[c], bound)
        BY <1>1, PackFacts DEF Owners, KnownTasks
    <2>2. ASSUME NEW s \in Strands, NEW i \in DOMAIN queue'[s] PROVE Known(queue'[s][i], bound')
        <3>1. CASE s = t
            <4>1. queue'[s] = Append(queue[t], incoming[c]) /\ queue[t] \in Seq(Packs)
                BY <1>1, <3>1 DEF TablesTyped
            <4>2. (i \in DOMAIN queue[t] /\ queue'[s][i] = queue[t][i]) \/ queue'[s][i] = incoming[c]
                BY <1>1, <2>2, <4>1, AppendFacts
            <4>3. Known(queue'[s][i], bound)
                BY <1>1, <2>1, <4>2 DEF Owners, KnownTasks
            <4> QED
                BY <1>1, <4>3
        <3>2. CASE s # t
            BY <1>1, <2>2, <3>2 DEF TablesTyped, Owners, KnownTasks
        <3> QED
            BY <3>1, <3>2
    <2>3. ASSUME NEW d \in Conns, incoming'[d] # NoPack PROVE Known(incoming'[d], bound')
        BY <1>1, <2>3 DEF TablesTyped, Owners, KnownTasks
    <2> QED
        BY <1>1, <2>2, <2>3 DEF Owners, KnownTasks
<1> QED
    BY <1>1, <1>2 DEF Owners, SessionsFresh, KnownSessions, KnownRoutes, KnownSends, Owned, KnownOutbox,
                      routeVars

\* Taking a task off its queue leaves the others as they are.
LEMMA TakeOwners ==
    ASSUME TablesTyped, KnownTasks, NEW t \in Strands, queue[t] # << >>,
           queue' = [queue EXCEPT ![t] = Tail(queue[t])], bound \subseteq bound'
    PROVE  \A s \in Strands : \A i \in DOMAIN queue'[s] : Known(queue'[s][i], bound')
<1> SUFFICES ASSUME NEW s \in Strands, NEW i \in DOMAIN queue'[s] PROVE Known(queue'[s][i], bound')
    OBVIOUS
<1>1. \E j \in DOMAIN queue[s] : queue'[s][i] = queue[s][j]
    <2>1. CASE s = t
        <3>1. queue'[s] = Tail(queue[t]) /\ queue[t] \in Seq(Packs)
            BY <2>1 DEF TablesTyped
        <3>2. i + 1 \in DOMAIN queue[t] /\ queue'[s][i] = queue[t][i + 1]
            BY <3>1, TailFacts
        <3> QED
            BY <2>1, <3>2
    <2>2. CASE s # t
        BY <2>2 DEF TablesTyped
    <2> QED
        BY <2>1, <2>2
<1>2. PICK j \in DOMAIN queue[s] : queue'[s][i] = queue[s][j]
    BY <1>1
<1>3. Known(queue[s][j], bound)
    BY DEF KnownTasks
<1> QED
    BY <1>2, <1>3 DEF Known

\* A login ties its own connection to its user.
LEMMA LoginBindOwners ==
    ASSUME TablesTyped, Owners, NEW p, Serves("login", p), LoginBind(p)
    PROVE  Owners'
<1>1. "login" \in Strands
    BY DEF Strands
<1>2. /\ queue["login"] # << >> /\ p = queue["login"][1] /\ p \in Packs
      /\ 1 \in DOMAIN queue["login"]
      /\ queue' = [queue EXCEPT !["login"] = Tail(queue["login"])]
    BY <1>1, ServesEffect, TailFacts
<1>3. /\ p.kind = "login" /\ p.req.name \in Users /\ Routes!Bind(p.req.name, p.session)
      /\ binding' = p /\ bound' = bound \cup {<<p.conn, p.req.name>>}
      /\ UNCHANGED <<netVars, sends, outbox, roomVars>>
    BY <1>2, LoginBindEffect
<1> SUFFICES ASSUME SessionsFresh
             PROVE  KnownSessions' /\ KnownRoutes' /\ KnownTasks' /\ KnownSends' /\ KnownOutbox'
    BY <1>3 DEF Owners, SessionsFresh, netVars
<1>4. KnownSessions /\ KnownRoutes /\ KnownTasks /\ KnownSends /\ KnownOutbox
    BY DEF Owners
<1>5. Known(p, bound)
    BY <1>1, <1>2, <1>4 DEF KnownTasks
<1>6. KnownTasks'
    <2>1. \A s \in Strands : \A i \in DOMAIN queue'[s] : Known(queue'[s][i], bound')
        BY <1>1, <1>2, <1>3, <1>4, TakeOwners
    <2>2. Known(binding', bound')
        BY <1>3, <1>5 DEF Known
    <2>3. \A c \in Conns : incoming'[c] # NoPack => Known(incoming'[c], bound')
        BY <1>3, <1>4 DEF KnownTasks, Known, netVars
    <2> QED
        BY <2>1, <2>2, <2>3 DEF KnownTasks
<1>7. KnownRoutes'
    <2>1. /\ \A v \in Users : u2s'[v] = IF v = p.req.name THEN p.session ELSE u2s[v]
          /\ \A r \in Sessions :
                (s2u'[r] = p.req.name /\ r = p.session) \/ s2u'[r] \in {s2u[r], NoUser}
        BY <1>2, <1>3, BindTypes, PackFacts DEF TablesTyped
    <2>2. <<p.session, p.req.name>> \in bound' /\ bound \subseteq bound'
        BY <1>3, <1>5 DEF Known
    <2> QED
        BY <1>4, <2>1, <2>2 DEF KnownRoutes
<1> QED
    BY <1>3, <1>4, <1>6, <1>7 DEF KnownSessions, KnownSends, Owned, KnownOutbox, netVars

\* A strand that takes a task for which it looks nothing up, or drops or
\* sends what belongs where it goes, changes no ownership.
LEMMA TaskOwners ==
    ASSUME TablesTyped, Owners, NEW t \in Strands, NEW S,
           \/ queue' = queue
           \/ queue[t] # << >> /\ queue' = [queue EXCEPT ![t] = Tail(queue[t])],
           sends' = [sends EXCEPT ![t] = S],
           SessionsFresh => \A i \in DOMAIN S : Owned(S[i], bound),
           binding' \in {binding, NoPack},
           SessionsFresh => KnownOutbox',
           UNCHANGED <<netVars, bound, routeVars>>
    PROVE  Owners'
<1> SUFFICES ASSUME SessionsFresh
             PROVE  KnownSessions' /\ KnownRoutes' /\ KnownTasks' /\ KnownSends' /\ KnownOutbox'
    BY DEF Owners, SessionsFresh, netVars
<1>1. KnownSessions /\ KnownRoutes /\ KnownTasks /\ KnownSends
    BY DEF Owners
<1>2. KnownTasks'
    <2>1. \A s \in Strands : \A i \in DOMAIN queue'[s] : Known(queue'[s][i], bound')
        <3>1. CASE queue' = queue
            BY <1>1, <3>1 DEF KnownTasks
        <3>2. CASE queue[t] # << >> /\ queue' = [queue EXCEPT ![t] = Tail(queue[t])]
            BY <1>1, <3>2, TakeOwners
        <3> QED
            BY <3>1, <3>2
    <2> QED
        BY <1>1, <2>1 DEF KnownTasks, netVars
<1>3. KnownSends'
    <2> SUFFICES ASSUME NEW s \in Strands, NEW i \in DOMAIN sends'[s] PROVE Owned(sends'[s][i], bound')
        BY DEF KnownSends
    <2>1. CASE s = t
        BY <2>1 DEF TablesTyped
    <2>2. CASE s # t
        BY <1>1, <2>2 DEF TablesTyped, KnownSends
    <2> QED
        BY <2>1, <2>2
<1> QED
    BY <1>1, <1>2, <1>3 DEF KnownSessions, KnownRoutes, netVars, routeVars

\* Served logouts and completed logins.
LEMMA LoginTaskOwners ==
    ASSUME Types, Owners,
           LoginPlayer \/ \E p : Serves("login", p) /\ Logout(p)
    PROVE  Owners'
<1>1. TablesTyped /\ "login" \in Strands
    BY DEF Types, Strands
<1>2. CASE LoginPlayer
    <2>1. /\ binding' = NoPack /\ UNCHANGED <<netVars, queue, outbox, bound, routeVars>>
        BY <1>2, LoginPlayerEffect
    <2>2. PICK m \in Sendings : sends' = [sends EXCEPT !["login"] = <<m>>] /\ m.user = NoUser
        BY <1>2, LoginPlayerEffect
    <2> DEFINE S == <<m>>
    <2>3. \A i \in DOMAIN S : Owned(S[i], bound)
        BY <2>2 DEF Owned
    <2>4. SessionsFresh => KnownOutbox'
        BY <2>1 DEF Owners, KnownOutbox
    <2>5. sends' = [sends EXCEPT !["login"] = S]
        BY <2>2
    <2> HIDE DEF S
    <2> QED
        BY <1>1, <2>1, <2>3, <2>4, <2>5, TaskOwners
<1>3. CASE \E p : Serves("login", p) /\ Logout(p)
    <2>1. PICK p : Serves("login", p) /\ Logout(p)
        BY <1>3
    <2>2. queue["login"] # << >> /\ queue' = [queue EXCEPT !["login"] = Tail(queue["login"])]
        BY <2>1 DEF Serves
    <2>3. UNCHANGED <<netVars, binding, sends, outbox, bound, routeVars>>
        BY <2>1 DEF Logout
    <2>4. sends' = [sends EXCEPT !["login"] = sends["login"]]
        BY <1>1, <2>3 DEF TablesTyped
    <2>5. SessionsFresh => \A i \in DOMAIN sends["login"] : Owned(sends["login"][i], bound)
        BY <1>1 DEF Owners, KnownSends
    <2>6. SessionsFresh => KnownOutbox'
        BY <2>3 DEF Owners, KnownOutbox
    <2> QED
        BY <1>1, <2>2, <2>3, <2>4, <2>5, <2>6, TaskOwners
<1> QED
    BY <1>2, <1>3

\* A message is routed to where its user logged in.
LEMMA RouteOwners ==
    ASSUME TablesTyped, Owners, NEW t \in Strands, Route(t)
    PROVE  Owners'
<1>1. /\ sends[t] # << >> /\ sends[t] \in Seq(Sendings)
      /\ UNCHANGED <<netVars, queue, binding, outbox, bound, routeVars>>
    BY RouteEffect DEF TablesTyped
<1>2. SessionsFresh => KnownOutbox'
    BY <1>1 DEF Owners, KnownOutbox
<1>3. SessionsFresh => \A i \in DOMAIN sends[t] : Owned(sends[t][i], bound)
    BY DEF Owners, KnownSends
<1>4. CASE sends' = [sends EXCEPT ![t] = Tail(sends[t])]
    <2>1. SessionsFresh => \A i \in DOMAIN Tail(sends[t]) : Owned(Tail(sends[t])[i], bound)
        BY <1>1, <1>3, TailFacts
    <2> QED
        BY <1>1, <1>2, <1>4, <2>1, TaskOwners
<1>5. CASE sends' # [sends EXCEPT ![t] = Tail(sends[t])]
    <2>1. PICK S \in Seq(Sendings) :
            /\ sends' = [sends EXCEPT ![t] = S]
            /\ 1 \in DOMAIN S /\ DOMAIN S = DOMAIN sends[t]
            /\ S[1].user \in Users => S[1].session = u2s[S[1].user]
            /\ S[1].user \in Users /\ S[1].session # NoSession
            /\ \A i \in DOMAIN S : i # 1 => S[i] = sends[t][i]
        BY <1>5, RouteEffect
    <2>2. SessionsFresh => Owned(S[1], bound)
        BY <2>1 DEF Owners, KnownRoutes, Owned
    <2>3. SessionsFresh => \A i \in DOMAIN S : Owned(S[i], bound)
        BY <1>3, <2>1, <2>2
    <2> QED
        BY <1>1, <1>2, <2>1, <2>3, TaskOwners
<1> QED
    BY <1>4, <1>5

\* A message is written to a connection that its user logged in on.
LEMMA DeliverOwners ==
    ASSUME TablesTyped, Owners, NEW t \in Strands, Deliver(t)
    PROVE  Owners'
<1> DEFINE m == sends[t][1]
           c == sessions[m.session]
<1>1. /\ sends[t] # << >> /\ sends[t] \in Seq(Sendings) /\ m \in Sendings /\ m.session # NoSession
      /\ sends' = [sends EXCEPT ![t] = Tail(sends[t])]
      /\ UNCHANGED <<netVars, queue, binding, bound, routeVars>>
    BY DeliverEffect DEF TablesTyped
<1>2. \/ outbox' = outbox
      \/ m.session \in DOMAIN sessions /\ c \in Conns /\ outbox' = [outbox EXCEPT ![c] = Append(outbox[c], m)]
    BY DeliverEffect
<1>3. 1 \in DOMAIN sends[t]
    BY <1>1, TailFacts
<1>4. SessionsFresh => \A i \in DOMAIN Tail(sends[t]) : Owned(Tail(sends[t])[i], bound)
    BY <1>1, TailFacts DEF Owners, KnownSends
<1>5. ASSUME SessionsFresh PROVE KnownOutbox'
    <2>1. KnownSends /\ KnownSessions /\ KnownOutbox
        BY <1>5 DEF Owners
    <2>2. CASE outbox' = outbox
        BY <1>1, <2>1, <2>2 DEF KnownOutbox
    <2>3. CASE outbox' # outbox
        <3>1. m.session \in DOMAIN sessions /\ c = m.session /\ c \in Conns
              /\ outbox' = [outbox EXCEPT ![c] = Append(outbox[c], m)]
            BY <1>2, <2>1, <2>3 DEF KnownSessions
        <3>2. m.user # NoUser => <<c, m.user>> \in bound
            BY <1>1, <1>3, <2>1, <3>1 DEF KnownSends, Owned
        <3> HIDE DEF m, c
        <3> SUFFICES ASSUME NEW d \in Conns, NEW i \in DOMAIN outbox'[d], outbox'[d][i].user # NoUser
                     PROVE  <<d, outbox'[d][i].user>> \in bound'
            BY DEF KnownOutbox
        <3>3. CASE d = c
            <4>1. outbox'[d] = Append(outbox[c], m) /\ outbox[c] \in Seq(Sendings)
                BY <3>1, <3>3 DEF TablesTyped
            <4>2. (i \in DOMAIN outbox[c] /\ outbox'[d][i] = outbox[c][i]) \/ outbox'[d][i] = m
                BY <1>1, <4>1, AppendFacts
            <4>3. CASE outbox'[d][i] = m
                BY <1>1, <3>2, <3>3, <4>3
            <4>4. CASE i \in DOMAIN outbox[c] /\ outbox'[d][i] = outbox[c][i]
                <5>1. outbox[c][i].user # NoUser
                    BY <4>4
                <5>2. <<c, outbox[c][i].user>> \in bound
                    BY <2>1, <3>1, <4>4, <5>1 DEF KnownOutbox
                <5> QED
                    BY <1>1, <3>3, <4>4, <5>2
            <4> QED
                BY <4>2, <4>3, <4>4
        <3>4. CASE d # c
            BY <1>1, <2>1, <3>1, <3>4 DEF KnownOutbox, TablesTyped
        <3> QED
            BY <3>3, <3>4
    <2> QED
        BY <2>2, <2>3
<1> QED
    BY <1>1, <1>4, <1>5, TaskOwners

\* A room task sends nothing that has been routed to a user.
LEMMA RoomTaskOwners ==
    ASSUME TablesTyped, Owners, NEW p, NEW S, RoomTask(p, S)
    PROVE  Owners'
<1>1. "room" \in Strands
    BY DEF Strands
<1>2. \A i \in DOMAIN S : Owned(S[i], bound)
    BY DEF RoomTask, Owned
<1>3. SessionsFresh => KnownOutbox'
    BY DEF RoomTask, Owners, KnownOutbox
<1>4. /\ queue["room"] # << >> /\ queue' = [queue EXCEPT !["room"] = Tail(queue["room"])]
      /\ sends' = [sends EXCEPT !["room"] = S]
      /\ UNCHANGED <<netVars, binding, bound, routeVars>>
    BY DEF RoomTask
<1> QED
    BY <1>1, <1>2, <1>3, <1>4, TaskOwners
-----------------------------------------------------------------------------
(* Routed users. *)

\* A step that leaves routes, logins and players alone keeps every routed
\* user a player.
LEMMA SamePlayers ==
    ASSUME RoutedUsersArePlayers, UNCHANGED <<routeVars, binding, players>>
    PROVE  RoutedUsersArePlayers'
BY DEF RoutedUsersArePlayers, routeVars

\* The login that binds a user stands between its callbacks.
LEMMA LoginBindPlayers ==
    ASSUME Types, RoutedUsersArePlayers, NEW p, Serves("login", p), LoginBind(p)
    PROVE  RoutedUsersArePlayers'
<1>1. TablesTyped /\ "login" \in Strands
    BY DEF Types, Strands
<1>2. p \in Packs /\ binding = NoPack
    BY <1>1, ServesEffect
<1>3. /\ p.req.name \in Users /\ Routes!Bind(p.req.name, p.session)
      /\ binding' = p /\ UNCHANGED roomVars
    BY <1>1, <1>2, LoginBindEffect
<1>4. \A v \in Users : u2s'[v] = IF v = p.req.name THEN p.session ELSE u2s[v]
    BY <1>1, <1>2, <1>3, BindTypes, PackFacts DEF TablesTyped
<1>5. binding' # NoPack /\ players' = players
    BY <1>2, <1>3, PackFacts DEF roomVars
<1> QED
    BY <1>2, <1>3, <1>4, <1>5 DEF RoutedUsersArePlayers

\* The second callback makes its user a player.
LEMMA LoginPlayerPlayers ==
    ASSUME Types, RoutedUsersArePlayers, LoginPlayer
    PROVE  RoutedUsersArePlayers'
<1>1. players' = players \cup {binding.req.name} /\ UNCHANGED routeVars
    BY LoginPlayerEffect
<1> QED
    BY <1>1 DEF RoutedUsersArePlayers, routeVars

-----------------------------------------------------------------------------
(* The order of the answers. *)

\* How many requests of each connection have been posted.
Posted == [c \in Conns |-> IF incoming[c] = NoPack THEN requests[c] ELSE requests[c] - 1]

\* Strand t has taken up request k of connection c, and none after it.
Done(k, c, t) ==
    /\ k \in Nat /\ k <= Posted[c]
    /\ \A i \in DOMAIN queue[t] : queue[t][i].conn = c => k < queue[t][i].id

IncomingOrder ==
    \A c \in Conns : incoming[c] # NoPack => incoming[c].conn = c /\ incoming[c].id = requests[c]

QueueOrder ==
    \A t \in Strands : \A j \in DOMAIN queue[t] :
        /\ queue[t][j].id <= Posted[queue[t][j].conn]
        /\ \A i \in DOMAIN queue[t] :
              i < j /\ queue[t][i].conn = queue[t][j].conn => queue[t][i].id < queue[t][j].id

\* A strand has one answer to send, and sends it first.
SendsOrder ==
    \A t \in Strands : \A i \in DOMAIN sends[t] :
        sends[t][i].msg.kind # "notice" =>
            /\ i = 1 /\ StrandOf(sends[t][i].msg.kind) = t
            /\ Done(sends[t][i].msg.id, sends[t][i].msg.conn, t)

BindingOrder == binding # NoPack => Done(binding.id, binding.conn, "login")

\* Answer k to connection c comes before the one strand t is preparing.
BeforeNext(k, c, t) ==
    /\ t = "login" /\ binding # NoPack /\ binding.conn = c => k < binding.id
    /\ \A i \in DOMAIN sends[t] :
          sends[t][i].msg.kind # "notice" /\ sends[t][i].msg.conn = c => k < sends[t][i].msg.id

OutboxOrder ==
    \A d \in Conns, t \in Strands, c \in Conns : \A i \in DOMAIN outbox[d] :
        AnswersRequest(outbox[d][i], c, t) =>
            Done(outbox[d][i].msg.id, c, t) /\ BeforeNext(outbox[d][i].msg.id, c, t)

Order ==
    IncomingOrder /\ QueueOrder /\ SendsOrder /\ BindingOrder /\ OutboxOrder /\ AnswersInOrder

\* What stands in the queues.
LEMMA QueuedFacts ==
    ASSUME TablesTyped
    PROVE  /\ \A t \in Strands : \A i \in DOMAIN queue[t] :
                 /\ i \in Nat /\ queue[t][i] \in Packs
                 /\ queue[t][i].conn \in Conns /\ queue[t][i].id \in Nat
           /\ \A t \in Strands : \A i \in DOMAIN sends[t] :
                 /\ i \in Nat /\ sends[t][i] \in Sendings
                 /\ sends[t][i].msg.conn \in Conns /\ sends[t][i].msg.id \in Nat
           /\ \A d \in Conns : \A i \in DOMAIN outbox[d] :
                 /\ i \in Nat /\ outbox[d][i] \in Sendings
                 /\ outbox[d][i].msg.conn \in Conns /\ outbox[d][i].msg.id \in Nat
           /\ binding # NoPack => binding.conn \in Conns /\ binding.id \in Nat
<1>1. ASSUME NEW m \in Sendings PROVE m.msg.conn \in Conns /\ m.msg.id \in Nat
    <2>1. m.msg \in Messages
        BY DEF Sendings
    <2> QED
        BY <2>1 DEF Messages
<1>2. ASSUME NEW S, NEW s \in Seq(S), NEW i \in DOMAIN s PROVE i \in Nat /\ s[i] \in S
    BY <1>2
<1>3. \A p \in Packs : p.conn \in Conns /\ p.id \in Nat
    BY PackFacts
<1>4. \A t \in Strands : queue[t] \in Seq(Packs) /\ sends[t] \in Seq(Sendings)
    BY DEF TablesTyped
<1>5. \A d \in Conns : outbox[d] \in Seq(Sendings)
    BY DEF TablesTyped
<1>6. ASSUME NEW t \in Strands, NEW i \in DOMAIN queue[t] PROVE i \in Nat /\ queue[t][i] \in Packs
    BY <1>2, <1>4
<1>7. ASSUME NEW t \in Strands, NEW i \in DOMAIN sends[t] PROVE i \in Nat /\ sends[t][i] \in Sendings
    BY <1>2, <1>4
<1>8. ASSUME NEW d \in Conns, NEW i \in DOMAIN outbox[d] PROVE i \in Nat /\ outbox[d][i] \in Sendings
    BY <1>2, <1>5
<1>9. binding # NoPack => binding \in Packs
    BY DEF TablesTyped
<1> QED
    BY <1>1, <1>3, <1>6, <1>7, <1>8, <1>9

\* A request that is received is not posted yet.
LEMMA ReceivePosted ==
    ASSUME TablesTyped, NEW c \in Conns, NEW req \in Requests, Receive(c, req)
    PROVE  \A d \in Conns : Posted'[d] = Posted[d]
<1>1. /\ incoming[c] = NoPack /\ requests' = [requests EXCEPT ![c] = requests[c] + 1]
      /\ \E p \in Packs : incoming' = [incoming EXCEPT ![c] = p]
    BY ReceiveEffect
<1>2. PICK p \in Packs : incoming' = [incoming EXCEPT ![c] = p]
    BY <1>1
<1>3. p # NoPack
    BY PackFacts
<1> SUFFICES ASSUME NEW d \in Conns PROVE Posted'[d] = Posted[d]
    OBVIOUS
<1>4. CASE d = c
    <2>1. requests[c] \in Nat /\ requests'[c] = requests[c] + 1 /\ incoming'[c] = p
        BY <1>1, <1>2 DEF TablesTyped
    <2> QED
        BY <1>1, <1>3, <1>4, <2>1 DEF Posted
<1>5. CASE d # c
    BY <1>1, <1>2, <1>5 DEF TablesTyped, Posted
<1> QED
    BY <1>4, <1>5

\* A request that arrives is its connection's latest.
LEMMA ReceiveOrder ==
    ASSUME TablesTyped, Order, NEW c \in Conns, NEW req \in Requests, Receive(c, req)
    PROVE  Order'
<1>1. /\ incoming[c] = NoPack /\ requests' = [requests EXCEPT ![c] = requests[c] + 1]
      /\ UNCHANGED <<accepted, sessions, taskVars, outbox, bound, routeVars, roomVars>>
    BY ReceiveEffect
<1>2. PICK p \in Packs : /\ incoming' = [incoming EXCEPT ![c] = p]
                         /\ p.conn = c /\ p.id = requests[c] + 1
    BY ReceiveEffect
<1>3. \A d \in Conns : Posted'[d] = Posted[d]
    BY ReceivePosted
<1>4. IncomingOrder'
    <2> SUFFICES ASSUME NEW d \in Conns, incoming'[d] # NoPack
                 PROVE  incoming'[d].conn = d /\ incoming'[d].id = requests'[d]
        BY DEF IncomingOrder
    <2>1. CASE d = c
        BY <1>1, <1>2, <2>1 DEF TablesTyped
    <2>2. CASE d # c
        BY <1>1, <1>2, <2>2 DEF TablesTyped, Order, IncomingOrder
    <2> QED
        BY <2>1, <2>2
<1>5. UNCHANGED <<queue, binding, sends, outbox>>
    BY <1>1 DEF taskVars
<1>6. \A k, t : \A d \in Conns : Done(k, d, t)' <=> Done(k, d, t)
    BY <1>3, <1>5 DEF Done
<1>7. QueueOrder'
    <2>1. \A t \in Strands : \A j \in DOMAIN queue[t] : queue[t][j].conn \in Conns
        BY QueuedFacts
    <2> QED
        BY <1>3, <1>5, <2>1 DEF Order, QueueOrder
<1>8. SendsOrder' /\ BindingOrder'
    <2>1. \A t \in Strands : \A i \in DOMAIN sends[t] : sends[t][i].msg.conn \in Conns
        BY QueuedFacts
    <2>2. binding # NoPack => binding.conn \in Conns
        BY PackFacts DEF TablesTyped
    <2> QED
        BY <1>5, <1>6, <2>1, <2>2 DEF Order, SendsOrder, BindingOrder
<1>9. OutboxOrder' /\ AnswersInOrder'
    BY <1>5, <1>6 DEF Order, OutboxOrder, AnswersInOrder, BeforeNext, AnswersRequest
<1> QED
    BY <1>4, <1>7, <1>8, <1>9 DEF Order

\* A request that is posted is put behind all its connection has posted, and
\* what is done stays done.
LEMMA PostAdds ==
    ASSUME TablesTyped, Order, NEW c \in Conns, Post(c),
           NEW t, NEW p, t = StrandOf(incoming[c].kind), p = incoming[c]
    PROVE  /\ t \in Strands /\ p \in Packs
           /\ incoming' = [incoming EXCEPT ![c] = NoPack]
           /\ UNCHANGED <<requests, binding, sends, outbox>>
           /\ p.conn = c /\ requests[c] \in Nat /\ p.id \in Nat
           /\ Posted[c] = p.id - 1 /\ Posted'[c] = p.id
           /\ \A d \in Conns : Posted'[d] = IF d = c THEN p.id ELSE Posted[d]
           /\ \A d \in Conns : Posted[d] \in Int /\ Posted[d] <= Posted'[d]
           /\ \A s \in Strands : \A i \in DOMAIN queue'[s] :
                 \/ /\ i \in DOMAIN queue[s] /\ queue'[s][i] = queue[s][i]
                    /\ s = t => i < Len(queue[t]) + 1
                 \/ i = Len(queue[t]) + 1 /\ s = t /\ queue'[s][i] = p
           /\ \A k, s : \A d \in Conns : s \in Strands /\ Done(k, d, s) => Done(k, d, s)'
<1>1. /\ t \in Strands /\ p \in Packs
      /\ queue' = [queue EXCEPT ![t] = Append(queue[t], p)]
      /\ incoming' = [incoming EXCEPT ![c] = NoPack]
      /\ UNCHANGED <<requests, binding, sends, outbox>>
    BY PostEffect
<1>2. p.conn = c /\ p.id = requests[c] /\ requests[c] \in Nat /\ p.id \in Nat /\ incoming[c] # NoPack
    BY <1>1, PackFacts DEF TablesTyped, Order, IncomingOrder
<1>3. /\ Posted[c] = p.id - 1 /\ Posted'[c] = p.id
      /\ \A d \in Conns : Posted'[d] = IF d = c THEN p.id ELSE Posted[d]
    BY <1>1, <1>2 DEF TablesTyped, Posted
<1>4. \A d \in Conns : Posted[d] \in Int /\ Posted[d] <= Posted'[d]
    <2>1. \A d \in Conns : requests[d] \in Nat
        BY DEF TablesTyped
    <2>2. \A d \in Conns : Posted[d] \in {requests[d], requests[d] - 1}
        BY DEF Posted
    <2>3. \A d \in Conns : Posted[d] \in Int
        BY <2>1, <2>2
    <2> QED
        BY <1>2, <1>3, <2>3
<1>5. \A s \in Strands : \A i \in DOMAIN queue'[s] :
          \/ /\ i \in DOMAIN queue[s] /\ queue'[s][i] = queue[s][i]
             /\ s = t => i < Len(queue[t]) + 1
          \/ i = Len(queue[t]) + 1 /\ s = t /\ queue'[s][i] = p
    <2> SUFFICES ASSUME NEW s \in Strands, NEW i \in DOMAIN queue'[s]
                 PROVE  \/ /\ i \in DOMAIN queue[s] /\ queue'[s][i] = queue[s][i]
                           /\ s = t => i < Len(queue[t]) + 1
                        \/ i = Len(queue[t]) + 1 /\ s = t /\ queue'[s][i] = p
        OBVIOUS
    <2>1. CASE s = t
        <3>1. queue'[s] = Append(queue[t], p) /\ queue[t] \in Seq(Packs)
            BY <1>1, <2>1 DEF TablesTyped
        <3> QED
            BY <1>1, <2>1, <3>1, AppendFacts
    <2>2. CASE s # t
        BY <1>1, <2>2 DEF TablesTyped
    <2> QED
        BY <2>1, <2>2
<1>6. \A k, s : \A d \in Conns : s \in Strands /\ Done(k, d, s) => Done(k, d, s)'
    <2> SUFFICES ASSUME NEW k, NEW s \in Strands, NEW d \in Conns, Done(k, d, s) PROVE Done(k, d, s)'
        OBVIOUS
    <2>1. k \in Nat /\ k <= Posted'[d]
        <3>1. k \in Nat /\ k <= Posted[d] /\ Posted'[d] \in Int
            BY <1>2, <1>3, <1>4 DEF Done
        <3> QED
            BY <1>4, <3>1
    <2>2. ASSUME NEW i \in DOMAIN queue'[s], queue'[s][i].conn = d PROVE k < queue'[s][i].id
        <3>1. CASE i \in DOMAIN queue[s] /\ queue'[s][i] = queue[s][i]
            BY <2>2, <3>1 DEF Done
        <3>2. CASE queue'[s][i] = p
            <4>1. d = c /\ k <= p.id - 1
                BY <1>2, <1>3, <2>2, <3>2 DEF Done
            <4> QED
                BY <1>2, <2>1, <3>2, <4>1
        <3> QED
            BY <1>5, <2>2, <3>1, <3>2
    <2> QED
        BY <2>1, <2>2 DEF Done
<1> QED
    BY <1>1, <1>2, <1>3, <1>4, <1>5, <1>6

\* A request that is posted keeps the order.
LEMMA PostOrder ==
    ASSUME TablesTyped, Order, NEW c \in Conns, Post(c)
    PROVE  Order'
<1> PICK t, p : t = StrandOf(incoming[c].kind) /\ p = incoming[c]
    OBVIOUS
<1>1. /\ t \in Strands /\ p \in Packs
      /\ incoming' = [incoming EXCEPT ![c] = NoPack]
      /\ UNCHANGED <<requests, binding, sends, outbox>>
    BY PostAdds
<1>2. p.conn = c /\ requests[c] \in Nat /\ p.id \in Nat
    BY PostAdds
<1>3. /\ Posted[c] = p.id - 1 /\ Posted'[c] = p.id
      /\ \A d \in Conns : Posted'[d] = IF d = c THEN p.id ELSE Posted[d]
    BY PostAdds
<1>4. \A d \in Conns : Posted[d] \in Int /\ Posted[d] <= Posted'[d]
    BY PostAdds
<1>5. \A s \in Strands : \A i \in DOMAIN queue'[s] :
          \/ /\ i \in DOMAIN queue[s] /\ queue'[s][i] = queue[s][i]
             /\ s = t => i < Len(queue[t]) + 1
          \/ i = Len(queue[t]) + 1 /\ s = t /\ queue'[s][i] = p
    BY PostAdds
<1>6. \A k, s : \A d \in Conns : s \in Strands /\ Done(k, d, s) => Done(k, d, s)'
    BY PostAdds
<1>7. IncomingOrder'
    BY <1>1 DEF TablesTyped, Order, IncomingOrder
<1>8. QueueOrder'
    <2> SUFFICES ASSUME NEW s \in Strands, NEW j \in DOMAIN queue'[s]
                 PROVE  /\ queue'[s][j].id <= Posted'[queue'[s][j].conn]
                        /\ \A i \in DOMAIN queue'[s] :
                              i < j /\ queue'[s][i].conn = queue'[s][j].conn
                                  => queue'[s][i].id < queue'[s][j].id
        BY DEF QueueOrder
    <2>0. Len(queue[t]) \in Nat /\ \A i \in DOMAIN queue'[s] : i \in Nat
        <3>1. queue[t] \in Seq(Packs)
            BY <1>1 DEF TablesTyped
        <3>2. Len(queue[t]) \in Nat
            BY <3>1
        <3>3. \A i \in DOMAIN queue[s] : i \in Nat
            BY QueuedFacts
        <3> QED
            BY <1>5, <3>2, <3>3
    <2>1. CASE j \in DOMAIN queue[s] /\ queue'[s][j] = queue[s][j] /\ (s = t => j < Len(queue[t]) + 1)
        <3>1. /\ queue[s][j].conn \in Conns /\ queue[s][j].id \in Nat
              /\ queue[s][j].id <= Posted[queue[s][j].conn]
            BY <2>1, QueuedFacts DEF Order, QueueOrder
        <3>2. queue[s][j].id <= Posted'[queue[s][j].conn]
            BY <1>3, <1>4, <3>1, <1>2
        <3>3. ASSUME NEW i \in DOMAIN queue'[s], i < j
              PROVE  i \in DOMAIN queue[s] /\ queue'[s][i] = queue[s][i]
            BY <1>5, <2>0, <2>1, <3>3
        <3> QED
            BY <2>1, <3>2, <3>3 DEF Order, QueueOrder
    <2>2. CASE j = Len(queue[t]) + 1 /\ s = t /\ queue'[s][j] = p
        <3>1. p.id <= Posted'[p.conn]
            BY <1>2, <1>3
        <3>2. ASSUME NEW i \in DOMAIN queue'[s], i < j, queue'[s][i].conn = p.conn
              PROVE  queue'[s][i].id < p.id
            <4>1. i \in DOMAIN queue[s] /\ queue'[s][i] = queue[s][i]
                BY <1>5, <2>0, <2>2, <3>2
            <4>2. queue[s][i].id <= Posted[c] /\ queue[s][i].id \in Nat
                BY <1>2, <3>2, <4>1, QueuedFacts DEF Order, QueueOrder
            <4> QED
                BY <1>2, <1>3, <4>1, <4>2
        <3> QED
            BY <2>2, <3>1, <3>2
    <2> QED
        BY <1>5, <2>1, <2>2
<1>9. SendsOrder' /\ BindingOrder' /\ OutboxOrder' /\ AnswersInOrder'
    <2>1. SendsOrder'
        BY <1>1, <1>6, QueuedFacts DEF Order, SendsOrder
    <2>2. BindingOrder'
        BY <1>1, <1>6, QueuedFacts DEF Order, BindingOrder, Strands
    <2>3. OutboxOrder'
        BY <1>1, <1>6 DEF Order, OutboxOrder, BeforeNext, AnswersRequest
    <2>4. AnswersInOrder'
        BY <1>1 DEF Order, AnswersInOrder, AnswersRequest
    <2> QED
        BY <2>1, <2>2, <2>3, <2>4
<1> QED
    BY <1>7, <1>8, <1>9 DEF Order

\* Routing changes no answer, and behind the first message there is none.
LEMMA RouteOrder ==
    ASSUME TablesTyped, Order, NEW t \in Strands, Route(t)
    PROVE  Order'
<1>1. /\ sends[t] # << >> /\ sends[t] \in Seq(Sendings) /\ 1 \in DOMAIN sends[t]
      /\ UNCHANGED <<requests, incoming, queue, binding, outbox>>
    BY RouteEffect, TailFacts DEF TablesTyped, netVars
<1>2. \A s \in Strands : \A i \in DOMAIN sends'[s] :
          \/ sends'[s][i].msg.kind = "notice"
          \/ i \in DOMAIN sends[s] /\ sends'[s][i].msg = sends[s][i].msg
    <2> SUFFICES ASSUME NEW s \in Strands, NEW i \in DOMAIN sends'[s]
                 PROVE  \/ sends'[s][i].msg.kind = "notice"
                        \/ i \in DOMAIN sends[s] /\ sends'[s][i].msg = sends[s][i].msg
        OBVIOUS
    <2>1. CASE s # t
        BY <1>1, <2>1, RouteEffect DEF TablesTyped
    <2>2. CASE s = t /\ sends' = [sends EXCEPT ![t] = Tail(sends[t])]
        <3>1. i \in Nat /\ 1 <= i /\ i + 1 \in DOMAIN sends[t] /\ sends'[s][i] = sends[t][i + 1]
            BY <1>1, <2>2, TailFacts DEF TablesTyped
        <3>2. i + 1 # 1
            BY <3>1
        <3> QED
            BY <3>1, <3>2 DEF Order, SendsOrder
    <2>3. CASE s = t /\ sends' # [sends EXCEPT ![t] = Tail(sends[t])]
        <3>1. PICK S \in Seq(Sendings) :
                /\ sends' = [sends EXCEPT ![t] = S] /\ DOMAIN S = DOMAIN sends[t]
                /\ S[1].msg = sends[t][1].msg
                /\ \A j \in DOMAIN S : j # 1 => S[j] = sends[t][j]
            BY <2>3, RouteEffect
        <3>2. sends'[s] = S
            BY <2>3, <3>1 DEF TablesTyped
        <3> QED
            BY <3>1, <3>2
    <2> QED
        BY <2>1, <2>2, <2>3
<1>3. \A k, d, s : Done(k, d, s)' <=> Done(k, d, s)
    BY <1>1 DEF Done, Posted
<1>4. IncomingOrder' /\ QueueOrder' /\ BindingOrder' /\ AnswersInOrder'
    BY <1>1, <1>3 DEF Order, IncomingOrder, QueueOrder, Posted, BindingOrder, AnswersInOrder,
                      AnswersRequest
<1>5. SendsOrder'
    BY <1>1, <1>2, <1>3 DEF Order, SendsOrder
<1>6. OutboxOrder'
    BY <1>1, <1>2, <1>3 DEF Order, OutboxOrder, BeforeNext, AnswersRequest
<1> QED
    BY <1>4, <1>5, <1>6 DEF Order

\* An answer that is delivered comes after those delivered before.
LEMMA DeliverOrder ==
    ASSUME Types, Order, NEW t \in Strands, Deliver(t)
    PROVE  Order'
<1> DEFINE m == sends[t][1]
           e == sessions[m.session]
<1>1. /\ TablesTyped /\ sends[t] # << >> /\ sends[t] \in Seq(Sendings) /\ m \in Sendings
      /\ 1 \in DOMAIN sends[t]
      /\ sends' = [sends EXCEPT ![t] = Tail(sends[t])]
      /\ UNCHANGED <<requests, incoming, queue, binding>>
    BY DeliverEffect, TailFacts DEF Types, TablesTyped, netVars
<1>2. \/ outbox' = outbox
      \/ e \in Conns /\ outbox' = [outbox EXCEPT ![e] = Append(outbox[e], m)]
    BY <1>1, DeliverEffect
<1>3. m.msg.kind # "notice" => StrandOf(m.msg.kind) = t /\ Done(m.msg.id, m.msg.conn, t)
    BY <1>1 DEF Order, SendsOrder
<1>4. \A d \in Conns, s \in Strands, c \in Conns : \A i \in DOMAIN outbox[d] :
          AnswersRequest(outbox[d][i], c, s) /\ AnswersRequest(m, c, s)
              => outbox[d][i].msg.id < m.msg.id
    BY <1>1, <1>3 DEF Order, OutboxOrder, BeforeNext, AnswersRequest
<1> HIDE DEF m, e
<1>5. \A s \in Strands : \A i \in DOMAIN sends'[s] :
          \/ sends'[s][i].msg.kind = "notice"
          \/ s # t /\ sends'[s] = sends[s]
    <2> SUFFICES ASSUME NEW i \in DOMAIN sends'[t] PROVE sends'[t][i].msg.kind = "notice"
        BY <1>1 DEF TablesTyped
    <2>1. i \in Nat /\ 1 <= i /\ i + 1 \in DOMAIN sends[t] /\ sends'[t][i] = sends[t][i + 1]
        BY <1>1, TailFacts DEF TablesTyped
    <2>2. i + 1 # 1
        BY <2>1
    <2> QED
        BY <2>1, <2>2 DEF Order, SendsOrder
<1>6. \A k, d, s : Done(k, d, s)' <=> Done(k, d, s)
    BY <1>1 DEF Done, Posted
<1>7. IncomingOrder' /\ QueueOrder' /\ BindingOrder'
    BY <1>1, <1>6 DEF Order, IncomingOrder, QueueOrder, Posted, BindingOrder
<1>8. SendsOrder'
    BY <1>5, <1>6 DEF Order, SendsOrder
<1>9. \A d \in Conns : \A i \in DOMAIN outbox'[d] :
          \/ /\ i \in DOMAIN outbox[d] /\ outbox'[d][i] = outbox[d][i]
             /\ d = e => i < Len(outbox[d]) + 1
          \/ /\ d = e /\ i = Len(outbox[d]) + 1 /\ outbox'[d][i] = m
    <2> SUFFICES ASSUME NEW d \in Conns, NEW i \in DOMAIN outbox'[d]
                 PROVE  \/ /\ i \in DOMAIN outbox[d] /\ outbox'[d][i] = outbox[d][i]
                           /\ d = e => i < Len(outbox[d]) + 1
                        \/ /\ d = e /\ i = Len(outbox[d]) + 1 /\ outbox'[d][i] = m
        OBVIOUS
    <2>1. outbox[d] \in Seq(Sendings)
        BY <1>1 DEF TablesTyped
    <2>2. CASE outbox' = outbox
        BY <2>1, <2>2
    <2>3. CASE outbox' # outbox /\ d = e
        <3>1. outbox'[d] = Append(outbox[d], m)
            BY <1>1, <1>2, <2>3 DEF TablesTyped
        <3> QED
            BY <1>1, <2>1, <2>3, <3>1, AppendFacts
    <2>4. CASE outbox' # outbox /\ d # e
        BY <1>1, <1>2, <2>4 DEF TablesTyped
    <2> QED
        BY <2>2, <2>3, <2>4
<1>10. OutboxOrder'
    <2>1. ASSUME NEW d \in Conns, NEW s \in Strands, NEW c \in Conns, NEW i \in DOMAIN outbox'[d],
                 AnswersRequest(outbox'[d][i], c, s), NEW k, k = outbox'[d][i].msg.id
          PROVE  Done(k, c, s)' /\ BeforeNext(k, c, s)'
        <3>1. CASE i \in DOMAIN outbox[d] /\ outbox'[d][i] = outbox[d][i]
            <4>1. Done(k, c, s) /\ BeforeNext(k, c, s)
                BY <2>1, <3>1 DEF Order, OutboxOrder
            <4> QED
                BY <1>1, <1>5, <1>6, <4>1 DEF BeforeNext
        <3>2. CASE outbox'[d][i] = m
            <4>1. m.msg.kind # "notice" /\ m.msg.conn = c /\ s = t /\ k = m.msg.id
                BY <1>3, <2>1, <3>2 DEF AnswersRequest
            <4>2. Done(k, c, s)'
                BY <1>3, <1>6, <4>1
            <4>3. s = "login" => binding' = NoPack
                BY <1>1, <4>1 DEF Types, BindingIsLogin
            <4>4. BeforeNext(k, c, s)'
                BY <1>5, <4>1, <4>3 DEF BeforeNext
            <4> QED
                BY <4>2, <4>4
        <3> QED
            BY <1>9, <2>1, <3>1, <3>2
    <2> QED
        BY <2>1 DEF OutboxOrder, AnswersRequest, Done, BeforeNext
<1>11. AnswersInOrder'
    <2> SUFFICES ASSUME NEW c \in Conns, NEW s \in Strands,
                        NEW i \in DOMAIN outbox'[c], NEW j \in DOMAIN outbox'[c], i < j,
                        AnswersRequest(outbox'[c][i], c, s), AnswersRequest(outbox'[c][j], c, s)
                 PROVE  outbox'[c][i].msg.id < outbox'[c][j].msg.id
        BY DEF AnswersInOrder, AnswersRequest
    <2>1. outbox[c] \in Seq(Sendings) /\ Len(outbox[c]) \in Nat
        BY <1>1 DEF TablesTyped
    <2>2. CASE j \in DOMAIN outbox[c] /\ outbox'[c][j] = outbox[c][j] /\ (c = e => j < Len(outbox[c]) + 1)
        <3>1. i \in DOMAIN outbox[c] /\ outbox'[c][i] = outbox[c][i]
            BY <1>9, <2>1, <2>2
        <3> QED
            BY <2>2, <3>1 DEF Order, AnswersInOrder
    <2>3. CASE c = e /\ j = Len(outbox[c]) + 1 /\ outbox'[c][j] = m
        <3>1. i \in DOMAIN outbox[c] /\ outbox'[c][i] = outbox[c][i]
            BY <1>9, <2>1, <2>3
        <3> QED
            BY <1>4, <2>3, <3>1
    <2> QED
        BY <1>9, <2>2, <2>3
<1> QED
    BY <1>7, <1>8, <1>10, <1>11 DEF Order

\* A task that is taken off its queue comes after all that was done before.
LEMMA TakeOrder ==
    ASSUME TablesTyped, Order, NEW t \in Strands, queue[t] # << >>,
           queue' = [queue EXCEPT ![t] = Tail(queue[t])], UNCHANGED <<requests, incoming>>
    PROVE  /\ IncomingOrder' /\ QueueOrder'
           /\ \A k, d, s : s \in Strands /\ Done(k, d, s) => Done(k, d, s)'
           /\ \A k, d : k = queue[t][1].id /\ d = queue[t][1].conn => Done(k, d, t)'
           /\ \A k : Done(k, queue[t][1].conn, t) => k < queue[t][1].id
<1>1. /\ queue[t] \in Seq(Packs) /\ 1 \in DOMAIN queue[t] /\ queue'[t] = Tail(queue[t])
      /\ Posted' = Posted
    BY TailFacts DEF TablesTyped, Posted
<1>2. \A i \in DOMAIN queue'[t] :
          i \in Nat /\ 1 < i + 1 /\ i + 1 \in DOMAIN queue[t] /\ queue'[t][i] = queue[t][i + 1]
    <2>1. \A i \in DOMAIN Tail(queue[t]) : /\ i \in Nat /\ 1 <= i /\ i + 1 \in DOMAIN queue[t]
                                          /\ Tail(queue[t])[i] = queue[t][i + 1]
        BY <1>1, TailFacts
    <2>2. \A i \in Nat : 1 <= i => 1 < i + 1
        OBVIOUS
    <2> QED
        BY <1>1, <2>1, <2>2
<1>3. \A s \in Strands : s # t => queue'[s] = queue[s]
    BY DEF TablesTyped
<1>4. IncomingOrder'
    BY DEF Order, IncomingOrder
<1>5. QueueOrder'
    <2> SUFFICES ASSUME NEW s \in Strands, NEW j \in DOMAIN queue'[s]
                 PROVE  /\ queue'[s][j].id <= Posted[queue'[s][j].conn]
                        /\ \A i \in DOMAIN queue'[s] :
                              i < j /\ queue'[s][i].conn = queue'[s][j].conn
                                  => queue'[s][i].id < queue'[s][j].id
        BY <1>1 DEF QueueOrder
    <2>1. CASE s = t
        <3>1. /\ j \in Nat /\ j + 1 \in DOMAIN queue[t] /\ queue'[t][j] = queue[t][j + 1]
            BY <1>2, <2>1
        <3>2. ASSUME NEW i \in DOMAIN queue'[t], i < j
              PROVE  i + 1 \in DOMAIN queue[t] /\ queue'[t][i] = queue[t][i + 1] /\ i + 1 < j + 1
            BY <1>2, <3>1, <3>2
        <3> QED
            BY <2>1, <3>1, <3>2 DEF Order, QueueOrder
    <2>2. CASE s # t
        BY <1>3, <2>2 DEF Order, QueueOrder
    <2> QED
        BY <2>1, <2>2
<1>6. ASSUME NEW k, NEW d, NEW s \in Strands, Done(k, d, s) PROVE Done(k, d, s)'
    <2>1. \A i \in DOMAIN queue'[s] : \E j \in DOMAIN queue[s] : queue'[s][i] = queue[s][j]
        BY <1>2, <1>3
    <2> QED
        BY <1>1, <1>6, <2>1 DEF Done
<1>7. ASSUME NEW k, NEW d, k = queue[t][1].id, d = queue[t][1].conn PROVE Done(k, d, t)'
    <2>1. k \in Nat /\ k <= Posted'[d]
        BY <1>1, <1>7, QueuedFacts DEF Order, QueueOrder
    <2>2. \A i \in DOMAIN queue'[t] : queue'[t][i].conn = d => k < queue'[t][i].id
        BY <1>1, <1>2, <1>7 DEF Order, QueueOrder
    <2> QED
        BY <2>1, <2>2 DEF Done
<1>8. \A k : Done(k, queue[t][1].conn, t) => k < queue[t][1].id
    BY <1>1 DEF Done
<1> QED
    BY <1>4, <1>5, <1>6, <1>7, <1>8

\* Connections that come and go leave requests and answers as they are.
LEMMA ConnectionOrder ==
    ASSUME Order, Accept \/ \E c \in Conns : Disconnect(c)
    PROVE  Order'
<1>1. UNCHANGED <<requests, incoming, queue, binding, sends, outbox>>
    BY DEF Accept, Disconnect, taskVars
<1>2. Posted' = Posted /\ \A k, d, s : Done(k, d, s)' <=> Done(k, d, s)
    BY <1>1 DEF Posted, Done
<1>3. IncomingOrder' /\ QueueOrder' /\ AnswersInOrder'
    BY <1>1, <1>2 DEF Order, IncomingOrder, QueueOrder, AnswersInOrder, AnswersRequest
<1>4. SendsOrder' /\ BindingOrder'
    BY <1>1, <1>2 DEF Order, SendsOrder, BindingOrder
<1>5. OutboxOrder'
    BY <1>1, <1>2 DEF Order, OutboxOrder, BeforeNext, AnswersRequest
<1> QED
    BY <1>3, <1>4, <1>5 DEF Order

\* A login that is bound is answered next, after all that was answered.
LEMMA LoginBindOrder ==
    ASSUME Types, Order, NEW p, Serves("login", p), LoginBind(p)
    PROVE  Order'
<1>1. TablesTyped /\ "login" \in Strands
    BY DEF Types, Strands
<1>2. /\ queue["login"] # << >> /\ p = queue["login"][1] /\ p \in Packs
      /\ sends["login"] = << >> /\ binding = NoPack
      /\ queue' = [queue EXCEPT !["login"] = Tail(queue["login"])]
    BY <1>1, ServesEffect
<1>3. binding' = p /\ UNCHANGED <<requests, incoming, sends, outbox>>
    BY DEF LoginBind, netVars
<1>4. /\ IncomingOrder' /\ QueueOrder'
      /\ \A k, d, s : s \in Strands /\ Done(k, d, s) => Done(k, d, s)'
      /\ \A k, d : k = p.id /\ d = p.conn => Done(k, d, "login")'
      /\ \A k : Done(k, p.conn, "login") => k < p.id
    BY <1>1, <1>2, <1>3, TakeOrder
<1>5. SendsOrder'
    BY <1>3, <1>4 DEF Order, SendsOrder
<1>6. BindingOrder'
    BY <1>3, <1>4 DEF BindingOrder, Done
<1>7. OutboxOrder'
    <2>1. ASSUME NEW d \in Conns, NEW s \in Strands, NEW c \in Conns, NEW i \in DOMAIN outbox[d],
                 AnswersRequest(outbox[d][i], c, s), NEW k, k = outbox[d][i].msg.id
          PROVE  Done(k, c, s)' /\ BeforeNext(k, c, s)'
        <3>1. Done(k, c, s) /\ BeforeNext(k, c, s)
            BY <2>1 DEF Order, OutboxOrder
        <3>2. s = "login" /\ p.conn = c => k < p.id
            BY <1>4, <3>1
        <3> QED
            BY <1>3, <1>4, <3>1, <3>2 DEF BeforeNext
    <2> QED
        BY <1>3, <2>1 DEF OutboxOrder, AnswersRequest, Done, BeforeNext
<1>8. AnswersInOrder'
    BY <1>3 DEF Order, AnswersInOrder, AnswersRequest
<1> QED
    BY <1>4, <1>5, <1>6, <1>7, <1>8 DEF Order

\* A logout is not answered.
LEMMA LogoutOrder ==
    ASSUME Types, Order, NEW p, Serves("login", p), Logout(p)
    PROVE  Order'
<1>1. TablesTyped /\ "login" \in Strands
    BY DEF Types, Strands
<1>2. queue["login"] # << >> /\ queue' = [queue EXCEPT !["login"] = Tail(queue["login"])]
    BY <1>1, ServesEffect
<1>3. UNCHANGED <<requests, incoming, binding, sends, outbox>>
    BY DEF Logout, netVars
<1>4. /\ IncomingOrder' /\ QueueOrder'
      /\ \A k, d, s : s \in Strands /\ Done(k, d, s) => Done(k, d, s)'
    BY <1>1, <1>2, <1>3, TakeOrder
<1>5. SendsOrder' /\ BindingOrder'
    BY <1>1, <1>3, <1>4 DEF Order, SendsOrder, BindingOrder
<1>6. OutboxOrder'
    BY <1>3, <1>4 DEF Order, OutboxOrder, BeforeNext, AnswersRequest
<1>7. AnswersInOrder'
    BY <1>3 DEF Order, AnswersInOrder, AnswersRequest
<1> QED
    BY <1>4, <1>5, <1>6, <1>7 DEF Order

\* The answer to a login is the one its binding stood for.
LEMMA LoginPlayerOrder ==
    ASSUME Types, Order, LoginPlayer
    PROVE  Order'
<1>1. TablesTyped /\ "login" \in Strands /\ binding # NoPack
    BY DEF Types, Strands, LoginPlayer
<1>2. PICK m \in Sendings : /\ sends' = [sends EXCEPT !["login"] = <<m>>]
                            /\ m.msg.kind = "login"
                            /\ m.msg.conn = binding.conn /\ m.msg.id = binding.id
    BY LoginPlayerEffect
<1>3. binding' = NoPack /\ UNCHANGED <<requests, incoming, queue, outbox>>
    BY LoginPlayerEffect DEF netVars
<1>4. Posted' = Posted /\ \A k, d, s : Done(k, d, s)' <=> Done(k, d, s)
    BY <1>3 DEF Posted, Done
<1>5. Done(m.msg.id, m.msg.conn, "login")
    BY <1>1, <1>2 DEF Order, BindingOrder
<1>6. \A s \in Strands : \A i \in DOMAIN sends'[s] :
          \/ s = "login" /\ i = 1 /\ sends'[s][i] = m
          \/ s # "login" /\ sends'[s] = sends[s]
    BY <1>1, <1>2 DEF TablesTyped
<1>7. IncomingOrder' /\ QueueOrder' /\ BindingOrder' /\ AnswersInOrder'
    BY <1>3, <1>4 DEF Order, IncomingOrder, QueueOrder, BindingOrder, AnswersInOrder, AnswersRequest
<1>8. SendsOrder'
    <2>1. StrandOf(m.msg.kind) = "login"
        BY <1>2 DEF StrandOf
    <2> QED
        BY <1>4, <1>5, <1>6, <2>1 DEF Order, SendsOrder
<1>9. OutboxOrder'
    <2>1. ASSUME NEW d \in Conns, NEW s \in Strands, NEW c \in Conns, NEW i \in DOMAIN outbox[d],
                 AnswersRequest(outbox[d][i], c, s), NEW k, k = outbox[d][i].msg.id
          PROVE  Done(k, c, s)' /\ BeforeNext(k, c, s)'
        <3>1. Done(k, c, s) /\ BeforeNext(k, c, s)
            BY <2>1 DEF Order, OutboxOrder
        <3>2. s = "login" /\ m.msg.conn = c => k < m.msg.id
            BY <1>1, <1>2, <3>1 DEF BeforeNext
        <3> QED
            BY <1>3, <1>4, <1>6, <3>1, <3>2 DEF BeforeNext
    <2> QED
        BY <1>3, <2>1 DEF OutboxOrder, AnswersRequest, Done, BeforeNext
<1> QED
    BY <1>7, <1>8, <1>9 DEF Order

\* The answer to a room request comes after all that was answered.
LEMMA RoomTaskOrder ==
    ASSUME Types, Order, NEW p, NEW S, RoomTask(p, S)
    PROVE  Order'
<1>1. TablesTyped /\ "room" \in Strands /\ "room" # "login"
    BY DEF Types, Strands
<1>2. /\ queue["room"] # << >> /\ p = queue["room"][1] /\ sends["room"] = << >>
      /\ queue' = [queue EXCEPT !["room"] = Tail(queue["room"])]
      /\ sends' = [sends EXCEPT !["room"] = S]
      /\ UNCHANGED <<requests, incoming, binding, outbox>>
    BY <1>1, TailFacts DEF RoomTask, netVars, TablesTyped
<1>3. \A i \in DOMAIN S : S[i].msg.kind # "notice" =>
          i = 1 /\ S[i].msg.conn = p.conn /\ S[i].msg.id = p.id /\ StrandOf(S[i].msg.kind) = "room"
    BY DEF RoomTask
<1>4. /\ IncomingOrder' /\ QueueOrder'
      /\ \A k, d, s : s \in Strands /\ Done(k, d, s) => Done(k, d, s)'
      /\ \A k, d : k = p.id /\ d = p.conn => Done(k, d, "room")'
      /\ \A k : Done(k, p.conn, "room") => k < p.id
    BY <1>1, <1>2, TakeOrder
<1>5. \A s \in Strands : sends'[s] = IF s = "room" THEN S ELSE sends[s]
    BY <1>1, <1>2 DEF TablesTyped
<1>6. SendsOrder'
    <2>1. ASSUME NEW s \in Strands, NEW i \in DOMAIN sends'[s], sends'[s][i].msg.kind # "notice",
                 NEW k, NEW d, k = sends'[s][i].msg.id, d = sends'[s][i].msg.conn
          PROVE  i = 1 /\ StrandOf(sends'[s][i].msg.kind) = s /\ Done(k, d, s)'
        <3>1. CASE s = "room"
            BY <1>3, <1>4, <1>5, <2>1, <3>1
        <3>2. CASE s # "room"
            BY <1>4, <1>5, <2>1, <3>2 DEF Order, SendsOrder
        <3> QED
            BY <3>1, <3>2
    <2> QED
        BY <2>1 DEF SendsOrder, Done
<1>7. BindingOrder' /\ AnswersInOrder'
    <2>1. "login" \in Strands
        BY DEF Strands
    <2> QED
        BY <1>2, <1>4, <2>1 DEF Order, BindingOrder, AnswersInOrder, AnswersRequest
<1>8. OutboxOrder'
    <2>1. ASSUME NEW d \in Conns, NEW s \in Strands, NEW c \in Conns, NEW i \in DOMAIN outbox[d],
                 AnswersRequest(outbox[d][i], c, s), NEW k, k = outbox[d][i].msg.id
          PROVE  Done(k, c, s)' /\ BeforeNext(k, c, s)'
        <3>1. Done(k, c, s) /\ BeforeNext(k, c, s)
            BY <2>1 DEF Order, OutboxOrder
        <3>2. s = "room" /\ p.conn = c => k < p.id
            BY <1>4, <3>1
        <3>3. \A j \in DOMAIN sends'[s] :
                  sends'[s][j].msg.kind # "notice" /\ sends'[s][j].msg.conn = c
                      => k < sends'[s][j].msg.id
            BY <1>3, <1>5, <3>1, <3>2 DEF BeforeNext
        <3> QED
            BY <1>2, <1>4, <3>1, <3>3 DEF BeforeNext
    <2> QED
        BY <1>2, <2>1 DEF OutboxOrder, AnswersRequest, Done, BeforeNext
<1> QED
    BY <1>4, <1>6, <1>7, <1>8 DEF Order
-----------------------------------------------------------------------------
(* The invariant and what follows from it. *)

Inv == Types /\ Owners /\ RoutedUsersArePlayers /\ Order

\* The server starts with nothing.
LEMMA InitInv == Init => Inv
<1> SUFFICES ASSUME Init PROVE Inv
    OBVIOUS
<1>1. /\ accepted = 0 /\ sessions = [s \in {} |-> 0] /\ requests = [c \in Conns |-> 0]
      /\ incoming = [c \in Conns |-> NoPack] /\ queue = [t \in Strands |-> << >>]
      /\ binding = NoPack /\ sends = [t \in Strands |-> << >>]
      /\ outbox = [c \in Conns |-> << >>] /\ bound = {}
    BY DEF Init
<1>2. Routes!TypeOK /\ \A u \in Users : u2s[u] = NoSession
    BY DEF Init, Routes!Init, Routes!TypeOK
<1>3. Rooms!TypeOK
    <2>1. ConnLimit * RequestLimit + 1 \in Nat /\ 0 \in 0 .. ConnLimit * RequestLimit + 1
        <3>1. ConnLimit * RequestLimit \in Nat
            BY BoundsAssumption
        <3> DEFINE n == ConnLimit * RequestLimit
        <3> HIDE DEF n
        <3>2. n \in Nat => n + 1 \in Nat /\ 0 \in 0 .. n + 1
            OBVIOUS
        <3> QED
            BY <3>1, <3>2 DEF n
    <2>2. Rooms!NoRoom \in Rooms!RoomIds
        <3> DEFINE n == ConnLimit * RequestLimit + 2
        <3>1. n \in Nat \ {0}
            <4>1. ConnLimit * RequestLimit \in Nat
                BY BoundsAssumption
            <4> QED
                BY <4>1
        <3> HIDE DEF n
        <3>2. 0 \in 0 .. n - 1
            BY <3>1
        <3> QED
            BY <3>2 DEF n, Rooms!RoomIds, Rooms!NoRoom
    <2>3. /\ DOMAIN rooms = {} /\ DOMAIN codeMap = {} /\ created = 0 /\ players = {}
          /\ currentGroup = [u \in Users |-> Rooms!NoRoom] /\ ready = [u \in Users |-> FALSE]
        BY DEF Init, Rooms!Init
    <2>4. currentGroup \in [Users -> Rooms!RoomIds]
        BY <2>2, <2>3
    <2>5. ready \in [Users -> BOOLEAN]
        BY <2>3
    <2>6. created \in 0 .. ConnLimit * RequestLimit + 1
        BY <2>1, <2>3
    <2> QED
        BY <2>3, <2>4, <2>5, <2>6 DEF Rooms!TypeOK
<1>4. TablesTyped
    <2>1. Live = {} /\ DOMAIN sessions = {}
        BY <1>1 DEF Live
    <2>2. 0 \in 0 .. ConnLimit /\ 0 \in 0 .. RequestLimit
        BY BoundsAssumption
    <2> QED
        BY <1>1, <1>2, <1>3, <2>1, <2>2 DEF TablesTyped
<1>5. Types
    BY <1>1, <1>4 DEF Types, BindingIsLogin
<1>6. Owners
    <2>1. \A s \in Sessions : s2u[s] = NoUser
        BY DEF Init, Routes!Init
    <2> QED
        BY <1>1, <1>2, <2>1 DEF Owners, KnownSessions, KnownRoutes, KnownTasks, KnownSends, KnownOutbox
<1>7. RoutedUsersArePlayers
    BY <1>2 DEF RoutedUsersArePlayers
<1>8. Order
    BY <1>1 DEF Order, IncomingOrder, QueueOrder, SendsOrder, BindingOrder, OutboxOrder, AnswersInOrder
<1> QED
    BY <1>5, <1>6, <1>7, <1>8 DEF Inv

\* A task of the room strand, whichever it is.
LEMMA RoomStrandTask ==
    ASSUME Types, NEW p, Serves("room", p),
           RoomCreate(p) \/ RoomJoin(p) \/ RoomJoinRefused(p) \/ RoomLeave(p) \/ RoomList(p)
    PROVE  Rooms!TypeOK' /\ players' = players /\ \E S : RoomTask(p, S)
<1>1. TablesTyped /\ p \in Packs
    BY ServesEffect DEF Types, Strands
<1> QED
    BY <1>1, RoomCreateTask, RoomJoinTask, OtherRoomTasks

\* Steps of the login strand.
LEMMA LoginStrandInv ==
    ASSUME Inv, LoginStrand
    PROVE  Inv'
<1>1. TablesTyped /\ Types /\ Owners /\ RoutedUsersArePlayers /\ Order /\ "login" \in Strands
    BY DEF Inv, Types, Strands
<1>2. CASE \E p : Serves("login", p) /\ LoginBind(p)
    BY <1>1, <1>2, LoginBindTypes, LoginBindOwners, LoginBindPlayers, LoginBindOrder DEF Inv
<1>3. CASE \E p : Serves("login", p) /\ Logout(p)
    <2>1. UNCHANGED <<routeVars, binding, players>>
        BY <1>3 DEF Logout, roomVars
    <2> QED
        BY <1>1, <1>3, <2>1, LogoutTypes, LoginTaskOwners, SamePlayers, LogoutOrder DEF Inv
<1>4. CASE LoginPlayer
    BY <1>1, <1>4, LoginPlayerTypes, LoginTaskOwners, LoginPlayerPlayers, LoginPlayerOrder DEF Inv
<1>5. CASE Deliver("login")
    <2>1. UNCHANGED <<routeVars, binding, players>>
        BY <1>5 DEF Deliver, roomVars
    <2> QED
        BY <1>1, <1>5, <2>1, DeliverTypes, DeliverOwners, SamePlayers, DeliverOrder DEF Inv
<1> QED
    BY <1>2, <1>3, <1>4, <1>5 DEF LoginStrand

\* Steps of the room strand.
LEMMA RoomStrandInv ==
    ASSUME Inv, RoomStrand
    PROVE  Inv'
<1>1. TablesTyped /\ Types /\ Owners /\ RoutedUsersArePlayers /\ Order /\ "room" \in Strands
    BY DEF Inv, Types, Strands
<1>2. ASSUME NEW p, Serves("room", p),
             RoomCreate(p) \/ RoomJoin(p) \/ RoomJoinRefused(p) \/ RoomLeave(p) \/ RoomList(p)
      PROVE  Inv'
    <2>1. Rooms!TypeOK' /\ players' = players /\ \E S : RoomTask(p, S)
        BY <1>1, <1>2, RoomStrandTask
    <2>2. PICK S : RoomTask(p, S)
        BY <2>1
    <2>3. UNCHANGED <<routeVars, binding, players>>
        BY <2>1, <2>2 DEF RoomTask
    <2> QED
        BY <1>1, <2>1, <2>2, <2>3, RoomTaskTypes, RoomTaskOwners, SamePlayers, RoomTaskOrder DEF Inv
<1>3. CASE Route("room")
    <2>1. UNCHANGED <<routeVars, binding, players>>
        BY <1>3 DEF Route, roomVars
    <2> QED
        BY <1>1, <1>3, <2>1, RouteTypes, RouteOwners, SamePlayers, RouteOrder DEF Inv
<1>4. CASE Deliver("room")
    <2>1. UNCHANGED <<routeVars, binding, players>>
        BY <1>4 DEF Deliver, roomVars
    <2> QED
        BY <1>1, <1>4, <2>1, DeliverTypes, DeliverOwners, SamePlayers, DeliverOrder DEF Inv
<1> QED
    BY <1>2, <1>3, <1>4 DEF RoomStrand

\* Steps of a connection.
LEMMA ConnectionInv ==
    ASSUME Inv,
           \/ Accept
           \/ \E c \in Conns :
                 Disconnect(c) \/ Post(c) \/ \E req \in Requests : Receive(c, req)
    PROVE  Inv'
<1>1. TablesTyped /\ Types /\ Owners /\ RoutedUsersArePlayers /\ Order
    BY DEF Inv, Types
<1>2. UNCHANGED <<routeVars, binding, players>>
    BY DEF Accept, Disconnect, Post, Receive, roomVars, taskVars
<1>3. RoutedUsersArePlayers'
    BY <1>1, <1>2, SamePlayers
<1>4. CASE Accept
    BY <1>1, <1>3, <1>4, AcceptTypes, ConnectionOwners, ConnectionOrder DEF Inv
<1>5. ASSUME NEW c \in Conns, Disconnect(c) PROVE Inv'
    BY <1>1, <1>3, <1>5, DisconnectTypes, ConnectionOwners, ConnectionOrder DEF Inv
<1>6. ASSUME NEW c \in Conns, Post(c) PROVE Inv'
    BY <1>1, <1>3, <1>6, PostTypes, PostOwners, PostOrder DEF Inv
<1>7. ASSUME NEW c \in Conns, NEW req \in Requests, Receive(c, req) PROVE Inv'
    BY <1>1, <1>3, <1>7, ReceiveTypes, ReceiveOwners, ReceiveOrder DEF Inv
<1> QED
    BY <1>4, <1>5, <1>6, <1>7

\* A step of the server, or of something else.
LEMMA NextInv == Inv /\ [Serving]_served => Inv'
<1> SUFFICES ASSUME Inv, [Serving]_served PROVE Inv'
    OBVIOUS
<1>1. CASE Serving
    BY <1>1, ConnectionInv, LoginStrandInv, RoomStrandInv DEF Serving
<1>2. CASE UNCHANGED served
    <2>1. UNCHANGED <<netVars, queue, binding, sends, outbox, bound, routeVars, roomVars>>
        BY <1>2 DEF served, taskVars
    <2>2. Types'
        <3>1. Live' = Live
            BY <2>1 DEF Live, netVars
        <3> QED
            BY <2>1, <3>1, SameTables DEF Inv, Types, TablesTyped, BindingIsLogin, netVars
    <2>3. Owners'
        BY <2>1 DEF Inv, Owners, SessionsFresh, KnownSessions, KnownRoutes, KnownTasks, Known,
                    KnownSends, Owned, KnownOutbox, netVars, routeVars
    <2>4. RoutedUsersArePlayers'
        BY <2>1, SamePlayers DEF Inv, roomVars
    <2>5. Order'
        <3>1. Posted' = Posted /\ \A k, d, s : Done(k, d, s)' <=> Done(k, d, s)
            BY <2>1 DEF Posted, Done, netVars
        <3> QED
            BY <2>1, <3>1 DEF Inv, Order, IncomingOrder, QueueOrder, SendsOrder, BindingOrder,
                              OutboxOrder, BeforeNext, AnswersInOrder, AnswersRequest, netVars
    <2> QED
        BY <2>2, <2>3, <2>4, <2>5 DEF Inv
<1> QED
    BY <1>1, <1>2

\* A step of the process serves something, or leaves everything as it was:
\* what the end of the process takes away is not looked at any more.
LEMMA StepServes == [Next]_vars => [Serving]_served
BY DEF Next, SerializeThrows, vars

\* The invariant holds of every run of the server.
LEMMA InvHolds == Spec => []Inv
BY InitInv, NextInv, StepServes, PTL DEF Spec

\* The server's tables, queues and messages are what the code takes them for.
THEOREM TypeCorrect == Spec => []TypeOK
<1>1. Inv => TablesTyped
    BY DEF Inv, Types
<1>2. Init => up \in BOOLEAN
    BY DEF Init
<1>3. up \in BOOLEAN /\ [Next]_vars => (up \in BOOLEAN)'
    BY DEF Next, SerializeThrows, vars
<1>4. TablesTyped /\ up \in BOOLEAN => TypeOK
    BY DEF TypeOK
<1> QED
    BY <1>1, <1>2, <1>3, <1>4, InvHolds, PTL DEF Spec

\* Until session ids are used again, a message for a user is written only to
\* a connection that logged in as that user.
THEOREM DeliveredHolds == Spec => []DeliveredToOwner
<1>1. Inv => DeliveredToOwner
    BY DEF Inv, Owners, KnownOutbox, DeliveredToOwner
<1> QED
    BY <1>1, InvHolds, PTL

\* Until session ids are used again, a posted request comes from its own
\* connection's user.
THEOREM SenderHolds == Spec => []SenderLoggedIn
<1>1. Inv => SenderLoggedIn
    BY DEF Inv, Owners, KnownTasks, Known, SenderLoggedIn, ToSet
<1> QED
    BY <1>1, InvHolds, PTL

\* A routed user has a player, or is in the middle of a login.
THEOREM PlayersHold == Spec => []RoutedUsersArePlayers
<1>1. Inv => RoutedUsersArePlayers
    BY DEF Inv
<1> QED
    BY <1>1, InvHolds, PTL

\* The answers of a strand reach a connection in the order of its requests.
THEOREM AnswersHold == Spec => []AnswersInOrder
<1>1. Inv => AnswersInOrder
    BY DEF Inv, Order
<1> QED
    BY <1>1, InvHolds, PTL

-----------------------------------------------------------------------------
(* The tables inside the server.                                            *)

\* The routes move only when a login is bound, as the user table's own handler
\* does it.
LEMMA RoutesMove ==
    ASSUME Inv, [Serving]_served
    PROVE  \/ UNCHANGED routeVars
           \/ \E u \in Users, s \in Sessions : Routes!onUserLogin("SUCCESS", u, s)
<1>1. TablesTyped /\ Types
    BY DEF Inv, Types
<1>2. CASE \E p : Serves("login", p) /\ LoginBind(p)
    <2>1. PICK p : Serves("login", p) /\ LoginBind(p)
        BY <1>2
    <2>2. p \in Packs
        BY <1>1, <2>1, ServesEffect DEF Strands
    <2>3. Routes!onUserLogin("SUCCESS", p.req.name, p.session)
        BY <2>1 DEF LoginBind
    <2>4. p.req.name \in Users /\ p.session \in Sessions
        BY <2>1, <2>2, PackFacts DEF LoginBind
    <2> QED
        BY <2>3, <2>4
<1>3. ASSUME LoginStrand, ~\E p : Serves("login", p) /\ LoginBind(p)
      PROVE  UNCHANGED routeVars
    BY <1>3 DEF LoginStrand, Logout, LoginPlayer, Deliver
<1>4. RoomStrand => UNCHANGED routeVars
    BY DEF RoomStrand, RoomCreate, RoomJoin, RoomJoinRefused, RoomLeave, RoomList, Route, Deliver
<1>5. ASSUME \/ Accept
             \/ \E c \in Conns :
                   Disconnect(c) \/ Post(c) \/ \E req \in Requests : Receive(c, req)
      PROVE  UNCHANGED routeVars
    BY <1>5 DEF Accept, Disconnect, Post, Receive
<1>6. UNCHANGED served => UNCHANGED routeVars
    BY DEF served
<1> QED
    BY <1>2, <1>3, <1>4, <1>5, <1>6 DEF Serving

LEMMA RoutesStep ==
    ASSUME Inv, [Serving]_served
    PROVE  [Routes!Next]_(Routes!vars)
<1>1. CASE UNCHANGED routeVars
    BY <1>1 DEF routeVars, Routes!vars
<1>2. CASE \E u \in Users, s \in Sessions : Routes!onUserLogin("SUCCESS", u, s)
    <2>1. "SUCCESS" \in Routes!LoginResults
        BY DEF Routes!LoginResults
    <2> QED
        BY <1>2, <2>1 DEF Routes!Next
<1> QED
    BY <1>1, <1>2, RoutesMove

\* The calls of the room manager that the server makes.
RoomCall ==
    \/ \E u \in Users : Rooms!PlayerLogin(u)
    \/ \E u \in Users \cup {NoUser}, code \in Codes : Rooms!CreateRoom(u, Text, Text, 4, code)
    \/ \E id \in DOMAIN rooms, u \in Users \cup {NoUser} : Rooms!JoinRoom(id, u)

\* Rooms and players change only in calls of the room manager.
LEMMA RoomsMove ==
    ASSUME Inv, [Serving]_served
    PROVE  UNCHANGED roomVars \/ RoomCall
<1>1. TablesTyped /\ Types
    BY DEF Inv, Types
<1>2. CASE LoginPlayer
    <2>1. binding.req.name \in Users
        BY <1>1, <1>2, LoginPlayerEffect
    <2>2. Rooms!PlayerLogin(binding.req.name)
        BY <1>2 DEF LoginPlayer
    <2> QED
        BY <2>1, <2>2 DEF RoomCall
<1>3. ASSUME LoginStrand, ~LoginPlayer
      PROVE  UNCHANGED roomVars
    BY <1>3 DEF LoginStrand, LoginBind, Logout, Deliver
<1>4. ASSUME NEW p, Serves("room", p), RoomCreate(p)
      PROVE  RoomCall
    <2>1. p.sender \in Users \cup {NoUser}
        BY <1>1, <1>4, ServesEffect, PackFacts DEF Strands
    <2>2. PICK code \in Codes : Rooms!CreateRoom(p.sender, Text, Text, 4, code)
        BY <1>4 DEF RoomCreate
    <2> QED
        BY <2>1, <2>2 DEF RoomCall
<1>5. ASSUME NEW p, Serves("room", p), RoomJoin(p)
      PROVE  RoomCall
    <2> DEFINE id == codeMap[p.req.code]
    <2>1. p.sender \in Users \cup {NoUser}
        BY <1>1, <1>5, ServesEffect, PackFacts DEF Strands
    <2>2. Rooms!JoinRoom(id, p.sender)
        BY <1>5 DEF RoomJoin
    <2> HIDE DEF id
    <2>3. id \in DOMAIN rooms
        BY <2>2 DEF Rooms!JoinRoom, Rooms!JoinRoomResult
    <2> QED
        BY <2>1, <2>2, <2>3 DEF RoomCall
<1>6. ASSUME NEW p, RoomJoinRefused(p) \/ RoomLeave(p) \/ RoomList(p)
      PROVE  UNCHANGED roomVars
    BY <1>6 DEF RoomJoinRefused, RoomLeave, RoomList
<1>7. Route("room") \/ Deliver("room") => UNCHANGED roomVars
    BY DEF Route, Deliver
<1>8. ASSUME RoomStrand
      PROVE  UNCHANGED roomVars \/ RoomCall
    BY <1>4, <1>5, <1>6, <1>7, <1>8 DEF RoomStrand
<1>9. ASSUME \/ Accept
             \/ \E c \in Conns :
                   Disconnect(c) \/ Post(c) \/ \E req \in Requests : Receive(c, req)
      PROVE  UNCHANGED roomVars
    BY <1>9 DEF Accept, Disconnect, Post, Receive
<1>10. UNCHANGED served => UNCHANGED roomVars
    BY DEF served
<1> QED
    BY <1>2, <1>3, <1>8, <1>9, <1>10 DEF Serving

LEMMA RoomsStep ==
    ASSUME Inv, [Serving]_served
    PROVE  [Rooms!Next]_(Rooms!vars)
<1>1. CASE UNCHANGED roomVars
    BY <1>1 DEF roomVars, Rooms!vars
<1>2. CASE \E u \in Users : Rooms!PlayerLogin(u)
    BY <1>2 DEF Rooms!Next
<1>3. CASE \E u \in Users \cup {NoUser}, code \in Codes : Rooms!CreateRoom(u, Text, Text, 4, code)
    <2>1. Rooms!CreateStep
        BY <1>3 DEF Rooms!CreateStep
    <2> QED
        BY <2>1 DEF Rooms!Next
<1>4. CASE \E id \in DOMAIN rooms, u \in Users \cup {NoUser} : Rooms!JoinRoom(id, u)
    <2>1. PICK id \in DOMAIN rooms, u \in Users \cup {NoUser} : Rooms!JoinRoom(id, u)
        BY <1>4
    <2>2. Rooms!MemberStep(id)
        BY <2>1 DEF Rooms!MemberStep
    <2> QED
        BY <2>1, <2>2 DEF Rooms!Next
<1> QED
    BY <1>1, <1>2, <1>3, <1>4, RoomsMove DEF RoomCall

\* Every step of the server is a step of its tables' specifications, or leaves
\* them alone: interleaving breaks no call on a table.
THEOREM TablesHold == Spec => TablesImplemented
<1>1. Init => Routes!Init /\ Rooms!Init
    BY DEF Init
<1>2. Inv /\ [Serving]_served => [Routes!Next]_(Routes!vars) /\ [Rooms!Next]_(Rooms!vars)
    BY RoutesStep, RoomsStep
<1> QED
    BY <1>1, <1>2, StepServes, InvHolds, PTL DEF Spec, TablesImplemented, Routes!Spec, Rooms!Spec

-----------------------------------------------------------------------------
(* What is proved of the tables holds of them inside the server.  The two    *)
(* proof modules are taken with the server's own tables; their operators     *)
(* are the tables' operators, and what the server calls is a step of theirs. *)

RoutesProved == INSTANCE UserSessionMap_proofs

RoomsProved == INSTANCE GameRoomManager_proofs WITH
            Maps <- {DefaultMap}, LoadableMaps <- {}, Texts <- {Text},
            Capacities <- {4}, IdSpace <- ConnLimit * RequestLimit + 2,
            CreateLimit <- ConnLimit * RequestLimit + 1,
            CountLimit <- Cardinality(Users) + 1

\* The server's ids and bounds are ones the tables' theorems are about.
LEMMA RoutesAssumptions == RoutesProved!ZeroIsInvalid
BY UsersAssumption, SpacesAssumption DEF RoutesProved!ZeroIsInvalid, NoSession, Sessions

LEMMA RoomsAssumptions ==
    /\ RoomsProved!UsersAssumption /\ RoomsProved!MapsAssumption
    /\ RoomsProved!IdSpaceAssumption /\ RoomsProved!CapacitiesAssumption
    /\ RoomsProved!LimitsAssumption
<1>1. RoomsProved!UsersAssumption
    BY UsersAssumption DEF RoomsProved!UsersAssumption
<1>2. RoomsProved!MapsAssumption
    BY DEF RoomsProved!MapsAssumption
<1>3. RoomsProved!CapacitiesAssumption
    BY DEF RoomsProved!CapacitiesAssumption
<1>4. PICK n \in Nat : n = ConnLimit * RequestLimit
    BY BoundsAssumption
<1>5. RoomsProved!IdSpaceAssumption
    <2>1. n + 2 \in Nat \ {0}
        BY <1>4
    <2> QED
        BY <1>4, <2>1 DEF RoomsProved!IdSpaceAssumption
<1>6. RoomsProved!LimitsAssumption
    <2>1. Cardinality(Users) \in Nat
        BY UsersAssumption, FS_CardinalityType
    <2>2. Cardinality(Users) + 1 \in Nat /\ n + 1 \in Nat
        BY <1>4, <2>1
    <2> QED
        BY <1>4, <2>2 DEF RoomsProved!LimitsAssumption
<1> QED
    BY <1>1, <1>2, <1>3, <1>5, <1>6

\* A successful login is a step of the proved routes.
LEMMA RoutesStepProved ==
    ASSUME Inv, [Serving]_served
    PROVE  [RoutesProved!Next]_(RoutesProved!vars)
<1>1. CASE UNCHANGED routeVars
    BY <1>1 DEF routeVars, RoutesProved!vars
<1>2. CASE \E u \in Users, s \in Sessions : Routes!onUserLogin("SUCCESS", u, s)
    <2>1. PICK u \in Users, s \in Sessions : Routes!onUserLogin("SUCCESS", u, s)
        BY <1>2
    <2>2. RoutesProved!onUserLogin("SUCCESS", u, s)
        BY <2>1 DEF Routes!onUserLogin, RoutesProved!onUserLogin, Routes!Bind, RoutesProved!Bind,
                    Routes!EraseSession, RoutesProved!EraseSession
    <2>3. "SUCCESS" \in RoutesProved!LoginResults
        BY DEF RoutesProved!LoginResults
    <2> QED
        BY <2>2, <2>3 DEF RoutesProved!Next
<1> QED
    BY <1>1, <1>2, RoutesMove

\* However requests interleave in the server, a session that names a user is
\* the one the user's messages go to, and no two sessions name one user.
THEOREM RoutesKept == Spec => [](Routes!BackRoute /\ Routes!OneSessionPerUser)
<1>1. Init => RoutesProved!Init
    BY DEF Init, Routes!Init, RoutesProved!Init
<1>2. Inv /\ [Serving]_served => [RoutesProved!Next]_(RoutesProved!vars)
    BY RoutesStepProved
<1>3. Spec => RoutesProved!Spec
    BY <1>1, <1>2, StepServes, InvHolds, PTL DEF Spec, RoutesProved!Spec
<1>4. RoutesProved!Spec => []RoutesProved!BackRoute
    BY RoutesAssumptions, RoutesProved!BackRouteHolds, PTL
<1>5. RoutesProved!Spec => []RoutesProved!OneSessionPerUser
    BY RoutesAssumptions, RoutesProved!OneSession, PTL
<1>6. RoutesProved!BackRoute => Routes!BackRoute
    BY DEF RoutesProved!BackRoute, Routes!BackRoute
<1>7. RoutesProved!OneSessionPerUser => Routes!OneSessionPerUser
    BY DEF RoutesProved!OneSessionPerUser, Routes!OneSessionPerUser
<1> QED
    BY <1>3, <1>4, <1>5, <1>6, <1>7, PTL

\* The groups of the proved rooms are those of the server's rooms.
LEMMA SameGroups ==
    /\ \A r : Rooms!MapGroupResult(r) = RoomsProved!MapGroupResult(r)
    /\ \A k : Rooms!NewGroup(k) = RoomsProved!NewGroup(k)
    /\ \A g, u : Rooms!AddMemberResult(g, u) = RoomsProved!AddMemberResult(g, u)
    /\ \A g, u : Rooms!AddMember(g, u) = RoomsProved!AddMember(g, u)
<1>1. \A r : Rooms!MapGroupResult(r) = RoomsProved!MapGroupResult(r)
    BY DEF Rooms!MapGroupResult, RoomsProved!MapGroupResult
<1>2. \A k : Rooms!NewGroup(k) = RoomsProved!NewGroup(k)
    BY DEF Rooms!NewGroup, RoomsProved!NewGroup
<1>3. \A g, u : Rooms!AddMemberResult(g, u) = RoomsProved!AddMemberResult(g, u)
    <2> TAKE g, u
    <2>1. Rooms!Contains(g.members, u) <=> RoomsProved!Contains(g.members, u)
        BY DEF Rooms!Contains, RoomsProved!Contains
    <2> QED
        BY <2>1 DEF Rooms!AddMemberResult, RoomsProved!AddMemberResult
<1>4. \A g, u : Rooms!AddMember(g, u) = RoomsProved!AddMember(g, u)
    BY DEF Rooms!AddMember, RoomsProved!AddMember
<1> QED
    BY <1>1, <1>2, <1>3, <1>4

\* A new room and a join are the same of both.
LEMMA SameRooms ==
    /\ \A room, u : Rooms!RoomJoin(room, u) = RoomsProved!RoomJoin(room, u)
    /\ \A room, u : Rooms!RoomJoinResult(room, u) = RoomsProved!RoomJoinResult(room, u)
    /\ \A code, owner, name, password, k :
          Rooms!NewRoom(code, owner, name, password, k)
             = RoomsProved!NewRoom(code, owner, name, password, k)
BY SameGroups
   DEF Rooms!RoomJoin, RoomsProved!RoomJoin, Rooms!RoomJoinResult, RoomsProved!RoomJoinResult,
       Rooms!NewRoom, RoomsProved!NewRoom, Rooms!IsRunning, RoomsProved!IsRunning

\* The manager's calls that the server makes are calls of the proved manager.
LEMMA SameLogin == \A u : Rooms!PlayerLogin(u) => RoomsProved!PlayerLogin(u)
BY DEF Rooms!PlayerLogin, RoomsProved!PlayerLogin

LEMMA SameJoin == \A id, u : Rooms!JoinRoom(id, u) => RoomsProved!JoinRoom(id, u)
<1>1. \A id, u : Rooms!JoinRoomResult(id, u) = RoomsProved!JoinRoomResult(id, u)
    BY SameRooms DEF Rooms!JoinRoomResult, RoomsProved!JoinRoomResult
<1> QED
    BY <1>1, SameRooms DEF Rooms!JoinRoom, RoomsProved!JoinRoom

LEMMA SameCreate ==
    \A owner, name, password, k, code :
        Rooms!CreateRoom(owner, name, password, k, code)
           => RoomsProved!CreateRoom(owner, name, password, k, code)
<1>1. \A owner, k : Rooms!CreateRoomResult(owner, k) = RoomsProved!CreateRoomResult(owner, k)
    BY SameGroups DEF Rooms!CreateRoomResult, RoomsProved!CreateRoomResult
<1>2. Rooms!NextRoomId = RoomsProved!NextRoomId
    BY DEF Rooms!NextRoomId, RoomsProved!NextRoomId
<1>3. \A code, id : Rooms!InsertCode(code, id) = RoomsProved!InsertCode(code, id)
    BY DEF Rooms!InsertCode, RoomsProved!InsertCode
<1> QED
    BY <1>1, <1>2, <1>3, SameRooms DEF Rooms!CreateRoom, RoomsProved!CreateRoom

LEMMA RoomsStepProved ==
    ASSUME Inv, [Serving]_served
    PROVE  [RoomsProved!Next]_(RoomsProved!vars)
<1>1. CASE UNCHANGED roomVars
    BY <1>1 DEF roomVars, RoomsProved!vars
<1>2. CASE \E u \in Users : Rooms!PlayerLogin(u)
    BY <1>2, SameLogin DEF RoomsProved!Next
<1>3. CASE \E u \in Users \cup {NoUser}, code \in Codes : Rooms!CreateRoom(u, Text, Text, 4, code)
    <2>1. \E u \in Users \cup {NoUser}, code \in Codes :
              RoomsProved!CreateRoom(u, Text, Text, 4, code)
        BY <1>3, SameCreate
    <2>2. RoomsProved!CreateStep
        BY <2>1 DEF RoomsProved!CreateStep
    <2> QED
        BY <2>2 DEF RoomsProved!Next
<1>4. CASE \E id \in DOMAIN rooms, u \in Users \cup {NoUser} : Rooms!JoinRoom(id, u)
    <2>1. PICK id \in DOMAIN rooms, u \in Users \cup {NoUser} : RoomsProved!JoinRoom(id, u)
        BY <1>4, SameJoin
    <2>2. RoomsProved!MemberStep(id)
        BY <2>1 DEF RoomsProved!MemberStep
    <2> QED
        BY <2>1, <2>2 DEF RoomsProved!Next
<1> QED
    BY <1>1, <1>2, <1>3, <1>4, RoomsMove DEF RoomCall

\* Every run of the server is a run of the proved rooms.
LEMMA RoomsRefined == Spec => RoomsProved!Spec
<1>1. Init => RoomsProved!Init
    BY DEF Init, Rooms!Init, RoomsProved!Init, Rooms!NoRoom, RoomsProved!NoRoom
<1>2. Inv /\ [Serving]_served => [RoomsProved!Next]_(RoomsProved!vars)
    BY RoomsStepProved
<1> QED
    BY <1>1, <1>2, StepServes, InvHolds, PTL DEF Spec, RoomsProved!Spec

\* However requests interleave in the server, rooms are not overfull and hold
\* nobody twice, their counts cover their members, and only players are in
\* them or own them.
THEOREM RoomsKept ==
    Spec => [](Rooms!GroupsWellFormed /\ Rooms!CountCoversMembers /\ Rooms!MembersArePlayers)
<1>1. RoomsProved!Spec => []RoomsProved!GroupsWellFormed
    BY RoomsAssumptions, RoomsProved!GroupsHold, PTL
<1>2. RoomsProved!Spec => []RoomsProved!CountCoversMembers
    BY RoomsAssumptions, RoomsProved!CountHolds, PTL
<1>3. RoomsProved!Spec => []RoomsProved!MembersArePlayers
    BY RoomsAssumptions, RoomsProved!MembersHold, PTL
<1>4. RoomsProved!GroupsWellFormed => Rooms!GroupsWellFormed
    BY DEF RoomsProved!GroupsWellFormed, Rooms!GroupsWellFormed,
           RoomsProved!WellFormed, Rooms!WellFormed
<1>5. RoomsProved!CountCoversMembers => Rooms!CountCoversMembers
    BY DEF RoomsProved!CountCoversMembers, Rooms!CountCoversMembers
<1>6. RoomsProved!MembersArePlayers => Rooms!MembersArePlayers
    <2>1. \A room : RoomsProved!Roster(room) = Rooms!Roster(room)
        BY DEF RoomsProved!Roster, Rooms!Roster, RoomsProved!MemberSet, Rooms!MemberSet,
               RoomsProved!ToSet, Rooms!ToSet
    <2> QED
        BY <2>1 DEF RoomsProved!MembersArePlayers, Rooms!MembersArePlayers
<1> QED
    BY <1>1, <1>2, <1>3, <1>4, <1>5, <1>6, RoomsRefined, PTL

\* GameServer has more room ids than requests, so ids do not go round and a code a
\* client can type leads to a live room that carries that code.
THEOREM CodesKept ==
    Spec => []\A code \in DOMAIN codeMap :
                 codeMap[code] \in DOMAIN rooms /\ rooms[codeMap[code]].code = code
<1>1. RoomsProved!Spec => []RoomsProved!CodesResolve
    BY RoomsAssumptions, RoomsProved!CodesHold, PTL
<1>2. RoomsProved!Spec => []RoomsProved!TypeOK
    BY RoomsAssumptions, RoomsProved!TypeCorrect, PTL
<1>3. RoomsProved!TypeOK => RoomsProved!IdsFresh
    <2>1. PICK n \in Nat : n = ConnLimit * RequestLimit
        BY BoundsAssumption
    <2>2. \A k \in 0 .. n + 1 : k <= n + 2
        OBVIOUS
    <2>3. RoomsProved!TypeOK => created \in 0 .. n + 1
        BY <2>1 DEF RoomsProved!TypeOK
    <2>4. created <= n + 2 => RoomsProved!IdsFresh
        BY <2>1 DEF RoomsProved!IdsFresh
    <2> QED
        BY <2>2, <2>3, <2>4
<1>4. RoomsProved!IdsFresh /\ RoomsProved!CodesResolve
         => \A code \in DOMAIN codeMap :
               codeMap[code] \in DOMAIN rooms /\ rooms[codeMap[code]].code = code
    BY DEF RoomsProved!CodesResolve
<1> QED
    BY <1>1, <1>2, <1>3, <1>4, RoomsRefined, PTL

-----------------------------------------------------------------------------
(* The directory of the server's rooms.                                      *)

\* The proved rooms and the server's rooms are listed alike, in each state
\* and in the next.
LEMMA SameListed ==
    RoomsProved!Listed = Rooms!Listed /\ (RoomsProved!Listed = Rooms!Listed)'
<1>1. \A room : RoomsProved!Listing(room) = Rooms!Listing(room)
    BY DEF Rooms!Listing, RoomsProved!Listing, Rooms!Roster, RoomsProved!Roster,
           Rooms!MemberSet, RoomsProved!MemberSet, Rooms!ToSet, RoomsProved!ToSet
<1>2. RoomsProved!Listed = Rooms!Listed
    BY <1>1 DEF Rooms!Listed, RoomsProved!Listed
<1> QED
    BY <1>2, PTL

LEMMA SameCardinality ==
    \A S : RoomsProved!Directory!Cardinality(S) = Rooms!Directory!Cardinality(S)
BY DEF RoomsProved!Directory!Cardinality, Rooms!Directory!Cardinality

LEMMA SameList ==
    \A id, room : RoomsProved!Directory!List(id, room) => Rooms!Directory!List(id, room)
BY SameListed DEF Rooms!Directory!List, RoomsProved!Directory!List

\* A step on one room is the same step of both directories.
LEMMA SameRoomStep ==
    \A id, u : RoomsProved!Directory!RoomStep(id, u) => Rooms!Directory!RoomStep(id, u)
<1> TAKE id, u
<1>1. RoomsProved!Directory!Join(id, u) => Rooms!Directory!Join(id, u)
    BY SameListed, SameList, SameCardinality DEF Rooms!Directory!Join, RoomsProved!Directory!Join
<1>2. RoomsProved!Directory!Leave(id, u) => Rooms!Directory!Leave(id, u)
    BY SameListed, SameList DEF Rooms!Directory!Leave, RoomsProved!Directory!Leave
<1>3. \A seats : RoomsProved!Directory!Resize(id, u, seats) => Rooms!Directory!Resize(id, u, seats)
    BY SameListed, SameList, SameCardinality
       DEF Rooms!Directory!Resize, RoomsProved!Directory!Resize
<1>4. RoomsProved!Directory!Begin(id, u) => Rooms!Directory!Begin(id, u)
    BY SameListed, SameList, SameCardinality DEF Rooms!Directory!Begin, RoomsProved!Directory!Begin
<1>5. RoomsProved!Directory!Close(id, u) => Rooms!Directory!Close(id, u)
    BY SameListed DEF Rooms!Directory!Close, RoomsProved!Directory!Close
<1> QED
    BY <1>1, <1>2, <1>3, <1>4, <1>5
       DEF RoomsProved!Directory!RoomStep, Rooms!Directory!RoomStep

LEMMA SameDirectoryNext == RoomsProved!Directory!Next => Rooms!Directory!Next
<1>1. RoomsProved!RoomIds = Rooms!RoomIds
    BY DEF RoomsProved!RoomIds, Rooms!RoomIds
<1>2. \A id, u, seats : RoomsProved!Directory!Open(id, u, seats)
                           => Rooms!Directory!Open(id, u, seats)
    BY SameListed, SameList DEF Rooms!Directory!Open, RoomsProved!Directory!Open
<1>3. \A id : RoomsProved!Directory!End(id) => Rooms!Directory!End(id)
    BY SameListed, SameList DEF Rooms!Directory!End, RoomsProved!Directory!End
<1> QED
    BY <1>1, <1>2, <1>3, SameListed, SameRoomStep
       DEF RoomsProved!Directory!Next, Rooms!Directory!Next

\* The wired server, with its strands, its routes and its crossing requests,
\* implements the directory of rooms with seats.
THEOREM DirectoryKept == Spec => Rooms!DirectoryImplemented
<1>1. RoomsProved!Spec => RoomsProved!DirectoryImplemented
    BY RoomsAssumptions, RoomsProved!DirectoryHolds, PTL
<1>2. RoomsProved!Directory!Init => Rooms!Directory!Init
    BY SameListed DEF Rooms!Directory!Init, RoomsProved!Directory!Init
<1>3. [RoomsProved!Directory!Next]_(RoomsProved!Directory!vars)
         => [Rooms!Directory!Next]_(Rooms!Directory!vars)
    BY SameListed, SameDirectoryNext DEF RoomsProved!Directory!vars, Rooms!Directory!vars
<1>4. RoomsProved!DirectoryImplemented => Rooms!DirectoryImplemented
    BY <1>2, <1>3, PTL
       DEF RoomsProved!DirectoryImplemented, Rooms!DirectoryImplemented,
           RoomsProved!Directory!Spec, Rooms!Directory!Spec
<1> QED
    BY <1>1, <1>4, RoomsRefined, PTL

-----------------------------------------------------------------------------
(* The server's counters.                                                   *)

\* The requests that the room strand cannot take up any more: each was taken
\* up, or went to the other strand.
TakenUp == {r \in Conns \X (1 .. RequestLimit) : Done(r[2], r[1], "room")}

\* Every call of CreateRoom has spent one of them, and every room's
\* player_count is the number of its members.
Counted ==
    /\ created <= Cardinality(TakenUp)
    /\ \A id \in DOMAIN rooms : rooms[id].playerCount = Len(rooms[id].group.members)

LEMMA TakenUpFinite ==
    /\ IsFiniteSet(TakenUp) /\ Cardinality(TakenUp) \in Nat
    /\ Cardinality(TakenUp) <= ConnLimit * RequestLimit
<1>1. \A n \in Nat : IsFiniteSet(1 .. n) /\ Cardinality(1 .. n) = n
    <2> TAKE n \in Nat
    <2>1. /\ IsFiniteSet(1 .. n)
          /\ Cardinality(1 .. n) = IF 1 > n THEN 0 ELSE n - 1 + 1
        BY FS_Interval
    <2> QED
        BY <2>1
<1>2. /\ IsFiniteSet(Conns) /\ Cardinality(Conns) = ConnLimit
      /\ IsFiniteSet(1 .. RequestLimit) /\ Cardinality(1 .. RequestLimit) = RequestLimit
    BY <1>1, BoundsAssumption DEF Conns
<1>3. /\ IsFiniteSet(Conns \X (1 .. RequestLimit))
      /\ Cardinality(Conns \X (1 .. RequestLimit)) = ConnLimit * RequestLimit
    BY <1>2, FS_Product
<1>4. TakenUp \in SUBSET (Conns \X (1 .. RequestLimit))
    BY DEF TakenUp
<1> HIDE DEF TakenUp
<1>5. IsFiniteSet(TakenUp) /\ Cardinality(TakenUp) <= Cardinality(Conns \X (1 .. RequestLimit))
    BY <1>3, <1>4, FS_Subset
<1> QED
    BY <1>3, <1>5, FS_CardinalityType

\* What the room strand has taken up stays taken up.
LEMMA DoneStays ==
    ASSUME Inv, [Serving]_served
    PROVE  \A k : \A d \in Conns : Done(k, d, "room") => Done(k, d, "room")'
<1>1. TablesTyped /\ Order /\ "room" \in Strands /\ "login" \in Strands
    BY DEF Inv, Types, Strands
<1>2. ASSUME UNCHANGED <<requests, incoming, queue>>
      PROVE  \A k : \A d \in Conns : Done(k, d, "room") => Done(k, d, "room")'
    <2>1. Posted' = Posted
        BY <1>2 DEF Posted
    <2> QED
        BY <1>2, <2>1 DEF Done
<1>3. ASSUME NEW c \in Conns, NEW req \in Requests, Receive(c, req)
      PROVE  \A k : \A d \in Conns : Done(k, d, "room") => Done(k, d, "room")'
    <2>1. queue' = queue
        BY <1>3 DEF Receive, taskVars
    <2>2. \A d \in Conns : Posted'[d] = Posted[d]
        BY <1>1, <1>3, ReceivePosted
    <2> QED
        BY <2>1, <2>2 DEF Done
<1>4. ASSUME NEW c \in Conns, Post(c)
      PROVE  \A k : \A d \in Conns : Done(k, d, "room") => Done(k, d, "room")'
    <2> PICK t, p : t = StrandOf(incoming[c].kind) /\ p = incoming[c]
        OBVIOUS
    <2>1. \A k, s : \A d \in Conns : s \in Strands /\ Done(k, d, s) => Done(k, d, s)'
        BY <1>1, <1>4, PostAdds
    <2> QED
        BY <1>1, <2>1
<1>5. ASSUME NEW t \in Strands, NEW p, Serves(t, p), UNCHANGED <<requests, incoming>>
      PROVE  \A k : \A d \in Conns : Done(k, d, "room") => Done(k, d, "room")'
    <2>1. queue[t] # << >> /\ queue' = [queue EXCEPT ![t] = Tail(queue[t])]
        BY <1>1, <1>5, ServesEffect
    <2>2. \A k, d, s : s \in Strands /\ Done(k, d, s) => Done(k, d, s)'
        BY <1>1, <1>5, <2>1, TakeOrder
    <2> QED
        BY <1>1, <2>2
<1>6. CASE LoginStrand
    <2>1. ASSUME NEW p, Serves("login", p), LoginBind(p) \/ Logout(p)
          PROVE  UNCHANGED <<requests, incoming>>
        BY <2>1 DEF LoginBind, Logout, netVars
    <2>2. LoginPlayer \/ Deliver("login") => UNCHANGED <<requests, incoming, queue>>
        BY DEF LoginPlayer, Deliver, netVars
    <2> QED
        BY <1>1, <1>2, <1>5, <1>6, <2>1, <2>2 DEF LoginStrand
<1>7. CASE RoomStrand
    <2>1. ASSUME NEW p, Serves("room", p),
                 RoomCreate(p) \/ RoomJoin(p) \/ RoomJoinRefused(p) \/ RoomLeave(p) \/ RoomList(p)
          PROVE  UNCHANGED <<requests, incoming>>
        BY <2>1 DEF RoomCreate, RoomJoin, RoomJoinRefused, RoomLeave, RoomList, netVars
    <2>2. Route("room") \/ Deliver("room") => UNCHANGED <<requests, incoming, queue>>
        BY DEF Route, Deliver, netVars
    <2> QED
        BY <1>1, <1>2, <1>5, <1>7, <2>1, <2>2 DEF RoomStrand
<1>8. ASSUME Accept \/ \E c \in Conns : Disconnect(c)
      PROVE  UNCHANGED <<requests, incoming, queue>>
    BY <1>8 DEF Accept, Disconnect, taskVars
<1>9. UNCHANGED served => UNCHANGED <<requests, incoming, queue>>
    BY DEF served, netVars, taskVars
<1> QED
    BY <1>2, <1>3, <1>4, <1>6, <1>7, <1>8, <1>9 DEF Serving

\* A call of CreateRoom takes up a request that was not taken up before.
LEMMA CreatedMoves ==
    ASSUME Inv, [Serving]_served
    PROVE  \/ created' = created
           \/ created' = created + 1 /\ \E r \in TakenUp' : r \notin TakenUp
<1>1. TablesTyped /\ Order /\ "room" \in Strands
    BY DEF Inv, Types, Strands
<1>2. ASSUME NEW p, Serves("room", p), RoomCreate(p)
      PROVE  created' = created + 1 /\ \E r \in TakenUp' : r \notin TakenUp
    <2>1. created' = created + 1
        BY <1>2 DEF RoomCreate, Rooms!CreateRoom
    <2>2. /\ p = queue["room"][1] /\ p \in Packs /\ queue["room"] # << >>
          /\ queue' = [queue EXCEPT !["room"] = Tail(queue["room"])]
          /\ UNCHANGED <<requests, incoming>>
        BY <1>1, <1>2, ServesEffect DEF RoomCreate, netVars
    <2>3. p.conn \in Conns /\ p.id \in 1 .. RequestLimit /\ p.id \in Nat
        BY <2>2, PackFacts
    <2>4. /\ Done(p.id, p.conn, "room")'
          /\ Done(p.id, p.conn, "room") => p.id < p.id
        BY <1>1, <2>2, TakeOrder
    <2>5. ~Done(p.id, p.conn, "room")
        BY <2>3, <2>4
    <2>6. PICK r \in Conns \X (1 .. RequestLimit) : r = <<p.conn, p.id>>
        BY <2>3
    <2>7. r[1] = p.conn /\ r[2] = p.id
        BY <2>6
    <2>8. r \in TakenUp'
        BY <2>4, <2>6, <2>7 DEF TakenUp
    <2>9. r \notin TakenUp
        BY <2>5, <2>7 DEF TakenUp
    <2> QED
        BY <2>1, <2>8, <2>9
<1>3. ASSUME ~\E p : Serves("room", p) /\ RoomCreate(p)
      PROVE  created' = created
    <2>1. RoomStrand => created' = created
        BY <1>3 DEF RoomStrand, RoomJoin, Rooms!JoinRoom, RoomJoinRefused, RoomLeave, RoomList,
                    Route, Deliver, roomVars
    <2>2. LoginStrand => created' = created
        BY DEF LoginStrand, LoginBind, Logout, LoginPlayer, Rooms!PlayerLogin, Deliver, roomVars
    <2>3. ASSUME \/ Accept
                 \/ \E c \in Conns :
                       Disconnect(c) \/ Post(c) \/ \E req \in Requests : Receive(c, req)
          PROVE  created' = created
        BY <2>3 DEF Accept, Disconnect, Post, Receive, roomVars
    <2>4. UNCHANGED served => created' = created
        BY DEF served, roomVars
    <2> QED
        BY <2>1, <2>2, <2>3, <2>4 DEF Serving
<1> QED
    BY <1>2, <1>3

LEMMA CountedStep == Inv /\ Counted /\ [Serving]_served => Counted'
<1> SUFFICES ASSUME Inv, Counted, [Serving]_served PROVE Counted'
    OBVIOUS
<1>1. TablesTyped /\ Rooms!TypeOK
    BY DEF Inv, Types, TablesTyped
<1>2. (created <= Cardinality(TakenUp))'
    <2>1. /\ IsFiniteSet(TakenUp) /\ Cardinality(TakenUp) \in Nat
          /\ IsFiniteSet(TakenUp') /\ Cardinality(TakenUp') \in Nat
        <3>1. (IsFiniteSet(TakenUp) /\ Cardinality(TakenUp) \in Nat)'
            BY TakenUpFinite, PTL
        <3> QED
            BY <3>1, TakenUpFinite
    <2>2. TakenUp \subseteq TakenUp'
        <3>1. \A k : \A d \in Conns : Done(k, d, "room") => Done(k, d, "room")'
            BY DoneStays
        <3>2. ASSUME NEW r \in Conns \X (1 .. RequestLimit), Done(r[2], r[1], "room")
              PROVE  Done(r[2], r[1], "room")'
            <4>1. r[1] \in Conns
                OBVIOUS
            <4> QED
                BY <3>1, <3>2, <4>1
        <3> QED
            BY <3>2 DEF TakenUp
    <2>3. created \in Nat /\ created <= Cardinality(TakenUp)
        BY <1>1 DEF Counted, Rooms!TypeOK
    <2> PICK A, B : A = TakenUp /\ B = TakenUp'
        OBVIOUS
    <2>4. /\ A \subseteq B /\ IsFiniteSet(A) /\ IsFiniteSet(B)
          /\ Cardinality(A) \in Nat /\ Cardinality(B) \in Nat
          /\ created <= Cardinality(A)
        BY <2>1, <2>2, <2>3
    <2>5. Cardinality(A) <= Cardinality(B)
        BY <2>4, FS_Subset
    <2>6. CASE created' = created
        BY <2>3, <2>4, <2>5, <2>6
    <2>7. CASE created' = created + 1 /\ \E r \in B : r \notin A
        <3>1. PICK r \in B : r \notin A
            BY <2>7
        <3>2. IsFiniteSet(A \cup {r}) /\ Cardinality(A \cup {r}) = Cardinality(A) + 1
            BY <2>4, <3>1, FS_AddElement
        <3>3. A \cup {r} \in SUBSET B
            BY <2>4
        <3>4. Cardinality(A \cup {r}) <= Cardinality(B)
            BY <2>4, <3>3, FS_Subset
        <3>5. Cardinality(A) + 1 <= Cardinality(B)
            BY <3>2, <3>4
        <3> QED
            BY <2>3, <2>4, <2>7, <3>5
    <2> QED
        BY <2>6, <2>7, CreatedMoves
<1>3. (\A id \in DOMAIN rooms : rooms[id].playerCount = Len(rooms[id].group.members))'
    <2>1. \A id \in DOMAIN rooms : rooms[id].playerCount = Len(rooms[id].group.members)
        BY DEF Counted
    <2>2. CASE UNCHANGED roomVars \/ \E u \in Users : Rooms!PlayerLogin(u)
        <3>1. rooms' = rooms
            BY <2>2 DEF roomVars, Rooms!PlayerLogin
        <3> QED
            BY <2>1, <3>1
    <2>3. ASSUME NEW u \in Users \cup {NoUser}, NEW code \in Codes,
                 Rooms!CreateRoom(u, Text, Text, 4, code)
          PROVE  \A id \in DOMAIN rooms' : rooms'[id].playerCount = Len(rooms'[id].group.members)
        <3> PICK room : room = Rooms!NewRoom(code, u, Text, Text, 4)
            OBVIOUS
        <3>1. CASE rooms' = rooms
            BY <2>1, <3>1
        <3>2. CASE rooms' = [i \in DOMAIN rooms \cup {Rooms!NextRoomId} |->
                                IF i = Rooms!NextRoomId THEN Rooms!RoomJoin(room, u) ELSE rooms[i]]
            <4>1. Rooms!RoomJoin(room, u).playerCount = Len(Rooms!RoomJoin(room, u).group.members)
                <5>1. /\ Rooms!RoomJoin(room, u).playerCount = 0 + 1
                      /\ Rooms!RoomJoin(room, u).group.members = Append(<< >>, u)
                    BY DEF Rooms!RoomJoin, Rooms!AddMember, Rooms!NewRoom, Rooms!NewGroup
                <5>2. Append(<< >>, u) = <<u>>
                    OBVIOUS
                <5>3. Len(<<u>>) = 1
                    OBVIOUS
                <5>4. Rooms!RoomJoin(room, u).playerCount = 1
                    BY <5>1
                <5>5. Rooms!RoomJoin(room, u).group.members = <<u>>
                    BY <5>1, <5>2, Zenon
                <5> QED
                    BY <5>3, <5>4, <5>5, Zenon
            <4> QED
                BY <2>1, <3>2, <4>1
        <3> QED
            BY <2>3, <3>1, <3>2 DEF Rooms!CreateRoom
    <2>4. ASSUME NEW id \in DOMAIN rooms, NEW u \in Users \cup {NoUser}, Rooms!JoinRoom(id, u)
          PROVE  \A i \in DOMAIN rooms' : rooms'[i].playerCount = Len(rooms'[i].group.members)
        <3>1. CASE rooms' = rooms
            BY <2>1, <3>1
        <3>2. CASE rooms' = [rooms EXCEPT ![id] = Rooms!RoomJoin(rooms[id], u)]
            <4>1. rooms[id] \in Rooms!RoomRecords(Codes)
                BY <1>1 DEF Rooms!TypeOK
            <4>2. /\ Rooms!RoomJoin(rooms[id], u).playerCount = rooms[id].playerCount + 1
                  /\ Rooms!RoomJoin(rooms[id], u).group.members = Append(rooms[id].group.members, u)
                BY <4>1 DEF Rooms!RoomJoin, Rooms!AddMember, Rooms!RoomRecords, Rooms!Groups
            <4>3. rooms[id].group.members \in Seq(Users \cup {NoUser})
                BY <4>1 DEF Rooms!RoomRecords, Rooms!Groups
            <4>4. Len(Append(rooms[id].group.members, u)) = Len(rooms[id].group.members) + 1
                BY <4>3, AppendProperties
            <4>5. Rooms!RoomJoin(rooms[id], u).playerCount
                     = Len(Rooms!RoomJoin(rooms[id], u).group.members)
                BY <2>1, <4>2, <4>4
            <4> QED
                BY <2>1, <3>2, <4>5
        <3> QED
            BY <2>4, <3>1, <3>2 DEF Rooms!JoinRoom
    <2> QED
        BY <2>2, <2>3, <2>4, RoomsMove DEF RoomCall
<1> QED
    BY <1>2, <1>3 DEF Counted

LEMMA CountedHolds == Spec => []Counted
<1>1. Init => Counted
    <2>1. Init => created = 0 /\ DOMAIN rooms = {}
        BY DEF Init, Rooms!Init
    <2>2. 0 <= Cardinality(TakenUp)
        BY TakenUpFinite
    <2> QED
        BY <2>1, <2>2 DEF Counted
<1> QED
    BY <1>1, CountedStep, StepServes, InvHolds, PTL DEF Spec

\* Inside the server player_count is exact: joins are all that changes it, and
\* what would make it drift, a kick, is not offered to clients.
THEOREM CountsExact ==
    Spec => []\A id \in DOMAIN rooms : rooms[id].playerCount = Len(rooms[id].group.members)
<1>1. Counted => \A id \in DOMAIN rooms : rooms[id].playerCount = Len(rooms[id].group.members)
    BY DEF Counted
<1> QED
    BY <1>1, CountedHolds, PTL

\* A list without repetitions is no longer than the set it is drawn from.
LEMMA DistinctFits ==
    ASSUME NEW S, IsFiniteSet(S), NEW s \in Seq(S),
           \A i, j \in DOMAIN s : s[i] = s[j] => i = j
    PROVE  Len(s) <= Cardinality(S)
<1>1. Len(s) \in Nat /\ DOMAIN s = 1 .. Len(s) /\ s \in [1 .. Len(s) -> S]
    OBVIOUS
<1>2. s \in Injection(1 .. Len(s), S)
    BY <1>1 DEF Injection, IsInjective
<1>3. IsFiniteSet(1 .. Len(s)) /\ Cardinality(1 .. Len(s)) = Len(s)
    <2>1. /\ IsFiniteSet(1 .. Len(s))
          /\ Cardinality(1 .. Len(s)) = IF 1 > Len(s) THEN 0 ELSE Len(s) - 1 + 1
        BY <1>1, FS_Interval
    <2> QED
        BY <1>1, <2>1
<1>4. Cardinality(1 .. Len(s)) <= Cardinality(S)
    BY <1>2, FS_Injection
<1> QED
    BY <1>3, <1>4

\* The bounds that GameServer gives the room manager's counters never hold a
\* call of CreateRoom or JoinRoom back: no behaviour of the handlers is cut off.
THEOREM LimitsNotReached ==
    Spec => [](/\ created < ConnLimit * RequestLimit + 1
               /\ \A id \in DOMAIN rooms : rooms[id].playerCount < Cardinality(Users) + 1)
<1>1. Inv /\ Counted => created < ConnLimit * RequestLimit + 1
    <2> SUFFICES ASSUME Inv, Counted PROVE created < ConnLimit * RequestLimit + 1
        OBVIOUS
    <2> PICK n \in Nat : n = ConnLimit * RequestLimit
        BY BoundsAssumption
    <2>1. created \in Nat /\ created <= Cardinality(TakenUp)
        BY DEF Inv, Types, TablesTyped, Counted, Rooms!TypeOK
    <2>2. Cardinality(TakenUp) \in Nat /\ Cardinality(TakenUp) <= n
        BY TakenUpFinite
    <2>3. created < n + 1
        BY <2>1, <2>2
    <2> QED
        BY <2>3
<1>2. Inv /\ Counted /\ Rooms!GroupsWellFormed
         => \A id \in DOMAIN rooms : rooms[id].playerCount < Cardinality(Users) + 1
    <2> SUFFICES ASSUME Inv, Counted, Rooms!GroupsWellFormed, NEW id \in DOMAIN rooms
                 PROVE  rooms[id].playerCount < Cardinality(Users) + 1
        OBVIOUS
    <2> PICK s : s = rooms[id].group.members
        OBVIOUS
    <2>1. s \in Seq(Users)
        BY DEF Inv, Types, TablesTyped, Rooms!TypeOK, Rooms!RoomRecords, Rooms!Groups
    <2>2. \A i, j \in DOMAIN s : s[i] = s[j] => i = j
        BY DEF Rooms!GroupsWellFormed, Rooms!WellFormed
    <2>3. Len(s) <= Cardinality(Users)
        BY <2>1, <2>2, UsersAssumption, DistinctFits
    <2>4. rooms[id].playerCount = Len(s)
        BY DEF Counted
    <2>5. Len(s) \in Nat /\ Cardinality(Users) \in Nat
        BY <2>1, UsersAssumption, FS_CardinalityType
    <2> QED
        BY <2>3, <2>4, <2>5
<1>3. Spec => []Rooms!GroupsWellFormed
    BY RoomsKept, PTL
<1> QED
    BY <1>1, <1>2, <1>3, InvHolds, CountedHolds, PTL
=============================================================================
