-------------------------- MODULE GameRoomManager --------------------------
(***************************************************************************)
(* The room table (src/src/business/GameRoom/GameRoomManager.cpp) with the *)
(* rooms and the players it works on.                                      *)
(*                                                                         *)
(* Rooms change only in the methods of the manager, which the server calls *)
(* from one strand (RoomReqHandler), and in the battle handler's callback; *)
(* each method is one step.  An operation whose result is not "OK" leaves  *)
(* everything as it was unless an action below says otherwise.             *)
(*                                                                         *)
(* Not modelled: a logout that drops a player (nothing in the server calls *)
(* the logout callbacks) and an expired player manager (main holds it).    *)
(***************************************************************************)
EXTENDS GameRoom

CONSTANTS
    Codes,          \* the room codes GenRoomCode can draw
    Capacities,     \* the capacities callers ask for
    IdSpace,        \* number of room ids: 2^32 in the code
    CreateLimit,    \* bound on the number of CreateRoom calls
    CountLimit      \* bound on player_count, which kicks make drift

ASSUME IdSpaceAssumption == IdSpace \in Nat \ {0}
ASSUME LimitsAssumption == CreateLimit \in Nat /\ CountLimit \in Nat
ASSUME CapacitiesAssumption == Capacities \subseteq Nat

\* What the counter can yield.  That includes 0, "invalid" (Types.h:5), which
\* the code gives to a room like any other id when the counter goes round.
RoomIds == 0 .. IdSpace - 1
NoRoom == 0

VARIABLES
    rooms,          \* rooms_: room id -> room, for the live rooms
    codeMap,        \* room_code_map_: room code -> room id
    created,        \* number of CreateRoom calls so far; gives next_room_id_
    players,        \* keys of players_: users that have logged in
    currentGroup,   \* current_group_id of each user's player
    ready           \* ready flag of each user's player

vars == <<rooms, codeMap, created, players, currentGroup, ready>>

Init ==
    /\ rooms = [i \in {} |-> NoRoom]
    /\ codeMap = [c \in {} |-> NoRoom]
    /\ created = 0
    /\ players = {}
    /\ currentGroup = [u \in Users |-> NoRoom]
    /\ ready = [u \in Users |-> FALSE]

\* Mutant of NextRoomId: the counter starts at 0.
NextRoomId_fromZero == created % IdSpace

\* next_room_id_ starts at 1 and wraps at the width of RoomId.
NextRoomId == (1 + created) % IdSpace

-----------------------------------------------------------------------------
(* GamePlayerManager::onUserLogin: a player is created at the first login.  *)

PlayerLogin(u) ==
    /\ players' = players \cup {u}
    /\ UNCHANGED <<rooms, codeMap, created, currentGroup, ready>>

-----------------------------------------------------------------------------
(* CreateRoom *)

CreateRoomResult(owner, capacity) ==
    CASE owner \notin players -> "NOT_AUTHORIZED"
      [] OTHER -> MapGroupResult(AddMemberResult(NewGroup(capacity), owner))

\* unordered_map::insert: a code that is already there keeps its room.
InsertCode(code, id) ==
    [c \in DOMAIN codeMap \cup {code} |-> IF c \in DOMAIN codeMap THEN codeMap[c] ELSE id]

\* The id is spent whatever the outcome.  The owner's player has entered the
\* room before the group answers, even if the room is then thrown away.
CreateRoom(owner, name, password, capacity, code) ==
    /\ created < CreateLimit
    /\ created' = created + 1
    /\ currentGroup' = IF owner \in players
                       THEN [currentGroup EXCEPT ![owner] = NextRoomId]
                       ELSE currentGroup
    /\ IF CreateRoomResult(owner, capacity) = "OK"
       THEN /\ codeMap' = InsertCode(code, NextRoomId)
            /\ rooms' = [i \in DOMAIN rooms \cup {NextRoomId} |->
                            IF i = NextRoomId
                            THEN RoomJoin(NewRoom(code, owner, name, password, capacity), owner)
                            ELSE rooms[i]]
       ELSE UNCHANGED <<rooms, codeMap>>
    /\ UNCHANGED <<players, ready>>

-----------------------------------------------------------------------------
(* Operations on a live room. *)

\* Mutant of JoinRoomResult: users that never logged in are let in.
JoinRoomResult_anyUser(id, u) ==
    CASE id \notin DOMAIN rooms -> "NOT_FOUND"
      [] OTHER -> RoomJoinResult(rooms[id], u)

JoinRoomResult(id, u) ==
    CASE id \notin DOMAIN rooms -> "NOT_FOUND"
      [] id \in DOMAIN rooms /\ u \notin players -> "NOT_AUTHORIZED"
      [] OTHER -> RoomJoinResult(rooms[id], u)

\* EnterRoom precedes AddMember: a FULL or repeated join still moves the
\* player's current_group_id.
JoinRoom(id, u) ==
    /\ JoinRoomResult(id, u) \in {"OK", "FULL", "ALREADY_IN_ROOM"}
    /\ rooms[id].playerCount < CountLimit
    /\ currentGroup' = [currentGroup EXCEPT ![u] = id]
    /\ IF JoinRoomResult(id, u) = "OK"
       THEN rooms' = [rooms EXCEPT ![id] = RoomJoin(@, u)]
       ELSE UNCHANGED rooms
    /\ UNCHANGED <<codeMap, created, players, ready>>

\* The player's current_group_id is not reset.
LeaveRoom(id, u) ==
    /\ id \in DOMAIN rooms
    /\ RoomLeaveResult(rooms[id], u) = "OK"
    /\ rooms' = [rooms EXCEPT ![id] = RoomLeave(@, u)]
    /\ UNCHANGED <<codeMap, created, players, currentGroup, ready>>

\* The flag belongs to the player, not to the membership.
SetReady(id, u, r) ==
    /\ id \in DOMAIN rooms
    /\ RoomSetReadyResult(rooms[id], u) = "OK"
    /\ ready' = [ready EXCEPT ![u] = r]
    /\ UNCHANGED <<rooms, codeMap, created, players, currentGroup>>

StartGame(id, u) ==
    /\ id \in DOMAIN rooms
    /\ \/ /\ RoomStartGameResult(rooms[id], u) = "OK"
          /\ rooms' = [rooms EXCEPT ![id] = RoomStartGame(@)]
       \/ /\ RoomStartGameResult(rooms[id], u) = "EXCEPTION"
          /\ rooms' = [rooms EXCEPT ![id] = RoomStartGameThrown(@)]
    /\ UNCHANGED <<codeMap, created, players, currentGroup, ready>>

\* The battle handler reports the end of a running game.
OnGameEnd(id) ==
    /\ id \in DOMAIN rooms
    /\ IsRunning(rooms[id])
    /\ rooms' = [rooms EXCEPT ![id] = RoomGameEnd(@)]
    /\ UNCHANGED <<codeMap, created, players, currentGroup, ready>>

ChangeMap(id, u, map) ==
    /\ id \in DOMAIN rooms
    /\ RoomChangeMapResult(rooms[id], u) = "OK"
    /\ rooms' = [rooms EXCEPT ![id] = RoomChangeMap(@, map)]
    /\ UNCHANGED <<codeMap, created, players, currentGroup, ready>>

ChangeRoomName(id, u, name) ==
    /\ id \in DOMAIN rooms
    /\ RoomChangeTextResult(rooms[id], u) = "OK"
    /\ rooms' = [rooms EXCEPT ![id] = RoomChangeName(@, name)]
    /\ UNCHANGED <<codeMap, created, players, currentGroup, ready>>

ChangePassword(id, u, password) ==
    /\ id \in DOMAIN rooms
    /\ RoomChangeTextResult(rooms[id], u) = "OK"
    /\ rooms' = [rooms EXCEPT ![id] = RoomChangePassword(@, password)]
    /\ UNCHANGED <<codeMap, created, players, currentGroup, ready>>

KickPlayer(id, u, target) ==
    /\ id \in DOMAIN rooms
    /\ RoomKickResult(rooms[id], u, target) = "OK"
    /\ rooms' = [rooms EXCEPT ![id] = RoomKick(@, target)]
    /\ UNCHANGED <<codeMap, created, players, currentGroup, ready>>

ChangeCapacity(id, u, capacity) ==
    /\ id \in DOMAIN rooms
    /\ RoomChangeCapacityResult(rooms[id], u, capacity) = "OK"
    /\ rooms' = [rooms EXCEPT ![id] = RoomChangeCapacity(@, capacity)]
    /\ UNCHANGED <<codeMap, created, players, currentGroup, ready>>

\* Mutant of DissolveRoom: the code of the dissolved room stays in the map.
DissolveRoom_keepsCode(id, u) ==
    /\ id \in DOMAIN rooms
    /\ RoomDissolveResult(rooms[id], u) = "OK"
    /\ rooms' = [i \in DOMAIN rooms \ {id} |-> rooms[i]]
    /\ UNCHANGED <<codeMap, created, players, currentGroup, ready>>

\* Under the unique lock: the room's code goes, whichever room it named,
\* and then the room.
DissolveRoom(id, u) ==
    /\ id \in DOMAIN rooms
    /\ RoomDissolveResult(rooms[id], u) = "OK"
    /\ codeMap' = [c \in DOMAIN codeMap \ {rooms[id].code} |-> codeMap[c]]
    /\ rooms' = [i \in DOMAIN rooms \ {id} |-> rooms[i]]
    /\ UNCHANGED <<created, players, currentGroup, ready>>

-----------------------------------------------------------------------------

CreateStep ==
    \E owner \in Users \cup {NoUser}, name, password \in Texts, k \in Capacities, c \in Codes :
        CreateRoom(owner, name, password, k, c)

MemberStep(id) ==
    \E u \in Users \cup {NoUser} :
        \/ JoinRoom(id, u)
        \/ LeaveRoom(id, u)
        \/ \E r \in BOOLEAN : SetReady(id, u, r)

OwnerStep(id) ==
    \E u \in Users \cup {NoUser} :
        \/ StartGame(id, u)
        \/ DissolveRoom(id, u)
        \/ \E m \in Maps : ChangeMap(id, u, m)
        \/ \E t \in Texts : ChangeRoomName(id, u, t) \/ ChangePassword(id, u, t)
        \/ \E v \in Users : KickPlayer(id, u, v)
        \/ \E k \in Capacities : ChangeCapacity(id, u, k)

Next ==
    \/ \E u \in Users : PlayerLogin(u)
    \/ CreateStep
    \/ \E id \in DOMAIN rooms : MemberStep(id) \/ OwnerStep(id) \/ OnGameEnd(id)

Spec == Init /\ [][Next]_vars

-----------------------------------------------------------------------------
(* Properties. *)

\* Type invariant.  No room has the invalid id 0 until the counter has gone
\* round; from then on one may.
TypeOK ==
    /\ DOMAIN rooms \subseteq RoomIds
    /\ created < IdSpace => NoRoom \notin DOMAIN rooms
    /\ \A id \in DOMAIN rooms : rooms[id] \in RoomRecords(Codes)
    /\ DOMAIN codeMap \subseteq Codes
    /\ \A c \in DOMAIN codeMap : codeMap[c] \in RoomIds
    /\ created \in 0 .. CreateLimit
    /\ players \subseteq Users
    /\ currentGroup \in [Users -> RoomIds]
    /\ ready \in [Users -> BOOLEAN]

\* Whatever joins, leaves, kicks and changes of capacity came before, a room
\* never holds anybody twice and never holds more members than its capacity.
GroupsWellFormed == \A id \in DOMAIN rooms : WellFormed(rooms[id].group)

\* No id is used twice until next_room_id_ has gone once round its width.
IdsFresh == created <= IdSpace

\* A code that a client can type leads to a live room that carries that very
\* code, even after codes collided and rooms were dissolved in any order.
CodesResolve ==
    IdsFresh => \A c \in DOMAIN codeMap :
                   /\ codeMap[c] \in DOMAIN rooms
                   /\ rooms[codeMap[c]].code = c

\* While a game runs, its tick loop runs, its battle is played on the map the
\* room shows, and everybody in the room is one of the battle's players: no
\* join, kick, change of map or second start slips into a running game.
RunningRoomMatchesBattle ==
    \A id \in DOMAIN rooms :
        LET room == rooms[id]
        IN  /\ room.ticking <=> IsRunning(room)
            /\ IsRunning(room) => /\ room.runtime.map = room.map
                                  /\ room.map \in LoadableMaps
                                  /\ Roster(room) \subseteq room.runtime.players

\* player_count is a size_t that is taken down on every leave: it stays at or
\* above the number of members, so it never wraps below zero.
CountCoversMembers ==
    \A id \in DOMAIN rooms : rooms[id].playerCount >= Len(rooms[id].group.members)

\* Only players the server knows are in rooms or own them.
MembersArePlayers ==
    \A id \in DOMAIN rooms : Roster(rooms[id]) \cup {rooms[id].owner} \subseteq players

\* What the directory says of a room.
Listing(room) ==
    [owner |-> room.owner, seats |-> room.group.capacity, members |-> Roster(room),
     phase |-> room.state,
     fighters |-> IF room.state = "RUNNING" THEN room.runtime.players ELSE {}]

Listed == [id \in DOMAIN rooms |-> Listing(rooms[id])]

Directory == INSTANCE RoomDirectory WITH directory <- Listed

\* Every step of the table is one the directory allows: a game's players are
\* fixed when it starts and until it ends members can only leave; only owners
\* change the capacity, start a game or dissolve the room; and whatever the
\* code does besides (a start that throws, codes, names, counts, a refused
\* call) changes nothing that was promised.
DirectoryImplemented == Directory!Spec

\* "Used by the client to identify the room" (GameRoom.hpp:21): no two live
\* rooms share a code.
CodesIdentifyRooms ==
    \A i, j \in DOMAIN rooms : rooms[i].code = rooms[j].code => i = j
=============================================================================
