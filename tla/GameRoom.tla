------------------------------ MODULE GameRoom ------------------------------
(***************************************************************************)
(* One room (src/src/business/GameRoom/GameRoom.cpp): its info_, its group  *)
(* of members and the part of its battle handler that starting and ending  *)
(* a game touches.  The operators take and return the record of a room;     *)
(* for a method M, MResult is the code it returns and, when that is "OK",   *)
(* the room it leaves behind is given by the operator named after M.  Any   *)
(* other result leaves the room as it was.                                  *)
(***************************************************************************)
EXTENDS Integers, Group

CONSTANTS
    Users,          \* valid user ids
    NoUser,         \* the user id 0
    Maps,           \* map paths a room may select
    LoadableMaps,   \* those whose file LoadMapData can read
    DefaultMap,     \* "default_map.json"
    Texts           \* room names and passwords

ASSUME MapsAssumption == LoadableMaps \subseteq Maps /\ DefaultMap \in Maps
ASSUME UsersAssumption == NoUser \notin Users

\* runtime_: the map and the players of the battle, kept by the handler from
\* one game to the next.  NoMap is the empty name it starts with.
CONSTANT NoMap

Runtimes == [map : Maps \cup {NoMap}, players : SUBSET Users]

RoomRecords(Codes) ==
    [code : Codes, owner : Users, name : Texts, password : Texts,
     group : Groups(Users), playerCount : Int, state : {"LOBBY", "RUNNING"},
     map : Maps, ticking : BOOLEAN, runtime : Runtimes]

\* The constructor: an empty lobby whose battle handler has no players.
NewRoom(code, owner, name, password, capacity) ==
    [code |-> code, owner |-> owner, name |-> name, password |-> password,
     group |-> NewGroup(capacity), playerCount |-> 0, state |-> "LOBBY",
     map |-> DefaultMap, ticking |-> FALSE,
     runtime |-> [map |-> NoMap, players |-> {}]]

IsRunning(room) == room.state = "RUNNING"
Roster(room) == MemberSet(room.group)

\* The group's answer as the room's answer.
MapGroupResult(result) ==
    CASE result = "ALREADY_IN_GROUP" -> "ALREADY_IN_ROOM"
      [] result = "NOT_IN_GROUP" -> "NOT_IN_ROOM"
      [] OTHER -> result

-----------------------------------------------------------------------------
(* Members. *)

\* Mutant of RoomJoinResult: a room accepts players while its game runs.
RoomJoinResult_whileRunning(room, player) ==
    CASE player = NoUser -> "NOT_AUTHORIZED"
      [] player # NoUser -> MapGroupResult(AddMemberResult(room.group, player))

\* The player has been entered in the room before the group answers, so
\* current_group_id changes for every answer of AddMember (see the manager).
RoomJoinResult(room, player) ==
    CASE IsRunning(room) -> "GAME_RUNNING"
      [] ~IsRunning(room) /\ player = NoUser -> "NOT_AUTHORIZED"
      [] OTHER -> MapGroupResult(AddMemberResult(room.group, player))

RoomJoin(room, player) ==
    [room EXCEPT !.group = AddMember(@, player), !.playerCount = @ + 1]

\* Members may leave at any time, the owner and a running game included.
RoomLeaveResult(room, player) ==
    MapGroupResult(RemoveMemberResult(room.group, player))

\* Mutant of RoomLeave: the count is taken down twice.
RoomLeave_countsTwice(room, player) ==
    [room EXCEPT !.group = RemoveMember(@, player), !.playerCount = @ - 2]

RoomLeave(room, player) ==
    [room EXCEPT !.group = RemoveMember(@, player), !.playerCount = @ - 1]

RoomSetReadyResult(room, player) ==
    IF Contains(room.group.members, player) THEN "OK" ELSE "NOT_IN_ROOM"

RoomKickResult(room, player, target) ==
    CASE player # room.owner -> "NOT_OWNER"
      [] player = room.owner /\ IsRunning(room) -> "GAME_RUNNING"
      [] player = room.owner /\ ~IsRunning(room) /\ target = player -> "ILLEGAL_OPERATION"
      [] OTHER -> MapGroupResult(RemoveMemberResult(room.group, target))

\* player_count is left as it was.
RoomKick(room, target) == [room EXCEPT !.group = RemoveMember(@, target)]

RoomChangeCapacityResult(room, player, capacity) ==
    IF player # room.owner THEN "NOT_OWNER"
    ELSE MapGroupResult(SetCapacityResult(room.group, capacity))

RoomChangeCapacity(room, capacity) == [room EXCEPT !.group = SetCapacity(@, capacity)]

-----------------------------------------------------------------------------
(* Settings: owner only, and the map only in the lobby. *)

\* Mutant of RoomChangeMapResult: the map can be changed under a running game.
RoomChangeMapResult_whileRunning(room, player) ==
    IF player # room.owner THEN "NOT_OWNER" ELSE "OK"

RoomChangeMapResult(room, player) ==
    CASE player # room.owner -> "NOT_OWNER"
      [] player = room.owner /\ room.state # "LOBBY" -> "ALREADY_RUNNING"
      [] OTHER -> "OK"

RoomChangeMap(room, map) == [room EXCEPT !.map = map]

RoomChangeTextResult(room, player) == IF player # room.owner THEN "NOT_OWNER" ELSE "OK"

RoomChangeName(room, name) == [room EXCEPT !.name = name]
RoomChangePassword(room, password) == [room EXCEPT !.password = password]

-----------------------------------------------------------------------------
(* The game. *)

\* "EXCEPTION": the handler throws because the map cannot be loaded.
RoomStartGameResult(room, player) ==
    CASE player # room.owner -> "NOT_OWNER"
      [] player = room.owner /\ IsRunning(room) -> "ALREADY_RUNNING"
      [] player = room.owner /\ ~IsRunning(room) /\ Len(room.group.members) < 2 ->
            "ILLEGAL_OPERATION"
      [] OTHER -> IF room.map \in LoadableMaps THEN "OK" ELSE "EXCEPTION"

\* InitGameState, StartGame with the match info of the current members,
\* StartTicking and the state change.
RoomStartGame(room) ==
    [room EXCEPT !.runtime = [map |-> room.map, players |-> Roster(room)],
                 !.ticking = TRUE, !.state = "RUNNING"]

\* The exception leaves the players cleared and the map name recorded.
RoomStartGameThrown(room) ==
    [room EXCEPT !.runtime = [map |-> room.map, players |-> {}]]

\* OnGameEnd, up to the broadcast (which changes no room).
RoomGameEnd(room) == [room EXCEPT !.state = "LOBBY", !.ticking = FALSE]

\* A dissolved room is stopped, emptied and put back in the lobby, and then
\* dropped by the manager: nothing can see it any more.
RoomDissolveResult(room, player) == IF player # room.owner THEN "NOT_OWNER" ELSE "OK"
=============================================================================
