----------------------- MODULE GameRoomManager_proofs -----------------------
(***************************************************************************)
(* The safety of the room table, for any users, codes, capacities, bounds  *)
(* and width of the room ids.  The inductive invariant is Inv: every live  *)
(* room is sound by itself (SoundRoom), its people are known players, and  *)
(* until the id counter has gone round, ids are handed out in order        *)
(* (IdsInOrder) and every code leads to the room that carries it.          *)
(***************************************************************************)
EXTENDS GameRoomManager, Group_proofs

\* What holds of one room whatever happens to the others.
SoundRoom(room) ==
    /\ room \in RoomRecords(Codes)
    /\ WellFormed(room.group)
    /\ room.playerCount >= Len(room.group.members)
    /\ room.ticking <=> IsRunning(room)
    /\ IsRunning(room) => /\ room.runtime.map = room.map
                          /\ room.map \in LoadableMaps
                          /\ Roster(room) \subseteq room.runtime.players

\* Until the counter has gone round, the live rooms have ids it has passed:
\* 0 comes last, after all the others.
Passed == (1 .. created) \cup (IF created = IdSpace THEN {0} ELSE {})
IdsInOrder == IdsFresh => DOMAIN rooms \subseteq Passed

Inv ==
    /\ TypeOK
    /\ \A id \in DOMAIN rooms : SoundRoom(rooms[id])
    /\ MembersArePlayers
    /\ IdsInOrder
    /\ CodesResolve

-----------------------------------------------------------------------------
(* Each operation of a room keeps it sound.                                 *)

\* A new room with its owner in it is sound, and only the owner is in it.
LEMMA NewRoomSound ==
    ASSUME NEW c \in Codes, NEW u \in Users, NEW n \in Texts, NEW p \in Texts,
           NEW k \in Nat, AddMemberResult(NewGroup(k), u) = "OK"
    PROVE  LET room == RoomJoin(NewRoom(c, u, n, p, k), u)
           IN  /\ SoundRoom(room)
               /\ Roster(room) = {u}
               /\ room.owner = u /\ room.code = c
<1> DEFINE g == NewGroup(k)
           h == AddMember(g, u)
           new == NewRoom(c, u, n, p, k)
           room == RoomJoin(new, u)
<1>1. g \in Groups(Users) /\ WellFormed(g) /\ Len(g.members) = 0 /\ MemberSet(g) = {}
    BY NewGroupEffect
<1>2. /\ h \in Groups(Users) /\ WellFormed(h)
      /\ Len(h.members) = 1 /\ MemberSet(h) = {u}
    BY FirstMember
<1>3. /\ new.group = g /\ new.playerCount = 0 /\ new.owner = u /\ new.code = c
      /\ new.state = "LOBBY" /\ new.ticking = FALSE
      /\ \A x \in Groups(Users), y \in Int :
            [new EXCEPT !.group = x, !.playerCount = y] \in RoomRecords(Codes)
    BY <1>1, MapsAssumption DEF NewRoom, RoomRecords, Runtimes
<1>4. /\ room = [new EXCEPT !.group = h, !.playerCount = 1]
      /\ room.group = h /\ room.playerCount = 1 /\ room.owner = u /\ room.code = c
      /\ room.state = "LOBBY" /\ room.ticking = FALSE
    BY DEF RoomJoin, NewRoom
<1> HIDE DEF g, h, new, room
<1>5. room \in RoomRecords(Codes)
    <2>1. 1 \in Int
        OBVIOUS
    <2> QED
        BY <1>2, <1>3, <1>4, <2>1
<1>6. SoundRoom(room) /\ Roster(room) = {u} /\ room.owner = u /\ room.code = c
    <2>1. room.playerCount >= Len(room.group.members)
        <3>1. room.playerCount = 1 /\ Len(room.group.members) = 1
            BY <1>2, <1>4
        <3> QED
            BY <3>1
    <2>2. ~IsRunning(room) /\ ~room.ticking
        BY <1>4 DEF IsRunning
    <2> QED
        BY <1>2, <1>4, <1>5, <2>1, <2>2 DEF SoundRoom, Roster
<1> QED
    BY <1>6 DEF room, new

\* A join that the room accepts keeps it sound and adds just the player.
LEMMA JoinSound ==
    ASSUME NEW room, SoundRoom(room), NEW u \in Users,
           RoomJoinResult(room, u) = "OK"
    PROVE  /\ SoundRoom(RoomJoin(room, u))
           /\ Roster(RoomJoin(room, u)) = Roster(room) \cup {u}
           /\ RoomJoin(room, u).owner = room.owner
           /\ RoomJoin(room, u).code = room.code
<1>1. ~IsRunning(room) /\ AddMemberResult(room.group, u) = "OK"
    BY UsersAssumption DEF RoomJoinResult, MapGroupResult, AddMemberResult
<1> DEFINE h == AddMember(room.group, u)
           next == RoomJoin(room, u)
<1>2. room \in RoomRecords(Codes) /\ room.group \in Groups(Users) /\ room.playerCount \in Int
    BY DEF SoundRoom, RoomRecords
<1>3. /\ h \in Groups(Users) /\ WellFormed(h) /\ MemberSet(h) = MemberSet(room.group) \cup {u}
      /\ Len(h.members) = Len(room.group.members) + 1 /\ Len(room.group.members) \in Nat
    BY <1>1, <1>2, AddMemberEffect DEF SoundRoom, Groups
<1> DEFINE count == room.playerCount + 1
<1>4. next = [room EXCEPT !.group = h, !.playerCount = count] /\ count \in Int
    BY <1>2 DEF RoomJoin
<1> HIDE DEF h, next, count
<1>5. next \in RoomRecords(Codes)
    BY <1>2, <1>3, <1>4 DEF RoomRecords
<1>6. /\ next.group = h /\ next.playerCount = count
      /\ next.state = room.state /\ next.ticking = room.ticking
      /\ next.runtime = room.runtime /\ next.map = room.map
      /\ next.owner = room.owner /\ next.code = room.code
    BY <1>2, <1>4 DEF RoomRecords
<1>7. next.playerCount >= Len(next.group.members)
    BY <1>2, <1>3, <1>6 DEF SoundRoom, count
<1>8. SoundRoom(next)
    BY <1>1, <1>3, <1>5, <1>6, <1>7 DEF SoundRoom, IsRunning, Roster
<1> QED
    BY <1>3, <1>6, <1>8 DEF next, Roster

\* A member's departure keeps the room sound, whatever its state.
LEMMA LeaveSound ==
    ASSUME NEW room, SoundRoom(room), NEW u,
           RoomLeaveResult(room, u) = "OK"
    PROVE  /\ SoundRoom(RoomLeave(room, u))
           /\ Roster(RoomLeave(room, u)) \subseteq Roster(room)
           /\ RoomLeave(room, u).owner = room.owner
           /\ RoomLeave(room, u).code = room.code
<1>1. RemoveMemberResult(room.group, u) = "OK"
    BY DEF RoomLeaveResult, MapGroupResult, RemoveMemberResult
<1> DEFINE h == RemoveMember(room.group, u)
           next == RoomLeave(room, u)
<1>2. room \in RoomRecords(Codes) /\ room.group \in Groups(Users) /\ room.playerCount \in Int
    BY DEF SoundRoom, RoomRecords
<1>3. /\ h \in Groups(Users) /\ WellFormed(h) /\ MemberSet(h) \subseteq MemberSet(room.group)
      /\ Len(h.members) = Len(room.group.members) - 1 /\ Len(room.group.members) \in Nat
    BY <1>1, <1>2, RemoveMemberEffect DEF SoundRoom, Groups
<1> DEFINE count == room.playerCount - 1
<1>4. next = [room EXCEPT !.group = h, !.playerCount = count] /\ count \in Int
    BY <1>2 DEF RoomLeave
<1> HIDE DEF h, next, count
<1>5. next \in RoomRecords(Codes)
    BY <1>2, <1>3, <1>4 DEF RoomRecords
<1>6. /\ next.group = h /\ next.playerCount = count
      /\ next.state = room.state /\ next.ticking = room.ticking
      /\ next.runtime = room.runtime /\ next.map = room.map
      /\ next.owner = room.owner /\ next.code = room.code
    BY <1>2, <1>4 DEF RoomRecords
<1>7. next.playerCount >= Len(next.group.members)
    BY <1>2, <1>3, <1>6 DEF SoundRoom, count
<1>8. SoundRoom(next)
    BY <1>1, <1>3, <1>5, <1>6, <1>7 DEF SoundRoom, IsRunning, Roster
<1> QED
    BY <1>3, <1>6, <1>8 DEF next, Roster

\* A kick happens in the lobby and leaves the count alone: the room stays sound.
LEMMA KickSound ==
    ASSUME NEW room, SoundRoom(room), NEW u, NEW v,
           RoomKickResult(room, u, v) = "OK"
    PROVE  /\ SoundRoom(RoomKick(room, v))
           /\ Roster(RoomKick(room, v)) \subseteq Roster(room)
           /\ RoomKick(room, v).owner = room.owner
           /\ RoomKick(room, v).code = room.code
<1>1. RemoveMemberResult(room.group, v) = "OK"
    BY DEF RoomKickResult, MapGroupResult, RemoveMemberResult
<1> QED
    BY <1>1, RemoveMemberEffect DEF SoundRoom, RoomKick, RoomRecords, IsRunning, Roster

\* A new capacity never falls below the members.
LEMMA ChangeCapacitySound ==
    ASSUME NEW room, SoundRoom(room), NEW u, NEW k \in Nat,
           RoomChangeCapacityResult(room, u, k) = "OK"
    PROVE  /\ SoundRoom(RoomChangeCapacity(room, k))
           /\ Roster(RoomChangeCapacity(room, k)) = Roster(room)
           /\ RoomChangeCapacity(room, k).owner = room.owner
           /\ RoomChangeCapacity(room, k).code = room.code
<1>1. SetCapacityResult(room.group, k) = "OK"
    BY DEF RoomChangeCapacityResult, MapGroupResult, SetCapacityResult
<1> QED
    BY <1>1, SetCapacityEffect
    DEF SoundRoom, RoomChangeCapacity, RoomRecords, IsRunning, Roster, MemberSet

\* Starting a game makes the battle's map and players those of the room.
LEMMA StartGameSound ==
    ASSUME NEW room, SoundRoom(room), NEW u,
           RoomStartGameResult(room, u) = "OK"
    PROVE  /\ SoundRoom(RoomStartGame(room))
           /\ Roster(RoomStartGame(room)) = Roster(room)
           /\ RoomStartGame(room).owner = room.owner
           /\ RoomStartGame(room).code = room.code
<1>1. room.map \in LoadableMaps
    BY DEF RoomStartGameResult
<1>2. Roster(room) \subseteq Users
    BY DEF SoundRoom, RoomRecords, Groups, Roster, MemberSet, ToSet
<1> QED
    BY <1>1, <1>2 DEF SoundRoom, RoomStartGame, RoomRecords, Runtimes, IsRunning, Roster

\* A map that does not load leaves the room in the lobby.
LEMMA StartGameThrownSound ==
    ASSUME NEW room, SoundRoom(room), NEW u,
           RoomStartGameResult(room, u) = "EXCEPTION"
    PROVE  /\ SoundRoom(RoomStartGameThrown(room))
           /\ Roster(RoomStartGameThrown(room)) = Roster(room)
           /\ RoomStartGameThrown(room).owner = room.owner
           /\ RoomStartGameThrown(room).code = room.code
<1>1. ~IsRunning(room)
    BY DEF RoomStartGameResult, MapGroupResult
<1> QED
    BY <1>1 DEF SoundRoom, RoomStartGameThrown, RoomRecords, Runtimes, IsRunning, Roster

\* The end of a game stops the ticks with it.
LEMMA GameEndSound ==
    ASSUME NEW room, SoundRoom(room)
    PROVE  /\ SoundRoom(RoomGameEnd(room))
           /\ Roster(RoomGameEnd(room)) = Roster(room)
           /\ RoomGameEnd(room).owner = room.owner
           /\ RoomGameEnd(room).code = room.code
BY DEF SoundRoom, RoomGameEnd, RoomRecords, IsRunning, Roster

\* The map changes only in the lobby.
LEMMA ChangeMapSound ==
    ASSUME NEW room, SoundRoom(room), NEW u, NEW m \in Maps,
           RoomChangeMapResult(room, u) = "OK"
    PROVE  /\ SoundRoom(RoomChangeMap(room, m))
           /\ Roster(RoomChangeMap(room, m)) = Roster(room)
           /\ RoomChangeMap(room, m).owner = room.owner
           /\ RoomChangeMap(room, m).code = room.code
<1>1. ~IsRunning(room)
    BY DEF RoomChangeMapResult, IsRunning
<1> QED
    BY <1>1 DEF SoundRoom, RoomChangeMap, RoomRecords, IsRunning, Roster

\* Name and password have no part in the other fields.
LEMMA ChangeTextSound ==
    ASSUME NEW room, SoundRoom(room), NEW t \in Texts
    PROVE  /\ SoundRoom(RoomChangeName(room, t)) /\ SoundRoom(RoomChangePassword(room, t))
           /\ Roster(RoomChangeName(room, t)) = Roster(room)
           /\ Roster(RoomChangePassword(room, t)) = Roster(room)
           /\ RoomChangeName(room, t).owner = room.owner
           /\ RoomChangeName(room, t).code = room.code
           /\ RoomChangePassword(room, t).owner = room.owner
           /\ RoomChangePassword(room, t).code = room.code
BY DEF SoundRoom, RoomChangeName, RoomChangePassword, RoomRecords, IsRunning, Roster

-----------------------------------------------------------------------------
(* Each action of the table keeps the invariant.                            *)

\* Putting a sound room with the same code and owner, and no unknown member,
\* in the place of a live one keeps the invariant: nearly every action is such
\* a replacement.
LEMMA ReplaceRoom ==
    ASSUME Inv, NEW id \in DOMAIN rooms, NEW r,
           SoundRoom(r), Roster(r) \subseteq players,
           r.owner = rooms[id].owner, r.code = rooms[id].code,
           rooms' = [rooms EXCEPT ![id] = r],
           currentGroup' \in [Users -> RoomIds],
           UNCHANGED <<codeMap, created, players, ready>>
    PROVE  Inv'
<1>1. /\ DOMAIN rooms' = DOMAIN rooms
      /\ \A i \in DOMAIN rooms : rooms'[i] = IF i = id THEN r ELSE rooms[i]
    OBVIOUS
<1>2. \A i \in DOMAIN rooms' : SoundRoom(rooms'[i])
    BY <1>1 DEF Inv
<1>3. TypeOK'
    BY <1>1, <1>2 DEF Inv, TypeOK, SoundRoom
<1>4. MembersArePlayers'
    BY <1>1 DEF Inv, MembersArePlayers
<1>5. IdsInOrder' /\ CodesResolve'
    BY <1>1 DEF Inv, IdsInOrder, Passed, CodesResolve, IdsFresh
<1> QED
    BY <1>2, <1>3, <1>4, <1>5 DEF Inv

\* A new id is in range, and fresh until the counter wraps.
LEMMA NextRoomIdFresh ==
    ASSUME Inv
    PROVE  /\ NextRoomId \in RoomIds
           /\ created + 1 <= IdSpace =>
                 /\ NextRoomId = IF created + 1 < IdSpace THEN created + 1 ELSE 0
                 /\ NextRoomId \notin DOMAIN rooms
<1>1. created \in Nat /\ IdSpace \in Nat /\ IdSpace > 0
    BY IdSpaceAssumption, LimitsAssumption DEF Inv, TypeOK
<1>2. NextRoomId \in 0 .. IdSpace - 1
    BY <1>1 DEF NextRoomId
<1>3. ASSUME created + 1 <= IdSpace
      PROVE  /\ NextRoomId = IF created + 1 < IdSpace THEN created + 1 ELSE 0
             /\ NextRoomId \notin DOMAIN rooms
    <2>1. NextRoomId = IF created + 1 < IdSpace THEN created + 1 ELSE 0
        <3>1. CASE created + 1 < IdSpace
            BY <1>1, <3>1 DEF NextRoomId
        <3>2. CASE created + 1 = IdSpace
            BY <1>1, <3>2 DEF NextRoomId
        <3> QED
            BY <1>1, <1>3, <3>1, <3>2
    <2>2. DOMAIN rooms \subseteq 1 .. created
        BY <1>1, <1>3 DEF Inv, IdsInOrder, IdsFresh, Passed
    <2> QED
        BY <1>1, <2>1, <2>2
<1> QED
    BY <1>2, <1>3 DEF RoomIds

\* A spent id with no room: the table is as it was, one call later.
LEMMA CreateRefused ==
    ASSUME Inv, created < CreateLimit, created' = created + 1,
           currentGroup' \in [Users -> RoomIds],
           UNCHANGED <<rooms, codeMap, players, ready>>
    PROVE  Inv'
<1>1. created \in Nat /\ created' \in 0 .. CreateLimit /\ IdSpace \in Nat
    BY IdSpaceAssumption, LimitsAssumption DEF Inv, TypeOK
<1>2. TypeOK'
    BY <1>1 DEF Inv, TypeOK
<1>3. IdsInOrder'
    BY <1>1 DEF Inv, IdsInOrder, IdsFresh, Passed
<1>4. CodesResolve'
    BY <1>1 DEF Inv, CodesResolve, IdsFresh
<1> QED
    BY <1>2, <1>3, <1>4 DEF Inv, MembersArePlayers

\* CreateRoom keeps the invariant, whether the room is made or refused.
LEMMA CreateRoomStep ==
    ASSUME Inv, NEW u \in Users \cup {NoUser}, NEW n \in Texts, NEW p \in Texts,
           NEW k \in Capacities, NEW c \in Codes, CreateRoom(u, n, p, k, c)
    PROVE  Inv'
<1>1. NextRoomId \in RoomIds
    BY NextRoomIdFresh
<1>2. currentGroup' \in [Users -> RoomIds]
    BY <1>1 DEF CreateRoom, Inv, TypeOK
<1>3. CASE CreateRoomResult(u, k) # "OK"
    BY <1>2, <1>3, CreateRefused DEF CreateRoom
<1>4. CASE CreateRoomResult(u, k) = "OK"
    <2> DEFINE id == NextRoomId
               r == RoomJoin(NewRoom(c, u, n, p, k), u)
    <2>1. u \in players /\ AddMemberResult(NewGroup(k), u) = "OK"
        BY <1>4 DEF CreateRoomResult, MapGroupResult, AddMemberResult
    <2>2. u \in Users /\ k \in Nat
        BY <2>1, CapacitiesAssumption DEF Inv, TypeOK
    <2>3. SoundRoom(r) /\ Roster(r) = {u} /\ r.owner = u /\ r.code = c
        BY <2>1, <2>2, NewRoomSound
    <2>4. /\ DOMAIN rooms' = DOMAIN rooms \cup {id}
          /\ \A i \in DOMAIN rooms' : rooms'[i] = IF i = id THEN r ELSE rooms[i]
        BY <1>4 DEF CreateRoom
    <2>5. /\ DOMAIN codeMap' = DOMAIN codeMap \cup {c}
          /\ \A d \in DOMAIN codeMap' :
                codeMap'[d] = IF d \in DOMAIN codeMap THEN codeMap[d] ELSE id
        BY <1>4 DEF CreateRoom, InsertCode
    <2>6. /\ created < CreateLimit /\ created' = created + 1
          /\ players' = players /\ ready' = ready
        BY DEF CreateRoom
    <2> HIDE DEF id, r
    <2>7. id \in RoomIds /\ created \in Nat /\ created' \in 0 .. CreateLimit /\ IdSpace \in Nat
        BY <1>1, <2>6, IdSpaceAssumption, LimitsAssumption DEF id, Inv, TypeOK
    <2>8. \A i \in DOMAIN rooms' : SoundRoom(rooms'[i])
        BY <2>3, <2>4 DEF Inv
    <2>15. ASSUME created' < IdSpace
           PROVE  NoRoom \notin DOMAIN rooms'
        <3>1. created + 1 < IdSpace /\ created < IdSpace
            BY <2>6, <2>7, <2>15
        <3>2. id = created + 1
            BY <2>7, <3>1 DEF id, NextRoomId
        <3>3. NoRoom \notin DOMAIN rooms
            BY <3>1 DEF Inv, TypeOK
        <3>4. id # NoRoom
            BY <2>7, <3>2 DEF NoRoom
        <3> QED
            BY <2>4, <3>3, <3>4
    <2>9. TypeOK'
        BY <1>2, <2>4, <2>5, <2>6, <2>7, <2>8, <2>15 DEF Inv, TypeOK, SoundRoom
    <2>10. MembersArePlayers'
        BY <2>1, <2>3, <2>4, <2>6 DEF Inv, MembersArePlayers
    <2>11. ASSUME IdsFresh'
           PROVE  /\ created + 1 <= IdSpace /\ IdsFresh
                  /\ id = IF created + 1 < IdSpace THEN created + 1 ELSE 0
                  /\ id \notin DOMAIN rooms
        BY <2>6, <2>7, <2>11, NextRoomIdFresh DEF IdsFresh, id
    <2>12. IdsInOrder'
        BY <2>4, <2>6, <2>7, <2>11 DEF Inv, IdsInOrder, Passed
    <2>13. CodesResolve'
        BY <2>3, <2>4, <2>5, <2>11 DEF Inv, CodesResolve
    <2> QED
        BY <2>8, <2>9, <2>10, <2>12, <2>13 DEF Inv
<1> QED
    BY <1>3, <1>4

\* DissolveRoom drops the room and every way to it.
LEMMA DissolveRoomStep ==
    ASSUME Inv, NEW id, NEW u, DissolveRoom(id, u)
    PROVE  Inv'
<1>1. /\ id \in DOMAIN rooms
      /\ DOMAIN rooms' = DOMAIN rooms \ {id}
      /\ \A i \in DOMAIN rooms' : rooms'[i] = rooms[i]
      /\ DOMAIN codeMap' = DOMAIN codeMap \ {rooms[id].code}
      /\ \A d \in DOMAIN codeMap' : codeMap'[d] = codeMap[d]
      /\ UNCHANGED <<created, players, currentGroup, ready>>
    BY DEF DissolveRoom
<1>2. \A i \in DOMAIN rooms' : SoundRoom(rooms'[i])
    BY <1>1 DEF Inv
<1>3. TypeOK'
    BY <1>1, <1>2 DEF Inv, TypeOK, SoundRoom
<1>4. MembersArePlayers' /\ IdsInOrder'
    BY <1>1 DEF Inv, MembersArePlayers, IdsInOrder, IdsFresh, Passed
<1>5. CodesResolve'
    \* a code that survives is not the room's, so it did not lead to the room
    BY <1>1 DEF Inv, CodesResolve, IdsFresh
<1> QED
    BY <1>2, <1>3, <1>4, <1>5 DEF Inv

\* A login or a ready flag touches no room.
LEMMA PlayerStep ==
    ASSUME Inv, players \subseteq players', players' \subseteq Users,
           ready' \in [Users -> BOOLEAN],
           UNCHANGED <<rooms, codeMap, created, currentGroup>>
    PROVE  Inv'
BY DEF Inv, TypeOK, MembersArePlayers, IdsInOrder, Passed, CodesResolve, IdsFresh

\* JoinRoom keeps the invariant, accepted or not.
LEMMA JoinRoomStep ==
    ASSUME Inv, NEW id \in DOMAIN rooms, NEW u \in Users \cup {NoUser}, JoinRoom(id, u)
    PROVE  Inv'
<1>1. u \in players /\ u \in Users
    BY DEF JoinRoom, JoinRoomResult, Inv, TypeOK
<1>2. id \in RoomIds /\ currentGroup' \in [Users -> RoomIds]
    BY <1>1 DEF JoinRoom, Inv, TypeOK
<1>3. SoundRoom(rooms[id]) /\ Roster(rooms[id]) \subseteq players
    BY DEF Inv, MembersArePlayers
<1>4. CASE JoinRoomResult(id, u) = "OK"
    <2>1. RoomJoinResult(rooms[id], u) = "OK"
        BY <1>1, <1>4 DEF JoinRoomResult
    <2>2. /\ rooms' = [rooms EXCEPT ![id] = RoomJoin(rooms[id], u)]
          /\ UNCHANGED <<codeMap, created, players, ready>>
        BY <1>4 DEF JoinRoom
    <2>3. /\ SoundRoom(RoomJoin(rooms[id], u))
          /\ Roster(RoomJoin(rooms[id], u)) \subseteq players
          /\ RoomJoin(rooms[id], u).owner = rooms[id].owner
          /\ RoomJoin(rooms[id], u).code = rooms[id].code
        BY <1>1, <1>3, <2>1, JoinSound
    <2> QED
        BY <1>2, <2>2, <2>3, ReplaceRoom
<1>5. CASE JoinRoomResult(id, u) # "OK"
    <2>1. UNCHANGED <<rooms, codeMap, created, players, ready>>
        BY <1>5 DEF JoinRoom
    <2> QED
        BY <1>2, <2>1 DEF Inv, TypeOK, MembersArePlayers, IdsInOrder, Passed, CodesResolve, IdsFresh
<1> QED
    BY <1>4, <1>5

\* LeaveRoom keeps the invariant.
LEMMA LeaveRoomStep ==
    ASSUME Inv, NEW id \in DOMAIN rooms, NEW u, LeaveRoom(id, u)
    PROVE  Inv'
<1>1. SoundRoom(rooms[id]) /\ Roster(rooms[id]) \subseteq players
    BY DEF Inv, MembersArePlayers
<1>2. /\ RoomLeaveResult(rooms[id], u) = "OK"
      /\ rooms' = [rooms EXCEPT ![id] = RoomLeave(rooms[id], u)]
      /\ UNCHANGED <<codeMap, created, players, currentGroup, ready>>
    BY DEF LeaveRoom
<1>3. /\ SoundRoom(RoomLeave(rooms[id], u)) /\ Roster(RoomLeave(rooms[id], u)) \subseteq players
      /\ RoomLeave(rooms[id], u).owner = rooms[id].owner
      /\ RoomLeave(rooms[id], u).code = rooms[id].code
    BY <1>1, <1>2, LeaveSound
<1>4. currentGroup' \in [Users -> RoomIds]
    BY <1>2 DEF Inv, TypeOK
<1> QED
    BY <1>2, <1>3, <1>4, ReplaceRoom

\* KickPlayer keeps the invariant.
LEMMA KickPlayerStep ==
    ASSUME Inv, NEW id \in DOMAIN rooms, NEW u, NEW v, KickPlayer(id, u, v)
    PROVE  Inv'
<1>1. SoundRoom(rooms[id]) /\ Roster(rooms[id]) \subseteq players
    BY DEF Inv, MembersArePlayers
<1>2. /\ RoomKickResult(rooms[id], u, v) = "OK"
      /\ rooms' = [rooms EXCEPT ![id] = RoomKick(rooms[id], v)]
      /\ UNCHANGED <<codeMap, created, players, currentGroup, ready>>
    BY DEF KickPlayer
<1>3. /\ SoundRoom(RoomKick(rooms[id], v)) /\ Roster(RoomKick(rooms[id], v)) \subseteq players
      /\ RoomKick(rooms[id], v).owner = rooms[id].owner
      /\ RoomKick(rooms[id], v).code = rooms[id].code
    BY <1>1, <1>2, KickSound
<1>4. currentGroup' \in [Users -> RoomIds]
    BY <1>2 DEF Inv, TypeOK
<1> QED
    BY <1>2, <1>3, <1>4, ReplaceRoom

\* ChangeCapacity keeps the invariant.
LEMMA ChangeCapacityStep ==
    ASSUME Inv, NEW id \in DOMAIN rooms, NEW u, NEW k \in Nat, ChangeCapacity(id, u, k)
    PROVE  Inv'
<1>1. SoundRoom(rooms[id]) /\ Roster(rooms[id]) \subseteq players
    BY DEF Inv, MembersArePlayers
<1>2. /\ RoomChangeCapacityResult(rooms[id], u, k) = "OK"
      /\ rooms' = [rooms EXCEPT ![id] = RoomChangeCapacity(rooms[id], k)]
      /\ UNCHANGED <<codeMap, created, players, currentGroup, ready>>
    BY DEF ChangeCapacity
<1>3. /\ SoundRoom(RoomChangeCapacity(rooms[id], k)) /\ Roster(RoomChangeCapacity(rooms[id], k)) \subseteq players
      /\ RoomChangeCapacity(rooms[id], k).owner = rooms[id].owner
      /\ RoomChangeCapacity(rooms[id], k).code = rooms[id].code
    BY <1>1, <1>2, ChangeCapacitySound
<1>4. currentGroup' \in [Users -> RoomIds]
    BY <1>2 DEF Inv, TypeOK
<1> QED
    BY <1>2, <1>3, <1>4, ReplaceRoom

\* ChangeMap keeps the invariant.
LEMMA ChangeMapStep ==
    ASSUME Inv, NEW id \in DOMAIN rooms, NEW u, NEW m \in Maps, ChangeMap(id, u, m)
    PROVE  Inv'
<1>1. SoundRoom(rooms[id]) /\ Roster(rooms[id]) \subseteq players
    BY DEF Inv, MembersArePlayers
<1>2. /\ RoomChangeMapResult(rooms[id], u) = "OK"
      /\ rooms' = [rooms EXCEPT ![id] = RoomChangeMap(rooms[id], m)]
      /\ UNCHANGED <<codeMap, created, players, currentGroup, ready>>
    BY DEF ChangeMap
<1>3. /\ SoundRoom(RoomChangeMap(rooms[id], m)) /\ Roster(RoomChangeMap(rooms[id], m)) \subseteq players
      /\ RoomChangeMap(rooms[id], m).owner = rooms[id].owner
      /\ RoomChangeMap(rooms[id], m).code = rooms[id].code
    BY <1>1, <1>2, ChangeMapSound
<1>4. currentGroup' \in [Users -> RoomIds]
    BY <1>2 DEF Inv, TypeOK
<1> QED
    BY <1>2, <1>3, <1>4, ReplaceRoom

\* ChangeRoomName keeps the invariant.
LEMMA ChangeRoomNameStep ==
    ASSUME Inv, NEW id \in DOMAIN rooms, NEW u, NEW t \in Texts, ChangeRoomName(id, u, t)
    PROVE  Inv'
<1>1. SoundRoom(rooms[id]) /\ Roster(rooms[id]) \subseteq players
    BY DEF Inv, MembersArePlayers
<1>2. /\ t \in Texts
      /\ rooms' = [rooms EXCEPT ![id] = RoomChangeName(rooms[id], t)]
      /\ UNCHANGED <<codeMap, created, players, currentGroup, ready>>
    BY DEF ChangeRoomName
<1>3. /\ SoundRoom(RoomChangeName(rooms[id], t)) /\ Roster(RoomChangeName(rooms[id], t)) \subseteq players
      /\ RoomChangeName(rooms[id], t).owner = rooms[id].owner
      /\ RoomChangeName(rooms[id], t).code = rooms[id].code
    BY <1>1, <1>2, ChangeTextSound
<1>4. currentGroup' \in [Users -> RoomIds]
    BY <1>2 DEF Inv, TypeOK
<1> QED
    BY <1>2, <1>3, <1>4, ReplaceRoom

\* ChangePassword keeps the invariant.
LEMMA ChangePasswordStep ==
    ASSUME Inv, NEW id \in DOMAIN rooms, NEW u, NEW t \in Texts, ChangePassword(id, u, t)
    PROVE  Inv'
<1>1. SoundRoom(rooms[id]) /\ Roster(rooms[id]) \subseteq players
    BY DEF Inv, MembersArePlayers
<1>2. /\ t \in Texts
      /\ rooms' = [rooms EXCEPT ![id] = RoomChangePassword(rooms[id], t)]
      /\ UNCHANGED <<codeMap, created, players, currentGroup, ready>>
    BY DEF ChangePassword
<1>3. /\ SoundRoom(RoomChangePassword(rooms[id], t)) /\ Roster(RoomChangePassword(rooms[id], t)) \subseteq players
      /\ RoomChangePassword(rooms[id], t).owner = rooms[id].owner
      /\ RoomChangePassword(rooms[id], t).code = rooms[id].code
    BY <1>1, <1>2, ChangeTextSound
<1>4. currentGroup' \in [Users -> RoomIds]
    BY <1>2 DEF Inv, TypeOK
<1> QED
    BY <1>2, <1>3, <1>4, ReplaceRoom

\* OnGameEnd keeps the invariant.
LEMMA OnGameEndStep ==
    ASSUME Inv, NEW id \in DOMAIN rooms, OnGameEnd(id)
    PROVE  Inv'
<1>1. SoundRoom(rooms[id]) /\ Roster(rooms[id]) \subseteq players
    BY DEF Inv, MembersArePlayers
<1>2. /\ id \in DOMAIN rooms
      /\ rooms' = [rooms EXCEPT ![id] = RoomGameEnd(rooms[id])]
      /\ UNCHANGED <<codeMap, created, players, currentGroup, ready>>
    BY DEF OnGameEnd
<1>3. /\ SoundRoom(RoomGameEnd(rooms[id])) /\ Roster(RoomGameEnd(rooms[id])) \subseteq players
      /\ RoomGameEnd(rooms[id]).owner = rooms[id].owner
      /\ RoomGameEnd(rooms[id]).code = rooms[id].code
    BY <1>1, <1>2, GameEndSound
<1>4. currentGroup' \in [Users -> RoomIds]
    BY <1>2 DEF Inv, TypeOK
<1> QED
    BY <1>2, <1>3, <1>4, ReplaceRoom

\* StartGame keeps the invariant, whether the map loads or not.
LEMMA StartGameStep ==
    ASSUME Inv, NEW id \in DOMAIN rooms, NEW u, StartGame(id, u)
    PROVE  Inv'
<1>1. SoundRoom(rooms[id]) /\ Roster(rooms[id]) \subseteq players
    BY DEF Inv, MembersArePlayers
<1>2. UNCHANGED <<codeMap, created, players, currentGroup, ready>>
    BY DEF StartGame
<1>3. currentGroup' \in [Users -> RoomIds]
    BY <1>2 DEF Inv, TypeOK
<1>4. CASE /\ RoomStartGameResult(rooms[id], u) = "OK"
           /\ rooms' = [rooms EXCEPT ![id] = RoomStartGame(rooms[id])]
    <2>1. /\ SoundRoom(RoomStartGame(rooms[id]))
          /\ Roster(RoomStartGame(rooms[id])) \subseteq players
          /\ RoomStartGame(rooms[id]).owner = rooms[id].owner
          /\ RoomStartGame(rooms[id]).code = rooms[id].code
        BY <1>1, <1>4, StartGameSound
    <2> QED
        BY <1>2, <1>3, <1>4, <2>1, ReplaceRoom
<1>5. CASE /\ RoomStartGameResult(rooms[id], u) = "EXCEPTION"
           /\ rooms' = [rooms EXCEPT ![id] = RoomStartGameThrown(rooms[id])]
    <2>1. /\ SoundRoom(RoomStartGameThrown(rooms[id]))
          /\ Roster(RoomStartGameThrown(rooms[id])) \subseteq players
          /\ RoomStartGameThrown(rooms[id]).owner = rooms[id].owner
          /\ RoomStartGameThrown(rooms[id]).code = rooms[id].code
        BY <1>1, <1>5, StartGameThrownSound
    <2> QED
        BY <1>2, <1>3, <1>5, <2>1, ReplaceRoom
<1> QED
    BY <1>4, <1>5 DEF StartGame

-----------------------------------------------------------------------------

\* The invariant is inductive.
LEMMA InvStep == Inv /\ [Next]_vars => Inv'
<1> SUFFICES ASSUME Inv, [Next]_vars
             PROVE  Inv'
    OBVIOUS
<1>1. ASSUME NEW u \in Users, PlayerLogin(u)
      PROVE  Inv'
    <2>1. /\ players \subseteq players' /\ players' \subseteq Users
          /\ ready' \in [Users -> BOOLEAN]
          /\ UNCHANGED <<rooms, codeMap, created, currentGroup>>
        BY <1>1 DEF PlayerLogin, Inv, TypeOK
    <2> QED
        BY <2>1, PlayerStep
<1>2. CASE CreateStep
    BY <1>2, CreateRoomStep DEF CreateStep
<1>3. ASSUME NEW id \in DOMAIN rooms, MemberStep(id)
      PROVE  Inv'
    <2>1. ASSUME NEW u \in Users \cup {NoUser}, NEW r \in BOOLEAN, SetReady(id, u, r)
          PROVE  Inv'
        <3>1. /\ players \subseteq players' /\ players' \subseteq Users
              /\ ready' \in [Users -> BOOLEAN]
              /\ UNCHANGED <<rooms, codeMap, created, currentGroup>>
            BY <2>1 DEF SetReady, Inv, TypeOK
        <3> QED
            BY <3>1, PlayerStep
    <2> QED
        BY <1>3, <2>1, JoinRoomStep, LeaveRoomStep DEF MemberStep
<1>4. ASSUME NEW id \in DOMAIN rooms, OwnerStep(id)
      PROVE  Inv'
    BY <1>4, CapacitiesAssumption, StartGameStep, DissolveRoomStep, ChangeMapStep,
       ChangeRoomNameStep, ChangePasswordStep, KickPlayerStep, ChangeCapacityStep
    DEF OwnerStep
<1>5. CASE UNCHANGED vars
    BY <1>5 DEF vars, Inv, TypeOK, MembersArePlayers, IdsInOrder, Passed, CodesResolve, IdsFresh
<1> QED
    BY <1>1, <1>2, <1>3, <1>4, <1>5, OnGameEndStep DEF Next

\* The empty table satisfies the invariant.
LEMMA InvInit == Init => Inv
<1> SUFFICES ASSUME Init
             PROVE  Inv
    OBVIOUS
<1>1. DOMAIN rooms = {} /\ DOMAIN codeMap = {} /\ created = 0 /\ players = {}
    BY DEF Init
<1>2. 0 \in RoomIds /\ 0 \in 0 .. CreateLimit
    BY IdSpaceAssumption, LimitsAssumption DEF RoomIds
<1>3. TypeOK
    BY <1>1, <1>2 DEF Init, TypeOK, NoRoom
<1> QED
    BY <1>1, <1>3 DEF Inv, MembersArePlayers, IdsInOrder, CodesResolve

\* The inductive invariant holds in every reachable state of the table.
THEOREM InvHolds == Spec => []Inv
BY InvInit, InvStep, PTL DEF Spec

\* Type correctness, for ids of any width, wrapped or not.
THEOREM TypeCorrect == Spec => []TypeOK
<1>1. Inv => TypeOK
    BY DEF Inv
<1> QED
    BY <1>1, InvHolds, PTL

\* No room ever holds a player twice or more players than its capacity.
THEOREM GroupsHold == Spec => []GroupsWellFormed
<1>1. Inv => GroupsWellFormed
    BY DEF Inv, SoundRoom, GroupsWellFormed
<1> QED
    BY <1>1, InvHolds, PTL

\* The size_t player_count never wraps below zero.
THEOREM CountHolds == Spec => []CountCoversMembers
<1>1. Inv => CountCoversMembers
    BY DEF Inv, SoundRoom, CountCoversMembers
<1> QED
    BY <1>1, InvHolds, PTL

\* A room code never leads to a dissolved room or to another code's room,
\* for any number of rooms short of a wrap of the id counter.
THEOREM CodesHold == Spec => []CodesResolve
<1>1. Inv => CodesResolve
    BY DEF Inv
<1> QED
    BY <1>1, InvHolds, PTL

\* A running game is never out of step with its room.
THEOREM BattleHolds == Spec => []RunningRoomMatchesBattle
<1>1. Inv => RunningRoomMatchesBattle
    BY DEF Inv, SoundRoom, RunningRoomMatchesBattle
<1> QED
    BY <1>1, InvHolds, PTL

\* Nobody is in a room, or owns one, whom the server has not seen log in.
THEOREM MembersHold == Spec => []MembersArePlayers
<1>1. Inv => MembersArePlayers
    BY DEF Inv
<1> QED
    BY <1>1, InvHolds, PTL
-----------------------------------------------------------------------------
(* The table implements the directory.                                      *)

\* Both modules count alike.
LEMMA SameCardinality ==
    ASSUME NEW S
    PROVE  Directory!Cardinality(S) = Cardinality(S)
BY DEF Cardinality, Directory!Cardinality

\* The directory after one room was replaced.
LEMMA ReplaceListed ==
    ASSUME NEW id \in DOMAIN rooms, NEW r, rooms' = [rooms EXCEPT ![id] = r]
    PROVE  Directory!List(id, Listing(r)) /\ Listed[id] = Listing(rooms[id])
<1>1. /\ DOMAIN rooms' = DOMAIN rooms
      /\ \A i \in DOMAIN rooms : rooms'[i] = IF i = id THEN r ELSE rooms[i]
    OBVIOUS
<1> QED
    BY <1>1 DEF Directory!List, Listed

\* An accepted join takes a free seat in a lobby.
LEMMA JoinListed ==
    ASSUME NEW room, SoundRoom(room), NEW u \in Users, RoomJoinResult(room, u) = "OK"
    PROVE  /\ Listing(room).phase = "LOBBY" /\ u \notin Listing(room).members
           /\ Cardinality(Listing(room).members) < Listing(room).seats
           /\ Listing(RoomJoin(room, u)) = [Listing(room) EXCEPT !.members = Listing(room).members \cup {u}]
<1> DEFINE g == room.group
           next == RoomJoin(room, u)
<1>1. ~IsRunning(room) /\ AddMemberResult(g, u) = "OK"
    BY UsersAssumption DEF RoomJoinResult, MapGroupResult, AddMemberResult
<1>2. room \in RoomRecords(Codes) /\ g \in Groups(Users) /\ WellFormed(g)
    BY DEF SoundRoom, RoomRecords
<1>3. u \notin Roster(room) /\ Len(g.members) < g.capacity
    BY <1>1, <1>2 DEF AddMemberResult, Contains, Roster, MemberSet, ToSet, Groups
<1>4. Cardinality(Roster(room)) < g.capacity
    BY <1>2, <1>3, MemberCount DEF Roster
<1>5. MemberSet(AddMember(g, u)) = MemberSet(g) \cup {u}
    BY <1>1, <1>2, AddMemberEffect
<1>6. /\ next.group = AddMember(g, u) /\ next.owner = room.owner
      /\ next.state = room.state /\ next.runtime = room.runtime
      /\ AddMember(g, u).capacity = g.capacity
    BY <1>2 DEF RoomJoin, RoomRecords, AddMember, Groups
<1>7. room.state = "LOBBY" /\ next.state = "LOBBY" /\ Roster(next) = Roster(room) \cup {u}
    BY <1>1, <1>2, <1>5, <1>6 DEF IsRunning, Roster, RoomRecords
<1>8. Listing(next) = [Listing(room) EXCEPT !.members = Listing(room).members \cup {u}]
    <2> HIDE DEF next
    <2> QED
        BY <1>6, <1>7 DEF Listing
<1>9. /\ Listing(room).phase = "LOBBY" /\ Listing(room).members = Roster(room)
      /\ Listing(room).seats = g.capacity
    BY <1>7 DEF Listing
<1> QED
    BY <1>3, <1>4, <1>8, <1>9

\* Whoever leaves or is kicked was sitting there.
LEMMA RemovalListed ==
    ASSUME NEW room, SoundRoom(room), NEW u, RemoveMemberResult(room.group, u) = "OK",
           NEW next \in {RoomLeave(room, u), RoomKick(room, u)}
    PROVE  /\ u \in Users /\ u \in Listing(room).members
           /\ Listing(next) = [Listing(room) EXCEPT !.members = Listing(room).members \ {u}]
<1> DEFINE g == room.group
<1>1. room \in RoomRecords(Codes) /\ g \in Groups(Users) /\ WellFormed(g)
    BY DEF SoundRoom, RoomRecords
<1>2. u \in MemberSet(g) /\ MemberSet(RemoveMember(g, u)) = MemberSet(g) \ {u}
    BY <1>1, RemoveMemberEffect
<1>3. u \in Users
    BY <1>1, <1>2 DEF MemberSet, ToSet, Groups
<1>4. /\ next.group = RemoveMember(g, u) /\ next.owner = room.owner
      /\ next.state = room.state /\ next.runtime = room.runtime
      /\ RemoveMember(g, u).capacity = g.capacity
    <2>1. CASE next = RoomLeave(room, u)
        BY <1>1, <2>1 DEF RoomLeave, RoomRecords, RemoveMember, Groups
    <2>2. CASE next = RoomKick(room, u)
        BY <1>1, <2>2 DEF RoomKick, RoomRecords, RemoveMember, Groups
    <2> QED
        BY <2>1, <2>2
<1>5. Roster(next) = Roster(room) \ {u} /\ IsRunning(next) = IsRunning(room)
    BY <1>2, <1>4 DEF Roster, IsRunning
<1> QED
    BY <1>2, <1>3, <1>4, <1>5 DEF Listing, Roster

\* A new capacity is the owner's and has a seat for everybody.
LEMMA ChangeCapacityListed ==
    ASSUME NEW room, SoundRoom(room), NEW u, NEW k \in Nat,
           RoomChangeCapacityResult(room, u, k) = "OK"
    PROVE  /\ u = Listing(room).owner /\ Cardinality(Listing(room).members) <= k
           /\ Listing(RoomChangeCapacity(room, k)) = [Listing(room) EXCEPT !.seats = k]
<1> DEFINE g == room.group
           next == RoomChangeCapacity(room, k)
<1>1. u = room.owner /\ SetCapacityResult(g, k) = "OK"
    BY DEF RoomChangeCapacityResult, MapGroupResult, SetCapacityResult
<1>2. room \in RoomRecords(Codes) /\ g \in Groups(Users) /\ WellFormed(g)
    BY DEF SoundRoom, RoomRecords
<1>3. Cardinality(Roster(room)) <= k
    BY <1>1, <1>2, MemberCount DEF SetCapacityResult, Roster, Groups
<1>4. /\ next.group.members = g.members /\ next.group.capacity = k
      /\ next.owner = room.owner /\ next.state = room.state /\ next.runtime = room.runtime
    BY <1>2 DEF RoomChangeCapacity, SetCapacity, RoomRecords, Groups
<1>5. Roster(next) = Roster(room) /\ IsRunning(next) = IsRunning(room)
    BY <1>4 DEF Roster, MemberSet, IsRunning
<1> QED
    BY <1>1, <1>3, <1>4, <1>5 DEF Listing

\* A game that starts has at least two fighters, who are the members.
LEMMA StartGameListed ==
    ASSUME NEW room, SoundRoom(room), NEW u, RoomStartGameResult(room, u) = "OK"
    PROVE  /\ u = Listing(room).owner /\ Listing(room).phase = "LOBBY" /\ Cardinality(Listing(room).members) >= 2
           /\ Listing(RoomStartGame(room)) =
                 [owner |-> Listing(room).owner, seats |-> Listing(room).seats,
                  members |-> Listing(room).members, phase |-> "RUNNING",
                  fighters |-> Listing(room).members]
<1> DEFINE g == room.group
           next == RoomStartGame(room)
<1>1. u = room.owner /\ ~IsRunning(room) /\ ~(Len(g.members) < 2)
    BY DEF RoomStartGameResult
<1>2. room \in RoomRecords(Codes) /\ g \in Groups(Users) /\ WellFormed(g)
    BY DEF SoundRoom, RoomRecords
<1>3. Cardinality(Roster(room)) >= 2
    BY <1>1, <1>2, MemberCount DEF Roster, Groups
<1>4. /\ next.group = g /\ next.owner = room.owner /\ next.state = "RUNNING"
      /\ next.runtime.players = Roster(room)
    BY <1>2 DEF RoomStartGame, RoomRecords
<1>5. Roster(next) = Roster(room) /\ room.state = "LOBBY"
    BY <1>1, <1>2, <1>4 DEF Roster, IsRunning, RoomRecords
<1> DEFINE l == Listing(room)
<1>6. /\ l = [owner |-> room.owner, seats |-> g.capacity, members |-> Roster(room),
              phase |-> "LOBBY", fighters |-> {}]
      /\ Listing(next) = [owner |-> room.owner, seats |-> g.capacity, members |-> Roster(room),
                          phase |-> "RUNNING", fighters |-> Roster(room)]
    BY <1>4, <1>5 DEF Listing
<1> QED
    BY <1>1, <1>3, <1>6

\* What the directory does not see.
LEMMA UnseenListed ==
    ASSUME NEW room, SoundRoom(room), NEW u, NEW m, NEW t
    PROVE  /\ RoomStartGameResult(room, u) = "EXCEPTION"
                 => Listing(RoomStartGameThrown(room)) = Listing(room)
           /\ Listing(RoomChangeMap(room, m)) = Listing(room)
           /\ Listing(RoomChangeName(room, t)) = Listing(room)
           /\ Listing(RoomChangePassword(room, t)) = Listing(room)
<1>1. room \in RoomRecords(Codes)
    BY DEF SoundRoom
<1>2. RoomStartGameResult(room, u) = "EXCEPTION" => ~IsRunning(room)
    BY DEF RoomStartGameResult
<1> QED
    BY <1>1, <1>2
    DEF Listing, RoomRecords, Roster, IsRunning,
        RoomStartGameThrown, RoomChangeMap, RoomChangeName, RoomChangePassword

\* The end of a game is the end of the fight and nothing else.
LEMMA GameEndListed ==
    ASSUME NEW room, SoundRoom(room), IsRunning(room)
    PROVE  /\ Listing(room).phase = "RUNNING"
           /\ Listing(RoomGameEnd(room)) = 
                 [owner |-> Listing(room).owner, seats |-> Listing(room).seats,
                  members |-> Listing(room).members, phase |-> "LOBBY", fighters |-> {}]
<1> DEFINE l == Listing(room)
           next == RoomGameEnd(room)
<1>1. room \in RoomRecords(Codes) /\ room.state = "RUNNING"
    BY DEF SoundRoom, IsRunning
<1>2. next.group = room.group /\ next.owner = room.owner /\ next.state = "LOBBY"
    BY <1>1 DEF RoomGameEnd, RoomRecords
<1>3. /\ l = [owner |-> room.owner, seats |-> room.group.capacity, members |-> Roster(room),
              phase |-> "RUNNING", fighters |-> room.runtime.players]
      /\ Listing(next) = [owner |-> room.owner, seats |-> room.group.capacity,
                          members |-> Roster(room), phase |-> "LOBBY", fighters |-> {}]
    BY <1>1, <1>2 DEF Listing, Roster
<1> QED
    BY <1>3

\* CreateRoom opens a room with its owner in it, or nothing is seen of it.
LEMMA CreateRoomListed ==
    ASSUME Inv, NEW u \in Users \cup {NoUser}, NEW n \in Texts, NEW p \in Texts,
           NEW k \in Capacities, NEW c \in Codes, CreateRoom(u, n, p, k, c)
    PROVE  Directory!Next \/ UNCHANGED Listed
<1>1. CASE CreateRoomResult(u, k) # "OK"
    BY <1>1 DEF CreateRoom, Listed
<1>2. CASE CreateRoomResult(u, k) = "OK"
    <2> DEFINE id == NextRoomId
               r == RoomJoin(NewRoom(c, u, n, p, k), u)
               l == [owner |-> u, seats |-> k, members |-> {u}, phase |-> "LOBBY", fighters |-> {}]
    <2>1. u \in players /\ AddMemberResult(NewGroup(k), u) = "OK"
        BY <1>2 DEF CreateRoomResult, MapGroupResult, AddMemberResult
    <2>2. u \in Users /\ k \in Nat /\ id \in RoomIds
        BY <2>1, CapacitiesAssumption, NextRoomIdFresh DEF Inv, TypeOK
    <2>3. Roster(r) = {u} /\ r.owner = u
        BY <2>1, <2>2, NewRoomSound
    <2>4. k >= 1
        BY <2>1, <2>2 DEF AddMemberResult, NewGroup, Contains
    <2>5. r.group.capacity = k /\ r.state = "LOBBY"
        BY DEF RoomJoin, NewRoom, AddMember, NewGroup
    <2>6. /\ DOMAIN rooms' = DOMAIN rooms \cup {id}
          /\ \A i \in DOMAIN rooms' : rooms'[i] = IF i = id THEN r ELSE rooms[i]
        BY <1>2 DEF CreateRoom
    <2> HIDE DEF id, r
    <2>7. Listing(r) = l
        BY <2>3, <2>5 DEF Listing
    <2> HIDE DEF l
    <2>8. Directory!List(id, l)
        BY <2>6, <2>7 DEF Directory!List, Listed
    <2>9. Directory!Open(id, u, k)
        BY <2>4, <2>8 DEF Directory!Open, l
    <2> QED
        BY <2>2, <2>9 DEF Directory!Next
<1> QED
    BY <1>1, <1>2

\* A member's step is a seat taken, a seat freed, or nothing to the directory.
LEMMA MemberStepListed ==
    ASSUME Inv, NEW id \in DOMAIN rooms, MemberStep(id)
    PROVE  Directory!Next \/ UNCHANGED Listed
<1>1. SoundRoom(rooms[id]) /\ DOMAIN Listed = DOMAIN rooms
    BY DEF Inv, Listed
<1>2. ASSUME NEW u \in Users \cup {NoUser}, JoinRoom(id, u)
      PROVE  Directory!Next \/ UNCHANGED Listed
    <2>1. CASE JoinRoomResult(id, u) # "OK"
        BY <1>2, <2>1 DEF JoinRoom, Listed
    <2>2. CASE JoinRoomResult(id, u) = "OK"
        <3>1. u \in Users /\ RoomJoinResult(rooms[id], u) = "OK"
            BY <2>2 DEF JoinRoomResult, Inv, TypeOK
        <3>2. rooms' = [rooms EXCEPT ![id] = RoomJoin(rooms[id], u)]
            BY <1>2, <2>2 DEF JoinRoom
        <3> DEFINE l == Listing(rooms[id])
                   n == Listing(RoomJoin(rooms[id], u))
        <3>3. Listed[id] = l /\ Directory!List(id, n)
            BY <1>1, <3>1, <3>2, ReplaceListed
        <3>4. l.phase = "LOBBY" /\ u \notin l.members /\ Cardinality(l.members) < l.seats
              /\ n = [l EXCEPT !.members = l.members \cup {u}]
            BY <1>1, <3>1, <3>2, JoinListed
        <3> HIDE DEF l, n
        <3>5. Directory!Join(id, u)
            BY <3>3, <3>4, SameCardinality DEF Directory!Join
        <3> QED
            BY <1>1, <3>1, <3>5 DEF Directory!Next, Directory!RoomStep
    <2> QED
        BY <2>1, <2>2
<1>3. ASSUME NEW u \in Users \cup {NoUser}, LeaveRoom(id, u)
      PROVE  Directory!Next
    <2> DEFINE r == RoomLeave(rooms[id], u)
    <2>1. RemoveMemberResult(rooms[id].group, u) = "OK" /\ rooms' = [rooms EXCEPT ![id] = r]
        BY <1>3 DEF LeaveRoom, RoomLeaveResult, MapGroupResult, RemoveMemberResult
    <2>2. r \in {RoomLeave(rooms[id], u), RoomKick(rooms[id], u)}
        OBVIOUS
    <2> HIDE DEF r
    <2> DEFINE l == Listing(rooms[id])
               n == Listing(r)
    <2>3. Listed[id] = l /\ Directory!List(id, n)
        BY <1>1, <2>1, <2>2, ReplaceListed
    <2>4. u \in Users /\ u \in l.members /\ n = [l EXCEPT !.members = l.members \ {u}]
        BY <1>1, <2>1, <2>2, RemovalListed
    <2> HIDE DEF l, n
    <2>5. Directory!Leave(id, u)
        BY <2>3, <2>4 DEF Directory!Leave
    <2> QED
        BY <1>1, <2>4, <2>5 DEF Directory!Next, Directory!RoomStep
<1>4. ASSUME NEW u \in Users \cup {NoUser}, NEW r \in BOOLEAN, SetReady(id, u, r)
      PROVE  UNCHANGED Listed
    BY <1>4 DEF SetReady, Listed
<1> QED
    BY <1>2, <1>3, <1>4 DEF MemberStep

\* A room replaced by one that is listed the same is not seen to change.
LEMMA SameListing ==
    ASSUME NEW id \in DOMAIN rooms, NEW r, rooms' = [rooms EXCEPT ![id] = r],
           Listing(r) = Listing(rooms[id])
    PROVE  UNCHANGED Listed
<1>1. /\ DOMAIN rooms' = DOMAIN rooms
      /\ \A i \in DOMAIN rooms : rooms'[i] = IF i = id THEN r ELSE rooms[i]
    OBVIOUS
<1> QED
    BY <1>1 DEF Listed

\* So is the owner's step one of the owner's in the directory.
LEMMA OwnerStepListed ==
    ASSUME Inv, NEW id \in DOMAIN rooms, OwnerStep(id)
    PROVE  Directory!Next \/ UNCHANGED Listed
<1>1. /\ SoundRoom(rooms[id]) /\ DOMAIN Listed = DOMAIN rooms
      /\ rooms[id].owner \in Users /\ Listed[id] = Listing(rooms[id])
    BY DEF Inv, Listed, SoundRoom, RoomRecords
<1> SUFFICES ASSUME NEW u \in Users \cup {NoUser},
                    \/ StartGame(id, u)
                    \/ DissolveRoom(id, u)
                    \/ \E m \in Maps : ChangeMap(id, u, m)
                    \/ \E t \in Texts : ChangeRoomName(id, u, t) \/ ChangePassword(id, u, t)
                    \/ \E v \in Users : KickPlayer(id, u, v)
                    \/ \E k \in Capacities : ChangeCapacity(id, u, k)
             PROVE  Directory!Next \/ UNCHANGED Listed
    BY DEF OwnerStep
<1>2. CASE StartGame(id, u)
    <2>1. CASE /\ RoomStartGameResult(rooms[id], u) = "OK"
               /\ rooms' = [rooms EXCEPT ![id] = RoomStartGame(rooms[id])]
        <3>1. u \in Users
            BY <1>1, <2>1 DEF RoomStartGameResult
        <3> DEFINE l == Listing(rooms[id])
                   n == Listing(RoomStartGame(rooms[id]))
        <3>2. Listed[id] = l /\ Directory!List(id, n)
            BY <1>1, <2>1, ReplaceListed
        <3>3. u = l.owner /\ l.phase = "LOBBY" /\ Cardinality(l.members) >= 2
              /\ n = [owner |-> l.owner, seats |-> l.seats, members |-> l.members,
                      phase |-> "RUNNING", fighters |-> l.members]
            BY <1>1, <2>1, StartGameListed
        <3> HIDE DEF l, n
        <3>4. Directory!Begin(id, u)
            BY <3>2, <3>3, SameCardinality DEF Directory!Begin
        <3> QED
            BY <1>1, <3>1, <3>4 DEF Directory!Next, Directory!RoomStep
    <2>2. CASE /\ RoomStartGameResult(rooms[id], u) = "EXCEPTION"
               /\ rooms' = [rooms EXCEPT ![id] = RoomStartGameThrown(rooms[id])]
        BY <1>1, <2>2, UnseenListed, SameListing
    <2> QED
        BY <1>2, <2>1, <2>2 DEF StartGame
<1>3. CASE DissolveRoom(id, u)
    <2>1. /\ u = rooms[id].owner
          /\ DOMAIN rooms' = DOMAIN rooms \ {id}
          /\ \A i \in DOMAIN rooms' : rooms'[i] = rooms[i]
        BY <1>3 DEF DissolveRoom, RoomDissolveResult
    <2>2. Listed' = [i \in DOMAIN Listed \ {id} |-> Listed[i]]
        BY <2>1 DEF Listed
    <2>3. Directory!Close(id, u) /\ u \in Users
        BY <1>1, <2>1, <2>2 DEF Directory!Close, Listing
    <2> QED
        BY <1>1, <2>3 DEF Directory!Next, Directory!RoomStep
<1>4. ASSUME NEW m \in Maps, ChangeMap(id, u, m) PROVE UNCHANGED Listed
    <2>1. rooms' = [rooms EXCEPT ![id] = RoomChangeMap(rooms[id], m)]
        BY <1>4 DEF ChangeMap
    <2> QED
        BY <1>1, <2>1, UnseenListed, SameListing
<1>5. ASSUME NEW t \in Texts, ChangeRoomName(id, u, t) PROVE UNCHANGED Listed
    <2>1. rooms' = [rooms EXCEPT ![id] = RoomChangeName(rooms[id], t)]
        BY <1>5 DEF ChangeRoomName
    <2> QED
        BY <1>1, <2>1, UnseenListed, SameListing
<1>6. ASSUME NEW t \in Texts, ChangePassword(id, u, t) PROVE UNCHANGED Listed
    <2>1. rooms' = [rooms EXCEPT ![id] = RoomChangePassword(rooms[id], t)]
        BY <1>6 DEF ChangePassword
    <2> QED
        BY <1>1, <2>1, UnseenListed, SameListing
<1>7. ASSUME NEW v \in Users, KickPlayer(id, u, v) PROVE Directory!Next
    <2> DEFINE r == RoomKick(rooms[id], v)
    <2>1. RemoveMemberResult(rooms[id].group, v) = "OK" /\ rooms' = [rooms EXCEPT ![id] = r]
        BY <1>7 DEF KickPlayer, RoomKickResult, MapGroupResult, RemoveMemberResult
    <2>2. r \in {RoomLeave(rooms[id], v), RoomKick(rooms[id], v)}
        OBVIOUS
    <2> HIDE DEF r
    <2> DEFINE l == Listing(rooms[id])
               n == Listing(r)
    <2>3. Listed[id] = l /\ Directory!List(id, n)
        BY <1>1, <2>1, <2>2, ReplaceListed
    <2>4. v \in l.members /\ n = [l EXCEPT !.members = l.members \ {v}]
        BY <1>1, <2>1, <2>2, RemovalListed
    <2> HIDE DEF l, n
    <2>5. Directory!Leave(id, v)
        BY <2>3, <2>4 DEF Directory!Leave
    <2> QED
        BY <1>1, <2>5 DEF Directory!Next, Directory!RoomStep
<1>8. ASSUME NEW k \in Capacities, ChangeCapacity(id, u, k) PROVE Directory!Next
    <2>1. /\ k \in Nat /\ RoomChangeCapacityResult(rooms[id], u, k) = "OK"
          /\ rooms' = [rooms EXCEPT ![id] = RoomChangeCapacity(rooms[id], k)]
        BY <1>8, CapacitiesAssumption DEF ChangeCapacity
    <2>2. u \in Users
        BY <1>1, <2>1 DEF RoomChangeCapacityResult
    <2> DEFINE l == Listing(rooms[id])
               n == Listing(RoomChangeCapacity(rooms[id], k))
    <2>3. Listed[id] = l /\ Directory!List(id, n)
        BY <1>1, <2>1, ReplaceListed
    <2>4. u = l.owner /\ Cardinality(l.members) <= k /\ n = [l EXCEPT !.seats = k]
        BY <1>1, <2>1, ChangeCapacityListed
    <2> HIDE DEF l, n
    <2>5. Directory!Resize(id, u, k)
        BY <2>3, <2>4, SameCardinality DEF Directory!Resize
    <2> QED
        BY <1>1, <2>2, <2>5 DEF Directory!Next, Directory!RoomStep
<1> QED
    BY <1>2, <1>3, <1>4, <1>5, <1>6, <1>7, <1>8

\* Every step of the table is a step of the directory or none.
LEMMA StepListed ==
    ASSUME Inv, [Next]_vars
    PROVE  Directory!Next \/ UNCHANGED Listed
<1>1. ASSUME NEW u \in Users, PlayerLogin(u) PROVE UNCHANGED Listed
    BY <1>1 DEF PlayerLogin, Listed
<1>2. CASE CreateStep
    BY <1>2, CreateRoomListed DEF CreateStep
<1>3. ASSUME NEW id \in DOMAIN rooms, OnGameEnd(id) PROVE Directory!Next
    <2>1. SoundRoom(rooms[id]) /\ IsRunning(rooms[id]) /\ DOMAIN Listed = DOMAIN rooms
          /\ rooms' = [rooms EXCEPT ![id] = RoomGameEnd(rooms[id])]
        BY <1>3 DEF OnGameEnd, Inv, Listed
    <2>2. Directory!End(id)
        BY <2>1, ReplaceListed, GameEndListed DEF Directory!End
    <2> QED
        BY <2>1, <2>2 DEF Directory!Next
<1>4. CASE UNCHANGED vars
    BY <1>4 DEF vars, Listed
<1> QED
    BY <1>1, <1>2, <1>3, <1>4, MemberStepListed, OwnerStepListed DEF Next

\* The room table implements the directory of rooms with seats: a game's
\* players are fixed when it starts, only owners change, start and close
\* rooms, and nothing else the code does is promised to anybody.
THEOREM DirectoryHolds == Spec => DirectoryImplemented
<1>1. Init => Directory!Init
    BY DEF Init, Directory!Init, Listed
<1>2. Inv /\ [Next]_vars => [Directory!Next]_(Directory!vars)
    BY StepListed DEF Directory!vars
<1> QED
    BY <1>1, <1>2, InvHolds, PTL DEF Spec, DirectoryImplemented, Directory!Spec
=============================================================================
