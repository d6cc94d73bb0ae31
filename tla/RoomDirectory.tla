---------------------------- MODULE RoomDirectory ----------------------------
(***************************************************************************)
(* What the room table promises, without codes, names, passwords, maps,    *)
(* counters and the order of members: a directory of rooms with seats.     *)
(* Nobody takes a seat beyond the capacity or while a game is played, only *)
(* the owner changes the seats, starts a game or closes the room, and the  *)
(* fighters of a game are those who sat in the room when it began.         *)
(***************************************************************************)
EXTENDS Naturals, FiniteSets

CONSTANTS
    Users,          \* who can sit in a room
    RoomIds,        \* the ids rooms are listed under
    Capacities      \* the numbers of seats a room may be given

VARIABLE directory  \* room id -> what is promised of the room listed there

vars == directory

Init == directory = [id \in {} |-> {}]

\* The room listed under id becomes `room'.
List(id, room) ==
    directory' = [i \in DOMAIN directory \cup {id} |-> IF i = id THEN room ELSE directory[i]]

\* A room opens with its owner in it.  An id that is handed out again, after
\* the ids have gone round, hides the room that had it.
Open(id, u, seats) ==
    /\ seats >= 1
    /\ List(id, [owner |-> u, seats |-> seats, members |-> {u}, phase |-> "LOBBY", fighters |-> {}])

Join(id, u) ==
    LET room == directory[id]
    IN  /\ room.phase = "LOBBY"
        /\ u \notin room.members
        /\ Cardinality(room.members) < room.seats
        /\ List(id, [room EXCEPT !.members = room.members \cup {u}])

\* Members may leave a running game, too.
Leave(id, u) ==
    LET room == directory[id]
    IN  /\ u \in room.members
        /\ List(id, [room EXCEPT !.members = room.members \ {u}])

Resize(id, u, seats) ==
    LET room == directory[id]
    IN  /\ u = room.owner
        /\ Cardinality(room.members) <= seats
        /\ List(id, [room EXCEPT !.seats = seats])

Begin(id, u) ==
    LET room == directory[id]
    IN  /\ u = room.owner
        /\ room.phase = "LOBBY"
        /\ Cardinality(room.members) >= 2
        /\ List(id, [owner |-> room.owner, seats |-> room.seats, members |-> room.members,
                     phase |-> "RUNNING", fighters |-> room.members])

End(id) ==
    LET room == directory[id]
    IN  /\ room.phase = "RUNNING"
        /\ List(id, [owner |-> room.owner, seats |-> room.seats, members |-> room.members,
                     phase |-> "LOBBY", fighters |-> {}])

\* Only the owner closes a room, also while a game is played.
Close(id, u) ==
    /\ u = directory[id].owner
    /\ directory' = [i \in DOMAIN directory \ {id} |-> directory[i]]

RoomStep(id, u) ==
    \/ Join(id, u)
    \/ Leave(id, u)
    \/ Begin(id, u)
    \/ Close(id, u)
    \/ \E seats \in Capacities : Resize(id, u, seats)

Next ==
    \/ \E id \in DOMAIN directory : End(id) \/ \E u \in Users : RoomStep(id, u)
    \/ \E id \in RoomIds, u \in Users, seats \in Capacities : Open(id, u, seats)

Spec == Init /\ [][Next]_vars
=============================================================================
