--------------------------- MODULE GameCmdHandler ---------------------------
(***************************************************************************)
(* The battle handler of one room                                          *)
(* (src/src/business/GameLogic/GameCmdHandler.cpp): the board and the       *)
(* players of the battle, the commands played on it, and the tick timer,   *)
(* with the two calls of the room around it, StartGame and OnGameEnd.       *)
(*                                                                         *)
(* The room's calls come from the room strand; the timer's callback runs   *)
(* on the handler's own strand, possibly on another thread, so the room    *)
(* may stop and restart the loop between its two halves.  Commands arrive  *)
(* only while the room runs a game (GameCmdHandler.cpp:214 leaves that     *)
(* check to the room) and only from the players the game started with.     *)
(*                                                                         *)
(* Left out, because the code writes them and never reads them: score,     *)
(* seat, resources, acted, and the id of the current player.  The model    *)
(* ends with the room: a handler that is destroyed under its callback is   *)
(* not described.                                                          *)
(***************************************************************************)
EXTENDS Integers, Sequences, SequencesExt

CONSTANTS
    Users, NoUser,          \* valid user ids, and the id 0
    Maps, NoMap,            \* map paths, and the empty one
    LoadableMaps,           \* paths that LoadMapData can read
    Tiles,                  \* positions on a board
    MapTiles,               \* the board of each map that can be loaded
    Growths,                \* amounts a Grow command may carry
    Width,                  \* number of values of a counter: 2^32 in the code
    TickSpace,              \* number of values of the tick count: 2^64
    GameLimit, CmdLimit     \* bounds: games, and commands in one game

TileRecords ==
    [owner : Users \cup {NoUser}, value : 0 .. Width - 1, base : BOOLEAN,
     countered : BOOLEAN]

IsBoard(b) == DOMAIN b \subseteq Tiles /\ b \in [DOMAIN b -> TileRecords]

ASSUME NamesAssumption == NoUser \notin Users /\ NoMap \notin Maps
ASSUME MapTilesAssumption ==
    LoadableMaps \subseteq Maps /\ \A m \in LoadableMaps : IsBoard(MapTiles[m])
ASSUME NumbersAssumption ==
    /\ Width \in Nat /\ Width > 2 /\ TickSpace \in Nat \ {0}
    /\ Growths \subseteq Int /\ GameLimit \in Nat /\ CmdLimit \in Nat

VARIABLES
    room,           \* info_.state of the room
    runtime,        \* runtime_: map name, tiles, players; and, as history,
                    \* how often this game's end has been announced
    roster,         \* the members the game was started with
    tick,           \* runtime_->tick, in intervals
    ticking,        \* ticking_
    armed,          \* a wait on tick_timer_ is outstanding
    callbacks,      \* completed waits whose handler has not run, in order
    busy,           \* a handler has ticked and not yet scheduled the next wait
    games, cmds     \* counters for the bounds

battle == <<room, runtime, roster, games, cmds>>
timer == <<ticking, armed, callbacks>>
vars == <<battle, timer, tick, busy>>

NewPlayer == [baseCount |-> 0, failure |-> FALSE]

Init ==
    /\ room = "LOBBY"
    /\ runtime = [map |-> NoMap, tiles |-> [t \in {} |-> NoMap],
                  players |-> [p \in {} |-> NewPlayer], ends |-> 0]
    /\ roster = {}
    /\ tick = 0
    /\ ticking = FALSE /\ armed = FALSE /\ callbacks = <<>> /\ busy = FALSE
    /\ games = 0 /\ cmds = 0

-----------------------------------------------------------------------------
(* The end of a game.  The operators below take and return a runtime.       *)

\* players[p] on an unordered_map: a player that is not there is inserted.
Enlist(rt, ps) ==
    [rt EXCEPT !.players =
        [p \in DOMAIN @ \cup ps |-> IF p \in DOMAIN @ THEN @[p] ELSE NewPlayer]]

\* Mutant of Wrap: arithmetic without a width.
Wrap_unbounded(n) == n

\* Unsigned arithmetic.
Wrap(n) == n % Width

\* The player's baseCount goes up or down by n.
CountBase(rt, p, n) == [rt EXCEPT !.players[p].baseCount = Wrap(@ + n)]

Failed(rt) == {p \in DOMAIN rt.players : rt.players[p].failure}

\* Only players that have already failed are looked at: their tiles are
\* cleared, and the end is announced unless two of them are different.
GameEndCheck(rt) ==
    LET out == {p \in Failed(rt) : rt.players[p].baseCount = 0}
        singlePlayerLeft == \A p, q \in Failed(rt) \ {NoUser} : p = q
    IN  [rt EXCEPT
            !.tiles = [t \in DOMAIN @ |->
                IF @[t].owner \in out
                THEN [@[t] EXCEPT !.owner = NoUser, !.value = 0, !.countered = FALSE]
                ELSE @[t]],
            !.ends = IF singlePlayerLeft THEN @ + 1 ELSE @]

\* If tile t is a base, p has lost it.
LoseBase(rt, t, p) ==
    IF rt.tiles[t].base THEN GameEndCheck(CountBase(rt, p, -1)) ELSE rt

-----------------------------------------------------------------------------
(* Commands of player p. *)

ValidMove(rt, p, s, d) ==
    /\ s # d
    /\ rt.tiles[s].owner = p /\ rt.tiles[d].owner = p
    /\ rt.tiles[s].value > 1

\* src.value is already 1 when dst.value += src.value - 1 is computed, so the
\* destination gains nothing; moving onto one's own base counts it again.
Move(rt, p, s, d) ==
    LET moved == [Enlist(rt, {p}) EXCEPT !.tiles[s].value = 1]
    IN  IF rt.tiles[d].base THEN CountBase(moved, p, 1) ELSE moved

ValidAttack(rt, p, s, d) ==
    /\ s # d
    /\ rt.tiles[s].owner = p /\ rt.tiles[d].owner # p
    /\ rt.tiles[s].value > 1

\* The attacker is stronger.  src.value is already 1 when the remainder
\* dst.value - src.value - 1 is computed; a remainder of 0 leaves the tile to
\* nobody, any other, wrapped or not, to the attacker.
Win(rt, s, d) ==
    LET p == rt.tiles[s].owner
        q == rt.tiles[d].owner
        left == Wrap(rt.tiles[d].value - 1 - 1)
        fought == [rt EXCEPT !.tiles[s].value = 1,
                             !.tiles[d].value = left,
                             !.tiles[d].owner = IF left > 0 THEN p ELSE NoUser]
    IN  IF rt.tiles[d].base /\ left > 0
        THEN LoseBase(CountBase(fought, p, 1), d, q)
        ELSE LoseBase(fought, d, q)

\* Mutant of Countered: the loss of the attacking base is not checked.
Countered_noEndCheck(rt, s, d) ==
    [rt EXCEPT !.tiles[d].countered = TRUE, !.tiles[s].value = 0, !.tiles[s].owner = NoUser]

\* Mutant of Countered: the destroyed tile keeps its troops.
Countered_keepsValue(rt, s, d) ==
    LoseBase([rt EXCEPT !.tiles[d].countered = TRUE, !.tiles[s].owner = NoUser],
             s, rt.tiles[s].owner)

\* The defender's first answer destroys the attacking tile.
Countered(rt, s, d) ==
    LoseBase([rt EXCEPT !.tiles[d].countered = TRUE,
                        !.tiles[s].value = 0, !.tiles[s].owner = NoUser],
             s, rt.tiles[s].owner)

\* What is left of the attacker is taken off the defender q.
Exchange(rt, s, d, q) ==
    LET fought == [rt EXCEPT !.tiles[d].value = Wrap(@ - rt.tiles[s].value)]
    IN  IF fought.tiles[d].value = 0
        THEN LoseBase([fought EXCEPT !.tiles[d].owner = NoUser], d, q)
        ELSE fought

\* Mutant of Attack: an attacker that is only as strong as the defender wins.
Attack_drawWins(rt, s, d) ==
    LET q == rt.tiles[d].owner
        met == Enlist(rt, {rt.tiles[s].owner, q})
    IN  CASE rt.tiles[s].value >= rt.tiles[d].value -> Win(met, s, d)
          [] OTHER -> Exchange(IF rt.tiles[d].countered THEN met ELSE Countered(met, s, d),
                               s, d, q)

Attack(rt, s, d) ==
    LET q == rt.tiles[d].owner
        met == Enlist(rt, {rt.tiles[s].owner, q})
    IN  CASE rt.tiles[s].value > rt.tiles[d].value -> Win(met, s, d)
          [] OTHER -> Exchange(IF rt.tiles[d].countered THEN met ELSE Countered(met, s, d),
                               s, d, q)

ValidGrow(rt, p, d) == rt.tiles[d].owner = p /\ rt.tiles[d].value > 0

Grow(rt, d, n) == [rt EXCEPT !.tiles[d].value = Wrap(@ + n)]

-----------------------------------------------------------------------------
(* The tick timer. *)

\* cancel() and expires_after() complete the outstanding wait with an error.
Cancelled == IF armed THEN Append(callbacks, "aborted") ELSE callbacks

\* expires_after, async_wait.
Schedule == armed' = TRUE /\ callbacks' = Cancelled

StartTicking ==
    IF ticking THEN UNCHANGED timer ELSE ticking' = TRUE /\ Schedule

\* Mutant of StopTicking: the timer is cancelled and the flag left alone.
StopTicking_keepsFlag == armed' = FALSE /\ callbacks' = Cancelled /\ UNCHANGED ticking

StopTicking == ticking' = FALSE /\ armed' = FALSE /\ callbacks' = Cancelled

\* The timer expires.
Expire ==
    /\ armed
    /\ armed' = FALSE
    /\ callbacks' = Append(callbacks, "fired")
    /\ UNCHANGED <<battle, ticking, tick, busy>>

\* The handler of a completed wait, up to and including Tick.
OnWait ==
    /\ callbacks # <<>> /\ ~busy
    /\ callbacks' = Tail(callbacks)
    /\ IF Head(callbacks) = "aborted" \/ ~ticking
       THEN UNCHANGED <<tick, busy>>
       ELSE tick' = (tick + 1) % TickSpace /\ busy' = TRUE
    /\ UNCHANGED <<battle, ticking, armed>>

\* Mutant of ScheduleNextTick: the handler does not wait again.
ScheduleNextTick_never == busy /\ busy' = FALSE /\ UNCHANGED <<battle, timer, tick>>

\* The rest of it: the flag is read again before the next wait.
ScheduleNextTick ==
    /\ busy
    /\ busy' = FALSE
    /\ IF ticking THEN Schedule ELSE UNCHANGED <<armed, callbacks>>
    /\ UNCHANGED <<battle, ticking, tick>>

-----------------------------------------------------------------------------
(* The room's calls. *)

\* Mutant of InitGameState: the players of the last game stay.
InitGameState_keeps(rt) == rt

InitGameState(rt) == [rt EXCEPT !.players = [p \in {} |-> NewPlayer]]

\* GameRoom::StartGame past its checks.  A map that cannot be loaded throws
\* after the name was recorded and the players were cleared.
StartGame(members, m) ==
    LET cleared == [InitGameState(runtime) EXCEPT !.map = m]
        joined == [p \in DOMAIN cleared.players \cup members |->
                      IF p \in members THEN NewPlayer ELSE cleared.players[p]]
    IN  /\ room = "LOBBY"
        /\ games < GameLimit
        /\ games' = games + 1
        /\ IF m \in LoadableMaps
           THEN /\ runtime' = [cleared EXCEPT !.tiles = MapTiles[m], !.ends = 0,
                                              !.players = joined]
                /\ roster' = members
                /\ tick' = 0
                /\ cmds' = 0
                /\ StartTicking
                /\ room' = "RUNNING"
           ELSE /\ runtime' = cleared
                /\ UNCHANGED <<room, roster, tick, cmds, timer>>
        /\ UNCHANGED busy

\* The room's OnGameEnd: back to the lobby, and the loop is stopped.
OnGameEnd == room' = "LOBBY" /\ StopTicking

\* ProcessCommand with a command that leads to the runtime rt; the end
\* callback runs inside GameEndCheck.
Play(rt) ==
    /\ runtime' = rt
    /\ cmds' = cmds + 1
    /\ IF rt.ends > runtime.ends THEN OnGameEnd ELSE UNCHANGED <<room, timer>>
    /\ UNCHANGED <<roster, games, tick, busy>>

ProcessCommand(p) ==
    /\ room = "RUNNING"
    /\ cmds < CmdLimit
    /\ \E d \in DOMAIN runtime.tiles :
          \/ \E s \in DOMAIN runtime.tiles :
                \/ ValidMove(runtime, p, s, d) /\ Play(Move(runtime, p, s, d))
                \/ ValidAttack(runtime, p, s, d) /\ Play(Attack(runtime, s, d))
          \/ ValidGrow(runtime, p, d) /\ \E n \in Growths : Play(Grow(runtime, d, n))

-----------------------------------------------------------------------------

Next ==
    \/ \E members \in SUBSET Users, m \in Maps :
          (\E p, q \in members : p # q) /\ StartGame(members, m)
    \/ \E p \in roster : ProcessCommand(p)
    \/ Expire
    \/ OnWait
    \/ ScheduleNextTick

\* The timer expires and the io threads run its handlers; nobody has to play.
Fairness == WF_vars(Expire) /\ WF_vars(OnWait) /\ WF_vars(ScheduleNextTick)

Spec == Init /\ [][Next]_vars
FairSpec == Spec /\ Fairness

-----------------------------------------------------------------------------
(* Properties. *)

PlayerRecords == [baseCount : 0 .. Width - 1, failure : BOOLEAN]

IsRuntime(rt) ==
    /\ rt = [map |-> rt.map, tiles |-> rt.tiles, players |-> rt.players, ends |-> rt.ends]
    /\ rt.map \in Maps \cup {NoMap} /\ rt.ends \in Nat
    /\ IsBoard(rt.tiles)
    /\ DOMAIN rt.players \subseteq Users \cup {NoUser}
    /\ rt.players \in [DOMAIN rt.players -> PlayerRecords]

\* Type invariant: in particular, counters stay within their width.
TypeOK ==
    /\ room \in {"LOBBY", "RUNNING"}
    /\ IsRuntime(runtime)
    /\ roster \subseteq Users
    /\ tick \in 0 .. TickSpace - 1
    /\ ticking \in BOOLEAN /\ armed \in BOOLEAN /\ busy \in BOOLEAN
    /\ callbacks \in Seq({"fired", "aborted"})
    /\ games \in 0 .. GameLimit /\ cmds \in 0 .. CmdLimit

\* While the loop is on, something is under way that will continue it,
\* however often the room stopped and restarted it while an old wait was
\* outstanding, completed or half handled.
TickLoopAlive == ticking => armed \/ busy \/ "fired" \in ToSet(callbacks)

\* A running game goes on ticking until it is stopped.
TicksAdvance ==
    \A n \in 0 .. TickSpace - 1 : (ticking /\ tick = n) ~> (tick # n \/ ~ticking)

\* The players that have a base left on a board.
BaseHolders(b) == {b[t].owner : t \in {s \in DOMAIN b : b[s].base}} \ {NoUser}

Several(S) == \E p, q \in S : p # q

\* A game that is decided does not go on: if several players had bases at its
\* start, several still have, whichever branch of a fight took a base from
\* whom or gave it to nobody.
DecidedGamesEnd ==
    room = "RUNNING" /\ Several(BaseHolders(MapTiles[runtime.map]))
        => Several(BaseHolders(runtime.tiles))

\* The other half, which the names and comments of GameEndCheck claim: players
\* without a base are eliminated (GameCmdHandler.cpp:204), and a game ends when
\* it has a winner (GameRoom.hpp:83), a single player left.
OnlyDecidedGamesEnd ==
    [][room = "RUNNING" /\ room' = "LOBBY"
          => ~Several(roster \cap BaseHolders(runtime'.tiles))]_vars

\* The two end checks of one attack never both announce the end, and no game
\* runs on, or runs without ticking, after its end was announced.
EndAnnouncedOnce ==
    /\ runtime.ends <= 1
    /\ room = "RUNNING" => runtime.ends = 0 /\ ticking

\* Within a game a tile passes only to a player who held a stronger tile,
\* which is left with one troop, or to nobody, and then it is empty.
TilesAreEarned ==
    [][games' = games =>
        \A t \in DOMAIN runtime.tiles :
            LET old == runtime.tiles[t]
                new == runtime'.tiles[t]
            IN  new.owner # old.owner =>
                    \/ new.owner = NoUser /\ new.value = 0
                    \/ \E s \in DOMAIN runtime.tiles :
                          /\ runtime.tiles[s].owner = new.owner
                          /\ runtime.tiles[s].value > old.value
                          /\ runtime'.tiles[s].value = 1]_vars

\* A battle's players are the members it started with and the owners its map
\* names: nobody is left over from an earlier game of the room.
NoStalePlayers ==
    room = "RUNNING" =>
        /\ roster \subseteq DOMAIN runtime.players
        /\ DOMAIN runtime.players \subseteq
              roster \cup {NoUser}
                     \cup {MapTiles[runtime.map][t].owner : t \in DOMAIN MapTiles[runtime.map]}
=============================================================================
