# A verification project for ownGameServer

The repository is a C++20 game server on asio: clients connect over TCP, log
in, create and join rooms, and (in a part that is not wired up yet) play a
battle on a tile map.  This directory holds TLA+ models of its parts, TLC runs
that check them on small instances, and TLAPS proofs of the results that
matter most.  Source paths below are relative to `src/src/`.

Run a check with `tlc -config X.cfg M` and a proof with `tlapm M_proofs.tla`.
`PROJECT.json` lists the components, runs, mutants, the source lines of every
definition, the findings, the hazards and the theorems.

## The system

| Component | State | Operations | Talks to |
|---|---|---|---|
| `network/TcpServer`, `session/SessionManager` | sessions by id, next id, heartbeat times, sweep flag and timer | accept, close, look up, heartbeat, sweep | creates sessions and connections, is told by connections that they closed |
| `business/ReqHandler/HeartbeatHandler` | none | a heartbeat | session manager |
| `session/TcpConnection` | write queue, started/closed, outstanding socket operations | Start, Send, Close; completions of reads and writes | a strand; calls the session with bytes, the manager on close |
| `session/ClientSession` | receive buffer | onSocketRecv, SendMessage | codec, router, connection |
| `codec/mTcpCodec` | none | EncodeSync, DecodeSync | |
| `protocol/Router/MsgRouter` | handlers by message type | receive, send to user / session / room | `UserSessionMap`, `SessionManager`, handlers, rooms |
| `protocol/Router/UserSessionMap` | user to session, session to user | bind, unbind, look up | called by the router and by login |
| `business/ReqHandler` | a strand | login, logout | login callbacks: user table, then player manager |
| `business/GameRoom/RoomReqHandler` | a strand | create, join, leave, list | room manager, router |
| `business/GameRoom/GameRoomManager` | rooms by id, ids by code, next id | the ten room operations | rooms, player manager |
| `business/GameRoom/GameRoom` | settings, members, game state | the same, per room | group, battle handler, router |
| `business/Group` | capacity, ordered members | add, remove, resize | |
| `business/GamePlayer` | players by user id | login, look up, (logout) | |
| `business/GameLogic/GameCmdHandler` | runtime data, tick timer | start, tick, commands, end check | calls the room when a game ends |
| `business/GameLogic/GameMapIO` | loaded maps | load | file system |

Four io threads run one `io_context`.  Three kinds of strand order the work: one
per connection (reads, writes and closing), one for logins, one for rooms.  The
tables are protected by a mutex for one call at a time, never across calls.  The heartbeat
sweep is a timer without a strand: its handler runs on any thread, and looks at
the session table three times under three locks.

What is hard here: a request is attributed to a user on the connection's strand
and served later on another; an answer to a user needs two look-ups under two
locks; two callbacks make up a login; routes are not removed when a connection
closes; asio completions and handlers are separated by other tasks of the
strand; the sweep uses a list of sessions after it gave the lock up; TCP cuts
the stream anywhere; counters and codes wrap and collide.
`PROJECT.json` "hazards" lists each at its line with the properties aimed at it.

## The modules

* **UserSessionMap** – the two maps and every operation on them; one operation
  is one step because each takes the unique lock for its whole body.  An absent
  key is the id 0 (`NoUser`, `NoSession`), which is what a failed look-up
  returns.  `UserSessionMap_proofs` proves its properties.
* **Group** – the template's methods as operators: for each method the result it
  returns and the group it leaves.  `Group_proofs` states what they do to length,
  membership and distinctness; the room proofs rest on these lemmas.
* **GameRoom** – the methods of one room on a record, in the same style.
  Starting a game is `InitGameState; StartGame; StartTicking` and the state
  change, and the exception of a map that cannot be loaded leaves what it leaves.
* **GameRoomManager** – the state machine over all rooms, codes and players: one
  action per manager method, plus a player's login and the end of a game.
  `GameRoomManager_mc` adds TLC's symmetry; `GameRoomManager_proofs` the proofs.
* **RoomDirectory** – what the room table promises, without codes, maps, counters
  and the order of members: rooms with an owner, seats, members, and a game with
  the fighters who sat there when it began.  `GameRoomManager` implements it
  (`DirectoryImplemented`): `Listing` and `Listed` give a table and the directory
  it stands for.
* **SessionManager** – the session table, heartbeats and the sweep.  A step is
  what happens under the lock once; reading the clock, collecting the expired
  sessions, closing each, and looking whether any are left are steps of their
  own, as are the four parts of `CreateSession`.  The catch of `CreateSession`
  covers both calls that may throw, `Start` (`StartThrows`) and the setting of
  the sweep's timer (`StartSweepThrows`): `TakeBack` takes the session out again
  and leaves the sweep's flag as it is, so after a throw of the timer the flag
  stays set with nothing scheduled.  The history variable `armFailed` remembers
  that, and the sweep's properties are stated up to it.  A connection is reduced to what
  the manager sees of it: `Close` posted, `DoClose` run, callback run.  Time is
  counted in units of which the timeout has `Timeout`, and `silence` is how long
  ago a session's last heartbeat is.  The call that starts the sweep is commented
  out in the code (lines 77-78): `SweepEnabled = FALSE` is the code as it stands,
  `TRUE` the code with the call put back.  The run takes `TRUE`, as the sweep is
  code that is meant to run; the proofs hold for both.
* **TcpConnection** – one connection: the strand's queue of tasks, the socket
  operations outstanding, the write queue.  A write has no timeout in the code, so
  it may stay outstanding as long as the connection is open.  Calls from other threads submit
  tasks, the socket completes operations, the strand runs one task at a time.
  `TcpConnection_proofs` proves its safety properties.
* **mTcpCodec** – `EncodeSync`, which refuses a message or cuts it into frames,
  and `DecodeSync`, the loop over a buffer.  A byte carries the frame it belongs
  to and its place in it, which is all the decoder distinguishes.
* **ClientSession** – one direction of a connection whose ends both use the
  codec: `SendMessage` encodes and hands over all frames at once, `onSocketRecv`
  takes reads of any size.  Nothing puts the parts of a cut-up message together
  again: `DecodeSync` reads no fragment numbers, so the router sees the parts.
  `Arrived` says that a message's parts, which `Tiles` puts side by side, make up
  the whole of it.  `ClientSession_proofs` proves its properties, and what encoder
  and decoder compute.
* **GameCmdHandler** – one room's battle: commands and the end check as operators
  that take and return the runtime data, and a state machine of the room's calls
  (start, command, the end that a command brings about) beside the tick timer.
  A completed wait is a task of the handler's own strand, and its handler is two
  steps (check and tick, then wait again), between which the room may stop and
  restart the loop.  Commands reach the handler only while the room runs a game
  and only from its players; that is the contract the comment at
  `GameCmdHandler.cpp:214` states, for a caller that does not exist yet.
  `GameCmdHandler_mc` holds the board for TLC, `GameCmdHandler_proofs` the proofs.
* **GameServer** – the composition.  It instantiates `UserSessionMap` and
  `GameRoomManager` over its own variables and adds sessions, the three kinds
  of strand, and the messages each handler sends.  A table call is one step, so
  everything the code leaves unlocked interleaves: looking up a sender and
  posting the task, the two login callbacks, the two look-ups of a send, the
  messages of a broadcast.  A room task's operation on the room tables is one
  step, as only the room strand changes rooms.  An answer may fail to be written:
  `Deliver` writes nothing if the session has gone or if the message does not fit
  (`Fits`: the list of all rooms grows with the rooms, and `EncodeSync` refuses
  more than `MAX_DATA_SIZE`), and `SerializeThrows` is the throw of `root.dump()`
  on a text that is not UTF-8.  The task runs on a strand with no handler for
  exceptions, so the throw leaves `io_context.run()`: in the main thread it
  reaches the catch of `main`, which returns, in another it terminates the
  process.  Either way the server is down (`up` is FALSE) and takes no further
  step.  `TablesImplemented` says that
  every step of the server is a step of each table's own specification or leaves
  it alone.  `GameServer_proofs` proves the safety properties of the composition,
  and that the tables' own theorems hold inside it.

Connections are numbered in the order they are accepted.  Everything written to
a connection stays in `outbox` and every login in `bound`, as history.

## The runs

| Run | What it asks | Bounds |
|---|---|---|
| `routes` | is a session's user always a user routed to it, and is nobody's session silenced by anything but a move of a route to it | 3 users, 3 sessions, unbounded operations |
| `rooms` | do members, capacity, count, map and battle stay consistent through every sequence of room operations; does each code lead to a live room that carries it; does the table implement the directory | 2 users, 3 creations on 2 ids (the second gets the id 0, the third the id of the first, live or not), 2 codes, capacities 1 and 2, one map that loads and one that does not, count up to 2 |
| `room_code_collision` | violated: two live rooms can share a code | 2 creations, 1 code |
| `connection` | one write at a time, in order; one close; everything is written unless the connection closes or the peer stalls a write for ever; a closed connection is released | 3 sends, 2 closes, 1 read |
| `framing` | does the decoder keep its place, deliver in order and once, and give back what the encoder was given; when exactly does it lose messages; how much does a read leave in the buffer | 3 messages of 0, 2, 5 or 6 bytes or heartbeats, 0 or 3 bytes of junk before each, reads of 1 to 8 bytes; magic 2, header 3, prefix 1, chunk 2, at most 5 bytes of data and 3 frames |
| `framing_lost` | violated: a whole frame followed by part of another is lost | 2 messages, no junk |
| `server` | who gets which message, in which order, and who is taken for whom | 2 users, 3 sockets on 3 session ids (the third gets id 0 and is refused), 2 requests each |
| `server_live` | is every request of a logged-in user answered; does every step of the server keep to its tables' specifications | 2 users, 2 places, 2 connections side by side or one after the other, 3 requests in all (login, create, join, list), a list with a room in it is too long |
| `battle` | does a game end exactly once, does a decided game end, does it tick until then; does it leave nothing to the next game | 3 users, 2 games, 4 commands each, a board of 4 tiles with 2 bases, counters of 4 values, a map that loads and one that does not |
| `battle_ends` | violated: a game ends that is not decided | 2 users, 1 game, 2 commands, a board of 3 bases of which one player has two |
| `sessions` | does the sweep watch every session and run once; does it close silent sessions, only those, and each once | 4 sockets on 4 ids (the fourth gets id 0), 2 places, timeout and interval 1, a clock read up to 1 unit before the lock |
| `refusal_unanswered` | violated: a refusal to a connection without a user reaches nobody | 1 connection, 1 request |

Why the bounds are enough: the interesting cases need a user who moves, a second
user on a session, a room that is full, a code drawn twice, a session whose
connection has gone, a write completed but not handled; each run's bounds admit
them, and for every checked property a mutated definition (a dropped guard, a
forgotten half, an id given out again) shows that the run finds its violation.
In `rooms` two rooms are enough for a code drawn twice, and a third creation for
ids that go round onto 0 and then onto the id of a room that may still be live
(from then on `CodesResolve` claims nothing; the other properties go on holding);
two users fill a room of one or two seats, are refused by the first, and
can play.  The run uses symmetry of users and codes, and a view without
`currentGroup` and `ready`, which no guard reads and no property but `TypeOK`
looks at (that part of `TypeOK` is proved).  In `framing` payloads of 0, 2, 5
and 6 bytes are none, one whole chunk, two chunks and a rest, and one too many;
the longest read brings more than one frame.  In `sessions` one timeout is enough for a heartbeat to fall
before the sweep's clock, between clock and lock, and after the lock.  In `server`,
`DeliveredToOwner` and `SenderLoggedIn` are stated until session ids have gone
round (2^32 connections in the code): routes outlive connections, and what keeps
them harmless is that an id is not given out again.  In `server_live` two
connections exist at once, so the same user may log in on both, and between the
two look-ups of an answer the route may move to the other one; three requests
are a login on each and the request whose answer is followed.

In `battle`, counters of four values (`Width`) bring every wrap of the 32-bit
arithmetic within reach of four commands, a growth of 3 stands for a negative
amount, and the board is chosen so that every branch of a fight, on a base and
off it, is taken; the third user plays one game and not the other.

The runs of `TcpConnection`, `ClientSession`, `SessionManager`, `GameCmdHandler`
and `GameServer` do not check for deadlock: a closed connection, a stream read to
its end, a handler whose games are over and clients that have used their
sockets or requests have nothing left to do.

### Fairness

`TcpConnection` and `GameServer` assume weak fairness of the strands (an io
thread runs every posted task, in `GameServer` as long as the process runs).
In `TcpConnection` operations that are outstanding when the socket is closed are
cancelled, so they complete; nothing is assumed of them while it is open.  A peer
that reads nothing can keep a write outstanding for ever, as the code sets no
timeout for it: `SentIsWrittenOrClosed` names that outcome (`WriteStalls`).
`GameCmdHandler` assumes it of the timer (a wait that is not cancelled completes)
and of its handlers; nobody has to play.  `SessionManager` assumes that time
passes, that the acceptor's call and the sweep's handler go on (an io thread runs
them), and that a strand runs the `DoClose` posted to it and its callback.
Nothing is assumed of clients: connecting, sending, reading, heartbeats and
disconnecting are never fair.

### Findings

* `GameCmdHandler.cpp:192` looks only at players that have failed already, and
  nothing makes a player fail before that test, so the first base lost ends the
  game with the winner 0, while two players still have bases (`battle_ends`).
  The comment at line 204 (clear the tiles of an eliminated player) and the name
  of the callback's argument (the winner, `GameRoom.hpp:83`) mean a game that
  goes on until one player is left.
* `RoomReqHandler.cpp:71` (and the same in create) addresses a refusal to user 0,
  so a client that has not logged in, or that sends its first room request
  before its login was served, gets no answer (`refusal_unanswered`).
* `ClientSession.cpp:74` drops the messages decoded before an incomplete frame
  after their bytes were taken off the buffer (`framing_lost`).
* `GameRoomManager.cpp:92` does not look whether a code is in use
  (`room_code_collision`).

Noted while modelling and visible in the models, without a run of their own:
`HeartbeatHandler` answers with an empty payload, which `EncodeSync` refuses
(`mTcpCodec.hpp:43`) before it looks at the type, so its branch for heartbeats
(lines 61-70) is never reached and no heartbeat is answered; the heartbeat
sweep is never started (`SessionManager.cpp:77-78`); a message that was cut into
fragments arrives as several messages; `onSocketRecv` does not check that a read
fits (`ClientSession.cpp:57-61` is commented out), which is harmless for a stream
of frames as `EncodeSync` makes them (`LeftoverIsShort`: less than one frame of at
most some 4 KB stays, a read brings at most 4 KB, and the buffer has 64 KB) and
not for longer frames or other bytes, where a read that meets junk stops at the
next magic number and keeps all that follows; `RoomReqHandler.cpp:110` copies the
room code into an empty string, so a request to leave a room is neither served
nor answered (`RoomLeave` leaves all as it is); a list of rooms beyond
`MAX_DATA_SIZE` is never answered, and a room name or password that is not UTF-8
ends the process; `KickPlayer` does not take `player_count` down (clients see the group's own
count); `next_room_id_` may become 0; a second user's login on a session leaves
the first user's route in place; logout does nothing and the callbacks that
`main.cpp` registers for it are never called; a write's handler pops an empty
queue if the connection closed under it (`underflow`).  With the sweep put
back, a throw of its timer in `CreateSession` leaves the flag set, so no later
session starts it again; the client's connection, if it reads already, stays
open without a session; and the same throw in the sweep's own handler
is caught by nobody.  In the battle, nobody ever fails (`NobodyFailed` in the
proofs); `baseCount` is never set from the map, so it starts at 0 and the loss of
a base wraps it; `src.value` is set to 1
before it is used (lines 87 and 107), so a move carries no troops and a
conquered tile keeps the defender's value minus 2, which wraps when it held 0
or 1; a move onto one's own base counts the base again.

## The proofs

All results hold for every value of the constants, under the assumptions the
modules name (`NoUser` is no user, the default map is a map, limits and sizes are
natural numbers, there is at least one id).  `GameServer` also takes its set of
users to be finite (a user id has 32 bits in the code): the bound it hands to the
room manager counts them.

* **UserSessionMap_proofs.** `BackRoute` (a session's user is routed to it) is
  inductive with the type invariant: `Bind` erases the session the user is
  routed to before it sets both entries, and both unbinds erase both sides.
  `OneSessionPerUser` and the action property `SilencedOnlyByRouteChange`
  follow from it.
* **Group_proofs.** The effect of adding, removing and resizing on the members'
  set, length and distinctness.
* **GameRoomManager_proofs.** The inductive invariant `Inv` is the type
  invariant, a soundness condition on every room (`SoundRoom`: its group well
  formed, its count at or above the members, its battle matching its state,
  its members and owner players), and three facts on ids and codes: the ids of
  live rooms and codes have been given out (`IdsInOrder`), codes lead to live
  rooms, and those carry the code.  `IdsInOrder` is what makes a new id fresh
  until ids wrap; without it `CodesResolve` is not inductive.  One lemma per room
  operation shows it preserves `SoundRoom`, one per action lifts it to the table.
  The theorems project `Inv` on the properties the runs check.

* **GameCmdHandler_proofs.** The inductive invariant says that nobody has failed,
  that a running game is played on its map's board by its owners and the roster
  (`PlaysMap`), and that the loop is on exactly in a running room and is
  continued by something.  That nobody has failed makes every end check announce
  the end (`EndCheckAnnounces`).  The heart is `AttackFollows`: of the end checks
  in one attack at most one is reached, because a defender that answers is at
  least as strong as its attacker and nothing is left of the attacker to take
  from it.  One lemma per command shows what it may do to the runtime
  (`Follows`); the state machine needs nothing else of the rules.  One part of it,
  `Earned`, is what `TilesAreEarned` says of a board and the next.

* **GameRoomManager_proofs, refinement.** `DirectoryHolds`: one lemma per manager
  method shows that the room it leaves is one the directory's step allows, from
  `SoundRoom`; a last part shows that a table's listing changes where the table
  does.
* **TcpConnection_proofs.** The invariant ties the messages at their four places
  together: on the wire, in the queue behind it (`QueueFollowsWire`), submitted
  behind the queue (`SendsFollowQueue`), not yet sent.  A message that is written
  and not popped is on the wire and in the queue, so the queue starts at `Popped`,
  which depends on whether a completed write waits for its handler.  Without
  `OneWriteAtATime` that place is not determined; neither is inductive alone.
* **SessionManager_proofs.** `Keyed` says under which id a connection is in the
  table and what a connection outside it may be; `Lateness` that whoever is
  silent too long is in the history of those who were, and that what the sweep
  has collected is, until ids go round.  With them the flag and the threads on
  their way to the next sweep (`SweepLoopRuns`) and `ClosedOnce` are inductive.
  `SweepLoopRuns` says what holds also after the timer's arming has thrown: the
  flag is set then, and no thread need be on its way.
* **GameServer_proofs.** The inductive invariant has three parts.  `Types` is the
  type invariant, and that between the two halves of a login its strand has
  nothing to send.
  `Owners` follows a session id through the server: as long as ids have not gone
  round, whatever names a session -- a route, a task, a message between its two
  look-ups, the outbox -- names one that was known when the user was bound to it.
  `Order` follows a request: arriving, queued, being answered, answered; the
  requests of one connection and strand are in that order at each place, and all
  of one place before all of the next.  `DeliveredToOwner` and `SenderLoggedIn`
  need the first, `AnswersInOrder` the second.
* **GameServer_proofs, the tables.** `RoutesMove` and `RoomsMove` go through the
  actions: a login's first callback is a call of the user table, its second one
  and the room requests are calls of the room manager with arguments that `Types`
  shows to be valid, and everything else leaves the tables alone.  `TablesHold`
  follows.  To use what is proved of the tables, the proof modules of both are
  instantiated over the server's variables (`RoutesProved`, `RoomsProved`); the
  server's constants meet their assumptions (`RoutesAssumptions`,
  `RoomsAssumptions`), and the calls the server makes are steps of the instances.
  `RoutesKept`, `RoomsKept`, `CodesKept` and `DirectoryKept` are then the tables'
  theorems, stated of the server.  The lemmas named `Same...` say that an operator
  reached through one instance is the operator reached through the other; the
  prover takes them for different symbols.  `CodesKept` has no proviso about ids
  that go round because `GameServer` has more room ids than requests; what happens
  when they do is in `CodesHold`.
* **GameServer_proofs, the counters.** `TakenUp` is the set of requests that the
  room strand cannot take up any more; each step keeps it (`DoneStays`) and each
  call of `CreateRoom` adds a new one (`CreatedMoves`), so calls are no more than
  requests.  `player_count` is exact, as the server offers no kick (`CountsExact`),
  and a list without repetitions is no longer than its set (`DistinctFits`).
  Hence `LimitsNotReached`: the bounds `GameServer` gives the room manager cut off
  nothing the handlers could do.
* **ClientSession_proofs.** The codec first.  `EncodeSyncTiles` says what
  `EncodeSync` makes: whole frames, numbered one after another, whose parts are
  the payload from its first byte to its last.  `Stream` is what any number of
  such messages and junk between them look like: the rest of a byte's frame
  follows it (`Whole`), and bytes come in the order they were encoded (`Ordered`);
  cutting the front off keeps both.  `DecodeUndoesEncode` says that the decoder
  turns the frames of one message back into parts that tile it.  `Inv` is the
  inductive invariant.  It speaks of `Pending`, the buffer and the stream behind
  it: the parts handed on were sent before every pending byte (`Ahead`); without
  junk and losses the pending frames follow each other without a gap (`Gapless`),
  and each accepted message has arrived whole (`Done`), goes on in the next frame
  (`UnderWay`), or lies ahead with its first byte (`Waiting`).  None of the
  properties is inductive without these: `DeliveredInOrder` says nothing of
  bytes that are still to be decoded, `RoundTrip` nothing before the stream is
  empty.  A read is many rounds of the decoding loop, so these parts are stated
  of an offset and followed from round to round (`Holds`).

What a recursive function or a loop computes is proved there by induction over
natural numbers, which the installed provers cannot take from a library theorem
that has an operator as a parameter.  The induction is made with sets instead:
of the offsets at which a claim fails, one is the least (or, counted from the end
of the input, the last), and the claim holds around it.  The decoder is a
recursive function over offsets, and its equation is proved in the same way,
from functions on larger and larger parts of the input.

Model-checked only: the liveness properties `SentIsWrittenOrClosed`,
`ClosedIsReleased`, `TicksAdvance`, `SilentSessionsClosed`,
`SessionRequestsAnswered` and `UserRequestsAnswered`, which need fairness and
`ENABLED`.  Every other property of a passing run is stated by a theorem.

## Not modelled

The map file format and the cache of loaded maps (a map loads or does not); the
checksum (written, never verified) and hex dumps; the pass-through codec, which
nothing uses; `JsonTranslator`, beyond that it may throw and that a list may be
too long (its `ParseCommand` nothing calls); exceptions of allocation in general,
as between lines 59 and 74 of `CreateSession`; `SessionManager::forEachSession`, which nothing
calls; the abandoned
`UserStateManager`; the removal of players at logout, which nothing in `main.cpp`
reaches; a battle handler that is destroyed while a completed wait is queued
(what its callback then reads is undefined), and the race of two threads inside
the timer object.  Of the battle, the model leaves out what is written and never
read: resources, score, seats, `acted`.  In `GameRoomManager` a battle is only
its map and the players it started with; the commands are in `GameCmdHandler`.
Passwords are stored and never checked by the code, so they are one value.
In `GameServer` a session is open until it disconnects; the sweep is the subject
of `SessionManager`, the writing of `TcpConnection`.

## Plan

Done: every component `main.cpp` wires, the sweep it leaves out, and the battle;
proofs of the tables, rooms, connection, session, codec, session manager and
battle, of the composition's safety, and of the tables inside the composition.
What is left:

1. `GameCmdHandler` under a mapping to `GameRoom`'s record: the battle's start and
   end are the room's.
2. An abstract mailbox (each session is delivered its own user's messages, each
   connection's answers in order) that `GameServer` implements.
3. The cache of loaded maps, when something evicts from it.
