------------------------- MODULE GameCmdHandler_mc -------------------------
(* Small boards for TLC. *)
EXTENDS GameCmdHandler

CONSTANTS u1, u2

Tile(owner, value, base) ==
    [owner |-> owner, value |-> value, base |-> base, countered |-> FALSE]

\* Two bases of equal strength and a stronger outpost; a neutral tile.
Duel == <<Tile(u1, 2, TRUE), Tile(u2, 2, TRUE), Tile(u1, 3, FALSE), Tile(NoUser, 1, FALSE)>>

\* One player with a base to spare.
Siege == <<Tile(u1, 3, TRUE), Tile(u2, 2, TRUE), Tile(u2, 2, TRUE)>>

Board == [m \in LoadableMaps |-> Duel]
SiegeBoard == [m \in LoadableMaps |-> Siege]
=============================================================================
