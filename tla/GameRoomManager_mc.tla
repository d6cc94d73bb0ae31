------------------------- MODULE GameRoomManager_mc -------------------------
(* TLC instances of GameRoomManager. *)
EXTENDS GameRoomManager

\* Users and room codes only differ in what is done with them.
Symmetry == Permutations(Users) \cup Permutations(Codes)

\* No guard reads currentGroup or ready, and of the properties only TypeOK
\* does, for their types: states that differ only there have the same future.
Tables == <<rooms, codeMap, created, players>>
=============================================================================
