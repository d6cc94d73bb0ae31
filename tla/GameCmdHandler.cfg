SPECIFICATION FairSpec
CONSTANTS
    u1 = u1
    u2 = u2
    Users = {u1, u2, u3}
    NoUser = NoUser
    Maps = {duel, missing}
    LoadableMaps = {duel}
    NoMap = NoMap
    Tiles = {1, 2, 3, 4}
    MapTiles <- Board
    Growths = {1, 3}
    Width = 4
    TickSpace = 2
    GameLimit = 2
    CmdLimit = 4
INVARIANTS
    TypeOK
    TickLoopAlive
    DecidedGamesEnd
    EndAnnouncedOnce
    NoStalePlayers
PROPERTIES
    TilesAreEarned
    TicksAdvance
CHECK_DEADLOCK FALSE
