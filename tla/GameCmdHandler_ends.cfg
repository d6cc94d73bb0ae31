SPECIFICATION Spec
CONSTANTS
    u1 = u1
    u2 = u2
    Users = {u1, u2}
    NoUser = NoUser
    Maps = {siege, missing}
    LoadableMaps = {siege}
    NoMap = NoMap
    Tiles = {1, 2, 3}
    MapTiles <- SiegeBoard
    Growths = {1, 3}
    Width = 4
    TickSpace = 2
    GameLimit = 1
    CmdLimit = 2
PROPERTIES
    OnlyDecidedGamesEnd
CHECK_DEADLOCK FALSE
