SPECIFICATION Spec
CONSTANTS
    Users = {u1, u2}
    NoUser = NoUser
    Maps = {m1, m2}
    LoadableMaps = {m1}
    DefaultMap = m1
    NoMap = NoMap
    Texts = {t1}
    Codes = {c1, c2}
    Capacities = {1, 2}
    IdSpace = 2
    CreateLimit = 3
    CountLimit = 2
SYMMETRY Symmetry
VIEW Tables
INVARIANTS
    TypeOK
    GroupsWellFormed
    CountCoversMembers
    MembersArePlayers
    RunningRoomMatchesBattle
    CodesResolve
PROPERTIES
    DirectoryImplemented
