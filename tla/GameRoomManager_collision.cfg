SPECIFICATION Spec
CONSTANTS
    Users = {u1, u2}
    NoUser = NoUser
    Maps = {m1}
    LoadableMaps = {m1}
    DefaultMap = m1
    NoMap = NoMap
    Texts = {t1}
    Codes = {c1}
    Capacities = {1, 3}
    IdSpace = 4
    CreateLimit = 2
    CountLimit = 4
SYMMETRY Symmetry
INVARIANTS
    CodesIdentifyRooms
