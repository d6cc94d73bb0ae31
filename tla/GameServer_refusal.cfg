SPECIFICATION Spec
CONSTANTS
    Users = {u1}
    NoUser = NoUser
    Codes = {c1}
    DefaultMap = m1
    NoMap = NoMap
    Text = t1
    SessionSpace = 4
    MaxSessions = 1
    ListLimit = 1
    Kinds = {"login", "logout", "create", "join", "leave", "list"}
    ConnLimit = 1
    RequestLimit = 1
    TotalLimit = 1
PROPERTIES
    RefusalsAnswered
CHECK_DEADLOCK FALSE
