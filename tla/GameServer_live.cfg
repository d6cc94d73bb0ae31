SPECIFICATION Spec
CONSTANTS
    Users = {u1, u2}
    NoUser = NoUser
    Codes = {c1}
    DefaultMap = m1
    NoMap = NoMap
    Text = t1
    SessionSpace = 3
    MaxSessions = 2
    ListLimit = 0
    Kinds = {"login", "create", "join", "list"}
    ConnLimit = 2
    RequestLimit = 3
    TotalLimit = 3
PROPERTIES
    SessionRequestsAnswered
    UserRequestsAnswered
    TablesImplemented
CHECK_DEADLOCK FALSE
