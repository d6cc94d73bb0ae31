SPECIFICATION Spec
CONSTANTS
    Users = {u1, u2}
    NoUser = NoUser
    Codes = {c1}
    DefaultMap = m1
    NoMap = NoMap
    Text = t1
    SessionSpace = 3
    MaxSessions = 2
    ListLimit = 1
    Kinds = {"login", "logout", "create", "join", "leave", "list"}
    ConnLimit = 3
    RequestLimit = 2
    TotalLimit = 6
INVARIANTS
    TypeOK
    DeliveredToOwner
    SenderLoggedIn
    AnswersInOrder
    RoutedUsersArePlayers
CHECK_DEADLOCK FALSE
