SPECIFICATION Spec
CONSTANTS
    Users = {u1, u2, u3}
    Sessions = {s1, s2, s3}
    NoUser = NoUser
    NoSession = NoSession
INVARIANTS
    TypeOK
    BackRoute
PROPERTIES
    SilencedOnlyByRouteChange
