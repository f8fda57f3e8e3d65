SPECIFICATION Spec
CONSTANTS
    u1 = u1
    s1 = s1
    s2 = s2
    s3 = s3
    t1 = t1
    t2 = t2
    t3 = t3
    t4 = t4
    r1 = r1
    r2 = r2
    Users = {u1}
    Sessions = {s1, s2, s3}
    Tokens = {t1, t2, t3}
    Requests = {r1}
    MaxSessions = 2
    Operations <- AllOperations
    Events = {}
    Owner <- OneOwner
    NoToken = NoToken
    NoSession = NoSession
    NoUser = NoUser
SYMMETRY Symmetry
INVARIANTS
    TypeOK
    SessionLimit
    PasswordChangeEndsOldSessions
    OneLinkedAccess
