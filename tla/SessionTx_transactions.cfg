SPECIFICATION Spec
CONSTANTS
    u1 = u1
    s1 = s1
    s2 = s2
    t1 = t1
    t2 = t2
    t3 = t3
    t4 = t4
    w1 = w1
    w2 = w2
    w3 = w3
    Users = {u1}
    Sessions = {s1, s2}
    Tokens = {t1, t2, t3}
    Workers = {w1, w2}
    Owner <- OneOwner
    Operations <- AllOperations
    NoToken = NoToken
    NoSession = NoSession
    NoWorker = NoWorker
    NoUser = NoUser
SYMMETRY Symmetry
INVARIANTS
    TypeOK
    LinearChain
    SingleCredential
    CompromisedFamilyIsDead
    ClosedSessionIsDead
    RotationOwnsItsRows
PROPERTIES
    NoResurrection
    ClosedSessionIssuesNothing
    ImplementsContract
