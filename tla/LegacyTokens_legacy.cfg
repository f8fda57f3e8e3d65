SPECIFICATION Spec
CONSTANTS
    t1 = t1
    t2 = t2
    t3 = t3
    t4 = t4
    w1 = w1
    w2 = w2
    NoToken = NoToken
    Tokens = {t1, t2, t3}
    Workers = {w1, w2}
    MaxSessions = 1
INVARIANTS
    TypeOK
    OneActivePerSession
    NoAccessAfterEnd
PROPERTIES
    ImplementsContract
SYMMETRY Symmetry
