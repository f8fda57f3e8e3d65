SPECIFICATION Spec
CONSTANTS
    w1 = w1
    w2 = w2
    w3 = w3
    None = None
    Workers = {w1, w2}
    Types <- Everything
    SendEstado <- SentByClients
SYMMETRY Symmetry
INVARIANTS
    TypeOK
    NothingIsSkipped
PROPERTIES
    ImplementsLifeCycle
