SPECIFICATION FairSpec
CONSTANTS
    a = a
    b = b
    p = p
    q = q
    m1 = m1
    m2 = m2
    m3 = m3
    m4 = m4
    c1 = c1
    w1 = w1
    w2 = w2
    None = None
    Warehouses = {a}
    Products = {p, q}
    Movements = {m1, m2, m3}
    Counts = {c1}
    Workers = {w1, w2}
    Headers <- RaceHeaders
    LineLists <- BothLines
    CountLists <- CrossedSheet
    MaxStock = 1
    MaxLines = 2
    Operations <- PostingOperations
INVARIANTS
    OneCompensation
    EstornadoIsCompensated
    AdjustedCountIsPosted
PROPERTIES
    RequestsEnd
CHECK_DEADLOCK FALSE
