SPECIFICATION Spec
CONSTANTS
    a = a
    b = b
    p = p
    q = q
    m1 = m1
    m2 = m2
    m3 = m3
    m4 = m4
    c1 = c1
    w1 = w1
    w2 = w2
    None = None
    Warehouses = {a}
    Products = {p}
    Movements = {m1, m2}
    Counts = {c1}
    Workers = {w1, w2}
    Headers <- RaceHeaders
    LineLists <- OneLine
    CountLists <- OneSheet
    MaxStock = 3
    MaxLines = 1
    Operations = {"procesar"}
SYMMETRY Symmetry
INVARIANTS
    StockIsDerived
CHECK_DEADLOCK FALSE
