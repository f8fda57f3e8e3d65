SPECIFICATION Spec
CONSTANTS
    a = a
    b = b
    p = p
    q = q
    m1 = m1
    m2 = m2
    m3 = m3
    m4 = m4
    c1 = c1
    w1 = w1
    w2 = w2
    None = None
    Warehouses = {a, b}
    Products = {p}
    Movements = {m1, m2, m3}
    Counts = {c1}
    Workers = {w1}
    Headers <- AllHeaders
    LineLists <- MixedLines
    CountLists <- Sheets
    MaxStock = 4
    MaxLines = 1
    Operations <- AllOperations
SYMMETRY Symmetry
INVARIANTS
    TypeOK
    EstornoIsInverse
    OneAdjustmentPerCount
PROPERTIES
    ImplementsLedger
CHECK_DEADLOCK FALSE
