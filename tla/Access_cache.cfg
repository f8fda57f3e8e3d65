SPECIFICATION Spec
CONSTANTS
    u1 = u1
    r1 = r1
    p2 = p2
    m1 = m1
    e1 = e1
    k1 = k1
    k2 = k2
    w1 = w1
    w2 = w2
    None = None
    Global = Global
    Usuarios = {u1}
    Roles = {r1}
    Permisos = {p2}
    Modulos = {m1}
    Empresas = {e1}
    Sesiones = {e1}
    Instalaciones = {FALSE, TRUE}
    Cambian <- Switched
    Filtros <- Filters
    Filas = {1}
    Procesos = {k1, k2}
    Workers = {w1, w2}
    Atiende <- Served
    ProcesoDe <- OneEach
    ModuloDe <- SecondInModule
    PrefijoDe <- SecondInModule
    TTL = 0
    MaxFill = 1
INVARIANTS
    TypeOK
    AnswersAreRecent
    OnlyAskedFor
