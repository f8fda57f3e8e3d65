SPECIFICATION Spec
CONSTANTS
    acceder = acceder
    leer = leer
    ORG = ORG
    p1 = p1
    w1 = w1
    c1 = c1
    Ninguno = Ninguno
    Codigos = {acceder, leer}
    Protegidos = {acceder}
    Sembrados = {acceder}
    Modulos = {ORG}
    ModuloDe <- MCModuloDe
    Versiones <- MCVersiones
    Procesos = {p1}
    MaxFallos = 1
    Plan = {ORG}
    Requeridos = {ORG}
    Nucleo = {}
    ConMenus = {ORG}
    Globales = {acceder}
    Acceder = acceder
    Base = {acceder, leer}
    Estandar <- MCEstandar
    Minimo = 1
    Suficiente = 2
    Clientes = {c1}
    Workers = {w1}
INVARIANTS
    TypeOK
PROPERTIES
    TenantsAreComplete
    AssignedRolesHaveBase
