SPECIFICATION SyncSpec
CONSTANTS
    acceder = acceder
    leer = leer
    crear = crear
    INV = INV
    p1 = p1
    p2 = p2
    Ninguno = Ninguno
    Codigos = {acceder, leer, crear}
    Protegidos = {acceder}
    Sembrados = {acceder}
    Modulos = {INV}
    ModuloDe <- MCModuloDe
    Versiones <- MCVersiones
    Procesos = {p1, p2}
    MaxFallos = 1
SYMMETRY Symmetry
INVARIANTS
    SyncTypeOK
    SyncConverges
