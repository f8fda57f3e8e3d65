---------------------------- MODULE PermissionSync ----------------------------
(***************************************************************************)
(* The catalogue of permissions and the processes that write it when they  *)
(* start.  Every process declares the codes of its version's routes and    *)
(* brings the table permiso in line with them, statement by statement,     *)
(* each in a transaction of its own, errors only logged.  Versions differ  *)
(* while a deployment is rolled out, and a process may stop anywhere.      *)
(***************************************************************************)
EXTENDS Naturals

CONSTANTS
    Codigos,      \* permission codes
    Protegidos,   \* PROTECTED_PERMISSION_CODIGOS
    Sembrados,    \* the codes the seed has put into the catalogue
    Modulos,      \* modules
    ModuloDe,     \* the module a code is declared with, or Ninguno
    Versiones,    \* the versions of the program: what each declares
    Procesos,     \* application processes
    MaxFallos,    \* BOUND: the statements of one startup that fail
    Ninguno       \* NULL

ASSUME CodigosAssumption ==
    /\ Protegidos \subseteq Codigos /\ Sembrados \subseteq Codigos
    /\ ModuloDe \in [Codigos -> Modulos \cup {Ninguno}]
    /\ Versiones \subseteq SUBSET Codigos
    /\ Ninguno \notin Modulos /\ Procesos # {} /\ MaxFallos \in Nat

VARIABLES
    permiso,      \* a code's row: "no", "activo", "inactivo"
    modulo_id,    \* its modulo_id
    catalogo,     \* the modules with es_activo = 1
    version,      \* the version a process runs
    paso,         \* where its startup is
    porBuscar,    \* modules it has yet to look up
    hallados,     \* modules it has found
    vistos,       \* the codes it read from the table
    porEscribir,  \* declared codes it has yet to write
    porRetirar,   \* other codes it has yet to deactivate
    fallos        \* how many statements of this startup have failed

tablas == <<permiso, modulo_id>>
arranque == <<version, paso, porBuscar, hallados, vistos, porEscribir, porRetirar, fallos>>
syncVars == <<tablas, catalogo, arranque>>

SyncTypeOK ==
    /\ permiso \in [Codigos -> {"no", "activo", "inactivo"}]
    /\ modulo_id \in [Codigos -> Modulos \cup {Ninguno}]
    /\ catalogo \subseteq Modulos
    /\ version \in [Procesos -> SUBSET Codigos]
    /\ paso \in [Procesos -> {"apagado", "buscando", "escribiendo"}]
    /\ porBuscar \in [Procesos -> SUBSET Modulos]
    /\ hallados \in [Procesos -> SUBSET Modulos]
    /\ vistos \in [Procesos -> SUBSET Codigos]
    /\ porEscribir \in [Procesos -> SUBSET Codigos]
    /\ porRetirar \in [Procesos -> SUBSET Codigos]
    /\ fallos \in [Procesos -> 0..MaxFallos]

SyncInit ==
    /\ permiso = [k \in Codigos |-> IF k \in Sembrados THEN "activo" ELSE "no"]
    /\ modulo_id = [k \in Codigos |-> IF k \in Sembrados THEN ModuloDe[k] ELSE Ninguno]
    /\ catalogo = Modulos
    /\ version = [p \in Procesos |-> {}]
    /\ paso = [p \in Procesos |-> "apagado"]
    /\ porBuscar = [p \in Procesos |-> {}]
    /\ hallados = [p \in Procesos |-> {}]
    /\ vistos = [p \in Procesos |-> {}]
    /\ porEscribir = [p \in Procesos |-> {}]
    /\ porRetirar = [p \in Procesos |-> {}]
    /\ fallos = [p \in Procesos |-> 0]

Activos == {k \in Codigos : permiso[k] = "activo"}

\* (Faulty: the code is written where the id belongs.)
ModuloCodigo(p, k) == IF ModuloDe[k] \in hallados[p] THEN k ELSE Ninguno

\* The modulo_id that process p writes: NULL for a module it has not found.
Modulo(p, k) == IF ModuloDe[k] \in hallados[p] THEN ModuloDe[k] ELSE Ninguno

-----------------------------------------------------------------------------
\* A process starts, with the version deployed on its machine, or stops; what
\* it had read is gone.
Arranca(p, v, donde) ==
    /\ version' = [version EXCEPT ![p] = v]
    /\ paso' = [paso EXCEPT ![p] = donde]
    /\ porBuscar' = [porBuscar EXCEPT ![p] =
                        IF donde = "buscando" THEN {ModuloDe[k] : k \in v} \ {Ninguno} ELSE {}]
    /\ hallados' = [hallados EXCEPT ![p] = {}]
    /\ vistos' = [vistos EXCEPT ![p] = {}]
    /\ porEscribir' = [porEscribir EXCEPT ![p] = {}]
    /\ porRetirar' = [porRetirar EXCEPT ![p] = {}]
    /\ fallos' = [fallos EXCEPT ![p] = 0]
    /\ UNCHANGED <<tablas, catalogo>>

Arrancar(p) == paso[p] = "apagado" /\ \E v \in Versiones : Arranca(p, v, "buscando")
Parar(p) == paso[p] # "apagado" /\ Arranca(p, {}, "apagado")

\* One module is looked up: NULL when it is not active, and when the query fails.
BuscarModulo(p) ==
    /\ \E m \in porBuscar[p] :
         /\ porBuscar' = [porBuscar EXCEPT ![p] = @ \ {m}]
         /\ hallados' \in {hallados} \cup
               {[hallados EXCEPT ![p] = @ \cup {n}] : n \in {m} \cap catalogo}
    /\ UNCHANGED <<tablas, catalogo, version, paso, vistos, porEscribir, porRetirar, fallos>>

\* The codes it read that it neither declares nor protects.
Sobrantes(p, leidos) == leidos \ (version[p] \cup Protegidos)

\* The table is read; if that fails, nothing is synchronised (Parar).
LeerPermisos(p) ==
    /\ paso[p] = "buscando" /\ porBuscar[p] = {}
    /\ LET leidos == {k \in Codigos : permiso[k] # "no"} IN
         /\ vistos' = [vistos EXCEPT ![p] = leidos]
         /\ porRetirar' = [porRetirar EXCEPT ![p] = Sobrantes(p, leidos)]
    /\ porEscribir' = [porEscribir EXCEPT ![p] = version[p]]
    /\ paso' = [paso EXCEPT ![p] = "escribiendo"]
    /\ UNCHANGED <<tablas, catalogo, version, porBuscar, hallados, fallos>>

\* (Faulty: an UPDATE leaves es_activo as it is.)
EscribeSinActivar(p, k) ==
    /\ k \in vistos[p] \/ permiso[k] = "no"
    /\ permiso' = [permiso EXCEPT ![k] = IF k \in vistos[p] THEN @ ELSE "activo"]
    /\ modulo_id' = [modulo_id EXCEPT ![k] = Modulo(p, k)]

\* INSERT of a code that was not in the table, UPDATE of one that was.
Escribe(p, k) ==
    /\ k \in vistos[p] \/ permiso[k] = "no"
    /\ permiso' = [permiso EXCEPT ![k] = "activo"]
    /\ modulo_id' = [modulo_id EXCEPT ![k] = Modulo(p, k)]

\* Another process has inserted the code since the table was read.
Duplicado(p, k) ==
    /\ k \notin vistos[p] /\ permiso[k] # "no"
    /\ UNCHANGED tablas

Escribir(p) ==
    /\ \E k \in porEscribir[p] :
         /\ Escribe(p, k) \/ Duplicado(p, k)
         /\ porEscribir' = [porEscribir EXCEPT ![p] = @ \ {k}]
    /\ UNCHANGED <<catalogo, version, paso, porBuscar, hallados, vistos, porRetirar, fallos>>

\* Declared codes are written before the first one is retired.
Retirar(p) ==
    /\ porEscribir[p] = {}
    /\ \E k \in porRetirar[p] :
         /\ permiso' = [permiso EXCEPT ![k] = "inactivo"]
         /\ porRetirar' = [porRetirar EXCEPT ![p] = @ \ {k}]
    /\ UNCHANGED <<modulo_id, catalogo, version, paso, porBuscar, hallados, vistos,
                   porEscribir, fallos>>

\* A statement fails: logged, and the next one is sent.
Fallido(p) ==
    /\ fallos[p] < MaxFallos
    /\ \E k \in Codigos :
         \/ /\ k \in porEscribir[p]
            /\ porEscribir' = [porEscribir EXCEPT ![p] = @ \ {k}]
            /\ UNCHANGED porRetirar
         \/ /\ porEscribir[p] = {} /\ k \in porRetirar[p]
            /\ porRetirar' = [porRetirar EXCEPT ![p] = @ \ {k}]
            /\ UNCHANGED porEscribir
    /\ fallos' = [fallos EXCEPT ![p] = @ + 1]
    /\ UNCHANGED <<tablas, catalogo, version, paso, porBuscar, hallados, vistos>>

SyncNext ==
    \E p \in Procesos :
        \/ Arrancar(p) \/ Parar(p) \/ BuscarModulo(p) \/ LeerPermisos(p)
        \/ Escribir(p) \/ Retirar(p) \/ Fallido(p)

SyncSpec == SyncInit /\ [][SyncNext]_syncVars

-----------------------------------------------------------------------------
\* Process p has gone through all its codes without an error.
AlDia(p) ==
    /\ paso[p] = "escribiendo" /\ fallos[p] = 0
    /\ porEscribir[p] = {} /\ porRetirar[p] = {}

\* Once every process runs the same version and has gone through its codes,
\* in whatever order their statements interleaved and whatever version ran
\* before, the active codes are those of the version and protected ones, and
\* each belongs to its module if every process has found it.
SyncConverges ==
    (\A p \in Procesos : AlDia(p)) =>
        \A k \in Codigos :
            /\ (\A p \in Procesos : k \in version[p]) => permiso[k] = "activo"
            /\ (\A p \in Procesos : k \notin version[p]) /\ k \notin Protegidos =>
                   permiso[k] # "activo"
            /\ (\A p \in Procesos : k \in version[p] /\ Modulo(p, k) = ModuloDe[k]) =>
                   modulo_id[k] = ModuloDe[k]
=============================================================================
