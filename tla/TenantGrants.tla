----------------------------- MODULE TenantGrants -----------------------------
(***************************************************************************)
(* What a tenant is given out of the catalogue: its modules and the        *)
(* permissions of its three standard roles.  Onboarding creates a tenant   *)
(* in one transaction, the repair script completes old ones, assigning a   *)
(* standard role completes that role, and administrators contract modules  *)
(* and remove them from the catalogue.  Meanwhile processes start and      *)
(* write the catalogue (PermissionSync).                                   *)
(*                                                                         *)
(* A transaction's rows are its own (filas, dados) until it commits; a     *)
(* insert of a row that another transaction has inserted waits for it.     *)
(* Standard roles exist and are active; menus and expiry are left out.     *)
(***************************************************************************)
EXTENDS PermissionSync, FiniteSets, Naturals

CONSTANTS
    Plan,         \* TRIAL_MODULES, the modules of every plan
    Requeridos,   \* REQUIRED_MODULOS
    Nucleo,       \* the modules with es_core
    ConMenus,     \* the modules whose menus are seeded
    Globales,     \* the codes bootstrap_global_grants_admin_tenant looks for
    Acceder,      \* core.app.acceder
    Base,         \* BASE_OPERATIVE_PERMISSION_CODIGOS
    Estandar,     \* MANAGER_STANDARD_ and USER_STANDARD_PERMISSION_CODIGOS
    Minimo,       \* MIN_ADMIN_ROL_PERMISO_HEALTHY
    Suficiente,   \* LEGACY_COMPLETE_ROL_PERMISO_THRESHOLD
    Clientes,     \* tenants
    Workers       \* requests and scripts at work at once

Roles == {"ADMIN", "MANAGER", "USER"}
Operativos == {"MANAGER", "USER"}

ASSUME PlanAssumption ==
    /\ Plan \subseteq Modulos /\ Requeridos \subseteq Modulos
    /\ Nucleo \subseteq Modulos /\ ConMenus \subseteq Modulos
    /\ Globales \subseteq Codigos /\ Base \subseteq Codigos /\ Acceder \in Codigos
    /\ Estandar \in [Operativos -> SUBSET Codigos]
    /\ Ninguno \notin Clientes

VARIABLES
    clientes,   \* the tenants there are
    contrato,   \* cliente_modulo: "no", "activo" or "inactivo"
    grants,     \* rol_permiso of the standard roles
    tarea,      \* what a worker does
    told,       \* what its client was last answered
    firme       \* what has been valid ever since a worker began (history)

tenantVars == <<clientes, contrato, grants>>
vars == <<syncVars, tenantVars, tarea, told, firme>>

Libre == [op |-> "libre", cliente |-> Ninguno, paso |-> "", lote |-> "", rol |-> "ADMIN",
          modulo |-> Ninguno, pend |-> {}, filas |-> {}, faltan |-> {},
          dados |-> [r \in Roles |-> {}]]

\* The active codes, and those that can be granted with their module.
Vigentes ==
    [codigos |-> Activos,
     parejas |-> {x \in Activos \X (catalogo \cup {Ninguno}) : modulo_id[x[1]] = x[2]}]

Ops == {"libre", "alta", "reparar", "asegurar", "contratar", "cancelar", "quitar"}
Pasos == {"", "catalogo", "modulos", "activar", "exigir", "sincronizar",
          "ver", "validar", "poner", "fin", "insertar", "actualizar"}
Tareas ==
    [op : Ops, cliente : Clientes \cup {Ninguno}, paso : Pasos,
     lote : {"", "base", "estandar"}, rol : Roles, modulo : Modulos \cup {Ninguno},
     pend : SUBSET Modulos, filas : SUBSET Modulos, faltan : SUBSET Codigos,
     dados : [Roles -> SUBSET Codigos]]

TypeOK ==
    /\ SyncTypeOK
    /\ clientes \subseteq Clientes
    /\ contrato \in [Clientes -> [Modulos -> {"no", "activo", "inactivo"}]]
    /\ grants \in [Clientes -> [Roles -> SUBSET Codigos]]
    /\ tarea \in [Workers -> Tareas]
    /\ told \in [Workers -> {"none", "ok", "failed"}]
    /\ firme \in [Workers -> [codigos : SUBSET Codigos,
                            parejas : SUBSET (Codigos \X (Modulos \cup {Ninguno}))]]

\* Tenants may be there from before onboarding granted anything.
Init ==
    /\ SyncInit
    /\ clientes \in SUBSET Clientes
    /\ contrato \in [Clientes -> {[m \in Modulos |-> s] : s \in {"no", "inactivo"}}]
    /\ \A c \in Clientes \ clientes : contrato[c] = [m \in Modulos |-> "no"]
    /\ grants = [c \in Clientes |-> [r \in Roles |-> {}]]
    /\ tarea = [w \in Workers |-> Libre]
    /\ told = [w \in Workers |-> "none"]
    /\ firme = [w \in Workers |-> Vigentes]

T(w) == tarea[w]
Avanza(w, t) == tarea' = [tarea EXCEPT ![w] = t]

\* What the worker's transaction sees.
Tiene(w, m) == contrato[T(w).cliente][m] # "no" \/ m \in T(w).filas
Otorgados(w, r) == grants[T(w).cliente][r] \cup T(w).dados[r]

\* Nobody else has written one of these rows and not committed yet.
FilaLibre(w, c, m) == \A v \in Workers \ {w} : T(v).cliente = c => m \notin T(v).filas
RolLibre(w, r, ks) ==
    \A v \in Workers \ {w} : T(v).cliente = T(w).cliente => ks \cap T(v).dados[r] = {}

Begin(w, t) == T(w) = Libre /\ Avanza(w, t) /\ told' = [told EXCEPT ![w] = "none"]
Terminar(w, a) == Avanza(w, Libre) /\ told' = [told EXCEPT ![w] = a]

-----------------------------------------------------------------------------
(***************************************************************************)
(* Onboarding and repair: bootstrap_cliente_rbac in a transaction of the   *)
(* caller.                                                                 *)
(***************************************************************************)
\* Client, roles, company and administrator are inserted first; the second
\* insert of one subdomain waits for the first.
BeginAlta(w, c) ==
    /\ c \notin clientes
    /\ \A v \in Workers : T(v).cliente # c
    /\ Begin(w, [Libre EXCEPT !.op = "alta", !.cliente = c, !.paso = "catalogo"])
    /\ UNCHANGED tenantVars

\* evaluate_repair_need
Necesita(c) ==
    LET activos == {m \in Modulos : contrato[c][m] = "activo"}
        n == Cardinality(grants[c]["ADMIN"])
    IN  /\ ~(Requeridos \subseteq activos /\ n >= Suficiente)
        /\ \/ ~(Requeridos \subseteq activos)
           \/ Acceder \notin grants[c]["ADMIN"] \cap Activos
           \/ n < Minimo

BeginReparar(w, c) ==
    /\ c \in clientes /\ Necesita(c)
    /\ Begin(w, [Libre EXCEPT !.op = "reparar", !.cliente = c, !.paso = "catalogo"])
    /\ UNCHANGED tenantVars

\* The catalogue of permissions is not empty.
ValidarCatalogo(w) ==
    /\ T(w).paso = "catalogo" /\ Activos # {}
    /\ Avanza(w, [T(w) EXCEPT !.paso = "modulos"])
    /\ UNCHANGED <<tenantVars, told>>

\* The plan's modules are all in the catalogue.
BuscarModulos(w) ==
    /\ T(w).paso = "modulos" /\ Plan \subseteq catalogo
    /\ Avanza(w, [T(w) EXCEPT !.paso = "activar", !.pend = Plan])
    /\ UNCHANGED <<tenantVars, told>>

\* IF NOT EXISTS ... INSERT: a row that is switched off stays so.
ActivarModulo(w, m) ==
    /\ T(w).paso = "activar" /\ m \in T(w).pend
    /\ FilaLibre(w, T(w).cliente, m)
    /\ Avanza(w, [T(w) EXCEPT !.pend = @ \ {m},
                              !.filas = IF Tiene(w, m) THEN @ ELSE @ \cup {m}])
    /\ UNCHANGED <<tenantVars, told>>

\* INSERT ... SELECT of what is active and not granted yet.
Dar(w, r, ks) == [T(w).dados EXCEPT ![r] = @ \cup (ks \ grants[T(w).cliente][r])]

DarGlobales(w) ==
    LET ks == {k \in Globales \cap Activos : modulo_id[k] = Ninguno} IN
    /\ T(w).paso = "activar" /\ T(w).pend = {} /\ RolLibre(w, "ADMIN", ks)
    /\ Avanza(w, [T(w) EXCEPT !.paso = "exigir", !.pend = Plan, !.dados = Dar(w, "ADMIN", ks)])
    /\ UNCHANGED <<tenantVars, told>>

\* OwnerSync, module by module: the module must be contracted and in the
\* catalogue.
Exigir(w, m) ==
    /\ T(w).paso = "exigir" /\ m \in T(w).pend
    /\ contrato[T(w).cliente][m] = "activo" \/ m \in T(w).filas
    /\ m \in catalogo
    /\ Avanza(w, [T(w) EXCEPT !.paso = "sincronizar", !.modulo = m])
    /\ UNCHANGED <<tenantVars, told>>

\* (Faulty: codes that point to no module are what OwnerSync grants.)
DeModuloNulo(m) == {k \in Activos : modulo_id[k] = Ninguno}

\* The codes of a module, as the join of permiso and modulo finds them.
DeModulo(m) == {k \in Activos : modulo_id[k] = m /\ m \in catalogo}

SincronizarModulo(w) ==
    LET m == T(w).modulo
        ks == DeModulo(m)
    IN  /\ T(w).paso = "sincronizar" /\ RolLibre(w, "ADMIN", ks)
        /\ m \in ConMenus \/ \E k \in Otorgados(w, "ADMIN") \cup ks :
                                permiso[k] = "activo" /\ modulo_id[k] = m
        /\ Avanza(w, [T(w) EXCEPT !.paso = "exigir", !.pend = @ \ {m}, !.modulo = Ninguno,
                                  !.dados = Dar(w, "ADMIN", ks)])
        /\ UNCHANGED <<tenantVars, told>>

SincronizadosTodos(w) ==
    /\ T(w).paso = "exigir" /\ T(w).pend = {}
    /\ Avanza(w, [T(w) EXCEPT !.paso = "ver", !.lote = "base", !.rol = "MANAGER"])
    /\ UNCHANGED <<tenantVars, told>>

-----------------------------------------------------------------------------
(***************************************************************************)
(* The bundles of the standard roles.                                      *)
(***************************************************************************)
\* Base for both roles, then the standard bundle of each.
Siguiente(t) ==
    LET Ver(l, r) == [t EXCEPT !.paso = "ver", !.lote = l, !.rol = r, !.faltan = {}] IN
    CASE t.op = "asegurar" -> [t EXCEPT !.paso = "fin", !.faltan = {}]
      [] t.op # "asegurar" /\ t.rol = "MANAGER" -> Ver(t.lote, "USER")
      [] t.op # "asegurar" /\ t.rol # "MANAGER" /\ t.lote = "base" -> Ver("estandar", "MANAGER")
      [] OTHER -> [t EXCEPT !.paso = "fin", !.faltan = {}]

\* Assigning MANAGER_TENANT or USER_TENANT, once the assignment is committed.
BeginAsegurar(w, c, r) ==
    /\ c \in clientes
    /\ Begin(w, [Libre EXCEPT !.op = "asegurar", !.cliente = c, !.paso = "ver",
                              !.lote = "base", !.rol = r])
    /\ UNCHANGED tenantVars

\* What the role lacks of its bundle, active standard codes only.
Faltan(w) ==
    LET tiene == Otorgados(w, T(w).rol) IN
    IF T(w).lote = "base" THEN Base \ (tiene \cap Activos)
    ELSE (Estandar[T(w).rol] \cap Activos) \ tiene

VerLote(w) ==
    /\ T(w).paso = "ver"
    /\ Avanza(w, [T(w) EXCEPT !.paso = IF T(w).lote = "base" THEN "validar" ELSE "poner",
                              !.faltan = Faltan(w)])
    /\ UNCHANGED <<tenantVars, told>>

\* A base code that is lacking must be active, or all is given up.
ValidarLote(w) ==
    /\ T(w).paso = "validar" /\ T(w).faltan \subseteq Activos
    /\ Avanza(w, [T(w) EXCEPT !.paso = "poner"])
    /\ UNCHANGED <<tenantVars, told>>

PonerLote(w) ==
    LET t == T(w) IN
    /\ t.paso = "poner" /\ RolLibre(w, t.rol, t.faltan)
    /\ Avanza(w, Siguiente([t EXCEPT !.dados = Dar(w, t.rol, t.faltan \cap Activos)]))
    /\ UNCHANGED <<tenantVars, told>>

\* An error in a standard bundle is logged, and the bootstrap goes on.
SaltarLote(w) ==
    /\ T(w).op # "asegurar" /\ T(w).lote = "estandar" /\ T(w).paso \in {"ver", "poner"}
    /\ Avanza(w, Siguiente(T(w)))
    /\ UNCHANGED <<tenantVars, told>>

-----------------------------------------------------------------------------
(***************************************************************************)
(* How transactions end.                                                   *)
(***************************************************************************)
Escrito(w) ==
    LET t == T(w) IN
    /\ clientes' = clientes \cup {t.cliente}
    /\ contrato' = [contrato EXCEPT ![t.cliente] =
                       [m \in Modulos |-> IF m \in t.filas THEN "activo" ELSE @[m]]]
    /\ grants' = [grants EXCEPT ![t.cliente] = [r \in Roles |-> @[r] \cup t.dados[r]]]

\* The hook completes the base bundle and the standard one in two transactions.
Confirmar(w) ==
    /\ T(w).paso = "fin" /\ Escrito(w)
    /\ IF T(w).op = "asegurar" /\ T(w).lote = "base"
       THEN /\ Avanza(w, [Libre EXCEPT !.op = "asegurar", !.cliente = T(w).cliente,
                                       !.paso = "ver", !.lote = "estandar", !.rol = T(w).rol])
            /\ UNCHANGED told
       ELSE Terminar(w, "ok")

\* (Faulty: what onboarding has inserted is committed when a step fails.)
FallarConfirmando(w) ==
    /\ T(w).op # "libre"
    /\ IF T(w).op = "alta" THEN Escrito(w) ELSE UNCHANGED tenantVars
    /\ Terminar(w, "failed")

\* (Faulty: an assignment succeeds whatever becomes of its bundles.)
FallarCallando(w) ==
    /\ T(w).op # "libre"
    /\ Terminar(w, IF T(w).op = "asegurar" THEN "ok" ELSE "failed")
    /\ UNCHANGED tenantVars

\* A step fails, the connection is lost, the process stops: nothing of the
\* transaction stays.  Without its standard bundle, an assignment still succeeds.
Fallar(w) ==
    /\ T(w).op # "libre"
    /\ Terminar(w, IF T(w).op = "asegurar" /\ T(w).lote = "estandar" THEN "ok" ELSE "failed")
    /\ UNCHANGED tenantVars

\* repair_one catches the error of a statement inside session.begin(), which
\* commits what the repair has done so far.
FallarReparando(w) ==
    /\ T(w).op = "reparar" /\ Escrito(w)
    /\ Terminar(w, "failed")

-----------------------------------------------------------------------------
(***************************************************************************)
(* Contracts and the catalogue of modules: read, then one UPDATE or        *)
(* INSERT in a transaction of its own.                                     *)
(***************************************************************************)
BeginContratar(w, c, m) ==
    /\ c \in clientes /\ m \in catalogo /\ contrato[c][m] # "activo"
    /\ Begin(w, [Libre EXCEPT !.op = "contratar", !.cliente = c, !.modulo = m,
                  !.paso = IF contrato[c][m] = "no" THEN "insertar" ELSE "actualizar"])
    /\ UNCHANGED tenantVars

Fija(w, s) == contrato' = [contrato EXCEPT ![T(w).cliente][T(w).modulo] = s]

\* The key (cliente_id, modulo_id) refuses a second row.
Contratar(w) ==
    /\ T(w).op = "contratar" /\ FilaLibre(w, T(w).cliente, T(w).modulo)
    /\ T(w).paso = "insertar" => contrato[T(w).cliente][T(w).modulo] = "no"
    /\ Fija(w, "activo")
    /\ Terminar(w, "ok")
    /\ UNCHANGED <<clientes, grants>>

BeginCancelar(w, c, m) ==
    /\ c \in clientes /\ m \notin Nucleo /\ contrato[c][m] = "activo"
    /\ Begin(w, [Libre EXCEPT !.op = "cancelar", !.cliente = c, !.modulo = m])
    /\ UNCHANGED tenantVars

Cancelar(w) ==
    /\ T(w).op = "cancelar"
    /\ Fija(w, "inactivo")
    /\ Terminar(w, "ok")
    /\ UNCHANGED <<clientes, grants>>

\* No tenant has the module.
BeginQuitar(w, m) ==
    /\ m \notin Nucleo
    /\ \A c \in Clientes : contrato[c][m] # "activo"
    /\ Begin(w, [Libre EXCEPT !.op = "quitar", !.modulo = m])
    /\ UNCHANGED tenantVars

Quitar(w) ==
    /\ T(w).op = "quitar"
    /\ catalogo' = catalogo \ {T(w).modulo}
    /\ Terminar(w, "ok")
    /\ UNCHANGED <<tablas, arranque, tenantVars>>

Catalogar(m) ==
    /\ m \notin catalogo
    /\ catalogo' = catalogo \cup {m}
    /\ UNCHANGED <<tablas, arranque, tenantVars, tarea, told>>

-----------------------------------------------------------------------------
Empezar(w) ==
    \/ \E c \in Clientes :
         \/ BeginAlta(w, c) \/ BeginReparar(w, c)
         \/ \E r \in Operativos : BeginAsegurar(w, c, r)
         \/ \E m \in Modulos : BeginContratar(w, c, m) \/ BeginCancelar(w, c, m)
    \/ \E m \in Modulos : BeginQuitar(w, m)

Provisionar(w) ==
    \/ ValidarCatalogo(w) \/ BuscarModulos(w) \/ DarGlobales(w)
    \/ \E m \in Modulos : ActivarModulo(w, m) \/ Exigir(w, m)
    \/ SincronizarModulo(w) \/ SincronizadosTodos(w)
    \/ VerLote(w) \/ ValidarLote(w) \/ PonerLote(w) \/ SaltarLote(w)

Acabar(w) ==
    Confirmar(w) \/ Fallar(w) \/ FallarReparando(w) \/ Contratar(w) \/ Cancelar(w)

\* What has been valid since the worker began, and for an idle one, now.
Recordar ==
    firme' = [w \in Workers |->
                IF tarea'[w] = Libre THEN Vigentes'
                ELSE [codigos |-> firme[w].codigos \cap Vigentes'.codigos,
                      parejas |-> firme[w].parejas \cap Vigentes'.parejas]]

Next ==
    /\ \/ SyncNext /\ UNCHANGED <<tenantVars, tarea, told>>
       \/ (\E w \in Workers : Empezar(w) \/ Provisionar(w) \/ Acabar(w)) /\ UNCHANGED syncVars
       \/ \E w \in Workers : Quitar(w)
       \/ \E m \in Modulos : Catalogar(m)
    /\ Recordar

Spec == Init /\ [][Next]_vars
=============================================================================
