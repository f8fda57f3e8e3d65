------------------------------- MODULE Access -------------------------------
(***************************************************************************)
(* Who may do what in one tenant: users, roles, the permissions of a role, *)
(* the contracted modules, and the permissions each server process keeps   *)
(* in its own cache.                                                       *)
(*                                                                         *)
(* Every statement commits by itself.  A change of roles or modules drops  *)
(* the entries of the cache of the process that made it; the others serve  *)
(* theirs until they expire.                                               *)
(*                                                                         *)
(* A look-up reads the assignments and the catalogue in one statement, or, *)
(* for a tenant with a database of its own, in two that are awaited one    *)
(* after the other; filter_by_subscription reads the contracts once more.  *)
(* Rows of usuario_rol carry no fecha_expiracion: no code writes one.      *)
(***************************************************************************)
EXTENDS Integers, FiniteSets

CONSTANTS
    Usuarios, Roles, Permisos, Modulos,
    Instalaciones, \* bound: the values of "the tenant has its own database"
    Empresas,    \* the companies a session may work in
    Global,      \* empresa_id NULL: an assignment for every company
    Sesiones,    \* bound: the companies of sessions; Global: one without company
    Filas,       \* the ids of usuario_rol rows
    Procesos, Workers,
    \* bounds, for each kind of installation:
    Filtros,     \* the values of filter_by_subscription that callers give
    Cambian,     \* the roles, permissions and modules that are switched on and off
    Atiende,     \* the kinds of request each worker serves
    ProcesoDe,   \* the process that serves each worker
    ModuloDe,    \* the module each permission is declared in, or None
    PrefijoDe,   \* the module its code begins with; None: admin, modulos, no dot
    TTL,         \* PERMISSION_RESOLVER_CACHE_TTL
    MaxFill,     \* bound: time between the first read of a look-up and its caching
    None

Ambitos == Empresas \cup {Global}

ASSUME BoundsAssumption == TTL \in Nat /\ MaxFill \in Nat
ASSUME SitesAssumption ==
    /\ ProcesoDe \in [Workers -> Procesos]
    /\ ModuloDe \in [Permisos -> Modulos \cup {None}]
    /\ PrefijoDe \in [Permisos -> Modulos \cup {None}]
    /\ Instalaciones \subseteq BOOLEAN
    /\ Filtros \in [BOOLEAN -> SUBSET BOOLEAN]
    /\ Sesiones \subseteq Ambitos
    /\ Global \notin Empresas
    /\ None \notin Modulos \cup Filas \cup Usuarios \cup Roles \cup Ambitos

VARIABLES
    dedicada,    \* database_type = "multi": the tenant has its own database
    eliminado,   \* the users with es_eliminado = 1
    rolActivo,   \* the active roles
    fila,        \* the rows of usuario_rol
    permisos,    \* rol_permiso: the permissions of each role
    modulo,      \* cliente_modulo: "activo", "vencido" or "inactivo"
    activos,     \* the rows of permiso and modulo with es_activo = 1
    moduloDe,    \* permiso.modulo_id
    cache,       \* per process: user -> company of the session -> entry
    tarea,       \* what each worker is doing
    told,        \* the answer of the resolver given in the last step
    since,       \* time since a read would have given exactly a set (history)
    pedido       \* what was asked for a role since its last DELETE (history)

roles == <<eliminado, rolActivo, fila>>
catalogo == <<activos, moduloDe>>
central == <<modulo, catalogo>>
tablas == <<roles, permisos, central>>
vars == <<dedicada, tablas, cache, tarea, told, since, pedido>>

Fila == [usr : Usuarios, rol : Roles, amb : Ambitos, activa : BOOLEAN]
Entrada == [codes : SUBSET Permisos, age : 0..(TTL + 1)]
Respuesta == [usr : Usuarios, emp : Sesiones, codes : SUBSET Permisos]
Leyendo == {"leer_central", "leer_suscripcion", "guardar"}
Pasos == Leyendo \cup {"libre", "leer", "borrar", "insertar", "leer_rol", "leer_fila",
          "crear", "reactivar", "promover", "revocar", "desactivar_roles",
          "invalidar_usuario", "invalidar_tenant"}
Tarea == [at : Pasos, usr : Usuarios \cup {None}, rol : Roles \cup {None},
          amb : Ambitos \cup {None}, plataforma : BOOLEAN, filtra : BOOLEAN, ref : Filas \cup {None},
          lista : SUBSET Permisos, edad : 0..MaxFill]
ASSUME NoneAssumption == None \notin Fila

Cap == TTL + MaxFill + 1
Conjuntos == (SUBSET Permisos) \ {{}}

\* The reads whose results a look-up intersects.
LecturasBase == IF dedicada THEN {"roles", "central"} ELSE {"ambas"}
Lecturas(filtra) == LecturasBase \cup (IF filtra THEN {"suscripcion"} ELSE {})
Fuentes == UNION {Lecturas(f) : f \in Filtros[dedicada]}

TypeOK ==
    /\ dedicada \in Instalaciones
    /\ eliminado \subseteq Usuarios
    /\ rolActivo \subseteq Roles
    /\ fila \in [Filas -> Fila \cup {None}]
    /\ permisos \in [Roles -> SUBSET Permisos]
    /\ modulo \in [Modulos -> {"activo", "vencido", "inactivo"}]
    /\ activos \subseteq Permisos \cup Modulos
    /\ moduloDe \in [Permisos -> Modulos \cup {None}]
    /\ cache \in [Procesos -> [Usuarios -> [Sesiones -> Entrada \cup {None}]]]
    /\ tarea \in [Workers -> Tarea]
    /\ told \in Respuesta \cup {None}
    /\ since \in [Usuarios -> [Sesiones -> [Fuentes -> [Conjuntos -> 0..Cap]]]]
    /\ pedido \in [Roles -> SUBSET Permisos]

Libre == [at |-> "libre", usr |-> None, rol |-> None, amb |-> None,
          plataforma |-> FALSE, filtra |-> FALSE, ref |-> None, lista |-> {}, edad |-> 0]
At(w, a) == tarea[w].at = a
Comenzar(w, t) == At(w, "libre") /\ tarea' = [tarea EXCEPT ![w] = t]
Seguir(w, a) == tarea' = [tarea EXCEPT ![w].at = a]
Terminar(w) == tarea' = [tarea EXCEPT ![w] = Libre]
Invalidar(w, u) ==
    tarea' = [tarea EXCEPT ![w] = [Libre EXCEPT !.at = "invalidar_usuario", !.usr = u]]

FilasDe(u, r) == {i \in Filas : fila[i] # None /\ fila[i].usr = u /\ fila[i].rol = r}

\* The permissions of the roles of u that count in a session of company e:
\* neither the user nor rol.es_activo is asked for.
Asignados(u, e) ==
    {p \in Permisos : \E r \in Roles :
        p \in permisos[r] /\ \E i \in FilasDe(u, r) :
            fila[i].activa /\ (e = Global \/ fila[i].amb \in {Global, e})}

Contratado(m) == modulo[m] = "activo"

\* _CLIENTE_MODULO_FILTER and permiso.es_activo.
Vigentes ==
    {p \in Permisos \cap activos : moduloDe[p] = None \/ Contratado(moduloDe[p])}

\* _permisos_single: one statement.
Otorgados(u, e) == Asignados(u, e) \cap Vigentes

\* _filter_codes_by_subscription goes by the prefix of the code.
Globales == {p \in Permisos : PrefijoDe[p] = None}
Suscritos ==
    Globales \cup {p \in Permisos \ Globales :
                    Contratado(PrefijoDe[p]) /\ PrefijoDe[p] \in activos}

\* What read l of a look-up gives now.
Valor(l, u, e) ==
    CASE l = "ambas" -> Otorgados(u, e)
      [] l = "roles" -> Asignados(u, e)
      [] l = "central" -> Vigentes
      [] l = "suscripcion" -> Suscritos

Init ==
    /\ dedicada \in Instalaciones
    /\ eliminado = {}
    /\ rolActivo = Roles
    /\ fila = [i \in Filas |-> None]
    /\ permisos = [r \in Roles |-> {}]
    /\ modulo = [m \in Modulos |-> "activo"]
    /\ activos = Permisos \cup Modulos
    /\ moduloDe = ModuloDe
    /\ cache = [k \in Procesos |-> [u \in Usuarios |-> [e \in Sesiones |-> None]]]
    /\ tarea = [w \in Workers |-> Libre]
    /\ told = None
    /\ since = [u \in Usuarios |-> [e \in Sesiones |-> [l \in Fuentes |->
                    [C \in Conjuntos |-> IF C = Valor(l, u, e) THEN 0 ELSE Cap]]]]
    /\ pedido = [r \in Roles |-> {}]

-----------------------------------------------------------------------------
(***************************************************************************)
(* PermissionResolverService.get_effective_permissions, with the cache     *)
(* enabled.                                                                *)
(***************************************************************************)
\* (Faulty: an entry is served until it is replaced.)
VigenteSiempre(x) == x # None

\* PermissionCache.get: time.monotonic() > expires_at means expired.
Vigente(x) == x # None /\ x.age <= TTL

Entra(w, u, e) == cache[ProcesoDe[w]][u][e]
Responder(u, e, C) == told' = [usr |-> u, emp |-> e, codes |-> C]

Acierto(w, u, e) ==
    /\ At(w, "libre") /\ Vigente(Entra(w, u, e))
    /\ Responder(u, e, Entra(w, u, e).codes)
    /\ UNCHANGED <<tablas, cache, tarea, pedido>>

\* An expired entry is deleted by the look-up.
Fallo(w, u, e, filtra) ==
    /\ ~Vigente(Entra(w, u, e))
    /\ Comenzar(w, [Libre EXCEPT !.at = "leer", !.usr = u, !.amb = e, !.filtra = filtra])
    /\ cache' = [cache EXCEPT ![ProcesoDe[w]][u][e] = None]
    /\ told' = None
    /\ UNCHANGED <<tablas, pedido>>

\* What a look-up goes on with when read l fails: obtener_codigos_permiso_usuario
\* answers an empty list, the filter knows no active module.
TrasError(l) == IF l = "suscripcion" THEN Globales ELSE {}

\* (Faulty: a row without a code is not filtered.)
LeidosNull(l, u, e) == {Valor(l, u, e) \cup {None}}

Leidos(l, u, e) == {Valor(l, u, e), TrasError(l)}

TrasCodigos(w) == IF tarea[w].filtra THEN "leer_suscripcion" ELSE "guardar"

\* The one statement, or the first of two: the second is sent only if the
\* first gave permission ids.
Leer(w) ==
    /\ At(w, "leer")
    /\ \E C \in Leidos(IF dedicada THEN "roles" ELSE "ambas", tarea[w].usr, tarea[w].amb) :
         tarea' = [tarea EXCEPT ![w].lista = C,
                      ![w].at = IF dedicada /\ C # {} THEN "leer_central" ELSE TrasCodigos(w)]
    /\ told' = None
    /\ UNCHANGED <<tablas, cache, pedido>>

\* (Faulty: the central database is asked for the codes of the ids only.)
LeerCentralTodo(w) ==
    /\ At(w, "leer_central")
    /\ tarea' = [tarea EXCEPT ![w].at = TrasCodigos(w)]
    /\ told' = None
    /\ UNCHANGED <<tablas, cache, pedido>>

\* _permisos_dedicated, second statement: in the central database.
LeerCentral(w) ==
    /\ At(w, "leer_central")
    /\ \E C \in Leidos("central", tarea[w].usr, tarea[w].amb) :
         tarea' = [tarea EXCEPT ![w].lista = @ \cap C, ![w].at = TrasCodigos(w)]
    /\ told' = None
    /\ UNCHANGED <<tablas, cache, pedido>>

\* _get_active_module_codes_for_tenant_async.
LeerSuscripcion(w) ==
    /\ At(w, "leer_suscripcion")
    /\ \E C \in Leidos("suscripcion", tarea[w].usr, tarea[w].amb) :
         tarea' = [tarea EXCEPT ![w].lista = @ \cap C, ![w].at = "guardar"]
    /\ told' = None
    /\ UNCHANGED <<tablas, cache, pedido>>

Guardar(w) ==
    /\ At(w, "guardar")
    /\ LET t == tarea[w] IN
         /\ cache' = [cache EXCEPT ![ProcesoDe[w]][t.usr][t.amb] =
                                       [codes |-> t.lista, age |-> 0]]
         /\ Responder(t.usr, t.amb, t.lista)
    /\ Terminar(w)
    /\ UNCHANGED <<tablas, pedido>>

Resolver(w) ==
    \/ \E u \in Usuarios, e \in Sesiones :
          Acierto(w, u, e) \/ \E f \in Filtros[dedicada] : Fallo(w, u, e, f)
    \/ Leer(w) \/ LeerCentral(w) \/ LeerSuscripcion(w) \/ Guardar(w)

-----------------------------------------------------------------------------
(***************************************************************************)
(* set_permisos_negocio_rol: a DELETE, then one INSERT per permission.     *)
(***************************************************************************)
BeginSet(w, r, L) ==
    /\ Comenzar(w, [Libre EXCEPT !.at = "borrar", !.rol = r, !.lista = L])
    /\ UNCHANGED <<tablas, cache, pedido>>

\* (Faulty: the present permissions are kept.)
BorrarNada(w) ==
    /\ At(w, "borrar")
    /\ Seguir(w, "insertar")
    /\ pedido' = [pedido EXCEPT ![tarea[w].rol] =
                     tarea[w].lista \cup
                     UNION {tarea[v].lista : v \in {x \in Workers :
                        At(x, "insertar") /\ tarea[x].rol = tarea[w].rol}}]
    /\ UNCHANGED <<tablas, cache>>

Borrar(w) ==
    /\ At(w, "borrar")
    /\ permisos' = [permisos EXCEPT ![tarea[w].rol] = {}]
    /\ Seguir(w, "insertar")
    /\ pedido' = [pedido EXCEPT ![tarea[w].rol] =
                     tarea[w].lista \cup
                     UNION {tarea[v].lista : v \in {x \in Workers :
                        At(x, "insertar") /\ tarea[x].rol = tarea[w].rol}}]
    /\ UNCHANGED <<roles, central, cache>>

Insertar(w, p) ==
    /\ At(w, "insertar") /\ p \in tarea[w].lista
    /\ p \notin permisos[tarea[w].rol]
    /\ permisos' = [permisos EXCEPT ![tarea[w].rol] = @ \cup {p}]
    /\ tarea' = [tarea EXCEPT ![w].lista = @ \ {p}]
    /\ UNCHANGED <<roles, central, cache, pedido>>

\* UQ_rol_permiso: the permission is there, the call ends with an error.
Chocar(w) ==
    /\ At(w, "insertar") /\ tarea[w].lista \cap permisos[tarea[w].rol] # {}
    /\ Terminar(w)
    /\ UNCHANGED <<tablas, cache, pedido>>

Insertados(w) ==
    /\ At(w, "insertar") /\ tarea[w].lista = {}
    /\ tarea' = [tarea EXCEPT ![w] = [Libre EXCEPT !.at = "invalidar_tenant"]]
    /\ UNCHANGED <<tablas, cache, pedido>>

SetPermisos(w) ==
    \/ \E r \in Roles, L \in SUBSET Permisos : BeginSet(w, r, L)
    \/ Borrar(w)
    \/ \E p \in Permisos : Insertar(w, p)
    \/ Chocar(w) \/ Insertados(w)

-----------------------------------------------------------------------------
(***************************************************************************)
(* asignar_rol_a_usuario.  A tenant administrator assigns in the company   *)
(* of the session, an operator of the platform in any or in all.           *)
(***************************************************************************)
BeginAsignar(w, u, r, a, plataforma) ==
    /\ u \notin eliminado
    /\ a = Global => plataforma
    /\ Comenzar(w, [Libre EXCEPT !.at = "leer_rol", !.usr = u, !.rol = r, !.amb = a,
                                 !.plataforma = plataforma])
    /\ UNCHANGED <<tablas, cache, pedido>>

LeerRol(w) ==
    /\ At(w, "leer_rol")
    /\ IF tarea[w].rol \in rolActivo THEN Seguir(w, "leer_fila") ELSE Terminar(w)
    /\ UNCHANGED <<tablas, cache, pedido>>

\* What becomes of the first row found, or "crear" when there is none.
Decision(t, f) ==
    IF f.activa
    THEN IF t.amb = Global /\ t.plataforma THEN "promover" ELSE "libre"
    ELSE IF f.amb = t.amb \/ t.plataforma THEN "reactivar" ELSE "libre"

LeerFila(w) ==
    /\ At(w, "leer_fila")
    /\ LET t == tarea[w]
           mias == FilasDe(t.usr, t.rol)
       IN \/ mias = {} /\ Seguir(w, "crear")
          \/ \E i \in mias :
               LET d == Decision(t, fila[i]) IN
               tarea' = [tarea EXCEPT ![w] =
                   IF d = "libre" THEN Libre ELSE [t EXCEPT !.at = d, !.ref = i]]
    /\ UNCHANGED <<tablas, cache, pedido>>

\* UQ_usuario_rol_empresa: (usuario_id, rol_id, empresa_id), NULL included.
Ocupado(i, u, r, a) == \E j \in FilasDe(u, r) \ {i} : fila[j].amb = a

Crear(w) ==
    /\ At(w, "crear")
    /\ LET t == tarea[w] IN
       \/ /\ ~Ocupado(None, t.usr, t.rol, t.amb)
          /\ \E i \in Filas :
               /\ fila[i] = None
               /\ fila' = [fila EXCEPT ![i] =
                     [usr |-> t.usr, rol |-> t.rol, amb |-> t.amb, activa |-> TRUE]]
          /\ Invalidar(w, tarea[w].usr)
       \/ /\ Ocupado(None, t.usr, t.rol, t.amb)
          /\ Terminar(w) /\ UNCHANGED fila
    /\ UNCHANGED <<eliminado, rolActivo, permisos, central, cache, pedido>>

\* UPDATE by usuario_rol_id; the operator's also moves the row to its scope.
Reactivar(w) ==
    /\ At(w, "reactivar")
    /\ LET t == tarea[w]
           a == IF t.plataforma THEN t.amb ELSE fila[t.ref].amb
       IN \/ /\ ~Ocupado(t.ref, t.usr, t.rol, a)
             /\ fila' = [fila EXCEPT ![t.ref].activa = TRUE, ![t.ref].amb = a]
             /\ Invalidar(w, tarea[w].usr)
          \/ /\ Ocupado(t.ref, t.usr, t.rol, a)
             /\ Terminar(w) /\ UNCHANGED fila
    /\ UNCHANGED <<eliminado, rolActivo, permisos, central, cache, pedido>>

Promover(w) ==
    /\ At(w, "promover")
    /\ LET t == tarea[w] IN
       \/ /\ ~Ocupado(t.ref, t.usr, t.rol, Global)
          /\ fila' = [fila EXCEPT ![t.ref].amb = Global]
          /\ Invalidar(w, tarea[w].usr)
       \/ /\ Ocupado(t.ref, t.usr, t.rol, Global)
          /\ Terminar(w) /\ UNCHANGED fila
    /\ UNCHANGED <<eliminado, rolActivo, permisos, central, cache, pedido>>

Asignar(w) ==
    \/ \E u \in Usuarios, r \in Roles, a \in Ambitos, b \in BOOLEAN : BeginAsignar(w, u, r, a, b)
    \/ LeerRol(w) \/ LeerFila(w) \/ Crear(w) \/ Reactivar(w) \/ Promover(w)

-----------------------------------------------------------------------------
(***************************************************************************)
(* revocar_rol_de_usuario: the first row found, if the caller may see it.  *)
(***************************************************************************)
BeginRevocar(w, u, r, a) ==
    /\ \E i \in FilasDe(u, r) :
         /\ fila[i].activa
         /\ a = Global \/ fila[i].amb = a     \* Global: an operator of the platform
         /\ Comenzar(w, [Libre EXCEPT !.at = "revocar", !.usr = u, !.ref = i])
    /\ UNCHANGED <<tablas, cache, pedido>>

Revocar(w) ==
    /\ At(w, "revocar")
    /\ LET i == tarea[w].ref IN
       \/ /\ fila[i].activa
          /\ fila' = [fila EXCEPT ![i].activa = FALSE]
          /\ Invalidar(w, tarea[w].usr)
       \/ ~fila[i].activa /\ Terminar(w) /\ UNCHANGED fila
    /\ UNCHANGED <<eliminado, rolActivo, permisos, central, cache, pedido>>

Retirar(w) ==
    \/ \E u \in Usuarios, r \in Roles, a \in Ambitos : BeginRevocar(w, u, r, a)
    \/ Revocar(w)

-----------------------------------------------------------------------------
(***************************************************************************)
(* Users, roles and modules.  Where a request reads and then sends one     *)
(* UPDATE, it is one step: the read only decides whether it is sent.       *)
(***************************************************************************)
\* eliminar_usuario ...
Eliminar(w, u) ==
    /\ u \notin eliminado
    /\ Comenzar(w, [Libre EXCEPT !.at = "desactivar_roles", !.usr = u])
    /\ eliminado' = eliminado \cup {u}
    /\ UNCHANGED <<rolActivo, fila, permisos, central, cache, pedido>>

\* ... whose second UPDATE may fail unnoticed.
DesactivarRoles(w) ==
    /\ At(w, "desactivar_roles")
    /\ \/ UNCHANGED fila
       \/ fila' = [i \in Filas |->
                     IF fila[i] # None /\ fila[i].usr = tarea[w].usr
                     THEN [fila[i] EXCEPT !.activa = FALSE] ELSE fila[i]]
    /\ Invalidar(w, tarea[w].usr)
    /\ UNCHANGED <<eliminado, rolActivo, permisos, central, cache, pedido>>

ReactivarUsuario(u) ==
    /\ eliminado' = eliminado \ {u}
    /\ UNCHANGED <<rolActivo, fila, permisos, central, cache, tarea, pedido>>

DesactivarRol(r) ==
    /\ rolActivo' = rolActivo \ {r}
    /\ UNCHANGED <<eliminado, fila, permisos, central, cache, tarea, pedido>>

ReactivarRol(r) ==
    /\ rolActivo' = rolActivo \cup {r}
    /\ UNCHANGED <<eliminado, fila, permisos, central, cache, tarea, pedido>>

\* The module m of the tenant moves to one of X.
Contratar(w, m, X) ==
    /\ \E x \in X : modulo' = [modulo EXCEPT ![m] = x]
    /\ Comenzar(w, [Libre EXCEPT !.at = "invalidar_tenant"])
    /\ UNCHANGED <<roles, permisos, catalogo, cache, pedido>>

ActivarModulo(w, m) == modulo[m] = "inactivo" /\ Contratar(w, m, {"activo"})
DesactivarModulo(w, m) == modulo[m] # "inactivo" /\ Contratar(w, m, {"inactivo"})
ExtenderVencimiento(w, m) ==
    modulo[m] # "inactivo" /\ Contratar(w, m, {modulo[m], "activo"})

\* The day of fecha_vencimiento comes; no process is told.
Vencer(m) ==
    /\ modulo[m] = "activo"
    /\ modulo' = [modulo EXCEPT ![m] = "vencido"]
    /\ UNCHANGED <<roles, permisos, catalogo, cache, tarea, pedido>>

\* The central catalogue, which the server keeps for all tenants; no cache is
\* told.  A start of a process writes a code with the module it is declared
\* in, or with none if it does not find it, or retires it.
SincronizarPermiso(p) ==
    /\ activos' = activos \cup {p}
    /\ \E m \in {ModuloDe[p], None} : moduloDe' = [moduloDe EXCEPT ![p] = m]
    /\ UNCHANGED <<roles, permisos, modulo, cache, tarea, pedido>>

RetirarPermiso(p) ==
    /\ activos' = activos \ {p}
    /\ UNCHANGED <<roles, permisos, modulo, moduloDe, cache, tarea, pedido>>

ActivarCatalogo(m) ==
    /\ activos' = activos \cup {m}
    /\ UNCHANGED <<roles, permisos, modulo, moduloDe, cache, tarea, pedido>>

\* Also by a PUT of the module, which does not ask who has contracted it.
RetirarCatalogo(m) ==
    /\ activos' = activos \ {m}
    /\ UNCHANGED <<roles, permisos, modulo, moduloDe, cache, tarea, pedido>>

Administrar(w) ==
    \/ /\ "usuarios" \in Atiende[dedicada][w]
       /\ (\E u \in Usuarios : Eliminar(w, u)) \/ DesactivarRoles(w)
    \/ /\ "modulos" \in Atiende[dedicada][w]
       /\ \E m \in Modulos :
            ActivarModulo(w, m) \/ DesactivarModulo(w, m) \/ ExtenderVencimiento(w, m)

\* Requests of one UPDATE and nothing after it, and the calendar.
Cambiar ==
    \/ \E u \in Usuarios : ReactivarUsuario(u)
    \/ \E r \in Roles \cap Cambian[dedicada] : DesactivarRol(r) \/ ReactivarRol(r)
    \/ \E m \in Modulos : Vencer(m)
    \/ \E p \in Permisos \cap Cambian[dedicada] : SincronizarPermiso(p) \/ RetirarPermiso(p)
    \/ \E m \in Modulos \cap Cambian[dedicada] : ActivarCatalogo(m) \/ RetirarCatalogo(m)

-----------------------------------------------------------------------------
\* PermissionCache.invalidate_for_user: every company of the user.
InvalidarUsuario(w) ==
    /\ At(w, "invalidar_usuario")
    /\ cache' = [cache EXCEPT ![ProcesoDe[w]][tarea[w].usr] = [e \in Sesiones |-> None]]
    /\ Terminar(w)
    /\ UNCHANGED <<tablas, pedido>>

\* PermissionCache.invalidate_for_tenant.
InvalidarTenant(w) ==
    /\ At(w, "invalidar_tenant")
    /\ cache' = [cache EXCEPT ![ProcesoDe[w]] = [u \in Usuarios |-> [e \in Sesiones |-> None]]]
    /\ Terminar(w)
    /\ UNCHANGED <<tablas, pedido>>

\* A statement fails, or the client goes away, before the invalidation.
Fallar(w) ==
    /\ ~At(w, "libre")
    /\ Terminar(w)
    /\ UNCHANGED <<tablas, cache, pedido>>

\* A process restarts: its cache and its requests are gone.
Reiniciar(k) ==
    /\ cache' = [cache EXCEPT ![k] = [u \in Usuarios |-> [e \in Sesiones |-> None]]]
    /\ tarea' = [w \in Workers |-> IF ProcesoDe[w] = k THEN Libre ELSE tarea[w]]
    /\ UNCHANGED <<tablas, pedido>>

\* Time passes, unless a look-up would stay longer than MaxFill after its
\* first read without reaching the cache.
Menor(a, b) == IF a < b THEN a ELSE b
Pasar(x) == IF x = None THEN None ELSE [x EXCEPT !.age = Menor(@ + 1, TTL + 1)]

Tick ==
    /\ \A w \in Workers : tarea[w].at \in Leyendo => tarea[w].edad < MaxFill
    /\ tarea' = [w \in Workers |->
                   IF tarea[w].at \in Leyendo THEN [tarea[w] EXCEPT !.edad = @ + 1] ELSE tarea[w]]
    /\ cache' = [k \in Procesos |-> [u \in Usuarios |-> [e \in Sesiones |-> Pasar(cache[k][u][e])]]]
    /\ since' = [u \in Usuarios |-> [e \in Sesiones |-> [l \in Fuentes |-> [C \in Conjuntos |->
                   IF C = Valor(l, u, e) THEN 0 ELSE Menor(since[u][e][l][C] + 1, Cap)]]]]
    /\ told' = None
    /\ UNCHANGED <<tablas, pedido>>

\* The history of what reads would give.
Recordar ==
    since' = [u \in Usuarios |-> [e \in Sesiones |-> [l \in Fuentes |-> [C \in Conjuntos |->
                 IF C = Valor(l, u, e)' THEN 0 ELSE since[u][e][l][C]]]]]

Escribir(w) ==
    \/ "permisos" \in Atiende[dedicada][w] /\ SetPermisos(w)
    \/ "asignaciones" \in Atiende[dedicada][w] /\ (Asignar(w) \/ Retirar(w))
    \/ Administrar(w)
    \/ InvalidarUsuario(w) \/ InvalidarTenant(w) \/ Fallar(w)

\* A tenant keeps its kind of installation: a change of tipo_instalacion
\* points it at other rows.
Next ==
    /\ UNCHANGED dedicada
    /\ \/ Tick
       \/ (\E w \in Workers : "consultas" \in Atiende[dedicada][w] /\ Resolver(w)) /\ UNCHANGED since
       \/ /\ (\E w \in Workers : Escribir(w)) \/ Cambiar \/ (\E k \in Procesos : Reiniciar(k))
          /\ Recordar
          /\ told' = None

Spec == Init /\ [][Next]_vars
=============================================================================
