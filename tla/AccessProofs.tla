---------------------------- MODULE AccessProofs ----------------------------
(***************************************************************************)
(* Theorems about Access, for any number of users, companies, processes    *)
(* and requests, and any TTL.                                              *)
(***************************************************************************)
EXTENDS AccessProps, TLAPS

\* The reads a look-up has done.
Hechas(t) == CASE t.at = "leer_central" -> {"roles"}
               [] t.at = "leer_suscripcion" -> LecturasBase
               [] t.at = "guardar" -> Lecturas(t.filtra)

\* What a request has read or looked up is still about existing rows, and
\* the permissions it is about to cache are as old as its own clock says.
TareaBien(t) ==
    /\ t.at \in Leyendo \cup {"leer"} =>
         t.usr \in Usuarios /\ t.amb \in Sesiones /\ t.filtra \in Filtros[dedicada]
    /\ t.at \in Leyendo => Leida(t.usr, t.amb, Hechas(t), t.lista, t.edad)
    /\ t.at = "leer_central" => dedicada
    /\ t.at = "leer_suscripcion" => t.filtra
    /\ t.at \in {"borrar", "insertar"} => t.rol \in Roles
    /\ t.at = "insertar" => t.lista \subseteq pedido[t.rol]
    /\ t.at \in {"leer_rol", "leer_fila", "crear", "reactivar", "promover"} =>
         t.usr \in Usuarios /\ t.rol \in Roles /\ t.amb \in Ambitos
    /\ t.at \in {"reactivar", "promover", "revocar"} => t.ref \in Filas /\ fila[t.ref] # None
    /\ t.at \in {"revocar", "desactivar_roles", "invalidar_usuario"} => t.usr \in Usuarios

TareaOK == \A w \in Workers : TareaBien(tarea[w])

\* An entry is at most MaxFill older than its age says.
CacheOK ==
    \A k \in Procesos, u \in Usuarios, e \in Sesiones :
        Vigente(cache[k][u][e]) =>
            Reciente(u, e, cache[k][u][e].codes, cache[k][u][e].age + MaxFill)

\* What a read would give now, it would have given no time ago.
Ahora ==
    \A u \in Usuarios, e \in Sesiones, l \in Fuentes, C \in Conjuntos :
        C = Valor(l, u, e) => since[u][e][l][C] = 0

Inv == TypeOK /\ TareaOK /\ CacheOK /\ Ahora /\ AnswersAreRecent /\ OnlyAskedFor

SinceType == since \in [Usuarios -> [Sesiones -> [Fuentes -> [Conjuntos -> 0..Cap]]]]

\* No set of permissions gets older in the step.
Rejuvenece ==
    /\ SinceType'
    /\ \A u \in Usuarios, e \in Sesiones, l \in Fuentes, C \in Conjuntos :
          since'[u][e][l][C] <= since[u][e][l][C]

-----------------------------------------------------------------------------
\* A tenant keeps its kind of installation, and so the reads of its look-ups.
LEMMA Fijas ==
    ASSUME UNCHANGED dedicada
    PROVE  /\ LecturasBase' = LecturasBase /\ Fuentes' = Fuentes
           /\ \A f : Lecturas(f)' = Lecturas(f)
  BY DEF LecturasBase, Lecturas, Fuentes

LEMMA RecordarRejuvenece ==
    ASSUME UNCHANGED dedicada, SinceType, Recordar
    PROVE  Rejuvenece
<1> DEFINE G(u, e, l, C) == IF C = Valor(l, u, e)' THEN 0 ELSE since[u][e][l][C]
<1>1. \A u \in Usuarios, e \in Sesiones, l \in Fuentes, C \in Conjuntos :
          G(u, e, l, C) \in 0..Cap /\ G(u, e, l, C) <= since[u][e][l][C]
  <2>1. \A u \in Usuarios, e \in Sesiones, l \in Fuentes, C \in Conjuntos :
            since[u][e][l][C] \in 0..Cap
    BY DEF SinceType
  <2>2. QED
    BY <2>1, BoundsAssumption DEF Cap
<1>2. since' = [u \in Usuarios |-> [e \in Sesiones |-> [l \in Fuentes |->
                  [C \in Conjuntos |-> G(u, e, l, C)]]]]
  BY DEF Recordar
<1> HIDE DEF G
<1>3. SinceType'
  BY <1>1, <1>2, Fijas, SMTT(20) DEF SinceType
<1>4. \A u \in Usuarios, e \in Sesiones, l \in Fuentes, C \in Conjuntos :
          since'[u][e][l][C] = G(u, e, l, C)
  BY <1>2
<1>5. QED
  BY <1>1, <1>3, <1>4 DEF Rejuvenece

LEMMA UnchangedRejuvenece ==
    ASSUME UNCHANGED dedicada, SinceType, UNCHANGED since
    PROVE  Rejuvenece
  BY Fijas, BoundsAssumption DEF SinceType, Rejuvenece, Cap

\* What was read stays so.
LEMMA VistoSigue ==
    ASSUME UNCHANGED dedicada, SinceType, Rejuvenece,
           NEW l \in Fuentes, NEW u \in Usuarios, NEW e \in Sesiones,
           NEW X \in SUBSET Permisos, NEW d \in Int, Visto(l, u, e, X, d)
    PROVE  Visto(l, u, e, X, d)'
<1>1. CASE X \in {{}, TrasError(l)}
  BY <1>1 DEF Visto, TrasError, Globales
<1>2. CASE X \notin {{}, TrasError(l)}
  <2>1. X \in Conjuntos
    BY <1>2 DEF Conjuntos
  <2>2. since'[u][e][l][X] <= since[u][e][l][X] /\ since[u][e][l][X] <= d
    BY <2>1, <1>2 DEF Rejuvenece, Visto
  <2>3. since[u][e][l][X] \in Int /\ since'[u][e][l][X] \in Int
    BY <2>1, Fijas, BoundsAssumption DEF SinceType, Rejuvenece, Cap
  <2>4. QED
    BY <2>2, <2>3 DEF Visto
<1>3. QED
  BY <1>1, <1>2

LEMMA LeidaSigue ==
    ASSUME UNCHANGED dedicada, SinceType, Rejuvenece,
           NEW u \in Usuarios, NEW e \in Sesiones, NEW L \in SUBSET Fuentes,
           NEW C, NEW d \in Int, Leida(u, e, L, C, d)
    PROVE  Leida(u, e, L, C, d)'
<1>1. PICK X \in [L -> SUBSET Permisos] :
         /\ \A l \in L : Visto(l, u, e, X[l], d)
         /\ C = {p \in Permisos : \A l \in L : p \in X[l]}
  BY DEF Leida
<1>2. \A l \in L : Visto(l, u, e, X[l], d)'
  BY <1>1, VistoSigue
<1>3. QED
  BY <1>1, <1>2 DEF Leida

LEMMA LecturasFuentes ==
    ASSUME NEW f \in Filtros[dedicada]
    PROVE  LecturasBase \in SUBSET Fuentes /\ Lecturas(f) \in SUBSET Fuentes
  BY DEF Fuentes, Lecturas

LEMMA RecienteSigue ==
    ASSUME UNCHANGED dedicada, SinceType, Rejuvenece,
           NEW u \in Usuarios, NEW e \in Sesiones, NEW C, NEW d \in Int,
           Reciente(u, e, C, d)
    PROVE  Reciente(u, e, C, d)'
<1>1. PICK f \in Filtros[dedicada] : Leida(u, e, Lecturas(f), C, d)
  BY DEF Reciente
<1>2. Leida(u, e, Lecturas(f), C, d)'
  BY <1>1, LecturasFuentes, LeidaSigue, Fijas
<1>3. QED
  BY <1>2 DEF Reciente

\* What was read at most d ago was read at most c ago, if d <= c.
LEMMA LeidaCrece ==
    ASSUME SinceType,
           NEW u \in Usuarios, NEW e \in Sesiones, NEW L \in SUBSET Fuentes,
           NEW C, NEW d \in Int, NEW c \in Int, d <= c, Leida(u, e, L, C, d)
    PROVE  Leida(u, e, L, C, c)
<1>1. PICK X \in [L -> SUBSET Permisos] :
         /\ \A l \in L : Visto(l, u, e, X[l], d)
         /\ C = {p \in Permisos : \A l \in L : p \in X[l]}
  BY DEF Leida
<1>2. ASSUME NEW l \in L PROVE Visto(l, u, e, X[l], c)
  <2>1. CASE X[l] \in {{}, TrasError(l)}
    BY <2>1 DEF Visto
  <2>2. CASE X[l] \notin {{}, TrasError(l)}
    <3>1. X[l] \in Conjuntos
      BY <2>2 DEF Conjuntos
    <3>2. since[u][e][l][X[l]] \in Int
      BY <3>1, BoundsAssumption DEF SinceType, Cap
    <3>3. since[u][e][l][X[l]] <= d
      BY <1>1, <2>2 DEF Visto
    <3>4. QED
      BY <3>2, <3>3 DEF Visto
  <2>3. QED
    BY <2>1, <2>2
<1>3. QED
  BY <1>1, <1>2 DEF Leida

\* The reads of a request are reads of the instance.
LEMMA HechasFuentes ==
    ASSUME NEW t, t.at \in Leyendo, TareaBien(t)
    PROVE  Hechas(t) \in SUBSET Fuentes
<1>1. t.filtra \in Filtros[dedicada] /\ (t.at = "leer_central" => dedicada)
  BY DEF TareaBien
<1>2. LecturasBase \in SUBSET Fuentes /\ Lecturas(t.filtra) \in SUBSET Fuentes
  BY <1>1, LecturasFuentes
<1>3. dedicada => {"roles"} \subseteq LecturasBase
  BY DEF LecturasBase
<1>4. QED
  BY <1>1, <1>2, <1>3 DEF Leyendo, Hechas

\* Rows are never deleted, and a call's list leaves pedido only by its own
\* doing: what was right about a request stays right.
LEMMA TareaSigue ==
    ASSUME UNCHANGED dedicada, SinceType, Rejuvenece, NEW t \in Tarea, TareaBien(t),
           \A i \in Filas : fila[i] # None => fila'[i] # None,
           t.at = "insertar" => t.lista \subseteq pedido'[t.rol]
    PROVE  TareaBien(t)'
<1>1. ASSUME t.at \in Leyendo PROVE Leida(t.usr, t.amb, Hechas(t), t.lista, t.edad)'
  <2>1. /\ t.usr \in Usuarios /\ t.amb \in Sesiones
        /\ t.edad \in Int /\ Leida(t.usr, t.amb, Hechas(t), t.lista, t.edad)
        /\ Hechas(t) \in SUBSET Fuentes
    BY <1>1, HechasFuentes, BoundsAssumption DEF TareaBien, Tarea
  <2>2. Hechas(t)' = Hechas(t)
    BY DEF Hechas, LecturasBase, Lecturas
  <2>3. QED
    BY <2>1, <2>2, LeidaSigue
<1>2. QED
  BY <1>1 DEF TareaBien

\* A step of worker w that leaves it with the request t.
LEMMA UnaTarea ==
    ASSUME UNCHANGED dedicada, TypeOK, TareaOK, Rejuvenece, NEW w \in Workers, NEW t \in Tarea,
           tarea' = [tarea EXCEPT ![w] = t], TareaBien(t)',
           \A i \in Filas : fila[i] # None => fila'[i] # None,
           \A v \in Workers \ {w} : tarea[v].at = "insertar" =>
               tarea[v].lista \subseteq pedido'[tarea[v].rol]
    PROVE  TareaOK' /\ tarea' \in [Workers -> Tarea]
<1>1. tarea' \in [Workers -> Tarea]
  BY DEF TypeOK
<1>2. ASSUME NEW v \in Workers PROVE TareaBien(tarea[v])'
  <2>1. CASE v = w
    BY <2>1 DEF TypeOK
  <2>2. CASE v # w
    <3>1. PICK x \in Tarea : x = tarea[v]
      BY DEF TypeOK
    <3>2. tarea'[v] = x /\ TareaBien(x)
      BY <2>2, <3>1 DEF TypeOK, TareaOK
    <3>3. TareaBien(x)'
      BY <2>2, <3>1, <3>2, TareaSigue DEF TypeOK, SinceType
    <3>4. QED
      BY <3>2, <3>3
  <2>3. QED
    BY <2>1, <2>2
<1>3. QED
  BY <1>1, <1>2 DEF TareaOK

\* A step that changes no entry of the cache, or drops some.
LEMMA CacheSigue ==
    ASSUME UNCHANGED dedicada, TypeOK, CacheOK, Rejuvenece,
           cache' \in [Procesos -> [Usuarios -> [Sesiones -> Entrada \cup {None}]]],
           \A k \in Procesos, u \in Usuarios, e \in Sesiones :
               cache'[k][u][e] \in {None, cache[k][u][e]}
    PROVE  CacheOK'
<1> SUFFICES ASSUME NEW k \in Procesos, NEW u \in Usuarios, NEW e \in Sesiones,
                    Vigente(cache'[k][u][e])
             PROVE  Reciente(u, e, cache[k][u][e].codes, cache[k][u][e].age + MaxFill)'
  BY DEF CacheOK, Vigente
<1>1. PICK x \in Entrada : x = cache[k][u][e] /\ cache'[k][u][e] = x
  BY DEF Vigente, TypeOK
<1>2. Vigente(cache[k][u][e])
  BY <1>1 DEF Vigente
<1>3. Reciente(u, e, x.codes, x.age + MaxFill)
  BY <1>1, <1>2 DEF CacheOK
<1>4. x.codes \in SUBSET Permisos /\ x.age + MaxFill \in Int
  BY BoundsAssumption DEF Entrada
<1>5. Reciente(u, e, x.codes, x.age + MaxFill)'
  BY <1>3, <1>4, RecienteSigue DEF TypeOK, SinceType
<1>6. QED
  BY <1>1, <1>5

-----------------------------------------------------------------------------
(***************************************************************************)
(* Steps, but for the answers they give.                                   *)
(***************************************************************************)
TablasType ==
    /\ eliminado \subseteq Usuarios
    /\ rolActivo \subseteq Roles
    /\ fila \in [Filas -> Fila \cup {None}]
    /\ permisos \in [Roles -> SUBSET Permisos]
    /\ modulo \in [Modulos -> {"activo", "vencido", "inactivo"}]
    /\ activos \subseteq Permisos \cup Modulos
    /\ moduloDe \in [Permisos -> Modulos \cup {None}]
    /\ pedido \in [Roles -> SUBSET Permisos]
CacheType == cache \in [Procesos -> [Usuarios -> [Sesiones -> Entrada \cup {None}]]]

Guarda ==
    /\ TablasType /\ CacheType /\ SinceType
    /\ tarea \in [Workers -> Tarea]
    /\ TareaOK /\ CacheOK /\ OnlyAskedFor

Previo == TypeOK /\ TareaOK /\ CacheOK /\ OnlyAskedFor /\ Rejuvenece

LEMMA LibreBien == Libre \in Tarea /\ TareaBien(Libre) /\ TareaBien(Libre)'
<1>1. Libre \in Tarea
  BY BoundsAssumption DEF Libre, Tarea, Pasos
<1>2. TareaBien(Libre) /\ TareaBien(Libre)'
  BY DEF Libre, TareaBien, Leyendo
<1>3. QED
  BY <1>1, <1>2

\* A step of w that changes the tables, drops entries and leaves request t.
LEMMA PasoDe ==
    ASSUME UNCHANGED dedicada, Previo, TablasType',
           CacheType', \A k \in Procesos, u \in Usuarios, e \in Sesiones :
                           cache'[k][u][e] \in {None, cache[k][u][e]},
           NEW w \in Workers, NEW t \in Tarea,
           tarea' = [tarea EXCEPT ![w] = t], TareaBien(t)',
           \A i \in Filas : fila[i] # None => fila'[i] # None,
           \A v \in Workers \ {w} : tarea[v].at = "insertar" =>
               tarea[v].lista \subseteq pedido'[tarea[v].rol],
           OnlyAskedFor'
    PROVE  Guarda'
<1>1. TareaOK' /\ tarea' \in [Workers -> Tarea]
  BY UnaTarea DEF Previo
<1>2. CacheOK'
  BY CacheSigue DEF Previo, CacheType
<1>3. SinceType'
  BY DEF Previo, Rejuvenece
<1>4. QED
  BY <1>1, <1>2, <1>3 DEF Guarda

LEMMA Intactas ==
    ASSUME UNCHANGED dedicada, Previo
    PROVE  /\ UNCHANGED cache => /\ CacheType'
                                 /\ \A k \in Procesos, u \in Usuarios, e \in Sesiones :
                                       cache'[k][u][e] \in {None, cache[k][u][e]}
           /\ UNCHANGED fila => \A i \in Filas : fila[i] # None => fila'[i] # None
           /\ UNCHANGED pedido => \A v \in Workers : tarea[v].at = "insertar" =>
                                      tarea[v].lista \subseteq pedido'[tarea[v].rol]
           /\ UNCHANGED <<permisos, pedido>> => OnlyAskedFor'
           /\ UNCHANGED <<tablas, pedido>> => TablasType'
           /\ TablasType
  BY DEF Previo, TypeOK, CacheType, TareaOK, TareaBien, OnlyAskedFor, TablasType, tablas, roles,
         central, catalogo

\* A step of w that only changes its request.
LEMMA SoloTarea ==
    ASSUME UNCHANGED dedicada, Previo, UNCHANGED <<tablas, cache, pedido>>,
           NEW w \in Workers, NEW t \in Tarea,
           tarea' = [tarea EXCEPT ![w] = t], TareaBien(t)'
    PROVE  Guarda'
<1>1. UNCHANGED fila /\ UNCHANGED pedido /\ UNCHANGED cache
      /\ UNCHANGED <<permisos, pedido>> /\ UNCHANGED <<tablas, pedido>>
  BY DEF tablas, roles
<1>2. QED
  BY <1>1, Intactas, PasoDe

LEMMA Termina ==
    ASSUME UNCHANGED dedicada, Previo, UNCHANGED <<tablas, cache, pedido>>,
           NEW w \in Workers, Terminar(w)
    PROVE  Guarda'
  BY LibreBien, SoloTarea DEF Terminar

\* A step of w that changes rows of usuario_rol and its request.
LEMMA FilaTarea ==
    ASSUME UNCHANGED dedicada, Previo, UNCHANGED <<rolActivo, permisos, central, cache, pedido>>,
           eliminado' \subseteq Usuarios,
           fila' \in [Filas -> Fila \cup {None}],
           \A i \in Filas : fila[i] # None => fila'[i] # None,
           NEW w \in Workers, NEW t \in Tarea,
           tarea' = [tarea EXCEPT ![w] = t], TareaBien(t)'
    PROVE  Guarda'
<1>1. TablasType'
  BY Intactas DEF TablasType, central, catalogo
<1>2. UNCHANGED pedido /\ UNCHANGED cache /\ UNCHANGED <<permisos, pedido>>
  OBVIOUS
<1>3. QED
  BY <1>1, <1>2, Intactas, PasoDe

LEMMA InvalidarBien ==
    ASSUME NEW u \in Usuarios
    PROVE  LET t == [Libre EXCEPT !.at = "invalidar_usuario", !.usr = u]
           IN t \in Tarea /\ TareaBien(t)'
<1> DEFINE t == [Libre EXCEPT !.at = "invalidar_usuario", !.usr = u]
<1>1. t \in Tarea
  BY LibreBien DEF Libre, Tarea, Pasos
<1>2. TareaBien(t)'
  BY DEF Libre, TareaBien, Leyendo
<1>3. QED
  BY <1>1, <1>2

\* The request of w, as a record.
LEMMA TareaDe ==
    ASSUME Previo, NEW w \in Workers
    PROVE  tarea[w] \in Tarea /\ TareaBien(tarea[w])
  BY DEF Previo, TypeOK, TareaOK

-----------------------------------------------------------------------------
LEMMA PasoSetPermisos ==
    ASSUME UNCHANGED dedicada, Previo, NEW w \in Workers, SetPermisos(w)
    PROVE  Guarda'
<1>1. ASSUME NEW r \in Roles, NEW L \in SUBSET Permisos, BeginSet(w, r, L) PROVE Guarda'
  <2> DEFINE t == [Libre EXCEPT !.at = "borrar", !.rol = r, !.lista = L]
  <2>1. t \in Tarea
    BY LibreBien DEF Libre, Tarea, Pasos
  <2>2. TareaBien(t)'
    BY DEF Libre, TareaBien, Leyendo
  <2>3. tarea' = [tarea EXCEPT ![w] = t] /\ UNCHANGED <<tablas, cache, pedido>>
    BY <1>1 DEF BeginSet, Comenzar
  <2> HIDE DEF t
  <2>4. QED
    BY <2>1, <2>2, <2>3, SoloTarea
<1>2. ASSUME Borrar(w) PROVE Guarda'
  <2>1. PICK x \in Tarea : x = tarea[w]
    BY TareaDe
  <2>2. /\ x.at = "borrar" /\ x.rol \in Roles /\ x.lista \in SUBSET Permisos
    BY <1>2, <2>1, TareaDe DEF Borrar, At, TareaBien, Tarea
  <2> DEFINE t == [x EXCEPT !.at = "insertar"]
             otros == {y \in Workers : At(y, "insertar") /\ tarea[y].rol = x.rol}
             L == x.lista \cup UNION {tarea[v].lista : v \in otros}
  <2>3. t \in Tarea /\ t.rol = x.rol /\ t.lista = x.lista /\ t.at = "insertar"
    BY <2>1, ZenonT(60) DEF Tarea, Pasos
  <2>4. \A v \in Workers : tarea[v].lista \in SUBSET Permisos
    BY DEF Previo, TypeOK, Tarea
  <2>5. L \in SUBSET Permisos /\ x.lista \subseteq L
        /\ \A v \in otros : tarea[v].lista \subseteq L
    BY <2>2, <2>4
  <2>6. /\ tarea' = [tarea EXCEPT ![w] = t]
        /\ pedido' = [pedido EXCEPT ![x.rol] = L]
        /\ permisos' = [permisos EXCEPT ![x.rol] = {}]
        /\ UNCHANGED <<eliminado, rolActivo, fila, central, cache>>
    BY <1>2, <2>1 DEF Borrar, Seguir, roles
  <2>7. otros = {y \in Workers : tarea[y].at = "insertar" /\ tarea[y].rol = x.rol}
    BY DEF At
  <2> HIDE DEF L, otros, t
  <2>8. TablasType'
    BY <2>2, <2>5, <2>6, Intactas DEF TablasType, central, catalogo
  <2>9. OnlyAskedFor'
    BY <2>2, <2>5, <2>6, Intactas DEF OnlyAskedFor, Previo, TablasType
  <2>10. \A v \in Workers : tarea[v].at = "insertar" =>
            tarea[v].rol \in Roles /\ tarea[v].lista \subseteq pedido[tarea[v].rol]
    BY DEF Previo, TareaOK, TareaBien
  <2>11. \A v \in Workers : tarea[v].at = "insertar" =>
            tarea[v].lista \subseteq pedido'[tarea[v].rol]
    BY <2>2, <2>5, <2>6, <2>7, <2>10, Intactas DEF TablasType
  <2>12. pedido'[x.rol] = L
    BY <2>2, <2>6, Intactas DEF TablasType
  <2>13. TareaBien(t)'
    BY <2>2, <2>3, <2>5, <2>12 DEF TareaBien, Leyendo
  <2>14. UNCHANGED fila /\ UNCHANGED cache
    BY <2>6
  <2>15. QED
    BY <2>3, <2>6, <2>8, <2>9, <2>11, <2>13, <2>14, Intactas, PasoDe
<1>3. ASSUME NEW p \in Permisos, Insertar(w, p) PROVE Guarda'
  <2>1. PICK x \in Tarea : x = tarea[w]
    BY TareaDe
  <2>2. /\ x.at = "insertar" /\ x.rol \in Roles /\ x.lista \in SUBSET Permisos
        /\ x.lista \subseteq pedido[x.rol] /\ p \in x.lista
    BY <1>3, <2>1, TareaDe DEF Insertar, At, TareaBien, Tarea
  <2> DEFINE t == [x EXCEPT !.lista = @ \ {p}]
  <2>3. t \in Tarea
    <3>1. x.lista \ {p} \in SUBSET Permisos
      BY <2>2
    <3>2. QED
      BY <3>1, ZenonT(60) DEF Tarea
  <2>4. t.rol = x.rol /\ t.lista = x.lista \ {p} /\ t.at = "insertar"
    BY <2>2 DEF Tarea
  <2>5. /\ tarea' = [tarea EXCEPT ![w] = t]
        /\ permisos' = [permisos EXCEPT ![x.rol] = @ \cup {p}]
        /\ UNCHANGED <<eliminado, rolActivo, fila, central, cache, pedido>>
    BY <1>3, <2>1 DEF Insertar, roles
  <2> HIDE DEF t
  <2>6. TablasType'
    BY <2>2, <2>5, Intactas DEF TablasType, central, catalogo
  <2>7. OnlyAskedFor'
    BY <2>2, <2>5, Intactas DEF OnlyAskedFor, Previo, TablasType
  <2>8. TareaBien(t)'
    BY <2>2, <2>4, <2>5 DEF TareaBien, Leyendo
  <2>9. UNCHANGED fila /\ UNCHANGED cache /\ UNCHANGED pedido
    BY <2>5
  <2>10. QED
    BY <2>3, <2>5, <2>6, <2>7, <2>8, <2>9, Intactas, PasoDe
<1>4. ASSUME Chocar(w) PROVE Guarda'
  BY <1>4, Termina DEF Chocar
<1>5. ASSUME Insertados(w) PROVE Guarda'
  <2> DEFINE t == [Libre EXCEPT !.at = "invalidar_tenant"]
  <2>1. t \in Tarea /\ TareaBien(t)'
    BY LibreBien DEF Libre, Tarea, Pasos, TareaBien, Leyendo
  <2>2. tarea' = [tarea EXCEPT ![w] = t] /\ UNCHANGED <<tablas, cache, pedido>>
    BY <1>5 DEF Insertados
  <2> HIDE DEF t
  <2>3. QED
    BY <2>1, <2>2, SoloTarea
<1>6. QED
  BY <1>1, <1>2, <1>3, <1>4, <1>5 DEF SetPermisos

\* w goes on, with the same request, at another step.
LEMMA SigueBien ==
    ASSUME UNCHANGED dedicada, Previo, UNCHANGED <<tablas, cache, pedido>>,
           NEW w \in Workers, NEW a \in Pasos,
           Seguir(w, a), a \notin Leyendo \cup {"leer", "borrar", "insertar"},
           a \in {"leer_rol", "leer_fila", "crear", "reactivar", "promover"} =>
               /\ tarea[w].usr \in Usuarios /\ tarea[w].rol \in Roles
               /\ tarea[w].amb \in Ambitos,
           a \notin {"reactivar", "promover", "revocar", "desactivar_roles", "invalidar_usuario"}
    PROVE  Guarda'
<1>1. PICK x \in Tarea : x = tarea[w]
  BY TareaDe
<1> DEFINE t == [x EXCEPT !.at = a]
<1>2. t \in Tarea
  BY <1>1, ZenonT(60) DEF Tarea
<1>3. t.at = a /\ t.usr = x.usr /\ t.rol = x.rol /\ t.amb = x.amb
  BY <1>1 DEF Tarea
<1>4. tarea' = [tarea EXCEPT ![w] = t]
  BY <1>1 DEF Seguir
<1> HIDE DEF t
<1>5. TareaBien(t)'
  BY <1>1, <1>3 DEF TareaBien, Leyendo
<1>6. QED
  BY <1>2, <1>4, <1>5, SoloTarea

\* Rows of a request are rows.
LEMMA FilasDeRows ==
    ASSUME TablasType, NEW u, NEW r, NEW i \in FilasDe(u, r)
    PROVE  i \in Filas /\ fila[i] \in Fila /\ fila[i] # None
  BY DEF FilasDe, TablasType

LEMMA PasoAsignar ==
    ASSUME UNCHANGED dedicada, Previo, NEW w \in Workers, Asignar(w)
    PROVE  Guarda'
<1>1. ASSUME NEW u \in Usuarios, NEW r \in Roles, NEW a \in Ambitos, NEW b \in BOOLEAN,
             BeginAsignar(w, u, r, a, b)
      PROVE  Guarda'
  <2> DEFINE t == [Libre EXCEPT !.at = "leer_rol", !.usr = u, !.rol = r, !.amb = a,
                                !.plataforma = b]
  <2>1. t \in Tarea
    BY LibreBien DEF Libre, Tarea, Pasos
  <2>2. TareaBien(t)'
    BY DEF Libre, TareaBien, Leyendo
  <2>3. tarea' = [tarea EXCEPT ![w] = t] /\ UNCHANGED <<tablas, cache, pedido>>
    BY <1>1 DEF BeginAsignar, Comenzar
  <2> HIDE DEF t
  <2>4. QED
    BY <2>1, <2>2, <2>3, SoloTarea
<1>2. ASSUME LeerRol(w) PROVE Guarda'
  <2>1. /\ tarea[w].at = "leer_rol" /\ tarea[w].usr \in Usuarios
        /\ tarea[w].rol \in Roles /\ tarea[w].amb \in Ambitos
    BY <1>2, TareaDe DEF LeerRol, At, TareaBien
  <2>2. "leer_fila" \in Pasos /\ "leer_fila" \notin Leyendo
    BY DEF Pasos, Leyendo
  <2>3. UNCHANGED <<tablas, cache, pedido>> /\ (Seguir(w, "leer_fila") \/ Terminar(w))
    BY <1>2 DEF LeerRol
  <2>4. QED
    BY <2>1, <2>2, <2>3, SigueBien, Termina
<1>3. ASSUME LeerFila(w) PROVE Guarda'
  <2>1. PICK x \in Tarea : x = tarea[w]
    BY TareaDe
  <2>2. /\ x.at = "leer_fila" /\ x.usr \in Usuarios /\ x.rol \in Roles /\ x.amb \in Ambitos
    BY <1>3, <2>1, TareaDe DEF LeerFila, At, TareaBien
  <2>3. UNCHANGED <<tablas, cache, pedido>>
    BY <1>3 DEF LeerFila
  <2>4. CASE Seguir(w, "crear")
    <3>1. "crear" \in Pasos /\ "crear" \notin Leyendo
      BY DEF Pasos, Leyendo
    <3>2. QED
      BY <2>1, <2>2, <2>3, <2>4, <3>1, SigueBien
  <2>5. ASSUME NEW i \in FilasDe(x.usr, x.rol),
               LET d == Decision(x, fila[i]) IN
               tarea' = [tarea EXCEPT ![w] =
                   IF d = "libre" THEN Libre ELSE [x EXCEPT !.at = d, !.ref = i]]
        PROVE  Guarda'
    <3>1. PICK d \in {"libre", "promover", "reactivar"} : d = Decision(x, fila[i])
      BY DEF Decision
    <3>2. CASE d = "libre"
      BY <2>3, <2>5, <3>1, <3>2, LibreBien, SoloTarea
    <3>3. CASE d # "libre"
      <4> DEFINE t == [x EXCEPT !.at = d, !.ref = i]
      <4>1. i \in Filas /\ fila[i] # None
        BY FilasDeRows, Intactas
      <4>2. d \in {"promover", "reactivar"} /\ d \in Pasos
        BY <3>1, <3>3 DEF Pasos
      <4>3. t \in Tarea
        BY <4>1, <4>2, ZenonT(60) DEF Tarea
      <4>4. t.at = d /\ t.usr = x.usr /\ t.rol = x.rol /\ t.amb = x.amb /\ t.ref = i
        BY DEF Tarea
      <4>5. tarea' = [tarea EXCEPT ![w] = t]
        BY <2>5, <3>1, <3>3
      <4> HIDE DEF t
      <4>6. TareaBien(t)'
        BY <2>2, <2>3, <4>1, <4>2, <4>4 DEF TareaBien, Leyendo, tablas, roles
      <4>7. QED
        BY <2>3, <4>3, <4>5, <4>6, SoloTarea
    <3>4. QED
      BY <3>2, <3>3
  <2>6. QED
    BY <1>3, <2>1, <2>4, <2>5 DEF LeerFila
<1>4. ASSUME Crear(w) \/ Reactivar(w) \/ Promover(w) PROVE Guarda'
  <2>1. PICK x \in Tarea : x = tarea[w]
    BY TareaDe
  <2>2. /\ x.usr \in Usuarios /\ x.rol \in Roles /\ x.amb \in Ambitos
        /\ x.at \in {"reactivar", "promover"} => x.ref \in Filas /\ fila[x.ref] # None
    BY <1>4, <2>1, TareaDe DEF Crear, Reactivar, Promover, At, TareaBien
  <2>3. UNCHANGED <<eliminado, rolActivo, permisos, central, cache, pedido>>
    BY <1>4 DEF Crear, Reactivar, Promover
  <2>4. CASE UNCHANGED fila /\ Terminar(w)
    BY <2>3, <2>4, Termina DEF tablas, roles
  <2>5. ASSUME Invalidar(w, x.usr), fila' \in [Filas -> Fila \cup {None}],
               \A i \in Filas : fila[i] # None => fila'[i] # None
        PROVE  Guarda'
    <3> DEFINE t == [Libre EXCEPT !.at = "invalidar_usuario", !.usr = x.usr]
    <3>1. t \in Tarea /\ TareaBien(t)'
      BY <2>2, InvalidarBien
    <3>2. tarea' = [tarea EXCEPT ![w] = t]
      BY <2>5 DEF Invalidar
    <3>3. eliminado' \subseteq Usuarios
      BY <2>3, Intactas DEF TablasType
    <3> HIDE DEF t
    <3>4. QED
      BY <2>3, <2>5, <3>1, <3>2, <3>3, FilaTarea
  <2>6. ASSUME NEW i \in Filas, NEW f \in Fila, fila' = [fila EXCEPT ![i] = f]
        PROVE  /\ fila' \in [Filas -> Fila \cup {None}]
               /\ \A j \in Filas : fila[j] # None => fila'[j] # None
    BY <2>6, Intactas, NoneAssumption DEF TablasType
  <2>7. CASE Crear(w)
    <3>1. CASE UNCHANGED fila /\ Terminar(w)
      BY <3>1, <2>4
    <3>2. CASE /\ Invalidar(w, x.usr)
               /\ \E i \in Filas : fila' = [fila EXCEPT ![i] =
                    [usr |-> x.usr, rol |-> x.rol, amb |-> x.amb, activa |-> TRUE]]
      <4>1. [usr |-> x.usr, rol |-> x.rol, amb |-> x.amb, activa |-> TRUE] \in Fila
        BY <2>2 DEF Fila
      <4>2. QED
        BY <2>5, <2>6, <3>2, <4>1
    <3>3. QED
      BY <2>1, <2>7, <3>1, <3>2 DEF Crear
  <2>8. CASE Reactivar(w)
    <3> DEFINE a == IF x.plataforma THEN x.amb ELSE fila[x.ref].amb
               f == [fila[x.ref] EXCEPT !.activa = TRUE, !.amb = a]
    <3>1. x.ref \in Filas /\ fila[x.ref] \in Fila
      BY <2>1, <2>2, <2>8, Intactas DEF Reactivar, At, TablasType
    <3>2. PICK g \in Fila : g = fila[x.ref]
      BY <3>1
    <3>3. a \in Ambitos
      BY <2>2, <3>2 DEF Fila
    <3>4. f \in Fila
      BY <3>2, <3>3, ZenonT(60) DEF Fila
    <3>5. \/ UNCHANGED fila /\ Terminar(w)
          \/ fila' = [fila EXCEPT ![x.ref].activa = TRUE, ![x.ref].amb = a] /\ Invalidar(w, x.usr)
      BY <2>1, <2>8 DEF Reactivar
    <3>6. [fila EXCEPT ![x.ref].activa = TRUE, ![x.ref].amb = a] = [fila EXCEPT ![x.ref] = f]
      BY <3>1, Intactas DEF TablasType
    <3> HIDE DEF f, a
    <3>7. QED
      BY <2>4, <2>5, <2>6, <3>1, <3>4, <3>5, <3>6
  <2>9. CASE Promover(w)
    <3> DEFINE f == [fila[x.ref] EXCEPT !.amb = Global]
    <3>1. x.ref \in Filas /\ fila[x.ref] \in Fila
      BY <2>1, <2>2, <2>9, Intactas DEF Promover, At, TablasType
    <3>2. PICK g \in Fila : g = fila[x.ref]
      BY <3>1
    <3>3. f \in Fila
      BY <3>2, ZenonT(60) DEF Fila, Ambitos
    <3>4. \/ UNCHANGED fila /\ Terminar(w)
          \/ fila' = [fila EXCEPT ![x.ref] = f] /\ Invalidar(w, x.usr)
      BY <2>1, <2>9 DEF Promover
    <3> HIDE DEF f
    <3>5. QED
      BY <2>4, <2>5, <2>6, <3>1, <3>3, <3>4
  <2>10. QED
    BY <1>4, <2>7, <2>8, <2>9
<1>5. QED
  BY <1>1, <1>2, <1>3, <1>4 DEF Asignar

LEMMA PasoAdministrar ==
    ASSUME UNCHANGED dedicada, Previo, NEW w \in Workers, Retirar(w) \/ Administrar(w)
    PROVE  Guarda'
<1>1. ASSUME NEW u \in Usuarios, NEW r \in Roles, NEW a \in Ambitos, BeginRevocar(w, u, r, a)
      PROVE  Guarda'
  <2>1. PICK i \in FilasDe(u, r) :
           tarea' = [tarea EXCEPT ![w] = [Libre EXCEPT !.at = "revocar", !.usr = u, !.ref = i]]
    BY <1>1 DEF BeginRevocar, Comenzar
  <2>2. i \in Filas /\ fila[i] # None
    BY FilasDeRows, Intactas
  <2> DEFINE t == [Libre EXCEPT !.at = "revocar", !.usr = u, !.ref = i]
  <2>3. UNCHANGED <<tablas, cache, pedido>>
    BY <1>1 DEF BeginRevocar
  <2>4. t \in Tarea
    BY <2>2, LibreBien DEF Libre, Tarea, Pasos
  <2>5. TareaBien(t)'
    BY <2>2, <2>3 DEF Libre, TareaBien, Leyendo, tablas, roles
  <2> HIDE DEF t
  <2>6. QED
    BY <2>1, <2>3, <2>4, <2>5, SoloTarea DEF t
<1>2. ASSUME Revocar(w) \/ DesactivarRoles(w) PROVE Guarda'
  <2>1. PICK x \in Tarea : x = tarea[w]
    BY TareaDe
  <2>2. /\ x.usr \in Usuarios
        /\ x.at = "revocar" => x.ref \in Filas /\ fila[x.ref] # None
    BY <1>2, <2>1, TareaDe DEF Revocar, DesactivarRoles, At, TareaBien
  <2>3. UNCHANGED <<eliminado, rolActivo, permisos, central, cache, pedido>>
    BY <1>2 DEF Revocar, DesactivarRoles
  <2>4. CASE UNCHANGED fila /\ Terminar(w)
    BY <2>3, <2>4, Termina DEF tablas, roles
  <2>5. ASSUME Invalidar(w, x.usr), fila' \in [Filas -> Fila \cup {None}],
               \A i \in Filas : fila[i] # None => fila'[i] # None
        PROVE  Guarda'
    <3> DEFINE t == [Libre EXCEPT !.at = "invalidar_usuario", !.usr = x.usr]
    <3>1. t \in Tarea /\ TareaBien(t)'
      BY <2>2, InvalidarBien
    <3>2. tarea' = [tarea EXCEPT ![w] = t]
      BY <2>5 DEF Invalidar
    <3>3. eliminado' \subseteq Usuarios
      BY <2>3, Intactas DEF TablasType
    <3> HIDE DEF t
    <3>4. QED
      BY <2>3, <2>5, <3>1, <3>2, <3>3, FilaTarea
  <2>6. \A g \in Fila : [g EXCEPT !.activa = FALSE] \in Fila
    BY ZenonT(60) DEF Fila
  <2>7. CASE Revocar(w)
    <3> DEFINE f == [fila[x.ref] EXCEPT !.activa = FALSE]
    <3>1. x.ref \in Filas /\ fila[x.ref] \in Fila
      BY <2>1, <2>2, <2>7, Intactas DEF Revocar, At, TablasType
    <3>2. f \in Fila
      BY <2>6, <3>1
    <3>3. \/ UNCHANGED fila /\ Terminar(w)
          \/ fila' = [fila EXCEPT ![x.ref] = f] /\ Invalidar(w, x.usr)
      BY <2>1, <2>7 DEF Revocar
    <3> HIDE DEF f
    <3>4. fila' = [fila EXCEPT ![x.ref] = f] =>
             /\ fila' \in [Filas -> Fila \cup {None}]
             /\ \A j \in Filas : fila[j] # None => fila'[j] # None
      BY <3>1, <3>2, Intactas, NoneAssumption DEF TablasType
    <3>5. QED
      BY <2>4, <2>5, <3>3, <3>4
  <2>8. CASE DesactivarRoles(w)
    <3>1. Invalidar(w, x.usr)
      BY <2>1, <2>8 DEF DesactivarRoles
    <3>2. CASE UNCHANGED fila
      BY <3>1, <3>2, <2>5, Intactas DEF TablasType
    <3>3. CASE fila' = [i \in Filas |-> IF fila[i] # None /\ fila[i].usr = x.usr
                           THEN [fila[i] EXCEPT !.activa = FALSE] ELSE fila[i]]
      <4>1. \A i \in Filas : fila[i] # None => fila[i] \in Fila
        BY Intactas DEF TablasType
      <4>2. \A i \in Filas : fila'[i] \in Fila \cup {None} /\ (fila[i] # None => fila'[i] # None)
        BY <2>6, <3>3, <4>1, Intactas, NoneAssumption DEF TablasType
      <4>3. fila' \in [Filas -> Fila \cup {None}]
        BY <3>3, <4>2
      <4>4. QED
        BY <2>5, <3>1, <4>2, <4>3
    <3>4. QED
      BY <2>1, <2>8, <3>2, <3>3 DEF DesactivarRoles
  <2>9. QED
    BY <1>2, <2>7, <2>8
<1>3. ASSUME NEW u \in Usuarios, Eliminar(w, u) PROVE Guarda'
  <2> DEFINE t == [Libre EXCEPT !.at = "desactivar_roles", !.usr = u]
  <2>1. t \in Tarea
    BY LibreBien DEF Libre, Tarea, Pasos
  <2>2. TareaBien(t)'
    BY DEF Libre, TareaBien, Leyendo
  <2>3. /\ tarea' = [tarea EXCEPT ![w] = t] /\ eliminado' = eliminado \cup {u}
        /\ UNCHANGED <<rolActivo, fila, permisos, central, cache, pedido>>
    BY <1>3 DEF Eliminar, Comenzar
  <2>4. eliminado' \subseteq Usuarios /\ fila' \in [Filas -> Fila \cup {None}]
    BY <2>3, Intactas DEF TablasType
  <2>5. \A i \in Filas : fila[i] # None => fila'[i] # None
    BY <2>3
  <2> HIDE DEF t
  <2>6. QED
    BY <2>1, <2>2, <2>3, <2>4, <2>5, FilaTarea
<1>4. ASSUME NEW m \in Modulos, NEW X \in SUBSET {"activo", "vencido", "inactivo"}, Contratar(w, m, X)
      PROVE  Guarda'
  <2> DEFINE t == [Libre EXCEPT !.at = "invalidar_tenant"]
  <2>1. t \in Tarea /\ TareaBien(t)'
    BY LibreBien DEF Libre, Tarea, Pasos, TareaBien, Leyendo
  <2>2. /\ tarea' = [tarea EXCEPT ![w] = t] /\ \E x \in X : modulo' = [modulo EXCEPT ![m] = x]
        /\ UNCHANGED <<eliminado, rolActivo, fila, permisos, catalogo, cache, pedido>>
    BY <1>4 DEF Contratar, Comenzar, roles
  <2> HIDE DEF t
  <2>3. TablasType'
    BY <2>2, Intactas DEF TablasType, catalogo
  <2>4. UNCHANGED cache /\ UNCHANGED fila /\ UNCHANGED pedido /\ UNCHANGED <<permisos, pedido>>
    BY <2>2
  <2>5. QED
    BY <2>1, <2>2, <2>3, <2>4, Intactas, PasoDe
<1>5. ASSUME NEW m \in Modulos,
             ActivarModulo(w, m) \/ DesactivarModulo(w, m) \/ ExtenderVencimiento(w, m)
      PROVE  Guarda'
  <2>1. modulo[m] \in {"activo", "vencido", "inactivo"}
    BY Intactas DEF TablasType
  <2>2. \E X \in SUBSET {"activo", "vencido", "inactivo"} : Contratar(w, m, X)
    BY <1>5, <2>1 DEF ActivarModulo, DesactivarModulo, ExtenderVencimiento
  <2>3. QED
    BY <1>4, <2>2
<1>6. QED
  BY <1>1, <1>2, <1>3, <1>5 DEF Retirar, Administrar

LEMMA PasoEscribir ==
    ASSUME UNCHANGED dedicada, Previo, NEW w \in Workers, Escribir(w)
    PROVE  Guarda'
<1>1. ASSUME NEW U \in SUBSET Usuarios,
             cache' = [cache EXCEPT ![ProcesoDe[w]] =
                         [u \in Usuarios |-> IF u \in U THEN [e \in Sesiones |-> None]
                                             ELSE cache[ProcesoDe[w]][u]]],
             Terminar(w), UNCHANGED <<tablas, pedido>>
      PROVE  Guarda'
  <2>1. cache \in [Procesos -> [Usuarios -> [Sesiones -> Entrada \cup {None}]]]
        /\ ProcesoDe[w] \in Procesos
    BY SitesAssumption DEF Previo, TypeOK
  <2>2. \A k \in Procesos, u \in Usuarios :
            cache'[k][u] \in {[e \in Sesiones |-> None], cache[k][u]}
    BY <1>1, <2>1
  <2>3. \A k \in Procesos, u \in Usuarios, e \in Sesiones :
            cache'[k][u][e] \in {None, cache[k][u][e]}
    BY <2>2
  <2>4. CacheType'
    <3>1. \A k \in Procesos : cache'[k] \in [Usuarios -> [Sesiones -> Entrada \cup {None}]]
      BY <1>1, <2>1
    <3>2. QED
      BY <1>1, <2>1, <3>1 DEF CacheType
  <2>5. UNCHANGED fila /\ UNCHANGED pedido /\ UNCHANGED <<permisos, pedido>>
    BY <1>1 DEF tablas, roles
  <2>6. QED
    BY <1>1, <2>3, <2>4, <2>5, LibreBien, Intactas, PasoDe DEF Terminar
<1>2. CASE InvalidarUsuario(w)
  <2>1. cache \in [Procesos -> [Usuarios -> [Sesiones -> Entrada \cup {None}]]]
        /\ ProcesoDe[w] \in Procesos /\ tarea[w].usr \in Usuarios
    BY <1>2, TareaDe, SitesAssumption DEF Previo, TypeOK, InvalidarUsuario, At, TareaBien
  <2>2. cache' = [cache EXCEPT ![ProcesoDe[w]] =
                     [u \in Usuarios |-> IF u \in {tarea[w].usr} THEN [e \in Sesiones |-> None]
                                         ELSE cache[ProcesoDe[w]][u]]]
    BY <1>2, <2>1 DEF InvalidarUsuario
  <2>3. Terminar(w) /\ UNCHANGED <<tablas, pedido>>
    BY <1>2 DEF InvalidarUsuario
  <2>4. PICK U \in SUBSET Usuarios : U = {tarea[w].usr}
    BY <2>1
  <2>5. QED
    BY <1>1, <2>2, <2>3, <2>4
<1>3. CASE InvalidarTenant(w)
  <2>1. cache' = [cache EXCEPT ![ProcesoDe[w]] =
                     [u \in Usuarios |-> IF u \in Usuarios THEN [e \in Sesiones |-> None]
                                         ELSE cache[ProcesoDe[w]][u]]]
    BY <1>3 DEF InvalidarTenant
  <2>2. Terminar(w) /\ UNCHANGED <<tablas, pedido>>
    BY <1>3 DEF InvalidarTenant
  <2>3. QED
    BY <1>1, <2>1, <2>2
<1>4. CASE Fallar(w)
  BY <1>4, Termina DEF Fallar
<1>5. QED
  BY <1>2, <1>3, <1>4, PasoSetPermisos, PasoAsignar, PasoAdministrar DEF Escribir

\* Steps that change tables and no request.
LEMMA TareasQuietas ==
    ASSUME UNCHANGED dedicada, Previo, TablasType',
           UNCHANGED <<fila, cache, tarea, permisos, pedido>>
    PROVE  Guarda'
<1>1. UNCHANGED cache /\ UNCHANGED fila /\ UNCHANGED pedido /\ UNCHANGED <<permisos, pedido>>
  OBVIOUS
<1>2. ASSUME NEW w \in Workers PROVE TareaBien(tarea[w])'
  <2>1. PICK x \in Tarea : x = tarea[w] /\ TareaBien(x)
    BY TareaDe
  <2>2. x.at = "insertar" => x.lista \subseteq pedido'[x.rol]
    BY <1>1, <2>1 DEF TareaBien
  <2>3. TareaBien(x)'
    BY <1>1, <2>1, <2>2, TareaSigue DEF Previo, TypeOK, SinceType
  <2>4. tarea'[w] = x
    BY <2>1
  <2>5. QED
    BY <2>3, <2>4
<1>3. CacheOK'
  BY <1>1, Intactas, CacheSigue DEF Previo, CacheType
<1>4. QED
  BY <1>1, <1>2, <1>3, Intactas DEF Guarda, TareaOK, Previo, Rejuvenece, TypeOK

LEMMA PasoCambiar ==
    ASSUME UNCHANGED dedicada, Previo, Cambiar
    PROVE  Guarda'
<1>1. CASE \/ \E u \in Usuarios : ReactivarUsuario(u)
           \/ \E r \in Roles : DesactivarRol(r) \/ ReactivarRol(r)
           \/ \E m \in Modulos : Vencer(m)
  <2>1. TablasType'
    BY <1>1, Intactas DEF TablasType, ReactivarUsuario, DesactivarRol, ReactivarRol, Vencer,
                          roles, central, catalogo
  <2>2. UNCHANGED <<fila, cache, tarea, permisos, pedido>>
    BY <1>1 DEF ReactivarUsuario, DesactivarRol, ReactivarRol, Vencer, roles
  <2>3. QED
    BY <2>1, <2>2, TareasQuietas
<1>2. CASE \/ \E p \in Permisos : SincronizarPermiso(p) \/ RetirarPermiso(p)
           \/ \E m \in Modulos : ActivarCatalogo(m) \/ RetirarCatalogo(m)
  <2>1. /\ activos' \subseteq Permisos \cup Modulos
        /\ moduloDe' \in [Permisos -> Modulos \cup {None}]
    BY <1>2, Intactas, SitesAssumption
       DEF TablasType, SincronizarPermiso, RetirarPermiso, ActivarCatalogo, RetirarCatalogo
  <2>2. UNCHANGED <<eliminado, rolActivo, fila, modulo, cache, tarea, permisos, pedido>>
    BY <1>2 DEF SincronizarPermiso, RetirarPermiso, ActivarCatalogo, RetirarCatalogo, roles
  <2>3. TablasType'
    BY <2>1, <2>2, Intactas DEF TablasType
  <2>4. QED
    BY <2>2, <2>3, TareasQuietas
<1>3. QED
  BY <1>1, <1>2 DEF Cambiar

LEMMA PasoReiniciar ==
    ASSUME UNCHANGED dedicada, Previo, NEW k \in Procesos, Reiniciar(k)
    PROVE  Guarda'
<1>1. cache \in [Procesos -> [Usuarios -> [Sesiones -> Entrada \cup {None}]]]
  BY DEF Previo, TypeOK
<1>2. \A j \in Procesos : cache'[j] = IF j = k THEN [u \in Usuarios |-> [e \in Sesiones |-> None]]
                                      ELSE cache[j]
  BY <1>1 DEF Reiniciar
<1>3. CacheType' /\ \A j \in Procesos, u \in Usuarios, e \in Sesiones :
                       cache'[j][u][e] \in {None, cache[j][u][e]}
  <2>1. \A j \in Procesos : cache'[j] \in [Usuarios -> [Sesiones -> Entrada \cup {None}]]
    <3>1. [u \in Usuarios |-> [e \in Sesiones |-> None]]
             \in [Usuarios -> [Sesiones -> Entrada \cup {None}]]
      OBVIOUS
    <3>2. QED
      BY <1>1, <1>2, <3>1
  <2>2. CacheType'
    BY <1>1, <2>1 DEF Reiniciar, CacheType
  <2>3. QED
    BY <1>2, <2>2
<1>4. CacheOK'
  BY <1>3, CacheSigue DEF Previo, CacheType
<1>5. UNCHANGED fila /\ UNCHANGED pedido /\ UNCHANGED <<permisos, pedido>>
      /\ UNCHANGED <<tablas, pedido>>
  BY DEF Reiniciar, tablas, roles
<1>6. ASSUME NEW w \in Workers PROVE tarea'[w] \in Tarea /\ TareaBien(tarea[w])'
  <2>1. PICK x \in Tarea : x = tarea[w] /\ TareaBien(x)
    BY TareaDe
  <2>2. x.at = "insertar" => x.lista \subseteq pedido'[x.rol]
    BY <1>5, <2>1 DEF TareaBien
  <2>3. TareaBien(x)'
    BY <1>5, <2>1, <2>2, TareaSigue DEF Previo, TypeOK, SinceType
  <2>4. tarea'[w] = x \/ tarea'[w] = Libre
    BY <2>1 DEF Reiniciar
  <2>5. QED
    BY <2>1, <2>3, <2>4, LibreBien
<1>7. tarea' \in [Workers -> Tarea]
  BY <1>6 DEF Reiniciar
<1>8. QED
  BY <1>3, <1>4, <1>5, <1>6, <1>7, Intactas DEF Guarda, TareaOK, Previo, Rejuvenece

-----------------------------------------------------------------------------
(***************************************************************************)
(* The resolver.                                                           *)
(***************************************************************************)
LEMMA ValorTipo ==
    ASSUME NEW l \in Fuentes, NEW u, NEW e
    PROVE  Valor(l, u, e) \in SUBSET Permisos
<1>1. l \in {"ambas", "roles", "central", "suscripcion"}
  BY DEF Fuentes, Lecturas, LecturasBase
<1>2. /\ Asignados(u, e) \in SUBSET Permisos /\ Vigentes \in SUBSET Permisos
      /\ Suscritos \in SUBSET Permisos
  BY DEF Asignados, Vigentes, Suscritos, Globales
<1>3. QED
  BY <1>1, <1>2 DEF Valor, Otorgados

\* What a read finds in the tables is a matter of the tables only.
LEMMA ValorIgual ==
    ASSUME UNCHANGED dedicada, UNCHANGED tablas
    PROVE  \A u \in Usuarios, e \in Sesiones, l \in Fuentes : Valor(l, u, e)' = Valor(l, u, e)
<1>1. UNCHANGED <<fila, permisos, modulo, activos, moduloDe>>
  BY DEF tablas, roles, central, catalogo
<1>2. \A u \in Usuarios, e \in Sesiones : Asignados(u, e)' = Asignados(u, e)
  BY <1>1 DEF Asignados, FilasDe
<1>3. Vigentes' = Vigentes /\ Suscritos' = Suscritos
  BY <1>1 DEF Vigentes, Suscritos, Contratado
<1>4. QED
  BY <1>2, <1>3 DEF Valor, Otorgados

\* What a read gives now is as recent as can be.
LEMMA LeidoVisto ==
    ASSUME Ahora, NEW l \in Fuentes, NEW u \in Usuarios, NEW e \in Sesiones,
           NEW X \in Leidos(l, u, e), NEW d \in Nat
    PROVE  X \in SUBSET Permisos /\ Visto(l, u, e, X, d)
<1>1. CASE X = Valor(l, u, e)
  <2>1. X \in SUBSET Permisos
    BY <1>1, ValorTipo
  <2>2. X \in Conjuntos => since[u][e][l][X] = 0
    BY <1>1 DEF Ahora
  <2>3. QED
    BY <2>1, <2>2 DEF Visto, Conjuntos
<1>2. CASE X = TrasError(l)
  BY <1>2 DEF Visto, TrasError, Globales
<1>3. QED
  BY <1>1, <1>2 DEF Leidos

\* The first read of a look-up, and one more.
LEMMA PrimeraLeida ==
    ASSUME NEW l, NEW u, NEW e, NEW X \in SUBSET Permisos, NEW d, Visto(l, u, e, X, d)
    PROVE  Leida(u, e, {l}, X, d)
<1> DEFINE F == [k \in {l} |-> X]
<1>1. F \in [{l} -> SUBSET Permisos]
  OBVIOUS
<1>2. \A k \in {l} : Visto(k, u, e, F[k], d)
  OBVIOUS
<1>3. X = {p \in Permisos : \A k \in {l} : p \in F[k]}
  OBVIOUS
<1> HIDE DEF F
<1>4. QED
  BY <1>1, <1>2, <1>3 DEF Leida

LEMMA OtraLeida ==
    ASSUME NEW L, NEW l, l \notin L, NEW u, NEW e, NEW C, NEW d, Leida(u, e, L, C, d),
           NEW Y \in SUBSET Permisos, Visto(l, u, e, Y, d)
    PROVE  Leida(u, e, L \cup {l}, C \cap Y, d)
<1>1. PICK X \in [L -> SUBSET Permisos] :
         /\ \A k \in L : Visto(k, u, e, X[k], d)
         /\ C = {p \in Permisos : \A k \in L : p \in X[k]}
  BY DEF Leida
<1> DEFINE F == [k \in L \cup {l} |-> IF k = l THEN Y ELSE X[k]]
<1>2. F \in [L \cup {l} -> SUBSET Permisos]
  OBVIOUS
<1>3. F[l] = Y /\ \A k \in L : F[k] = X[k]
  OBVIOUS
<1> HIDE DEF F
<1>4. \A k \in L \cup {l} : Visto(k, u, e, F[k], d)
  BY <1>1, <1>3
<1>5. C \cap Y = {p \in Permisos : \A k \in L \cup {l} : p \in F[k]}
  BY <1>1, <1>3
<1>6. QED
  BY <1>2, <1>4, <1>5 DEF Leida

\* A look-up that has read all that obtener_codigos_permiso_usuario reads.
LEMMA CodigosBien ==
    ASSUME UNCHANGED dedicada, Previo, UNCHANGED since, NEW x \in Tarea,
           x.usr \in Usuarios, x.amb \in Sesiones, x.filtra \in Filtros[dedicada],
           NEW C \in SUBSET Permisos, Leida(x.usr, x.amb, LecturasBase, C, x.edad),
           NEW a, a = IF x.filtra THEN "leer_suscripcion" ELSE "guardar"
    PROVE  LET t == [x EXCEPT !.lista = C, !.at = a]
           IN t \in Tarea /\ TareaBien(t)'
<1> DEFINE t == [x EXCEPT !.lista = C, !.at = a]
<1>1. a \in Pasos /\ x.filtra \in BOOLEAN /\ x.edad \in Int
  BY BoundsAssumption DEF Pasos, Leyendo, Tarea
<1>2. t \in Tarea
  BY <1>1, ZenonT(60) DEF Tarea
<1>3. t.at = a /\ t.usr = x.usr /\ t.amb = x.amb /\ t.filtra = x.filtra /\ t.lista = C
      /\ t.edad = x.edad
  BY DEF Tarea
<1> HIDE DEF t
<1>4. Hechas(t) = LecturasBase
  BY <1>1, <1>3 DEF Hechas, Lecturas
<1>5. Leida(x.usr, x.amb, LecturasBase, C, x.edad)'
  BY <1>1, LecturasFuentes, LeidaSigue, Fijas DEF Previo, TypeOK, SinceType
<1>6. Leida(t.usr, t.amb, Hechas(t), t.lista, t.edad)'
  BY <1>3, <1>4, <1>5 DEF Hechas, LecturasBase, Lecturas
<1>7. TareaBien(t)'
  BY <1>1, <1>3, <1>6 DEF TareaBien
<1>8. QED
  BY <1>2, <1>7 DEF t

LEMMA PasoLeer ==
    ASSUME UNCHANGED dedicada, Inv, UNCHANGED since, NEW w \in Workers, Leer(w)
    PROVE  Guarda'
<1> DEFINE l == IF dedicada THEN "roles" ELSE "ambas"
<1>1. Previo /\ Ahora
  BY UnchangedRejuvenece DEF Inv, Previo, TypeOK, SinceType
<1>2. PICK x \in Tarea : x = tarea[w]
  BY <1>1, TareaDe
<1>3. /\ x.usr \in Usuarios /\ x.amb \in Sesiones /\ x.filtra \in Filtros[dedicada] /\ x.edad \in Nat
  BY <1>1, <1>2, TareaDe, BoundsAssumption DEF Leer, At, TareaBien, Tarea
<1>4. PICK C \in Leidos(l, x.usr, x.amb) :
         tarea' = [tarea EXCEPT ![w].lista = C,
                      ![w].at = IF dedicada /\ C # {} THEN "leer_central" ELSE TrasCodigos(w)]
  BY <1>2 DEF Leer
<1>5. UNCHANGED <<tablas, cache, pedido>>
  BY DEF Leer
<1>6. l \in LecturasBase /\ l \in Fuentes
  BY <1>3, LecturasFuentes DEF LecturasBase
<1>7. C \in SUBSET Permisos /\ Visto(l, x.usr, x.amb, C, x.edad)
  BY <1>1, <1>3, <1>4, <1>6, LeidoVisto
<1>8. Leida(x.usr, x.amb, {l}, C, x.edad)
  BY <1>7, PrimeraLeida
<1>9. CASE dedicada /\ C # {}
  <2> DEFINE t == [x EXCEPT !.lista = C, !.at = "leer_central"]
  <2>1. "leer_central" \in Pasos
    BY DEF Pasos, Leyendo
  <2>2. t \in Tarea
    BY <1>7, <2>1, ZenonT(60) DEF Tarea
  <2>3. /\ t.at = "leer_central" /\ t.usr = x.usr /\ t.amb = x.amb /\ t.filtra = x.filtra
        /\ t.lista = C /\ t.edad = x.edad
    BY DEF Tarea
  <2>4. tarea' = [tarea EXCEPT ![w] = t]
    BY <1>2, <1>4, <1>9
  <2> HIDE DEF t
  <2>5. Leida(x.usr, x.amb, {l}, C, x.edad)'
    BY <1>1, <1>3, <1>6, <1>8, LeidaSigue DEF Previo, TypeOK, SinceType
  <2>6. Leida(t.usr, t.amb, Hechas(t), t.lista, t.edad)'
    BY <1>9, <2>3, <2>5 DEF Hechas
  <2>7. TareaBien(t)'
    BY <1>3, <1>9, <2>3, <2>6 DEF TareaBien
  <2>8. QED
    BY <1>1, <1>5, <2>2, <2>4, <2>7, SoloTarea
<1>10. CASE ~(dedicada /\ C # {})
  <2> DEFINE a == IF x.filtra THEN "leer_suscripcion" ELSE "guardar"
             t == [x EXCEPT !.lista = C, !.at = a]
  <2>1. Leida(x.usr, x.amb, LecturasBase, C, x.edad)
    <3>1. CASE dedicada
      <4>1. Leida(x.usr, x.amb, {"roles"} \cup {"central"}, C \cap {}, x.edad)
        BY <1>8, <3>1, OtraLeida DEF Visto
      <4>2. C \cap {} = C /\ {"roles"} \cup {"central"} = LecturasBase
        BY <1>10, <3>1 DEF LecturasBase
      <4>3. QED
        BY <4>1, <4>2
    <3>2. CASE ~dedicada
      BY <1>8, <3>2 DEF LecturasBase
    <3>3. QED
      BY <3>1, <3>2
  <2>2. tarea' = [tarea EXCEPT ![w] = t]
    BY <1>2, <1>4, <1>10 DEF TrasCodigos
  <2>3. t \in Tarea /\ TareaBien(t)'
    BY <1>1, <1>3, <1>7, <2>1, CodigosBien
  <2> HIDE DEF t
  <2>4. QED
    BY <1>1, <1>5, <2>2, <2>3, SoloTarea
<1>11. QED
  BY <1>9, <1>10

LEMMA PasoLeerCentral ==
    ASSUME UNCHANGED dedicada, Inv, UNCHANGED since, NEW w \in Workers, LeerCentral(w)
    PROVE  Guarda'
<1>1. Previo /\ Ahora
  BY UnchangedRejuvenece DEF Inv, Previo, TypeOK, SinceType
<1>2. PICK x \in Tarea : x = tarea[w]
  BY <1>1, TareaDe
<1>3. /\ x.usr \in Usuarios /\ x.amb \in Sesiones /\ x.filtra \in Filtros[dedicada] /\ x.edad \in Nat
      /\ Leida(x.usr, x.amb, {"roles"}, x.lista, x.edad) /\ dedicada
      /\ x.lista \in SUBSET Permisos
  BY <1>1, <1>2, TareaDe, BoundsAssumption
     DEF LeerCentral, At, TareaBien, Tarea, Hechas, Leyendo
<1>4. PICK Y \in Leidos("central", x.usr, x.amb) :
         tarea' = [tarea EXCEPT ![w].lista = @ \cap Y, ![w].at = TrasCodigos(w)]
  BY <1>2 DEF LeerCentral
<1>5. UNCHANGED <<tablas, cache, pedido>>
  BY DEF LeerCentral
<1>6. LecturasBase = {"roles"} \cup {"central"} /\ "central" \in Fuentes
  BY <1>3, LecturasFuentes DEF LecturasBase
<1>7. Y \in SUBSET Permisos /\ Visto("central", x.usr, x.amb, Y, x.edad)
  BY <1>1, <1>3, <1>4, <1>6, LeidoVisto
<1>8. Leida(x.usr, x.amb, LecturasBase, x.lista \cap Y, x.edad)
  BY <1>3, <1>6, <1>7, OtraLeida
<1> DEFINE a == IF x.filtra THEN "leer_suscripcion" ELSE "guardar"
           C == x.lista \cap Y
           t == [x EXCEPT !.lista = C, !.at = a]
<1>9. tarea' = [tarea EXCEPT ![w] = t]
  BY <1>2, <1>4 DEF TrasCodigos
<1>10. C \in SUBSET Permisos
  BY <1>7
<1> HIDE DEF C
<1>11. t \in Tarea /\ TareaBien(t)'
  BY <1>1, <1>3, <1>8, <1>10, CodigosBien DEF C
<1> HIDE DEF t
<1>12. QED
  BY <1>1, <1>5, <1>9, <1>11, SoloTarea

LEMMA PasoLeerSuscripcion ==
    ASSUME UNCHANGED dedicada, Inv, UNCHANGED since, NEW w \in Workers, LeerSuscripcion(w)
    PROVE  Guarda'
<1>1. Previo /\ Ahora
  BY UnchangedRejuvenece DEF Inv, Previo, TypeOK, SinceType
<1>2. PICK x \in Tarea : x = tarea[w]
  BY <1>1, TareaDe
<1>3. /\ x.usr \in Usuarios /\ x.amb \in Sesiones /\ x.filtra \in Filtros[dedicada] /\ x.edad \in Nat
      /\ Leida(x.usr, x.amb, LecturasBase, x.lista, x.edad) /\ x.filtra
      /\ x.lista \in SUBSET Permisos
  BY <1>1, <1>2, TareaDe, BoundsAssumption
     DEF LeerSuscripcion, At, TareaBien, Tarea, Hechas, Leyendo
<1>4. PICK Y \in Leidos("suscripcion", x.usr, x.amb) :
         tarea' = [tarea EXCEPT ![w].lista = @ \cap Y, ![w].at = "guardar"]
  BY <1>2 DEF LeerSuscripcion
<1>5. UNCHANGED <<tablas, cache, pedido>>
  BY DEF LeerSuscripcion
<1>6. PICK L \in SUBSET Fuentes : L = Lecturas(x.filtra)
  BY <1>3, LecturasFuentes
<1>7. /\ L = LecturasBase \cup {"suscripcion"}
      /\ "suscripcion" \in Fuentes /\ "suscripcion" \notin LecturasBase
  BY <1>3, <1>6 DEF Lecturas, LecturasBase
<1>8. Y \in SUBSET Permisos /\ Visto("suscripcion", x.usr, x.amb, Y, x.edad)
  BY <1>1, <1>3, <1>4, <1>7, LeidoVisto
<1> DEFINE C == x.lista \cap Y
           t == [x EXCEPT !.lista = C, !.at = "guardar"]
<1>9. Leida(x.usr, x.amb, L, C, x.edad)
  BY <1>3, <1>7, <1>8, OtraLeida
<1>10. tarea' = [tarea EXCEPT ![w] = t]
  BY <1>2, <1>4
<1>11. C \in SUBSET Permisos /\ "guardar" \in Pasos
  BY <1>8 DEF Pasos, Leyendo
<1> HIDE DEF C
<1>12. t \in Tarea
  BY <1>11, ZenonT(60) DEF Tarea
<1>13. /\ t.at = "guardar" /\ t.usr = x.usr /\ t.amb = x.amb /\ t.filtra = x.filtra
       /\ t.lista = C /\ t.edad = x.edad
  BY DEF Tarea
<1> HIDE DEF t
<1>14. Leida(x.usr, x.amb, L, C, x.edad)'
  BY <1>1, <1>3, <1>9, LeidaSigue DEF Previo, TypeOK, SinceType
<1>15. Leida(t.usr, t.amb, Hechas(t), t.lista, t.edad)'
  BY <1>6, <1>13, <1>14 DEF Hechas, Lecturas, LecturasBase
<1>16. TareaBien(t)'
  BY <1>3, <1>13, <1>15 DEF TareaBien
<1>17. QED
  BY <1>1, <1>5, <1>10, <1>12, <1>16, SoloTarea

LEMMA PasoResolver ==
    ASSUME UNCHANGED dedicada, Inv, UNCHANGED since, NEW w \in Workers, Resolver(w)
    PROVE  Guarda' /\ AnswersAreRecent' /\ told' \in Respuesta \cup {None}
<1>1. Previo
  BY UnchangedRejuvenece DEF Inv, Previo, TypeOK, SinceType
<1>2. ASSUME NEW u \in Usuarios, NEW e \in Sesiones, Acierto(w, u, e)
      PROVE  Guarda' /\ AnswersAreRecent' /\ told' \in Respuesta \cup {None}
  <2>1. PICK x \in Entrada : x = Entra(w, u, e)
    BY <1>2, SitesAssumption DEF Inv, TypeOK, Acierto, Vigente, Entra
  <2>2. x.age <= TTL /\ x.age \in Int /\ x.codes \in SUBSET Permisos
        /\ Reciente(u, e, x.codes, x.age + MaxFill)
    <3>1. x = cache[ProcesoDe[w]][u][e] /\ ProcesoDe[w] \in Procesos /\ Vigente(x)
      BY <1>2, <2>1, SitesAssumption DEF Acierto, Entra
    <3>2. Reciente(u, e, x.codes, x.age + MaxFill)
      BY <3>1 DEF Inv, CacheOK
    <3>3. QED
      BY <3>1, <3>2, BoundsAssumption DEF Vigente, Entrada
  <2>3. told' = [usr |-> u, emp |-> e, codes |-> x.codes]
    BY <1>2, <2>1 DEF Acierto, Responder
  <2>4. told' \in Respuesta
    BY <2>2, <2>3 DEF Respuesta
  <2>5. Reciente(u, e, x.codes, TTL + MaxFill)'
    <3>1. PICK f \in Filtros[dedicada] : Leida(u, e, Lecturas(f), x.codes, x.age + MaxFill)
      BY <2>2 DEF Reciente
    <3>2. Leida(u, e, Lecturas(f), x.codes, TTL + MaxFill)
      BY <1>1, <2>2, <3>1, LecturasFuentes, LeidaCrece, BoundsAssumption
         DEF Previo, TypeOK, SinceType
    <3>3. Reciente(u, e, x.codes, TTL + MaxFill)
      BY <3>2 DEF Reciente
    <3>4. TTL + MaxFill \in Int
      BY BoundsAssumption
    <3>5. QED
      BY <1>1, <3>3, <3>4, RecienteSigue DEF Previo, TypeOK, SinceType
  <2>6. AnswersAreRecent'
    BY <2>3, <2>5 DEF AnswersAreRecent
  <2>7. TablasType' /\ UNCHANGED <<fila, cache, tarea, permisos, pedido>>
    BY <1>1, <1>2, Intactas DEF Acierto, tablas, roles
  <2>8. QED
    BY <1>1, <2>4, <2>6, <2>7, TareasQuietas
<1>3. ASSUME NEW u \in Usuarios, NEW e \in Sesiones, NEW g \in Filtros[dedicada], Fallo(w, u, e, g)
      PROVE  Guarda' /\ told' = None
  <2> DEFINE t == [Libre EXCEPT !.at = "leer", !.usr = u, !.amb = e, !.filtra = g]
  <2>1. t \in Tarea
    BY LibreBien, SitesAssumption DEF Libre, Tarea, Pasos, Inv, TypeOK
  <2>2. TareaBien(t)'
    BY DEF Libre, TareaBien, Leyendo
  <2>3. /\ tarea' = [tarea EXCEPT ![w] = t]
        /\ cache' = [cache EXCEPT ![ProcesoDe[w]][u][e] = None]
        /\ UNCHANGED <<tablas, pedido>> /\ told' = None
    BY <1>3 DEF Fallo, Comenzar
  <2> HIDE DEF t
  <2>4. cache \in [Procesos -> [Usuarios -> [Sesiones -> Entrada \cup {None}]]]
    BY DEF Inv, TypeOK
  <2>5. CacheType' /\ \A k \in Procesos, v \in Usuarios, f \in Sesiones :
                         cache'[k][v][f] \in {None, cache[k][v][f]}
    BY <2>3, <2>4, SitesAssumption DEF CacheType
  <2>6. UNCHANGED fila /\ UNCHANGED pedido /\ UNCHANGED <<permisos, pedido>>
    BY <2>3 DEF tablas, roles
  <2>7. QED
    BY <1>1, <2>1, <2>2, <2>3, <2>5, <2>6, Intactas, PasoDe
<1>4. ASSUME Leer(w) \/ LeerCentral(w) \/ LeerSuscripcion(w) PROVE Guarda' /\ told' = None
  BY <1>4, PasoLeer, PasoLeerCentral, PasoLeerSuscripcion DEF Leer, LeerCentral, LeerSuscripcion
<1>5. ASSUME Guardar(w) PROVE Guarda' /\ AnswersAreRecent' /\ told' \in Respuesta
  <2>1. PICK x \in Tarea : x = tarea[w]
    BY <1>1, TareaDe
  <2>2. /\ x.usr \in Usuarios /\ x.amb \in Sesiones /\ x.lista \in SUBSET Permisos
        /\ x.edad \in 0..MaxFill /\ x.filtra \in Filtros[dedicada]
        /\ Leida(x.usr, x.amb, Lecturas(x.filtra), x.lista, x.edad)
    BY <1>1, <1>5, <2>1, TareaDe DEF Guardar, At, TareaBien, Tarea, Leyendo, Hechas
  <2>3. /\ cache' = [cache EXCEPT ![ProcesoDe[w]][x.usr][x.amb] = [codes |-> x.lista, age |-> 0]]
        /\ told' = [usr |-> x.usr, emp |-> x.amb, codes |-> x.lista]
        /\ tarea' = [tarea EXCEPT ![w] = Libre]
        /\ UNCHANGED <<tablas, pedido>>
    BY <1>5, <2>1 DEF Guardar, Responder, Terminar
  <2>4. told' \in Respuesta
    BY <2>2, <2>3 DEF Respuesta
  <2>5. x.edad \in Int /\ MaxFill \in Int /\ TTL + MaxFill \in Int
        /\ x.edad <= MaxFill /\ x.edad <= TTL + MaxFill
    BY <2>2, BoundsAssumption
  <2>6. /\ Reciente(x.usr, x.amb, x.lista, MaxFill)'
        /\ Reciente(x.usr, x.amb, x.lista, TTL + MaxFill)'
    <3>1. /\ Leida(x.usr, x.amb, Lecturas(x.filtra), x.lista, MaxFill)
          /\ Leida(x.usr, x.amb, Lecturas(x.filtra), x.lista, TTL + MaxFill)
      BY <1>1, <2>2, <2>5, LecturasFuentes, LeidaCrece DEF Previo, TypeOK, SinceType
    <3>2. /\ Reciente(x.usr, x.amb, x.lista, MaxFill)
          /\ Reciente(x.usr, x.amb, x.lista, TTL + MaxFill)
      BY <2>2, <3>1 DEF Reciente
    <3>3. QED
      BY <1>1, <2>2, <2>5, <3>2, RecienteSigue DEF Previo, TypeOK, SinceType
  <2>7. AnswersAreRecent'
    BY <2>3, <2>6 DEF AnswersAreRecent
  <2>8. cache \in [Procesos -> [Usuarios -> [Sesiones -> Entrada \cup {None}]]]
    BY DEF Inv, TypeOK
  <2>9. [codes |-> x.lista, age |-> 0] \in Entrada
    BY <2>2, BoundsAssumption DEF Entrada
  <2>10. CacheType'
    BY <2>2, <2>3, <2>8, <2>9, SitesAssumption DEF CacheType
  <2>11. ASSUME NEW k \in Procesos, NEW u \in Usuarios, NEW e \in Sesiones,
                Vigente(cache[k][u][e])'
         PROVE  Reciente(u, e, cache[k][u][e].codes, cache[k][u][e].age + MaxFill)'
    <3>1. PICK y \in Entrada : y = cache'[k][u][e]
      BY <2>10, <2>11 DEF CacheType, Vigente
    <3>2. CASE k = ProcesoDe[w] /\ u = x.usr /\ e = x.amb
      <4>1. y = [codes |-> x.lista, age |-> 0]
        BY <2>3, <2>8, <3>1, <3>2
      <4>2. y.codes = x.lista /\ y.age + MaxFill = MaxFill
        BY <4>1, BoundsAssumption
      <4>3. QED
        BY <2>6, <3>1, <3>2, <4>2
    <3>3. CASE ~(k = ProcesoDe[w] /\ u = x.usr /\ e = x.amb)
      <4>1. y = cache[k][u][e]
        BY <2>3, <2>8, <3>1, <3>3
      <4>2. Vigente(y)
        BY <2>11, <3>1
      <4>3. Reciente(u, e, y.codes, y.age + MaxFill)
        BY <4>1, <4>2 DEF Inv, CacheOK
      <4>4. y.codes \in SUBSET Permisos /\ y.age + MaxFill \in Int
        BY BoundsAssumption DEF Entrada
      <4>5. Reciente(u, e, y.codes, y.age + MaxFill)'
        BY <1>1, <4>3, <4>4, RecienteSigue DEF Previo, TypeOK, SinceType
      <4>6. QED
        BY <3>1, <4>5
    <3>4. QED
      BY <3>2, <3>3
  <2>12. CacheOK'
    BY <2>11 DEF CacheOK
  <2>13. UNCHANGED fila /\ UNCHANGED pedido /\ UNCHANGED <<permisos, pedido>>
    BY <2>3 DEF tablas, roles
  <2>14. TareaOK' /\ tarea' \in [Workers -> Tarea]
    BY <1>1, <2>3, <2>13, LibreBien, Intactas, UnaTarea DEF Inv, Previo
  <2>15. QED
    BY <1>1, <2>3, <2>4, <2>7, <2>10, <2>12, <2>13, <2>14, Intactas
       DEF Guarda, Previo, Rejuvenece
<1>6. (told' = None) => AnswersAreRecent' /\ told' \in Respuesta \cup {None}
  BY DEF AnswersAreRecent
<1>7. QED
  BY <1>2, <1>3, <1>4, <1>5, <1>6 DEF Resolver
-----------------------------------------------------------------------------
(***************************************************************************)
(* Time.                                                                   *)
(***************************************************************************)
\* What was read at most d ago was read at most d + 1 ago.
LEMMA VistoPasa ==
    ASSUME UNCHANGED dedicada, SinceType, Tick,
           NEW l \in Fuentes, NEW u \in Usuarios, NEW e \in Sesiones,
           NEW X \in SUBSET Permisos, NEW d \in Int, Visto(l, u, e, X, d)
    PROVE  Visto(l, u, e, X, d + 1)'
<1>1. CASE X \in {{}, TrasError(l)}
  BY <1>1 DEF Visto, TrasError, Globales
<1>2. CASE X \notin {{}, TrasError(l)}
  <2>1. X \in Conjuntos
    BY <1>2 DEF Conjuntos
  <2>2. since[u][e][l][X] \in 0..Cap /\ since[u][e][l][X] <= d
    BY <2>1, <1>2 DEF SinceType, Visto
  <2>3. since'[u][e][l][X] = IF X = Valor(l, u, e) THEN 0 ELSE Menor(since[u][e][l][X] + 1, Cap)
    BY <2>1 DEF Tick
  <2>4. since'[u][e][l][X] <= d + 1
    BY <2>2, <2>3, BoundsAssumption DEF Menor, Cap
  <2>5. QED
    BY <2>4 DEF Visto
<1>3. QED
  BY <1>1, <1>2

LEMMA LeidaPasa ==
    ASSUME UNCHANGED dedicada, SinceType, Tick,
           NEW u \in Usuarios, NEW e \in Sesiones, NEW L \in SUBSET Fuentes,
           NEW C, NEW d \in Int, Leida(u, e, L, C, d)
    PROVE  Leida(u, e, L, C, d + 1)'
<1>1. PICK X \in [L -> SUBSET Permisos] :
         /\ \A l \in L : Visto(l, u, e, X[l], d)
         /\ C = {p \in Permisos : \A l \in L : p \in X[l]}
  BY DEF Leida
<1>2. \A l \in L : Visto(l, u, e, X[l], d + 1)'
  BY <1>1, VistoPasa
<1>3. QED
  BY <1>1, <1>2 DEF Leida

LEMMA RecientePasa ==
    ASSUME UNCHANGED dedicada, SinceType, Tick,
           NEW u \in Usuarios, NEW e \in Sesiones, NEW C, NEW d \in Int, Reciente(u, e, C, d)
    PROVE  Reciente(u, e, C, d + 1)'
<1>1. PICK f \in Filtros[dedicada] : Leida(u, e, Lecturas(f), C, d)
  BY DEF Reciente
<1>2. Leida(u, e, Lecturas(f), C, d + 1)'
  BY <1>1, LecturasFuentes, LeidaPasa, Fijas
<1>3. QED
  BY <1>2 DEF Reciente

LEMMA PasarBien ==
    ASSUME NEW x \in Entrada \cup {None}
    PROVE  /\ Pasar(x) \in Entrada \cup {None}
           /\ Vigente(Pasar(x)) => /\ x \in Entrada /\ Vigente(x)
                                   /\ Pasar(x).codes = x.codes
                                   /\ Pasar(x).age = x.age + 1
<1>1. CASE x = None
  BY <1>1 DEF Pasar, Vigente
<1>2. CASE x # None
  <2>1. x \in Entrada /\ x.age \in 0..(TTL + 1) /\ x.codes \in SUBSET Permisos
    BY <1>2 DEF Entrada
  <2>2. Pasar(x) = [x EXCEPT !.age = Menor(x.age + 1, TTL + 1)]
    BY <1>2 DEF Pasar
  <2>3. Menor(x.age + 1, TTL + 1) \in 0..(TTL + 1)
    BY <2>1, BoundsAssumption DEF Menor
  <2>4. Pasar(x) \in Entrada
    BY <2>1, <2>2, <2>3 DEF Entrada
  <2>5. Pasar(x).codes = x.codes /\ Pasar(x).age = Menor(x.age + 1, TTL + 1)
    BY <2>1, <2>2 DEF Entrada
  <2>6. Pasar(x).age <= TTL => Pasar(x).age = x.age + 1 /\ x.age <= TTL
    BY <2>1, <2>5, BoundsAssumption DEF Menor
  <2>7. QED
    BY <1>2, <2>1, <2>4, <2>5, <2>6 DEF Vigente
<1>3. QED
  BY <1>1, <1>2

LEMMA PasoTick ==
    ASSUME UNCHANGED dedicada, Inv, Tick
    PROVE  Guarda' /\ AnswersAreRecent' /\ told' \in Respuesta \cup {None} /\ Ahora'
<1> USE DEF Inv
<1>1. SinceType /\ UNCHANGED <<tablas, pedido>> /\ told' = None
      /\ UNCHANGED <<eliminado, rolActivo, fila, permisos, modulo, activos, moduloDe>>
  BY DEF TypeOK, SinceType, Tick, tablas, roles, central, catalogo
<1> DEFINE G(u, e, l, C) == IF C = Valor(l, u, e) THEN 0 ELSE Menor(since[u][e][l][C] + 1, Cap)
<1>2. SinceType'
  <2>1. ASSUME NEW u \in Usuarios, NEW e \in Sesiones, NEW l \in Fuentes, NEW C \in Conjuntos
        PROVE  G(u, e, l, C) \in 0..Cap
    <3>1. since[u][e][l][C] \in 0..Cap
      BY <1>1 DEF SinceType
    <3>2. QED
      BY <3>1, BoundsAssumption DEF Menor, Cap
  <2>2. since' = [u \in Usuarios |-> [e \in Sesiones |-> [l \in Fuentes |->
                    [C \in Conjuntos |-> G(u, e, l, C)]]]]
    BY DEF Tick
  <2> HIDE DEF G
  <2>3. QED
    BY <2>1, <2>2, Fijas DEF SinceType
<1>3. Ahora'
  <2>1. \A u \in Usuarios, e \in Sesiones, l \in Fuentes : Valor(l, u, e)' = Valor(l, u, e)
    BY <1>1, ValorIgual
  <2>2. \A u \in Usuarios, e \in Sesiones, l \in Fuentes, C \in Conjuntos :
            since'[u][e][l][C] = G(u, e, l, C)
    BY DEF Tick
  <2>3. QED
    BY <2>1, <2>2, Fijas DEF Ahora
<1>4. ASSUME NEW k \in Procesos, NEW u \in Usuarios, NEW e \in Sesiones
      PROVE  /\ cache'[k][u][e] \in Entrada \cup {None}
             /\ Vigente(cache[k][u][e])' =>
                  Reciente(u, e, cache[k][u][e].codes, cache[k][u][e].age + MaxFill)'
  <2>1. PICK x \in Entrada \cup {None} : x = cache[k][u][e]
    BY DEF TypeOK
  <2>2. cache'[k][u][e] = Pasar(x)
    BY <2>1 DEF Tick
  <2>3. ASSUME Vigente(Pasar(x))
        PROVE  Reciente(u, e, Pasar(x).codes, Pasar(x).age + MaxFill)'
    <3>1. /\ x \in Entrada /\ Vigente(x)
          /\ Pasar(x).codes = x.codes /\ Pasar(x).age = x.age + 1
      BY <2>3, PasarBien
    <3>2. x.codes \in SUBSET Permisos /\ x.age + MaxFill \in Int /\ x.age \in Int
      BY <3>1, BoundsAssumption DEF Entrada
    <3>3. Reciente(u, e, x.codes, x.age + MaxFill)
      BY <2>1, <3>1 DEF CacheOK
    <3>4. Reciente(u, e, x.codes, (x.age + MaxFill) + 1)'
      BY <1>1, <3>2, <3>3, RecientePasa
    <3>5. (x.age + MaxFill) + 1 = Pasar(x).age + MaxFill
      BY <3>1, <3>2, BoundsAssumption
    <3>6. QED
      BY <3>1, <3>4, <3>5
  <2>4. QED
    BY <2>2, <2>3, PasarBien DEF Vigente
<1>5. CacheType'
  BY <1>4 DEF CacheType, Tick
<1>6. CacheOK'
  BY <1>4 DEF CacheOK
<1>7. ASSUME NEW w \in Workers PROVE tarea'[w] \in Tarea /\ TareaBien(tarea[w])'
  <2>1. PICK x \in Tarea : x = tarea[w] /\ TareaBien(x)
    BY DEF TypeOK, TareaOK
  <2>2. CASE x.at \in Leyendo
    <3> DEFINE t == [x EXCEPT !.edad = @ + 1]
    <3>1. x.edad \in 0..MaxFill /\ x.edad < MaxFill /\ x.lista \in SUBSET Permisos
      BY <2>1, <2>2 DEF Tick, At, Tarea
    <3>2. x.edad + 1 \in 0..MaxFill
      BY <3>1, BoundsAssumption
    <3>3. t \in Tarea
      BY <3>2, ZenonT(60) DEF Tarea
    <3>4. t.at = x.at /\ t.usr = x.usr /\ t.amb = x.amb /\ t.lista = x.lista
          /\ t.filtra = x.filtra /\ t.edad = x.edad + 1
      BY <2>2 DEF Tarea
    <3>5. tarea'[w] = t
      BY <2>1, <2>2 DEF Tick, At
    <3> HIDE DEF t
    <3>6. /\ x.usr \in Usuarios /\ x.amb \in Sesiones /\ x.filtra \in Filtros[dedicada]
          /\ Leida(x.usr, x.amb, Hechas(x), x.lista, x.edad) /\ Hechas(x) \in SUBSET Fuentes
          /\ x.at = "leer_central" => dedicada
          /\ x.at = "leer_suscripcion" => x.filtra
      BY <2>1, <2>2, HechasFuentes DEF TareaBien
    <3>7. Hechas(t)' = Hechas(x) /\ Hechas(x)' = Hechas(x)
      BY <3>4 DEF Hechas, Lecturas, LecturasBase
    <3>8. Leida(x.usr, x.amb, Hechas(x), x.lista, x.edad + 1)'
      <4>1. x.edad \in Int
        BY <3>1, BoundsAssumption
      <4>2. QED
        BY <1>1, <3>6, <3>7, <4>1, LeidaPasa
    <3>9. TareaBien(t)'
      BY <2>2, <3>4, <3>6, <3>7, <3>8 DEF TareaBien, Leyendo
    <3>10. QED
      BY <3>3, <3>5, <3>9
  <2>3. CASE x.at \notin Leyendo
    <3>1. tarea'[w] = x
      BY <2>1, <2>3 DEF Tick, At
    <3>2. TareaBien(x)'
      BY <1>1, <2>1, <2>3 DEF TareaBien
    <3>3. QED
      BY <3>1, <3>2
  <2>4. QED
    BY <2>2, <2>3
<1>8. tarea' \in [Workers -> Tarea]
  BY <1>7 DEF Tick
<1>9. TablasType' /\ OnlyAskedFor'
  BY <1>1 DEF TypeOK, TablasType, OnlyAskedFor
<1>10. AnswersAreRecent'
  BY <1>1 DEF AnswersAreRecent
<1>11. QED
  BY <1>1, <1>2, <1>3, <1>5, <1>6, <1>7, <1>8, <1>9, <1>10 DEF Guarda, TareaOK

-----------------------------------------------------------------------------
(***************************************************************************)
(* The invariant.                                                          *)
(***************************************************************************)
LEMMA InitInv == Init => Inv
<1> SUFFICES ASSUME Init PROVE Inv
  OBVIOUS
<1> USE DEF Init
<1>1. TablasType
  BY SitesAssumption DEF TablasType
<1>2. tarea \in [Workers -> Tarea] /\ TareaOK
  BY LibreBien DEF TareaOK
<1>3. cache \in [Procesos -> [Usuarios -> [Sesiones -> Entrada \cup {None}]]]
      /\ CacheOK
  BY DEF CacheOK, Vigente
<1>4. SinceType
  <2>1. \A n \in {0, Cap} : n \in 0..Cap
    BY BoundsAssumption DEF Cap
  <2>2. QED
    BY <2>1 DEF SinceType
<1>5. TypeOK
  BY <1>1, <1>2, <1>3, <1>4 DEF TypeOK, TablasType, SinceType
<1>6. Ahora
  BY DEF Ahora
<1>7. AnswersAreRecent /\ OnlyAskedFor
  BY DEF AnswersAreRecent, OnlyAskedFor
<1>8. QED
  BY <1>2, <1>3, <1>5, <1>6, <1>7 DEF Inv

LEMMA NextInv == Inv /\ [Next]_vars => Inv'
<1> SUFFICES ASSUME Inv, [Next]_vars PROVE Inv'
  OBVIOUS
<1>0. UNCHANGED dedicada
  BY DEF Next, vars
<1>1. ASSUME Guarda', AnswersAreRecent', told' \in Respuesta \cup {None}, Ahora'
      PROVE  Inv'
  BY <1>0, <1>1 DEF Guarda, TablasType, CacheType, SinceType, Inv, TypeOK
<1>2. SinceType
  BY DEF Inv, TypeOK, SinceType
<1>3. CASE Tick
  BY <1>0, <1>1, <1>3, PasoTick
<1>4. CASE (\E w \in Workers : "consultas" \in Atiende[dedicada][w] /\ Resolver(w)) /\ UNCHANGED since
  <2>1. Guarda' /\ AnswersAreRecent' /\ told' \in Respuesta \cup {None}
    BY <1>0, <1>4, PasoResolver
  <2>2. UNCHANGED tablas
    BY <1>4 DEF Resolver, Acierto, Fallo, Leer, LeerCentral, LeerSuscripcion, Guardar
  <2>3. \A u \in Usuarios, e \in Sesiones, l \in Fuentes : Valor(l, u, e)' = Valor(l, u, e)
    BY <1>0, <2>2, ValorIgual
  <2>4. Ahora'
    BY <1>0, <1>4, <2>3, Fijas DEF Ahora, Inv
  <2>5. QED
    BY <1>1, <2>1, <2>4
<1>5. CASE /\ (\E w \in Workers : Escribir(w)) \/ Cambiar \/ (\E k \in Procesos : Reiniciar(k))
           /\ Recordar
           /\ told' = None
  <2>1. Previo
    BY <1>0, <1>2, <1>5, RecordarRejuvenece DEF Inv, Previo
  <2>2. Guarda'
    BY <1>0, <1>5, <2>1, PasoEscribir, PasoCambiar, PasoReiniciar
  <2>3. Ahora'
    BY <1>0, <1>5, Fijas DEF Recordar, Ahora
  <2>4. QED
    BY <1>1, <1>5, <2>2, <2>3 DEF AnswersAreRecent
<1>6. CASE UNCHANGED vars
  <2>1. /\ UNCHANGED <<eliminado, rolActivo, fila, permisos, modulo, activos, moduloDe>>
        /\ UNCHANGED <<tablas, pedido, cache, tarea, told, since>>
    BY <1>6 DEF vars, tablas, roles, central, catalogo
  <2>2. TypeOK' /\ OnlyAskedFor'
    BY <1>0, <2>1, Fijas DEF Inv, TypeOK, OnlyAskedFor
  <2>3. Previo /\ TablasType'
    BY <1>0, <1>2, <2>1, UnchangedRejuvenece, Intactas DEF Inv, Previo
  <2>4. Guarda'
    BY <1>0, <2>1, <2>3, TareasQuietas
  <2>5. AnswersAreRecent'
    BY <1>0, <2>1, Fijas DEF Inv, AnswersAreRecent, Reciente, Leida, Visto
  <2>6. told' \in Respuesta \cup {None}
    BY <2>1 DEF Inv, TypeOK
  <2>7. Ahora'
    BY <1>0, <2>1, ValorIgual, Fijas DEF Inv, Ahora
  <2>8. QED
    BY <1>1, <2>4, <2>5, <2>6, <2>7
<1>7. QED
  BY <1>3, <1>4, <1>5, <1>6 DEF Next

LEMMA InvAlways == Spec => []Inv
  BY InitInv, NextInv, PTL DEF Spec

\* Every variable keeps its type: among others, what a process has cached,
\* and what a request is about to cache, are sets of permission codes of an
\* existing user and company.
THEOREM AccessTypeCorrect == Spec => []TypeOK
<1>1. Inv => TypeOK
  BY DEF Inv
<1>2. QED
  BY <1>1, InvAlways, PTL

\* get_effective_permissions: every answer is what its reads gave together,
\* each at some moment of the last TTL + MaxFill: one read of a shared
\* database, two for a tenant with its own, one more for the filter by
\* subscription.
THEOREM AnswersAreRecentAlways == Spec => []AnswersAreRecent
<1>1. Inv => AnswersAreRecent
  BY DEF Inv
<1>2. QED
  BY <1>1, InvAlways, PTL

\* set_permisos_negocio_rol: a role holds no permission that nobody asked
\* for since its permissions were last deleted.
THEOREM OnlyAskedForAlways == Spec => []OnlyAskedFor
<1>1. Inv => OnlyAskedFor
  BY DEF Inv
<1>2. QED
  BY <1>1, InvAlways, PTL
=============================================================================
